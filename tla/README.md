# Verification of the ATmega32U4 boot loader and command-line firmware

The repository holds a USB DFU boot loader for the ATmega32U4 (a fork of LUFA's
class boot loader) and two USB-serial command lines that run as its application.
This directory models their logic in TLA+, checks it with TLC on small
instances, and proves the main safety properties with TLAPS for every value of
the constants.

    tlc -workers 2 -config DFUFlash.cfg MCBootloaderDFU.tla     # one run
    tlapm BootloaderDFUSafety.tla                               # one set of proofs

`PROJECT.json` lists components, runs, source lines of every definition,
findings, hazards, and for each checked property a plausible slip in the code
that breaks it (the operators commented "Slip" in the modules).

## Inventory

| component | state it keeps | operations | talks to |
|---|---|---|---|
| Flash API (`BootloaderAPI.c`, `BootloaderAPITable.S`) | flash, SPM page buffer, lock bits | erase, write, fill, read signature/fuse/lock, write lock | called by the DFU handler and, through the jump table, by the application |
| DFU handler (`BootloaderDFU.c/.h`) | `IsSecure`, `RunBootloader`, `WaitForExit`, `DFU_State`, `DFU_Status`, `SentCommand`, `ResponseByte`, `AppStartPtr`, `Flash64KBPage`, `StartAddr`, `EndAddr`, `MagicBootKey`, EEPROM | DNLOAD, UPLOAD, GETSTATUS, CLRSTATUS, GETSTATE, ABORT; the commands PROG_START, DISP_DATA, WRITE, READ, CHANGE_BASE_ADDR | the control endpoint (LUFA), flash API, watchdog |
| Start-up and exit | fuses, `MCUSR`, `MCUCR`, magic key, watchdog, USB and interrupt enables | reset, start-up code of four programs, `reboot`, `bootloader`, exit commands | hardware, all programs |
| GPIO command line (`cdc-gpio-cli/gpio.c`, `command.c`) | DDRx, PORTx, MCUCR | `gpio`, `reboot`, `bootloader` and printing commands | registers, watchdog, boot loader |
| CDC glue (`usb.c`, `main.c` of both CLIs, which are the same) | two endpoint banks, the line encoding, the loop's `value`, strings being printed | read a byte, feed the line editor, print, USB task; control requests in an interrupt | LUFA, mcucli |
| Simple CLI (`cdc-simple-cli/command.c`) | none | help, version, reboot, bootloader | line editor, watchdog, boot loader |
| Descriptors (`Descriptors.c/.h`, `usb.c/.h`) | constant tables; the endpoints that are set up | look-up, set configuration | LUFA, host |
| `usart-hello-world` | none | start-up, one line of output | hardware |
| `gen-firmware.py`, makefiles, scripts | a file layout | pack | |
| LUFA, mcucli | empty submodules | | modelled only as the code uses them |

What is hard here:

* **Waits inside a request.** The handler moves packets in polling loops. At any
  of them the cable may be pulled, and then it returns with half of its work
  done: an erased page, a half-filled page buffer that cannot be read back, a
  `StartAddr` that has advanced.
* **Retained state.** `SentCommand` is overwritten only as far as a command
  reaches, is consulted by later requests, and is processed a second time while
  an exit is pending.
* **Sixteen-bit ranges**, halved to words, cut into pages and packets whose
  borders need not agree.
* **Security by erase.** A locked build opens when "the" erase has finished; an
  erase takes many steps and can be cut short.
* **Bits that share a register**, with reserved neighbours, in the GPIO command
  line.
* **Handing over the machine.** Programs start each other by reset, watchdog and
  jump, and inherit the watchdog, the vector table and a USB controller.
* **A line that can close at any time**, between the check and the write of a
  byte, and a host that stops reading while the program prints.
* **Saying things twice**: descriptors announce what other tables set up.

What makes each part correct: no caller can alter the boot section; bytes land
only where they were sent, after an erase; only the pages asked for change;
nothing leaves a locked device and only a whole erase opens it; a pending exit
can only repeat the exit; a command that fails sets a status, a read is answered
with what it asked for, requests end; a pin command acts on its pin alone and no
reserved bit is set by one; an interrupt finds the vectors of the program that
runs, and the watchdog resets who switched it on; a serial line doubles and reorders
nothing, leaves out only what the line or the host refuses, and gets stuck in
neither direction; what a device says of itself is what it does.

## Modules

| module | what it models |
|---|---|
| `BootloaderAPI` | the flash functions, one operator per function, and the geometry assumption `FlashGeometry` |
| `BootloaderAPITable` | an application calling the jump table in any order with any argument |
| `BootloaderDFU` | the request handler; extends `BootloaderAPI`, so its erase, write and fill steps are the API's |
| `FlashPages` | abstract specification: a range is announced, its pages turn blank and take the bytes that belong there, a whole erase unlocks |
| `BootloaderDFUProperties` | the properties of the handler, the refinement mapping to `FlashPages`, what the proofs about downloads ask of board and host, and a sentence of the code's comments that it does not keep |
| `PinBoard` | abstract specification: command lines about pins, each with a direction and a latch |
| `Gpio` | the command line on registers, bit maps and masks, with the refinement mapping to `PinBoard` |
| `Lifecycle` | the four programs, their start-up code, the commands that leave them, fuses, watchdog, vectors, resets |
| `ByteLine` | abstract specification: a serial line with the bytes on their way up and down, what the program has still to say and what the host was shown |
| `SerialLoop` | the command loop and its USB glue, with the refinement mapping to `ByteLine` |
| `Enumeration` | the descriptor tables and look-up of both devices, and a host that enumerates |
| `MCBootloaderAPI`, `MCBootloaderDFU`, `MCGpio`, `MCLifecycle`, `MCSerialLoop` | the hosts, call arguments, ports, images and bytes of the runs (the lengths of `Enumeration` are in its configuration) |
| `FlashLemmas`, `BootloaderAPIProofs` | page arithmetic; types and boot section under API calls |
| `BootloaderDFUSafety` | type correctness; the theorems about locking, exits, errors, and the end of every loop |
| `BootloaderDFUTransfers` | the theorems about reads, uploads and downloads, the refinement of `FlashPages`, and the waits for the host |
| `GpioProofs` | reserved bits, and the refinement of `PinBoard` |
| `SerialProofs` | types and bounds of the loop, the refinement of `ByteLine`, strings without gaps |
| `LifecycleProofs` | the interrupt vectors, the watchdog and the jump through every start-up, exit and reset |
| `EnumerationProofs` | descriptors are whole and true, whatever lengths the host asks for |

### Correspondence: flash

A flash cell holds a tag: `Original` (there at power-up), `Blank`, `BootCode`,
`Junk` (filler, suffix or an empty FIFO), `Corrupt` (programmed without an
erase), or a natural number *a*, the byte the host sent for address *a*. So
"byte *a* is where it belongs" is `flash[a] = a`. `Program` lets a cell take data
only when blank. The page buffer ignores a second fill of a loaded slot and is
cleared by `boot_rww_enable()` at the end of an erase or a write; `FillWord` does
not check its address, as in the source. An erase or a write is one step, since
each is an atomic block ended by a busy wait.

### Correspondence: DFU handler

`EVENT_USB_Device_ControlRequest` starts one of the host's `Requests`; `pc` is the
place in the handler, `loop` its locals (`remaining` is `BytesRemaining` or
`WordsRemaining` or `NumberOfBytes`, `cursor` is `CurrFlashAddress.Long`,
`pageStart` and `words` are `CurrFlashPageStartAddress` and `WordsInFlashPage`).
`caller` tells which of the two calls of `ProcessBootloaderCommand` is running.
One action is the code from one place where it can wait, or where flash changes,
to the next. All other variables have the source's names.

The control endpoint is `ep`: whose `turn` it is, the bytes in the `bank`, and the
bytes `moved` so far. The host lays a program command out as dfu-programmer does
(header, filler, padding to the start address within a packet, firmware, suffix):
`StreamByte`, which tags a byte with the address it is for: a flash address in the
64 KB bank, a plain EEPROM address. Reading an empty bank returns `Junk`. `GiveUp` is the return every
wait loop makes in `DEVICE_STATE_Unattached`; `DiscardGivenUp` is the one wait whose
return stays inside the handler. `Restart` is `main`: the statics get their
initial values and flash, EEPROM and lock bits stay.

### Correspondence: GPIO

A register is the set of its one bits, so `BIT_RESET` and the masks are set
operations, and `gpio_pin_map` is a function from pins to rows. A command runs to
its end before the next line is read, hence one action per command, and `told`
keeps the line it was given; how a line comes in and its output goes out is
`SerialLoop`. The exception is `process_bootloader`, whose two writes of `MCUCR`
(`1 << IVCE`, then 0) are two steps; it does not go through `gpio_write`, so
`ReservedClear` allows it `IVCE` between them, and `PUD` alone otherwise. `wires` is what
the outside world puts on the pins, and `PinLevels` what the PINx register then
shows. `Reset` is any reset: where it leads and the start-up code are `Lifecycle`'s.

`PinBoard` has no registers, bits or masks. Its state is the same `told`, a function
from pins to directions, one to latches, and what was shown; each action is one
command line and says what that line must do to the pin or the port it names, and
that nothing else moves. `told` belongs to both, so a step for one line cannot pass
for a step of another: a set that does nothing, a neighbour that is lost or a wrong
row of the map breaks `PinsAsTold`.

### Correspondence: FlashPages

`Contents` is the application part of `flash`, `locked` is `IsSecure`. The announced
range is `StartAddr .. EndAddr` (in the 64 KB bank) while `DFU_State` is
`dfuDNLOAD_IDLE`, and none otherwise; `erasing` is the page of the erase loop.
`ErasePage` is `Announce` or `Open`, `WritePage` is `Fill`, the steps of the chip erase
are `StartErase` and `EraseNext`, and a restart, as well as an erase given up by one,
is `Reset`. `Fill` needs a blank page, so the refinement says that no page is ever
programmed without its erase, at a shifted place or beyond the announced range.

### Correspondence: Lifecycle

A program is the list `todo` of those steps of its start-up code, or of a command
that leaves it, that touch the watchdog, the vectors, USB or the I flag, in the
order of the source; with `todo` empty it serves in its main loop, and with `spin`
it waits for the watchdog. `IVSEL`, `WDRF`, `WDE` are the bits of `MCUCR`, `MCUSR` and
`WDTCSR`; the hardware keeps `WDE` set while `WDRF` is. The C runtime clears the I flag
before `main`. `image` is what the application section holds: a program, or the
front part of one, and how far it reaches. Execution from an address (`Landing`)
starts a program at address 0, slides through blank words into the boot loader,
and is `lost` anywhere else. `JumpTarget` is where `((void (*)(void))0x7000)()` goes:
avr-gcc function pointers count words, and the program counter has as many bits
as 32 KB of flash has words, so it is byte 0x6000.

### Correspondence: SerialLoop

`pc` is the place in `main`'s loop or in the driver below it; each action is a stretch
of code between two places where an interrupt or the host can make a difference.
`outBank` and `inBank` are the single banks of the two data endpoints, `sending`
whether the in-bank belongs to the host. `usb_write_byte` is `CheckLine`, then
`WaitUntilReady` (LUFA gives up after 100 ms, at any moment of the model) and
`PutByte`, because control requests are served in an interrupt
(`INTERRUPT_CONTROL_ENDPOINT` in `LUFAConfig.h`) and may close the line in between.
The line editor is not in the repository: for each byte it may print a string
through `usb_puts`, and at the end of a line also run a command, which prints by
`printf`, reboots or disables USB. The two differ in `AfterRefusal`: `usb_puts` stops at
the first byte that is refused, `printf` goes on. A reboot spins until `WatchdogFires`;
the bootloader command switches the controller off and is `gone`, where no event
of the bus comes any more, and `ComesBack` if somebody resets the board.

A printed byte is known by the function that prints its string and its place in it.
`ByteLine` follows each byte from `saying` (what the program has still to say) through
`down` to `shown`: `Say` hands over just the next byte, `GiveUp` leaves it out and is possible
only when the line is not open or the host has a packet it has not taken, `Lose` is the
byte that was let through before the line went off, and `Show` moves a whole packet.
So a byte that is dropped, doubled, overtaken or changed on an open line breaks
`LineKept`. `NoGaps` says what that leaves of a string of `usb_puts`. It is about the
time since the line came up: across a disconnection the byte in hand is lost,
`usb_puts` is not told, and what follows goes out if the line is open again in time.

### Correspondence: Enumeration

`BootloaderParts` and `CommandLineParts` are the configuration structures member by
member; `SetUp` is `cdc_interface`. `Places` adds the sizes up, which are also those the
headers give, so `Offset` is where a host that goes by the headers finds the members.
The host fetches descriptors in any order and of any of the `Lengths`, packet by
packet, and knows only what has arrived (`Read`). `Answer` cuts the look-up's size to the
length asked for, as LUFA does.

## Runs

The small device has pages and packets of 8 bytes (128 and 32 on the part), two
or three application pages and one boot page, 12 bytes of EEPROM, 2 filler bytes
(6 + 2 fill a packet, as 6 + 26 do) and 4 suffix bytes. Page and packet borders,
partial pages, partial packets, words and odd bytes all occur; a third page shows
the page loop's second turn. Each host issues its requests in any order and any
number of times; the state is bounded by the flash and the widths of the
counters, so no run needs a depth bound. The cable is pulled, power fails and an
armed watchdog fires between any two steps of every run. `Attach` stands for a device
that is configured again, and comes when no request is served: `main` serves the
requests that enumerate it, too. (A cable that is put back while the handler still
waits is not modelled: the waits look for the unattached state every few cycles.)
`dfu_transfer` has transfers of two packets, so an EEPROM transfer is cut short between
its bytes, and an odd range of flash, whose last byte the halving to words drops.

`lifecycle` has the real addresses (boot section at 0x7000 of 32 KB), every fuse
setting, and images of each program, a large one and a broken one. `serial` has
banks of 2 bytes (16 on the part), strings of up to 3 bytes and the bytes 13 and
255: a full bank, the flush after it, a string across two banks and the byte
that looks like -1 all occur. `enumeration` has the real tables and the lengths 16,
32, 64 and 255: below, at and above a packet and a descriptor.

| run | states | shows |
|---|---|---|
| `api` | 16384 | `BootSectionIntact` with aligned and unaligned addresses on both sides of the border |
| `dfu_flash` | 2.3 million | `TypeOK`, `BootSectionIntact`, `PlacedWhereSent`, `ProgrammedRange` and the refinement `PagesAsPromised`, for downloads that are whole, partial, odd, border-crossing, backward, off a page border or in another bank, for erases, and for any mix of them cut short |
| `dfu_transfer` | 672632 | `EepromPlaced` (packet-aligned starts), `UploadExact`, transfers cut short included; `NoStandstill`, `RequestsEnd` |
| `dfu_secure` | 1.8 million | `SecretsGone`, `NoSecretSent`, `LockedOnlyErases`, `OpenedByErase`, `OnlyAskedPagesChange`, `EveryStepCounts` in a locked build, over-long commands included |
| `dfu_session` | 1.1 million | `ExitPending`, `AcknowledgementHarmless`, `NoSilentError`, `ReadAnswered`: the two-request exit, reads and checks that fail or succeed |
| `gpio` | 46084 | `ReservedClear`, and `PinsAsTold`: `Gpio` implements `PinBoard`, ports C and E (those with the most reserved bits) |
| `lifecycle` | 1912 | `OwnVectors`, `NoStrayReset`, `Honoured` |
| `serial` | 1.1 million | `LineTypeOK`, `NoGaps`, `TypedIsHeard`, `SaidIsShown`, and `LineKept`: `SerialLoop` implements `ByteLine` |
| `enumeration` | 903 | `WholeAnswers`, `NamedIsAnswered`, `ToldAsSetUp` |

The checks are for a build with `SECURE_MODE` true where the property is about
locking, and with the repository's default `false` elsewhere. In `dfu_flash` the
requests announce just the data they need; `dfu_secure` has hosts that do not. In
`dfu_flash`, which is never locked, the part of `PagesAsPromised` about the lock says
nothing; the theorem `DFUImplementsPages` covers it for both builds, and
`LockedOnlyErases` and `OpenedByErase` say it of the locked one. The exits are in
`dfu_session` only. `NoSilentError` is about commands that fail: CLRSTATUS, which takes
the status away and leaves `dfuERROR`, is exempt (see below).

`NoStrayReset` rests on a history variable, `armed`: a program has switched the watchdog
on since the last reset. Every reset takes it back, so a second watchdog reset
after an exit or a reboot that was granted counts as a stray one.

### Deviations from the documentation

These runs end in a counterexample; each states a sentence of the repository.

| run | sentence | what the code does |
|---|---|---|
| `eeprom_unaligned` | the alignment filler is thrown away (`BootloaderDFU.c:216`) | one filler byte too few across a packet border: EEPROM bytes are shifted by one. Flash escapes it because its pages start on packet borders |
| `exit_needs_app` | ends if a valid application is loaded (`BootloaderDFU.c:653`) | the comparison is the other way round |
| `bootloader_jump` | enter the bootloader (`command.c:273`) | jumps to byte 0x6000, which is in the application when that reaches past 24 KB (`gen-firmware.py` accepts 28 KB) |

The models have more of them, which no run states: CLRSTATUS resets the status and
not the state (`BootloaderDFU.h:131`); `DFU_Status` outlives commands that succeed
(`BootloaderDFU.c:68`); the main loop never looks at the exit flags (`:49`); the
watchdog does not wait for the final exit command (`:59`); a read after an error
with `Data[0] = 1`, and a blank check that succeeds after one, are answered with
`StartAddr` (`:78`, `:322`); the jump address is ignored when the command has exactly
its five bytes (`:85`); `Application_Jump_Check`, which is to force the application's
start by the key, is declared (`BootloaderDFU.h:225`) and never defined, so with /HWB
held low an exit comes back to the boot loader (`:107-114`); `gpio <pin>` prints the
latch, not the level of the pin (`cdc-gpio-cli/command.c:47`).

## Fairness

`FairSpec` is weakly fair for the handler (the processor keeps running; all
handler steps are in one chain, so weak fairness of their disjunction is enough)
and for `HostSendsPacket` and `HostTakesPacket` (a plugged-in host keeps moving the
data stage it asked for). Nothing makes a host issue a request, plug in again, or
finish with a device that answers with more than was asked. `LifeSpec` has the processor (`Run`) and the
watchdog (`WatchdogFires`); nobody has to reset the board or give a command.
`SerialSpec` has the processor (`Loop`; the 100 ms limit of the driver's waits is one
of its steps) and `WatchdogFires`, which ends the endless loop of a reboot command
and nothing else: nobody owes a board that has gone to the bootloader a reset, and
`TypedIsHeard` and `SaidIsShown` do not need one, since the line is off there. The host owes
nothing, except in `SaidIsShown`, which is about a host that goes on reading and
assumes `WF_serialVars(HostTakes)` itself.

## Proofs

Assumptions: `FlashGeometry` (an even page size; the boot section and the flash
end on page borders), `DFUConstants` (sizes are naturals, a packet is longer than
a command header, requests have byte and word fields), `CallsAreWords`,
`GpioConstants`, `SerialConstants` (bytes are at most 255, a bank holds one),
`LifecycleConstants` (the boot section starts inside flash, an image ends below it),
`EnumerationConstants` (a host asks for at least one byte).
All are evaluated by TLC in the runs too.

### API, command lines, life cycle and descriptors

| theorem | argument |
|---|---|
| `APITypeOK`, `APIBootSectionIntact` | the types are inductive; `PageBelowBoot`: two multiples of the page size that differ are a page apart, so a page accepted by `IsPageAddressValid` ends below the border |
| `GpioReserved` | `GpioTypeOK /\ ReservedClear` is inductive: whatever is written, only masked bits change, and the two unmasked writes of the bootloader command are `IVCE` and nothing |
| `GpioImplementsBoard` | initial states map to `Released`, each command to the board's step for the same line, by what a write of one bit and a write of a whole register mean for each pin |
| `SerialTypes` | `SerialInv` is inductive: types; the byte in hand at `edit` is the one `value` holds; banks are empty while unplugged and after a wait that ended well; at `put` the bank is the program's and has room |
| `SerialKeepsLine` | every step maps to a step of `ByteLine` or a stutter; `SerialInv` gives that the byte that is heard is the one that was read, that a byte that looks like -1 is told from it, that the next byte of a string is the one that is put, into a bank that is the program's, and that one is refused only when `GiveUp` may be taken |
| `SerialNoGaps` | `GapInv` is inductive with `SerialInv`: what the host has and is about to get (`Out`) is without gaps; a string of `usb_puts` in the midst of print goes on after the last byte of `Out`, unless the line has been off since (`GoesOnWhereItWas`); the strings after it are whole. A refused string of `usb_puts` has nothing left to go on with |
| `LifecycleInvariant`, `LifecycleVectors`, `LifecycleNoStrayReset` | `LifeInv` is inductive: `TodoOK`, the running program and what is left of its steps fit together (18 named lists; `NextStep`: the next step tells the whole list); `VectorsOK`, the bootloader has its vectors from the step that selects them on, an application never, and the jump leaves with USB off; `WatchdogOK`, past the early steps of a start-up the watchdog is off unless the program is rebooting or was told to exit, and then it switched it on itself (`armed`) |
| `LifecycleJump` | assumes `LowImages`, no image reaches the jump's target; then the jump lands in blank flash and slides into the boot loader (`LifeInv`). The run `bootloader_jump` shows the same property fail for the larger image: the theorem says which images are safe from that deviation |
| `EnumerationWhole`, `EnumerationNamed`, `EnumerationTold` | `EnumInv` is inductive: `SizeLearnt`, the host takes packets for the smallest there are until it has the start of the device descriptor, then for what they are; `UnderWay`, what has arrived are full packets, with more to come; `Informed`, a host that configures has the whole configuration, and the endpoints are those of `SetUp`. `Places` is a recursive function, so `PlacesEquation` exhibits a table that solves its equations. `Lengths` is any set of positive numbers |

### DFU handler: locking, exits, errors, loops

| theorem | argument |
|---|---|
| `DFUTypeOK` | `TypeOK` (widths of the static variables; the locals of the loops are naturals) is inductive: one lemma per action, arithmetic facts (`% 65536`, `256 * hi + lo`) as lemmas of their own |
| `DFUBootSectionIntact`, `DFUSecretsGone`, `DFUNoSecretSent`, `DFUExitPending` | conjuncts of `DFUInv`, which is inductive |
| `DFUOpenedByErase`, `DFULockedOnlyErases`, `DFUAcknowledgementHarmless` | action properties that follow from `DFUInv` and one step |
| `DFUNoSilentError` | no invariant is needed: `StatusSteps` goes through the steps that touch state or status |
| `DFUEveryStepCounts` | a termination measure: of the triple `StagesLeft`, `TurnsLeft`, `WaitsLeft` every step of a request makes the first that changes smaller (`Nearer`), for all ranges, sizes and hosts |

None of the locked-session properties is inductive alone. `DFUInv` adds:
`Clean`, no byte waiting in the page buffer or the EEPROM is an old application
byte; `EraseProgress`, the chip erase has blanked every page below its cursor (so
when the last one falls, all are blank, although earlier erases were cut short);
`LockedQuiet`, while locked no transfer is announced or under way, which is why
the secure filter on commands protects the requests that do not pass through it;
`ExitOrder`, the retained command is overwritten only when no exit is pending;
`LockOrigin`, only a build that starts locked is ever locked. Each was checked
with TLC before it was proved.

### DFU handler: transfers

| theorem | hypotheses | rests on |
|---|---|---|
| `DFUReadAnswered`, `DFUUploadExact` | none | `AnswerInv` |
| `DFUOnlyAskedPagesChange` | none | `FlashInv` |
| `DFUPlacedWhereSent`, `DFUProgrammedRange` | `DeviceSizes`, `FlashHosts` | `FlashDataInv` |
| `DFUEepromPlaced` | `DeviceSizes`, `EepromHosts` | `EepromDataInv` |
| `DFUImplementsPages` | `DeviceSizes`, `FlashHosts` | `FlashDataInv` and those before it, `DFUInv` |
| `DFUNoStandstill` | `PatientHosts` | `WaitInv` and those before it, `DFUInv` |

The first three hold for whatever a host sends. The next four are about a host that
sends what it announces, and are false without that: the handler takes any
surplus for firmware. The last one is about a host that has and wants what it
announces, and is false without that: the waits look for its next packet only.
So they have hypotheses, defined in
`BootloaderDFUProperties`:

* `DeviceSizes`: header and filler fill a packet, packets fill a page and pages fill
  64 KB, as 6 + 26 = 32, 128 and 65536 do on the part.
* `FlashHosts`: a request longer than a packet is a program command, as with
  dfu-programmer. One for flash, from a page border on, is either for a range that
  does not end before it starts, cut between words or not before its end
  (`Forward`), or brings less than a page and less than it announces
  (`Scanty`). One that starts off a page border is unrestricted, since all its
  pages are refused, and so is one for EEPROM. Nothing is said of how much of a
  download arrives, of the order of requests, or of short commands.
* `EepromHosts`: program commands for EEPROM start on a packet border, as the run
  `eeprom_unaligned` shows they must, and end inside the EEPROM.

* `PatientHosts`: a command ends within its header or is a program command that
  brings all it announces; answers are asked for with a length; an upload asks for
  at least the range a display command may have left, and sees from the last
  packet that it is the last: it is short, or all that was asked for. (After an
  EEPROM upload that was cut short, the range that is left is whole packets
  shorter, so there only a short last packet will do.) Requests come in any order,
  so this is asked of every pair of a display command and an upload; a host that
  also makes uploads of a byte keeps to it only by their order, which the
  hypothesis does not know.

Hosts that meet all of this exist: `HostsKeepTheRules` in `MCBootloaderDFU`, which TLC
evaluates in every DFU run, says so of those of `dfu_flash` and `dfu_transfer` (of the last
hypothesis, only that of `dfu_transfer`), and of that of `dfu_secure` but for the one
command that is too long on purpose.

How the invariants build on each other, each inductive given those before it:

* `AnswerInv`. A read's answer is prepared by one request and sent by another, so
  `ReadHeld` says that `ResponseByte` belongs to the retained command at every place
  but the one that replaces both. `ShownRange` says the same of the range of a
  display command; `FlashRead` and `EepromRead` are the loop invariants of the two
  uploads: what is in the reply is the front of the range, and what remains adds
  up to its bytes. A flash upload counts words, hence the even part of the range;
  an EEPROM upload moves `StartAddr` as it goes, hence the end of the range.
* `FlashInv`. `FlashLoop`: cursor, page, words in the page and words remaining fit
  together, and the end of the range never moves. `pc = "eraseNext"` only with words
  remaining is what keeps a page after the range from being erased, and
  `WordsReset` is what an aborted download must leave behind.
* `TransferInv`, the packets: `BankFill`, `BeforeHeader`, `ShortServed` and `ProgramServed` tell
  how far the host has come at each place up to the first byte of firmware.
  `ShortServed` is the reason why requests of one packet cannot disturb a range left
  in `dfuDNLOAD_IDLE`: their bank is empty before the first word. `Aimed` and
  `FirstPageReady` bridge the two halves of a download, the command that erases the
  first page and the loop that fills it; the chip erase must not come in between
  (`EraseIsWrite`).
* `FlashDataInv`. `FlashPosition`: the next byte of the bank is the one for the cursor,
  across packets. `Filling`: the page under the cursor is blank and the page
  buffer holds its first words and nothing else, although the buffer cannot be read
  back and keeps words of refused pages. `DoneSoFar`: everything before the page is
  in place. `ScantyStays`: a backward range never fills a page.
* `EepromDataInv`. `EepromLoop`: the next byte of the bank is the one for `StartAddr`.
* `WaitInv`, on `DownloadInv` (the parts of `TransferInv` that need no `DeviceSizes`). Of a
  download, `Supplied`: the bytes the stages ahead still take (`BytesNeeded`) fit into
  what the host has still to send. It is set up by `HeaderTaken`, which ties the
  retained command to the request it came from, so that only a program command
  that brings all it announces gets to the first of those stages. Of an upload,
  `Delivered`: what crossed, what is in the bank and what is left add up to the
  range, or for EEPROM, whose range shrinks as it is read, to one whose end the
  host sees (`RangeSeen`, which outlives uploads that are cut short). `Concluded`: the
  last packet is wanted and shows that it is the last.

`DFUImplementsPages` shows that initial states map to `PagesInit` and every step to
a step of `FlashPages` or a stutter: `PageNumber` and `ErasedIsWiped` translate pages and
erases; a range in `dfuDNLOAD_IDLE` is announced by the step that loads it and
opened by the erase that follows in the same step; a commit is a `Fill`, because
`Filling` makes the page blank and its bytes the right ones; the steps of the chip
erase follow `EraseProgress`.

### What is only model-checked

* `RequestsEnd`, `Honoured`, `TypedIsHeard`, `SaidIsShown`: liveness under
  fairness is out of this prover's reach, as are ENABLED and induction over data.
  Of `RequestsEnd` the safety half is proved: no loop goes round in vain
  (`DFUEveryStepCounts`) and no wait is for something the host will not do
  (`DFUNoStandstill`). That the two add up to an end needs the fairness of processor
  and host, and is left to the run.
* The deviations, which are counterexamples. The conclusions of the transfer
  theorems for hosts that break their hypotheses are false in general; the runs
  give what holds for the odd hosts they have.

## Not modelled

* A power failure inside an SPM operation (a page left partly erased), a USB bus
  reset without a detach, and a new SETUP packet in the middle of a data stage:
  they depend on silicon and on LUFA, whose source is not here.
* What becomes of a host that asks for less than a display range: the handler then
  waits (`PatientHosts` excludes it, and the hazard list has a note). A host that
  sends a page or more of data for a backward range is outside `FlashHosts`. A range of all 64 KB counts as none in sixteen bits
  (`BootloaderDFU.c:221`); no run has one, and `AskedBytes` counts it the same way.
* `gpio_init` is never called. Fuses are not in the repository: `Lifecycle` takes all
  of their settings.
* The line editor, LUFA's class driver beyond what the code sees of it, USB class
  codes and identifiers, the baud rate and frame format of the USART example and
  its wait for the transmit register.
* `gen-firmware.py` (a padding and a concatenation), makefiles and scripts.
* Clock prescaler, LEDs, the parsing of names and numbers, the wording of what is
  printed, and `gpio MCUCR` and `gpio ALL` without a value, which print more than pins.
  What is wired to a pin drives an input high or low, so pull-ups make no difference.

## Plan

1. *Done:* flash API, DFU handler with its abstract flash, GPIO command line,
   life cycle, serial loop, enumeration; their runs.
2. *Done:* theorems for every safety property and refinement that a run checks,
   and for the safety half of `RequestsEnd`.
3. Weaker hypotheses for the transfer theorems: what still holds of
   `PlacedWhereSent` when a host sends more than it announces (its pages, by
   `OnlyAskedPagesChange`, but not its bytes).
4. `PatientHosts` as an order of requests, instead of a property of each pair: a host
   that uploads single bytes after a read command and blocks after a display
   command.
