------------------------ MODULE BootloaderDFUProperties ------------------------
(***************************************************************************)
(* What the DFU bootloader must never do, and what it must eventually do.   *)
(* The last one states a sentence of the repository's own comments that the *)
(* code does not keep.                                                      *)
(***************************************************************************)
EXTENDS BootloaderDFU

Application == 0 .. BOOT_START_ADDR - 1

(* The range the command being served, or retained, speaks about.  Its      *)
(* bytes are counted in sixteen bits, so a range of all 64 KB counts none.  *)
AskedStart == BigEndian(SentCommand.Data[1], SentCommand.Data[2])
AskedEnd   == BigEndian(SentCommand.Data[3], SentCommand.Data[4])
AskedBytes == (AskedEnd - AskedStart + 1) % 65536
AskedEven  == {a \in AskedStart .. AskedEnd : a - AskedStart < 2 * (AskedBytes \div 2)}

(* What the proofs about downloads ask of the board and of the host.  On    *)
(* the board header and filler fill a packet, packets fill a page, and      *)
(* pages fill 64 KB.                                                        *)
DeviceSizes ==
  /\ HeaderSize + DFU_FILLER_BYTES_SIZE = FIXED_CONTROL_ENDPOINT_SIZE
  /\ FIXED_CONTROL_ENDPOINT_SIZE % 2 = 0
  /\ SPM_PAGESIZE % FIXED_CONTROL_ENDPOINT_SIZE = 0
  /\ 65536 % SPM_PAGESIZE = 0

First(r)     == BigEndian(r.Data[1], r.Data[2])
Last(r)      == BigEndian(r.Data[3], r.Data[4])
Announced(r) == (Last(r) - First(r) + 1) % 65536
Firmware(r)  == r.wLength - FIXED_CONTROL_ENDPOINT_SIZE

(* A request of one packet brings no firmware.  Only program commands are   *)
(* longer, and their firmware is cut between words or not before its end.   *)
(* When the range ends before it starts there is less than a page of it,    *)
(* and less than is asked for.                                              *)
OnePacket(r)        == Firmware(r) <= 0
Programs(r, memory) == r.Command = COMMAND_PROG_START /\ r.Data[0] = memory
Forward(r) == /\ First(r) <= Last(r) + 1
              /\ (r.wLength % 2 = 0 \/ Firmware(r) >= Announced(r))
Scanty(r)  == /\ r.wLength % 2 = 0
              /\ Firmware(r) < SPM_PAGESIZE /\ Firmware(r) < 2 * (Announced(r) \div 2)

FlashDownload(r) ==
  \/ OnePacket(r) \/ Programs(r, 1)
  \/ Programs(r, 0) /\ (First(r) % SPM_PAGESIZE # 0 \/ Forward(r) \/ Scanty(r))
EepromDownload(r) ==
  \/ OnePacket(r) \/ Programs(r, 0)
  \/ /\ Programs(r, 1) /\ First(r) % FIXED_CONTROL_ENDPOINT_SIZE = 0
     /\ First(r) <= Last(r) + 1 /\ Last(r) <= E2END

FlashHosts  == \A r \in Requests : r.bRequest = DFU_REQ_DNLOAD => FlashDownload(r)
EepromHosts == \A r \in Requests : r.bRequest = DFU_REQ_DNLOAD => EepromDownload(r)

(* What the waits of the handler ask of the host.  A command brings nothing *)
(* beyond its bytes, or is a program command with all that it announces.  A *)
(* display command names its range; uploads ask for all of it, and a last   *)
(* packet tells the end of what they get: it is short, or the host has all  *)
(* it asked for.  (An EEPROM upload that was cut short leaves a range that  *)
(* is whole packets shorter than what the next one asks for.)               *)
Complete(r) ==
  \/ r.wLength <= HeaderSize
  \/ /\ Programs(r, 0) \/ Programs(r, 1)
     /\ HeaderSize + DFU_FILLER_BYTES_SIZE + (First(r) % FIXED_CONTROL_ENDPOINT_SIZE)
          + Announced(r) + DFU_FILE_SUFFIX_SIZE <= r.wLength

Displays(r) == /\ r.bRequest = DFU_REQ_DNLOAD /\ r.Command = COMMAND_DISP_DATA
               /\ r.wLength = 1 \/ r.Data[0] \in {0, 2}
Asks(r)     == r.bRequest \in {DFU_REQ_UPLOAD, DFU_REQ_GETSTATUS, DFU_REQ_GETSTATE}
EndSeen(n, length) ==
  /\ n <= length
  /\ \/ n % FIXED_CONTROL_ENDPOINT_SIZE \notin {0, 1}
     \/ n = length /\ n % 2 = 0 /\ \A r \in Requests : r.Data[0] # 2

PatientHosts ==
  /\ FIXED_CONTROL_ENDPOINT_SIZE % 2 = 0
  /\ \A r \in Requests :
       /\ r.bRequest = DFU_REQ_DNLOAD => Complete(r)
       /\ Asks(r) => r.wLength > 0
       /\ Displays(r) =>
            /\ r.wLength = HeaderSize
            /\ \A u \in Requests :
                 u.bRequest = DFU_REQ_UPLOAD => EndSeen(Announced(r), u.wLength)

(* Whatever order requests come in, and wherever a transfer is cut short,   *)
(* an application byte is what it was, erased, or the byte the host sent    *)
(* for that address: no page is shifted, mixed with an earlier page buffer  *)
(* or programmed over bytes that were not erased.                           *)
PlacedWhereSent == \A a \in Application : flash[a] \in {Original, Blank, a}

(* When the flash loop has reached its end and the suffix is next, every    *)
(* word of an aligned range is in flash, across packets and page borders    *)
(* and down to a last partial page, up to the bootloader section.           *)
ProgrammedRange ==
  pc = "suffix" /\ SentCommand.Command = COMMAND_PROG_START /\ IsOneByteCommand(0)
    /\ AskedStart % SPM_PAGESIZE = 0 /\ Flash64KBPage = 0
  => \A a \in AskedEven \cap Application : flash[a] = a

(* Outside the chip erase, a step changes only pages of the range of the    *)
(* latest program command, unless that ends before it starts: a neighbour   *)
(* page survives any download, whatever is taken for its data.              *)
OnlyAskedPagesChange ==
  [][\A a \in Application :
       flash'[a] # flash[a] /\ pc # "erase" /\ StartAddr' <= EndAddr' =>
         a \div SPM_PAGESIZE \in (Long(StartAddr) \div SPM_PAGESIZE)'
                                   .. (Long(EndAddr) \div SPM_PAGESIZE)']_vars

(* The flash as its user may rely on it: the handler implements FlashPages. *)
(* Only what is announced is opened or filled, each page is blank when its  *)
(* bytes arrive, nothing moves while locked, and only a chip erase that     *)
(* went from the first page to the last, in one go, unlocks.                *)
Contents  == [a \in Application |-> flash[a]]
OpenRange == IF DFU_State = dfuDNLOAD_IDLE
             THEN [first |-> Long(StartAddr), last |-> Long(EndAddr)]
             ELSE [first |-> 1, last |-> 0]
ErasingAt == IF pc = "erase" THEN loop.cursor \div SPM_PAGESIZE ELSE -1

Pages == INSTANCE FlashPages WITH
           PageSize <- SPM_PAGESIZE, Size <- BOOT_START_ADDR, Lock <- SECURE_MODE,
           Found <- Original, memory <- Contents, locked <- IsSecure,
           range <- OpenRange, erasing <- ErasingAt

PagesAsPromised == Pages!PagesSpec

(* EEPROM bytes are untouched or the byte sent for that address.            *)
EepromPlaced == \A a \in EepromAddresses : eeprom[a] \in {Saved, a}

(* An upload of flash hands over the range of the display command it        *)
(* answers, as it is in flash, but for the last byte of an odd range, which *)
(* the halving to words drops; one of EEPROM, bytes up to the end of the    *)
(* range, since an upload that is cut short moves the start for the next.   *)
EepromByte(a) == eeprom[(a % 65536) % (E2END + 1)]
UploadExact ==
  /\ pc = "upFlash" /\ loop.remaining = 0 /\ SentCommand.Command = COMMAND_DISP_DATA
     => reply = [i \in 1 .. 2 * (AskedBytes \div 2) |-> FlashByte(Long(AskedStart) + i - 1)]
  /\ pc = "upEeprom" /\ loop.remaining = 0
     => reply = [i \in 1 .. Len(reply) |-> EepromByte(EndAddr - Len(reply) + i)]

(* A session that started locked is open only while none of the bytes it    *)
(* started with is left in the application section.                         *)
SecretsGone ==
  SECURE_MODE /\ ~IsSecure => \A a \in Application : flash[a] # Original

(* A locked build never sends the host a byte of the application it found,  *)
(* in whatever session, however erases were interrupted.                    *)
NoSecretSent == SECURE_MODE => \A i \in DOMAIN reply : reply[i] # Original

(* While locked, flash bytes only ever become blank, and EEPROM stays.      *)
LockedOnlyErases ==
  [][IsSecure => /\ \A a \in FlashAddresses : flash'[a] \in {flash[a], Blank}
                 /\ eeprom' = eeprom]_vars

(* Opening the device by an erase leaves every application byte blank, also *)
(* when earlier erases of the session were cut short.                       *)
OpenedByErase ==
  [][IsSecure /\ ~IsSecure' => \A a \in Application : flash'[a] = Blank]_vars

(* While an exit is pending the retained command is that exit command, so   *)
(* the request that acknowledges it repeats the exit and nothing else.      *)
ExitPending ==
  WaitForExit => /\ SentCommand.Command = COMMAND_WRITE /\ IsOneByteCommand(3)
                 /\ ~IsSecure

(* Reprocessing the retained command changes no memory, no address range    *)
(* and no DFU state.                                                        *)
AcknowledgementHarmless ==
  [][(ProcessBootloaderCommand \/ EraseNextPage) /\ loop.caller = "exit"
     => UNCHANGED <<flashVars, eeprom, IsSecure, statusVars, rangeVars>>]_vars

(* The device is in dfuERROR with status OK only because the host cleared   *)
(* the status: no command fails without saying why.                         *)
Unexplained == DFU_State = dfuERROR /\ DFU_Status = OK
NoSilentError ==
  [][~Unexplained /\ Unexplained' => \E r \in Requests : ClearStatus(r)]_vars

(* An upload that finds dfuIDLE after a read command is answered with the   *)
(* byte that command named, whatever failed, was aborted or was checked     *)
(* before: neither a stale address nor the byte of an earlier read goes out.*)
ReadTable == IF IsOneByteCommand(0) THEN BootloaderInfo ELSE SignatureInfo
ReadAnswered ==
  [][AnswerUpload /\ DFU_State = dfuIDLE /\ SentCommand.Command = COMMAND_READ
       /\ SentCommand.Data[0] \in {0, 1} /\ SentCommand.Data[1] \in DOMAIN ReadTable
     => reply' = <<ReadTable[SentCommand.Data[1]]>>]_vars

(* How far a request is from its end: the stages the handler still has to   *)
(* go through, the turns left to its loop, and, within a turn, the packet   *)
(* it has to pass on or wait for and the pages it has to write and erase.   *)
SecondTurn == loop.caller = "exit"
StagesLeft ==
  CASE pc = "process" -> IF SecondTurn THEN 12 ELSE 8
    [] pc = "erase"   -> IF SecondTurn THEN 11 ELSE 7
    [] pc = "exit" -> 10
    [] pc = "command" -> 9
    [] pc = "firmware" -> 6
    [] pc = "filler" -> 5
    [] pc = "align" -> 4
    [] pc \in {"flash", "commit", "eraseNext", "eeprom", "upload", "answer"} -> 3
    [] pc \in {"suffix", "upFlash", "upEeprom"} -> 2
    [] OTHER -> 1
TurnsLeft == IF pc = "erase" THEN BOOT_START_ADDR - loop.cursor ELSE loop.remaining
PacketSpent ==
  \/ pc \in {"flash", "eeprom"} /\ ep.bank = 0
  \/ pc \in {"upFlash", "upEeprom"} /\ ep.bank = FIXED_CONTROL_ENDPOINT_SIZE
WaitsLeft ==
  CASE pc = "commit"    -> 4
    [] pc = "eraseNext" -> 3
    [] OTHER -> IF ~Ready THEN 1 ELSE IF PacketSpent THEN 2 ELSE 0

Nearer ==
  \/ StagesLeft' \in 0 .. StagesLeft - 1
  \/ UNCHANGED StagesLeft /\ TurnsLeft' \in 0 .. TurnsLeft - 1
  \/ UNCHANGED <<StagesLeft, TurnsLeft>> /\ WaitsLeft' \in 0 .. WaitsLeft - 1

(* Whatever is asked for, and whoever takes it, each step while a request   *)
(* is served brings its end nearer, but the one that pulls the cable: no    *)
(* loop of the handler goes round in vain, with any range, length or error. *)
EveryStepCounts ==
  [][pc # "idle" /\ pc' # "idle" =>
       \/ Nearer
       \/ Detach /\ UNCHANGED <<StagesLeft, TurnsLeft, WaitsLeft>>]_vars

(* Host and handler never wait for each other: while the handler waits for  *)
(* a packet to come or go, the host has one to send or to take, and when it *)
(* waits for the status stage the host has got all it wants.                *)
NoStandstill ==
  /\ pc \in OutStages \cup InStages /\ ~Ready => ep.moved < request.wLength
  /\ pc = "status" /\ Ready => HostSatisfied

(* A request that is well formed is answered to the end, or the handler     *)
(* returns because the cable is out: it never hangs, in a wait or a loop.   *)
RequestsEnd == pc # "idle" ~> pc = "idle"
-----------------------------------------------------------------------------
(* BootloaderDFU.c:653: the flag that ends the bootloader is set if a valid *)
(* application has been loaded.                                             *)
ExitNeedsApplication == ~RunBootloader => ~(flash[0] = Blank /\ flash[1] = Blank)
=============================================================================
