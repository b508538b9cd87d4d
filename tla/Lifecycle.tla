------------------------------- MODULE Lifecycle -------------------------------
(***************************************************************************)
(* Who runs on the board, and how it gets there: the start-up code of the   *)
(* bootloader, of the two command lines and of the USART example, the       *)
(* commands and exits that leave a program, the watchdog, and the resets.   *)
(* A program is followed step by step where a step touches the watchdog,    *)
(* the interrupt vectors or the USB interrupts; then it rests in its main   *)
(* loop until it is told to leave.                                          *)
(***************************************************************************)
EXTENDS Naturals, Sequences

CONSTANTS
  BOOT_START_ADDR,  (* first byte of the bootloader section                  *)
  FlashBytes,       (* bytes of program memory                               *)
  BootloaderEntry,  (* the number the bootloader command casts to a function *)
  Images            (* what a download may leave in the application section: *)
                    (* a program or a broken one, and the bytes it takes up  *)

CommandLines == {"cdc-simple-cli", "cdc-gpio-cli"}
Applications == CommandLines \cup {"usart-hello-world"}
NoImage == [program |-> "broken", top |-> 0]

ASSUME LifecycleConstants ==
  /\ BOOT_START_ADDR \in Nat /\ FlashBytes \in Nat /\ BootloaderEntry \in Nat
  /\ 0 < BOOT_START_ADDR /\ BOOT_START_ADDR < FlashBytes
  /\ \A i \in Images : /\ i.program \in Applications \cup {"broken"}
                       /\ i.top \in 1 .. BOOT_START_ADDR

VARIABLES
  fuses,        (* BOOTRST and HWBE, programmed or not                       *)
  hwb,          (* whether the /HWB line is held low                         *)
  image,        (* contents of the application section                       *)
  program,      (* the program that runs; "lost" in the midst of some code   *)
  todo,         (* its steps up to the next rest                             *)
  interrupts,   (* the I flag                                                *)
  usb,          (* whether the USB controller is on and may interrupt        *)
  IVSEL,        (* whether the vectors are those of the bootloader section   *)
  WDRF, WDE,    (* the last reset was the watchdog's; the watchdog is on     *)
  armed,        (* history: it was switched on by a program since the reset  *)
  MagicBootKey, (* whether the key is in no-init RAM                         *)
  asked         (* the last thing a user asked for: reboot, bootloader, exit *)

cpuVars  == <<program, todo>>
irqVars  == <<interrupts, usb, IVSEL>>
wdtVars  == <<WDRF, WDE, armed>>
lifeVars == <<fuses, hwb, image, cpuVars, irqVars, wdtVars, MagicBootKey, asked>>
-----------------------------------------------------------------------------
(* The programs.                                                            *)

(* Slips: the vectors stay where the reset left them; the watchdog is       *)
(* stopped while the flag that keeps it running is still up.                *)
SetupWithoutVectors == <<"clear WDRF", "wdt_disable", "USB_Init", "sei">>
SetupHardware == <<"clear WDRF", "wdt_disable", "boot vectors", "USB_Init", "sei">>
FlagClearedLast == <<"wdt_disable", "clear WDRF", "USB_Init", "sei">>
hardware_init   == <<"clear WDRF", "wdt_disable", "USB_Init", "sei">>
init_hardware   == <<"cli", "clear WDRF", "wdt_disable", "sei">>

(* The C runtime clears the I flag before it calls main().                  *)
StartUp(p) ==
  IF p = "bootloader" THEN <<"crt">> \o SetupHardware
  ELSE IF p \in CommandLines THEN <<"crt">> \o hardware_init
  ELSE IF p \in Applications THEN <<"crt">> \o init_hardware
  ELSE <<>>

(* Slips: the endless loop without the watchdog; the jump with USB running. *)
SpinOnly           == <<"spin">>
process_reboot     == <<"wdt_enable", "spin">>
LeaveUsbRunning    == <<"application vectors", "jump">>
command_bootloader == <<"USB_Disable", "application vectors", "jump">>

(* Execution from an address of the application section: erased words do    *)
(* nothing, so it slides up to the bootloader; from the reset vector a      *)
(* whole program starts; from anywhere else nobody can say.                 *)
Landing(address) ==
  IF address >= image.top THEN "bootloader"
  ELSE IF address = 0 /\ image.program # "broken" THEN image.program ELSE "lost"

(* A function pointer is a word address, of as many bits as flash has words. *)
JumpTarget == (2 * BootloaderEntry) % FlashBytes

Resting == todo \in {<<>>, <<"spin">>}
Serves(p) == program = p /\ todo = <<>>
-----------------------------------------------------------------------------
Step(name) ==
  /\ todo # <<>> /\ Head(todo) = name
  /\ todo' = Tail(todo)
  /\ UNCHANGED <<fuses, hwb, image, program, MagicBootKey, asked>>

ClearInterruptFlag ==
  /\ Step("crt") \/ Step("cli")
  /\ interrupts' = FALSE
  /\ UNCHANGED <<usb, IVSEL, wdtVars>>

EnableInterrupts ==
  /\ Step("sei")
  /\ interrupts' = TRUE
  /\ UNCHANGED <<usb, IVSEL, wdtVars>>

ClearWatchdogFlag ==
  /\ Step("clear WDRF")
  /\ WDRF' = FALSE
  /\ UNCHANGED <<irqVars, WDE, armed>>

(* While WDRF is set the hardware keeps the watchdog on. *)
DisableWatchdog ==
  /\ Step("wdt_disable")
  /\ WDE' = WDRF
  /\ UNCHANGED <<irqVars, WDRF, armed>>

EnableWatchdog ==
  /\ Step("wdt_enable")
  /\ WDE' = TRUE /\ armed' = TRUE
  /\ UNCHANGED <<irqVars, WDRF>>

SelectVectors ==
  /\ \/ Step("boot vectors") /\ IVSEL' = TRUE
     \/ Step("application vectors") /\ IVSEL' = FALSE
  /\ UNCHANGED <<interrupts, usb, wdtVars>>

SwitchUsb ==
  /\ \/ Step("USB_Init") /\ usb' = TRUE
     \/ Step("USB_Disable") /\ usb' = FALSE
  /\ UNCHANGED <<interrupts, IVSEL, wdtVars>>

(* The jump carries over every flag as it is. *)
Jump ==
  /\ todo # <<>> /\ Head(todo) = "jump"
  /\ program' = Landing(JumpTarget)
  /\ todo' = StartUp(program')
  /\ UNCHANGED <<fuses, hwb, image, irqVars, wdtVars, MagicBootKey, asked>>

Run ==
  \/ ClearInterruptFlag \/ EnableInterrupts \/ ClearWatchdogFlag \/ DisableWatchdog
  \/ EnableWatchdog \/ SelectVectors \/ SwitchUsb \/ Jump
-----------------------------------------------------------------------------
(* What users ask for.                                                      *)

Leave(request, steps) ==
  /\ program \in CommandLines /\ todo = <<>>
  /\ todo' = steps /\ asked' = request
  /\ UNCHANGED <<fuses, hwb, image, program, irqVars, wdtVars, MagicBootKey>>

(* The exit command by watchdog, after which the bootloader serves on.      *)
ExitByWatchdog ==
  /\ Serves("bootloader")
  /\ MagicBootKey' = TRUE /\ WDE' = TRUE /\ armed' = TRUE
  /\ asked' = "exit"
  /\ UNCHANGED <<fuses, hwb, image, cpuVars, irqVars, WDRF>>

(* Erases and downloads, finished or cut short. *)
Download ==
  /\ Serves("bootloader")
  /\ image' \in Images \cup {NoImage}
  /\ UNCHANGED <<fuses, hwb, cpuVars, irqVars, wdtVars, MagicBootKey, asked>>

User ==
  \/ Leave("reboot", process_reboot) \/ Leave("bootloader", command_bootloader)
  \/ ExitByWatchdog \/ Download
-----------------------------------------------------------------------------
(* Resets.  The fuses and the line say where execution starts.              *)
Restart ==
  /\ program' = IF fuses.BOOTRST \/ (fuses.HWBE /\ hwb) THEN "bootloader" ELSE Landing(0)
  /\ todo' = StartUp(program')
  /\ interrupts' = FALSE /\ usb' = FALSE /\ IVSEL' = FALSE /\ armed' = FALSE
  /\ UNCHANGED <<fuses, hwb, image>>

(* The steps between two rests take microseconds, the shortest watchdog     *)
(* period 15 ms: it fires at rest only.                                     *)
WatchdogFires ==
  /\ WDE /\ Resting
  /\ Restart
  /\ WDRF' = TRUE /\ WDE' = TRUE
  /\ UNCHANGED <<MagicBootKey, asked>>

ResetLine ==
  /\ Restart
  /\ WDE' = WDRF /\ asked' = "nothing"
  /\ UNCHANGED <<WDRF, MagicBootKey>>

PowerCycle ==
  /\ Restart
  /\ WDRF' = FALSE /\ WDE' = FALSE
  /\ MagicBootKey' \in BOOLEAN /\ asked' = "nothing"

HwbMoves ==
  /\ hwb' = ~hwb
  /\ UNCHANGED <<fuses, image, cpuVars, irqVars, wdtVars, MagicBootKey, asked>>

LifeInit ==
  /\ fuses \in [BOOTRST : BOOLEAN, HWBE : BOOLEAN]
  /\ hwb \in BOOLEAN
  /\ image \in Images \cup {NoImage}
  /\ program = IF fuses.BOOTRST \/ (fuses.HWBE /\ hwb) THEN "bootloader" ELSE Landing(0)
  /\ todo = StartUp(program)
  /\ interrupts = FALSE /\ usb = FALSE /\ IVSEL = FALSE
  /\ WDRF = FALSE /\ WDE = FALSE /\ armed = FALSE
  /\ MagicBootKey \in BOOLEAN /\ asked = "nothing"

LifeNext == Run \/ User \/ WatchdogFires \/ ResetLine \/ PowerCycle \/ HwbMoves

(* The processor runs, and a watchdog that is on bites.                     *)
LifeSpec ==
  LifeInit /\ [][LifeNext]_lifeVars /\ WF_lifeVars(Run) /\ WF_lifeVars(WatchdogFires)
-----------------------------------------------------------------------------
(* A USB interrupt always finds the vector table of the program that runs,  *)
(* also between a jump to the bootloader and the end of its start-up.       *)
OwnVectors ==
  interrupts /\ usb /\ program # "lost" => (IVSEL <=> program = "bootloader")

(* The watchdog resets only a program that switched it on itself since the  *)
(* last reset, the bootloader with the key left: the flag that a watchdog   *)
(* reset leaves behind does not bring about the next one.                   *)
NoStrayReset ==
  [][WatchdogFires =>
       program = "lost" \/ (armed /\ (program = "bootloader" => MagicBootKey))]_lifeVars

(* What was asked for comes about, unless somebody resets the board first:  *)
(* a reboot ends with a program in its main loop and the watchdog off, the  *)
(* bootloader command with the bootloader (for images that leave the target *)
(* of the jump blank), and an exit with the application, if there is one    *)
(* and nothing calls for the bootloader.                                    *)
Honoured ==
  /\ asked = "reboot" ~> asked # "reboot" \/ (todo = <<>> /\ ~WDE)
  /\ asked = "bootloader" ~>
       asked # "bootloader" \/ Serves("bootloader") \/ image.top > JumpTarget
  /\ asked = "exit" /\ WDE /\ todo = <<>> ~>
       \/ asked # "exit" \/ fuses.BOOTRST \/ (fuses.HWBE /\ hwb) \/ image.program = "broken"
       \/ \E p \in Applications : Serves(p)

(* No image reaches as far as the target of the bootloader command's jump.  *)
LowImages == \A i \in Images : i.top <= JumpTarget

(* cdc-gpio-cli/command.c:273: the command enters the bootloader.  It does  *)
(* with LowImages.                                                          *)
JumpEntersBootloader == [][Jump => program' = "bootloader"]_lifeVars
=============================================================================
