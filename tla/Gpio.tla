---------------------------------- MODULE Gpio ----------------------------------
(***************************************************************************)
(* The GPIO command line of cdc-gpio-cli: the gpio command of command.c on  *)
(* top of the pin map and the register access of gpio.c, and the commands   *)
(* that leave the program, reboot and bootloader.  A register is the set of *)
(* its bits that are one; a name has been recognised by its letters.        *)
(***************************************************************************)
EXTENDS Naturals

CONSTANTS
  Ports,   (* the ports that are modelled, of "B" to "F"                     *)
  Values,  (* numbers the user may type, as sets of bits                     *)
  Wirings  (* inputs that the world outside may drive high; the rest it      *)
           (* drives low                                                     *)

PortPins(port) ==
  CASE port \in {"B", "D"} -> 0 .. 7
    [] port = "C" -> {6, 7}
    [] port = "E" -> {2, 6}
    [] port = "F" -> {0, 1, 4, 5, 6, 7}

Digits == 0 .. 7
Pins   == {p \in Ports \X Digits : p[2] \in PortPins(p[1])}

ASSUME GpioConstants ==
  /\ Ports \subseteq {"B", "C", "D", "E", "F"}
  /\ Values \subseteq SUBSET Digits
  /\ Wirings \subseteq SUBSET Pins

MCUCR == <<"MCUCR", "A">>
PUD   == 4
IVCE  == 0
Writable  == {MCUCR} \cup ({"DDR", "PORT"} \X Ports)
Registers == Writable \cup ({"PIN"} \X Ports)

VARIABLES
  told,    (* the last command line that was typed                           *)
  io,      (* the writable registers                                         *)
  wires,   (* inputs that are high                                           *)
  program, (* where the processor is: "cli", "rebooting", "leaving" for the  *)
           (* bootloader, or in the "bootloader"                             *)
  printed  (* what the command line printed: nothing, a pin's direction and  *)
           (* level, or a register's value                                   *)

gpioVars == <<told, io, wires, program, printed>>
-----------------------------------------------------------------------------
(* gpio.c *)

gpio_pin_map == [p \in Pins |->
  [direction |-> <<"DDR", p[1]>>, level |-> <<"PORT", p[1]>>, bit |-> p[2]]]

(* Slips: a register is written as it comes; setting a pin low does nothing. *)
MaskAll(reg) == Digits
Mask(reg)    == IF reg = MCUCR THEN {PUD} ELSE PortPins(reg[2])

SetOnly(original, bit, val)   == original \cup (IF 0 \in val THEN {bit} ELSE {})
BIT_RESET(original, bit, val) ==
  (original \ {bit}) \cup (IF 0 \in val THEN {bit} ELSE {})

(* The input register shows what is on the pins: of an output its latch, of *)
(* an input the wire.                                                       *)
PinLevels(port) ==
  {b \in PortPins(port) : IF b \in io[<<"DDR", port>>] THEN b \in io[<<"PORT", port>>]
                          ELSE <<port, b>> \in wires}

gpio_read(reg) == IF reg \in Writable THEN io[reg] ELSE PinLevels(reg[2])

(* An input register is refused with GPIO_ERROR_INVALID_REG. *)
gpio_write(reg, value) ==
  io' = IF reg \in Writable THEN [io EXCEPT ![reg] = value \cap Mask(reg)] ELSE io

gpio_set_direction(pin, value) ==
  LET row == gpio_pin_map[pin]
  IN  gpio_write(row.direction, BIT_RESET(gpio_read(row.direction), row.bit, value))

gpio_set_level(pin, value) ==
  LET row == gpio_pin_map[pin]
  IN  gpio_write(row.level, BIT_RESET(gpio_read(row.level), row.bit, value))

gpio_get_direction(pin) ==
  IF gpio_pin_map[pin].bit \in gpio_read(gpio_pin_map[pin].direction) THEN "OUT" ELSE "IN"

(* The level of a pin is the latch of its port, whatever its direction. *)
gpio_get_level(pin) ==
  IF gpio_pin_map[pin].bit \in gpio_read(gpio_pin_map[pin].level) THEN "HIGH" ELSE "LOW"
-----------------------------------------------------------------------------
(* command.c.  A command runs to its end before the next line is read.      *)

Command(line) == program = "cli" /\ told' = line /\ UNCHANGED <<wires, program>>

print_pin_status(pin) ==
  /\ Command(<<"status", pin>>)
  /\ printed' = <<gpio_get_direction(pin), gpio_get_level(pin)>>
  /\ UNCHANGED io

print_register_value(reg) ==
  /\ Command(<<"read", reg>>)
  /\ printed' = <<gpio_read(reg)>>
  /\ UNCHANGED io

set_pin_mode(pin, mode) ==
  /\ Command(<<"mode", pin, mode>>)
  /\ gpio_set_direction(pin, IF mode = "IN" THEN {} ELSE {0})
  /\ printed' = <<>>

set_pin_value(pin, value) ==
  /\ Command(<<"level", pin, value>>)
  /\ gpio_set_level(pin, value)
  /\ printed' = <<>>

set_register_value(reg, value) ==
  /\ Command(<<"write", reg, value>>)
  /\ gpio_write(reg, value)
  /\ printed' = <<>>

(* MCUCR or all registers as text, help, names that no table holds (PC0     *)
(* passes for a pin but is none), wrong argument counts.                    *)
print_other ==
  /\ Command(<<"other">>)
  /\ printed' = <<>>
  /\ UNCHANGED io

process_gpio ==
  \/ \E pin \in Pins : \/ print_pin_status(pin)
                       \/ \E mode \in {"IN", "OUT"} : set_pin_mode(pin, mode)
                       \/ \E value \in Values : set_pin_value(pin, value)
  \/ \E reg \in Registers \ {MCUCR} : print_register_value(reg)
  \/ \E reg \in Registers, value \in Values : set_register_value(reg, value)
  \/ print_other

(* The endless loop, which a reset leaves. *)
process_reboot ==
  /\ program = "cli" /\ program' = "rebooting"
  /\ told' = <<"other">> /\ printed' = <<>>
  /\ UNCHANGED <<io, wires>>

(* Two writes of MCUCR, in full and not through gpio_write, and the jump.   *)
(* The pins stay as they are.                                               *)
process_bootloader ==
  \/ /\ program = "cli" /\ program' = "leaving"
     /\ io' = [io EXCEPT ![MCUCR] = {IVCE}]
     /\ told' = <<"other">> /\ printed' = <<>> /\ UNCHANGED wires
  \/ /\ program = "leaving" /\ program' = "bootloader"
     /\ io' = [io EXCEPT ![MCUCR] = {}]
     /\ UNCHANGED <<told, printed, wires>>
-----------------------------------------------------------------------------
(* A reset, by the watchdog or the reset line, clears the registers and     *)
(* starts one of the two programs.  Inside the bootloader io stays as it    *)
(* was left: its own use of MCUCR, like the steps of every program's        *)
(* start-up, is modelled in Lifecycle.                                      *)
Reset ==
  /\ io' = [r \in Writable |-> {}]
  /\ program' \in {"cli", "bootloader"}
  /\ told' = <<>> /\ printed' = <<>>
  /\ UNCHANGED wires

WiresChange ==
  /\ wires' \in Wirings
  /\ UNCHANGED <<told, io, program, printed>>

GpioInit ==
  /\ io = [r \in Writable |-> {}]
  /\ wires \in Wirings
  /\ program = "cli" /\ told = <<>> /\ printed = <<>>

GpioNext == process_gpio \/ process_reboot \/ process_bootloader \/ Reset \/ WiresChange

GpioSpec == GpioInit /\ [][GpioNext]_gpioVars
-----------------------------------------------------------------------------
GpioTypeOK ==
  /\ io \in [Writable -> SUBSET Digits]
  /\ wires \in SUBSET Pins
  /\ program \in {"cli", "rebooting", "leaving", "bootloader"}

(* No gpio command writes a one to a bit that is no pin of its port         *)
(* (reserved bits of DDRC, PORTE, ...) or to a bit of MCUCR other than PUD: *)
(* the vectors stay where they are and JTAG is not switched off.  The       *)
(* bootloader command holds IVCE alone up, between its two writes.          *)
ReservedClear ==
  /\ io[MCUCR] \subseteq IF program = "leaving" THEN {IVCE} ELSE {PUD}
  /\ \A kind \in {"DDR", "PORT"}, p \in Ports : io[<<kind, p>>] \subseteq PortPins(p)

(* The command line does for each pin what PinBoard promises: the pin map,  *)
(* the read-modify-write and the masks act on the pins that the command     *)
(* names, in the way it says and on no other, and what it shows is theirs.  *)
PortOf(p) == p[1]
BitOf(p)  == p[2]
PinDirection == [p \in Pins |-> IF BitOf(p) \in io[<<"DDR", PortOf(p)>>] THEN "OUT" ELSE "IN"]
PinLatch     == [p \in Pins |-> IF BitOf(p) \in io[<<"PORT", PortOf(p)>>] THEN "HIGH" ELSE "LOW"]
OtherRegisters == Registers \ ({"DDR", "PORT"} \X Ports)

Board == INSTANCE PinBoard WITH direction <- PinDirection, latch <- PinLatch,
                                shown <- printed

PinsAsTold == Board!BoardSpec
=============================================================================
