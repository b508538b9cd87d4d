------------------------------- MODULE SerialLoop -------------------------------
(***************************************************************************)
(* The main loop of the two command lines (main.c) and their USB glue       *)
(* (usb.c): a byte is read and edited, what that prints is written byte by  *)
(* byte, and the USB task has its turn.  The host types, reads, stops       *)
(* reading, opens, closes and unplugs between any two steps, since control  *)
(* requests are served in an interrupt.                                     *)
(***************************************************************************)
EXTENDS Integers, Sequences

CONSTANTS
  CDC_TXRX_EPSIZE,  (* bytes in a bank of each data endpoint                 *)
  Bytes,            (* what is typed                                         *)
  EndOfLine,        (* the byte that makes the editor run a command          *)
  MaxText           (* longest string printed                                *)

ASSUME SerialConstants ==
  /\ CDC_TXRX_EPSIZE \in Nat \ {0} /\ MaxText \in Nat
  /\ Bytes \subseteq 0 .. 255 /\ EndOfLine \in Bytes

VARIABLES
  link,      (* "off", "configured" with no line encoding yet, or "open"     *)
  outBank,   (* bytes of the packet the host sent, as far as not yet read    *)
  inBank,    (* bytes of the packet that is being filled or sent: of a       *)
             (* printed byte the printing function and its place count       *)
  sending,   (* whether the host has been given that packet                  *)
  shown,     (* the bytes of the last packet with data that the host took,   *)
             (* since the line came up                                       *)
  pc,        (* the place in the program                                     *)
  value,     (* the loop's variable of that name                             *)
  held,      (* the byte read from the bank and not yet edited, if any       *)
  heard,     (* the byte the editor got last                                 *)
  texts      (* what is still to be printed: by which function, the place of *)
             (* the next byte in its string and that of the last             *)

bankVars   == <<outBank, inBank, sending, shown>>
serialVars == <<link, bankVars, pc, value, held, heard, texts>>

Text(via, n) == [via |-> via, next |-> 1, last |-> n]
NextByte(t)  == <<t.via, t.next>>
-----------------------------------------------------------------------------
(* An int16_t that is stored in the uint16_t value.  Slip: in a uint8_t,    *)
(* for which no value is the -1 of an empty endpoint.                       *)
Narrow(v) == (v + 65536) % 256
Stored(v) == (v + 65536) % 65536

NoByte == 65535

(* The driver answers -1 while the line is not open. *)
usb_read_byte ==
  /\ pc = "read" /\ pc' = "edit"
  /\ IF link = "open" /\ outBank # <<>>
     THEN /\ value' = Stored(Head(outBank)) /\ held' = <<Head(outBank)>>
          /\ outBank' = Tail(outBank)
     ELSE value' = Stored(-1) /\ UNCHANGED <<held, outBank>>
  /\ UNCHANGED <<link, inBank, sending, shown, heard, texts>>

(* What the line editor makes of a byte is not in this repository: it may   *)
(* echo it, and at the end of a line it calls a command, which prints, and  *)
(* shows its prompt.                                                        *)
Prints(byte) ==
  LET Echo   == {<<>>} \cup {<<Text("usb_puts", n)>> : n \in 1 .. MaxText}
      Answer == {<<Text("printf", n), Text("usb_puts", 1)>> : n \in 1 .. MaxText}
  IN  IF byte = EndOfLine THEN Echo \cup Answer ELSE Echo

NothingRead ==
  /\ pc = "edit" /\ value = NoByte /\ pc' = "task"
  /\ UNCHANGED <<link, bankVars, value, held, heard, texts>>

mcucli_putc ==
  /\ pc = "edit" /\ value # NoByte
  /\ heard' = value % 256 /\ held' = <<>>
  /\ \/ pc' = "write" /\ texts' \in Prints(value % 256)
     \/ value = EndOfLine /\ pc' \in {"spin", "disable"} /\ UNCHANGED texts
  /\ UNCHANGED <<link, bankVars, value>>

(* What the cable, a bus reset, a new configuration or the end of the USB   *)
(* controller leaves.                                                       *)
LineOff ==
  /\ link' = "off"
  /\ outBank' = <<>> /\ inBank' = <<>> /\ sending' = FALSE /\ shown' = <<>>

(* The bootloader command leaves the bus before it jumps. *)
usb_disable ==
  /\ pc = "disable" /\ pc' = "gone"
  /\ LineOff
  /\ UNCHANGED <<value, held, heard, texts>>

Edit == NothingRead \/ mcucli_putc \/ usb_disable
-----------------------------------------------------------------------------
(* What becomes of a string when one of its bytes is refused: usb_puts      *)
(* gives up, printf goes on with the next.  Slips: usb_puts goes on as      *)
(* well; usb_puts tries the byte again.                                     *)
Advanced(t)     == [t EXCEPT !.next = @ + 1]
GoesOn(t)       == Advanced(t)
TriesAgain(t)   == t
AfterRefusal(t) == IF t.via = "usb_puts" THEN [t EXCEPT !.next = t.last + 1] ELSE Advanced(t)

(* The size with which cdc_interface has the data endpoints set up.  Slip:  *)
(* that of two banks.                                                       *)
BothBanks == 2 * CDC_TXRX_EPSIZE
BankSize  == CDC_TXRX_EPSIZE

ReadWriteAllowed == ~sending /\ Len(inBank) < BankSize

Printing == pc = "write" /\ texts # <<>> /\ texts[1].next <= texts[1].last

Refuse ==
  /\ texts' = [texts EXCEPT ![1] = AfterRefusal(@)]
  /\ pc' = "write"
  /\ UNCHANGED <<link, bankVars, value, held, heard>>

(* usb_write_byte: a line that is not open refuses the byte; a bank without *)
(* room is handed to the host first.                                        *)
CheckLine ==
  /\ Printing
  /\ \/ link # "open" /\ Refuse
     \/ /\ link = "open" /\ ReadWriteAllowed /\ pc' = "put"
        /\ UNCHANGED <<link, bankVars, value, held, heard, texts>>
     \/ /\ link = "open" /\ ~ReadWriteAllowed
        /\ sending' = TRUE /\ pc' = "wait"
        /\ UNCHANGED <<link, outBank, inBank, shown, value, held, heard, texts>>

(* The wait ends when the host has taken the packet, and after 100 ms. *)
WaitUntilReady ==
  /\ pc = "wait"
  /\ \/ /\ ~sending /\ pc' = "put"
        /\ UNCHANGED <<link, bankVars, value, held, heard, texts>>
     \/ sending /\ Refuse
     \/ link = "off" /\ Refuse

(* The line may have closed since it was checked: then the byte is lost.    *)
PutByte ==
  /\ pc = "put" /\ pc' = "write"
  /\ inBank' = IF link = "off" THEN inBank ELSE Append(inBank, NextByte(texts[1]))
  /\ texts' = [texts EXCEPT ![1] = Advanced(@)]
  /\ UNCHANGED <<link, outBank, sending, shown, value, held, heard>>

TextDone ==
  /\ pc = "write" /\ ~Printing
  /\ IF texts = <<>> THEN pc' = "task" /\ UNCHANGED texts
     ELSE texts' = Tail(texts) /\ UNCHANGED pc
  /\ UNCHANGED <<link, bankVars, value, held, heard>>

(* usb_task: what waits in the bank goes out, after a full bank also a      *)
(* packet without data.  Slip: the class driver's task is left out.         *)
NoFlush == FALSE
FlushDue == link = "open" /\ ~sending /\ inBank # <<>>

usb_task ==
  /\ pc = "task"
  /\ IF FlushDue
     THEN sending' = TRUE /\ pc' = IF ReadWriteAllowed THEN "read" ELSE "flush"
     ELSE UNCHANGED sending /\ pc' = "read"
  /\ UNCHANGED <<link, outBank, inBank, shown, value, held, heard, texts>>

FinishFlush ==
  /\ pc = "flush" /\ pc' = "read"
  /\ \/ ~sending /\ sending' = (link # "off")
     \/ sending /\ UNCHANGED sending
  /\ UNCHANGED <<link, outBank, inBank, shown, value, held, heard, texts>>

Loop ==
  \/ usb_read_byte \/ Edit \/ CheckLine \/ WaitUntilReady \/ PutByte \/ TextDone
  \/ usb_task \/ FinishFlush
-----------------------------------------------------------------------------
HostTypes ==
  /\ link # "off" /\ outBank = <<>>
  /\ \E n \in 1 .. CDC_TXRX_EPSIZE : outBank' \in [1 .. n -> Bytes]
  /\ UNCHANGED <<link, inBank, sending, shown, pc, value, held, heard, texts>>

HostTakes ==
  /\ link # "off" /\ sending
  /\ sending' = FALSE /\ inBank' = <<>>
  /\ shown' = IF inBank = <<>> THEN shown ELSE inBank
  /\ UNCHANGED <<link, outBank, pc, value, held, heard, texts>>

(* EVENT_USB_Device_ConfigurationChanged: the endpoints and the line        *)
(* encoding start afresh.  Once the controller is disabled no event comes.  *)
ConfigurationChanged ==
  /\ pc # "gone" /\ link = "off" /\ link' = "configured"
  /\ UNCHANGED <<bankVars, pc, value, held, heard, texts>>

(* EVENT_USB_Device_ControlRequest: a line encoding opens the line, or      *)
(* closes it with a rate of 0.  The control lines are looked at and ignored.*)
ControlRequest ==
  /\ link # "off" /\ link' \in {"configured", "open"}
  /\ UNCHANGED <<bankVars, pc, value, held, heard, texts>>

LinkLost ==
  /\ link # "off" /\ LineOff
  /\ UNCHANGED <<pc, value, held, heard, texts>>

Started ==
  /\ link = "off" /\ outBank = <<>> /\ inBank = <<>> /\ sending = FALSE /\ shown = <<>>
  /\ pc = "read" /\ value = NoByte /\ held = <<>> /\ heard = NoByte /\ texts = <<>>

StartsOver ==
  /\ LineOff
  /\ pc' = "read" /\ value' = NoByte /\ held' = <<>> /\ heard' = NoByte /\ texts' = <<>>

(* The watchdog, which a reboot has armed, ends its endless loop. *)
WatchdogFires == pc = "spin" /\ StartsOver

(* A reset may bring the program back from the bootloader; nothing owes it. *)
ComesBack == pc = "gone" /\ StartsOver

SerialInit == Started
Host == HostTypes \/ HostTakes \/ ConfigurationChanged \/ ControlRequest \/ LinkLost
SerialNext == Loop \/ Host \/ WatchdogFires \/ ComesBack

(* The processor runs and the watchdog bites; the host owes nothing.        *)
SerialSpec ==
  SerialInit /\ [][SerialNext]_serialVars /\ WF_serialVars(Loop) /\ WF_serialVars(WatchdogFires)
-----------------------------------------------------------------------------
Printers == {"usb_puts", "printf"}

(* No packet outgrows what the descriptors tell the host. *)
LineTypeOK ==
  /\ link \in {"off", "configured", "open"}
  /\ pc \in {"read", "edit", "write", "wait", "put", "task", "flush", "spin", "disable", "gone"}
  /\ outBank \in Seq(Bytes) /\ Len(outBank) <= CDC_TXRX_EPSIZE
  /\ inBank \in Seq(Printers \X (1 .. MaxText)) /\ Len(inBank) <= CDC_TXRX_EPSIZE
  /\ shown \in Seq(Printers \X (1 .. MaxText))
  /\ sending \in BOOLEAN
  /\ value \in Bytes \cup {NoByte} /\ heard \in Bytes \cup {NoByte}
  /\ held \in {<<>>} \cup {<<b>> : b \in Bytes}
  /\ texts \in Seq([via : Printers, next : 1 .. MaxText + 1, last : 1 .. MaxText])

(* The glue keeps the promises of a serial line: a byte of 255 is told from *)
(* the -1 of an empty endpoint; what is typed is heard in order and once;   *)
(* what is printed goes out in order and once, and no byte is left out      *)
(* unless the line was not open or the host let a packet lie for 100 ms.    *)
Line == INSTANCE ByteLine WITH
          line <- link, up <- held \o outBank, saying <- texts, down <- inBank,
          offered <- sending
LineKept == Line!LineSpec

(* What the host has of a string of usb_puts has no gap (main.c:11-18):     *)
(* since the line came up, a byte follows the one before it in its string.  *)
(* A gap can open only across a disconnection, where the byte in hand is    *)
(* lost and usb_puts, which is not told, goes on with the next.             *)
Gapless(bytes) ==
  \A i \in 2 .. Len(bytes) :
    bytes[i][1] = "usb_puts" /\ bytes[i][2] > 1
      => bytes[i - 1] = <<"usb_puts", bytes[i][2] - 1>>
NoGaps == Gapless(shown \o inBank)

(* What is typed is heard although nobody reads what the program prints.    *)
TypedIsHeard ==
  link = "open" /\ outBank # <<>> ~> outBank = <<>> \/ link # "open"

(* What is said is shown to a host that reads, although the program prints  *)
(* no more: the USB task sends what has not filled a packet.                *)
SaidIsShown ==
  WF_serialVars(HostTakes) =>
    (link = "open" /\ inBank # <<>> ~> inBank = <<>> \/ link # "open")
=============================================================================
