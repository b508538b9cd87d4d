---------------------------- MODULE LifecycleProofs ----------------------------
(***************************************************************************)
(* The interrupt vectors and the watchdog, for every image, flash size and  *)
(* jump target: what is left of a program's steps tells how its flags are.  *)
(***************************************************************************)
EXTENDS Lifecycle, SequenceTheorems, TLAPS

(* What may be left to do, named for the step that comes next.              *)
Sei         == <<"sei">>
UsbInit     == <<"USB_Init", "sei">>
BootVectors == <<"boot vectors", "USB_Init", "sei">>
BootStop    == <<"wdt_disable", "boot vectors", "USB_Init", "sei">>
BootClear   == <<"clear WDRF", "wdt_disable", "boot vectors", "USB_Init", "sei">>
BootCrt     == <<"crt", "clear WDRF", "wdt_disable", "boot vectors", "USB_Init", "sei">>
LineStop    == <<"wdt_disable", "USB_Init", "sei">>
LineClear   == <<"clear WDRF", "wdt_disable", "USB_Init", "sei">>
LineCrt     == <<"crt", "clear WDRF", "wdt_disable", "USB_Init", "sei">>
UsartStop   == <<"wdt_disable", "sei">>
UsartClear  == <<"clear WDRF", "wdt_disable", "sei">>
UsartCli    == <<"cli", "clear WDRF", "wdt_disable", "sei">>
UsartCrt    == <<"crt", "cli", "clear WDRF", "wdt_disable", "sei">>
Spin        == <<"spin">>
Reboot      == <<"wdt_enable", "spin">>
JumpNext    == <<"jump">>
AppVectors  == <<"application vectors", "jump">>
UsbDisable  == <<"USB_Disable", "application vectors", "jump">>

BootTodo  == {BootCrt, BootClear, BootStop, BootVectors, UsbInit, Sei, <<>>}
LineTodo  == {LineCrt, LineClear, LineStop, UsbInit, Sei, <<>>,
              Reboot, Spin, UsbDisable, AppVectors, JumpNext}
UsartTodo == {UsartCrt, UsartCli, UsartClear, UsartStop, Sei, <<>>}

(* The steps of a start-up before the watchdog is stopped; those of the     *)
(* bootloader before it has its vectors.                                    *)
Early == {BootCrt, BootClear, BootStop, LineCrt, LineClear, LineStop,
          UsartCrt, UsartCli, UsartClear, UsartStop}
Cold  == {BootCrt, BootClear, BootStop, BootVectors}

TodoOK ==
  /\ image \in Images \cup {NoImage}
  /\ program \in Applications \cup {"bootloader", "lost"}
  /\ program = "bootloader" => todo \in BootTodo
  /\ program \in CommandLines => todo \in LineTodo
  /\ program = "usart-hello-world" => todo \in UsartTodo
  /\ program = "lost" => todo = <<>>

(* A USB controller that is on belongs to the program whose vectors count.  *)
VectorsOK ==
  /\ program = "bootloader" => IF todo \in Cold THEN ~IVSEL /\ ~usb ELSE IVSEL
  /\ program \in Applications => ~IVSEL
  /\ todo \in {AppVectors, JumpNext} => ~usb

(* The watchdog is stopped early in the start-up, and stays so until it is  *)
(* asked for.                                                               *)
AskedFor   == program = "bootloader" /\ MagicBootKey /\ armed
WatchdogOK ==
  /\ todo \in {BootStop, LineStop, UsartStop} => ~WDRF
  /\ todo = Spin => armed
  /\ program = "lost" \/ todo \in Early \cup {Spin} \/ ~WDE \/ (todo = <<>> /\ AskedFor)

LifeInv == TodoOK /\ VectorsOK /\ WatchdogOK
-----------------------------------------------------------------------------
(* How each list starts and goes on.                                        *)
LEMMA Heads ==
  /\ Head(Sei) = "sei" /\ Head(UsbInit) = "USB_Init"
  /\ Head(BootVectors) = "boot vectors" /\ Head(BootStop) = "wdt_disable"
  /\ Head(BootClear) = "clear WDRF" /\ Head(BootCrt) = "crt"
  /\ Head(LineStop) = "wdt_disable" /\ Head(LineClear) = "clear WDRF"
  /\ Head(LineCrt) = "crt"
  /\ Head(UsartStop) = "wdt_disable" /\ Head(UsartClear) = "clear WDRF"
  /\ Head(UsartCli) = "cli" /\ Head(UsartCrt) = "crt"
  /\ Head(Spin) = "spin" /\ Head(Reboot) = "wdt_enable" /\ Head(JumpNext) = "jump"
  /\ Head(AppVectors) = "application vectors" /\ Head(UsbDisable) = "USB_Disable"
  BY DEF Sei, UsbInit, BootVectors, BootStop, BootClear, BootCrt, LineStop, LineClear,
         LineCrt, UsartStop, UsartClear, UsartCli, UsartCrt, Spin, Reboot, JumpNext,
         AppVectors, UsbDisable

LEMMA Tail2 ==
  ASSUME NEW a, NEW b
  PROVE  Tail(<<a, b>>) = <<b>>
  OBVIOUS

LEMMA Tail3 ==
  ASSUME NEW a, NEW b, NEW c
  PROVE  Tail(<<a, b, c>>) = <<b, c>>
  OBVIOUS

LEMMA Tail4 ==
  ASSUME NEW a, NEW b, NEW c, NEW d
  PROVE  Tail(<<a, b, c, d>>) = <<b, c, d>>
  OBVIOUS

LEMMA NonEmpty ==
  <<>> \notin Early \cup Cold \cup
           {UsbInit, Sei, Spin, Reboot, UsbDisable, AppVectors, JumpNext}
  BY DEF Early, Cold, Sei, UsbInit, BootVectors, BootStop, BootClear, BootCrt, LineStop,
         LineClear, LineCrt, UsartStop, UsartClear, UsartCli, UsartCrt, Spin, Reboot,
         JumpNext, AppVectors, UsbDisable

LEMMA Prepend4 ==
  ASSUME NEW a, NEW b, NEW c, NEW d, NEW e
  PROVE  <<a>> \o <<b, c, d, e>> = <<a, b, c, d, e>>
<1> DEFINE s == <<b, c, d, e>>
           t == <<a, b, c, d, e>>
           S == {a, b, c, d, e}
<1>1. <<a>> \in Seq(S) /\ s \in Seq(S) /\ Len(<<a>>) = 1 /\ Len(s) = 4
  OBVIOUS
<1>2. t \in Seq(S) /\ Len(t) = 5
  OBVIOUS
<1>3. <<a>> \o s \in Seq(S) /\ Len(<<a>> \o s) = 5
  BY <1>1, ConcatProperties
<1>4. \A i \in 1 .. 5 : (<<a>> \o s)[i] = t[i]
  <2> TAKE i \in 1 .. 5
  <2>1. (<<a>> \o s)[i] = IF i <= 1 THEN <<a>>[i] ELSE s[i - 1]
    BY <1>1, ConcatProperties
  <2> QED
    BY <2>1
<1> QED
  BY <1>2, <1>3, <1>4, SeqEqual

LEMMA Prepend5 ==
  ASSUME NEW a, NEW b, NEW c, NEW d, NEW e, NEW f
  PROVE  <<a>> \o <<b, c, d, e, f>> = <<a, b, c, d, e, f>>
<1> DEFINE s == <<b, c, d, e, f>>
           t == <<a, b, c, d, e, f>>
           S == {a, b, c, d, e, f}
<1>1. <<a>> \in Seq(S) /\ s \in Seq(S) /\ Len(<<a>>) = 1 /\ Len(s) = 5
  OBVIOUS
<1>2. t \in Seq(S) /\ Len(t) = 6
  OBVIOUS
<1>3. <<a>> \o s \in Seq(S) /\ Len(<<a>> \o s) = 6
  BY <1>1, ConcatProperties
<1>4. \A i \in 1 .. 6 : (<<a>> \o s)[i] = t[i]
  <2> TAKE i \in 1 .. 6
  <2>1. (<<a>> \o s)[i] = IF i <= 1 THEN <<a>>[i] ELSE s[i - 1]
    BY <1>1, ConcatProperties
  <2> QED
    BY <2>1
<1> QED
  BY <1>2, <1>3, <1>4, SeqEqual

LEMMA TailOfPrepend ==
  ASSUME NEW S, NEW s \in Seq(S), NEW t \in Seq(S), Len(s) = 1
  PROVE  Tail(s \o t) = t
<1>1. /\ s \o t \in Seq(S) /\ Len(s \o t) = Len(s) + Len(t)
      /\ \A i \in 1 .. Len(s) + Len(t) :
           (s \o t)[i] = IF i <= Len(s) THEN s[i] ELSE t[i - Len(s)]
  BY ConcatProperties
<1>2. Len(t) \in Nat
  OBVIOUS
<1>3. s \o t # <<>>
  BY <1>1, <1>2, EmptySeq
<1>4. /\ Tail(s \o t) \in Seq(S) /\ Len(Tail(s \o t)) = Len(t)
      /\ \A i \in 1 .. Len(t) : Tail(s \o t)[i] = (s \o t)[i + 1]
  BY <1>1, <1>2, <1>3, HeadTailProperties
<1>5. \A i \in 1 .. Len(t) : Tail(s \o t)[i] = t[i]
  BY <1>1, <1>2, <1>4
<1> QED
  BY <1>4, <1>5, SeqEqual

Names == {"crt", "cli", "clear WDRF", "wdt_disable", "boot vectors", "USB_Init", "sei"}

LEMMA InNames ==
  /\ <<"crt">> \in Seq(Names) /\ Len(<<"crt">>) = 1
  /\ <<"clear WDRF">> \in Seq(Names) /\ Len(<<"clear WDRF">>) = 1
  /\ BootStop \in Seq(Names) /\ BootClear \in Seq(Names)
  /\ LineClear \in Seq(Names) /\ UsartCli \in Seq(Names)
<1>1. <<"crt">> \in Seq(Names) /\ Len(<<"crt">>) = 1
  BY DEF Names
<1>2. <<"clear WDRF">> \in Seq(Names) /\ Len(<<"clear WDRF">>) = 1
  BY DEF Names
<1>3. BootStop \in Seq(Names)
  BY DEF Names, BootStop
<1>4. BootClear \in Seq(Names)
  BY DEF Names, BootClear
<1>5. LineClear \in Seq(Names)
  BY DEF Names, LineClear
<1>6. UsartCli \in Seq(Names)
  BY DEF Names, UsartCli
<1> QED
  BY <1>1, <1>2, <1>3, <1>4, <1>5, <1>6

LEMMA Tails ==
  /\ Tail(Sei) = <<>> /\ Tail(UsbInit) = Sei
  /\ Tail(BootVectors) = UsbInit /\ Tail(BootStop) = BootVectors
  /\ Tail(BootClear) = BootStop /\ Tail(BootCrt) = BootClear
  /\ Tail(LineStop) = UsbInit /\ Tail(LineClear) = LineStop /\ Tail(LineCrt) = LineClear
  /\ Tail(UsartStop) = Sei /\ Tail(UsartClear) = UsartStop
  /\ Tail(UsartCli) = UsartClear /\ Tail(UsartCrt) = UsartCli
  /\ Tail(Reboot) = Spin
  /\ Tail(AppVectors) = JumpNext /\ Tail(UsbDisable) = AppVectors
<1>1. Tail(Sei) = <<>>
  BY DEF Sei
<1>2. Tail(UsbInit) = Sei
  BY Tail2, Zenon DEF UsbInit, Sei
<1>3. Tail(BootVectors) = UsbInit
  BY Tail3, Zenon DEF BootVectors, UsbInit
<1>4. Tail(BootStop) = BootVectors
  BY Tail4, Zenon DEF BootStop, BootVectors
<1>5. Tail(BootClear) = BootStop
  <2>1. <<"clear WDRF">> \o BootStop = BootClear
    BY Prepend4, Zenon DEF BootClear, BootStop
  <2>2. Tail(<<"clear WDRF">> \o BootStop) = BootStop
    BY TailOfPrepend, InNames
  <2> QED
    BY <2>1, <2>2, Zenon
<1>6. Tail(BootCrt) = BootClear
  <2>1. <<"crt">> \o BootClear = BootCrt
    BY Prepend5, ZenonT(30) DEF BootCrt, BootClear
  <2>2. Tail(<<"crt">> \o BootClear) = BootClear
    BY TailOfPrepend, InNames
  <2> QED
    BY <2>1, <2>2, Zenon
<1>7. Tail(LineStop) = UsbInit
  BY Tail3, Zenon DEF LineStop, UsbInit
<1>8. Tail(LineClear) = LineStop
  BY Tail4, Zenon DEF LineClear, LineStop
<1>9. Tail(LineCrt) = LineClear
  <2>1. <<"crt">> \o LineClear = LineCrt
    BY Prepend4, Zenon DEF LineCrt, LineClear
  <2>2. Tail(<<"crt">> \o LineClear) = LineClear
    BY TailOfPrepend, InNames
  <2> QED
    BY <2>1, <2>2, Zenon
<1>10. Tail(UsartStop) = Sei
  BY Tail2, Zenon DEF UsartStop, Sei
<1>11. Tail(UsartClear) = UsartStop
  BY Tail3, Zenon DEF UsartClear, UsartStop
<1>12. Tail(UsartCli) = UsartClear
  BY Tail4, Zenon DEF UsartCli, UsartClear
<1>13. Tail(UsartCrt) = UsartCli
  <2>1. <<"crt">> \o UsartCli = UsartCrt
    BY Prepend4, Zenon DEF UsartCrt, UsartCli
  <2>2. Tail(<<"crt">> \o UsartCli) = UsartCli
    BY TailOfPrepend, InNames
  <2> QED
    BY <2>1, <2>2, Zenon
<1>14. Tail(Reboot) = Spin
  BY Tail2, Zenon DEF Reboot, Spin
<1>15. Tail(AppVectors) = JumpNext
  BY Tail2, Zenon DEF AppVectors, JumpNext
<1>16. Tail(UsbDisable) = AppVectors
  BY Tail3, Zenon DEF UsbDisable, AppVectors
<1> QED
  BY <1>1, <1>2, <1>3, <1>4, <1>5, <1>6, <1>7, <1>8, <1>9, <1>10,
     <1>11, <1>12, <1>13, <1>14, <1>15, <1>16

LEMMA StartUps ==
  /\ StartUp("bootloader") = BootCrt
  /\ \A p \in CommandLines : StartUp(p) = LineCrt
  /\ StartUp("usart-hello-world") = UsartCrt
  /\ StartUp("lost") = <<>>
<1>1. <<"crt">> \o SetupHardware = BootCrt
  BY Prepend5, ZenonT(30) DEF SetupHardware, BootCrt
<1>2. <<"crt">> \o hardware_init = LineCrt
  BY Prepend4, Zenon DEF hardware_init, LineCrt
<1>3. <<"crt">> \o init_hardware = UsartCrt
  BY Prepend4, Zenon DEF init_hardware, UsartCrt
<1> QED
  BY <1>1, <1>2, <1>3 DEF StartUp, CommandLines, Applications

(* In a program, the step that comes next tells all that is left.           *)
LEMMA NextStep ==
  ASSUME TodoOK, todo # <<>>
  PROVE  /\ \/ program = "bootloader" /\ todo \in BootTodo
            \/ program \in CommandLines /\ todo \in LineTodo
            \/ program = "usart-hello-world" /\ todo \in UsartTodo
         /\ Head(todo) = "crt" => todo \in {BootCrt, LineCrt, UsartCrt}
         /\ Head(todo) = "cli" => todo = UsartCli
         /\ Head(todo) = "clear WDRF" => todo \in {BootClear, LineClear, UsartClear}
         /\ Head(todo) = "wdt_disable" => todo \in {BootStop, LineStop, UsartStop}
         /\ Head(todo) = "boot vectors" => todo = BootVectors
         /\ Head(todo) = "USB_Init" => todo = UsbInit
         /\ Head(todo) = "sei" => todo = Sei
         /\ Head(todo) = "wdt_enable" => todo = Reboot
         /\ Head(todo) = "USB_Disable" => todo = UsbDisable
         /\ Head(todo) = "application vectors" => todo = AppVectors
         /\ Head(todo) = "jump" => todo = JumpNext
  BY Heads DEF TodoOK, Applications, CommandLines, BootTodo, LineTodo, UsartTodo

(* Which lists are whose.                                                   *)
LEMMA Owners ==
  /\ {BootCrt, BootClear, BootStop, BootVectors} \cap (LineTodo \cup UsartTodo) = {}
  /\ {LineCrt, LineClear, LineStop, Reboot, Spin, UsbDisable, AppVectors, JumpNext}
       \cap (BootTodo \cup UsartTodo) = {}
  /\ {UsartCrt, UsartCli, UsartClear, UsartStop} \cap (BootTodo \cup LineTodo) = {}
  /\ UsbInit \notin UsartTodo
  BY DEF BootTodo, LineTodo, UsartTodo, Sei, UsbInit, BootVectors, BootStop, BootClear,
         BootCrt, LineStop, LineClear, LineCrt, UsartStop, UsartClear, UsartCli, UsartCrt,
         Spin, Reboot, JumpNext, AppVectors, UsbDisable

LEMMA Kinds ==
  /\ {UsbInit, Sei, <<>>} \cap Cold = {}
  /\ {<<>>, Sei, UsbInit, BootVectors, Spin, Reboot, UsbDisable, AppVectors, JumpNext}
       \cap (Early \cup {BootStop, LineStop, UsartStop}) = {}
  /\ (Early \cup {<<>>, Sei, UsbInit, BootVectors, Spin, Reboot, UsbDisable})
       \cap {AppVectors, JumpNext} = {}
  /\ {BootCrt, LineCrt, UsartCrt, UsartCli, BootClear, LineClear, UsartClear}
       \cap {BootStop, LineStop, UsartStop} = {}
  /\ Spin \notin {<<>>, Reboot, Sei, UsbInit, BootVectors, UsbDisable, AppVectors, JumpNext}
  BY DEF Early, Cold, Sei, UsbInit, BootVectors, BootStop, BootClear, BootCrt, LineStop,
         LineClear, LineCrt, UsartStop, UsartClear, UsartCli, UsartCrt, Spin, Reboot,
         JumpNext, AppVectors, UsbDisable
-----------------------------------------------------------------------------
(* A program that starts with the vectors of the reset and USB off.         *)
LEMMA Landings ==
  ASSUME image \in Images \cup {NoImage}, NEW address \in Nat
  PROVE  Landing(address) \in Applications \cup {"bootloader", "lost"}
  BY LifecycleConstants DEF Landing, NoImage

LEMMA Started ==
  ASSUME image' \in Images \cup {NoImage},
         program' \in Applications \cup {"bootloader", "lost"},
         todo' = StartUp(program'), ~IVSEL', ~usb'
  PROVE  LifeInv'
<1>1. \/ program' = "bootloader" /\ todo' = BootCrt
      \/ program' \in CommandLines /\ todo' = LineCrt
      \/ program' = "usart-hello-world" /\ todo' = UsartCrt
      \/ program' = "lost" /\ todo' = <<>>
  BY StartUps DEF Applications
<1>2. TodoOK'
  BY <1>1 DEF TodoOK, BootTodo, LineTodo, UsartTodo, CommandLines
<1>3. VectorsOK'
  BY <1>1, Kinds DEF VectorsOK, Cold, CommandLines, Applications, Early
<1>4. WatchdogOK'
  BY <1>1, Kinds DEF WatchdogOK, Early
<1> QED
  BY <1>2, <1>3, <1>4 DEF LifeInv
-----------------------------------------------------------------------------
(* The steps of a program.                                                  *)
LEMMA ClearInterruptFlagStep == LifeInv /\ ClearInterruptFlag => LifeInv'
<1> SUFFICES ASSUME LifeInv, ClearInterruptFlag PROVE LifeInv'
  OBVIOUS
<1>1. /\ TodoOK /\ VectorsOK /\ WatchdogOK /\ todo # <<>>
      /\ Head(todo) \in {"crt", "cli"} /\ todo' = Tail(todo)
      /\ UNCHANGED <<image, program, MagicBootKey, armed, usb, IVSEL, WDRF, WDE>>
  BY DEF LifeInv, ClearInterruptFlag, Step, wdtVars
<1>2. \/ program = "bootloader" /\ todo = BootCrt /\ todo' = BootClear
      \/ program \in CommandLines /\ todo = LineCrt /\ todo' = LineClear
      \/ program = "usart-hello-world" /\ todo = UsartCrt /\ todo' = UsartCli
      \/ program = "usart-hello-world" /\ todo = UsartCli /\ todo' = UsartClear
  BY <1>1, NextStep, Owners, Tails
<1>3. TodoOK'
  BY <1>1, <1>2 DEF TodoOK, BootTodo, LineTodo, UsartTodo, CommandLines
<1>4. VectorsOK'
  BY <1>1, <1>2, Kinds DEF VectorsOK, Cold, Early, CommandLines
<1>5. WatchdogOK'
  BY <1>1, <1>2, Kinds DEF WatchdogOK, Early
<1> QED
  BY <1>3, <1>4, <1>5 DEF LifeInv

LEMMA EnableInterruptsStep == LifeInv /\ EnableInterrupts => LifeInv'
<1> SUFFICES ASSUME LifeInv, EnableInterrupts PROVE LifeInv'
  OBVIOUS
<1>1. /\ TodoOK /\ VectorsOK /\ WatchdogOK /\ todo # <<>>
      /\ Head(todo) = "sei" /\ todo' = Tail(todo)
      /\ UNCHANGED <<image, program, MagicBootKey, armed, usb, IVSEL, WDRF, WDE>>
  BY DEF LifeInv, EnableInterrupts, Step, wdtVars
<1>2. todo = Sei /\ todo' = <<>>
  BY <1>1, NextStep, Tails
<1>3. TodoOK'
  BY <1>1, <1>2 DEF TodoOK, BootTodo, LineTodo, UsartTodo
<1>4. VectorsOK'
  BY <1>1, <1>2, Kinds DEF VectorsOK
<1>5. WatchdogOK'
  BY <1>1, <1>2, Kinds, NonEmpty DEF WatchdogOK, AskedFor
<1> QED
  BY <1>3, <1>4, <1>5 DEF LifeInv

LEMMA ClearWatchdogFlagStep == LifeInv /\ ClearWatchdogFlag => LifeInv'
<1> SUFFICES ASSUME LifeInv, ClearWatchdogFlag PROVE LifeInv'
  OBVIOUS
<1>1. /\ TodoOK /\ VectorsOK /\ WatchdogOK /\ todo # <<>> /\ ~WDRF'
      /\ Head(todo) = "clear WDRF" /\ todo' = Tail(todo)
      /\ UNCHANGED <<image, program, MagicBootKey, armed, usb, IVSEL, WDE>>
  BY DEF LifeInv, ClearWatchdogFlag, Step, irqVars
<1>2. \/ program = "bootloader" /\ todo = BootClear /\ todo' = BootStop
      \/ program \in CommandLines /\ todo = LineClear /\ todo' = LineStop
      \/ program = "usart-hello-world" /\ todo = UsartClear /\ todo' = UsartStop
  BY <1>1, NextStep, Owners, Tails
<1>3. TodoOK'
  BY <1>1, <1>2 DEF TodoOK, BootTodo, LineTodo, UsartTodo, CommandLines
<1>4. VectorsOK'
  BY <1>1, <1>2, Kinds DEF VectorsOK, Cold, Early, CommandLines
<1>5. WatchdogOK'
  BY <1>1, <1>2, Kinds DEF WatchdogOK, Early
<1> QED
  BY <1>3, <1>4, <1>5 DEF LifeInv

LEMMA DisableWatchdogStep == LifeInv /\ DisableWatchdog => LifeInv'
<1> SUFFICES ASSUME LifeInv, DisableWatchdog PROVE LifeInv'
  OBVIOUS
<1>1. /\ TodoOK /\ VectorsOK /\ WatchdogOK /\ todo # <<>> /\ WDE' = WDRF
      /\ Head(todo) = "wdt_disable" /\ todo' = Tail(todo)
      /\ UNCHANGED <<image, program, MagicBootKey, armed, usb, IVSEL, WDRF>>
  BY DEF LifeInv, DisableWatchdog, Step, irqVars
<1>2. \/ program = "bootloader" /\ todo = BootStop /\ todo' = BootVectors
      \/ program \in CommandLines /\ todo = LineStop /\ todo' = UsbInit
      \/ program = "usart-hello-world" /\ todo = UsartStop /\ todo' = Sei
  BY <1>1, NextStep, Owners, Tails
<1>3. TodoOK'
  BY <1>1, <1>2 DEF TodoOK, BootTodo, LineTodo, UsartTodo, CommandLines
<1>4. VectorsOK'
  BY <1>1, <1>2, Kinds DEF VectorsOK, Cold, CommandLines
<1>5. ~WDE'
  BY <1>1, <1>2 DEF WatchdogOK
<1>6. WatchdogOK'
  BY <1>2, <1>5, Kinds DEF WatchdogOK
<1> QED
  BY <1>3, <1>4, <1>6 DEF LifeInv

LEMMA EnableWatchdogStep == LifeInv /\ EnableWatchdog => LifeInv'
<1> SUFFICES ASSUME LifeInv, EnableWatchdog PROVE LifeInv'
  OBVIOUS
<1>1. /\ TodoOK /\ VectorsOK /\ WatchdogOK /\ todo # <<>>
      /\ Head(todo) = "wdt_enable" /\ todo' = Tail(todo) /\ armed'
      /\ UNCHANGED <<image, program, MagicBootKey, usb, IVSEL, WDRF>>
  BY DEF LifeInv, EnableWatchdog, Step, irqVars
<1>2. program \in CommandLines /\ todo = Reboot /\ todo' = Spin
  BY <1>1, NextStep, Owners, Tails
<1>3. TodoOK'
  BY <1>1, <1>2 DEF TodoOK, LineTodo, CommandLines
<1>4. VectorsOK'
  BY <1>1, <1>2, Kinds DEF VectorsOK, CommandLines
<1>5. WatchdogOK'
  BY <1>1, <1>2, Kinds DEF WatchdogOK
<1> QED
  BY <1>3, <1>4, <1>5 DEF LifeInv

LEMMA SelectVectorsStep == LifeInv /\ SelectVectors => LifeInv'
<1> SUFFICES ASSUME LifeInv, SelectVectors PROVE LifeInv'
  OBVIOUS
<1>1. /\ TodoOK /\ VectorsOK /\ WatchdogOK /\ todo # <<>> /\ todo' = Tail(todo)
      /\ \/ Head(todo) = "boot vectors" /\ IVSEL'
         \/ Head(todo) = "application vectors" /\ ~IVSEL'
      /\ UNCHANGED <<image, program, MagicBootKey, armed, usb, WDRF, WDE>>
  BY DEF LifeInv, SelectVectors, Step, wdtVars
<1>2. \/ program = "bootloader" /\ todo = BootVectors /\ todo' = UsbInit /\ IVSEL'
      \/ program \in CommandLines /\ todo = AppVectors /\ todo' = JumpNext /\ ~IVSEL'
  BY <1>1, NextStep, Owners, Tails
<1>3. TodoOK'
  BY <1>1, <1>2 DEF TodoOK, BootTodo, LineTodo, CommandLines
<1>4. VectorsOK'
  BY <1>1, <1>2, Kinds DEF VectorsOK, CommandLines, Applications
<1>5. ~WDE'
  BY <1>1, <1>2, Kinds, NonEmpty DEF WatchdogOK, CommandLines
<1>6. WatchdogOK'
  BY <1>2, <1>5, Kinds DEF WatchdogOK
<1> QED
  BY <1>3, <1>4, <1>6 DEF LifeInv

LEMMA SwitchUsbStep == LifeInv /\ SwitchUsb => LifeInv'
<1> SUFFICES ASSUME LifeInv, SwitchUsb PROVE LifeInv'
  OBVIOUS
<1>1. /\ TodoOK /\ VectorsOK /\ WatchdogOK /\ todo # <<>> /\ todo' = Tail(todo)
      /\ \/ Head(todo) = "USB_Init" /\ usb'
         \/ Head(todo) = "USB_Disable" /\ ~usb'
      /\ UNCHANGED <<image, program, MagicBootKey, armed, IVSEL, WDRF, WDE>>
  BY DEF LifeInv, SwitchUsb, Step, wdtVars
<1>2. \/ program \in CommandLines \cup {"bootloader"} /\ todo = UsbInit /\ todo' = Sei
      \/ program \in CommandLines /\ todo = UsbDisable /\ todo' = AppVectors /\ ~usb'
  BY <1>1, NextStep, Owners, Tails
<1>3. TodoOK'
  BY <1>1, <1>2 DEF TodoOK, BootTodo, LineTodo, CommandLines
<1>4. VectorsOK'
  BY <1>1, <1>2, Kinds DEF VectorsOK, CommandLines, Applications
<1>5. ~WDE'
  BY <1>1, <1>2, Kinds, NonEmpty DEF WatchdogOK, CommandLines
<1>6. WatchdogOK'
  BY <1>2, <1>5, Kinds DEF WatchdogOK
<1> QED
  BY <1>3, <1>4, <1>6 DEF LifeInv

LEMMA JumpStep == LifeInv /\ Jump => LifeInv'
<1> SUFFICES ASSUME LifeInv, Jump PROVE LifeInv'
  OBVIOUS
<1>1. /\ TodoOK /\ VectorsOK /\ todo # <<>> /\ Head(todo) = "jump"
      /\ program' = Landing(JumpTarget) /\ todo' = StartUp(program')
      /\ UNCHANGED <<image, usb, IVSEL>>
  BY DEF LifeInv, Jump, irqVars
<1>2. todo = JumpNext /\ program \in CommandLines
  BY <1>1, NextStep, Owners
<1>3. ~IVSEL' /\ ~usb'
  BY <1>1, <1>2 DEF VectorsOK, Applications
<1>4. JumpTarget \in Nat
  BY LifecycleConstants DEF JumpTarget
<1> QED
  BY <1>1, <1>3, <1>4, Landings, Started DEF TodoOK

LEMMA RunStep == LifeInv /\ Run => LifeInv'
  BY ClearInterruptFlagStep, EnableInterruptsStep, ClearWatchdogFlagStep,
     DisableWatchdogStep, EnableWatchdogStep, SelectVectorsStep, SwitchUsbStep, JumpStep
  DEF Run
-----------------------------------------------------------------------------
(* Users, resets and the rest.                                              *)
LEMMA LeaveStep == LifeInv /\ (Leave("reboot", process_reboot)
                                \/ Leave("bootloader", command_bootloader)) => LifeInv'
<1> SUFFICES ASSUME LifeInv, NEW request, NEW steps \in {Reboot, UsbDisable},
                    Leave(request, steps)
             PROVE  LifeInv'
  BY DEF process_reboot, Reboot, command_bootloader, UsbDisable
<1>1. /\ TodoOK /\ VectorsOK /\ WatchdogOK
      /\ program \in CommandLines /\ todo = <<>> /\ todo' \in {Reboot, UsbDisable}
      /\ UNCHANGED <<image, program, usb, IVSEL, WDRF, WDE, armed>>
  BY DEF LifeInv, Leave, irqVars, wdtVars
<1>2. TodoOK'
  BY <1>1 DEF TodoOK, LineTodo, CommandLines
<1>3. VectorsOK'
  BY <1>1, Kinds DEF VectorsOK, CommandLines, Applications
<1>4. ~WDE'
  BY <1>1, Kinds DEF WatchdogOK, AskedFor, CommandLines
<1>5. WatchdogOK'
  BY <1>1, <1>4, Kinds DEF WatchdogOK
<1> QED
  BY <1>2, <1>3, <1>5 DEF LifeInv

LEMMA ServeStep == LifeInv /\ (ExitByWatchdog \/ Download) => LifeInv'
<1> SUFFICES ASSUME LifeInv, ExitByWatchdog \/ Download PROVE LifeInv'
  OBVIOUS
<1>1. /\ TodoOK /\ VectorsOK /\ WatchdogOK
      /\ program = "bootloader" /\ todo = <<>> /\ image' \in Images \cup {NoImage}
      /\ UNCHANGED <<program, todo, usb, IVSEL, WDRF>>
      /\ \/ MagicBootKey' = TRUE /\ armed' = TRUE
         \/ UNCHANGED <<WDE, MagicBootKey, armed>>
  BY DEF LifeInv, TodoOK, ExitByWatchdog, Download, Serves, cpuVars, irqVars, wdtVars
<1>2. TodoOK'
  BY <1>1 DEF TodoOK
<1>3. VectorsOK'
  BY <1>1 DEF VectorsOK
<1>4. WatchdogOK'
  BY <1>1, Kinds DEF WatchdogOK, AskedFor
<1> QED
  BY <1>2, <1>3, <1>4 DEF LifeInv

LEMMA ResetStep == LifeInv /\ (WatchdogFires \/ ResetLine \/ PowerCycle) => LifeInv'
<1> SUFFICES ASSUME LifeInv, Restart PROVE LifeInv'
  BY DEF WatchdogFires, ResetLine, PowerCycle
<1>1. image' \in Images \cup {NoImage} /\ todo' = StartUp(program') /\ ~usb' /\ ~IVSEL'
  BY DEF LifeInv, TodoOK, Restart
<1>2. program' \in Applications \cup {"bootloader", "lost"}
  BY Landings DEF LifeInv, TodoOK, Restart
<1> QED
  BY <1>1, <1>2, Started

LEMMA OtherStep == LifeInv /\ (HwbMoves \/ UNCHANGED lifeVars) => LifeInv'
<1> SUFFICES ASSUME LifeInv, UNCHANGED <<image, program, todo, usb, IVSEL, WDRF, WDE,
                                         MagicBootKey, armed>>
             PROVE  LifeInv'
  BY DEF HwbMoves, lifeVars, cpuVars, irqVars, wdtVars
<1> QED
  BY DEF LifeInv, TodoOK, VectorsOK, WatchdogOK, AskedFor
-----------------------------------------------------------------------------
LEMMA LifeStarts == LifeInit => LifeInv
<1> SUFFICES ASSUME LifeInit PROVE LifeInv
  OBVIOUS
<1>1. program \in Applications \cup {"bootloader", "lost"}
  BY Landings DEF LifeInit
<1>2. \/ program = "bootloader" /\ todo = BootCrt
      \/ program \in CommandLines /\ todo = LineCrt
      \/ program = "usart-hello-world" /\ todo = UsartCrt
      \/ program = "lost" /\ todo = <<>>
  BY <1>1, StartUps DEF LifeInit, Applications
<1>3. TodoOK
  BY <1>2 DEF LifeInit, TodoOK, BootTodo, LineTodo, UsartTodo, CommandLines, Applications
<1>4. VectorsOK
  BY <1>2, Kinds DEF LifeInit, VectorsOK, Cold, CommandLines, Applications, Early
<1>5. WatchdogOK
  BY <1>2, Kinds DEF LifeInit, WatchdogOK, Early
<1> QED
  BY <1>3, <1>4, <1>5 DEF LifeInv

LEMMA LifeStep == LifeInv /\ [LifeNext]_lifeVars => LifeInv'
  BY RunStep, LeaveStep, ServeStep, ResetStep, OtherStep DEF LifeNext, User

(* Whatever is downloaded and however the board is left and reset: what is  *)
(* left of a program's steps tells where its vectors, its USB controller    *)
(* and its watchdog stand (the init functions and the ways out of main()).  *)
THEOREM LifecycleInvariant == LifeSpec => []LifeInv
  BY LifeStarts, LifeStep, PTL DEF LifeSpec

(* A USB interrupt finds the vectors of the program that runs, for every    *)
(* image, flash size and target of the bootloader command's jump            *)
(* (SetupHardware and CMD_bootloader's steps).                              *)
THEOREM LifecycleVectors == LifeSpec => []OwnVectors
<1>1. LifeInv => OwnVectors
  BY DEF LifeInv, TodoOK, VectorsOK, OwnVectors
<1> QED
  BY <1>1, LifecycleInvariant, PTL

(* No watchdog reset goes by itself into a second one: a program is reset   *)
(* only when it switched the watchdog on itself since the last reset (the   *)
(* wdt_disable of every start-up, after the flag is cleared).               *)
THEOREM LifecycleNoStrayReset == LifeSpec => NoStrayReset
<1>1. LifeInv /\ WatchdogFires =>
        program = "lost" \/ (armed /\ (program = "bootloader" => MagicBootKey))
  <2> SUFFICES ASSUME LifeInv, WatchdogFires, program # "lost"
               PROVE  armed /\ (program = "bootloader" => MagicBootKey)
    OBVIOUS
  <2>1. WDE /\ todo \in {<<>>, Spin}
    BY DEF WatchdogFires, Resting, Spin
  <2>2. CASE todo = <<>>
    BY <2>1, <2>2, Kinds, NonEmpty DEF LifeInv, WatchdogOK, AskedFor
  <2>3. CASE todo = Spin
    BY <2>3, Owners DEF LifeInv, TodoOK, WatchdogOK
  <2> QED
    BY <2>1, <2>2, <2>3
<1>2. LifeInv /\ [LifeNext]_lifeVars =>
        [WatchdogFires =>
           program = "lost" \/ (armed /\ (program = "bootloader" => MagicBootKey))]_lifeVars
  BY <1>1
<1> QED
  BY <1>2, LifecycleInvariant, PTL DEF LifeSpec, NoStrayReset

(* Where every image ends below the target of its jump the bootloader       *)
(* command enters the bootloader, also from what a download cut short left  *)
(* (CMD_bootloader; the run of the same property shows the larger image).   *)
THEOREM LifecycleJump ==
  ASSUME LowImages
  PROVE  LifeSpec => JumpEntersBootloader
<1>1. LifeInv /\ Jump => program' = "bootloader"
  <2> SUFFICES ASSUME LifeInv, Jump PROVE program' = "bootloader"
    OBVIOUS
  <2>1. JumpTarget \in Nat
    BY LifecycleConstants DEF JumpTarget
  <2>2. image.top <= JumpTarget
    BY <2>1 DEF LifeInv, TodoOK, LowImages, NoImage
  <2>3. image.top \in Nat
    BY LifecycleConstants DEF LifeInv, TodoOK, NoImage
  <2> QED
    BY <2>1, <2>2, <2>3 DEF Jump, Landing
<1>2. LifeInv /\ [LifeNext]_lifeVars => [Jump => program' = "bootloader"]_lifeVars
  BY <1>1
<1> QED
  BY <1>2, LifecycleInvariant, PTL DEF LifeSpec, JumpEntersBootloader
=============================================================================
