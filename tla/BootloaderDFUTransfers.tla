------------------------- MODULE BootloaderDFUTransfers -------------------------
(***************************************************************************)
(* Theorems about what the DFU bootloader moves between the host and the    *)
(* memories: answers, uploads and downloads, up to the refinement of        *)
(* FlashPages; and about the waits in between.  Each rests on an inductive  *)
(* invariant: AnswerInv, FlashInv, TransferInv, FlashDataInv,               *)
(* EepromDataInv, WaitInv.                                                  *)
(***************************************************************************)
EXTENDS BootloaderDFUSafety

(* A request without an answer leaves none behind.                          *)
NoReplyYet == pc \notin InStages => reply = <<>>

(* The byte of the retained read command is the one that was read.          *)
ReadKnown == /\ SentCommand.Command = COMMAND_READ
             /\ SentCommand.Data[0] \in {0, 1}
             /\ SentCommand.Data[1] \in DOMAIN ReadTable
ReadHeld  == ReadKnown /\ pc # "process" => ResponseByte = ReadTable[SentCommand.Data[1]]

(* A display command for flash is followed by its own address range.        *)
Shown == /\ DFU_State = dfuUPLOAD_IDLE /\ pc # "process"
         /\ SentCommand.Command = COMMAND_DISP_DATA /\ IsOneByteCommand(0)
ShownRange == Shown => StartAddr = AskedStart /\ EndAddr = AskedEnd

(* Firmware is taken in dfuDNLOAD_IDLE only.                                *)
FirmwareStages == {"filler", "align", "flash", "commit", "eraseNext", "eeprom", "suffix"}
FirmwareState == pc \in FirmwareStages => DFU_State = dfuDNLOAD_IDLE

(* What has been read of flash, and what is still to be read.               *)
FlashRead ==
  pc = "upFlash" =>
    /\ DFU_State = dfuUPLOAD_IDLE /\ IsOneByteCommand(0)
    /\ Len(reply) + 2 * loop.remaining = 2 * (BytesRemaining \div 2)
    /\ loop.cursor = Long(StartAddr) + Len(reply)
    /\ \A i \in 1 .. Len(reply) : reply[i] = FlashByte(Long(StartAddr) + i - 1)

(* The bytes read of the EEPROM are those before StartAddr.                 *)
EepromRead ==
  pc = "upEeprom" =>
    /\ IsOneByteCommand(2)
    /\ loop.remaining = BytesRemaining
    /\ \A i \in 1 .. Len(reply) : reply[i] = EepromByte(StartAddr - Len(reply) + i - 1)

AnswerInv ==
  /\ NoReplyYet /\ ReadHeld /\ ShownRange /\ FirmwareState /\ FlashRead /\ EepromRead
-----------------------------------------------------------------------------
(* How the variables of an answer change.                                   *)
LEMMA RangeSteps ==
  ASSUME [Next]_vars
  PROVE  \/ UNCHANGED rangeVars
         \/ DFU_State' = dfuIDLE
         \/ ProcessBootloaderCommand
         \/ UNCHANGED DFU_State /\ pc \in FirmwareStages
         \/ ReadEepromByte
<1>1. CASE EVENT_USB_Device_ControlRequest
  BY <1>1 DEF EVENT_USB_Device_ControlRequest, Download, Upload, GetStatusOrState,
              ClearStatus, Abort, Unhandled, Setup
<1>2. CASE WriteFirmware
  BY <1>2 DEF WriteFirmware, FirmwareStage, DiscardFillerBytes, DiscardGivenUp,
              AlignFirmware, StartWriting, FetchPacket, WriteFlashWord, CommitPage,
              StartNextPage, FlashWritten, WriteEepromByte, EepromWritten, FirmwareDone,
              FirmwareStages
<1>3. CASE AnswerRequest
  BY <1>3 DEF AnswerRequest, AnswerState, AnswerUpload, StartReading, SendFullPacket,
              ReadFlashWord, MemoryRead, StatusStage
<1>4. CASE WatchdogFires \/ PowerFails
  BY <1>4 DEF WatchdogFires, PowerFails, Restart
<1>5. CASE \/ FinishExit \/ LoadCommand \/ EraseNextPage \/ GiveUp
           \/ HostSendsPacket \/ HostTakesPacket \/ Detach \/ Attach \/ UNCHANGED vars
  BY <1>5 DEF FinishExit, LoadCommand, EraseNextPage, GiveUp, HostSendsPacket,
              HostTakesPacket, Detach, Attach, busFrame, vars
<1> QED
  BY <1>1, <1>2, <1>3, <1>4, <1>5 DEF Next, Handler, Environment

LEMMA StateSteps ==
  ASSUME [Next]_vars
  PROVE  UNCHANGED DFU_State \/ DFU_State' = dfuIDLE \/ ProcessBootloaderCommand
<1>1. CASE EVENT_USB_Device_ControlRequest
  BY <1>1 DEF EVENT_USB_Device_ControlRequest, Download, Upload, GetStatusOrState,
              ClearStatus, Abort, Unhandled, Serve, statusVars
<1>2. CASE WriteFirmware
  BY <1>2 DEF WriteFirmware, FirmwareStage, DiscardFillerBytes, DiscardGivenUp,
              AlignFirmware, StartWriting, FetchPacket, WriteFlashWord, CommitPage,
              StartNextPage, FlashWritten, WriteEepromByte, EepromWritten, FirmwareDone
<1>3. CASE AnswerRequest
  BY <1>3 DEF AnswerRequest, AnswerState, AnswerUpload, StartReading, SendFullPacket,
              ReadFlashWord, ReadEepromByte, MemoryRead, StatusStage
<1>4. CASE WatchdogFires \/ PowerFails
  BY <1>4 DEF WatchdogFires, PowerFails, Restart
<1>5. CASE \/ FinishExit \/ LoadCommand \/ EraseNextPage \/ GiveUp
           \/ HostSendsPacket \/ HostTakesPacket \/ Detach \/ Attach \/ UNCHANGED vars
  BY <1>5 DEF FinishExit, LoadCommand, EraseNextPage, GiveUp, HostSendsPacket,
              HostTakesPacket, Detach, Attach, busFrame, statusVars, vars
<1> QED
  BY <1>1, <1>2, <1>3, <1>4, <1>5 DEF Next, Handler, Environment

LEMMA ResponseSteps ==
  ASSUME [Next]_vars
  PROVE  \/ UNCHANGED ResponseByte
         \/ WatchdogFires \/ PowerFails
         \/ ProcessBootloaderCommand /\ ProcessReadCommand
<1>1. CASE EVENT_USB_Device_ControlRequest
  BY <1>1 DEF EVENT_USB_Device_ControlRequest, Download, Upload, GetStatusOrState,
              ClearStatus, Abort, Unhandled, Setup
<1>2. CASE ProcessBootloaderCommand
  BY <1>2 DEF ProcessBootloaderCommand, RefuseCommand, ProcessMemProgCommand,
              ProcessMemReadCommand, ProcessWriteCommand, ProcessChangeBase,
              UnknownCommand
<1>3. CASE \/ FinishExit \/ LoadCommand \/ EraseNextPage \/ WriteFirmware
           \/ AnswerRequest \/ GiveUp
           \/ HostSendsPacket \/ HostTakesPacket \/ Detach \/ Attach \/ UNCHANGED vars
  BY <1>3 DEF FinishExit, LoadCommand, EraseNextPage, WriteFirmware, firmwareFrame,
              AnswerRequest, answerFrame, GiveUp, HostSendsPacket,
              HostTakesPacket, Detach, Attach, busFrame, vars
<1> QED
  BY <1>1, <1>2, <1>3 DEF Next, Handler, Environment

(* A process step ends at the caller or starts the erase.                   *)
LEMMA AfterProcess ==
  ASSUME TypeOK, ProcessBootloaderCommand
  PROVE  /\ pc = "process" /\ pc' \in {"idle", "exit", "firmware", "erase"}
         /\ UNCHANGED <<eeprom, SentCommand, busVars, loop>>
<1>1. loop.caller \in {"idle", "exit", "firmware"}
  BY DEF TypeOK, StepTypeOK, Locals
<1> QED
  BY <1>1
  DEF ProcessBootloaderCommand, Processed, Goto, RefuseCommand, ProcessMemProgCommand,
      ProcessMemReadCommand, ProcessWriteCommand, ProcessReadCommand, ProcessChangeBase,
      UnknownCommand

(* What a read or display command does: a lock stops the second only.       *)
LEMMA CommandChosen ==
  ASSUME ProcessBootloaderCommand
  PROVE  /\ SentCommand.Command = COMMAND_READ => ProcessReadCommand
         /\ SentCommand.Command = COMMAND_DISP_DATA
              => ProcessMemReadCommand \/ DFU_State' = dfuERROR
         /\ SentCommand.Command = COMMAND_PROG_START
              => ProcessMemProgCommand \/ DFU_State' = dfuERROR
  BY DEF ProcessBootloaderCommand, RefuseCommand, SetError, AllowedWhenSecure,
         UnknownCommand, COMMAND_WRITE, COMMAND_READ, COMMAND_PROG_START,
         COMMAND_DISP_DATA, COMMAND_CHANGE_BASE_ADDR

(* The way into the loops of an upload.                                     *)
LEMMA ReadingEntered ==
  ASSUME TypeOK, [Next]_vars, pc' \in {"upFlash", "upEeprom"}
  PROVE  \/ /\ UNCHANGED <<flash, eeprom, rangeVars, DFU_State, SentCommand, reply,
                           pc, loop>>
         \/ AnswerRequest /\ (StartReading \/ ReadFlashWord \/ ReadEepromByte)
<1>1. CASE EVENT_USB_Device_ControlRequest
  <2>1. pc = "idle"
    BY <1>1 DEF EVENT_USB_Device_ControlRequest, Download, Upload, GetStatusOrState,
                ClearStatus, Abort, Unhandled, Setup
  <2> QED
    BY <1>1, <2>1
    DEF EVENT_USB_Device_ControlRequest, Download, Upload, GetStatusOrState,
        ClearStatus, Abort, Unhandled, Serve, stepVars
<1>2. CASE ProcessBootloaderCommand
  BY <1>2, AfterProcess
<1>3. CASE WriteFirmware
  BY <1>3
  DEF WriteFirmware, FirmwareStage, DiscardFillerBytes, DiscardGivenUp, AlignFirmware,
      StartWriting, FetchPacket, WriteFlashWord, CommitPage, StartNextPage, FlashWritten,
      WriteEepromByte, EepromWritten, FirmwareDone, Return, Goto, Enter, stepVars
<1>4. CASE AnswerRequest
  BY <1>4
  DEF AnswerRequest, answerFrame, flashVars, AnswerState, AnswerUpload, SendFullPacket,
      MemoryRead, StatusStage, Send, Return, stepVars
<1>5. CASE GiveUp \/ WatchdogFires \/ PowerFails \/ FinishExit \/ LoadCommand
  BY <1>5 DEF GiveUp, Return, WatchdogFires, PowerFails, Restart, FinishExit, Goto,
              LoadCommand
<1>6. CASE EraseNextPage
  <2>1. loop.caller \in {"idle", "exit", "firmware"}
    BY DEF TypeOK, StepTypeOK, Locals
  <2> QED
    BY <1>6, <2>1 DEF EraseNextPage
<1>7. CASE HostSendsPacket \/ HostTakesPacket \/ Detach \/ Attach \/ UNCHANGED vars
  BY <1>7 DEF HostSendsPacket, HostTakesPacket, Detach, Attach, busFrame, flashVars,
              rangeVars, statusVars, busVars, stepVars, vars
<1> QED
  BY <1>1, <1>2, <1>3, <1>4, <1>5, <1>6, <1>7 DEF Next, Handler, Environment
-----------------------------------------------------------------------------
(* Answers.                                                                 *)
LEMMA NoReplyYetStep ==
  ASSUME TypeOK, NoReplyYet, [Next]_vars
  PROVE  NoReplyYet'
<1> SUFFICES ASSUME pc' \notin InStages PROVE reply' = <<>>
  BY DEF NoReplyYet
<1>1. CASE AnswerRequest
  BY <1>1 DEF AnswerRequest, AnswerState, AnswerUpload, StartReading, SendFullPacket,
              ReadFlashWord, ReadEepromByte, MemoryRead, StatusStage, Send, Return,
              Enter, stepVars, InStages
<1>2. CASE GiveUp \/ WatchdogFires \/ PowerFails
  BY <1>2 DEF GiveUp, Return, WatchdogFires, PowerFails, Restart
<1>3. CASE HostSendsPacket \/ HostTakesPacket \/ Detach \/ Attach \/ UNCHANGED vars
  BY <1>3 DEF HostSendsPacket, HostTakesPacket, Detach, Attach, busFrame, stepVars,
              busVars, vars, NoReplyYet
<1>4. CASE EVENT_USB_Device_ControlRequest
  BY <1>4 DEF EVENT_USB_Device_ControlRequest, Download, Upload, GetStatusOrState,
              ClearStatus, Abort, Unhandled, Setup, Serve, NoReplyYet, InStages
<1>5. CASE WriteFirmware
  BY <1>5
  DEF WriteFirmware, FirmwareStage, DiscardFillerBytes, DiscardGivenUp, AlignFirmware,
      StartWriting, FetchPacket, WriteFlashWord, CommitPage, StartNextPage, FlashWritten,
      WriteEepromByte, EepromWritten, FirmwareDone, Return, NoReplyYet, InStages
<1>6. CASE FinishExit \/ LoadCommand \/ ProcessBootloaderCommand \/ EraseNextPage
  BY <1>6 DEF FinishExit, LoadCommand, ProcessBootloaderCommand, EraseNextPage, busVars,
              NoReplyYet, InStages
<1> QED
  BY <1>1, <1>2, <1>3, <1>4, <1>5, <1>6 DEF Next, Handler, Environment

(* A command that is still, or again, at hand after a step was there before *)
(* it, and so were its data, unless it is about to be processed.            *)
LEMMA CommandKept ==
  ASSUME TypeOK, [Next]_vars, pc' # "process", SentCommand'.Command # 0
  PROVE  /\ SentCommand'.Command = SentCommand.Command
         /\ SentCommand'.Data = SentCommand.Data
         /\ ~(WatchdogFires \/ PowerFails)
<1>1. ~(WatchdogFires \/ PowerFails)
  BY DEF WatchdogFires, PowerFails, Restart
<1> QED
  BY <1>1, CommandSteps DEF LoadCommand

(* Only a process step or a restart leaves the place where commands are     *)
(* processed.                                                               *)
LEMMA ProcessLeft ==
  ASSUME [Next]_vars, pc = "process", pc' # "process"
  PROVE  ProcessBootloaderCommand \/ WatchdogFires \/ PowerFails
  BY DEF Next, Handler, Environment, EVENT_USB_Device_ControlRequest, Download, Upload,
         GetStatusOrState, ClearStatus, Abort, Unhandled, Setup, FinishExit, LoadCommand,
         EraseNextPage, WriteFirmware, FirmwareStage,
         DiscardFillerBytes, DiscardGivenUp, AlignFirmware, StartWriting, FetchPacket,
         WriteFlashWord, CommitPage, StartNextPage, FlashWritten, WriteEepromByte,
         EepromWritten, FirmwareDone, AnswerRequest, AnswerState, AnswerUpload,
         StartReading, SendFullPacket, ReadFlashWord, ReadEepromByte, MemoryRead,
         StatusStage, GiveUp, HostSendsPacket, HostTakesPacket, Detach, Attach,
         busFrame, stepVars, vars

LEMMA ReadHeldStep ==
  ASSUME TypeOK, ReadHeld, [Next]_vars
  PROVE  ReadHeld'
<1> SUFFICES ASSUME ReadKnown', pc' # "process"
             PROVE  ResponseByte' = ReadTable'[SentCommand'.Data[1]]
  BY DEF ReadHeld
<1>1. /\ SentCommand.Command = COMMAND_READ /\ SentCommand'.Data = SentCommand.Data
      /\ ~(WatchdogFires \/ PowerFails)
  BY CommandKept DEF ReadKnown, COMMAND_READ
<1>2. ReadKnown /\ ReadTable' = ReadTable
  BY <1>1 DEF ReadKnown, ReadTable, IsOneByteCommand
<1>3. CASE ProcessBootloaderCommand
  <2>1. ProcessReadCommand
    BY <1>1, <1>3, CommandChosen
  <2>2. CASE SentCommand.Data[0] = 0
    BY <1>1, <1>2, <2>1, <2>2
    DEF ProcessReadCommand, ReadByte, ReadKnown, ReadTable, IsOneByteCommand
  <2>3. CASE SentCommand.Data[0] = 1
    BY <1>1, <1>2, <2>1, <2>3
    DEF ProcessReadCommand, ReadByte, ReadKnown, ReadTable, IsOneByteCommand
  <2> QED
    BY <1>2, <2>2, <2>3 DEF ReadKnown
<1>4. CASE ~ProcessBootloaderCommand
  <2>1. pc # "process" /\ UNCHANGED ResponseByte
    BY <1>1, <1>4, ProcessLeft, ResponseSteps
  <2> QED
    BY <1>1, <1>2, <2>1 DEF ReadHeld
<1> QED
  BY <1>3, <1>4

LEMMA FirmwareStateStep ==
  ASSUME TypeOK, FirmwareState, [Next]_vars
  PROVE  FirmwareState'
<1> SUFFICES ASSUME pc' \in FirmwareStages PROVE DFU_State' = dfuDNLOAD_IDLE
  BY DEF FirmwareState
<1>1. CASE EVENT_USB_Device_ControlRequest
  <2>1. pc = "idle"
    BY <1>1 DEF EVENT_USB_Device_ControlRequest, Download, Upload, GetStatusOrState,
                ClearStatus, Abort, Unhandled, Setup
  <2> QED
    BY <1>1, <2>1
    DEF EVENT_USB_Device_ControlRequest, Download, Upload, GetStatusOrState,
        ClearStatus, Abort, Unhandled, Serve, stepVars, FirmwareStages
<1>2. CASE ProcessBootloaderCommand
  BY <1>2, AfterProcess DEF FirmwareStages
<1>3. CASE WriteFirmware
  BY <1>3
  DEF WriteFirmware, FirmwareStage, DiscardFillerBytes, DiscardGivenUp, AlignFirmware,
      StartWriting, FetchPacket, WriteFlashWord, CommitPage, StartNextPage, FlashWritten,
      WriteEepromByte, EepromWritten, FirmwareDone, Return, Goto, Enter, stepVars,
      FirmwareState, FirmwareStages
<1>4. CASE AnswerRequest
  BY <1>4
  DEF AnswerRequest, AnswerState, AnswerUpload, StartReading, SendFullPacket,
      ReadFlashWord, ReadEepromByte, MemoryRead, StatusStage, Send, Return, Enter,
      stepVars, FirmwareStages
<1>5. CASE GiveUp \/ WatchdogFires \/ PowerFails \/ FinishExit \/ LoadCommand
  BY <1>5 DEF GiveUp, Return, WatchdogFires, PowerFails, Restart, FinishExit, Goto,
              LoadCommand, FirmwareStages
<1>6. CASE EraseNextPage
  <2>1. loop.caller \in {"idle", "exit", "firmware"}
    BY DEF TypeOK, StepTypeOK, Locals
  <2> QED
    BY <1>6, <2>1 DEF EraseNextPage, FirmwareStages
<1>7. CASE HostSendsPacket \/ HostTakesPacket \/ Detach \/ Attach \/ UNCHANGED vars
  BY <1>7 DEF HostSendsPacket, HostTakesPacket, Detach, Attach, busFrame, statusVars,
              stepVars, vars, FirmwareState
<1> QED
  BY <1>1, <1>2, <1>3, <1>4, <1>5, <1>6, <1>7 DEF Next, Handler, Environment

LEMMA ShownRangeStep ==
  ASSUME TypeOK, FirmwareState, EepromRead, ShownRange, [Next]_vars
  PROVE  ShownRange'
<1> SUFFICES ASSUME Shown' PROVE StartAddr' = AskedStart' /\ EndAddr' = AskedEnd'
  BY DEF ShownRange
<1>1. /\ SentCommand.Command = COMMAND_DISP_DATA /\ SentCommand'.Data = SentCommand.Data
      /\ SentCommand.Data[0] = 0 /\ DFU_State' = dfuUPLOAD_IDLE /\ pc' # "process"
      /\ ~(WatchdogFires \/ PowerFails)
  BY CommandKept DEF Shown, IsOneByteCommand, COMMAND_DISP_DATA
<1>2. AskedStart' = AskedStart /\ AskedEnd' = AskedEnd
  BY <1>1 DEF AskedStart, AskedEnd
<1>3. CASE ProcessBootloaderCommand
  <2>1. ProcessMemReadCommand
    BY <1>1, <1>3, CommandChosen DEF dfuUPLOAD_IDLE, dfuERROR
  <2>2. LoadStartEndAddresses
    BY <1>1, <2>1 DEF ProcessMemReadCommand, IsOneByteCommand
  <2> QED
    BY <1>2, <2>2 DEF LoadStartEndAddresses, AskedStart, AskedEnd
<1>4. CASE ~ProcessBootloaderCommand
  <2>1. pc # "process" /\ DFU_State = dfuUPLOAD_IDLE
    BY <1>1, <1>4, ProcessLeft, StateSteps DEF dfuIDLE, dfuUPLOAD_IDLE
  <2>2. ~ReadEepromByte
    BY <1>1 DEF ReadEepromByte, EepromRead, IsOneByteCommand
  <2>3. UNCHANGED rangeVars
    BY <1>1, <1>4, <2>1, <2>2, RangeSteps
    DEF FirmwareState, dfuIDLE, dfuUPLOAD_IDLE, dfuDNLOAD_IDLE
  <2> QED
    BY <1>1, <1>2, <2>1, <2>3 DEF ShownRange, Shown, IsOneByteCommand, rangeVars
<1> QED
  BY <1>3, <1>4

(* The loops of an upload. *)
LEMMA TwoMore ==
  ASSUME NEW s \in Seq(Int), NEW b \in Int, NEW c \in Int
  PROVE  /\ Len(s \o <<b, c>>) = Len(s) + 2
         /\ \A i \in 1 .. Len(s) + 2 :
              (s \o <<b, c>>)[i] = IF i <= Len(s) THEN s[i]
                                   ELSE IF i = Len(s) + 1 THEN b ELSE c
  OBVIOUS

LEMMA OneMore ==
  ASSUME NEW s \in Seq(Int), NEW b \in Int
  PROVE  /\ Len(s \o <<b>>) = Len(s) + 1
         /\ \A i \in 1 .. Len(s) + 1 :
              (s \o <<b>>)[i] = IF i <= Len(s) THEN s[i] ELSE b
  OBVIOUS

LEMMA FlashReadStep ==
  ASSUME TypeOK, NoReplyYet, FlashRead, [Next]_vars
  PROVE  FlashRead'
<1> SUFFICES ASSUME pc' = "upFlash" PROVE FlashRead'
  BY DEF FlashRead
<1>1. /\ loop \in Locals /\ loop.cursor \in Nat /\ loop.remaining \in Nat
      /\ reply \in Seq(Int) /\ Len(reply) \in Nat
  BY DEF TypeOK, StepTypeOK, BusTypeOK, Locals
<1>2. CASE UNCHANGED <<flash, eeprom, rangeVars, DFU_State, SentCommand, reply, pc, loop>>
  BY <1>2 DEF FlashRead, rangeVars, IsOneByteCommand, BytesRemaining, Long, FlashByte
<1>3. CASE AnswerRequest /\ StartReading
  <2>1. /\ DFU_State = dfuUPLOAD_IDLE /\ IsOneByteCommand(0)
        /\ loop' = [loop EXCEPT !.remaining = BytesRemaining \div 2,
                                !.cursor = Long(StartAddr)]
        /\ UNCHANGED <<DFU_State, reply, rangeVars, SentCommand, flash>>
    BY <1>3 DEF StartReading, Enter, Send, AnswerRequest, answerFrame, flashVars
  <2>2. reply' = <<>>
    BY <1>3, <2>1 DEF StartReading, NoReplyYet, InStages
  <2>3. /\ BytesRemaining' = BytesRemaining /\ Long(StartAddr)' = Long(StartAddr)
        /\ IsOneByteCommand(0)'
    BY <2>1 DEF BytesRemaining, Long, rangeVars, IsOneByteCommand
  <2>4. Long(StartAddr) \in Nat /\ BytesRemaining \in Nat
    BY LongType, BytesRemainingType, WordNatural DEF TypeOK, RangeTypeOK
  <2>5. /\ loop'.remaining = BytesRemaining \div 2 /\ loop'.cursor = Long(StartAddr)
        /\ Len(reply') = 0 /\ DFU_State' = dfuUPLOAD_IDLE
    BY <1>1, <2>1, <2>2 DEF Locals
  <2> HIDE DEF BytesRemaining
  <2> QED
    BY <2>3, <2>4, <2>5 DEF FlashRead
<1>4. CASE AnswerRequest /\ ReadFlashWord
  <2> DEFINE b == FlashByte(loop.cursor)
             c == FlashByte(loop.cursor + 1)
  <2>1. b \in Int /\ c \in Int
    BY <1>1, FlashByteType DEF TypeOK
  <2>2. /\ pc = "upFlash" /\ reply' = reply \o <<b, c>> /\ loop.remaining > 0
        /\ UNCHANGED <<DFU_State, rangeVars, SentCommand, flash>>
        /\ loop'.remaining = loop.remaining - 1 /\ loop'.cursor = loop.cursor + 2
    BY <1>1, <1>4 DEF ReadFlashWord, Write, AnswerRequest, answerFrame, flashVars, Locals
  <2>3. /\ BytesRemaining' = BytesRemaining /\ Long(StartAddr)' = Long(StartAddr)
        /\ IsOneByteCommand(0)' = IsOneByteCommand(0)
        /\ \A a : FlashByte(a)' = FlashByte(a)
    BY <2>2 DEF BytesRemaining, Long, rangeVars, IsOneByteCommand, FlashByte
  <2>4. Long(StartAddr) \in Nat /\ BytesRemaining \div 2 \in Int
    <3>1. BytesRemaining \in Nat
      BY BytesRemainingType, WordNatural
    <3> HIDE DEF BytesRemaining
    <3> QED
      BY <3>1, LongType DEF TypeOK, RangeTypeOK
  <2> DEFINE half == BytesRemaining \div 2
             from == Long(StartAddr)
             n == Len(reply)
  <2>5. /\ DFU_State = dfuUPLOAD_IDLE /\ IsOneByteCommand(0)
        /\ n + 2 * loop.remaining = 2 * half /\ loop.cursor = from + n
        /\ \A i \in 1 .. n : reply[i] = FlashByte(from + i - 1)
    BY <2>2 DEF FlashRead
  <2>6. Len(reply') = n + 2
    BY <1>1, <2>1, <2>2, TwoMore
  <2>7. ASSUME NEW i \in 1 .. n + 2 PROVE reply'[i] = FlashByte(from + i - 1)
    <3>1. reply'[i] = IF i <= n THEN reply[i] ELSE IF i = n + 1 THEN b ELSE c
      BY <1>1, <2>1, <2>2, TwoMore
    <3>2. i = n + 1 => from + i - 1 = loop.cursor
      BY <1>1, <2>4, <2>5
    <3>3. i = n + 2 => from + i - 1 = loop.cursor + 1
      BY <1>1, <2>4, <2>5
    <3>4. i \in 1 .. n \/ i = n + 1 \/ i = n + 2
      BY <1>1
    <3> HIDE DEF from, n
    <3> QED
      BY <1>1, <2>5, <3>1, <3>2, <3>3, <3>4 DEF n
  <2> HIDE DEF half, from, n
  <2>8. n \in Nat /\ half \in Int /\ from \in Nat
    BY <1>1, <2>4 DEF n, half, from
  <2>9. n + 2 + 2 * (loop.remaining - 1) = 2 * half /\ loop.cursor + 2 = from + (n + 2)
    BY <1>1, <2>5, <2>8
  <2>10. \A i \in 1 .. Len(reply') : reply'[i] = FlashByte(from + i - 1)
    BY <2>6, <2>7
  <2>11. half' = half /\ from' = from
    BY <2>3 DEF half, from
  <2> QED
    BY <2>2, <2>3, <2>5, <2>6, <2>9, <2>10, <2>11 DEF FlashRead, half, from
<1>5. CASE AnswerRequest /\ ReadEepromByte
  BY <1>5 DEF ReadEepromByte
<1> QED
  BY <1>2, <1>3, <1>4, <1>5, ReadingEntered

(* Counting on in sixteen bits. *)
LEMMA WordBounds ==
  ASSUME NEW n \in Word
  PROVE  n \in Nat /\ n < 65536
  BY DEF Word

LEMMA Wrapped ==
  ASSUME NEW n \in Nat, n < 65536
  PROVE  /\ n % 65536 = n
         /\ (n + 1) % 65536 = IF n = 65535 THEN 0 ELSE n + 1
  OBVIOUS

LEMMA WordSuccessor ==
  ASSUME NEW s \in Word, NEW d \in Int
  PROVE  /\ (((s + 1) % 65536) - 1 - d) % 65536 = (s - d) % 65536
         /\ (((s + 1) % 65536) - 1) % 65536 = s
<1>1. /\ s \in Nat /\ s < 65536 /\ s % 65536 = s
      /\ (s + 1) % 65536 = IF s = 65535 THEN 0 ELSE s + 1
  BY WordBounds, Wrapped
<1>2. CASE s = 65535
  <2>2. \A x \in Int : (x - 65536) % 65536 = x % 65536
    OBVIOUS
  <2> DEFINE t == ((s + 1) % 65536) - 1
  <2>3. t = s - 65536
    BY <1>2
  <2> HIDE DEF t
  <2>4. (s - 65536) % 65536 = s
    BY <1>1, <2>2
  <2>5. (s - 65536 - d) % 65536 = (s - d) % 65536
    <3>1. s - 65536 - d = (s - d) - 65536 /\ s - d \in Int
      BY <1>1
    <3> QED
      BY <2>2, <3>1
  <2>6. t % 65536 = s /\ (t - d) % 65536 = (s - d) % 65536
    BY <2>3, <2>4, <2>5
  <2> QED
    BY <2>6 DEF t
<1>3. CASE s # 65535
  <2>1. ((s + 1) % 65536) - 1 - d = s - d /\ ((s + 1) % 65536) - 1 = s
    BY <1>1, <1>3
  <2> QED
    BY <1>1, <2>1
<1> QED
  BY <1>2, <1>3

LEMMA CountDown ==
  ASSUME NEW s \in Word, NEW e \in Word, (e - s + 1) % 65536 > 0
  PROVE  (e - ((s + 1) % 65536) + 1) % 65536 = ((e - s + 1) % 65536) - 1
<1>1. /\ s \in Nat /\ e \in Nat /\ s < 65536 /\ e < 65536 /\ e % 65536 = e
      /\ (s + 1) % 65536 = IF s = 65535 THEN 0 ELSE s + 1
      /\ (e + 1) % 65536 = IF e = 65535 THEN 0 ELSE e + 1
  BY WordBounds, Wrapped
<1>2. \A x \in Int : (x + 1) % 65536 > 0 => x % 65536 = ((x + 1) % 65536) - 1
  OBVIOUS
<1>3. CASE s = 65535
  <2>1. (e - s + 1) % 65536 = (e + 2) % 65536
    <3>1. e - s + 1 = e + 2 - 65536
      BY <1>1, <1>3
    <3>2. \A x \in Int : (x - 65536) % 65536 = x % 65536
      OBVIOUS
    <3> QED
      BY <1>1, <3>1, <3>2
  <2>2. e - ((s + 1) % 65536) + 1 = e + 1 /\ e + 2 = e + 1 + 1
    BY <1>1, <1>3
  <2> QED
    BY <1>1, <1>2, <2>1, <2>2
<1>4. CASE s # 65535
  <2>1. e - ((s + 1) % 65536) + 1 = e - s
    BY <1>1, <1>4
  <2> QED
    BY <1>1, <1>2, <2>1
<1> QED
  BY <1>3, <1>4

LEMMA EepromReadStep ==
  ASSUME TypeOK, NoReplyYet, EepromRead, [Next]_vars
  PROVE  EepromRead'
<1> SUFFICES ASSUME pc' = "upEeprom" PROVE EepromRead'
  BY DEF EepromRead
<1>1. /\ loop \in Locals /\ reply \in Seq(Int) /\ Len(reply) \in Nat
      /\ StartAddr \in Word /\ EndAddr \in Word
  BY DEF TypeOK, StepTypeOK, BusTypeOK, RangeTypeOK
<1>2. CASE UNCHANGED <<flash, eeprom, rangeVars, DFU_State, SentCommand, reply, pc, loop>>
  BY <1>2 DEF EepromRead, rangeVars, IsOneByteCommand, BytesRemaining, EepromByte
<1>3. CASE AnswerRequest /\ StartReading
  <2>1. /\ IsOneByteCommand(2) /\ loop' = [loop EXCEPT !.remaining = BytesRemaining]
        /\ UNCHANGED <<reply, rangeVars, SentCommand>>
    BY <1>3 DEF StartReading, Enter, Send, AnswerRequest, answerFrame
  <2>2. reply' = <<>>
    BY <1>3, <2>1 DEF StartReading, NoReplyYet, InStages
  <2>3. BytesRemaining' = BytesRemaining /\ IsOneByteCommand(2)'
    BY <2>1 DEF BytesRemaining, rangeVars, IsOneByteCommand
  <2> QED
    BY <1>1, <2>1, <2>2, <2>3 DEF EepromRead, Locals
<1>4. CASE AnswerRequest /\ ReadEepromByte
  <2> DEFINE b == eeprom[StartAddr % (E2END + 1)]
             n == Len(reply)
  <2>1. b \in Int
    BY <1>1, EepromByteType, WordNatural DEF TypeOK
  <2>2. /\ pc = "upEeprom" /\ reply' = reply \o <<b>> /\ loop.remaining > 0
        /\ UNCHANGED <<EndAddr, SentCommand, eeprom>>
        /\ StartAddr' = (StartAddr + 1) % 65536
        /\ loop'.remaining = loop.remaining - 1
    BY <1>1, <1>4 DEF ReadEepromByte, Write, AnswerRequest, answerFrame, Locals
  <2>3. /\ IsOneByteCommand(2) /\ loop.remaining = BytesRemaining
        /\ \A i \in 1 .. n : reply[i] = EepromByte(StartAddr - n + i - 1)
    BY <2>2 DEF EepromRead
  <2>4. IsOneByteCommand(2)' /\ \A a : EepromByte(a)' = EepromByte(a)
    BY <2>2, <2>3 DEF IsOneByteCommand, EepromByte
  <2>5. loop'.remaining = BytesRemaining'
    <3>1. (EndAddr - StartAddr + 1) % 65536 > 0
      BY <2>2, <2>3 DEF BytesRemaining
    <3>2. (EndAddr - StartAddr' + 1) % 65536 = ((EndAddr - StartAddr + 1) % 65536) - 1
      BY <1>1, <2>2, <3>1, CountDown
    <3> QED
      BY <2>2, <2>3, <3>2 DEF BytesRemaining
  <2> HIDE DEF b
  <2>55. StartAddr \in Int /\ StartAddr' \in Int
    BY <1>1, <2>2, WordModulo, WordNatural
  <2>6. Len(reply') = n + 1
    BY <1>1, <2>1, <2>2, OneMore
  <2>7. ASSUME NEW i \in 1 .. n + 1 PROVE reply'[i] = EepromByte(StartAddr' - (n + 1) + i - 1)
    <3>1. reply'[i] = IF i <= n THEN reply[i] ELSE b
      BY <1>1, <2>1, <2>2, OneMore
    <3>2. CASE i = n + 1
      <4>1. StartAddr' - (n + 1) + i - 1 = StartAddr' - 1 /\ (StartAddr' - 1) % 65536 = StartAddr
        <5>1. StartAddr' - (n + 1) + i - 1 = StartAddr' - 1
          BY <1>1, <2>55, <3>2
        <5>2. (StartAddr' - 1) % 65536 = StartAddr
          BY <1>1, <2>2, WordSuccessor
        <5> QED
          BY <5>1, <5>2
      <4>2. i > n
        BY <1>1, <3>2
      <4> QED
        BY <1>1, <3>1, <4>1, <4>2 DEF EepromByte, b
    <3>3. CASE i \in 1 .. n
      <4>1. reply'[i] = EepromByte(StartAddr - n + i - 1)
        BY <2>3, <3>1, <3>3
      <4> DEFINE d == n - i + 1
      <4>2. /\ d \in Int /\ StartAddr - n + i - 1 = StartAddr - d
            /\ StartAddr' - (n + 1) + i - 1 = StartAddr' - 1 - d
        BY <1>1, <2>55
      <4> HIDE DEF d
      <4>3. (StartAddr' - 1 - d) % 65536 = (StartAddr - d) % 65536
        BY <1>1, <2>2, <4>2, WordSuccessor
      <4> QED
        BY <4>1, <4>2, <4>3 DEF EepromByte
    <3> QED
      BY <1>1, <3>2, <3>3
  <2> QED
    BY <2>4, <2>5, <2>6, <2>7 DEF EepromRead
<1>5. CASE AnswerRequest /\ ReadFlashWord
  BY <1>5 DEF ReadFlashWord
<1> QED
  BY <1>2, <1>3, <1>4, <1>5, ReadingEntered

LEMMA AnswerInvAlways == Spec => [](DFUInv /\ AnswerInv)
<1>1. Init => AnswerInv
  BY DEF Init, AnswerInv, NoReplyYet, ReadHeld, ReadKnown, ShownRange, Shown,
         FirmwareState, FirmwareStages, FlashRead, EepromRead, COMMAND_READ,
         COMMAND_DISP_DATA
<1>2. DFUInv /\ AnswerInv /\ [Next]_vars => AnswerInv'
  <2> SUFFICES ASSUME DFUInv, AnswerInv, [Next]_vars PROVE AnswerInv'
    OBVIOUS
  <2>1. TypeOK
    BY DEF DFUInv
  <2> QED
    BY <2>1, NoReplyYetStep, ReadHeldStep, ShownRangeStep, FirmwareStateStep,
       FlashReadStep, EepromReadStep DEF AnswerInv
<1> QED
  BY <1>1, <1>2, InvInit, InvStep, PTL DEF Spec

(* After a read command an upload in dfuIDLE is answered with the byte that *)
(* was asked for (BootloaderDFU.c:322-334).                                 *)
THEOREM DFUReadAnswered == Spec => ReadAnswered
<1> DEFINE Idle == AnswerUpload /\ DFU_State = dfuIDLE
           Known == /\ SentCommand.Command = COMMAND_READ
                    /\ SentCommand.Data[0] \in {0, 1}
                    /\ SentCommand.Data[1] \in DOMAIN ReadTable
           Right == reply' = <<ReadTable[SentCommand.Data[1]]>>
<1>1. DFUInv /\ AnswerInv /\ [Next]_vars => [Idle /\ Known => Right]_vars
  <2> SUFFICES ASSUME DFUInv, AnswerInv, Idle, Known PROVE Right
    OBVIOUS
  <2>1. ResponseByte = ReadTable[SentCommand.Data[1]] /\ reply = <<>>
    BY DEF AnswerInv, ReadHeld, ReadKnown, NoReplyYet, AnswerUpload, InStages
  <2>2. IdleAnswer = <<ResponseByte>>
    BY DEF IdleAnswer, dfuIDLE, dfuERROR
  <2>3. reply' = <<>> \o <<ResponseByte>>
    BY <2>1, <2>2 DEF AnswerUpload, Send
  <2> QED
    BY <2>1, <2>3 DEF DFUInv, TypeOK, CommandTypeOK
<1> QED
  BY <1>1, AnswerInvAlways, PTL DEF Spec, ReadAnswered

LEMMA SequenceExtensional ==
  ASSUME NEW s \in Seq(Int)
  PROVE  s = [i \in 1 .. Len(s) |-> s[i]]
  OBVIOUS

LEMMA MultipleAdded ==
  ASSUME NEW x \in Int, x % 65536 = 0, NEW y \in Int
  PROVE  (x + y) % 65536 = y % 65536
  OBVIOUS

(* What an upload has handed over when its loop ends is the displayed range *)
(* of flash, or the EEPROM bytes up to the end of theirs                    *)
(* (BootloaderDFU.c:336-420).                                               *)
THEOREM DFUUploadExact == Spec => []UploadExact
<1>1. DFUInv /\ AnswerInv => UploadExact
  <2> SUFFICES ASSUME DFUInv, AnswerInv PROVE UploadExact
    OBVIOUS
  <2>1. /\ reply \in Seq(Int) /\ Len(reply) \in Nat
        /\ StartAddr \in Int /\ EndAddr \in Int
    BY WordNatural DEF DFUInv, TypeOK, BusTypeOK, RangeTypeOK
  <2>2. reply = [i \in 1 .. Len(reply) |-> reply[i]]
    BY <2>1, SequenceExtensional
  <2>3. ASSUME pc = "upFlash", loop.remaining = 0, SentCommand.Command = COMMAND_DISP_DATA
        PROVE  reply = [i \in 1 .. 2 * (AskedBytes \div 2) |->
                          FlashByte(Long(AskedStart) + i - 1)]
    <3>1. StartAddr = AskedStart /\ EndAddr = AskedEnd
      BY <2>3 DEF AnswerInv, FlashRead, ShownRange, Shown
    <3>2. BytesRemaining = AskedBytes
      BY <3>1 DEF BytesRemaining, AskedBytes
    <3>3. /\ Len(reply) + 2 * loop.remaining = 2 * (BytesRemaining \div 2)
          /\ \A i \in 1 .. Len(reply) : reply[i] = FlashByte(Long(StartAddr) + i - 1)
      BY <2>3 DEF AnswerInv, FlashRead
    <3>4. Len(reply) = 2 * (AskedBytes \div 2)
      BY <2>1, <2>3, <3>2, <3>3
    <3> HIDE DEF BytesRemaining, AskedBytes
    <3> QED
      BY <2>2, <3>1, <3>3, <3>4
  <2>4. ASSUME pc = "upEeprom", loop.remaining = 0
        PROVE  reply = [i \in 1 .. Len(reply) |-> EepromByte(EndAddr - Len(reply) + i)]
    <3>1. /\ BytesRemaining = 0
          /\ \A i \in 1 .. Len(reply) : reply[i] = EepromByte(StartAddr - Len(reply) + i - 1)
      BY <2>4 DEF AnswerInv, EepromRead
    <3>2. ASSUME NEW i \in 1 .. Len(reply)
          PROVE  EepromByte(StartAddr - Len(reply) + i - 1)
                   = EepromByte(EndAddr - Len(reply) + i)
      <4> DEFINE x == EndAddr - StartAddr + 1
                 y == StartAddr - Len(reply) + i - 1
      <4>1. x \in Int /\ y \in Int /\ x % 65536 = 0 /\ EndAddr - Len(reply) + i = x + y
        BY <2>1, <3>1 DEF BytesRemaining
      <4> HIDE DEF x, y
      <4>2. (x + y) % 65536 = y % 65536
        BY <4>1, MultipleAdded
      <4>3. EepromByte(x + y) = EepromByte(y)
        BY <4>2 DEF EepromByte
      <4> QED
        BY <4>1, <4>3 DEF y
    <3> QED
      BY <2>2, <3>1, <3>2
  <2> QED
    BY <2>3, <2>4 DEF UploadExact
<1> QED
  BY <1>1, AnswerInvAlways, PTL
-----------------------------------------------------------------------------
(* Downloads: the flash loop and the range it goes through.                 *)

FlashStages == {"flash", "commit", "eraseNext"}
Start == Long(StartAddr)

(* A page is counted from its first word.                                   *)
WordsReset == pc \notin FlashStages \cup {"suffix"} => loop.words = 0

(* Where the flash loop is: so many words into a page that lies whole pages *)
(* after the start of the range, and so many words before its end.          *)
FlashLoop ==
  pc \in FlashStages =>
    /\ IsOneByteCommand(0)
    /\ loop.pageStart >= Start
    /\ loop.pageStart % SPM_PAGESIZE = Start % SPM_PAGESIZE
    /\ loop.cursor = loop.pageStart + 2 * loop.words
    /\ loop.cursor + 2 * loop.remaining = Start + 2 * (BytesRemaining \div 2)
    /\ 2 * loop.words <= SPM_PAGESIZE
    /\ pc = "flash" /\ loop.remaining > 0 => 2 * loop.words < SPM_PAGESIZE
    /\ pc = "commit" => /\ loop.words > 0
                        /\ loop.remaining > 0 => 2 * loop.words = SPM_PAGESIZE
    /\ pc = "eraseNext" => loop.remaining > 0 /\ 2 * loop.words = SPM_PAGESIZE

(* The steps that change flash or its page buffer.                          *)
LEMMA FlashSteps ==
  ASSUME TypeOK, [Next]_vars
  PROVE  \/ UNCHANGED <<flash, pageBuffer>>
         \/ UNCHANGED flash /\ (WatchdogFires \/ PowerFails)
         \/ EraseNextPage
         \/ /\ ProcessBootloaderCommand /\ ProcessMemProgCommand
            /\ IsOneByteCommand(0) /\ LoadStartEndAddresses
            /\ ErasePage(Long(StartAddr')) /\ DFU_State' = dfuDNLOAD_IDLE
         \/ WriteFirmware /\ (WriteFlashWord \/ CommitPage \/ StartNextPage)
<1>1. CASE WatchdogFires \/ PowerFails
  BY <1>1 DEF WatchdogFires, PowerFails, Restart
<1>2. CASE ProcessBootloaderCommand
  <2>1. CASE ProcessMemProgCommand
    BY <1>2, <2>1 DEF ProcessMemProgCommand, flashVars
  <2> QED
    BY <1>2, <2>1
    DEF ProcessBootloaderCommand, RefuseCommand, ProcessMemReadCommand, flashVars,
        ProcessWriteCommand, ProcessReadCommand, ProcessChangeBase, UnknownCommand
<1>3. CASE WriteFirmware
  BY <1>3
  DEF WriteFirmware, FirmwareStage, DiscardFillerBytes, DiscardGivenUp, AlignFirmware,
      StartWriting, FetchPacket, FlashWritten, WriteEepromByte, EepromWritten,
      FirmwareDone, flashVars
<1>4. CASE \/ EVENT_USB_Device_ControlRequest \/ FinishExit \/ LoadCommand
           \/ AnswerRequest \/ GiveUp \/ HostSendsPacket \/ HostTakesPacket
           \/ Detach \/ Attach \/ UNCHANGED vars
  BY <1>4
  DEF EVENT_USB_Device_ControlRequest, Download, Upload, GetStatusOrState, ClearStatus,
      Abort, Unhandled, Setup, FinishExit, LoadCommand, AnswerRequest, answerFrame,
      GiveUp, HostSendsPacket, HostTakesPacket, Detach, Attach, busFrame, vars, flashVars
<1> QED
  BY <1>1, <1>2, <1>3, <1>4 DEF Next, Handler, Environment

(* The way into a place of a download.                                      *)
DownloadStages == {"exit", "command", "process", "erase", "firmware"} \cup FirmwareStages
downloadVars == <<flash, pageBuffer, eeprom, rangeVars, DFU_State, SentCommand, request, stepVars>>

LEMMA DownloadSteps ==
  ASSUME TypeOK, [Next]_vars, pc' \in DownloadStages
  PROVE  \/ pc \in DownloadStages /\ UNCHANGED <<downloadVars, ep>>
         \/ pc \in DownloadStages /\ UNCHANGED downloadVars /\ HostSendsPacket
         \/ \E r \in Requests : Download(r) /\ pc = "idle"
         \/ FinishExit \/ LoadCommand \/ EraseNextPage
         \/ ProcessBootloaderCommand
         \/ WriteFirmware
<1>1. CASE EVENT_USB_Device_ControlRequest
  BY <1>1
  DEF EVENT_USB_Device_ControlRequest, Download, Upload, GetStatusOrState, ClearStatus,
      Abort, Unhandled, Setup, Serve, stepVars, DownloadStages, FirmwareStages
<1>2. CASE AnswerRequest
  BY <1>2
  DEF AnswerRequest, AnswerState, AnswerUpload, StartReading, SendFullPacket,
      ReadFlashWord, ReadEepromByte, MemoryRead, StatusStage, Send, Return, Enter,
      stepVars, DownloadStages, FirmwareStages
<1>3. CASE GiveUp \/ WatchdogFires \/ PowerFails
  BY <1>3 DEF GiveUp, Return, WatchdogFires, PowerFails, Restart, DownloadStages,
              FirmwareStages
<1>4. CASE HostTakesPacket
  BY <1>4 DEF HostTakesPacket, busFrame, stepVars, InStages, DownloadStages,
              FirmwareStages
<1>5. CASE HostSendsPacket \/ Detach \/ Attach \/ UNCHANGED vars
  BY <1>5 DEF HostSendsPacket, Detach, Attach, busFrame, vars, flashVars, statusVars,
              busVars, downloadVars, stepVars
<1> QED
  BY <1>1, <1>2, <1>3, <1>4, <1>5 DEF Next, Handler, Environment

(* The places of a download, from the whole to the flash loop.              *)
LEMMA StagesAre ==
  /\ FirmwareStages \subseteq DownloadStages
  /\ FlashStages \subseteq FirmwareStages
  BY DEF FirmwareStages, FlashStages, DownloadStages

(* The way into the flash loop.                                             *)
LEMMA FlashEntered ==
  ASSUME TypeOK, [Next]_vars, pc' \in FlashStages
  PROVE  \/ /\ pc \in FlashStages /\ UNCHANGED downloadVars
            /\ UNCHANGED ep \/ HostSendsPacket \/ ClearPacket
         \/ WriteFirmware /\ (StartWriting \/ WriteFlashWord \/ CommitPage \/ StartNextPage)
<1>1. pc' \in DownloadStages
  BY StagesAre
<1>2. CASE WriteFirmware
  BY <1>2
  DEF WriteFirmware, FirmwareStage, DiscardFillerBytes, DiscardGivenUp, AlignFirmware,
      FetchPacket, FlashWritten, WriteEepromByte, EepromWritten, FirmwareDone, Return,
      Goto, Enter, stepVars, FlashStages, firmwareFrame, downloadVars, flashVars
<1>3. CASE ProcessBootloaderCommand
  BY <1>3, AfterProcess DEF FlashStages
<1>4. CASE EraseNextPage
  <2>1. loop.caller \in {"idle", "exit", "firmware"}
    BY DEF TypeOK, StepTypeOK, Locals
  <2> QED
    BY <1>4, <2>1 DEF EraseNextPage, FlashStages
<1>5. CASE FinishExit \/ LoadCommand \/ \E r \in Requests : Download(r)
  BY <1>5 DEF FinishExit, Goto, LoadCommand, Download, Serve, FlashStages
<1>6. CASE UNCHANGED downloadVars /\ (UNCHANGED ep \/ HostSendsPacket)
  BY <1>6 DEF downloadVars, stepVars
<1> QED
  BY <1>1, <1>2, <1>3, <1>4, <1>5, <1>6, DownloadSteps

LEMMA WordsResetStep ==
  ASSUME TypeOK, WordsReset, [Next]_vars
  PROVE  WordsReset'
<1> DEFINE Counting == FlashStages \cup {"suffix"}
<1> SUFFICES ASSUME pc' \notin Counting PROVE loop'.words = 0
  BY DEF WordsReset
<1>0. loop \in Locals
  BY DEF TypeOK, StepTypeOK
<1>1. CASE loop'.words = loop.words /\ pc \notin Counting
  BY <1>1 DEF WordsReset
<1>2. CASE loop' = NoLoop \/ loop' = [NoLoop EXCEPT !.caller = "exit"]
           \/ loop' = [NoLoop EXCEPT !.caller = "firmware"]
  BY <1>2 DEF NoLoop
<1>3. CASE EVENT_USB_Device_ControlRequest
  BY <1>1, <1>2, <1>3
  DEF EVENT_USB_Device_ControlRequest, Download, Upload, GetStatusOrState, ClearStatus,
      Abort, Unhandled, Setup, stepVars, FlashStages
<1>4. CASE WriteFirmware
  <2>1. \/ loop'.words = loop.words /\ pc \notin Counting
        \/ loop' = NoLoop \/ pc' \in Counting
    BY <1>0, <1>4
    DEF WriteFirmware, FirmwareStage, DiscardFillerBytes, DiscardGivenUp, AlignFirmware,
        StartWriting, FetchPacket, WriteFlashWord, CommitPage, StartNextPage,
        FlashWritten, WriteEepromByte, EepromWritten, FirmwareDone, Return, Goto, Enter,
        Locals, FlashStages, stepVars
  <2> QED
    BY <1>1, <1>2, <2>1
<1>5. CASE AnswerRequest
  <2>1. pc \notin Counting
    BY <1>5
    DEF AnswerRequest, AnswerState, AnswerUpload, StartReading, SendFullPacket,
        ReadFlashWord, ReadEepromByte, MemoryRead, StatusStage, FlashStages
  <2>2. StartReading \/ ReadFlashWord \/ ReadEepromByte => loop'.words = loop.words
    <3>1. StartReading =>
            \/ loop' = [loop EXCEPT !.remaining = BytesRemaining \div 2,
                                    !.cursor = Long(StartAddr)]
            \/ loop' = [loop EXCEPT !.remaining = BytesRemaining]
            \/ loop' = loop
      BY DEF StartReading, Enter
    <3> HIDE DEF BytesRemaining
    <3>2. StartReading => loop'.words = loop.words
      BY <1>0, <3>1 DEF Locals
    <3>3. /\ ReadFlashWord =>
               loop' = [loop EXCEPT !.remaining = @ - 1, !.cursor = @ + 2]
          /\ ReadEepromByte => loop' = [loop EXCEPT !.remaining = @ - 1]
      BY DEF ReadFlashWord, ReadEepromByte
    <3>4. ReadFlashWord \/ ReadEepromByte => loop'.words = loop.words
      BY <1>0, <3>3 DEF Locals
    <3> QED
      BY <3>2, <3>4
  <2>3. loop'.words = loop.words \/ loop' = NoLoop
    BY <1>5, <2>2
    DEF AnswerRequest, AnswerState, AnswerUpload, SendFullPacket, MemoryRead, StatusStage,
        Return, stepVars
  <2> QED
    BY <1>1, <1>2, <2>1, <2>3
<1>6. CASE GiveUp \/ WatchdogFires \/ PowerFails \/ LoadCommand
  BY <1>2, <1>6 DEF GiveUp, Return, WatchdogFires, PowerFails, Restart, LoadCommand
<1>7. CASE FinishExit
  BY <1>1, <1>7 DEF FinishExit, Goto, FlashStages
<1>8. CASE ProcessBootloaderCommand
  BY <1>1, <1>8, AfterProcess DEF FlashStages
<1>9. CASE EraseNextPage
  <2>1. loop'.words = loop.words /\ pc = "erase"
    BY <1>0, <1>9 DEF EraseNextPage, Locals
  <2> QED
    BY <1>1, <2>1 DEF FlashStages
<1>10. CASE HostSendsPacket \/ HostTakesPacket \/ Detach \/ Attach \/ UNCHANGED vars
  BY <1>1, <1>10 DEF HostSendsPacket, HostTakesPacket, Detach, Attach, busFrame,
                     stepVars, vars
<1> QED
  BY <1>3, <1>4, <1>5, <1>6, <1>7, <1>8, <1>9, <1>10 DEF Next, Handler, Environment

(* The types the arithmetic of the loop rests on.                           *)
LEMMA StartType ==
  ASSUME TypeOK
  PROVE  /\ Start \in Nat /\ BytesRemaining \in Nat /\ BytesRemaining \div 2 \in Nat
         /\ SPM_PAGESIZE \in Nat /\ SPM_PAGESIZE > 0 /\ SPM_PAGESIZE % 2 = 0
         /\ loop \in Locals /\ loop.remaining \in Nat /\ loop.cursor \in Nat
         /\ loop.pageStart \in Nat /\ loop.words \in Nat
<1>1. Start \in Nat
  BY LongType DEF TypeOK, RangeTypeOK, Start
<1>2. BytesRemaining \in Nat
  BY BytesRemainingType, WordNatural
<1>3. BytesRemaining \div 2 \in Nat
  <2> HIDE DEF BytesRemaining
  <2> QED
    BY <1>2
<1> QED
  BY <1>1, <1>2, <1>3, FlashGeometry DEF TypeOK, StepTypeOK, Locals

(* A page is a number of words.                                             *)
LEMMA HalfPage ==
  /\ SPM_PAGESIZE \div 2 \in Nat /\ SPM_PAGESIZE = 2 * (SPM_PAGESIZE \div 2)
  BY FlashGeometry

(* The range, and with it the place it starts at, stands still.             *)
LEMMA SameRange ==
  ASSUME UNCHANGED <<rangeVars, SentCommand>>
  PROVE  /\ Start' = Start /\ BytesRemaining' = BytesRemaining
         /\ \A b \in Byte : IsOneByteCommand(b)' = IsOneByteCommand(b)
  BY DEF rangeVars, Start, Long, BytesRemaining, IsOneByteCommand

LEMMA FlashLoopStep ==
  ASSUME TypeOK, WordsReset, FlashLoop, [Next]_vars
  PROVE  FlashLoop'
<1> SUFFICES ASSUME pc' \in FlashStages PROVE FlashLoop'
  BY DEF FlashLoop
<1> DEFINE s == Start
           half == BytesRemaining \div 2
           P == SPM_PAGESIZE
<1>1. /\ s \in Nat /\ half \in Nat /\ P \in Nat /\ P > 0
      /\ loop \in Locals /\ loop.remaining \in Nat /\ loop.cursor \in Nat
      /\ loop.pageStart \in Nat /\ loop.words \in Nat
  BY StartType
<1>2. UNCHANGED <<rangeVars, SentCommand>>
  BY FlashEntered
  DEF downloadVars, WriteFirmware, firmwareFrame, StartWriting, WriteFlashWord,
      CommitPage, StartNextPage
<1>3. s' = s /\ half' = half /\ IsOneByteCommand(0)' = IsOneByteCommand(0)
  BY <1>2, SameRange DEF Byte
<1> HIDE DEF s, half, P
<1>4. CASE UNCHANGED downloadVars
  BY <1>3, <1>4 DEF downloadVars, stepVars, FlashLoop, s, half
<1>5. CASE StartWriting
  <2>1. /\ IsOneByteCommand(0) /\ pc = "align" /\ pc' = "flash"
        /\ loop'.remaining = half /\ loop'.cursor = s /\ loop'.pageStart = s
        /\ loop'.words = loop.words
    BY <1>1, <1>5 DEF StartWriting, Enter, FlashStages, s, Start, half, Locals
  <2>2. loop.words = 0
    BY <2>1 DEF WordsReset, FlashStages
  <2>3. s + 2 * half = s + 2 * half /\ s = s + 2 * 0 /\ 2 * 0 <= P /\ 2 * 0 < P /\ s >= s
    BY <1>1
  <2> QED
    BY <1>3, <2>1, <2>2, <2>3 DEF FlashLoop, s, half, P
<1>6. CASE WriteFlashWord
  <2>1. /\ pc = "flash" /\ loop.remaining > 0
        /\ loop'.remaining = loop.remaining - 1 /\ loop'.cursor = loop.cursor + 2
        /\ loop'.words = loop.words + 1 /\ loop'.pageStart = loop.pageStart
        /\ pc' = IF CommitDue(loop.words + 1, loop.remaining - 1) THEN "commit" ELSE "flash"
    BY <1>1, <1>6 DEF WriteFlashWord, Locals
  <2>2. /\ IsOneByteCommand(0)
        /\ loop.pageStart >= s /\ loop.pageStart % P = s % P
        /\ loop.cursor = loop.pageStart + 2 * loop.words
        /\ loop.cursor + 2 * loop.remaining = s + 2 * half
        /\ 2 * loop.words < P
    BY <2>1 DEF FlashLoop, FlashStages, s, half, P
  <2>3. P = 2 * (P \div 2) /\ P \div 2 \in Nat
    BY HalfPage DEF P
  <2>4. /\ loop.cursor + 2 = loop.pageStart + 2 * (loop.words + 1)
        /\ loop.cursor + 2 + 2 * (loop.remaining - 1) = s + 2 * half
        /\ 2 * (loop.words + 1) <= P
        /\ loop.words + 1 # P \div 2 => 2 * (loop.words + 1) < P
        /\ loop.words + 1 = P \div 2 => 2 * (loop.words + 1) = P
        /\ loop.words + 1 > 0
    <3> DEFINE h == P \div 2
    <3>1. h \in Nat /\ P = 2 * h
      BY <2>3
    <3> HIDE DEF h
    <3>2. /\ 2 * (loop.words + 1) <= P
          /\ loop.words + 1 # h => 2 * (loop.words + 1) < P
          /\ loop.words + 1 = h => 2 * (loop.words + 1) = P
          /\ loop.words + 1 > 0
      BY <1>1, <2>2, <3>1
    <3>3. loop.cursor + 2 = loop.pageStart + 2 * (loop.words + 1)
      BY <1>1, <2>2
    <3>4. loop.cursor + 2 + 2 * (loop.remaining - 1) = s + 2 * half
      BY <1>1, <2>2
    <3> QED
      BY <3>2, <3>3, <3>4 DEF h
  <2>5. /\ pc' = "commit" => loop.words + 1 = P \div 2 \/ loop.remaining - 1 = 0
        /\ pc' = "flash" => loop.words + 1 # P \div 2 /\ loop.remaining - 1 # 0
        /\ pc' \in {"commit", "flash"}
    BY <2>1 DEF CommitDue, P
  <2> QED
    BY <1>1, <1>3, <2>1, <2>2, <2>4, <2>5 DEF FlashLoop, s, half, P
<1>7. CASE CommitPage
  <2>1. /\ pc = "commit" /\ loop' = loop
        /\ pc' = IF loop.remaining > 0 THEN "eraseNext" ELSE "flash"
    BY <1>7 DEF CommitPage, Goto, MorePages
  <2> QED
    BY <1>1, <1>3, <2>1 DEF FlashLoop, FlashStages, s, half
<1>8. CASE StartNextPage
  <2>1. /\ pc = "eraseNext" /\ pc' = "flash"
        /\ loop'.remaining = loop.remaining /\ loop'.cursor = loop.cursor
        /\ loop'.pageStart = loop.cursor /\ loop'.words = 0
    BY <1>1, <1>8 DEF StartNextPage, Locals
  <2>2. /\ IsOneByteCommand(0)
        /\ loop.pageStart >= s /\ loop.pageStart % P = s % P
        /\ loop.cursor = loop.pageStart + P
        /\ loop.cursor + 2 * loop.remaining = s + 2 * half
    BY <1>1, <2>1 DEF FlashLoop, FlashStages, s, half, P
  <2>3. loop.cursor % P = s % P
    <3>1. (loop.pageStart + P) % P = loop.pageStart % P
      BY <1>1, RemainderAdded
    <3> QED
      BY <2>2, <3>1
  <2>4. loop.cursor >= s
    <3>1. loop.pageStart >= s /\ loop.cursor = loop.pageStart + P
      BY <2>2
    <3> QED
      BY <1>1, <3>1
  <2>5. loop.cursor = loop.cursor + 2 * 0 /\ 2 * 0 < P /\ 2 * 0 <= P
    BY <1>1
  <2> QED
    BY <1>3, <2>1, <2>2, <2>3, <2>4, <2>5 DEF FlashLoop, s, half, P
<1> QED
  BY <1>4, <1>5, <1>6, <1>7, <1>8, FlashEntered

(* A range that runs forward counts no more bytes, or words, than it has.   *)
LEMMA RangeBytes ==
  ASSUME NEW s \in Word, NEW e \in Word, s <= e + 1
  PROVE  /\ (e - s + 1) % 65536 <= e - s + 1
         /\ 2 * (((e - s + 1) % 65536) \div 2) <= e - s + 1
<1> DEFINE n == e - s + 1
<1>1. n \in Nat
  BY WordBounds
<1> HIDE DEF n
<1>2. n % 65536 <= n /\ n % 65536 \in Nat
  BY <1>1
<1>3. \A k \in Nat : 2 * (k \div 2) <= k
  OBVIOUS
<1>4. 2 * ((n % 65536) \div 2) <= n % 65536
  BY <1>2, <1>3
<1>5. (n % 65536) \div 2 \in Nat
  <2>1. \A k \in Nat : k \div 2 \in Nat
    OBVIOUS
  <2> QED
    BY <1>2, <2>1
<1> QED
  BY <1>1, <1>2, <1>4, <1>5 DEF n

(* The first byte of a range that does not end before it starts comes no    *)
(* later than its last.                                                     *)
Ordered ==
  StartAddr <= EndAddr =>
    Long(StartAddr) \in Nat /\ Long(EndAddr) \in Nat /\ Long(StartAddr) <= Long(EndAddr)

LEMMA RangeOrdered == TypeOK => Ordered
<1> SUFFICES ASSUME TypeOK, StartAddr <= EndAddr PROVE Ordered
  BY DEF Ordered
<1>1. /\ StartAddr \in Nat /\ EndAddr \in Nat /\ Flash64KBPage \in Nat
  BY WordNatural DEF TypeOK, RangeTypeOK, Byte
<1> QED
  BY <1>1 DEF Ordered, Long

(* A page that begins within a range has its number among the range's.      *)
LEMMA PageBetween ==
  ASSUME NEW first \in Nat, NEW last \in Nat, NEW p \in Nat, p % SPM_PAGESIZE = 0,
         first <= p, p <= last, NEW a \in PageCells(p)
  PROVE  a \div SPM_PAGESIZE \in (first \div SPM_PAGESIZE) .. (last \div SPM_PAGESIZE)
<1>1. SPM_PAGESIZE \in Nat /\ SPM_PAGESIZE > 0
  BY FlashGeometry
<1>2. a \div SPM_PAGESIZE = p \div SPM_PAGESIZE
  BY PageOfCell
<1>3. /\ first \div SPM_PAGESIZE <= p \div SPM_PAGESIZE
      /\ p \div SPM_PAGESIZE <= last \div SPM_PAGESIZE
  BY <1>1, QuotientMonotonic
<1>4. /\ first \div SPM_PAGESIZE \in Nat /\ p \div SPM_PAGESIZE \in Nat
      /\ last \div SPM_PAGESIZE \in Nat
  BY <1>1, Quotient
<1> QED
  BY <1>2, <1>3, <1>4

(* While the flash loop has words to write, or to commit, the page it is at *)
(* begins before the end of the range.                                      *)
LEMMA PagesInRange ==
  ASSUME TypeOK, FlashLoop, pc \in FlashStages, StartAddr <= EndAddr + 1
  PROVE  /\ loop.pageStart >= Start
         /\ loop.cursor <= Long(EndAddr) + 1
         /\ pc = "commit" => loop.pageStart < loop.cursor
         /\ pc = "eraseNext" => loop.pageStart < loop.cursor /\ loop.cursor < Long(EndAddr)
         /\ pc = "flash" /\ loop.remaining > 0 => loop.cursor < Long(EndAddr)
<1> DEFINE half == BytesRemaining \div 2
<1>1. /\ Start \in Nat /\ half \in Nat /\ SPM_PAGESIZE \in Nat /\ SPM_PAGESIZE > 0
      /\ loop.remaining \in Nat /\ loop.cursor \in Nat
      /\ loop.pageStart \in Nat /\ loop.words \in Nat
  BY StartType
<1>2. /\ StartAddr \in Word /\ EndAddr \in Word /\ StartAddr \in Int /\ EndAddr \in Int
  BY WordNatural DEF TypeOK, RangeTypeOK
<1>3. Long(EndAddr) \in Nat /\ Long(EndAddr) = Start + (EndAddr - StartAddr)
  <2>1. Flash64KBPage \in Nat
    BY DEF TypeOK, RangeTypeOK, Byte
  <2> QED
    BY <1>2, <2>1, LongType DEF TypeOK, RangeTypeOK, Start, Long
<1>4. 2 * half <= EndAddr - StartAddr + 1
  BY <1>2, RangeBytes DEF BytesRemaining
<1>5. /\ loop.pageStart >= Start
      /\ loop.cursor = loop.pageStart + 2 * loop.words
      /\ loop.cursor + 2 * loop.remaining = Start + 2 * half
      /\ pc = "commit" => loop.words > 0
      /\ pc = "eraseNext" => loop.remaining > 0 /\ 2 * loop.words = SPM_PAGESIZE
  BY DEF FlashLoop
<1> HIDE DEF half
<1>6. loop.cursor + 2 * loop.remaining <= Long(EndAddr) + 1
  BY <1>1, <1>2, <1>3, <1>4, <1>5
<1>7. /\ loop.cursor <= Long(EndAddr) + 1
      /\ loop.remaining > 0 => loop.cursor < Long(EndAddr)
  BY <1>1, <1>3, <1>6
<1>8. loop.words > 0 => loop.pageStart < loop.cursor
  BY <1>1, <1>5
<1>9. pc = "eraseNext" => loop.words > 0
  BY <1>1, <1>5
<1> QED
  BY <1>5, <1>7, <1>8, <1>9

FlashInv == WordsReset /\ FlashLoop

LEMMA FlashInvAlways == Spec => [](DFUInv /\ AnswerInv /\ FlashInv)
<1>1. Init => FlashInv
  BY DEF Init, FlashInv, WordsReset, FlashLoop, FlashStages, NoLoop
<1>2. DFUInv /\ FlashInv /\ [Next]_vars => FlashInv'
  <2>1. DFUInv => TypeOK
    BY DEF DFUInv
  <2> QED
    BY <2>1, WordsResetStep, FlashLoopStep DEF FlashInv
<1> QED
  BY <1>1, <1>2, AnswerInvAlways, PTL DEF Spec

(* BootloaderDFU.c:222-316: whatever comes as firmware, in however many     *)
(* packets, the pages that are erased or written are those of the range.    *)
THEOREM DFUOnlyAskedPagesChange == Spec => OnlyAskedPagesChange
<1> DEFINE Near == \A a \in Application :
              flash'[a] # flash[a] /\ pc # "erase" /\ StartAddr' <= EndAddr' =>
                a \div SPM_PAGESIZE \in (Long(StartAddr) \div SPM_PAGESIZE)'
                                         .. (Long(EndAddr) \div SPM_PAGESIZE)'
<1>1. TypeOK /\ Ordered' /\ FlashInv /\ [Next]_vars => Near
  <2> SUFFICES ASSUME TypeOK, Ordered', FlashInv, [Next]_vars, NEW a \in Application,
                      flash'[a] # flash[a], pc # "erase", StartAddr' <= EndAddr'
               PROVE  a \div SPM_PAGESIZE \in (Long(StartAddr) \div SPM_PAGESIZE)'
                                         .. (Long(EndAddr) \div SPM_PAGESIZE)'
    OBVIOUS
  <2>1. PICK first \in Nat, last \in Nat :
          first = Long(StartAddr)' /\ last = Long(EndAddr)' /\ first <= last
    BY DEF Ordered
  <2>2. a \in FlashAddresses
    BY FlashGeometry DEF Application, FlashAddresses
  <2> SUFFICES \E p \in Nat : /\ p % SPM_PAGESIZE = 0 /\ a \in PageCells(p)
                              /\ first <= p /\ p <= last
    BY <2>1, PageBetween
  <2>3. CASE ErasePage(Long(StartAddr')) /\ LoadStartEndAddresses
    <3>1. Long(StartAddr') = first
      BY <2>1, <2>3 DEF LoadStartEndAddresses, Long
    <3>2. IsPageAddressValid(first) /\ a \in PageCells(first)
      BY <2>2, <2>3, <3>1 DEF ErasePage
    <3> QED
      BY <2>1, <3>2 DEF IsPageAddressValid
  <2>4. CASE CommitPage \/ StartNextPage
    <3> DEFINE p == IF pc = "commit" THEN loop.pageStart ELSE loop.cursor
    <3>1. /\ pc \in {"commit", "eraseNext"} /\ UNCHANGED rangeVars
          /\ IF pc = "commit" THEN WritePage(p) ELSE ErasePage(p)
      BY <2>4 DEF CommitPage, StartNextPage
    <3>2. IsPageAddressValid(p) /\ a \in PageCells(p)
      BY <2>2, <3>1 DEF ErasePage, WritePage
    <3>2a. StartAddr \in Nat /\ EndAddr \in Nat /\ StartAddr <= EndAddr
      BY <3>1, WordNatural DEF TypeOK, RangeTypeOK, rangeVars
    <3>3. StartAddr <= EndAddr + 1 /\ first = Start /\ last = Long(EndAddr)
      BY <2>1, <3>1, <3>2a DEF rangeVars, Long, Start
    <3>4. /\ loop.pageStart >= Start /\ loop.cursor <= Long(EndAddr) + 1
          /\ pc = "commit" => loop.pageStart < loop.cursor
          /\ pc = "eraseNext" => loop.pageStart < loop.cursor /\ loop.cursor < Long(EndAddr)
      BY <3>1, <3>3, PagesInRange DEF FlashInv, FlashStages
    <3>5. loop.cursor \in Nat /\ loop.pageStart \in Nat
      BY StartType
    <3>6. p \in Nat /\ first <= p /\ p <= last
      BY <2>1, <3>1, <3>3, <3>4, <3>5
    <3> QED
      BY <3>2, <3>6 DEF IsPageAddressValid
  <2> QED
    BY <2>2, <2>3, <2>4, FlashSteps DEF WriteFlashWord, FillWord, EraseNextPage
<1>2. DFUInv => TypeOK
  BY DEF DFUInv
<1> QED
  BY <1>1, <1>2, RangeOrdered, FlashInvAlways, PTL DEF Spec, OnlyAskedPagesChange
-----------------------------------------------------------------------------
(* Downloads: the packets of the request.                                   *)

(* What the handler serves, and how far the host has come with it.          *)
Served ==
  pc \in DownloadStages => request \in Requests /\ request.bRequest = DFU_REQ_DNLOAD

(* The bank holds the end of what the host has sent, in full packets but    *)
(* for the last, and nothing while the host fills it.                       *)
BankFill ==
  pc \in DownloadStages =>
    /\ ep.bank <= ep.moved /\ ep.moved <= request.wLength
    /\ ep.moved % FIXED_CONTROL_ENDPOINT_SIZE = 0 \/ ep.moved = request.wLength
    /\ ep.turn = "host" => ep.bank = 0

(* Before the header is read there is one packet, or none yet.              *)
BeforeHeader ==
  /\ pc = "command" =>
       /\ ep.bank = ep.moved
       /\ Ready => /\ ep.moved > 0
                   /\ ep.moved = FIXED_CONTROL_ENDPOINT_SIZE \/ OnePacket(request)
       /\ ~Ready => ep.moved = 0
  /\ pc = "exit" \/ (pc = "process" /\ loop.caller = "exit") =>
       ep = NoPacket /\ SentCommand.DataSize = request.wLength

LEMMA ServedStep ==
  ASSUME TypeOK, Served, [Next]_vars
  PROVE  Served'
<1> SUFFICES ASSUME pc' \in DownloadStages
             PROVE  request' \in Requests /\ request'.bRequest = DFU_REQ_DNLOAD
  BY DEF Served
<1>1. ASSUME NEW r \in Requests, Download(r)
      PROVE  request' \in Requests /\ request'.bRequest = DFU_REQ_DNLOAD
  BY <1>1 DEF Download, Serve
<1>2. CASE pc \in DownloadStages /\ UNCHANGED request
  BY <1>2 DEF Served
<1>3. CASE FinishExit \/ LoadCommand \/ EraseNextPage \/ ProcessBootloaderCommand
  BY <1>2, <1>3
  DEF FinishExit, LoadCommand, EraseNextPage, ProcessBootloaderCommand, busVars,
      DownloadStages
<1>4. CASE WriteFirmware
  <2>1. \/ pc \in DownloadStages /\ UNCHANGED request
        \/ pc' = "idle"
    BY <1>4
    DEF WriteFirmware, FirmwareStage, DiscardFillerBytes, DiscardGivenUp, AlignFirmware,
        StartWriting, FetchPacket, WriteFlashWord, CommitPage, StartNextPage,
        FlashWritten, WriteEepromByte, EepromWritten, FirmwareDone, Return,
        DownloadStages, FirmwareStages
  <2> QED
    BY <1>2, <2>1 DEF DownloadStages, FirmwareStages
<1> QED
  BY <1>1, <1>2, <1>3, <1>4, DownloadSteps DEF downloadVars

(* What may happen to the bank during a download.                           *)
LEMMA BankSteps ==
  ASSUME TypeOK, BankFill, [Next]_vars, pc' \in DownloadStages
  PROVE  \/ \E r \in Requests : Download(r)
         \/ /\ pc \in DownloadStages /\ UNCHANGED request
            /\ \/ UNCHANGED ep \/ HostSendsPacket
               \/ Ready /\ \E k \in Nat : Consume(k)
               \/ ep.bank = 0 /\ (ClearPacket \/ ep' = [ep EXCEPT !.turn = "device"])
<1>1. CASE WriteFirmware
  <2>1. loop.remaining \in Nat /\ ep.turn \in {"host", "device"}
    BY DEF TypeOK, StepTypeOK, BusTypeOK, Locals, Packet
  <2>2. /\ pc \in DownloadStages /\ UNCHANGED request
        /\ \/ UNCHANGED ep
           \/ Ready /\ (Consume(loop.remaining) \/ Consume(2) \/ Consume(1))
           \/ ep.bank = 0 /\ ClearPacket
           \/ ~Ready /\ ep' = [ep EXCEPT !.turn = "device"]
    BY <1>1
    DEF WriteFirmware, FirmwareStage, DiscardFillerBytes, DiscardGivenUp, AlignFirmware,
        StartWriting, FetchPacket, WriteFlashWord, CommitPage, StartNextPage,
        FlashWritten, WriteEepromByte, EepromWritten, FirmwareDone, Return,
        DownloadStages, FirmwareStages
  <2>3. ~Ready => ep.bank = 0
    BY <2>1, <2>2 DEF BankFill, Ready
  <2> QED
    BY <2>1, <2>2, <2>3
<1>2. CASE LoadCommand
  <2>1. ep.bank \in Nat
    BY DEF TypeOK, BusTypeOK, Packet
  <2>2. PICK k \in Nat : Consume(k)
    <3> DEFINE size == IF ep.bank < HeaderSize THEN ep.bank - 1 ELSE HeaderSize - 1
    <3>1. Consume(size + 1) /\ size + 1 \in Nat
      BY <1>2, <2>1 DEF LoadCommand, HeaderSize
    <3> QED
      BY <3>1
  <2> QED
    BY <1>2, <2>2 DEF LoadCommand, DownloadStages
<1>3. CASE FinishExit \/ EraseNextPage \/ ProcessBootloaderCommand
  BY <1>3 DEF FinishExit, EraseNextPage, ProcessBootloaderCommand, busVars,
              DownloadStages
<1> QED
  BY <1>1, <1>2, <1>3, DownloadSteps DEF downloadVars

(* The types of the endpoint.                                               *)
LEMMA PacketTypes ==
  ASSUME TypeOK
  PROVE  /\ ep \in Packet /\ ep.bank \in Nat /\ ep.moved \in Nat
         /\ ep.turn \in {"host", "device"} /\ request.wLength \in Nat
         /\ FIXED_CONTROL_ENDPOINT_SIZE \in Nat /\ FIXED_CONTROL_ENDPOINT_SIZE > 0
<1>1. request.wLength \in Word
  BY DEF TypeOK, BusTypeOK, Request
<1> QED
  BY <1>1, WordNatural, DFUConstants DEF TypeOK, BusTypeOK, Packet, HeaderSize

(* The packet the host sends.                                               *)
LEMMA PacketSent ==
  ASSUME TypeOK, HostSendsPacket
  PROVE  \E size \in Nat :
           /\ ep.turn = "host" /\ UNCHANGED <<pc, loop, request, SentCommand>>
           /\ ep' = [turn |-> "device", bank |-> size, moved |-> ep.moved + size]
           /\ size > 0 /\ ep.moved + size <= request.wLength
           /\ size = FIXED_CONTROL_ENDPOINT_SIZE \/ ep.moved + size = request.wLength
           /\ size <= FIXED_CONTROL_ENDPOINT_SIZE
<1> DEFINE left == request.wLength - ep.moved
           size == IF left < FIXED_CONTROL_ENDPOINT_SIZE THEN left
                   ELSE FIXED_CONTROL_ENDPOINT_SIZE
<1>1. /\ ep.moved < request.wLength /\ ~Ready
      /\ UNCHANGED <<pc, loop, request, SentCommand>>
      /\ ep' = [turn |-> "device", bank |-> size, moved |-> ep.moved + size]
  BY DEF HostSendsPacket, busFrame, stepVars
<1>2. /\ size \in Nat /\ size > 0 /\ ep.moved + size <= request.wLength
      /\ size = FIXED_CONTROL_ENDPOINT_SIZE \/ ep.moved + size = request.wLength
      /\ size <= FIXED_CONTROL_ENDPOINT_SIZE
  BY <1>1, PacketTypes
<1>3. ep.turn = "host"
  BY <1>1, PacketTypes DEF Ready
<1> HIDE DEF size
<1> QED
  BY <1>1, <1>2, <1>3

LEMMA BankFillStep ==
  ASSUME TypeOK, BankFill, [Next]_vars
  PROVE  BankFill'
<1> DEFINE F == FIXED_CONTROL_ENDPOINT_SIZE
           Filled(e, length) ==
             /\ e.bank <= e.moved /\ e.moved <= length
             /\ e.moved % F = 0 \/ e.moved = length
             /\ e.turn = "host" => e.bank = 0
<1> SUFFICES ASSUME pc' \in DownloadStages PROVE Filled(ep', request'.wLength)
  BY DEF BankFill
<1>0. /\ ep \in Packet /\ ep.bank \in Nat /\ ep.moved \in Nat /\ request.wLength \in Nat
      /\ ep.turn \in {"host", "device"} /\ F \in Nat /\ F > 0
  BY PacketTypes
<1>1. ASSUME NEW r \in Requests, Download(r) PROVE Filled(ep', request'.wLength)
  <2>1. request' = r /\ ep' = [NoPacket EXCEPT !.turn = "host"]
    BY <1>1 DEF Download, Serve
  <2>2. r.wLength \in Nat
    BY DFUConstants, WordNatural DEF Request
  <2>3. 0 % F = 0
    BY <1>0
  <2> QED
    BY <2>1, <2>2, <2>3 DEF NoPacket
<1>2. CASE pc \in DownloadStages /\ UNCHANGED request
  <2>1. Filled(ep, request.wLength)
    BY <1>2 DEF BankFill
  <2>2. CASE UNCHANGED ep
    BY <1>2, <2>1, <2>2
  <2>3. CASE HostSendsPacket
    <3>1. PICK size \in Nat :
            /\ ep' = [turn |-> "device", bank |-> size, moved |-> ep.moved + size]
            /\ size > 0 /\ ep.moved + size <= request.wLength
            /\ size = F \/ ep.moved + size = request.wLength
      BY <2>3, PacketSent
    <3>2. ep.moved < request.wLength
      BY <1>0, <3>1
    <3>3. ep.moved % F = 0
      BY <1>0, <2>1, <3>2
    <3>4. size = F => (ep.moved + size) % F = 0
      BY <1>0, <3>3, RemainderAdded
    <3> HIDE DEF F
    <3>5. size <= ep.moved + size
      BY <1>0
    <3> QED
      BY <1>2, <3>1, <3>4, <3>5
  <2>4. ASSUME NEW k \in Nat, Ready, Consume(k) PROVE Filled(ep', request'.wLength)
    <3>1. /\ ep'.turn = "device" /\ ep'.moved = ep.moved
          /\ ep'.bank = IF k < ep.bank THEN ep.bank - k ELSE 0
      BY <1>0, <2>4 DEF Consume, Ready, Packet
    <3>2. ep'.bank <= ep'.moved
      BY <1>0, <2>1, <3>1
    <3> QED
      BY <1>2, <2>1, <3>1, <3>2
  <2>5. CASE ep.bank = 0 /\ (ClearPacket \/ ep' = [ep EXCEPT !.turn = "device"])
    <3>1. ep'.bank = 0 /\ ep'.moved = ep.moved
      BY <1>0, <2>5 DEF ClearPacket, Packet
    <3>2. ep'.bank <= ep'.moved
      BY <1>0, <3>1
    <3> QED
      BY <1>2, <2>1, <3>1, <3>2
  <2> QED
    BY <1>1, <1>2, <2>2, <2>3, <2>4, <2>5, BankSteps
<1> QED
  BY <1>1, <1>2, BankSteps

LEMMA BeforeHeaderStep ==
  ASSUME TypeOK, ExitOrder, BankFill, BeforeHeader, [Next]_vars
  PROVE  BeforeHeader'
<1>0. /\ ep \in Packet /\ ep.bank \in Nat /\ ep.moved \in Nat /\ request.wLength \in Nat
      /\ ep.turn \in {"host", "device"} /\ FIXED_CONTROL_ENDPOINT_SIZE \in Nat
      /\ FIXED_CONTROL_ENDPOINT_SIZE > 0
  BY PacketTypes
<1> SUFFICES ASSUME pc' \in {"command", "process", "exit"} PROVE BeforeHeader'
  BY DEF BeforeHeader
<1>1. ASSUME NEW r \in Requests, Download(r) PROVE BeforeHeader'
  <2>1. /\ request' = r /\ ep' = [NoPacket EXCEPT !.turn = "host"]
        /\ SentCommand' = [SentCommand EXCEPT !.DataSize = r.wLength]
    BY <1>1 DEF Download, Serve, Setup
  <2>2. /\ ep' = NoPacket /\ ep'.bank = 0 /\ ep'.moved = 0 /\ ep'.turn = "host"
        /\ SentCommand'.DataSize = r.wLength
    BY <2>1 DEF NoPacket, TypeOK, CommandTypeOK
  <2> QED
    BY <2>1, <2>2 DEF BeforeHeader, Ready
<1>2. CASE pc \in DownloadStages /\ UNCHANGED <<downloadVars, ep>>
  BY <1>2 DEF downloadVars, stepVars, BeforeHeader, Ready, OnePacket, Firmware
<1>3. CASE pc \in DownloadStages /\ UNCHANGED downloadVars /\ HostSendsPacket
  <2>1. /\ pc \in OutStages /\ pc' = pc /\ loop' = loop /\ request' = request
    BY <1>3 DEF HostSendsPacket, downloadVars, stepVars
  <2>2. pc = "command"
    BY <2>1 DEF OutStages
  <2>3. PICK size \in Nat :
          /\ ep.turn = "host"
          /\ ep' = [turn |-> "device", bank |-> size, moved |-> ep.moved + size]
          /\ size > 0 /\ ep.moved + size <= request.wLength
          /\ size = FIXED_CONTROL_ENDPOINT_SIZE \/ ep.moved + size = request.wLength
          /\ size <= FIXED_CONTROL_ENDPOINT_SIZE
    BY <1>3, PacketSent
  <2>4. ep.moved = 0
    BY <2>2, <2>3 DEF BeforeHeader, Ready
  <2>5. ep'.bank = size /\ ep'.moved = size /\ ep'.turn = "device"
    BY <2>3, <2>4
  <2>6. size = FIXED_CONTROL_ENDPOINT_SIZE
          \/ request.wLength - FIXED_CONTROL_ENDPOINT_SIZE <= 0
    BY <1>0, <2>3, <2>4
  <2> QED
    BY <2>1, <2>2, <2>3, <2>5, <2>6 DEF BeforeHeader, Ready, OnePacket, Firmware
<1>4. CASE FinishExit
  <2>1. /\ ep = NoPacket /\ UNCHANGED <<ep, request, SentCommand>>
        /\ pc' \in {"command", "firmware"}
    BY <1>4 DEF FinishExit, Goto, BeforeHeader, busVars
  <2> QED
    BY <2>1 DEF BeforeHeader, Ready, NoPacket
<1>5. CASE LoadCommand
  <2>1. pc' = "process" /\ loop'.caller = "firmware"
    BY <1>5 DEF LoadCommand, NoLoop
  <2> QED
    BY <2>1 DEF BeforeHeader
<1>6. CASE ProcessBootloaderCommand
  <2>1. pc = "process" /\ pc' \in {"idle", "exit", "firmware", "erase"}
        /\ UNCHANGED <<SentCommand, busVars, loop>>
    BY <1>6, AfterProcess
  <2>2. pc' = "exit" => loop.caller = "exit"
    BY <1>6
    DEF ProcessBootloaderCommand, Processed, Goto, RefuseCommand, ProcessMemProgCommand,
        ProcessMemReadCommand, ProcessWriteCommand, ProcessReadCommand,
        ProcessChangeBase, UnknownCommand
  <2> QED
    BY <2>1, <2>2 DEF BeforeHeader, busVars
<1>7. CASE EraseNextPage
  <2>1. pc = "erase" /\ pc' \in {"erase", loop.caller}
        /\ loop.caller \in {"idle", "firmware"}
    BY <1>7 DEF EraseNextPage, ExitOrder, TypeOK, StepTypeOK, Locals
  <2> QED
    BY <2>1 DEF BeforeHeader
<1>8. CASE WriteFirmware
  <2>1. pc' \notin {"command", "process", "exit"}
    BY <1>8
    DEF WriteFirmware, FirmwareStage, DiscardFillerBytes, DiscardGivenUp, AlignFirmware,
        StartWriting, FetchPacket, WriteFlashWord, CommitPage, StartNextPage,
        FlashWritten, WriteEepromByte, EepromWritten, FirmwareDone, Return, Goto, Enter,
        stepVars
  <2> QED
    BY <2>1
<1>9. pc' \in DownloadStages
  BY DEF DownloadStages
<1> QED
  BY <1>1, <1>2, <1>3, <1>4, <1>5, <1>6, <1>7, <1>8, <1>9, DownloadSteps
-----------------------------------------------------------------------------
(* Downloads: the header, the command and the first packet.                 *)

(* A request that is longer than a packet is a program command.             *)
ProgramsOnly ==
  \A r \in Requests :
    r.bRequest = DFU_REQ_DNLOAD => OnePacket(r) \/ Programs(r, 0) \/ Programs(r, 1)

(* The header of the request has been read.                                 *)
Loaded == /\ pc \in {"process", "erase", "firmware"} \cup FirmwareStages
          /\ ~(pc = "process" /\ loop.caller = "exit")

(* A request of one packet is over before the first word of firmware.       *)
ShortServed ==
  Loaded /\ OnePacket(request) =>
    /\ ep.moved = request.wLength
    /\ pc \in {"process", "erase", "firmware"} => ep.bank <= DFU_FILLER_BYTES_SIZE
    /\ pc = "filler" => ep.bank <= loop.remaining
    /\ pc \in FirmwareStages \ {"filler"} => ep.bank = 0
    /\ pc \in FlashStages => pc = "flash" /\ loop.words = 0 /\ loop.pageStart = Start

(* A longer request is retained as it came, and its first packet is read to *)
(* the end with the filler.                                                 *)
FirstPacket(left) ==
  [turn |-> "device", bank |-> left, moved |-> FIXED_CONTROL_ENDPOINT_SIZE]
ProgramServed ==
  Loaded /\ ~OnePacket(request) =>
    /\ SentCommand.Command = request.Command /\ SentCommand.Data = request.Data
    /\ pc \in {"process", "erase", "firmware"} => ep = FirstPacket(DFU_FILLER_BYTES_SIZE)
    /\ pc = "filler" => ep = FirstPacket(loop.remaining)
    /\ pc = "align" /\ First(request) % FIXED_CONTROL_ENDPOINT_SIZE = 0 =>
         loop.remaining = 0 /\ ep = FirstPacket(0)

(* Between a program command and its firmware the range is the one it asks  *)
(* for, and the first page is blank.                                        *)
Ahead == \/ pc \in {"filler", "align"}
         \/ pc = "firmware" /\ DFU_State = dfuDNLOAD_IDLE /\ SentCommand.DataSize > 0
Aimed ==
  (Ahead \/ pc \in FlashStages) /\ SentCommand.Command = COMMAND_PROG_START
    /\ SentCommand.Data[0] \in {0, 1}
  => StartAddr = AskedStart /\ EndAddr = AskedEnd
PageBlank(p) == \A c \in PageCells(p) : flash[c] = Blank
FirstPageReady ==
  Ahead /\ SentCommand.Command = COMMAND_PROG_START /\ IsOneByteCommand(0)
    /\ IsPageAddressValid(Start)
  => PageBlank(Start) /\ pageBuffer = EmptyBuffer

(* A command that starts the chip erase has touched nothing else.           *)
LEMMA ProcessTarget ==
  ASSUME ProcessBootloaderCommand
  PROVE  \/ pc' = loop.caller
         \/ pc' = "erase" /\ UNCHANGED <<statusVars, rangeVars, flashVars>>
              /\ SentCommand.Command = COMMAND_WRITE
  BY DEF ProcessBootloaderCommand, Processed, Goto, RefuseCommand, ProcessMemProgCommand,
         ProcessMemReadCommand, ProcessWriteCommand, ProcessReadCommand,
         ProcessChangeBase, UnknownCommand

(* The chip erase is a write command, so no range is ahead after it.        *)
EraseIsWrite == pc = "erase" => SentCommand.Command = COMMAND_WRITE

LEMMA EraseIsWriteStep ==
  ASSUME TypeOK, EraseIsWrite, [Next]_vars
  PROVE  EraseIsWrite'
<1> SUFFICES ASSUME pc' = "erase" PROVE SentCommand'.Command = COMMAND_WRITE
  BY DEF EraseIsWrite
<1>1. loop.caller \in {"idle", "exit", "firmware"}
  BY DEF TypeOK, StepTypeOK, Locals
<1>2. CASE UNCHANGED downloadVars
  BY <1>2 DEF downloadVars, stepVars, EraseIsWrite
<1>3. CASE ProcessBootloaderCommand
  BY <1>1, <1>3, ProcessTarget, AfterProcess
<1>4. CASE EraseNextPage
  BY <1>4 DEF EraseNextPage, EraseIsWrite
<1>5. CASE FinishExit \/ LoadCommand \/ \E r \in Requests : Download(r)
  BY <1>5 DEF FinishExit, LoadCommand, Download, Serve, Goto
<1>6. CASE WriteFirmware
  BY <1>6
  DEF WriteFirmware, FirmwareStage, DiscardFillerBytes, DiscardGivenUp, AlignFirmware,
      StartWriting, FetchPacket, WriteFlashWord, CommitPage, StartNextPage, FlashWritten,
      WriteEepromByte, EepromWritten, FirmwareDone, Return, Goto, Enter, stepVars
<1>7. pc' \in DownloadStages
  BY DEF DownloadStages
<1> QED
  BY <1>2, <1>3, <1>4, <1>5, <1>6, <1>7, DownloadSteps

(* The way to a place before firmware.                                      *)
LEMMA AheadEntered ==
  ASSUME TypeOK, [Next]_vars, Ahead'
  PROVE  \/ Ahead /\ UNCHANGED <<flash, pageBuffer, rangeVars, SentCommand>>
         \/ ProcessBootloaderCommand
         \/ EraseNextPage
<1>1. pc' \in DownloadStages
  BY DEF Ahead, DownloadStages, FirmwareStages
<1>2. CASE UNCHANGED downloadVars
  BY <1>2 DEF downloadVars, stepVars, Ahead
<1>3. ASSUME NEW r \in Requests, Download(r), pc = "idle" PROVE FALSE
  <2>1. r.wLength \in Nat
    BY DFUConstants, WordNatural DEF Request
  <2>2. /\ pc' = "firmware" => ~(r.wLength > 0)
        /\ SentCommand'.DataSize = r.wLength
        /\ pc' \in {"process", "command", "firmware"}
    BY <1>3 DEF Download, Serve, Setup, TypeOK, CommandTypeOK
  <2> QED
    BY <2>1, <2>2 DEF Ahead
<1>4. ~FinishExit /\ ~LoadCommand
  BY DEF FinishExit, Goto, LoadCommand, Ahead
<1>5. CASE WriteFirmware
  BY <1>5
  DEF WriteFirmware, FirmwareStage, DiscardFillerBytes, DiscardGivenUp, AlignFirmware,
      StartWriting, FetchPacket, WriteFlashWord, CommitPage, StartNextPage, FlashWritten,
      WriteEepromByte, EepromWritten, FirmwareDone, Return, Goto, Enter, stepVars,
      firmwareFrame, flashVars, Ahead
<1> QED
  BY <1>1, <1>2, <1>3, <1>4, <1>5, DownloadSteps

LEMMA AimedStep ==
  ASSUME TypeOK, EraseIsWrite, Aimed, [Next]_vars
  PROVE  Aimed'
<1> SUFFICES ASSUME Ahead' \/ pc' \in FlashStages,
                    SentCommand'.Command = COMMAND_PROG_START,
                    SentCommand'.Data[0] \in {0, 1}
             PROVE  (StartAddr = AskedStart /\ EndAddr = AskedEnd)'
  BY DEF Aimed
<1>1. CASE /\ Ahead \/ pc \in FlashStages
           /\ UNCHANGED <<rangeVars, SentCommand>>
  BY <1>1 DEF Aimed, rangeVars, AskedStart, AskedEnd
<1>2. CASE pc' \in FlashStages
  <2>1. UNCHANGED <<rangeVars, SentCommand>>
    BY <1>2, FlashEntered
    DEF downloadVars, WriteFirmware, firmwareFrame, StartWriting, WriteFlashWord,
        CommitPage, StartNextPage
  <2>2. Ahead \/ pc \in FlashStages
    BY <1>2, FlashEntered
    DEF StartWriting, WriteFlashWord, CommitPage, StartNextPage, Ahead, FlashStages
  <2> QED
    BY <1>1, <2>1, <2>2
<1>3. CASE ProcessBootloaderCommand /\ Ahead'
  <2>1. SentCommand' = SentCommand
    BY <1>3 DEF ProcessBootloaderCommand
  <2>2. DFU_State' = dfuDNLOAD_IDLE
    BY <1>3, AfterProcess DEF Ahead
  <2>3. ProcessMemProgCommand
    BY <1>3, <2>1, <2>2, CommandChosen DEF dfuDNLOAD_IDLE, dfuERROR
  <2>4. LoadStartEndAddresses
    BY <2>1, <2>3 DEF ProcessMemProgCommand, IsOneByteCommand
  <2> QED
    BY <2>1, <2>4 DEF LoadStartEndAddresses, AskedStart, AskedEnd
<1>4. CASE EraseNextPage
  BY <1>4 DEF EraseNextPage, EraseIsWrite, COMMAND_WRITE, COMMAND_PROG_START
<1> QED
  BY <1>1, <1>2, <1>3, <1>4, AheadEntered

LEMMA FirstPageReadyStep ==
  ASSUME TypeOK, TypeOK', EraseIsWrite, FirstPageReady, [Next]_vars
  PROVE  FirstPageReady'
<1> SUFFICES ASSUME Ahead', SentCommand'.Command = COMMAND_PROG_START,
                    IsOneByteCommand(0)', IsPageAddressValid(Start')
             PROVE  (PageBlank(Start) /\ pageBuffer = EmptyBuffer)'
  BY DEF FirstPageReady, IsPageAddressValid
<1>1. CASE Ahead /\ UNCHANGED <<flash, pageBuffer, rangeVars, SentCommand>>
  BY <1>1 DEF FirstPageReady, PageBlank, rangeVars, IsOneByteCommand, Start, Long
<1>2. CASE ProcessBootloaderCommand
  <2>1. SentCommand' = SentCommand /\ IsOneByteCommand(0)
    BY <1>2 DEF ProcessBootloaderCommand, IsOneByteCommand
  <2>2. DFU_State' = dfuDNLOAD_IDLE
    BY <1>2, AfterProcess DEF Ahead
  <2>3. ProcessMemProgCommand
    BY <1>2, <2>1, <2>2, CommandChosen DEF dfuDNLOAD_IDLE, dfuERROR
  <2>4. LoadStartEndAddresses /\ ErasePage(Long(StartAddr'))
    BY <2>1, <2>3 DEF ProcessMemProgCommand, IsOneByteCommand
  <2>5. Long(StartAddr') = Start'
    BY <2>4 DEF LoadStartEndAddresses, Start, Long
  <2>6. /\ flash' = [c \in FlashAddresses |->
                       IF c \in PageCells(Start') THEN Blank ELSE flash[c]]
        /\ pageBuffer' = EmptyBuffer
    BY <2>4, <2>5 DEF ErasePage, BufferAfterRwwEnable
  <2>7. \A c \in PageCells(Start') : c \in FlashAddresses
    <3>1. Start' \in Nat
      BY <2>5, LongType DEF TypeOK, RangeTypeOK
    <3> QED
      BY <3>1, ValidPageCells
  <2> QED
    BY <2>6, <2>7 DEF PageBlank
<1>3. CASE EraseNextPage
  BY <1>3 DEF EraseNextPage, EraseIsWrite, COMMAND_WRITE, COMMAND_PROG_START
<1> QED
  BY <1>1, <1>2, <1>3, AheadEntered

LEMMA Sizes ==
  ASSUME DeviceSizes
  PROVE  /\ FIXED_CONTROL_ENDPOINT_SIZE \in Nat /\ DFU_FILLER_BYTES_SIZE \in Nat
         /\ FIXED_CONTROL_ENDPOINT_SIZE = 6 + DFU_FILLER_BYTES_SIZE
  BY DFUConstants DEF DeviceSizes, HeaderSize

(* Reading the header leaves the filler of a full packet, or less.          *)
LEMMA HeaderRead ==
  ASSUME DeviceSizes, TypeOK, LoadCommand, ep.bank > 0
  PROVE  /\ ep'.turn = "device" /\ ep'.moved = ep.moved /\ ep'.bank \in Nat
         /\ ep.bank <= FIXED_CONTROL_ENDPOINT_SIZE => ep'.bank <= DFU_FILLER_BYTES_SIZE
         /\ ep.bank = FIXED_CONTROL_ENDPOINT_SIZE =>
              /\ ep' = FirstPacket(DFU_FILLER_BYTES_SIZE) \/ ep.moved # ep.bank
              /\ SentCommand'.Command = request.Command /\ SentCommand'.Data = request.Data
<1> DEFINE size == IF ep.bank < HeaderSize THEN ep.bank - 1 ELSE HeaderSize - 1
<1>1. /\ ep \in Packet /\ ep.bank \in Nat /\ ep.moved \in Nat
      /\ ep.turn \in {"host", "device"}
  BY PacketTypes
<1>2. /\ Consume(size + 1) /\ ep.turn = "device"
      /\ SentCommand'.Command = request.Command
      /\ SentCommand'.Data = [i \in 0 .. 4 |-> IF i < size THEN request.Data[i]
                                              ELSE SentCommand.Data[i]]
  BY DEF LoadCommand, Ready
<1>3. /\ FIXED_CONTROL_ENDPOINT_SIZE \in Nat /\ DFU_FILLER_BYTES_SIZE \in Nat
      /\ FIXED_CONTROL_ENDPOINT_SIZE = 6 + DFU_FILLER_BYTES_SIZE
  BY Sizes
<1>4. /\ size + 1 = IF ep.bank < 6 THEN ep.bank ELSE 6
      /\ ep.bank = FIXED_CONTROL_ENDPOINT_SIZE => size = 5
  BY <1>1, <1>3 DEF HeaderSize
<1> HIDE DEF size
<1>5. ep' = [ep EXCEPT !.bank = IF size + 1 < ep.bank THEN ep.bank - (size + 1) ELSE 0]
  BY <1>2 DEF Consume
<1>6. /\ ep'.turn = "device" /\ ep'.moved = ep.moved
      /\ ep'.bank = IF size + 1 < ep.bank THEN ep.bank - (size + 1) ELSE 0
      /\ ep' = [turn |-> ep'.turn, bank |-> ep'.bank, moved |-> ep'.moved]
  BY <1>1, <1>2, <1>5 DEF Packet
<1>7. ep'.bank = IF ep.bank > 6 THEN ep.bank - 6 ELSE 0
  BY <1>1, <1>4, <1>6
<1>8. ep'.bank \in Nat
  BY <1>1, <1>7
<1>9. ep.bank <= FIXED_CONTROL_ENDPOINT_SIZE => ep'.bank <= DFU_FILLER_BYTES_SIZE
  BY <1>1, <1>3, <1>7
<1>10. ep.bank = FIXED_CONTROL_ENDPOINT_SIZE => ep'.bank = DFU_FILLER_BYTES_SIZE
  BY <1>1, <1>3, <1>7
<1>11. size = 5 => SentCommand'.Data = request.Data
  <2>1. request.Data \in [0 .. 4 -> Byte]
    BY DEF TypeOK, BusTypeOK, Request, CommandData
  <2> QED
    BY <1>2, <2>1
<1> QED
  BY <1>2, <1>4, <1>6, <1>8, <1>9, <1>10, <1>11 DEF FirstPacket

(* What a step of the handler leaves to a loaded request.                   *)
LEMMA LoadedSteps ==
  ASSUME TypeOK, ExitOrder', [Next]_vars, Loaded'
  PROVE  \/ Loaded /\ UNCHANGED <<downloadVars, ep>>
         \/ Loaded /\ UNCHANGED downloadVars /\ HostSendsPacket
         \/ pc' = "firmware" /\ \E r \in Requests : Download(r)
         \/ pc' = "firmware" /\ FinishExit
         \/ LoadCommand
         \/ /\ Loaded /\ UNCHANGED <<SentCommand, request, ep>>
            /\ pc \in {"process", "erase"} /\ pc' \in {"firmware", "erase"}
         \/ Loaded /\ WriteFirmware
<1>1. pc' \in DownloadStages
  BY DEF Loaded, DownloadStages
<1>2. loop \in Locals /\ loop.caller \in {"idle", "exit", "firmware"}
  BY DEF TypeOK, StepTypeOK, Locals
<1>3. CASE UNCHANGED downloadVars /\ (UNCHANGED ep \/ HostSendsPacket)
  BY <1>3 DEF downloadVars, stepVars, Loaded
<1>4. ASSUME NEW r \in Requests, Download(r) PROVE pc' = "firmware"
  BY <1>4 DEF Download, Serve, NoLoop, Loaded, FirmwareStages
<1>5. CASE FinishExit
  BY <1>5 DEF FinishExit, Goto, Loaded, FirmwareStages
<1>6. CASE ProcessBootloaderCommand
  <2>1. /\ pc = "process" /\ UNCHANGED <<SentCommand, busVars, loop>>
        /\ pc' = loop.caller \/ pc' = "erase"
    BY <1>6, AfterProcess, ProcessTarget
  <2>2. pc' \in {"firmware", "erase"} /\ loop.caller # "exit"
    BY <1>2, <2>1 DEF Loaded, FirmwareStages, ExitOrder
  <2> QED
    BY <2>1, <2>2 DEF Loaded, busVars
<1>7. CASE EraseNextPage
  <2>1. /\ pc = "erase" /\ UNCHANGED <<SentCommand, busVars>>
        /\ pc' \in {"erase", loop.caller}
    BY <1>7 DEF EraseNextPage
  <2> QED
    BY <1>2, <2>1 DEF Loaded, busVars, FirmwareStages
<1>8. CASE WriteFirmware
  BY <1>8
  DEF WriteFirmware, FirmwareStage, DiscardFillerBytes, DiscardGivenUp, AlignFirmware,
      StartWriting, FetchPacket, WriteFlashWord, CommitPage, StartNextPage, FlashWritten,
      WriteEepromByte, EepromWritten, FirmwareDone, Loaded, FirmwareStages
<1> QED
  BY <1>1, <1>3, <1>4, <1>5, <1>6, <1>7, <1>8, DownloadSteps

LEMMA ShortServedStep ==
  ASSUME DeviceSizes, TypeOK, TypeOK', ExitOrder', WordsReset, Served, BankFill,
         BeforeHeader, ShortServed, [Next]_vars
  PROVE  ShortServed'
<1> SUFFICES ASSUME Loaded', OnePacket(request') PROVE ShortServed'
  BY DEF ShortServed, OnePacket, Firmware
<1>0. /\ ep \in Packet /\ ep.bank \in Nat /\ ep.moved \in Nat
      /\ ep.turn \in {"host", "device"} /\ DFU_FILLER_BYTES_SIZE \in Nat
      /\ loop \in Locals /\ loop.remaining \in Nat
      /\ ep'.moved \in Nat /\ ep'.bank \in Nat /\ request'.wLength \in Nat
      /\ request.wLength \in Nat
  <2>1. request'.wLength \in Word /\ request.wLength \in Word
    BY DEF TypeOK, BusTypeOK, Request
  <2> QED
    BY <2>1, WordNatural, DFUConstants
    DEF TypeOK, BusTypeOK, Packet, StepTypeOK, Locals
<1>1. CASE Loaded /\ UNCHANGED <<downloadVars, ep>>
  BY <1>1 DEF downloadVars, stepVars, rangeVars, ShortServed, OnePacket, Firmware, Start, Long
<1>2. CASE Loaded /\ UNCHANGED downloadVars /\ HostSendsPacket
  <2>1. ep.moved = request.wLength
    BY <1>2 DEF ShortServed, downloadVars
  <2> QED
    BY <1>0, <1>2, <2>1 DEF HostSendsPacket
<1>3. CASE pc' = "firmware" /\ (FinishExit \/ \E r \in Requests : Download(r))
  <2>1. ep' = NoPacket /\ request'.wLength = SentCommand'.DataSize
        /\ ~(SentCommand'.DataSize > 0)
    BY <1>3
    DEF FinishExit, Goto, BeforeHeader, busVars, Download, Serve, Setup, NoPacket, TypeOK,
        CommandTypeOK
  <2>2. ep'.moved = request'.wLength /\ ep'.bank <= DFU_FILLER_BYTES_SIZE
    BY <1>0, <2>1 DEF NoPacket
  <2> QED
    BY <1>3, <2>2 DEF ShortServed, FirmwareStages, FlashStages
<1>4. CASE LoadCommand
  <2>1. /\ pc = "command" /\ Ready /\ pc' = "process" /\ request' = request
    BY <1>4 DEF LoadCommand
  <2>2. /\ ep.bank = ep.moved /\ ep.moved > 0
        /\ ep.moved <= request.wLength
        /\ ep.moved = FIXED_CONTROL_ENDPOINT_SIZE \/ ep.moved = request.wLength
    <3>1. ep.moved % FIXED_CONTROL_ENDPOINT_SIZE = 0 \/ ep.moved = request.wLength
      BY <2>1 DEF BankFill, DownloadStages
    <3>2. ep.moved <= request.wLength
      BY <2>1 DEF BankFill, DownloadStages
    <3>3. request.wLength - FIXED_CONTROL_ENDPOINT_SIZE <= 0
      BY <2>1 DEF OnePacket, Firmware
    <3>5. \/ ep.moved = FIXED_CONTROL_ENDPOINT_SIZE \/ ep.moved = request.wLength
      <4>1. CASE ep.moved % FIXED_CONTROL_ENDPOINT_SIZE = 0
        <5>1. ep.moved > 0
          BY <2>1 DEF BeforeHeader
        <5>2. /\ FIXED_CONTROL_ENDPOINT_SIZE \in Nat /\ FIXED_CONTROL_ENDPOINT_SIZE > 0
              /\ ep.moved <= FIXED_CONTROL_ENDPOINT_SIZE
          BY <1>0, <3>2, <3>3, DFUConstants DEF HeaderSize
        <5>3. ep.moved < FIXED_CONTROL_ENDPOINT_SIZE
                => ep.moved % FIXED_CONTROL_ENDPOINT_SIZE = ep.moved
          BY <1>0, <5>2
        <5> QED
          BY <1>0, <4>1, <5>1, <5>2, <5>3
      <4> QED
        BY <3>1, <4>1
    <3> QED
      BY <2>1, <3>2, <3>5 DEF BeforeHeader
  <2>3. ep.moved = request.wLength /\ ep.bank <= FIXED_CONTROL_ENDPOINT_SIZE
    <3>1. request.wLength - FIXED_CONTROL_ENDPOINT_SIZE <= 0
      BY <2>1 DEF OnePacket, Firmware
    <3> QED
      BY <1>0, <2>2, <3>1, Sizes
  <2>4. ep'.moved = request'.wLength /\ ep'.bank <= DFU_FILLER_BYTES_SIZE
    BY <1>0, <1>4, <2>1, <2>2, <2>3, HeaderRead
  <2> QED
    BY <2>1, <2>4 DEF ShortServed, FirmwareStages, FlashStages
<1>5. CASE /\ Loaded /\ UNCHANGED <<SentCommand, request, ep>>
           /\ pc \in {"process", "erase"} /\ pc' \in {"firmware", "erase"}
  BY <1>5 DEF ShortServed, FirmwareStages, FlashStages
<1>6. CASE Loaded /\ WriteFirmware
  <2>1. /\ UNCHANGED request \/ pc' = "idle"
    BY <1>6
    DEF WriteFirmware, FirmwareStage, DiscardFillerBytes, DiscardGivenUp, AlignFirmware,
        StartWriting, FetchPacket, WriteFlashWord, CommitPage, StartNextPage,
        FlashWritten, WriteEepromByte, EepromWritten, FirmwareDone, Return
  <2>2. UNCHANGED request /\ OnePacket(request)
    BY <2>1 DEF Loaded, FirmwareStages
  <2>3. /\ ep.moved = request.wLength
        /\ pc = "firmware" => ep.bank <= DFU_FILLER_BYTES_SIZE
        /\ pc = "filler" => ep.bank <= loop.remaining
        /\ pc \in FirmwareStages \ {"filler"} => ep.bank = 0
        /\ pc \in FlashStages => pc = "flash" /\ loop.words = 0 /\ loop.pageStart = Start
    BY <1>6, <2>2 DEF ShortServed
  <2>4. CASE FirmwareStage
    <3>1. /\ pc = "firmware" /\ pc' = "filler" /\ loop'.remaining = DFU_FILLER_BYTES_SIZE
          /\ ep' = ep
      BY <1>0, <2>4 DEF FirmwareStage, Enter, Return, Loaded, FirmwareStages, Locals
    <3> QED
      BY <2>2, <2>3, <3>1 DEF ShortServed, FirmwareStages, FlashStages
  <2>5. CASE DiscardFillerBytes \/ DiscardGivenUp
    <3>1. pc' = pc /\ pc \in {"filler", "align", "suffix"} /\ ep'.moved = ep.moved
      BY <1>0, <2>5 DEF DiscardFillerBytes, DiscardGivenUp, ClearPacket, Consume, Packet
    <3>2. ep'.bank = 0 /\ ep'.bank <= loop'.remaining
      <4>1. CASE ep.bank = 0
        <5>1. ep'.bank = 0 /\ loop' \in Locals
          BY <1>0, <2>5, <4>1
          DEF DiscardFillerBytes, DiscardGivenUp, ClearPacket, Packet, TypeOK, StepTypeOK
        <5> QED
          BY <5>1 DEF Locals
      <4>2. CASE ep.bank # 0
        <5>1. pc = "filler" /\ ep.bank <= loop.remaining
          BY <2>3, <3>1, <4>2 DEF FirmwareStages
        <5>2. Ready
          BY <1>0, <4>2, <5>1 DEF BankFill, DownloadStages, FirmwareStages, Ready
        <5>3. /\ Consume(loop.remaining)
              /\ loop' = [loop EXCEPT !.remaining = IF @ > ep.bank THEN @ - ep.bank ELSE 0]
          BY <2>5, <4>2, <5>2 DEF DiscardFillerBytes, DiscardGivenUp
        <5>4. ep'.bank = 0
          BY <1>0, <5>1, <5>3 DEF Consume, Packet
        <5>5. loop'.remaining \in Nat
          BY DEF TypeOK, StepTypeOK, Locals
        <5> QED
          BY <5>4, <5>5
      <4> QED
        BY <4>1, <4>2
    <3> QED
      BY <2>2, <2>3, <3>1, <3>2 DEF ShortServed, FirmwareStages, FlashStages
  <2>6. CASE AlignFirmware \/ EepromWritten \/ FlashWritten
    <3>1. /\ ep' = ep /\ pc' \in {"align", "suffix"} /\ pc \in FirmwareStages
          /\ pc = "filler" => loop.remaining = 0
      BY <2>6 DEF AlignFirmware, EepromWritten, FlashWritten, Enter, FirmwareStages
    <3>2. ep'.bank = 0
      BY <1>0, <2>3, <3>1
    <3> QED
      BY <2>2, <2>3, <3>1, <3>2 DEF ShortServed, FirmwareStages, FlashStages
  <2>7. CASE StartWriting
    <3>1. /\ ep' = ep /\ pc = "align" /\ pc' \in {"flash", "eeprom"}
          /\ loop'.words = loop.words
          /\ pc' = "flash" => loop'.pageStart = Start
      BY <1>0, <2>7 DEF StartWriting, Enter, Start, Locals
    <3>2. loop.words = 0 /\ ep.bank = 0
      BY <2>3, <3>1 DEF WordsReset, FlashStages, FirmwareStages
    <3>3. Start' = Start
      BY <2>7 DEF StartWriting, rangeVars, Start, Long
    <3> QED
      BY <2>2, <2>3, <3>1, <3>2, <3>3 DEF ShortServed, FirmwareStages, FlashStages
  <2>8. CASE FetchPacket
    <3>1. /\ ep'.bank = ep.bank /\ ep'.moved = ep.moved /\ pc' = pc /\ loop' = loop
          /\ Start' = Start /\ pc \in {"flash", "eeprom"}
      BY <1>0, <2>8 DEF FetchPacket, ClearPacket, Packet, stepVars, rangeVars, Start, Long
    <3> QED
      BY <2>2, <2>3, <3>1 DEF ShortServed, FirmwareStages, FlashStages
  <2>9. CASE WriteFlashWord \/ WriteEepromByte \/ CommitPage \/ StartNextPage
    BY <2>3, <2>9 DEF WriteFlashWord, WriteEepromByte, CommitPage, StartNextPage,
                      FirmwareStages, FlashStages
  <2>10. CASE FirmwareDone
    BY <2>10 DEF FirmwareDone, Return, Loaded, FirmwareStages
  <2> QED
    BY <1>6, <2>4, <2>5, <2>6, <2>7, <2>8, <2>9, <2>10 DEF WriteFirmware
<1> QED
  BY <1>1, <1>2, <1>3, <1>4, <1>5, <1>6, LoadedSteps

(* A long request is a program command, and the range in the registers is   *)
(* its own when the first packet has been read.                             *)
LEMMA LongRequest ==
  ASSUME ProgramsOnly, Served, ProgramServed, Loaded, ~OnePacket(request)
  PROVE  /\ SentCommand.Command = COMMAND_PROG_START /\ SentCommand.Data = request.Data
         /\ SentCommand.Data[0] \in {0, 1}
         /\ AskedStart = First(request) /\ AskedEnd = Last(request)
<1>1. request \in Requests /\ request.bRequest = DFU_REQ_DNLOAD
  BY DEF Served, DownloadStages, Loaded
<1>2. SentCommand.Command = request.Command /\ SentCommand.Data = request.Data
  BY DEF ProgramServed
<1> QED
  BY <1>1, <1>2 DEF ProgramsOnly, Programs, AskedStart, AskedEnd, First, Last

LEMMA ProgramServedStep ==
  ASSUME DeviceSizes, ProgramsOnly, TypeOK, ExitOrder', Served, BankFill,
         BeforeHeader, Aimed, ProgramServed, [Next]_vars
  PROVE  ProgramServed'
<1> SUFFICES ASSUME Loaded', ~OnePacket(request') PROVE ProgramServed'
  BY DEF ProgramServed, OnePacket, Firmware
<1>0. /\ ep \in Packet /\ ep.bank \in Nat /\ ep.moved \in Nat
      /\ ep.turn \in {"host", "device"} /\ DFU_FILLER_BYTES_SIZE \in Nat
      /\ loop \in Locals /\ loop.remaining \in Nat /\ request.wLength \in Nat
      /\ FIXED_CONTROL_ENDPOINT_SIZE \in Nat /\ FIXED_CONTROL_ENDPOINT_SIZE > 0
  BY PacketTypes, Sizes DEF TypeOK, StepTypeOK, Locals
<1>1. CASE Loaded /\ UNCHANGED <<downloadVars, ep>>
  BY <1>1 DEF downloadVars, stepVars, ProgramServed, OnePacket, Firmware, First
<1>2. CASE Loaded /\ UNCHANGED downloadVars /\ HostSendsPacket
  <2>1. /\ pc' = pc /\ loop' = loop /\ request' = request /\ SentCommand' = SentCommand
        /\ ep.turn = "host" /\ pc \in OutStages
    BY <1>0, <1>2 DEF downloadVars, stepVars, HostSendsPacket, Ready
  <2>2. ~OnePacket(request)
    BY <2>1
  <2>3. pc \notin {"process", "erase", "firmware", "filler"}
    BY <1>2, <2>1, <2>2 DEF ProgramServed, FirstPacket, OutStages
  <2>4. ~(pc = "align" /\ First(request) % FIXED_CONTROL_ENDPOINT_SIZE = 0)
    BY <1>2, <2>1, <2>2 DEF ProgramServed, FirstPacket
  <2> QED
    BY <1>2, <2>1, <2>2, <2>3, <2>4 DEF ProgramServed
<1>3. CASE pc' = "firmware" /\ (FinishExit \/ \E r \in Requests : Download(r))
  <2>1. request'.wLength = SentCommand'.DataSize
        /\ ~(SentCommand'.DataSize > 0) /\ request'.wLength \in Nat
    <3>1. CASE FinishExit
      BY <1>0, <1>3, <3>1 DEF FinishExit, Goto, BeforeHeader, busVars
    <3>2. ASSUME NEW r \in Requests, Download(r)
          PROVE  request'.wLength = SentCommand'.DataSize
                   /\ ~(SentCommand'.DataSize > 0) /\ request'.wLength \in Nat
      <4>1. r.wLength \in Nat
        BY DFUConstants, WordNatural DEF Request
      <4> QED
        BY <1>3, <3>2, <4>1 DEF Download, Serve, Setup, TypeOK, CommandTypeOK
    <3> QED
      BY <1>3, <3>1, <3>2
  <2>2. request'.wLength - FIXED_CONTROL_ENDPOINT_SIZE <= 0
    BY <1>0, <2>1
  <2> QED
    BY <2>2 DEF OnePacket, Firmware
<1>4. CASE LoadCommand
  <2>1. /\ pc = "command" /\ Ready /\ pc' = "process" /\ request' = request
    BY <1>4 DEF LoadCommand
  <2>2. /\ ep.bank = FIXED_CONTROL_ENDPOINT_SIZE /\ ep.moved = ep.bank
    BY <2>1 DEF BeforeHeader
  <2>3. /\ ep' = FirstPacket(DFU_FILLER_BYTES_SIZE)
        /\ SentCommand'.Command = request.Command /\ SentCommand'.Data = request.Data
    BY <1>0, <1>4, <2>2, HeaderRead
  <2> QED
    BY <2>1, <2>3 DEF ProgramServed
<1>5. CASE /\ Loaded /\ UNCHANGED <<SentCommand, request, ep>>
           /\ pc \in {"process", "erase"} /\ pc' \in {"firmware", "erase"}
  BY <1>5 DEF ProgramServed, OnePacket, Firmware
<1>6. CASE Loaded /\ WriteFirmware
  <2>1. UNCHANGED request \/ pc' = "idle"
    BY <1>6
    DEF WriteFirmware, FirmwareStage, DiscardFillerBytes, DiscardGivenUp, AlignFirmware,
        StartWriting, FetchPacket, WriteFlashWord, CommitPage, StartNextPage,
        FlashWritten, WriteEepromByte, EepromWritten, FirmwareDone, Return
  <2>2. /\ UNCHANGED <<request, SentCommand>> /\ ~OnePacket(request)
    BY <1>6, <2>1 DEF Loaded, FirmwareStages, WriteFirmware, firmwareFrame
  <2>3. /\ SentCommand'.Command = request'.Command /\ SentCommand'.Data = request'.Data
        /\ pc = "firmware" => ep = FirstPacket(DFU_FILLER_BYTES_SIZE)
        /\ pc = "filler" => ep = FirstPacket(loop.remaining)
        /\ pc = "align" /\ First(request) % FIXED_CONTROL_ENDPOINT_SIZE = 0 =>
             loop.remaining = 0 /\ ep = FirstPacket(0)
    BY <1>6, <2>2 DEF ProgramServed
  <2>4. CASE FirmwareStage
    <3>1. /\ pc = "firmware" /\ pc' = "filler" /\ loop'.remaining = DFU_FILLER_BYTES_SIZE
          /\ ep' = ep
      BY <1>0, <2>4 DEF FirmwareStage, Enter, Return, Loaded, FirmwareStages, Locals
    <3> QED
      BY <2>3, <3>1 DEF ProgramServed
  <2>5. CASE (DiscardFillerBytes \/ DiscardGivenUp) /\ pc = "filler"
    <3>1. /\ ep = FirstPacket(loop.remaining) /\ ep.bank = loop.remaining
          /\ ep.turn = "device" /\ ep.moved = FIXED_CONTROL_ENDPOINT_SIZE
      BY <2>3, <2>5 DEF FirstPacket
    <3>2. DiscardFillerBytes /\ loop.remaining > 0 /\ pc' = "filler"
      BY <2>5, <3>1 DEF DiscardFillerBytes, DiscardGivenUp, Ready
    <3>3. /\ ep' = [ep EXCEPT !.bank = 0] /\ loop' = [loop EXCEPT !.remaining = 0]
      BY <1>0, <3>1, <3>2 DEF DiscardFillerBytes, Consume
    <3>4. ep' = FirstPacket(0) /\ loop'.remaining = 0
      BY <1>0, <3>1, <3>3 DEF FirstPacket, Locals
    <3> QED
      BY <2>3, <3>2, <3>4 DEF ProgramServed
  <2>6. CASE (DiscardFillerBytes \/ DiscardGivenUp) /\ pc # "filler"
    <3>1. pc' = pc /\ pc \in {"align", "suffix"} /\ (loop.remaining > 0 \/ ~Ready)
      BY <2>6 DEF DiscardFillerBytes, DiscardGivenUp
    <3>2. ~(pc = "align" /\ First(request) % FIXED_CONTROL_ENDPOINT_SIZE = 0)
      BY <2>3, <3>1 DEF FirstPacket, Ready
    <3> QED
      BY <2>2, <2>3, <3>1, <3>2 DEF ProgramServed
  <2>7. CASE AlignFirmware
    <3>1. /\ pc = "filler" /\ pc' = "align" /\ loop.remaining = 0 /\ ep' = ep
          /\ loop'.remaining = StartAddr % FIXED_CONTROL_ENDPOINT_SIZE
      BY <1>0, <2>7 DEF AlignFirmware, Enter, Locals
    <3>2. StartAddr = First(request)
      BY <1>6, <2>2, <3>1, LongRequest DEF Aimed, Ahead
    <3> QED
      BY <2>2, <2>3, <3>1, <3>2 DEF ProgramServed
  <2>8. CASE \/ StartWriting \/ FetchPacket \/ WriteFlashWord \/ CommitPage
             \/ StartNextPage \/ FlashWritten \/ WriteEepromByte \/ EepromWritten
             \/ FirmwareDone
    <3>1. pc' \notin {"process", "erase", "firmware", "filler", "align"}
      BY <2>8
      DEF StartWriting, FetchPacket, WriteFlashWord, CommitPage, StartNextPage,
          FlashWritten, WriteEepromByte, EepromWritten, FirmwareDone, Return, Enter, Goto,
          stepVars
    <3> QED
      BY <2>3, <3>1 DEF ProgramServed
  <2> QED
    BY <1>6, <2>4, <2>5, <2>6, <2>7, <2>8 DEF WriteFirmware
<1> QED
  BY <1>1, <1>2, <1>3, <1>4, <1>5, <1>6, LoadedSteps
-----------------------------------------------------------------------------
(* Downloads to flash: which byte of the data stage goes where.             *)

(* What the sizes of packets and pages mean for an address.                 *)
LEMMA Multiples ==
  ASSUME DeviceSizes, TypeOK
  PROVE  /\ Start % SPM_PAGESIZE = StartAddr % SPM_PAGESIZE
         /\ \A a \in Nat : a % SPM_PAGESIZE = 0 => a % FIXED_CONTROL_ENDPOINT_SIZE = 0
         /\ \A a \in Nat : a % FIXED_CONTROL_ENDPOINT_SIZE = 0 => a % 2 = 0
         /\ FIXED_CONTROL_ENDPOINT_SIZE % 2 = 0
<1>1. /\ SPM_PAGESIZE \in Nat /\ SPM_PAGESIZE > 0
      /\ FIXED_CONTROL_ENDPOINT_SIZE \in Nat /\ FIXED_CONTROL_ENDPOINT_SIZE > 0
      /\ StartAddr \in Nat /\ Flash64KBPage \in Nat
  BY FlashGeometry, PacketTypes, WordNatural DEF TypeOK, RangeTypeOK, Byte
<1>2. (65536 * Flash64KBPage) % SPM_PAGESIZE = 0 /\ 65536 * Flash64KBPage \in Nat
  <2> DEFINE segment == 65536
  <2>1. segment \in Nat /\ segment % SPM_PAGESIZE = 0
    BY DEF DeviceSizes
  <2> HIDE DEF segment
  <2>2. (segment * Flash64KBPage) % SPM_PAGESIZE = 0
    BY <1>1, <2>1, MultipleProduct
  <2>3. segment * Flash64KBPage \in Nat
    BY <1>1, <2>1, ProductNatural
  <2> QED
    BY <2>2, <2>3 DEF segment
<1>3. Start % SPM_PAGESIZE = StartAddr % SPM_PAGESIZE
  <2> DEFINE base == 65536 * Flash64KBPage
  <2>1. base % SPM_PAGESIZE = 0 /\ base \in Nat /\ Start = base + StartAddr
    BY <1>2 DEF Start, Long
  <2> HIDE DEF base
  <2> QED
    BY <1>1, <2>1, MultipleSum
<1>4. ASSUME NEW a \in Nat, a % SPM_PAGESIZE = 0
      PROVE  a % FIXED_CONTROL_ENDPOINT_SIZE = 0
  <2>1. SPM_PAGESIZE % FIXED_CONTROL_ENDPOINT_SIZE = 0
    BY DEF DeviceSizes
  <2>2. \A d \in Nat, p \in Nat : d > 0 /\ p > 0 /\ p % d = 0 =>
          \A m \in Nat : m % p = 0 => m % d = 0
    BY MultipleOfMultiple
  <2> QED
    BY <1>1, <1>4, <2>1, <2>2
<1>5. ASSUME NEW a \in Nat, a % FIXED_CONTROL_ENDPOINT_SIZE = 0
      PROVE  a % 2 = 0
  <2> DEFINE two == 2
  <2>1. two \in Nat /\ two > 0 /\ FIXED_CONTROL_ENDPOINT_SIZE % two = 0
    BY DEF DeviceSizes
  <2> HIDE DEF two
  <2>2. a % two = 0
    BY <1>1, <1>5, <2>1, MultipleOfMultiple
  <2> QED
    BY <2>2 DEF two
<1> QED
  BY <1>3, <1>4, <1>5 DEF DeviceSizes

(* The range of a request is one of words, counted in sixteen bits.         *)
LEMMA RequestRange ==
  ASSUME TypeOK
  PROVE  /\ First(request) \in Word /\ First(request) \in Nat
         /\ Last(request) \in Word /\ Last(request) \in Nat
         /\ Announced(request) \in Nat
         /\ First(request) <= Last(request) + 1 =>
              Announced(request) <= Last(request) - First(request) + 1
         /\ request.wLength \in Nat
<1>1. First(request) \in Word /\ Last(request) \in Word /\ request.wLength \in Word
  BY RequestFields, BigEndianType DEF TypeOK, First, Last
<1>2. First(request) \in Nat /\ Last(request) \in Nat /\ request.wLength \in Nat
  BY <1>1, WordNatural
<1> DEFINE f == First(request)
           l == Last(request)
<1>3. f \in Word /\ l \in Word /\ f \in Nat /\ l \in Nat
  BY <1>1, <1>2
<1> HIDE DEF f, l
<1>4. (l - f + 1) % 65536 \in Nat
  BY <1>3
<1>5. f <= l + 1 => (l - f + 1) % 65536 <= l - f + 1
  BY <1>3, RangeBytes
<1> QED
  BY <1>1, <1>2, <1>4, <1>5 DEF f, l, Announced

(* Firmware whose range starts at a packet starts the second packet.        *)
LEMMA StreamPlace ==
  ASSUME DeviceSizes, TypeOK, NEW k \in Nat, request.Command = COMMAND_PROG_START,
         First(request) % FIXED_CONTROL_ENDPOINT_SIZE = 0,
         First(request) + k <= Last(request)
  PROVE  StreamByte(FIXED_CONTROL_ENDPOINT_SIZE + k) =
           IF request.Data[0] = 0 THEN Long(First(request) + k) ELSE First(request) + k
<1> DEFINE f == First(request)
           l == Last(request)
           F == FIXED_CONTROL_ENDPOINT_SIZE
           start == HeaderSize + DFU_FILLER_BYTES_SIZE + (f % F)
           p == F + k
<1>1. f \in Nat /\ l \in Nat /\ F \in Nat /\ f % F = 0 /\ f + k <= l
      /\ HeaderSize + DFU_FILLER_BYTES_SIZE = F
  BY RequestRange, Sizes DEF DeviceSizes
<1>2. start = F
  BY <1>1
<1>3. StreamByte(p) = IF request.Command = COMMAND_PROG_START /\ p >= start
                           /\ f + p - start <= l
                      THEN IF request.Data[0] = 0 THEN Long(f + p - start)
                           ELSE f + p - start
                      ELSE Junk
  BY DEF StreamByte, HostStart, HostEnd, First, Last
<1> HIDE DEF f, l, F, start
<1>4. p >= start /\ f + p - start = f + k
  BY <1>1, <1>2
<1>5. StreamByte(p) = IF request.Data[0] = 0 THEN Long(f + k) ELSE f + k
  BY <1>1, <1>3, <1>4
<1> QED
  BY <1>5 DEF f, l, F

(* The flash loop of a request that starts a page with its firmware.        *)
Aligned ==
  /\ pc \in FlashStages /\ ~OnePacket(request)
  /\ First(request) % SPM_PAGESIZE = 0

(* Such a loop serves a program command for flash, at the range it names.   *)
LEMMA AlignedIs ==
  ASSUME DeviceSizes, FlashHosts, ProgramsOnly, TypeOK, Served, Aimed, ProgramServed,
         IsOneByteCommand(0), Ahead \/ pc \in FlashStages, Loaded, ~OnePacket(request),
         First(request) % SPM_PAGESIZE = 0
  PROVE  /\ Programs(request, 0) /\ SentCommand.Command = COMMAND_PROG_START
         /\ StartAddr = First(request) /\ Start = Long(First(request))
         /\ BytesRemaining = Announced(request)
         /\ Start % SPM_PAGESIZE = 0
         /\ First(request) % FIXED_CONTROL_ENDPOINT_SIZE = 0
         /\ Forward(request) \/ Scanty(request)
<1>1. /\ SentCommand.Command = COMMAND_PROG_START /\ SentCommand.Data = request.Data
      /\ SentCommand.Command = request.Command
      /\ AskedStart = First(request) /\ AskedEnd = Last(request)
  BY LongRequest DEF ProgramServed
<1>2. SentCommand.Data[0] = 0
  BY DEF IsOneByteCommand
<1>3. Programs(request, 0) /\ ~Programs(request, 1)
  BY <1>1, <1>2 DEF Programs
<1>4. StartAddr = First(request) /\ EndAddr = Last(request)
  BY <1>1, <1>2 DEF Aimed
<1>5. request \in Requests /\ request.bRequest = DFU_REQ_DNLOAD
  BY DEF Served, DownloadStages, Loaded
<1>6. Forward(request) \/ Scanty(request)
  BY <1>3, <1>5 DEF FlashHosts, FlashDownload
<1>7. First(request) \in Nat
  BY RequestRange
<1> QED
  BY <1>1, <1>3, <1>4, <1>6, <1>7, Multiples DEF Start, BytesRemaining, Announced

LEMMA FlashHostsProgram == FlashHosts => ProgramsOnly
  BY DEF FlashHosts, FlashDownload, ProgramsOnly

LEMMA EepromHostsProgram == EepromHosts => ProgramsOnly
  BY DEF EepromHosts, EepromDownload, ProgramsOnly

(* The range and the request such a loop goes through.                      *)
InPlace ==
  /\ Programs(request, 0) /\ SentCommand.Command = COMMAND_PROG_START
  /\ StartAddr = First(request) /\ Start = Long(First(request))
  /\ BytesRemaining = Announced(request)
  /\ Start % SPM_PAGESIZE = 0
  /\ First(request) % FIXED_CONTROL_ENDPOINT_SIZE = 0
  /\ Forward(request) \/ Scanty(request)

LEMMA AlignedInPlace ==
  ASSUME DeviceSizes, FlashHosts, TypeOK, Served, Aimed, ProgramServed, FlashLoop, Aligned
  PROVE  InPlace
<1>1. Loaded /\ ~(pc \in {"process"})
  BY DEF Aligned, FlashStages, FirmwareStages, Loaded
<1>2. IsOneByteCommand(0) /\ pc \in FlashStages
  BY DEF FlashLoop, Aligned
<1> QED
  BY <1>1, <1>2, AlignedIs, FlashHostsProgram DEF Aligned, InPlace

(* The way into an aligned flash loop, and through it.                      *)
LEMMA AlignedEntered ==
  ASSUME DeviceSizes, FlashHosts, TypeOK, Served, Aimed, ProgramServed, FlashLoop,
         [Next]_vars, Aligned'
  PROVE  /\ UNCHANGED request /\ Start' = Start /\ InPlace /\ ~OnePacket(request)
         /\ \/ /\ Aligned /\ UNCHANGED downloadVars
               /\ UNCHANGED ep \/ HostSendsPacket \/ ClearPacket
            \/ /\ StartWriting /\ pc = "align" /\ pc' = "flash" /\ ep' = FirstPacket(0)
               /\ loop'.remaining = BytesRemaining \div 2 /\ loop'.cursor = Start
               /\ loop'.pageStart = Start /\ loop'.words = loop.words
            \/ Aligned /\ (WriteFlashWord \/ CommitPage \/ StartNextPage)
<1>1. pc' \in FlashStages /\ ~OnePacket(request')
        /\ First(request') % SPM_PAGESIZE = 0
  BY DEF Aligned, OnePacket, Firmware, First
<1>2. UNCHANGED <<request, SentCommand, rangeVars>>
  BY <1>1, FlashEntered
  DEF downloadVars, WriteFirmware, firmwareFrame, StartWriting, WriteFlashWord,
      CommitPage, StartNextPage
<1>3. Start' = Start
  BY <1>2, SameRange
<1>4. CASE pc \in FlashStages
  <2>1. Aligned
    BY <1>1, <1>2, <1>4 DEF Aligned
  <2>2. ~StartWriting
    BY <1>4 DEF StartWriting, FlashStages
  <2> QED
    BY <1>1, <1>2, <1>3, <2>1, <2>2, FlashEntered, AlignedInPlace
<1>5. CASE pc \notin FlashStages
  <2>1. StartWriting /\ pc = "align"
    BY <1>1, <1>5, FlashEntered
    DEF StartWriting, WriteFlashWord, CommitPage, StartNextPage, FlashStages
  <2>2. Ahead /\ Loaded
    BY <2>1 DEF Ahead, Loaded, FirmwareStages
  <2>3. IsOneByteCommand(0) /\ UNCHANGED ep
    BY <1>1, <2>1 DEF StartWriting, Enter, FlashStages
  <2>4. InPlace
    BY <1>1, <1>2, <2>2, <2>3, AlignedIs, FlashHostsProgram DEF InPlace
  <2>5. ep = FirstPacket(0)
    BY <1>1, <1>2, <2>1, <2>2, <2>4 DEF ProgramServed, InPlace
  <2>6. loop \in Locals
    BY DEF TypeOK, StepTypeOK
  <2>7. loop' = [loop EXCEPT !.remaining = BytesRemaining \div 2,
                             !.cursor = Start, !.pageStart = Start] /\ pc' = "flash"
    BY <2>1, <2>3 DEF StartWriting, Start
  <2> HIDE DEF BytesRemaining, Start
  <2>8. /\ loop'.remaining = BytesRemaining \div 2 /\ loop'.cursor = Start
        /\ loop'.pageStart = Start /\ loop'.words = loop.words
    BY <2>6, <2>7 DEF Locals
  <2> QED
    BY <1>1, <1>2, <1>3, <2>1, <2>3, <2>4, <2>5, <2>7, <2>8
<1> QED
  BY <1>4, <1>5

(* The next byte of the bank is the one for the cursor.                     *)
FlashPosition ==
  Aligned => Position = FIXED_CONTROL_ENDPOINT_SIZE + loop.cursor - Start

(* There is a whole word in the bank, or nothing.                           *)
LEMMA WholeWords ==
  ASSUME DeviceSizes, FlashHosts, TypeOK, Served, Aimed, ProgramServed, FlashLoop,
         BankFill, Aligned, FlashPosition, pc = "flash", loop.remaining > 0, ep.bank > 0
  PROVE  ep.bank > 1
<1> DEFINE half == BytesRemaining \div 2
           F == FIXED_CONTROL_ENDPOINT_SIZE
           k == half - loop.remaining
           s == Start
           w == request.wLength
           A == Announced(request)
<1>1. /\ s \in Nat /\ half \in Nat /\ loop.remaining \in Nat /\ loop.cursor \in Nat
      /\ F \in Nat /\ w \in Nat /\ A \in Nat /\ ep.bank \in Nat /\ ep.moved \in Nat
  BY StartType, PacketTypes, RequestRange
<1>2. InPlace
  BY AlignedInPlace
<1>3. /\ loop.cursor + 2 * loop.remaining = s + 2 * half /\ loop.cursor >= s
  <2>1. /\ loop.cursor = loop.pageStart + 2 * loop.words /\ loop.pageStart >= s
        /\ loop.cursor + 2 * loop.remaining = s + 2 * half
    BY DEF FlashLoop, Aligned
  <2>2. loop.pageStart \in Nat /\ loop.words \in Nat
    BY StartType
  <2> HIDE DEF s, half
  <2> QED
    BY <1>1, <2>1, <2>2
<1>4. ep.moved - ep.bank = F + loop.cursor - s
  BY DEF FlashPosition, Position
<1>5. ep.moved % F = 0 \/ ep.moved = w
  BY DEF BankFill, Aligned, FlashStages, DownloadStages, FirmwareStages
<1>6. /\ \A a \in Nat : a % F = 0 => a % 2 = 0
      /\ F % 2 = 0
  BY Multiples
<1>7. w % 2 = 0 \/ w - F >= A
  BY <1>2 DEF InPlace, Forward, Scanty, Firmware
<1>8. 2 * half <= A
  <2>1. \A n \in Nat : 2 * (n \div 2) <= n
    OBVIOUS
  <2>2. half = A \div 2
    BY <1>2 DEF InPlace
  <2> QED
    BY <1>1, <2>1, <2>2
<1> HIDE DEF s, half, F, w, A
<1>9. k \in Nat /\ loop.cursor - s = 2 * k /\ k < half
  BY <1>1, <1>3
<1> HIDE DEF k
<1>10. ep.moved - ep.bank = F + 2 * k
  BY <1>1, <1>4, <1>9
<1>11. (F + 2 * k) % 2 = 0
  BY <1>1, <1>6, <1>9
<1>12. CASE ep.moved % 2 = 0
  BY <1>1, <1>9, <1>10, <1>11, <1>12
<1>13. CASE ep.moved = w /\ w - F >= A
  BY <1>1, <1>8, <1>9, <1>10, <1>13
<1> QED
  BY <1>1, <1>5, <1>6, <1>7, <1>12, <1>13

(* What the word that is written holds, and where the loop goes from it.    *)
LEMMA WordWritten ==
  ASSUME TypeOK, WriteFlashWord
  PROVE  /\ pc = "flash" /\ loop.remaining > 0 /\ ep.bank > 0 /\ ep.turn = "device"
         /\ loop'.remaining = loop.remaining - 1 /\ loop'.cursor = loop.cursor + 2
         /\ loop'.words = loop.words + 1 /\ loop'.pageStart = loop.pageStart
         /\ pc' = IF CommitDue(loop.words + 1, loop.remaining - 1) THEN "commit" ELSE "flash"
         /\ ep'.moved = ep.moved
         /\ ep.bank > 1 => ep'.bank = ep.bank - 2
<1>1. loop \in Locals /\ ep \in Packet
  BY DEF TypeOK, StepTypeOK, BusTypeOK
<1>2. /\ loop' = [loop EXCEPT !.remaining = @ - 1, !.cursor = @ + 2, !.words = @ + 1]
      /\ ep' = [ep EXCEPT !.bank = IF 2 < ep.bank THEN ep.bank - 2 ELSE 0]
  BY DEF WriteFlashWord, Consume
<1>3. /\ ep'.moved = ep.moved /\ ep'.bank = IF 2 < ep.bank THEN ep.bank - 2 ELSE 0
  BY <1>1, <1>2 DEF Packet
<1>4. ep.bank > 1 => ep'.bank = ep.bank - 2
  BY <1>1, <1>3 DEF Packet
<1>5. /\ loop'.remaining = loop.remaining - 1 /\ loop'.cursor = loop.cursor + 2
      /\ loop'.words = loop.words + 1 /\ loop'.pageStart = loop.pageStart
  BY <1>1, <1>2 DEF Locals
<1> QED
  BY <1>3, <1>4, <1>5 DEF WriteFlashWord, Ready

LEMMA FlashPositionStep ==
  ASSUME DeviceSizes, FlashHosts, TypeOK, Served, Aimed, ProgramServed, FlashLoop,
         BankFill, FlashPosition, [Next]_vars
  PROVE  FlashPosition'
<1> SUFFICES ASSUME Aligned'
             PROVE  ep'.moved - ep'.bank = FIXED_CONTROL_ENDPOINT_SIZE + loop'.cursor - Start'
  BY DEF FlashPosition, Position
<1>1. /\ Start \in Nat /\ loop.cursor \in Nat /\ FIXED_CONTROL_ENDPOINT_SIZE \in Nat
      /\ ep.bank \in Nat /\ ep.moved \in Nat /\ ep \in Packet
  BY StartType, PacketTypes
<1>2. Start' = Start
  BY AlignedEntered
<1>3. Aligned => ep.moved - ep.bank = FIXED_CONTROL_ENDPOINT_SIZE + loop.cursor - Start
  BY DEF FlashPosition, Position
<1>4. CASE Aligned /\ loop'.cursor = loop.cursor /\ (UNCHANGED ep \/ ClearPacket)
  <2>1. ep'.moved = ep.moved /\ ep'.bank = ep.bank
    BY <1>1, <1>4 DEF ClearPacket, Packet
  <2> QED
    BY <1>2, <1>3, <1>4, <2>1
<1>5. CASE Aligned /\ UNCHANGED downloadVars /\ HostSendsPacket
  <2>1. PICK size \in Nat :
          /\ ep.turn = "host"
          /\ ep' = [turn |-> "device", bank |-> size, moved |-> ep.moved + size]
    BY <1>5, PacketSent
  <2>2. ep.bank = 0 /\ loop' = loop
    BY <1>5, <2>1
    DEF BankFill, Aligned, FlashStages, DownloadStages, FirmwareStages, downloadVars, stepVars
  <2>3. ep'.moved = ep.moved + size /\ ep'.bank = size
    BY <2>1
  <2>4. ep'.moved - ep'.bank = ep.moved - ep.bank
    BY <1>1, <2>2, <2>3
  <2> QED
    BY <1>2, <1>3, <1>5, <2>2, <2>4
<1>6. CASE ep' = FirstPacket(0) /\ loop'.cursor = Start
  BY <1>1, <1>2, <1>6 DEF FirstPacket
<1>7. CASE Aligned /\ WriteFlashWord
  <2>1. ep.bank > 1
    BY <1>7, WordWritten, WholeWords
  <2>2. ep'.moved = ep.moved /\ ep'.bank = ep.bank - 2 /\ loop'.cursor = loop.cursor + 2
    BY <1>7, <2>1, WordWritten
  <2> QED
    BY <1>1, <1>2, <1>3, <1>7, <2>2
<1>8. CASE Aligned /\ (CommitPage \/ StartNextPage)
  <2>1. ep' = ep /\ loop'.cursor = loop.cursor
    BY <1>8 DEF CommitPage, StartNextPage, Goto, TypeOK, StepTypeOK, Locals
  <2> QED
    BY <1>4, <1>8, <2>1
<1>9. UNCHANGED downloadVars => loop'.cursor = loop.cursor
  BY DEF downloadVars, stepVars
<1> QED
  BY <1>4, <1>5, <1>6, <1>7, <1>8, <1>9, AlignedEntered

LEMMA LongPlus ==
  ASSUME TypeOK, NEW a \in Nat, NEW k \in Nat
  PROVE  Long(a + k) = Long(a) + k /\ Long(a) \in Nat
<1>1. Flash64KBPage \in Nat
  BY DEF TypeOK, RangeTypeOK, Byte
<1> QED
  BY <1>1 DEF Long

(* Counting in words, the loop has come so far in the range.                *)
LEMMA WordsCounted ==
  ASSUME TypeOK, FlashLoop, pc \in FlashStages
  PROVE  \E k \in Nat :
           /\ loop.cursor = Start + 2 * k
           /\ k + loop.remaining = BytesRemaining \div 2
           /\ 2 * (k + loop.remaining) <= BytesRemaining
<1> DEFINE b == BytesRemaining
           half == b \div 2
           k == half - loop.remaining
           s == Start
<1>1. /\ s \in Nat /\ b \in Nat /\ half \in Nat /\ loop.remaining \in Nat
      /\ loop.cursor \in Nat /\ loop.pageStart \in Nat /\ loop.words \in Nat
  BY StartType
<1>2. /\ loop.cursor = loop.pageStart + 2 * loop.words /\ loop.pageStart >= s
      /\ loop.cursor + 2 * loop.remaining = s + 2 * half
  BY DEF FlashLoop
<1> HIDE DEF s, b
<1>3. 2 * half <= b
  BY <1>1
<1> HIDE DEF half
<1>4. k \in Nat /\ loop.cursor = s + 2 * k /\ k + loop.remaining = half
  BY <1>1, <1>2
<1> HIDE DEF k
<1> QED
  BY <1>3, <1>4 DEF half, s, b

(* The loop writes the bytes the host sent for the address it is at.        *)
LEMMA WordRead ==
  ASSUME DeviceSizes, FlashHosts, TypeOK, Served, Aimed, ProgramServed, FlashLoop,
         BankFill, Aligned, FlashPosition, Forward(request), WriteFlashWord
  PROVE  Read8(0) = loop.cursor /\ Read8(1) = loop.cursor + 1
<1>1. pc = "flash" /\ loop.remaining > 0 /\ ep.bank > 0
  BY WordWritten
<1>2. ep.bank > 1 /\ ep.bank \in Nat
  BY <1>1, WholeWords, PacketTypes
<1>3. PICK k \in Nat : /\ loop.cursor = Start + 2 * k
                       /\ 2 * (k + loop.remaining) <= BytesRemaining
  BY WordsCounted DEF Aligned
<1> DEFINE f == First(request)
           l == Last(request)
           A == Announced(request)
           F == FIXED_CONTROL_ENDPOINT_SIZE
           s == Start
<1>4. /\ f \in Nat /\ l \in Nat /\ A \in Nat /\ F \in Nat /\ s \in Nat
      /\ loop.remaining \in Nat
      /\ f <= l + 1 => A <= l - f + 1
  BY RequestRange, PacketTypes, StartType
<1>5. /\ Programs(request, 0) /\ s = Long(f) /\ BytesRemaining = A
      /\ f % F = 0
  BY AlignedInPlace DEF InPlace
<1>6. f <= l + 1
  BY DEF Forward
<1>7. Position = F + loop.cursor - s
  BY DEF FlashPosition
<1> HIDE DEF f, l, A, F, s
<1>8. f + 2 * k + 1 <= l /\ f + (2 * k) <= l /\ 2 * k \in Nat /\ 2 * k + 1 \in Nat
  BY <1>1, <1>3, <1>4, <1>5, <1>6
<1>9. Position + 0 = F + 2 * k /\ Position + 1 = F + (2 * k + 1)
  BY <1>3, <1>4, <1>7 DEF s
<1>10. StreamByte(F + 2 * k) = Long(f + 2 * k)
  BY <1>5, <1>8, StreamPlace DEF f, l, F, Programs
<1>11. StreamByte(F + (2 * k + 1)) = Long(f + (2 * k + 1))
  <2> DEFINE j == 2 * k + 1
  <2>1. j \in Nat /\ f + j <= l
    BY <1>4, <1>8
  <2> HIDE DEF j
  <2>2. StreamByte(F + j) = Long(f + j)
    BY <1>5, <2>1, StreamPlace DEF f, l, F, Programs
  <2> QED
    BY <2>2 DEF j
<1>12. Long(f + 2 * k) = s + 2 * k
  BY <1>4, <1>5, <1>8, LongPlus
<1>13. Long(f + (2 * k + 1)) = s + (2 * k + 1)
  BY <1>4, <1>5, <1>8, LongPlus
<1>14. Read8(0) = StreamByte(Position + 0) /\ Read8(1) = StreamByte(Position + 1)
  BY <1>2 DEF Read8
<1> QED
  BY <1>3, <1>4, <1>8, <1>9, <1>10, <1>11, <1>12, <1>13, <1>14 DEF s

(* The page that is being filled is blank, and the buffer holds its first   *)
(* words.                                                                   *)
Filled(page, words) ==
  /\ PageBlank(page)
  /\ \A i \in PageOffsets : pageBuffer[i] = IF i < 2 * words THEN page + i ELSE Blank
Filling ==
  Aligned /\ Forward(request) /\ (pc = "commit" \/ (pc = "flash" /\ loop.remaining > 0))
    /\ IsPageAddressValid(loop.pageStart)
  => Filled(loop.pageStart, loop.words)

(* The slot of the page buffer that a word goes to.                         *)
LEMMA SlotOf ==
  ASSUME NEW page \in Nat, page % SPM_PAGESIZE = 0, NEW w \in Nat, 2 * w < SPM_PAGESIZE
  PROVE  /\ ((page + 2 * w) % SPM_PAGESIZE) - ((page + 2 * w) % 2) = 2 * w
         /\ 2 * w \in PageOffsets /\ 2 * w + 1 \in PageOffsets
<1> DEFINE P == SPM_PAGESIZE
           c == 2 * w
<1>1. P \in Nat /\ P > 0 /\ P % 2 = 0 /\ c \in Nat /\ c < P /\ c % 2 = 0
  BY FlashGeometry
<1> HIDE DEF P, c
<1>2. (page + c) % P = c % P /\ c % P = c
  BY <1>1, MultipleSum DEF P
<1>3. page % 2 = 0
  <2> DEFINE two == 2
  <2>1. two \in Nat /\ two > 0 /\ P % two = 0 /\ page % P = 0
    BY <1>1 DEF P
  <2> HIDE DEF two
  <2>2. page % two = 0
    BY <1>1, <2>1, MultipleOfMultiple
  <2> QED
    BY <2>2 DEF two
<1>4. (page + c) % 2 = 0
  BY <1>1, <1>3
<1>5. c + 1 < P
  BY <1>1
<1>6. ((page + c) % P) - ((page + c) % 2) = c
  BY <1>1, <1>2, <1>4
<1>7. 2 * w \in PageOffsets /\ 2 * w + 1 \in PageOffsets
  BY <1>1, <1>5 DEF PageOffsets, P, c
<1> QED
  BY <1>6, <1>7 DEF P, c

(* One more word of the page is in the buffer.                              *)
LEMMA WordFilled ==
  ASSUME TypeOK, NEW page \in Nat, page % SPM_PAGESIZE = 0, NEW w \in Nat,
         2 * w < SPM_PAGESIZE, Filled(page, w),
         FillWord(page + 2 * w, page + 2 * w, page + 2 * w + 1)
  PROVE  /\ flash' = flash
         /\ \A i \in PageOffsets :
              pageBuffer'[i] = IF i < 2 * (w + 1) THEN page + i ELSE Blank
<1> DEFINE slot == ((page + 2 * w) % SPM_PAGESIZE) - ((page + 2 * w) % 2)
<1>1. slot = 2 * w /\ 2 * w \in PageOffsets /\ 2 * w + 1 \in PageOffsets
  BY SlotOf
<1>2. pageBuffer \in [PageOffsets -> Int]
  BY DEF TypeOK, MemoryTypeOK, FlashTypeOK
<1>3. pageBuffer[2 * w] = Blank /\ pageBuffer[2 * w + 1] = Blank
  <2>1. ~(2 * w < 2 * w) /\ ~(2 * w + 1 < 2 * w)
    OBVIOUS
  <2> QED
    BY <1>1, <2>1 DEF Filled
<1>4. /\ flash' = flash
      /\ pageBuffer' = IF pageBuffer[slot] = Blank /\ pageBuffer[slot + 1] = Blank
                       THEN [pageBuffer EXCEPT ![slot] = page + 2 * w,
                                               ![slot + 1] = page + 2 * w + 1]
                       ELSE pageBuffer
  BY DEF FillWord
<1> HIDE DEF slot
<1>5. pageBuffer' = [pageBuffer EXCEPT ![2 * w] = page + 2 * w,
                                       ![2 * w + 1] = page + 2 * w + 1]
  BY <1>1, <1>3, <1>4
<1>6. ASSUME NEW i \in PageOffsets
      PROVE  pageBuffer'[i] = IF i < 2 * (w + 1) THEN page + i ELSE Blank
  <2>1. i \in Nat
    BY FlashGeometry DEF PageOffsets
  <2>2. pageBuffer[i] = IF i < 2 * w THEN page + i ELSE Blank
    BY DEF Filled
  <2>3. pageBuffer'[i] = IF i = 2 * w + 1 THEN page + 2 * w + 1
                         ELSE IF i = 2 * w THEN page + 2 * w ELSE pageBuffer[i]
    BY <1>2, <1>5
  <2> DEFINE v == pageBuffer'[i]
  <2>4. v = IF i = 2 * w + 1 THEN page + 2 * w + 1
            ELSE IF i = 2 * w THEN page + 2 * w
            ELSE IF i < 2 * w THEN page + i ELSE Blank
    BY <2>2, <2>3
  <2> HIDE DEF v
  <2>5. CASE i = 2 * w + 1 \/ i = 2 * w \/ i < 2 * w
    <3>1. i < 2 * (w + 1)
      BY <2>1, <2>5
    <3>2. /\ i = 2 * w + 1 => page + 2 * w + 1 = page + i
          /\ i = 2 * w => page + 2 * w = page + i /\ i # 2 * w + 1
          /\ i < 2 * w => i # 2 * w /\ i # 2 * w + 1
      BY <2>1
    <3>3. v = page + i
      BY <2>4, <2>5, <3>2
    <3> QED
      BY <3>1, <3>3 DEF v
  <2>6. CASE ~(i = 2 * w + 1 \/ i = 2 * w \/ i < 2 * w)
    <3>1. ~(i < 2 * (w + 1))
      BY <2>1, <2>6
    <3>2. v = Blank
      BY <2>4, <2>6
    <3> QED
      BY <3>1, <3>2 DEF v
  <2> QED
    BY <2>5, <2>6
<1> QED
  BY <1>4, <1>6
-----------------------------------------------------------------------------
(* Downloads to flash: the pages that are filled and left behind.           *)

(* A range that ends before it starts runs out of data before a page is     *)
(* full.                                                                    *)
ScantyStays ==
  Aligned /\ ~Forward(request) =>
    pc = "flash" /\ loop.pageStart = Start /\ loop.remaining > 0

(* Whatever the loop has left behind is in place.                           *)
Reached ==
  IF pc = "eraseNext" \/ (pc = "flash" /\ loop.remaining = 0) THEN loop.cursor
  ELSE loop.pageStart
DoneSoFar ==
  Aligned /\ Forward(request) =>
    \A a \in Application : Start <= a /\ a < Reached => flash[a] = a

LEMMA FillingStep ==
  ASSUME DeviceSizes, FlashHosts, TypeOK, Served, Aimed, ProgramServed, FlashLoop,
         WordsReset, BankFill, FlashPosition, FirstPageReady, Filling, [Next]_vars
  PROVE  Filling'
<1> DEFINE FilledAfter(page, words) ==
             /\ \A c \in PageCells(page) : flash'[c] = Blank
             /\ \A i \in PageOffsets :
                  pageBuffer'[i] = IF i < 2 * words THEN page + i ELSE Blank
<1> SUFFICES ASSUME Aligned', Forward(request'), IsPageAddressValid(loop'.pageStart),
                    pc' = "commit" \/ (pc' = "flash" /\ loop'.remaining > 0)
             PROVE  FilledAfter(loop'.pageStart, loop'.words)
  BY DEF Filling, Filled, PageBlank, Forward, Firmware, Announced, First, Last,
         IsPageAddressValid
<1>0. /\ loop.pageStart \in Nat /\ loop.cursor \in Nat /\ loop.words \in Nat
      /\ loop.remaining \in Nat /\ loop \in Locals /\ Start \in Nat
  BY StartType
<1>1. Forward(request) /\ Start' = Start
  BY AlignedEntered
<1>2. CASE Aligned /\ UNCHANGED downloadVars
  <2>1. /\ pc' = pc /\ loop' = loop /\ flash' = flash /\ pageBuffer' = pageBuffer
    BY <1>2 DEF downloadVars, stepVars
  <2>2. Filled(loop.pageStart, loop.words)
    BY <1>1, <1>2, <2>1 DEF Filling
  <2> QED
    BY <2>1, <2>2 DEF Filled, PageBlank
<1>3. CASE StartWriting /\ pc = "align" /\ loop'.pageStart = Start /\ loop'.words = loop.words
  <2>1. InPlace
    BY AlignedEntered
  <2>2. UNCHANGED <<flash, pageBuffer>> /\ IsOneByteCommand(0)
    <3>1. pc' \in FlashStages
      BY DEF Aligned
    <3> QED
      BY <1>3, <3>1 DEF StartWriting, flashVars, Enter, FlashStages
  <2>3. PageBlank(Start) /\ pageBuffer = EmptyBuffer
    BY <1>3, <2>1, <2>2 DEF FirstPageReady, Ahead, InPlace
  <2>4. loop.words = 0
    BY <1>3 DEF WordsReset, FlashStages
  <2>5. \A i \in PageOffsets : ~(i < 2 * 0) /\ pageBuffer[i] = Blank
    BY <2>3, FlashGeometry DEF PageOffsets, EmptyBuffer
  <2> QED
    BY <1>3, <2>2, <2>3, <2>4, <2>5 DEF Filled, PageBlank
<1>4. CASE Aligned /\ WriteFlashWord
  <2>1. /\ pc = "flash" /\ loop.remaining > 0 /\ loop'.words = loop.words + 1
        /\ loop'.pageStart = loop.pageStart
    BY <1>4, WordWritten
  <2>2. /\ loop.cursor = loop.pageStart + 2 * loop.words
        /\ 2 * loop.words < SPM_PAGESIZE
    BY <2>1 DEF FlashLoop, FlashStages
  <2>3. Filled(loop.pageStart, loop.words)
    BY <1>1, <1>4, <2>1 DEF Filling
  <2>4. FillWord(loop.cursor, loop.cursor, loop.cursor + 1)
    BY <1>1, <1>4, WordRead DEF WriteFlashWord
  <2>5. loop.pageStart % SPM_PAGESIZE = 0
    BY <2>1 DEF IsPageAddressValid
  <2>6. /\ flash' = flash
        /\ \A i \in PageOffsets :
             pageBuffer'[i] = IF i < 2 * (loop.words + 1) THEN loop.pageStart + i ELSE Blank
    BY <1>0, <2>2, <2>3, <2>4, <2>5, WordFilled
  <2> QED
    BY <2>1, <2>3, <2>6 DEF Filled, PageBlank
<1>5. CASE Aligned /\ CommitPage
  <2>1. pc' = "flash" => ~(loop.remaining > 0)
    BY <1>5 DEF CommitPage, Goto, MorePages
  <2> QED
    BY <1>5, <2>1 DEF CommitPage, Goto
<1>6. CASE Aligned /\ StartNextPage
  <2>1. loop'.pageStart = loop.cursor /\ loop'.words = 0
    BY <1>0, <1>6 DEF StartNextPage, Locals
  <2>2. /\ flash' = [c \in FlashAddresses |->
                       IF c \in PageCells(loop.cursor) THEN Blank ELSE flash[c]]
        /\ pageBuffer' = EmptyBuffer
    BY <1>6, <2>1 DEF StartNextPage, ErasePage, BufferAfterRwwEnable
  <2>3. \A c \in PageCells(loop.cursor) : c \in FlashAddresses
    BY <1>0, <2>1, ValidPageCells
  <2>4. \A i \in PageOffsets : ~(i < 2 * 0) /\ pageBuffer'[i] = Blank
    BY <2>2, FlashGeometry DEF PageOffsets, EmptyBuffer
  <2> QED
    BY <2>1, <2>2, <2>3, <2>4 DEF Filled, PageBlank
<1> QED
  BY <1>2, <1>3, <1>4, <1>5, <1>6, AlignedEntered

LEMMA ScantyStaysStep ==
  ASSUME DeviceSizes, FlashHosts, TypeOK, Served, Aimed, ProgramServed, FlashLoop,
         BankFill, FlashPosition, ScantyStays, [Next]_vars
  PROVE  ScantyStays'
<1> SUFFICES ASSUME Aligned', ~Forward(request')
             PROVE  pc' = "flash" /\ loop'.pageStart = Start' /\ loop'.remaining > 0
  BY DEF ScantyStays, Forward, Firmware, Announced, First, Last
<1>0. /\ loop.pageStart \in Nat /\ loop.cursor \in Nat /\ loop.words \in Nat
      /\ loop.remaining \in Nat /\ Start \in Nat /\ ep.bank \in Nat /\ ep.moved \in Nat
      /\ request.wLength \in Nat /\ FIXED_CONTROL_ENDPOINT_SIZE \in Nat
      /\ Announced(request) \in Nat
  BY StartType, PacketTypes, RequestRange
<1>1. ~Forward(request) /\ Start' = Start /\ InPlace /\ ~OnePacket(request)
  BY AlignedEntered
<1>2. /\ Firmware(request) < SPM_PAGESIZE
      /\ Firmware(request) < 2 * (BytesRemaining \div 2)
      /\ Firmware(request) \in Int /\ Firmware(request) > 0
  BY <1>0, <1>1 DEF InPlace, Scanty, Firmware, OnePacket
<1>3. CASE Aligned /\ UNCHANGED downloadVars
  BY <1>1, <1>3 DEF ScantyStays, downloadVars, stepVars
<1>4. CASE /\ pc' = "flash" /\ loop'.remaining = BytesRemaining \div 2
           /\ loop'.pageStart = Start
  <2>1. BytesRemaining \div 2 \in Nat
    BY StartType
  <2>2. BytesRemaining \div 2 > 0
    BY <1>2, <2>1
  <2> QED
    BY <1>1, <1>4, <2>2
<1>5. CASE Aligned /\ WriteFlashWord
  <2>1. loop.pageStart = Start /\ pc = "flash" /\ loop.remaining > 0
    BY <1>1, <1>5 DEF ScantyStays
  <2>2. /\ ep.bank > 1 /\ loop'.remaining = loop.remaining - 1
        /\ loop'.pageStart = loop.pageStart
        /\ pc' = IF CommitDue(loop.words + 1, loop.remaining - 1) THEN "commit" ELSE "flash"
    BY <1>5, WordWritten, WholeWords
  <2>3. /\ ep.moved <= request.wLength
        /\ ep.moved - ep.bank = FIXED_CONTROL_ENDPOINT_SIZE + loop.cursor - Start
    BY <1>5 DEF BankFill, FlashPosition, Position, Aligned, FlashStages, DownloadStages,
                FirmwareStages
  <2>4. loop.cursor + 2 - Start <= Firmware(request)
    BY <1>0, <2>2, <2>3 DEF Firmware
  <2>5. /\ loop.cursor = Start + 2 * loop.words
        /\ loop.cursor + 2 * loop.remaining = Start + 2 * (BytesRemaining \div 2)
    BY <2>1 DEF FlashLoop, FlashStages
  <2>6. 2 * (loop.words + 1) < SPM_PAGESIZE
    <3>1. /\ loop.cursor = Start + 2 * loop.words
          /\ Start \in Nat /\ loop.words \in Nat /\ loop.cursor \in Nat
      BY <1>0, <2>5
    <3>2. 2 * (loop.words + 1) = loop.cursor + 2 - Start
      BY <3>1
    <3>3. SPM_PAGESIZE \in Nat
      BY FlashGeometry
    <3> QED
      BY <1>0, <1>2, <2>4, <3>2, <3>3
  <2>7. loop.remaining - 1 > 0
    <3> DEFINE half == BytesRemaining \div 2
    <3>1. half \in Nat /\ loop.cursor + 2 * loop.remaining = Start + 2 * half
      BY <2>5, StartType
    <3>2. Firmware(request) < 2 * half
      BY <1>2
    <3> HIDE DEF half
    <3> QED
      BY <1>0, <1>2, <2>4, <3>1, <3>2
  <2>8. loop.words + 1 # SPM_PAGESIZE \div 2
    BY <1>0, <2>6, HalfPage
  <2>9. pc' = "flash"
    BY <1>0, <2>2, <2>7, <2>8 DEF CommitDue
  <2> QED
    BY <1>1, <2>1, <2>2, <2>7, <2>9
<1>6. ~(Aligned /\ (CommitPage \/ StartNextPage))
  BY <1>1 DEF ScantyStays, CommitPage, StartNextPage
<1> QED
  BY <1>3, <1>4, <1>5, <1>6, AlignedEntered

LEMMA ApplicationCells ==
  ASSUME NEW a \in Application
  PROVE  a \in Nat /\ a < BOOT_START_ADDR /\ a \in FlashAddresses
  BY FlashGeometry DEF Application, FlashAddresses

(* A blank page takes what the buffer holds of it.                          *)
LEMMA PageWritten ==
  ASSUME TypeOK, NEW page \in Nat, NEW words \in Nat, IsPageAddressValid(page),
         Filled(page, words), WritePage(page), NEW a \in FlashAddresses
  PROVE  flash'[a] = IF a \in PageCells(page)
                     THEN IF a < page + 2 * words THEN a ELSE Blank
                     ELSE flash[a]
<1>1. flash'[a] = IF a \in PageCells(page) THEN Program(flash[a], pageBuffer[a - page])
                  ELSE flash[a]
  BY DEF WritePage
<1>2. CASE a \in PageCells(page)
  <2>1. /\ a \in Nat /\ a - page \in PageOffsets /\ page + (a - page) = a
        /\ a - page < 2 * words <=> a < page + 2 * words
    BY <1>2, ValidPageCells
  <2>2. flash[a] = Blank
    BY <1>2 DEF Filled, PageBlank
  <2>3. pageBuffer[a - page] = IF a - page < 2 * words THEN page + (a - page) ELSE Blank
    BY <2>1 DEF Filled
  <2> QED
    BY <1>1, <1>2, <2>1, <2>2, <2>3 DEF Program
<1> QED
  BY <1>1, <1>2

LEMMA DoneSoFarStep ==
  ASSUME DeviceSizes, FlashHosts, TypeOK, Served, Aimed, ProgramServed, FlashLoop,
         Filling, DoneSoFar, [Next]_vars
  PROVE  DoneSoFar'
<1> SUFFICES ASSUME Aligned', Forward(request'), NEW a \in Application,
                    Start' <= a, a < Reached'
             PROVE  flash'[a] = a
  BY DEF DoneSoFar, Forward, Firmware, Announced, First, Last
<1>0. /\ loop.pageStart \in Nat /\ loop.cursor \in Nat /\ loop.words \in Nat
      /\ loop.remaining \in Nat /\ loop \in Locals /\ Start \in Nat
      /\ a \in Nat /\ a < BOOT_START_ADDR /\ a \in FlashAddresses
  BY StartType, ApplicationCells
<1>1. Forward(request) /\ Start' = Start /\ InPlace
  BY AlignedEntered
<1>2. Aligned => (a < Reached => flash[a] = a)
  BY <1>1 DEF DoneSoFar
<1>3. CASE Aligned /\ UNCHANGED downloadVars
  BY <1>2, <1>3 DEF downloadVars, stepVars, Reached
<1>4. CASE pc' = "flash" /\ loop'.cursor = Start /\ loop'.pageStart = Start
  BY <1>0, <1>1, <1>4 DEF Reached
<1>5. CASE Aligned /\ WriteFlashWord
  <2>1. /\ pc = "flash" /\ loop.remaining > 0 /\ loop'.remaining = loop.remaining - 1
        /\ loop'.pageStart = loop.pageStart
        /\ pc' = IF CommitDue(loop.words + 1, loop.remaining - 1) THEN "commit" ELSE "flash"
    BY <1>5, WordWritten
  <2>2. Reached' = loop.pageStart /\ Reached = loop.pageStart
    BY <1>0, <2>1 DEF Reached, CommitDue
  <2>3. flash' = flash
    BY <1>5 DEF WriteFlashWord, FillWord
  <2> QED
    BY <1>2, <1>5, <2>2, <2>3
<1>6. CASE Aligned /\ CommitPage
  <2>1. /\ pc = "commit" /\ loop' = loop /\ WritePage(loop.pageStart)
        /\ Reached = loop.pageStart /\ Reached' = loop.cursor
    BY <1>0, <1>6 DEF CommitPage, Goto, MorePages, Reached
  <2>2. /\ loop.pageStart % SPM_PAGESIZE = 0
        /\ loop.cursor = loop.pageStart + 2 * loop.words
        /\ 2 * loop.words <= SPM_PAGESIZE
    BY <1>1, <2>1 DEF FlashLoop, FlashStages, InPlace
  <2>3. CASE IsPageAddressValid(loop.pageStart)
    <3>1. Filled(loop.pageStart, loop.words)
      BY <1>1, <1>6, <2>1, <2>3 DEF Filling
    <3>2. flash'[a] = IF a \in PageCells(loop.pageStart)
                      THEN IF a < loop.pageStart + 2 * loop.words THEN a ELSE Blank
                      ELSE flash[a]
      BY <1>0, <2>1, <2>3, <3>1, PageWritten
    <3>3. CASE a < loop.pageStart
      <4>1. a \notin PageCells(loop.pageStart)
        BY <1>0, <3>3 DEF PageCells
      <4> QED
        BY <1>2, <1>6, <2>1, <3>2, <3>3, <4>1
    <3>4. CASE a >= loop.pageStart
      <4>1. a < loop.cursor
        BY <2>1
      <4>2. a \in PageCells(loop.pageStart) /\ a < loop.pageStart + 2 * loop.words
        BY <1>0, <2>2, <3>4, <4>1, FlashGeometry DEF PageCells
      <4> QED
        BY <3>2, <4>2
    <3> QED
      BY <1>0, <3>3, <3>4
  <2>4. CASE ~IsPageAddressValid(loop.pageStart)
    <3>1. flash' = flash /\ loop.pageStart >= BOOT_START_ADDR
      BY <1>0, <2>1, <2>2, <2>4, FlashGeometry DEF WritePage, IsPageAddressValid
    <3>2. a < loop.pageStart
      BY <1>0, <3>1, FlashGeometry
    <3> QED
      BY <1>2, <1>6, <2>1, <3>1, <3>2
  <2> QED
    BY <2>3, <2>4
<1>7. CASE Aligned /\ StartNextPage
  <2>1. /\ pc = "eraseNext" /\ pc' = "flash" /\ ErasePage(loop.cursor)
        /\ loop'.pageStart = loop.cursor /\ loop'.remaining = loop.remaining
    BY <1>0, <1>7 DEF StartNextPage, Locals
  <2>2. loop.remaining > 0
    BY <2>1 DEF FlashLoop, FlashStages
  <2>3. Reached = loop.cursor /\ Reached' = loop.cursor
    BY <1>0, <2>1, <2>2 DEF Reached
  <2>4. a \notin PageCells(loop.cursor)
    BY <1>0, <2>3 DEF PageCells
  <2>5. flash'[a] = flash[a]
    BY <1>0, <2>1, <2>4 DEF ErasePage
  <2> QED
    BY <1>2, <1>7, <2>3, <2>5
<1> QED
  BY <1>3, <1>4, <1>5, <1>6, <1>7, AlignedEntered

LEMMA PlacedStep ==
  ASSUME DeviceSizes, FlashHosts, TypeOK, Served, Aimed, ShortServed, ProgramServed,
         FlashLoop, Filling, ScantyStays, PlacedWhereSent, [Next]_vars
  PROVE  PlacedWhereSent'
<1> SUFFICES ASSUME NEW a \in Application
             PROVE  flash'[a] \in {Original, Blank, a}
  BY DEF PlacedWhereSent
<1>0. /\ a \in FlashAddresses /\ flash[a] \in {Original, Blank, a}
  BY ApplicationCells DEF PlacedWhereSent
<1>1. ASSUME NEW p, ErasePage(p) PROVE flash'[a] \in {Original, Blank, a}
  BY <1>0, <1>1 DEF ErasePage
<1>2. CASE CommitPage
  <2>1. pc = "commit" /\ WritePage(loop.pageStart)
    BY <1>2 DEF CommitPage
  <2>2. CASE ~IsPageAddressValid(loop.pageStart)
    BY <1>0, <2>1, <2>2 DEF WritePage
  <2>3. CASE IsPageAddressValid(loop.pageStart)
    <3>1. /\ Loaded /\ pc \in FlashStages /\ IsOneByteCommand(0)
          /\ loop.pageStart % SPM_PAGESIZE = Start % SPM_PAGESIZE
      BY <2>1 DEF Loaded, FlashStages, FirmwareStages, FlashLoop
    <3>2. ~OnePacket(request)
      BY <2>1, <3>1 DEF ShortServed
    <3>3. /\ SentCommand.Command = COMMAND_PROG_START /\ SentCommand.Data[0] \in {0, 1}
          /\ AskedStart = First(request)
      BY <3>1, <3>2, LongRequest, FlashHostsProgram
    <3>4. First(request) % SPM_PAGESIZE = 0
      <4>1. StartAddr = First(request)
        BY <3>1, <3>3 DEF Aimed
      <4>2. Start % SPM_PAGESIZE = StartAddr % SPM_PAGESIZE
        BY Multiples
      <4> QED
        BY <2>3, <3>1, <4>1, <4>2 DEF IsPageAddressValid
    <3>5. Aligned
      BY <3>1, <3>2, <3>4 DEF Aligned
    <3>6. Forward(request)
      BY <2>1, <3>5 DEF ScantyStays
    <3>7. Filled(loop.pageStart, loop.words)
      BY <2>1, <2>3, <3>5, <3>6 DEF Filling
    <3>8. loop.pageStart \in Nat /\ loop.words \in Nat
      BY StartType
    <3>9. flash'[a] \in {a, Blank, flash[a]}
      BY <1>0, <2>1, <2>3, <3>7, <3>8, PageWritten
    <3> QED
      BY <1>0, <3>9
  <2> QED
    BY <2>2, <2>3
<1> QED
  BY <1>0, <1>1, <1>2, FlashSteps DEF EraseNextPage, WriteFlashWord, FillWord, StartNextPage
-----------------------------------------------------------------------------
(* Downloads: the end of the loops, and the EEPROM.                         *)

(* The way into the suffix of a download.                                   *)
LEMMA SuffixEntered ==
  ASSUME TypeOK, [Next]_vars, pc' = "suffix"
  PROVE  /\ UNCHANGED <<flash, Flash64KBPage, SentCommand>>
         /\ pc = "suffix" \/ FlashWritten \/ EepromWritten
<1>1. pc' \in DownloadStages
  BY DEF DownloadStages, FirmwareStages
<1>2. CASE UNCHANGED downloadVars
  BY <1>2 DEF downloadVars, stepVars, rangeVars
<1>3. CASE WriteFirmware
  BY <1>3
  DEF WriteFirmware, FirmwareStage, DiscardFillerBytes, DiscardGivenUp, AlignFirmware,
      StartWriting, FetchPacket, WriteFlashWord, CommitPage, StartNextPage, FlashWritten,
      WriteEepromByte, EepromWritten, FirmwareDone, Return, Goto, Enter, stepVars,
      flashVars, rangeVars, firmwareFrame
<1>4. CASE \/ FinishExit \/ LoadCommand \/ EraseNextPage \/ ProcessBootloaderCommand
           \/ \E r \in Requests : Download(r)
  <2>1. loop.caller \in {"idle", "exit", "firmware"}
    BY DEF TypeOK, StepTypeOK, Locals
  <2> QED
    BY <1>4, <2>1, AfterProcess
    DEF FinishExit, Goto, LoadCommand, EraseNextPage, Download, Serve
<1> QED
  BY <1>1, <1>2, <1>3, <1>4, DownloadSteps

(* The EEPROM loop is not for flash.                                        *)
EepromSelected == pc = "eeprom" => ~IsOneByteCommand(0)

LEMMA ProgrammedRangeStep ==
  ASSUME DeviceSizes, FlashHosts, TypeOK, Served, Aimed, ShortServed, ProgramServed,
         FlashLoop, ScantyStays, DoneSoFar, EepromSelected, ProgrammedRange, [Next]_vars
  PROVE  ProgrammedRange'
<1> SUFFICES ASSUME pc' = "suffix", SentCommand'.Command = COMMAND_PROG_START,
                    IsOneByteCommand(0)', AskedStart' % SPM_PAGESIZE = 0,
                    Flash64KBPage' = 0, NEW a \in Application, a \in AskedEven'
             PROVE  flash'[a] = a
  BY DEF ProgrammedRange
<1>0. UNCHANGED <<flash, Flash64KBPage, SentCommand>>
  BY SuffixEntered
<1>1. /\ SentCommand.Command = COMMAND_PROG_START /\ IsOneByteCommand(0)
      /\ AskedStart % SPM_PAGESIZE = 0 /\ Flash64KBPage = 0 /\ a \in AskedEven
  BY <1>0 DEF IsOneByteCommand, AskedStart, AskedEven, AskedEnd, AskedBytes
<1>2. CASE pc = "suffix"
  BY <1>0, <1>1, <1>2 DEF ProgrammedRange
<1>3. CASE EepromWritten
  BY <1>1, <1>3 DEF EepromWritten, EepromSelected
<1>4. CASE FlashWritten
  <2>1. /\ pc = "flash" /\ loop.remaining = 0 /\ pc \in FlashStages /\ Loaded
    BY <1>4 DEF FlashWritten, FlashStages, Loaded, FirmwareStages
  <2>2. StartAddr = AskedStart /\ EndAddr = AskedEnd
    BY <1>1, <2>1 DEF Aimed, IsOneByteCommand
  <2> DEFINE half == BytesRemaining \div 2
             s == Start
  <2>3. s \in Nat /\ half \in Nat /\ loop.cursor \in Nat /\ AskedStart \in Nat
        /\ AskedEnd \in Nat /\ s = AskedStart
    <3>1. StartAddr \in Nat /\ EndAddr \in Nat
      BY WordNatural DEF TypeOK, RangeTypeOK
    <3>2. Start = StartAddr
      BY <1>1, <3>1 DEF Start, Long
    <3> QED
      BY <2>2, <3>1, <3>2, StartType
  <2>4. BytesRemaining = AskedBytes
    BY <2>2 DEF BytesRemaining, AskedBytes
  <2>5. a \in Nat /\ s <= a /\ a - s < 2 * half
    BY <1>1, <2>3, <2>4 DEF AskedEven
  <2>6. /\ loop.cursor = loop.pageStart + 2 * loop.words
        /\ loop.cursor + 2 * 0 = s + 2 * half
    BY <2>1 DEF FlashLoop
  <2> HIDE DEF s, half
  <2>7. loop.cursor = s + 2 * half
    BY <2>3, <2>6
  <2>8. CASE OnePacket(request)
    <3>1. loop.words = 0 /\ loop.pageStart = s
      BY <2>1, <2>8 DEF ShortServed, s
    <3>2. loop.cursor = s
      BY <2>3, <2>6, <3>1
    <3> QED
      BY <2>3, <2>5, <2>7, <3>2
  <2>9. CASE ~OnePacket(request)
    <3>1. AskedStart = First(request)
      BY <2>1, <2>9, LongRequest, FlashHostsProgram
    <3>2. Aligned
      BY <1>1, <2>1, <2>9, <3>1 DEF Aligned
    <3>3. Forward(request)
      BY <2>1, <3>2 DEF ScantyStays
    <3>4. Reached = loop.cursor
      BY <2>1 DEF Reached
    <3>5. s <= a /\ a < loop.cursor
      BY <2>3, <2>5, <2>7
    <3> QED
      BY <1>0, <3>2, <3>3, <3>4, <3>5 DEF DoneSoFar, s
  <2> QED
    BY <2>8, <2>9
<1> QED
  BY <1>2, <1>3, <1>4, SuffixEntered

(* The way into the EEPROM loop.                                            *)
LEMMA EepromEntered ==
  ASSUME TypeOK, [Next]_vars, pc' = "eeprom"
  PROVE  /\ UNCHANGED <<SentCommand, request>>
         /\ \/ /\ pc = "eeprom" /\ UNCHANGED downloadVars
               /\ UNCHANGED ep \/ HostSendsPacket \/ ClearPacket
            \/ pc = "align" /\ StartWriting
            \/ pc = "eeprom" /\ WriteEepromByte
<1>1. pc' \in DownloadStages
  BY DEF DownloadStages, FirmwareStages
<1>2. CASE UNCHANGED downloadVars /\ (UNCHANGED ep \/ HostSendsPacket)
  BY <1>2 DEF downloadVars, stepVars
<1>3. CASE WriteFirmware
  <2>1. /\ UNCHANGED <<SentCommand, IsSecure, DFU_State, DFU_Status>> \/ pc' = "idle"
    BY <1>3
    DEF WriteFirmware, FirmwareStage, DiscardFillerBytes, DiscardGivenUp, AlignFirmware,
        StartWriting, FetchPacket, WriteFlashWord, CommitPage, StartNextPage, FlashWritten,
        WriteEepromByte, EepromWritten, FirmwareDone, Return, Enter, firmwareFrame
  <2>2. \/ StartWriting \/ WriteEepromByte \/ FetchPacket
    BY <1>3
    DEF WriteFirmware, FirmwareStage, DiscardFillerBytes, DiscardGivenUp, AlignFirmware,
        CommitPage, StartNextPage, FlashWritten, WriteFlashWord,
        EepromWritten, FirmwareDone, Return, Goto, Enter, stepVars
  <2> QED
    BY <1>3, <2>1, <2>2
    DEF StartWriting, WriteEepromByte, FetchPacket, stepVars, downloadVars, flashVars,
        WriteFirmware, firmwareFrame
<1>4. CASE \/ FinishExit \/ LoadCommand \/ EraseNextPage \/ ProcessBootloaderCommand
           \/ \E r \in Requests : Download(r)
  <2>1. loop.caller \in {"idle", "exit", "firmware"}
    BY DEF TypeOK, StepTypeOK, Locals
  <2> QED
    BY <1>4, <2>1, AfterProcess
    DEF FinishExit, Goto, LoadCommand, EraseNextPage, Download, Serve
<1> QED
  BY <1>1, <1>2, <1>3, <1>4, DownloadSteps

LEMMA EepromSelectedStep ==
  ASSUME TypeOK, EepromSelected, [Next]_vars
  PROVE  EepromSelected'
<1> SUFFICES ASSUME pc' = "eeprom" PROVE ~IsOneByteCommand(0)'
  BY DEF EepromSelected
<1>1. UNCHANGED SentCommand
  BY EepromEntered
<1>2. pc = "align" /\ StartWriting => ~IsOneByteCommand(0)
  BY DEF StartWriting
<1> QED
  BY <1>1, <1>2, EepromEntered DEF EepromSelected, IsOneByteCommand

(* The EEPROM loop of a request whose range starts at a packet: the next    *)
(* byte of the bank is the one for the address it is at.                    *)
EepromLoop ==
  pc = "eeprom" /\ ~OnePacket(request) /\ First(request) % FIXED_CONTROL_ENDPOINT_SIZE = 0
  => /\ loop.remaining <= Announced(request)
     /\ Position = FIXED_CONTROL_ENDPOINT_SIZE + Announced(request) - loop.remaining
     /\ StartAddr = (First(request) + Announced(request) - loop.remaining) % 65536

LEMMA NextWord ==
  ASSUME NEW n \in Nat
  PROVE  ((n % 65536) + 1) % 65536 = (n + 1) % 65536
  OBVIOUS

LEMMA EepromLoopStep ==
  ASSUME DeviceSizes, ProgramsOnly, TypeOK, Served, BankFill, Aimed, ProgramServed,
         EepromLoop, [Next]_vars
  PROVE  EepromLoop'
<1> DEFINE F == FIXED_CONTROL_ENDPOINT_SIZE
           f == First(request)
           A == Announced(request)
<1> SUFFICES ASSUME pc' = "eeprom", ~OnePacket(request'), First(request') % F = 0
             PROVE  /\ loop'.remaining <= Announced(request')
                    /\ ep'.moved - ep'.bank = F + Announced(request') - loop'.remaining
                    /\ StartAddr' = (First(request') + Announced(request')
                                       - loop'.remaining) % 65536
  BY DEF EepromLoop, Position, OnePacket, Firmware, First, Announced, Last
<1>0. /\ f \in Nat /\ f \in Word /\ A \in Nat /\ F \in Nat /\ loop.remaining \in Nat
      /\ ep.bank \in Nat /\ ep.moved \in Nat /\ ep \in Packet /\ loop \in Locals
  BY RequestRange, PacketTypes, StartType
<1>1. request' = request /\ ~OnePacket(request) /\ f % F = 0
  BY EepromEntered
<1>2. pc = "eeprom" =>
        /\ loop.remaining <= A
        /\ ep.moved - ep.bank = F + A - loop.remaining
        /\ StartAddr = (f + A - loop.remaining) % 65536
  BY <1>1 DEF EepromLoop, Position
<1> SUFFICES /\ loop'.remaining <= A
             /\ ep'.moved - ep'.bank = F + A - loop'.remaining
             /\ StartAddr' = (f + A - loop'.remaining) % 65536
  BY <1>1
<1> HIDE DEF f, A, F
<1>3. CASE pc = "eeprom" /\ UNCHANGED downloadVars /\ (UNCHANGED ep \/ ClearPacket)
  <2>1. ep'.moved = ep.moved /\ ep'.bank = ep.bank
    BY <1>0, <1>3 DEF ClearPacket, Packet
  <2>2. loop' = loop /\ StartAddr' = StartAddr
    BY <1>3 DEF downloadVars, stepVars, rangeVars
  <2> QED
    BY <1>2, <1>3, <2>1, <2>2
<1>4. CASE pc = "eeprom" /\ UNCHANGED downloadVars /\ HostSendsPacket
  <2>1. PICK size \in Nat :
          /\ ep.turn = "host"
          /\ ep' = [turn |-> "device", bank |-> size, moved |-> ep.moved + size]
    BY <1>4, PacketSent
  <2>2. ep.bank = 0
    BY <1>4, <2>1 DEF BankFill, DownloadStages, FirmwareStages
  <2>3. ep'.moved = ep.moved + size /\ ep'.bank = size
    BY <2>1
  <2>4. ep'.moved - ep'.bank = ep.moved - ep.bank
    BY <1>0, <2>2, <2>3
  <2>5. loop' = loop /\ StartAddr' = StartAddr
    BY <1>4 DEF downloadVars, stepVars, rangeVars
  <2> QED
    BY <1>2, <1>4, <2>4, <2>5
<1>5. CASE pc = "align" /\ StartWriting
  <2>1. Loaded /\ Ahead
    BY <1>5 DEF Loaded, Ahead, FirmwareStages
  <2>2. StartAddr = First(request) /\ EndAddr = Last(request)
    BY <1>1, <2>1, LongRequest DEF Aimed
  <2>3. BytesRemaining = A
    BY <2>2 DEF BytesRemaining, A, Announced
  <2>4. /\ loop' = [loop EXCEPT !.remaining = BytesRemaining] /\ ep' = ep
        /\ StartAddr' = StartAddr
    BY <1>5 DEF StartWriting, Enter, rangeVars
  <2>5. loop'.remaining = A
    BY <1>0, <2>3, <2>4 DEF Locals
  <2>6. ep = FirstPacket(0)
    BY <1>1, <1>5, <2>1 DEF ProgramServed, f, F
  <2>7. ep.moved = F /\ ep.bank = 0
    BY <2>6 DEF FirstPacket, F
  <2>8. f + A - A = f /\ f % 65536 = f
    BY <1>0, WordBounds, Wrapped
  <2> QED
    BY <1>0, <2>2, <2>4, <2>5, <2>7, <2>8 DEF f
<1>6. CASE pc = "eeprom" /\ WriteEepromByte
  <2>1. /\ loop.remaining > 0 /\ ep.bank > 0
        /\ loop' = [loop EXCEPT !.remaining = loop.remaining - 1]
        /\ ep' = [ep EXCEPT !.bank = IF 1 < ep.bank THEN ep.bank - 1 ELSE 0]
        /\ StartAddr' = (StartAddr + 1) % 65536
    BY <1>6 DEF WriteEepromByte, Enter, Consume
  <2>2. /\ loop'.remaining = loop.remaining - 1 /\ ep'.moved = ep.moved
        /\ ep'.bank = ep.bank - 1
    <3>1. ep'.bank = IF 1 < ep.bank THEN ep.bank - 1 ELSE 0
      BY <1>0, <2>1 DEF Packet
    <3> QED
      BY <1>0, <2>1, <3>1 DEF Locals, Packet
  <2> DEFINE n == f + A - loop.remaining
  <2>3. n \in Nat /\ StartAddr = n % 65536 /\ n + 1 = f + A - loop'.remaining
    BY <1>0, <1>2, <1>6, <2>2
  <2> HIDE DEF n
  <2>4. StartAddr' = (n + 1) % 65536
    BY <2>1, <2>3, NextWord
  <2>5. /\ loop'.remaining <= A
        /\ ep'.moved - ep'.bank = F + A - loop'.remaining
    BY <1>0, <1>2, <1>6, <2>1, <2>2
  <2> QED
    BY <2>3, <2>4, <2>5
<1> QED
  BY <1>3, <1>4, <1>5, <1>6, EepromEntered

LEMMA EepromPlacedStep ==
  ASSUME DeviceSizes, EepromHosts, TypeOK, Served, Aimed, ShortServed, ProgramServed,
         EepromSelected, EepromLoop, EepromPlaced, [Next]_vars
  PROVE  EepromPlaced'
<1> SUFFICES ASSUME NEW a \in EepromAddresses, eeprom'[a] # eeprom[a]
             PROVE  eeprom'[a] = a
  BY DEF EepromPlaced
<1> DEFINE F == FIXED_CONTROL_ENDPOINT_SIZE
           f == First(request)
           l == Last(request)
           A == Announced(request)
           size == E2END + 1
<1>1. WriteEepromByte
  BY EepromSteps
<1>2. /\ pc = "eeprom" /\ loop.remaining > 0 /\ ep.bank > 0
      /\ eeprom' = [eeprom EXCEPT ![StartAddr % size] = Read8(0)]
  BY <1>1 DEF WriteEepromByte
<1>3. a = StartAddr % size /\ eeprom'[a] = Read8(0)
  BY <1>2 DEF TypeOK, MemoryTypeOK
<1>4. Loaded /\ request \in Requests /\ request.bRequest = DFU_REQ_DNLOAD
  BY <1>2 DEF Loaded, Served, DownloadStages, FirmwareStages
<1>5. ~OnePacket(request)
  BY <1>2, <1>4, PacketTypes DEF ShortServed, FirmwareStages
<1>6. Programs(request, 1) /\ request.Command = COMMAND_PROG_START /\ request.Data[0] # 0
  <2>1. SentCommand.Data = request.Data /\ ~IsOneByteCommand(0)
    BY <1>2, <1>4, <1>5 DEF ProgramServed, EepromSelected
  <2> QED
    BY <1>4, <1>5, <2>1 DEF EepromHosts, EepromDownload, Programs, IsOneByteCommand
<1>7. f % F = 0 /\ f <= l + 1 /\ l <= E2END
  BY <1>4, <1>5, <1>6 DEF EepromHosts, EepromDownload, Programs
<1>8. /\ f \in Nat /\ l \in Nat /\ l \in Word /\ A \in Nat /\ F \in Nat
      /\ loop.remaining \in Nat /\ E2END \in Nat /\ ep.bank \in Nat
      /\ A <= l - f + 1
  BY <1>7, RequestRange, PacketTypes, StartType, DFUConstants
<1>9. /\ loop.remaining <= A
      /\ Position = F + A - loop.remaining
      /\ StartAddr = (f + A - loop.remaining) % 65536
  BY <1>2, <1>5, <1>7 DEF EepromLoop
<1> HIDE DEF f, l, A, F
<1> DEFINE k == A - loop.remaining
<1>10. /\ k \in Nat /\ f + k <= l /\ Position = F + k
       /\ f + A - loop.remaining = f + k
  BY <1>2, <1>7, <1>8, <1>9
<1> HIDE DEF k
<1>11. Position + 0 = F + k
  BY <1>8, <1>10
<1>12. StartAddr = f + k
  <2>1. l < 65536
    BY <1>8, WordBounds
  <2>2. f + k \in Nat /\ f + k < 65536
    BY <1>8, <1>10, <2>1
  <2> QED
    BY <1>9, <1>10, <2>2, Wrapped
<1>13. (f + k) % size = f + k
  <2>1. size \in Nat /\ size > 0 /\ f + k \in Nat /\ f + k < size
    BY <1>7, <1>8, <1>10
  <2>2. \A n \in Nat, m \in Nat : n < m => n % m = n
    OBVIOUS
  <2> HIDE DEF size
  <2> QED
    BY <2>1, <2>2
<1>14. Read8(0) = StreamByte(Position + 0)
  BY <1>2 DEF Read8
<1>15. StreamByte(F + k) = f + k
  BY <1>6, <1>7, <1>8, <1>10, StreamPlace DEF f, l, F
<1> QED
  BY <1>3, <1>11, <1>12, <1>13, <1>14, <1>15
-----------------------------------------------------------------------------
(* The invariants of downloads, and what they establish.                    *)

(* What holds of every download of hosts that only add data to program      *)
(* commands.                                                                *)
TransferInv ==
  /\ Served /\ BankFill /\ BeforeHeader /\ EraseIsWrite /\ Aimed /\ FirstPageReady
  /\ ShortServed /\ ProgramServed /\ EepromSelected

LEMMA TransferInvAlways ==
  ASSUME DeviceSizes, ProgramsOnly
  PROVE  Spec => [](DFUInv /\ AnswerInv /\ FlashInv /\ TransferInv)
<1>1. Init => TransferInv
  BY DEF Init, TransferInv, Served, BankFill, BeforeHeader, EraseIsWrite, Aimed,
         FirstPageReady, ShortServed, ProgramServed, EepromSelected, Ahead, Loaded,
         DownloadStages, FirmwareStages, FlashStages, NoLoop
<1>2. /\ DFUInv /\ DFUInv' /\ FlashInv /\ TransferInv /\ [Next]_vars
      => TransferInv'
  <2> SUFFICES ASSUME DFUInv, DFUInv', FlashInv, TransferInv, [Next]_vars
               PROVE  TransferInv'
    OBVIOUS
  <2>1. TypeOK /\ TypeOK' /\ ExitOrder /\ ExitOrder' /\ WordsReset
    BY DEF DFUInv, FlashInv
  <2> QED
    BY <2>1, ServedStep, BankFillStep, BeforeHeaderStep, EraseIsWriteStep, AimedStep,
       FirstPageReadyStep, ShortServedStep, ProgramServedStep, EepromSelectedStep
    DEF TransferInv
<1> QED
  BY <1>1, <1>2, FlashInvAlways, PTL DEF Spec

(* Where the flash loop is in the data stage, what it has filled and what   *)
(* it has left behind; and what it comes to.                                *)
FlashDataInv ==
  /\ FlashPosition /\ Filling /\ ScantyStays /\ DoneSoFar
  /\ PlacedWhereSent /\ ProgrammedRange

LEMMA FlashDataInvAlways ==
  ASSUME DeviceSizes, FlashHosts
  PROVE  Spec => [](DFUInv /\ AnswerInv /\ FlashInv /\ TransferInv /\ FlashDataInv)
<1>1. Init => FlashDataInv
  <2>1. Init => PlacedWhereSent
    BY ApplicationCells DEF Init, InitFlash, PlacedWhereSent
  <2> QED
    BY <2>1
    DEF Init, FlashDataInv, FlashPosition, Filling, ScantyStays, DoneSoFar,
        ProgrammedRange, Aligned, FlashStages
<1>2. DFUInv /\ FlashInv /\ TransferInv /\ FlashDataInv /\ [Next]_vars => FlashDataInv'
  <2> SUFFICES ASSUME DFUInv, FlashInv, TransferInv, FlashDataInv, [Next]_vars
               PROVE  FlashDataInv'
    OBVIOUS
  <2>1. TypeOK /\ WordsReset /\ FlashLoop
    BY DEF DFUInv, FlashInv
  <2> QED
    BY <2>1, FlashPositionStep, FillingStep, ScantyStaysStep, DoneSoFarStep, PlacedStep,
       ProgrammedRangeStep
    DEF TransferInv, FlashDataInv
<1>3. ProgramsOnly
  BY FlashHostsProgram
<1>4. Spec => [](DFUInv /\ AnswerInv /\ FlashInv /\ TransferInv)
  BY <1>3, TransferInvAlways
<1> QED
  BY <1>1, <1>2, <1>4, PTL DEF Spec

(* The same of the EEPROM loop.                                             *)
EepromDataInv == EepromLoop /\ EepromPlaced

LEMMA EepromDataInvAlways ==
  ASSUME DeviceSizes, EepromHosts
  PROVE  Spec => [](DFUInv /\ AnswerInv /\ FlashInv /\ TransferInv /\ EepromDataInv)
<1>1. Init => EepromDataInv
  BY DEF Init, EepromDataInv, EepromLoop, EepromPlaced
<1>2. DFUInv /\ TransferInv /\ EepromDataInv /\ [Next]_vars => EepromDataInv'
  <2> SUFFICES ASSUME DFUInv, TransferInv, EepromDataInv, [Next]_vars
               PROVE  EepromDataInv'
    OBVIOUS
  <2>1. TypeOK /\ ProgramsOnly
    BY EepromHostsProgram DEF DFUInv
  <2> QED
    BY <2>1, EepromLoopStep, EepromPlacedStep DEF TransferInv, EepromDataInv
<1>3. ProgramsOnly
  BY EepromHostsProgram
<1>4. Spec => [](DFUInv /\ AnswerInv /\ FlashInv /\ TransferInv)
  BY <1>3, TransferInvAlways
<1> QED
  BY <1>1, <1>2, <1>4, PTL DEF Spec

(* BootloaderDFU.c:208-318: with hosts that program ranges from a page      *)
(* border on, cut short anywhere, an application byte is what it was,       *)
(* erased, or the byte sent for its address.                                *)
THEOREM DFUPlacedWhereSent ==
  ASSUME DeviceSizes, FlashHosts
  PROVE  Spec => []PlacedWhereSent
<1>1. FlashDataInv => PlacedWhereSent
  BY DEF FlashDataInv
<1> QED
  BY <1>1, FlashDataInvAlways, PTL

(* BootloaderDFU.c:222-293: when the loop is through, the words of an       *)
(* aligned range are in flash, in however many packets they came.           *)
THEOREM DFUProgrammedRange ==
  ASSUME DeviceSizes, FlashHosts
  PROVE  Spec => []ProgrammedRange
<1>1. FlashDataInv => ProgrammedRange
  BY DEF FlashDataInv
<1> QED
  BY <1>1, FlashDataInvAlways, PTL

(* BootloaderDFU.c:294-316: an EEPROM byte is untouched, or the byte sent   *)
(* for its address.                                                         *)
THEOREM DFUEepromPlaced ==
  ASSUME DeviceSizes, EepromHosts
  PROVE  Spec => []EepromPlaced
<1>1. EepromDataInv => EepromPlaced
  BY DEF EepromDataInv
<1> QED
  BY <1>1, EepromDataInvAlways, PTL
-----------------------------------------------------------------------------
(* The flash as its user may rely on it: the refinement of FlashPages.      *)

(* A page of the handler, named by its first byte, and one of FlashPages,   *)
(* named by its number, are the same bytes.                                 *)
LEMMA PageNumber ==
  ASSUME NEW x \in Nat, IsPageAddressValid(x)
  PROVE  /\ x \div SPM_PAGESIZE \in Pages!Pages
         /\ \A a \in Application : a \in PageCells(x) <=> a \in Pages!PageOf(x \div SPM_PAGESIZE)
<1> DEFINE P == SPM_PAGESIZE
           B == BOOT_START_ADDR
<1>1. P \in Nat /\ P > 0 /\ B \in Nat /\ B % P = 0 /\ x < B /\ x % P = 0
  BY FlashGeometry DEF IsPageAddressValid
<1> HIDE DEF P, B
<1>2. x \div P \in Nat /\ B \div P \in Nat /\ x = P * (x \div P)
  BY <1>1, Quotient
<1>3. x \div P <= (B \div P) - 1
  <2>1. x + P <= B
    BY <1>1, MultiplesApart
  <2>2. (x + P) \div P <= B \div P
    BY <1>1, <2>1, QuotientMonotonic
  <2>3. (x + P) \div P = (x \div P) + 1
    BY <1>1, RemainderAdded
  <2> QED
    BY <1>2, <2>2, <2>3
<1>4. ASSUME NEW a \in Nat, a \div P = x \div P PROVE a \in x .. x + P - 1
  <2>1. a = P * (a \div P) + (a % P) /\ a % P \in Nat /\ a % P < P
    BY <1>1, Quotient
  <2>2. a = x + (a % P)
    BY <1>2, <1>4, <2>1
  <2> QED
    BY <1>1, <2>1, <2>2
<1>5. ASSUME NEW a \in PageCells(x) PROVE a \div P = x \div P
  BY <1>1, PageOfCell DEF P
<1>6. \A a \in Application : a \in PageCells(x) <=> a \div P = x \div P
  BY <1>4, <1>5, ApplicationCells DEF PageCells, P
<1> QED
  BY <1>2, <1>3, <1>6
  DEF Pages!Pages, Pages!PageOf, Pages!Cells, Application, P, B

(* A page that is erased is one that turns blank.                           *)
LEMMA ErasedIsWiped ==
  ASSUME NEW x \in Nat, ErasePage(x)
  PROVE  IF IsPageAddressValid(x) THEN Contents' = Pages!Wiped(x \div SPM_PAGESIZE)
         ELSE flash' = flash
<1>1. CASE IsPageAddressValid(x)
  <2>1. \A a \in Application : flash'[a] = IF a \in PageCells(x) THEN Blank ELSE flash[a]
    BY <1>1, ApplicationCells DEF ErasePage
  <2>2. \A a \in Application :
          flash'[a] = IF a \in Pages!PageOf(x \div SPM_PAGESIZE) THEN Blank ELSE flash[a]
    BY <1>1, <2>1, PageNumber
  <2> HIDE DEF Pages!PageOf
  <2> QED
    BY <1>1, <2>2 DEF Contents, Pages!Wiped, Pages!Cells, Application
<1>2. CASE ~IsPageAddressValid(x)
  BY <1>2 DEF ErasePage
<1> QED
  BY <1>1, <1>2

(* A page border that the loop opens or commits is one of an announced      *)
(* range that runs forward.                                                 *)
LEMMA PageInAnnounced ==
  ASSUME DeviceSizes, FlashHosts, TypeOK, FlashLoop, Served, Aimed, ShortServed,
         ProgramServed, ScantyStays,
         \/ pc = "commit" /\ IsPageAddressValid(loop.pageStart)
         \/ pc = "eraseNext" /\ IsPageAddressValid(loop.cursor)
  PROVE  Aligned /\ Forward(request) /\ StartAddr <= EndAddr + 1
<1>1. /\ Loaded /\ pc \in FlashStages /\ pc # "flash" /\ IsOneByteCommand(0)
  BY DEF Loaded, FlashStages, FirmwareStages, FlashLoop
<1>2. ~OnePacket(request)
  BY <1>1 DEF ShortServed
<1>3. /\ SentCommand.Command = COMMAND_PROG_START /\ SentCommand.Data[0] \in {0, 1}
      /\ AskedStart = First(request) /\ AskedEnd = Last(request)
  BY <1>1, <1>2, LongRequest, FlashHostsProgram
<1>4. StartAddr = First(request) /\ EndAddr = Last(request)
  BY <1>1, <1>3 DEF Aimed
<1>5. Start % SPM_PAGESIZE = 0
  <2>1. loop.pageStart % SPM_PAGESIZE = Start % SPM_PAGESIZE
    BY <1>1 DEF FlashLoop
  <2>2. CASE pc = "commit"
    BY <2>1, <2>2 DEF IsPageAddressValid
  <2>3. CASE pc = "eraseNext"
    <3>1. loop.cursor = loop.pageStart + SPM_PAGESIZE
      BY <1>1, <2>3 DEF FlashLoop
    <3>2. loop.cursor % SPM_PAGESIZE = loop.pageStart % SPM_PAGESIZE
      BY <3>1, StartType, RemainderAdded
    <3> QED
      BY <2>1, <2>3, <3>2 DEF IsPageAddressValid
  <2> QED
    BY <1>1, <2>2, <2>3
<1>6. First(request) % SPM_PAGESIZE = 0
  BY <1>4, <1>5, Multiples
<1>7. Aligned
  BY <1>1, <1>2, <1>6 DEF Aligned
<1>8. Forward(request)
  BY <1>1, <1>7 DEF ScantyStays
<1> QED
  BY <1>4, <1>7, <1>8 DEF Forward

(* While the loop is at a page border the memory is open and the range      *)
(* announced, and stays so.                                                 *)
LEMMA LoopIsQuiet ==
  ASSUME TypeOK, LockedQuiet, FirmwareState, CommitPage \/ StartNextPage, WriteFirmware
  PROVE  /\ Pages!Quiet /\ UNCHANGED <<IsSecure, OpenRange, ErasingAt>>
         /\ OpenRange = [first |-> Start, last |-> Long(EndAddr)]
<1>1. /\ pc \in {"commit", "eraseNext"} /\ pc' \in {"eraseNext", "flash"}
      /\ UNCHANGED <<rangeVars, DFU_State, IsSecure>>
  BY DEF CommitPage, StartNextPage, Goto, WriteFirmware, firmwareFrame
<1>2. ~IsSecure /\ DFU_State = dfuDNLOAD_IDLE
  BY <1>1 DEF LockedQuiet, FirmwareState, FirmwareStages, FlashStages
<1>3. ErasingAt = -1 /\ ErasingAt' = -1
  BY <1>1 DEF ErasingAt
<1>4. OpenRange' = OpenRange
  BY <1>1 DEF OpenRange, rangeVars, Long
<1> QED
  BY <1>1, <1>2, <1>3, <1>4 DEF OpenRange, Start, Pages!Quiet, Pages!NoErase

(* Committing a page fills it up to the byte before the cursor.             *)
LEMMA CommitFills ==
  ASSUME DeviceSizes, FlashHosts, DFUInv, AnswerInv, FlashInv, TransferInv, FlashDataInv,
         CommitPage, WriteFirmware
  PROVE  [Pages!PagesNext]_Pages!pageVars
<1> DEFINE x == loop.pageStart
           p == x \div SPM_PAGESIZE
           last == loop.cursor - 1
<1>1. /\ TypeOK /\ LockedQuiet /\ FirmwareState /\ FlashLoop
      /\ Served /\ Aimed /\ ShortServed /\ ProgramServed /\ ScantyStays /\ Filling
  BY DEF DFUInv, AnswerInv, FlashInv, TransferInv, FlashDataInv
<1>2. /\ Pages!Quiet /\ UNCHANGED <<IsSecure, OpenRange, ErasingAt>>
      /\ OpenRange = [first |-> Start, last |-> Long(EndAddr)]
  BY <1>1, LoopIsQuiet
<1>3. pc = "commit" /\ WritePage(x)
  BY DEF CommitPage
<1>4. x \in Nat /\ loop.cursor \in Nat /\ loop.words \in Nat /\ Start \in Nat
  BY <1>1, StartType
<1>5. CASE ~IsPageAddressValid(x)
  <2>1. Contents' = Contents
    BY <1>3, <1>5 DEF WritePage, Contents
  <2> QED
    BY <1>2, <2>1 DEF Pages!pageVars
<1>6. CASE IsPageAddressValid(x)
  <2>1. Aligned /\ Forward(request) /\ StartAddr <= EndAddr + 1
    BY <1>1, <1>3, <1>6, PageInAnnounced
  <2>2. Filled(x, loop.words)
    BY <1>1, <1>3, <1>6, <2>1 DEF Filling
  <2>3. /\ x >= Start /\ loop.cursor <= Long(EndAddr) + 1 /\ x < loop.cursor
        /\ loop.cursor = x + 2 * loop.words /\ 2 * loop.words <= SPM_PAGESIZE
    BY <1>1, <1>3, <2>1, PagesInRange DEF FlashLoop, FlashStages
  <2>4. last \in PageCells(x) /\ Long(EndAddr) \in Nat
    BY <1>1, <1>4, <2>3, FlashGeometry, LongType DEF PageCells, TypeOK, RangeTypeOK
  <2>5. last \in Application
    <3>1. last \in Nat /\ last < BOOT_START_ADDR
      BY <1>4, <1>6, <2>4, ValidPageCells
    <3> HIDE DEF last
    <3> QED
      BY <3>1, FlashGeometry DEF Application
  <2>6. last \in Pages!PageOf(p)
    BY <1>4, <1>6, <2>4, <2>5, PageNumber
  <2>7. last \in Pages!Announced
    BY <1>2, <1>4, <2>3, <2>4, <2>5 DEF Pages!Announced, Pages!Cells, Application
  <2>8. Pages!IsBlank(p)
    <3>1. ASSUME NEW a \in Pages!PageOf(p) PROVE Contents[a] = Blank
      <4>1. a \in Application
        BY <3>1 DEF Pages!PageOf, Pages!Cells, Application
      <4>2. a \in PageCells(x)
        BY <1>4, <1>6, <3>1, <4>1, PageNumber
      <4> QED
        BY <2>2, <4>1, <4>2 DEF Filled, PageBlank, Contents
    <3> QED
      BY <3>1 DEF Pages!IsBlank
  <2>9. \A a \in Application :
          flash'[a] = IF a \in Pages!PageOf(p) /\ a <= last THEN a ELSE flash[a]
    <3> SUFFICES ASSUME NEW a \in Application
                 PROVE  flash'[a] = IF a \in Pages!PageOf(p) /\ a <= last THEN a ELSE flash[a]
      OBVIOUS
    <3>1. /\ a \in Nat /\ a \in FlashAddresses
          /\ a \in PageCells(x) <=> a \in Pages!PageOf(p)
          /\ a < x + 2 * loop.words <=> a <= last
      BY <1>4, <1>6, <2>3, ApplicationCells, PageNumber
    <3>2. flash'[a] = IF a \in PageCells(x) THEN IF a < x + 2 * loop.words THEN a ELSE Blank
                      ELSE flash[a]
      BY <1>1, <1>3, <1>4, <1>6, <2>2, <3>1, PageWritten
    <3>3. a \in PageCells(x) => flash[a] = Blank
      BY <2>2 DEF Filled, PageBlank
    <3> HIDE DEF p, last
    <3> QED
      BY <3>1, <3>2, <3>3
  <2>10. Contents' = [a \in Pages!Cells |->
                        IF a \in Pages!PageOf(p) /\ a <= last THEN a ELSE Contents[a]]
    <3> HIDE DEF p, last
    <3> QED
      BY <2>9 DEF Contents, Pages!Cells, Application
  <2>11. p \in Pages!Pages
    BY <1>4, <1>6, PageNumber
  <2> HIDE DEF p, last
  <2>12. Pages!Fill(p)
    BY <1>2, <2>6, <2>7, <2>8, <2>10 DEF Pages!Fill
  <2> QED
    BY <2>11, <2>12 DEF Pages!PagesNext
<1> QED
  BY <1>5, <1>6

(* Going on to the next page opens it: its first byte is announced.         *)
LEMMA NextPageOpens ==
  ASSUME DeviceSizes, FlashHosts, DFUInv, AnswerInv, FlashInv, TransferInv, FlashDataInv,
         StartNextPage, WriteFirmware
  PROVE  [Pages!PagesNext]_Pages!pageVars
<1> DEFINE x == loop.cursor
           p == x \div SPM_PAGESIZE
<1>1. /\ TypeOK /\ LockedQuiet /\ FirmwareState /\ FlashLoop
      /\ Served /\ Aimed /\ ShortServed /\ ProgramServed /\ ScantyStays
  BY DEF DFUInv, AnswerInv, FlashInv, TransferInv, FlashDataInv
<1>2. /\ Pages!Quiet /\ UNCHANGED <<IsSecure, OpenRange, ErasingAt>>
      /\ OpenRange = [first |-> Start, last |-> Long(EndAddr)]
  BY <1>1, LoopIsQuiet
<1>3. pc = "eraseNext" /\ ErasePage(x)
  BY DEF StartNextPage
<1>4. x \in Nat /\ loop.pageStart \in Nat /\ Start \in Nat
  BY <1>1, StartType
<1>5. CASE ~IsPageAddressValid(x)
  <2>1. Contents' = Contents
    BY <1>3, <1>4, <1>5, ErasedIsWiped DEF Contents
  <2> QED
    BY <1>2, <2>1 DEF Pages!pageVars
<1>6. CASE IsPageAddressValid(x)
  <2>1. StartAddr <= EndAddr + 1
    BY <1>1, <1>3, <1>6, PageInAnnounced
  <2>2. loop.pageStart >= Start /\ loop.pageStart < x /\ x < Long(EndAddr)
    BY <1>1, <1>3, <2>1, PagesInRange DEF FlashStages
  <2>3. x \in PageCells(x) /\ x \in Application
    BY <1>4, <1>6, FlashGeometry DEF PageCells, IsPageAddressValid, Application
  <2>4. Long(EndAddr) \in Nat
    BY <1>1, LongType DEF TypeOK, RangeTypeOK
  <2>5. x \in Pages!PageOf(p) /\ p \in Pages!Pages
    BY <1>4, <1>6, <2>3, PageNumber
  <2>6. x \in Pages!Announced
    BY <1>2, <1>4, <2>2, <2>3, <2>4 DEF Pages!Announced, Pages!Cells, Application
  <2>7. Contents' = Pages!Wiped(p)
    BY <1>3, <1>4, <1>6, ErasedIsWiped
  <2> HIDE DEF p
  <2>8. Pages!Open(p)
    BY <1>2, <2>5, <2>6, <2>7 DEF Pages!Open
  <2> QED
    BY <2>5, <2>8 DEF Pages!PagesNext
<1> QED
  BY <1>5, <1>6
-----------------------------------------------------------------------------
(* The erase loop goes on alone, but for the bus.                           *)
LEMMA EraseStands ==
  ASSUME TypeOK, [Next]_vars, pc = "erase"
  PROVE  \/ EraseNextPage \/ WatchdogFires \/ PowerFails
         \/ UNCHANGED <<flash, IsSecure, statusVars, rangeVars, stepVars>>
<1>1. ~EVENT_USB_Device_ControlRequest /\ ~FinishExit /\ ~LoadCommand
  BY DEF EVENT_USB_Device_ControlRequest, Download, Upload, GetStatusOrState, ClearStatus,
         Abort, Unhandled, Setup, FinishExit, LoadCommand
<1>2. ~ProcessBootloaderCommand /\ ~GiveUp
  BY DEF ProcessBootloaderCommand, GiveUp
<1>3. ~WriteFirmware
  BY DEF WriteFirmware, FirmwareStage, DiscardFillerBytes, DiscardGivenUp, AlignFirmware,
         StartWriting, FetchPacket, WriteFlashWord, CommitPage, StartNextPage,
         FlashWritten, WriteEepromByte, EepromWritten, FirmwareDone
<1>4. ~AnswerRequest
  BY DEF AnswerRequest, AnswerState, AnswerUpload, StartReading, SendFullPacket,
         ReadFlashWord, ReadEepromByte, MemoryRead, StatusStage
<1>5. CASE HostSendsPacket \/ HostTakesPacket \/ Detach \/ Attach \/ UNCHANGED vars
  BY <1>5 DEF HostSendsPacket, HostTakesPacket, Detach, Attach, busFrame, flashVars, vars
<1> QED
  BY <1>1, <1>2, <1>3, <1>4, <1>5 DEF Next, Handler, Environment

(* A turn of the erase loop is a step of the chip erase.                    *)
LEMMA EraseWipes ==
  ASSUME TypeOK, EraseProgress, EraseNextPage
  PROVE  Pages!EraseNext
<1> DEFINE x == loop.cursor
           p == x \div SPM_PAGESIZE
           P == SPM_PAGESIZE
           B == BOOT_START_ADDR
<1>1. /\ pc = "erase" /\ x \in Nat /\ loop \in Locals /\ IsPageAddressValid(x) /\ ErasePage(x)
      /\ P \in Nat /\ P > 0 /\ B \in Nat /\ B % P = 0
  BY FlashGeometry
  DEF EraseNextPage, TypeOK, StepTypeOK, Locals, EraseProgress, IsPageAddressValid
<1>2. /\ p \in Nat /\ (x + P) \div P = p + 1 /\ (x + P) % P = 0 /\ x + P \in Nat
  BY <1>1, Quotient, RemainderAdded DEF IsPageAddressValid
<1>3. ErasingAt = p /\ ErasingAt # -1
  BY <1>1, <1>2 DEF ErasingAt
<1>4. Contents' = Pages!Wiped(p)
  BY <1>1, ErasedIsWiped
<1>5. OpenRange' = OpenRange
  BY DEF EraseNextPage, OpenRange, statusVars, rangeVars, Long
<1>6. CASE ErasedAll(x + P)
  <2>1. /\ IsSecure' = FALSE /\ pc' = loop.caller
        /\ loop.caller \in {"idle", "exit", "firmware"}
    BY <1>1, <1>6 DEF EraseNextPage, NextPage, Locals
  <2>2. ErasingAt' = -1
    BY <2>1 DEF ErasingAt
  <2>3. B \div P <= (x + P) \div P /\ B \div P \in Nat
    BY <1>1, <1>2, <1>6, QuotientMonotonic, Quotient DEF ErasedAll
  <2>4. p + 1 \notin Pages!Pages
    <3> DEFINE count == B \div P
    <3>1. count \in Nat /\ count <= p + 1
      BY <1>2, <2>3
    <3>2. Pages!Pages = 0 .. count - 1
      BY DEF Pages!Pages
    <3> HIDE DEF count, p
    <3> QED
      BY <1>2, <3>1, <3>2
  <2> HIDE DEF p
  <2> QED
    BY <1>3, <1>4, <1>5, <2>1, <2>2, <2>4 DEF Pages!EraseNext, Pages!NoErase
<1>7. CASE ~ErasedAll(x + P)
  <2>1. UNCHANGED <<IsSecure, pc>> /\ loop'.cursor = x + P
    BY <1>1, <1>7 DEF EraseNextPage, NextPage, Locals
  <2>2. ErasingAt' = p + 1
    BY <1>1, <1>2, <2>1 DEF ErasingAt
  <2>3. IsPageAddressValid(x + P)
    BY <1>1, <1>2, <1>7 DEF ErasedAll, IsPageAddressValid
  <2>4. (x + P) \div P \in Pages!Pages
    BY <1>2, <2>3, PageNumber
  <2>5. p + 1 \in Pages!Pages
    BY <1>2, <2>4
  <2> HIDE DEF p
  <2> QED
    BY <1>3, <1>4, <1>5, <2>1, <2>2, <2>5 DEF Pages!EraseNext, Pages!NoErase
<1> QED
  BY <1>6, <1>7

(* Locked, the memory shows no announced range.                             *)
LEMMA LockedRange ==
  LockedQuiet => (IsSecure => OpenRange = [first |-> 1, last |-> 0])
  BY DEF LockedQuiet, OpenRange, dfuIDLE, dfuERROR, dfuDNLOAD_IDLE

(* A step that leaves flash alone, outside the chip erase.                  *)
LEMMA RangeAnnounced ==
  ASSUME LockedQuiet, LockedQuiet', UNCHANGED <<flash, IsSecure>>, pc # "erase", pc' # "erase"
  PROVE  [Pages!PagesNext]_Pages!pageVars
<1>1. ErasingAt = -1 /\ ErasingAt' = -1
  BY DEF ErasingAt
<1>2. Contents' = Contents
  BY DEF Contents
<1>3. CASE IsSecure
  <2>1. OpenRange = [first |-> 1, last |-> 0]
    BY <1>3, LockedRange
  <2>2. OpenRange' = [first |-> 1, last |-> 0]
    BY <1>3 DEF LockedQuiet, OpenRange, dfuIDLE, dfuERROR, dfuDNLOAD_IDLE
  <2> QED
    BY <1>1, <1>2, <2>1, <2>2 DEF Pages!pageVars
<1>4. CASE ~IsSecure
  <2>1. Pages!Announce
    BY <1>1, <1>2, <1>4 DEF Pages!Announce, Pages!Quiet, Pages!NoErase
  <2> QED
    BY <2>1 DEF Pages!PagesNext
<1> QED
  BY <1>3, <1>4

(* Every step of the handler is one that FlashPages allows, or none.        *)
LEMMA PagesStep ==
  ASSUME DeviceSizes, FlashHosts, DFUInv, DFUInv', AnswerInv, FlashInv, TransferInv,
         FlashDataInv, [Next]_vars
  PROVE  [Pages!PagesNext]_Pages!pageVars
<1>1. TypeOK /\ TypeOK' /\ EraseProgress /\ LockedQuiet /\ LockedQuiet'
  BY DEF DFUInv
<1>2. CASE WatchdogFires \/ PowerFails
  <2>1. /\ IsSecure' = SECURE_MODE /\ DFU_State' = dfuIDLE /\ pc' = "idle"
        /\ flash' = flash
    BY <1>2 DEF WatchdogFires, PowerFails, Restart
  <2>2. /\ OpenRange' = [first |-> 1, last |-> 0] /\ ErasingAt' = -1
        /\ Contents' = Contents
    BY <2>1 DEF OpenRange, ErasingAt, Contents, dfuIDLE, dfuDNLOAD_IDLE
  <2>3. Pages!Reset
    BY <2>1, <2>2 DEF Pages!Reset, Pages!NoRange, Pages!NoErase
  <2> QED
    BY <2>3 DEF Pages!PagesNext
<1>3. CASE EraseNextPage
  BY <1>1, <1>3, EraseWipes DEF Pages!PagesNext
<1>4. CASE pc = "erase" /\ UNCHANGED <<flash, IsSecure, statusVars, rangeVars, stepVars>>
  <2>1. UNCHANGED <<Contents, IsSecure, OpenRange, ErasingAt>>
    BY <1>4 DEF Contents, OpenRange, ErasingAt, statusVars, rangeVars, stepVars, Long
  <2> QED
    BY <2>1 DEF Pages!pageVars
<1> DEFINE Still == UNCHANGED IsSecure /\ pc # "erase"
<1>5. Still \/ WatchdogFires \/ PowerFails \/ pc = "erase"
  BY <1>1, LockSteps DEF EraseNextPage
<1>6. CASE Still /\ pc' = "erase"
  <2>1. ProcessBootloaderCommand /\ ProcessWriteCommand
    <3>1. ~UNCHANGED stepVars /\ ~EraseNextPage
      BY <1>6 DEF stepVars, EraseNextPage
    <3>2. ~FinishExit /\ ~LoadCommand
      BY <1>6 DEF FinishExit, Goto, LoadCommand
    <3>3. ASSUME NEW r \in Requests PROVE ~Download(r)
      BY <1>6 DEF Download, Serve
    <3>4. UNCHANGED <<stepVars, flash, WaitForExit>> => UNCHANGED stepVars
      OBVIOUS
    <3> QED
      BY <1>1, <1>6, <3>1, <3>2, <3>3, <3>4, Entered
  <2>2. pc' # loop.caller
    BY <1>1, <1>6 DEF TypeOK, StepTypeOK, Locals
  <2>3. UNCHANGED <<statusVars, rangeVars, flash, loop>> /\ pc = "process"
    BY <1>1, <2>1, <2>2, AfterProcess, ProcessTarget DEF flashVars
  <2>4. loop.cursor = 0
    BY <1>1, <2>3 DEF EraseProgress
  <2>5. UNCHANGED <<Contents, OpenRange>>
    BY <2>3 DEF Contents, OpenRange, statusVars, rangeVars, Long
  <2>6. ErasingAt = -1
    BY <2>3 DEF ErasingAt
  <2>7. ErasingAt' = 0
    <3>1. 0 \div SPM_PAGESIZE = 0
      BY FlashGeometry
    <3> QED
      BY <1>6, <2>3, <2>4, <3>1 DEF ErasingAt
  <2>8. Pages!StartErase
    BY <1>6, <2>5, <2>6, <2>7 DEF Pages!StartErase, Pages!NoErase
  <2> QED
    BY <2>8 DEF Pages!PagesNext
<1>7. CASE Still /\ pc' # "erase" /\ UNCHANGED flash
  BY <1>1, <1>7, RangeAnnounced
<1>8. CASE /\ Still /\ pc' # "erase" /\ ProcessBootloaderCommand /\ LoadStartEndAddresses
           /\ ErasePage(Long(StartAddr')) /\ DFU_State' = dfuDNLOAD_IDLE
  <2> DEFINE x == Start'
  <2>1. Long(StartAddr') = x /\ x \in Nat
    <3>1. Long(StartAddr') = x
      BY <1>8 DEF LoadStartEndAddresses, Start, Long
    <3>2. Flash64KBPage \in Byte /\ StartAddr' \in Word
      BY <1>1 DEF TypeOK, RangeTypeOK
    <3> QED
      BY <3>1, <3>2, LongType
  <2>2. CASE ~IsPageAddressValid(x)
    <3>1. UNCHANGED flash
      BY <1>8, <2>1, <2>2, ErasedIsWiped
    <3> QED
      BY <1>1, <1>8, <3>1, RangeAnnounced
  <2>3. CASE IsPageAddressValid(x)
    <3>1. Contents' = Pages!Wiped(x \div SPM_PAGESIZE)
      BY <1>8, <2>1, <2>3, ErasedIsWiped
    <3>2. OpenRange'.first = x
      BY <1>8 DEF OpenRange, Start
    <3>3. ~IsSecure
      BY <1>1, <1>8, LockedCommand DEF dfuIDLE, dfuERROR, dfuDNLOAD_IDLE
    <3>4. ErasingAt = -1 /\ ErasingAt' = -1
      BY <1>8 DEF ErasingAt
    <3>5. x % SPM_PAGESIZE = 0
      BY <2>3 DEF IsPageAddressValid
    <3> HIDE DEF x
    <3>6. Pages!Announce
      BY <1>8, <3>1, <3>2, <3>3, <3>4, <3>5 DEF Pages!Announce, Pages!Quiet, Pages!NoErase
    <3> QED
      BY <3>6 DEF Pages!PagesNext
  <2> QED
    BY <2>2, <2>3
<1>9. CASE WriteFirmware /\ WriteFlashWord
  <2>1. UNCHANGED <<flash, IsSecure>> /\ pc = "flash" /\ pc' \in {"commit", "flash"}
    BY <1>9 DEF WriteFlashWord, FillWord, WriteFirmware, firmwareFrame
  <2> QED
    BY <1>1, <2>1, RangeAnnounced
<1>10. CASE WriteFirmware /\ (CommitPage \/ StartNextPage)
  BY <1>10, CommitFills, NextPageOpens
<1> QED
  BY <1>1, <1>2, <1>3, <1>4, <1>5, <1>6, <1>7, <1>8, <1>9, <1>10, EraseStands, FlashSteps

(* BootloaderDFU.c:208-318 and 489-690 implement FlashPages: whatever       *)
(* requests the hosts above make, and however they are cut short, the       *)
(* application section behaves as that module promises.                     *)
THEOREM DFUImplementsPages ==
  ASSUME DeviceSizes, FlashHosts
  PROVE  Spec => PagesAsPromised
<1>1. Init => Pages!PagesInit
  <2> SUFFICES ASSUME Init PROVE Pages!PagesInit
    OBVIOUS
  <2>1. \A a \in Application : flash[a] = Original
    BY ApplicationCells DEF Init, InitFlash
  <2>2. OpenRange = [first |-> 1, last |-> 0] /\ ErasingAt = -1 /\ IsSecure = SECURE_MODE
    BY DEF Init, OpenRange, ErasingAt, dfuIDLE, dfuDNLOAD_IDLE
  <2> QED
    BY <2>1, <2>2
    DEF Pages!PagesInit, Pages!NoRange, Pages!NoErase, Pages!Cells, Contents, Application
<1>2. DFUInv /\ AnswerInv /\ FlashInv /\ TransferInv /\ FlashDataInv /\ [Next]_vars /\ DFUInv'
      => [Pages!PagesNext]_Pages!pageVars
  BY PagesStep
<1> QED
  BY <1>1, <1>2, FlashDataInvAlways, PTL DEF Spec, PagesAsPromised, Pages!PagesSpec
-----------------------------------------------------------------------------
(* Waits: what is left of a data stage covers what the handler still takes. *)

(* A request gets past its header only with one; what was read of it is in  *)
(* the retained command, and only a request that is longer leaves bytes to  *)
(* be taken for firmware.                                                   *)
HeaderTaken ==
  /\ pc = "command" => request.wLength > 0 /\ SentCommand.DataSize = request.wLength
  /\ Loaded /\ pc \notin FirmwareStages =>
       /\ pc = "process" => request.wLength > 0
       /\ Position <= HeaderSize
       /\ request.wLength <= HeaderSize => SentCommand.DataSize = 0
       /\ request.wLength > 0 => Ready /\ SentCommand.Command = request.Command
       /\ request.wLength > 1 => SentCommand.Data[0] = request.Data[0]
       /\ request.wLength >= HeaderSize => SentCommand.Data = request.Data

(* What the stages of a download that are ahead take of its bytes, at most: *)
(* a packet that is fetched while filler is discarded counts as one more.   *)
BytesNeeded ==
  CASE pc = "filler" -> loop.remaining + (StartAddr % FIXED_CONTROL_ENDPOINT_SIZE)
                          + BytesRemaining + DFU_FILE_SUFFIX_SIZE
    [] pc = "align"  -> loop.remaining + BytesRemaining + DFU_FILE_SUFFIX_SIZE
    [] pc \in FlashStages -> 2 * loop.remaining + DFU_FILE_SUFFIX_SIZE
    [] pc = "eeprom" -> loop.remaining + DFU_FILE_SUFFIX_SIZE
    [] OTHER -> loop.remaining
Supplied ==
  /\ pc \in FirmwareStages => Position + BytesNeeded <= request.wLength
  /\ pc \in FirmwareStages \cup {"command"} /\ ~Ready => ep.moved < request.wLength

(* What is asked for, and that no packet has moved before the answer.       *)
AnswerStages == {"upload", "answer"} \cup InStages
Asked ==
  pc \in AnswerStages =>
    /\ request \in Requests /\ Asks(request)
    /\ pc \notin {"answer", "status"} => request.bRequest = DFU_REQ_UPLOAD
    /\ pc \in {"upload", "answer"} => ep = [NoPacket EXCEPT !.turn = "device"]

(* EEPROM is read only when a command has named it.                         *)
EepromNamed == IsOneByteCommand(2) => \E r \in Requests : r.Data[0] = 2

(* The range that is left for uploads, also by one that was cut short, and  *)
(* with what one has handed over already.                                   *)
Seen(n) == \A u \in Requests : u.bRequest = DFU_REQ_UPLOAD => EndSeen(n, u.wLength)
RangeSeen == DFU_State = dfuUPLOAD_IDLE /\ pc # "upEeprom" => Seen(BytesRemaining)
Delivered ==
  /\ pc \in {"upFlash", "upEeprom"} =>
       /\ DFU_State = dfuUPLOAD_IDLE
       /\ ep.moved % FIXED_CONTROL_ENDPOINT_SIZE = 0
       /\ ep.bank <= FIXED_CONTROL_ENDPOINT_SIZE
       /\ ~Ready => ep.bank = FIXED_CONTROL_ENDPOINT_SIZE /\ loop.remaining > 0
       /\ ep.moved > 0 /\ ep.bank = 0 => loop.remaining > 0
  /\ pc = "upFlash" =>
       /\ ep.bank % 2 = 0
       /\ ep.moved + ep.bank + 2 * loop.remaining = 2 * (BytesRemaining \div 2)
  /\ pc = "upEeprom" => Seen(ep.moved + ep.bank + loop.remaining)

(* The last packet of an answer is wanted, and tells that it is the last.   *)
LastOf(total, length) ==
  total >= length \/ total = 0 \/ total % FIXED_CONTROL_ENDPOINT_SIZE # 0
Concluded ==
  pc = "status" =>
    /\ ~Ready => /\ ep.moved < request.wLength
                 /\ LastOf(ep.moved + ep.bank, request.wLength)
    /\ Ready => HostSatisfied

WaitInv == HeaderTaken /\ Supplied /\ Asked /\ EepromNamed /\ RangeSeen /\ Delivered /\ Concluded

(* The first packet is the whole request, or full.                          *)
LEMMA FirstPacketRead ==
  ASSUME TypeOK, BankFill, BeforeHeader, pc = "command", Ready
  PROVE  /\ ep.bank = ep.moved /\ ep.bank > 0 /\ ep.bank <= request.wLength
         /\ ep.bank = request.wLength \/ ep.bank = FIXED_CONTROL_ENDPOINT_SIZE
<1> DEFINE F == FIXED_CONTROL_ENDPOINT_SIZE
<1>1. /\ ep.bank \in Nat /\ ep.moved \in Nat /\ request.wLength \in Nat
      /\ F \in Nat /\ F > 0
  BY PacketTypes
<1>2. /\ ep.bank = ep.moved /\ ep.moved > 0
      /\ ep.moved = F \/ OnePacket(request)
  BY DEF BeforeHeader
<1>3. /\ ep.moved <= request.wLength
      /\ ep.moved % F = 0 \/ ep.moved = request.wLength
  BY DEF BankFill, DownloadStages
<1>4. OnePacket(request) => ep.moved <= F
  BY <1>1, <1>3 DEF OnePacket, Firmware
<1>5. ep.moved < F => ep.moved % F = ep.moved
  BY <1>1
<1> HIDE DEF F
<1>6. ep.moved = request.wLength \/ ep.moved = F
  BY <1>1, <1>2, <1>3, <1>4, <1>5
<1> QED
  BY <1>1, <1>2, <1>3, <1>6 DEF F

(* What reading the header leaves of the request.                           *)
LEMMA HeaderLoaded ==
  ASSUME TypeOK, BankFill, BeforeHeader, HeaderTaken, LoadCommand
  PROVE  /\ Position' <= HeaderSize /\ Ready' /\ SentCommand'.Command = request.Command
         /\ request.wLength <= HeaderSize => SentCommand'.DataSize = 0
         /\ request.wLength > 1 => SentCommand'.Data[0] = request.Data[0]
         /\ request.wLength >= HeaderSize => SentCommand'.Data = request.Data
<1> DEFINE size == IF ep.bank < HeaderSize THEN ep.bank - 1 ELSE HeaderSize - 1
<1>1. pc = "command" /\ Ready
  BY DEF LoadCommand
<1>2. /\ ep \in Packet /\ ep.bank \in Nat /\ ep.moved \in Nat /\ request.wLength \in Nat
      /\ FIXED_CONTROL_ENDPOINT_SIZE \in Nat /\ FIXED_CONTROL_ENDPOINT_SIZE > HeaderSize
  BY PacketTypes, DFUConstants
<1>3. /\ ep.bank = ep.moved /\ ep.bank > 0 /\ ep.bank <= request.wLength
      /\ ep.bank = request.wLength \/ ep.bank = FIXED_CONTROL_ENDPOINT_SIZE
  BY <1>1, FirstPacketRead
<1>4. /\ size \in 0 .. 5 /\ HeaderSize = 6
      /\ request.wLength <= 6 => ep.bank = request.wLength /\ size = request.wLength - 1
      /\ request.wLength > 1 => size > 0
      /\ request.wLength >= 6 => size = 5
      /\ size < ep.bank
  BY <1>2, <1>3 DEF HeaderSize
<1> HIDE DEF size
<1>5. /\ Consume(size + 1)
      /\ SentCommand' =
           [Command  |-> request.Command,
            Data     |-> [i \in 0 .. 4 |-> IF i < size THEN request.Data[i]
                                           ELSE SentCommand.Data[i]],
            DataSize |-> (SentCommand.DataSize - 1 - size) % 65536]
  BY DEF LoadCommand, size
<1>6. /\ ep'.turn = ep.turn /\ ep'.moved = ep.moved
      /\ ep'.bank = IF size + 1 < ep.bank THEN ep.bank - (size + 1) ELSE 0
  BY <1>2, <1>5 DEF Consume, Packet
<1>7. Position' <= HeaderSize /\ Ready'
  BY <1>1, <1>2, <1>3, <1>4, <1>6 DEF Position, Ready
<1>8. ASSUME request.wLength <= HeaderSize PROVE SentCommand'.DataSize = 0
  <2>1. SentCommand.DataSize = request.wLength
    BY <1>1 DEF HeaderTaken
  <2>2. SentCommand.DataSize - 1 - size = 0
    BY <1>2, <1>4, <1>8, <2>1
  <2> QED
    BY <1>5, <2>2
<1>9. SentCommand'.Data = [i \in 0 .. 4 |-> IF i < size THEN request.Data[i]
                                            ELSE SentCommand.Data[i]]
  BY <1>5
<1>10. request.wLength > 1 => SentCommand'.Data[0] = request.Data[0]
  BY <1>4, <1>9
<1>11. ASSUME request.wLength >= HeaderSize PROVE SentCommand'.Data = request.Data
  <2>1. request.Data \in [0 .. 4 -> Byte] /\ size = 5
    BY <1>4, <1>11 DEF TypeOK, BusTypeOK, Request, CommandData
  <2> QED
    BY <1>9, <2>1
<1> QED
  BY <1>5, <1>7, <1>8, <1>10, <1>11

(* The header is awaited by a request that has one.                         *)
LEMMA HeaderAwaited ==
  ASSUME TypeOK, BeforeHeader, HeaderTaken, [Next]_vars, pc' = "command"
  PROVE  request'.wLength > 0 /\ SentCommand'.DataSize = request'.wLength
<1>1. ASSUME NEW r \in Requests, Download(r)
      PROVE  request'.wLength > 0 /\ SentCommand'.DataSize = request'.wLength
  <2>1. r.wLength > 0
    BY <1>1 DEF Download, Serve
  <2> QED
    BY <1>1, <2>1 DEF Download, Serve, Setup, TypeOK, CommandTypeOK
<1>2. CASE FinishExit
  BY <1>2 DEF FinishExit, Goto, BeforeHeader, busVars
<1>3. CASE UNCHANGED downloadVars
  BY <1>3 DEF downloadVars, stepVars, HeaderTaken
<1>4. ~LoadCommand /\ ~WriteFirmware
  BY DEF LoadCommand, WriteFirmware, FirmwareStage, DiscardFillerBytes, DiscardGivenUp,
         AlignFirmware, StartWriting, FetchPacket, WriteFlashWord, CommitPage,
         StartNextPage, FlashWritten, WriteEepromByte, EepromWritten, FirmwareDone, Return,
         Goto, Enter, stepVars
<1>5. ~EraseNextPage
  BY DEF EraseNextPage, TypeOK, StepTypeOK, Locals
<1>6. pc' \in DownloadStages
  BY DEF DownloadStages
<1> QED
  BY <1>1, <1>2, <1>3, <1>4, <1>5, <1>6, DownloadSteps, AfterProcess

(* A command that is processed has been read from the request.              *)
LEMMA HeaderProcessed ==
  ASSUME TypeOK, ExitOrder', HeaderTaken, [Next]_vars, Loaded', pc' = "process"
  PROVE  request'.wLength > 0
<1>1. CASE Loaded /\ UNCHANGED downloadVars
  BY <1>1 DEF downloadVars, stepVars, HeaderTaken, FirmwareStages
<1>2. CASE LoadCommand
  BY <1>2 DEF LoadCommand, HeaderTaken
<1>3. ~WriteFirmware
  BY DEF WriteFirmware, FirmwareStage, DiscardFillerBytes, DiscardGivenUp, AlignFirmware,
         StartWriting, FetchPacket, WriteFlashWord, CommitPage, StartNextPage,
         FlashWritten, WriteEepromByte, EepromWritten, FirmwareDone, Return, Goto, Enter,
         stepVars
<1> QED
  BY <1>1, <1>2, <1>3, LoadedSteps

LEMMA HeaderTakenStep ==
  ASSUME TypeOK, ExitOrder', BankFill, BeforeHeader, HeaderTaken, [Next]_vars
  PROVE  HeaderTaken'
<1> DEFINE Taken == /\ Position <= HeaderSize
                    /\ request.wLength <= HeaderSize => SentCommand.DataSize = 0
                    /\ request.wLength > 0 => Ready /\ SentCommand.Command = request.Command
                    /\ request.wLength > 1 => SentCommand.Data[0] = request.Data[0]
                    /\ request.wLength >= HeaderSize => SentCommand.Data = request.Data
<1> SUFFICES ASSUME Loaded', pc' \notin FirmwareStages PROVE Taken'
  BY HeaderAwaited, HeaderProcessed DEF HeaderTaken
<1>1. Loaded /\ pc \notin FirmwareStages => Taken
  BY DEF HeaderTaken
<1>2. CASE UNCHANGED <<SentCommand, request, ep>> /\ Loaded /\ pc \notin FirmwareStages
  BY <1>1, <1>2 DEF Position, Ready
<1>3. CASE Loaded /\ UNCHANGED downloadVars /\ (UNCHANGED ep \/ HostSendsPacket)
  <2>1. pc' = pc /\ UNCHANGED <<SentCommand, request>>
    BY <1>3 DEF downloadVars, stepVars
  <2>2. ~HostSendsPacket
    BY <1>3, <2>1 DEF HostSendsPacket, OutStages, Loaded, FirmwareStages
  <2> QED
    BY <1>2, <1>3, <2>1, <2>2
<1>4. CASE pc' = "firmware" /\ (FinishExit \/ \E r \in Requests : Download(r))
  <2>1. /\ ep' = NoPacket /\ SentCommand'.DataSize = request'.wLength
        /\ ~(SentCommand'.DataSize > 0) /\ request'.wLength \in Nat
    <3>1. CASE FinishExit
      BY <1>4, <3>1, PacketTypes DEF FinishExit, Goto, BeforeHeader, busVars
    <3>2. ASSUME NEW r \in Requests, Download(r)
          PROVE  /\ ep' = NoPacket /\ SentCommand'.DataSize = request'.wLength
                 /\ ~(SentCommand'.DataSize > 0) /\ request'.wLength \in Nat
      <4>1. r.wLength \in Nat
        BY DFUConstants, WordNatural DEF Request
      <4>2. ep' = [NoPacket EXCEPT !.turn = "host"] /\ request' = r /\ ~(r.wLength > 0)
            /\ SentCommand' = [SentCommand EXCEPT !.DataSize = r.wLength]
        BY <1>4, <3>2 DEF Download, Serve, Setup
      <4> QED
        BY <4>1, <4>2 DEF NoPacket, TypeOK, CommandTypeOK
    <3> QED
      BY <1>4, <3>1, <3>2
  <2>2. request'.wLength = 0
    BY <2>1
  <2>3. Position' <= HeaderSize
    BY <2>1 DEF Position, NoPacket, HeaderSize
  <2> QED
    BY <2>1, <2>2, <2>3 DEF HeaderSize
<1>5. CASE LoadCommand
  <2>1. request' = request
    BY <1>5 DEF LoadCommand
  <2> QED
    BY <1>5, <2>1, HeaderLoaded
<1>6. CASE WriteFirmware
  <2>1. pc' \in FirmwareStages \cup {"idle"}
    BY <1>6
    DEF WriteFirmware, FirmwareStage, DiscardFillerBytes, DiscardGivenUp, AlignFirmware,
        StartWriting, FetchPacket, WriteFlashWord, CommitPage, StartNextPage,
        FlashWritten, WriteEepromByte, EepromWritten, FirmwareDone, Return, Goto, Enter,
        stepVars, FirmwareStages
  <2> QED
    BY <2>1 DEF Loaded
<1>7. {"process", "erase"} \cap FirmwareStages = {}
  BY DEF FirmwareStages
<1> QED
  BY <1>2, <1>3, <1>4, <1>5, <1>6, <1>7, LoadedSteps

(* Taking bytes from the bank moves the handler on by no more than them.    *)
LEMMA BytesTaken ==
  ASSUME TypeOK, NEW k \in Nat, Consume(k), Ready
  PROVE  /\ Ready' /\ Position \in Int /\ Position' \in Int
         /\ Position' <= Position + k
         /\ Position' + (IF k > ep.bank THEN k - ep.bank ELSE 0) = Position + k
<1>1. /\ ep \in Packet /\ ep.bank \in Nat /\ ep.moved \in Nat
  BY PacketTypes
<1>2. /\ ep'.turn = ep.turn /\ ep'.moved = ep.moved
      /\ ep'.bank = IF k < ep.bank THEN ep.bank - k ELSE 0
  BY <1>1 DEF Consume, Packet
<1> QED
  BY <1>1, <1>2 DEF Position, Ready

(* The counts of a data stage.                                              *)
LEMMA NeededTypes ==
  ASSUME TypeOK
  PROVE  /\ loop \in Locals /\ loop.remaining \in Nat
         /\ BytesRemaining \in Nat /\ BytesRemaining \div 2 \in Nat
         /\ 2 * (BytesRemaining \div 2) <= BytesRemaining
         /\ StartAddr % FIXED_CONTROL_ENDPOINT_SIZE \in Nat
         /\ DFU_FILLER_BYTES_SIZE \in Nat /\ DFU_FILE_SUFFIX_SIZE \in Nat
         /\ Position \in Int
<1>1. loop \in Locals /\ StartAddr \in Nat
  BY WordNatural DEF TypeOK, StepTypeOK, RangeTypeOK
<1>2. BytesRemaining \in Nat
  BY BytesRemainingType, WordNatural
<1>3. BytesRemaining \div 2 \in Nat /\ 2 * (BytesRemaining \div 2) <= BytesRemaining
  BY <1>2
<1>4. StartAddr % FIXED_CONTROL_ENDPOINT_SIZE \in Nat
  BY <1>1, PacketTypes
<1> QED
  BY <1>1, <1>2, <1>3, <1>4, DFUConstants, PacketTypes DEF Locals, Position

(* A program command that is taken for firmware has all of it to come.      *)
LEMMA FirmwareSupplied ==
  ASSUME TypeOK, Served, HeaderTaken, Aimed, PatientHosts,
         pc = "firmware", DFU_State = dfuDNLOAD_IDLE, SentCommand.DataSize > 0
  PROVE  /\ Ready
         /\ Position + DFU_FILLER_BYTES_SIZE + (StartAddr % FIXED_CONTROL_ENDPOINT_SIZE)
              + BytesRemaining + DFU_FILE_SUFFIX_SIZE <= request.wLength
<1>1. /\ request \in Requests /\ request.bRequest = DFU_REQ_DNLOAD
      /\ request.wLength \in Nat /\ HeaderSize = 6
  BY PacketTypes DEF Served, DownloadStages, HeaderSize
<1>2. Loaded /\ pc \notin FirmwareStages
  BY DEF Loaded, FirmwareStages
<1>3. /\ Position <= 6 /\ ~(request.wLength <= 6)
      /\ request.wLength > 0 => Ready /\ SentCommand.Command = request.Command
      /\ request.wLength >= 6 => SentCommand.Data = request.Data
  BY <1>1, <1>2 DEF HeaderTaken
<1>4. /\ Ready /\ SentCommand.Command = request.Command
      /\ SentCommand.Data = request.Data
  BY <1>1, <1>3
<1>5. /\ Programs(request, 0) \/ Programs(request, 1)
      /\ 6 + DFU_FILLER_BYTES_SIZE + (First(request) % FIXED_CONTROL_ENDPOINT_SIZE)
           + Announced(request) + DFU_FILE_SUFFIX_SIZE <= request.wLength
  BY <1>1, <1>3 DEF PatientHosts, Complete
<1>6. StartAddr = First(request) /\ EndAddr = Last(request)
  BY <1>4, <1>5 DEF Aimed, Ahead, Programs, AskedStart, AskedEnd, First, Last
<1>7. BytesRemaining = Announced(request)
  BY <1>6 DEF BytesRemaining, Announced
<1> QED
  BY <1>1, <1>3, <1>4, <1>5, <1>6, <1>7, NeededTypes

LEMMA FirmwareStaysSupplied ==
  ASSUME TypeOK, Served, HeaderTaken, Aimed, Supplied, PatientHosts, WriteFirmware,
         pc' # "idle"
  PROVE  Supplied'
<1> DEFINE filler == DFU_FILLER_BYTES_SIZE
           pad == StartAddr % FIXED_CONTROL_ENDPOINT_SIZE
           bytes == BytesRemaining
           words == BytesRemaining \div 2
           suffix == DFU_FILE_SUFFIX_SIZE
           n == loop.remaining
           n2 == loop'.remaining
           total == request.wLength
           here == Position
           there == Position'
           need == BytesNeeded
           need2 == BytesNeeded'
           Waits == ~Ready' => ep'.moved < total
<1>1. /\ loop \in Locals /\ n \in Nat /\ bytes \in Nat /\ words \in Nat
      /\ 2 * words <= bytes /\ pad \in Nat /\ filler \in Nat /\ suffix \in Nat
      /\ here \in Int /\ ep \in Packet /\ ep.bank \in Nat /\ ep.moved \in Nat
      /\ ep.turn \in {"host", "device"} /\ total \in Nat
  BY NeededTypes, PacketTypes
<1>n. /\ n \in Nat /\ bytes \in Nat /\ pad \in Nat /\ suffix \in Nat
      /\ total \in Nat /\ here \in Int
  BY <1>1
<1>2. pc' = "filler" => need2 = n2 + pad' + bytes' + suffix
  BY Zenon DEF BytesNeeded, need, need2, FlashStages
<1>3. pc' = "align" => need2 = n2 + bytes' + suffix
  BY Zenon DEF BytesNeeded, need, need2, FlashStages
<1>4. pc' \in FlashStages => need2 = 2 * n2 + suffix
  BY DEF BytesNeeded, need, need2, FlashStages
<1>5. pc' = "eeprom" => need2 = n2 + suffix
  BY DEF BytesNeeded, need, need2, FlashStages
<1>6. pc' = "suffix" => need2 = n2
  BY DEF BytesNeeded, need, need2, FlashStages
<1>7. pc \in FirmwareStages => here + need <= total
  BY DEF Supplied
<1>8. pc \in FirmwareStages /\ ~Ready => ep.moved < total
  BY DEF Supplied
<1>9. UNCHANGED rangeVars => pad' = pad /\ bytes' = bytes
  BY DEF rangeVars, BytesRemaining
<1> HIDE DEF here, there, need, need2, filler, pad, bytes, words, suffix, n, n2, total
<1> SUFFICES there + need2 <= total /\ Waits /\ request' = request
  BY DEF Supplied, total, there, need2
<1>10. request' = request
  BY DEF WriteFirmware, FirmwareStage, DiscardFillerBytes, DiscardGivenUp, AlignFirmware,
         StartWriting, FetchPacket, WriteFlashWord, CommitPage, StartNextPage,
         FlashWritten, WriteEepromByte, EepromWritten, FirmwareDone, Return
<1>11. CASE FirmwareStage
  <2>1. /\ pc = "firmware" /\ DFU_State = dfuDNLOAD_IDLE /\ SentCommand.DataSize > 0
        /\ Enter("filler", DFU_FILLER_BYTES_SIZE) /\ UNCHANGED <<rangeVars, ep>>
    BY <1>11 DEF FirmwareStage, Return
  <2>2. /\ Ready /\ here + filler + pad + bytes + suffix <= total
    BY <2>1, FirmwareSupplied DEF here, filler, pad, bytes, suffix, total
  <2>3. n2 = filler /\ pc' = "filler"
    BY <1>1, <2>1 DEF Enter, n2, filler, Locals
  <2>4. there = here /\ Ready'
    BY <2>1, <2>2 DEF Position, here, there, Ready
  <2>5. need2 = filler + pad + bytes + suffix
    BY <1>2, <1>9, <2>1, <2>3
  <2> QED
    BY <1>1, <1>10, <2>2, <2>4, <2>5
<1>12. CASE DiscardFillerBytes
  <2>1. /\ pc \in {"filler", "align", "suffix"} /\ Ready /\ n > 0 /\ pc' = pc
        /\ UNCHANGED rangeVars
    BY <1>12 DEF DiscardFillerBytes, n
  <2>2. pc \in FirmwareStages
    BY <2>1 DEF FirmwareStages
  <2> DEFINE after == CASE pc = "filler" -> pad + bytes + suffix
                        [] pc = "align" -> bytes + suffix
                        [] OTHER -> 0
  <2>3. after \in Nat
    BY <1>1
  <2>4. need = n + after
    BY <1>1, <2>1 DEF BytesNeeded, need, need2, FlashStages, n, pad, bytes, suffix
  <2>5. need2 = n2 + after
    <3>1. n2 \in Nat
      BY <1>1, <1>12 DEF DiscardFillerBytes, n2, n, Locals
    <3> QED
      BY <1>1, <1>2, <1>3, <1>6, <1>9, <2>1, <3>1
  <2> HIDE DEF after
  <2>6. CASE ep.bank = 0
    <3>1. ep' = [ep EXCEPT !.turn = "host"] /\ n2 = n - 1
      BY <1>1, <1>12, <2>6 DEF DiscardFillerBytes, ClearPacket, n, n2, Locals
    <3>2. there = here /\ ep'.moved = ep.moved /\ here = ep.moved
      BY <1>1, <2>6, <3>1 DEF Position, here, there, Packet
    <3>3. here + n + after <= total
      BY <1>1, <1>7, <2>2, <2>3, <2>4
    <3>4. there + need2 <= total /\ ep'.moved < total
      BY <1>1, <2>1, <2>3, <2>5, <3>1, <3>2, <3>3
    <3> QED
      BY <1>10, <3>4
  <2>7. CASE ep.bank # 0
    <3>1. Consume(n) /\ n2 = IF n > ep.bank THEN n - ep.bank ELSE 0
      BY <1>1, <1>12, <2>7 DEF DiscardFillerBytes, n, n2, Locals
    <3>2. Ready' /\ there \in Int /\ there + n2 = here + n
      BY <1>1, <2>1, <3>1, BytesTaken DEF here, there
    <3>3. n2 \in Nat
      BY <1>1, <3>1
    <3>4. here + n + after <= total
      BY <1>n, <1>7, <2>2, <2>3, <2>4
    <3>5. there + need2 <= total
      BY <1>n, <2>3, <2>5, <3>2, <3>3, <3>4
    <3> QED
      BY <1>10, <3>2, <3>5
  <2> QED
    BY <2>6, <2>7
<1>13. CASE DiscardGivenUp
  <2>1. /\ pc \in {"filler", "align", "suffix"} /\ pc' = pc /\ n2 = 0
        /\ UNCHANGED rangeVars /\ ep' = [ep EXCEPT !.turn = "device"]
    BY <1>1, <1>13 DEF DiscardGivenUp, n2, Locals
  <2>2. Ready' /\ there = here
    BY <1>1, <2>1 DEF Ready, Position, here, there, Packet
  <2>3. need2 <= need /\ need \in Nat /\ need2 \in Nat
    BY <1>1, <1>2, <1>3, <1>6, <1>9, <2>1 DEF BytesNeeded, need, need2, FlashStages, n, pad, bytes, suffix
  <2>4. pc \in FirmwareStages
    BY <2>1 DEF FirmwareStages
  <2>5. there + need2 <= total
    BY <1>n, <1>7, <2>2, <2>3, <2>4
  <2> QED
    BY <1>10, <2>2, <2>5
<1>14. CASE AlignFirmware
  <2>1. /\ pc = "filler" /\ pc' = "align" /\ Ready /\ n = 0 /\ n2 = pad
        /\ UNCHANGED <<rangeVars, ep>>
    BY <1>1, <1>14 DEF AlignFirmware, Enter, n, n2, pad, Locals
  <2>2. Ready' /\ there = here /\ need2 = pad + bytes + suffix
    BY <1>3, <1>9, <2>1 DEF Ready, Position, here, there
  <2>3. need = n + pad + bytes + suffix
    BY <2>1 DEF BytesNeeded, need, need2, FlashStages, n, pad, bytes, suffix
  <2>4. need = pad + bytes + suffix
    BY <1>1, <2>1, <2>3
  <2> QED
    BY <1>7, <1>10, <2>1, <2>2, <2>4 DEF FirmwareStages
<1>15. CASE StartWriting
  <2>1. /\ pc = "align" /\ Ready /\ n = 0 /\ UNCHANGED <<rangeVars, ep>>
        /\ \/ pc' = "flash" /\ n2 = words
           \/ pc' = "eeprom" /\ n2 = bytes
    BY <1>1, <1>15 DEF StartWriting, Enter, n, n2, words, bytes, Locals
  <2>2. Ready' /\ there = here
    BY <2>1 DEF Ready, Position, here, there
  <2>3. need = bytes + suffix
    <3>1. need = n + bytes + suffix
      BY Zenon, <2>1 DEF BytesNeeded, need, need2, FlashStages, n, bytes, suffix
    <3> QED
      BY <1>1, <2>1, <3>1
  <2>4. need2 = 2 * words + suffix \/ need2 = bytes + suffix
    BY <1>4, <1>5, <2>1 DEF FlashStages
  <2>5. pc \in FirmwareStages
    BY <2>1 DEF FirmwareStages
  <2> QED
    BY <1>1, <1>7, <1>10, <2>2, <2>3, <2>4, <2>5
<1>16. CASE FetchPacket
  <2>1. /\ pc \in {"flash", "eeprom"} /\ n > 0 /\ ep.bank = 0 /\ UNCHANGED <<rangeVars, pc, loop>>
        /\ ep' = [ep EXCEPT !.turn = "host"]
    BY <1>1, <1>16 DEF FetchPacket, ClearPacket, stepVars, n
  <2>2. /\ there = here /\ ep'.moved = ep.moved /\ here = ep.moved /\ n2 = n
    BY <1>1, <2>1 DEF Position, here, there, Packet, n, n2
  <2>3. need2 = need /\ need \in Nat /\ need > 0
    BY <1>1, <1>4, <1>5, <2>1, <2>2 DEF BytesNeeded, need, need2, FlashStages, n, suffix
  <2>4. pc \in FirmwareStages
    BY <2>1 DEF FirmwareStages
  <2>5. there + need2 <= total
    BY <1>7, <2>2, <2>3, <2>4
  <2>6. ep'.moved < total
    BY <1>1, <1>7, <2>2, <2>3, <2>4
  <2> QED
    BY <1>10, <2>5, <2>6
<1>17. CASE WriteFlashWord
  <2>1. /\ pc = "flash" /\ Ready /\ n > 0 /\ Consume(2) /\ n2 = n - 1
        /\ pc' \in {"flash", "commit"}
    BY <1>1, <1>17 DEF WriteFlashWord, n, n2, Locals
  <2>2. Ready' /\ there \in Int /\ there <= here + 2
    BY <2>1, BytesTaken DEF here, there
  <2>3. need = 2 * n + suffix /\ need2 = 2 * n2 + suffix
    BY <1>4, <2>1 DEF BytesNeeded, need, need2, FlashStages, n, suffix
  <2>4. pc \in FirmwareStages
    BY <2>1 DEF FirmwareStages
  <2>5. here + 2 * n + suffix <= total
    BY <1>n, <1>7, <2>3, <2>4
  <2>6. there + need2 <= total
    BY <1>n, <2>1, <2>2, <2>3, <2>5
  <2> QED
    BY <1>10, <2>2, <2>6
<1>18. CASE CommitPage \/ StartNextPage
  <2>1. /\ pc \in {"commit", "eraseNext"} /\ ep' = ep /\ n2 = n /\ pc' \in FlashStages
    BY <1>1, <1>18 DEF CommitPage, StartNextPage, Goto, FlashStages, n, n2, Locals
  <2>2. need = 2 * n + suffix /\ need2 = 2 * n2 + suffix
    BY <1>4, <2>1 DEF BytesNeeded, need, need2, FlashStages, n, suffix
  <2>3. there = here /\ Ready' = Ready
    BY <2>1 DEF Position, here, there, Ready
  <2>4. pc \in FirmwareStages
    BY <2>1 DEF FirmwareStages
  <2> QED
    BY <1>7, <1>8, <1>10, <2>1, <2>2, <2>3, <2>4
<1>19. CASE FlashWritten \/ EepromWritten
  <2>1. /\ pc \in {"flash", "eeprom"} /\ Ready /\ n = 0 /\ ep' = ep /\ n2 = suffix
        /\ pc' = "suffix"
    BY <1>1, <1>19 DEF FlashWritten, EepromWritten, Enter, n, n2, suffix, Locals
  <2>2. need = suffix
    BY <1>1, <2>1 DEF BytesNeeded, need, need2, FlashStages, n, suffix
  <2>3. there = here /\ Ready'
    BY <2>1 DEF Position, here, there, Ready
  <2>4. pc \in FirmwareStages
    BY <2>1 DEF FirmwareStages
  <2> QED
    BY <1>6, <1>7, <1>10, <2>1, <2>2, <2>3, <2>4
<1>20. CASE WriteEepromByte
  <2>1. /\ pc = "eeprom" /\ Ready /\ n > 0 /\ Consume(1) /\ n2 = n - 1 /\ pc' = "eeprom"
    BY <1>1, <1>20 DEF WriteEepromByte, Enter, n, n2, Locals
  <2>2. Ready' /\ there \in Int /\ there <= here + 1
    BY <2>1, BytesTaken DEF here, there
  <2>3. need = n + suffix /\ need2 = n2 + suffix
    BY <1>5, <2>1 DEF BytesNeeded, need, need2, FlashStages, n, suffix
  <2>4. pc \in FirmwareStages
    BY <2>1 DEF FirmwareStages
  <2>5. here + n + suffix <= total
    BY <1>n, <1>7, <2>3, <2>4
  <2>6. there + need2 <= total
    BY <1>n, <2>1, <2>2, <2>3, <2>5
  <2> QED
    BY <1>10, <2>2, <2>6
<1>21. ~FirmwareDone
  BY DEF FirmwareDone, Return
<1> QED
  BY <1>11, <1>12, <1>13, <1>14, <1>15, <1>16, <1>17, <1>18, <1>19, <1>20, <1>21
  DEF WriteFirmware

LEMMA SuppliedStep ==
  ASSUME TypeOK, Served, BeforeHeader, BankFill, HeaderTaken, Aimed, Supplied, PatientHosts,
         [Next]_vars
  PROVE  Supplied'
<1> SUFFICES ASSUME pc' \in FirmwareStages \cup {"command"} PROVE Supplied'
  BY DEF Supplied
<1>1. CASE UNCHANGED downloadVars /\ (UNCHANGED ep \/ HostSendsPacket)
  <2>1. UNCHANGED <<pc, loop, request, StartAddr, EndAddr>>
    BY <1>1 DEF downloadVars, stepVars, rangeVars
  <2>2. UNCHANGED <<BytesNeeded>>
    BY <2>1 DEF BytesNeeded, BytesRemaining
  <2>3. CASE UNCHANGED ep
    BY <2>1, <2>2, <2>3 DEF Supplied, Position, Ready
  <2>4. CASE HostSendsPacket
    <3>1. PICK size \in Nat :
            /\ ep.turn = "host"
            /\ ep' = [turn |-> "device", bank |-> size, moved |-> ep.moved + size]
      BY <2>4, PacketSent
    <3>2. ep.bank = 0 /\ ep.moved \in Nat
      BY <2>1, <3>1, PacketTypes DEF BankFill, DownloadStages
    <3>3. Ready' /\ Position' = Position
      BY <3>1, <3>2 DEF Ready, Position
    <3> QED
      BY <2>1, <2>2, <3>3 DEF Supplied
  <2> QED
    BY <1>1, <2>3, <2>4
<1>2. CASE FinishExit \/ \E r \in Requests : Download(r)
  <2>1. pc' = "command" /\ ep'.moved = 0
    <3>1. CASE FinishExit
      BY <3>1 DEF FinishExit, Goto, BeforeHeader, busVars, NoPacket, FirmwareStages
    <3>2. ASSUME NEW r \in Requests, Download(r) PROVE pc' = "command" /\ ep'.moved = 0
      BY <3>2 DEF Download, Serve, NoPacket, FirmwareStages
    <3> QED
      BY <1>2, <3>1, <3>2
  <2>2. request'.wLength > 0
    BY <2>1, HeaderAwaited
  <2> QED
    BY <2>1, <2>2 DEF Supplied, FirmwareStages
<1>3. ~LoadCommand /\ ~ProcessBootloaderCommand
  BY AfterProcess DEF LoadCommand, FirmwareStages
<1>4. ~EraseNextPage
  BY DEF EraseNextPage, TypeOK, StepTypeOK, Locals, FirmwareStages
<1>5. CASE WriteFirmware
  BY <1>5, FirmwareStaysSupplied DEF FirmwareStages
<1>6. pc' \in DownloadStages
  BY DEF DownloadStages
<1> QED
  BY <1>1, <1>2, <1>3, <1>4, <1>5, <1>6, DownloadSteps
-----------------------------------------------------------------------------
(* How the place of a request that answers is reached.                      *)
LEMMA AnswerEntered ==
  ASSUME TypeOK, [Next]_vars, pc' \in AnswerStages
  PROVE  \/ UNCHANGED <<pc, loop, request, ep, SentCommand, rangeVars, DFU_State>>
         \/ pc \in InStages /\ HostTakesPacket
         \/ \E r \in Requests :
              /\ Asks(r) /\ Serve(r, "device", pc')
              /\ pc' = IF r.bRequest = DFU_REQ_UPLOAD THEN "upload" ELSE "answer"
         \/ AnswerRequest
<1>1. ASSUME NEW r \in Requests, Download(r) PROVE FALSE
  BY <1>1 DEF Download, Serve, AnswerStages, InStages
<1>2. ASSUME NEW r \in Requests, Upload(r) \/ GetStatusOrState(r)
      PROVE  /\ Asks(r) /\ Serve(r, "device", pc')
             /\ pc' = IF r.bRequest = DFU_REQ_UPLOAD THEN "upload" ELSE "answer"
  BY <1>2 DEF Upload, GetStatusOrState, Serve, Asks, DFU_REQ_UPLOAD, DFU_REQ_GETSTATUS,
              DFU_REQ_GETSTATE
<1>3. ASSUME NEW r \in Requests, ClearStatus(r) \/ Abort(r) \/ Unhandled(r) PROVE FALSE
  BY <1>3 DEF ClearStatus, Abort, Unhandled, Setup, stepVars, AnswerStages, InStages
<1>4. CASE GiveUp \/ WatchdogFires \/ PowerFails \/ FinishExit \/ LoadCommand
  BY <1>4 DEF GiveUp, Return, WatchdogFires, PowerFails, Restart, FinishExit, Goto,
              LoadCommand, AnswerStages, InStages
<1>5. ~ProcessBootloaderCommand
  BY AfterProcess DEF AnswerStages, InStages
<1>6. ~EraseNextPage
  BY DEF EraseNextPage, TypeOK, StepTypeOK, Locals, AnswerStages, InStages
<1>7. ~WriteFirmware
  BY DEF WriteFirmware, FirmwareStage, DiscardFillerBytes, DiscardGivenUp, AlignFirmware,
         StartWriting, FetchPacket, WriteFlashWord, CommitPage, StartNextPage,
         FlashWritten, WriteEepromByte, EepromWritten, FirmwareDone, Return, Goto, Enter,
         stepVars, AnswerStages, InStages
<1>8. CASE HostSendsPacket \/ Detach \/ Attach \/ UNCHANGED vars
  BY <1>8 DEF HostSendsPacket, Detach, Attach, busFrame, statusVars, stepVars, busVars,
              vars, OutStages, AnswerStages, InStages
<1>9. CASE HostTakesPacket
  BY <1>9 DEF HostTakesPacket
<1> QED
  BY <1>1, <1>2, <1>3, <1>4, <1>5, <1>6, <1>7, <1>8, <1>9
  DEF Next, Handler, Environment, EVENT_USB_Device_ControlRequest

LEMMA AskedStep ==
  ASSUME TypeOK, Asked, [Next]_vars
  PROVE  Asked'
<1> SUFFICES ASSUME pc' \in AnswerStages PROVE Asked'
  BY DEF Asked
<1>1. CASE UNCHANGED <<pc, loop, request, ep, SentCommand, rangeVars, DFU_State>>
  BY <1>1 DEF Asked
<1>2. CASE pc \in InStages /\ HostTakesPacket
  BY <1>2 DEF HostTakesPacket, busFrame, stepVars, Asked, AnswerStages, InStages
<1>3. ASSUME NEW r \in Requests, Asks(r), Serve(r, "device", pc'),
             pc' = IF r.bRequest = DFU_REQ_UPLOAD THEN "upload" ELSE "answer"
      PROVE  Asked'
  BY <1>3 DEF Serve, Asked, Asks, AnswerStages, InStages
<1>4. CASE AnswerRequest
  <2>1. UNCHANGED request /\ pc \in AnswerStages /\ pc' \in InStages
    BY <1>4
    DEF AnswerRequest, AnswerState, AnswerUpload, StartReading, SendFullPacket,
        ReadFlashWord, ReadEepromByte, MemoryRead, StatusStage, Send, Return, Enter,
        stepVars, AnswerStages, InStages
  <2>2. pc' \notin {"answer", "status"} => pc \notin {"answer", "status"}
    BY <1>4
    DEF AnswerRequest, AnswerState, AnswerUpload, StartReading, SendFullPacket,
        ReadFlashWord, ReadEepromByte, MemoryRead, StatusStage, Send, Return, Enter,
        stepVars, AnswerStages, InStages
  <2> QED
    BY <2>1, <2>2 DEF Asked, Asks, InStages
<1> QED
  BY <1>1, <1>2, <1>3, <1>4, AnswerEntered

LEMMA EepromNamedStep ==
  ASSUME TypeOK, Served, EepromNamed, [Next]_vars
  PROVE  EepromNamed'
<1>1. CASE SentCommand'.Data = SentCommand.Data
  BY <1>1 DEF EepromNamed, IsOneByteCommand
<1>2. CASE LoadCommand
  <2>1. request \in Requests
    BY <1>2 DEF LoadCommand, Served, DownloadStages
  <2>2. SentCommand'.Data[0] \in {request.Data[0], SentCommand.Data[0]}
    <3> DEFINE size == IF ep.bank < HeaderSize THEN ep.bank - 1 ELSE HeaderSize - 1
    <3>1. SentCommand'.Data = [i \in 0 .. 4 |-> IF i < size THEN request.Data[i]
                                               ELSE SentCommand.Data[i]]
      BY <1>2 DEF LoadCommand
    <3> HIDE DEF size
    <3> QED
      BY <3>1
  <2> QED
    BY <2>1, <2>2 DEF EepromNamed, IsOneByteCommand
<1>3. CASE WatchdogFires \/ PowerFails
  BY <1>3 DEF WatchdogFires, PowerFails, Restart, EepromNamed, IsOneByteCommand, NoData
<1> QED
  BY <1>1, <1>2, <1>3, CommandSteps

(* What is left for uploads changes only with a display command of flash or *)
(* EEPROM.                                                                  *)
LEMMA DisplayChosen ==
  ASSUME ProcessBootloaderCommand, DFU_State' = dfuUPLOAD_IDLE
  PROVE  \/ UNCHANGED <<StartAddr, EndAddr, DFU_State>>
         \/ /\ SentCommand.Command = COMMAND_DISP_DATA /\ LoadStartEndAddresses
            /\ SentCommand.Data[0] \in {0, 2}
<1>1. ~RefuseCommand
  BY DEF RefuseCommand, SetError, dfuERROR, dfuUPLOAD_IDLE
<1>2. CASE SentCommand.Command = COMMAND_DISP_DATA /\ ProcessMemReadCommand
  BY <1>2 DEF ProcessMemReadCommand, BlankCheck, SetError, IsOneByteCommand, rangeVars,
              statusVars, dfuERROR, dfuUPLOAD_IDLE
<1>3. CASE ProcessMemProgCommand
  BY <1>3 DEF ProcessMemProgCommand, rangeVars, dfuDNLOAD_IDLE, dfuUPLOAD_IDLE
<1>4. CASE ProcessReadCommand
  BY <1>4 DEF ProcessReadCommand, ReadByte, SetError, rangeVars, statusVars, dfuERROR,
              dfuUPLOAD_IDLE
<1>5. CASE ProcessWriteCommand \/ ProcessChangeBase \/ UnknownCommand
  BY <1>5 DEF ProcessWriteCommand, ProcessChangeBase, UnknownCommand, rangeVars, statusVars
<1> QED
  BY <1>1, <1>2, <1>3, <1>4, <1>5 DEF ProcessBootloaderCommand

(* The range a display command names is one whose uploads show their end.   *)
LEMMA DisplaySeen ==
  ASSUME TypeOK, ExitOrder, ExitPending, Served, HeaderTaken, PatientHosts,
         pc = "process", SentCommand.Command = COMMAND_DISP_DATA,
         SentCommand.Data[0] \in {0, 2}, LoadStartEndAddresses
  PROVE  Seen(BytesRemaining')
<1>1. loop.caller # "exit"
  BY DEF ExitOrder, ExitPending, COMMAND_WRITE, COMMAND_DISP_DATA
<1>2. /\ request \in Requests /\ request.bRequest = DFU_REQ_DNLOAD
      /\ request.wLength \in Nat /\ HeaderSize = 6
  BY PacketTypes DEF Served, DownloadStages, HeaderSize
<1>3. /\ request.wLength > 0 /\ SentCommand.Command = request.Command
      /\ request.wLength > 1 => SentCommand.Data[0] = request.Data[0]
      /\ request.wLength >= 6 => SentCommand.Data = request.Data
  BY <1>1, <1>2 DEF HeaderTaken, Loaded, FirmwareStages
<1>4. Displays(request)
  BY <1>2, <1>3 DEF Displays
<1>5. /\ request.wLength = 6
      /\ \A u \in Requests : u.bRequest = DFU_REQ_UPLOAD
                               => EndSeen(Announced(request), u.wLength)
  BY <1>2, <1>4 DEF PatientHosts
<1>6. SentCommand.Data = request.Data
  BY <1>3, <1>5
<1>7. BytesRemaining' = Announced(request)
  BY <1>6 DEF BytesRemaining, LoadStartEndAddresses, Announced, First, Last
<1> QED
  BY <1>5, <1>7 DEF Seen

(* Whole packets less show their end as well.                               *)
LEMMA FewerPackets ==
  ASSUME NEW f \in Nat, f > 0, NEW k \in Nat, k % f = 0, NEW n \in Nat
  PROVE  (k + f + n) % f = n % f
<1> DEFINE p == k \div f
           q == n \div f
           c == n % f
<1>1. p \in Nat /\ k = f * p /\ q \in Nat /\ c \in Nat /\ c < f /\ n = f * q + c
  BY Quotient
<1> HIDE DEF p, q, c
<1>2. k + f + n = f * (p + q + 1) + c /\ p + q + 1 \in Nat
  BY <1>1
<1>3. (f * (p + q + 1) + c) % f = c
  BY <1>1, <1>2, QuotientUnique
<1> QED
  BY <1>2, <1>3 DEF c

(* An EEPROM upload that is cut short leaves whole packets less.            *)
LEMMA CutShort ==
  ASSUME TypeOK, EepromRead, EepromNamed, Delivered, pc = "upEeprom", ~Ready
  PROVE  Seen(BytesRemaining)
<1> DEFINE F == FIXED_CONTROL_ENDPOINT_SIZE
           m == ep.moved
           n == BytesRemaining
<1>1. F \in Nat /\ F > 0 /\ m \in Nat /\ n \in Nat
  BY PacketTypes, NeededTypes
<1>2. /\ ep.bank = F /\ m % F = 0 /\ Seen(m + ep.bank + n)
      /\ \E r \in Requests : r.Data[0] = 2
  BY DEF EepromRead, EepromNamed, Delivered
<1> SUFFICES ASSUME NEW u \in Requests, u.bRequest = DFU_REQ_UPLOAD
             PROVE  EndSeen(n, u.wLength)
  BY DEF Seen
<1>3. EndSeen(m + F + n, u.wLength)
  BY <1>2 DEF Seen
<1>4. m + F + n <= u.wLength /\ (m + F + n) % F \notin {0, 1}
  BY <1>2, <1>3 DEF EndSeen
<1>5. (m + F + n) % F = n % F
  BY <1>1, <1>2, FewerPackets
<1>6. u.wLength \in Nat
  BY DFUConstants, WordNatural DEF Request
<1> HIDE DEF m, n, F
<1>7. n <= u.wLength
  BY <1>1, <1>4, <1>6
<1> QED
  BY <1>4, <1>5, <1>7 DEF EndSeen, F

LEMMA RangeSeenStep ==
  ASSUME TypeOK, ExitOrder, ExitPending, FirmwareState, EepromRead, Served, HeaderTaken,
         EepromNamed, RangeSeen, Delivered, PatientHosts, [Next]_vars
  PROVE  RangeSeen'
<1> SUFFICES ASSUME DFU_State' = dfuUPLOAD_IDLE, pc' # "upEeprom"
             PROVE  Seen(BytesRemaining')
  BY DEF RangeSeen, Seen, EndSeen
<1>1. CASE ProcessBootloaderCommand
  <2>1. pc = "process"
    BY <1>1 DEF ProcessBootloaderCommand
  <2>2. CASE UNCHANGED <<StartAddr, EndAddr, DFU_State>>
    BY <2>1, <2>2 DEF RangeSeen, BytesRemaining
  <2> QED
    BY <1>1, <2>1, <2>2, DisplayChosen, DisplaySeen
<1>2. CASE ~ProcessBootloaderCommand
  <2>1. UNCHANGED DFU_State
    BY <1>2, StateSteps DEF dfuIDLE, dfuUPLOAD_IDLE
  <2>2. ~ReadEepromByte
    BY DEF ReadEepromByte
  <2>3. UNCHANGED rangeVars
    BY <1>2, <2>1, <2>2, RangeSteps DEF FirmwareState, dfuIDLE, dfuUPLOAD_IDLE, dfuDNLOAD_IDLE
  <2>4. BytesRemaining' = BytesRemaining
    BY <2>3 DEF BytesRemaining, rangeVars
  <2>5. CASE pc # "upEeprom"
    BY <2>1, <2>4, <2>5 DEF RangeSeen
  <2>6. CASE pc = "upEeprom"
    <3>1. ~Ready
      BY <1>2, <2>1, <2>6 DEF Next, Handler, Environment,
         EVENT_USB_Device_ControlRequest, Download, Upload, GetStatusOrState, ClearStatus,
         Abort, Unhandled, Setup, FinishExit, LoadCommand, EraseNextPage, WriteFirmware,
         FirmwareStage, DiscardFillerBytes, DiscardGivenUp, AlignFirmware, StartWriting,
         FetchPacket, WriteFlashWord, CommitPage, StartNextPage, FlashWritten,
         WriteEepromByte, EepromWritten, FirmwareDone, AnswerRequest, AnswerState,
         AnswerUpload, StartReading, SendFullPacket, ReadFlashWord, ReadEepromByte,
         MemoryRead, StatusStage, GiveUp, HostSendsPacket, HostTakesPacket, Detach,
         Attach, WatchdogFires, PowerFails, Restart, busFrame, stepVars, vars,
         dfuIDLE, dfuUPLOAD_IDLE
    <3> QED
      BY <2>4, <2>6, <3>1, CutShort
  <2> QED
    BY <2>5, <2>6
<1> QED
  BY <1>1, <1>2

LEMMA DeliveredStep ==
  ASSUME TypeOK, FlashRead, EepromRead, Asked, RangeSeen, Delivered, PatientHosts, [Next]_vars
  PROVE  Delivered'
<1> DEFINE F == FIXED_CONTROL_ENDPOINT_SIZE
           all == BytesRemaining
           words == BytesRemaining \div 2
           n == loop.remaining
           n2 == loop'.remaining
           Reading == {"upFlash", "upEeprom"}
<1> SUFFICES ASSUME pc' \in Reading PROVE Delivered'
  BY DEF Delivered
<1>1. /\ loop \in Locals /\ n \in Nat /\ all \in Nat /\ words \in Nat
      /\ ep \in Packet /\ ep.bank \in Nat /\ ep.moved \in Nat
      /\ ep.turn \in {"host", "device"} /\ F \in Nat /\ F > 0 /\ F % 2 = 0
  BY NeededTypes, PacketTypes DEF PatientHosts
<1>2. pc' \in AnswerStages
  BY DEF AnswerStages, InStages
<1>3. \A k : Seen(k)' <=> Seen(k)
  BY DEF Seen, EndSeen
<1>4. CASE UNCHANGED <<pc, loop, request, ep, SentCommand, rangeVars, DFU_State>>
  <2>1. BytesRemaining' = BytesRemaining
    BY <1>4 DEF BytesRemaining, rangeVars
  <2> QED
    BY <1>3, <1>4, <2>1 DEF Delivered, Ready
<1>5. CASE HostTakesPacket
  <2>1. /\ pc' = pc /\ n2 = n /\ ~Ready /\ UNCHANGED <<DFU_State, rangeVars>>
        /\ ep' = [turn |-> "device", bank |-> 0, moved |-> ep.moved + ep.bank]
    BY <1>5 DEF HostTakesPacket, busFrame, statusVars, stepVars
  <2>2. /\ DFU_State = dfuUPLOAD_IDLE /\ ep.moved % F = 0 /\ ep.bank = F /\ n > 0
        /\ pc = "upFlash" => ep.moved + ep.bank + 2 * n = 2 * words
        /\ pc = "upEeprom" => Seen(ep.moved + ep.bank + n)
    BY <2>1 DEF Delivered
  <2>3. (ep.moved + F) % F = 0
    BY <1>1, <2>2, RemainderAdded
  <2>4. words' = words
    BY <2>1 DEF BytesRemaining, rangeVars
  <2>5. /\ ep'.moved = ep.moved + F /\ ep'.bank = 0 /\ Ready'
        /\ ep'.moved + ep'.bank = ep.moved + ep.bank
    BY <1>1, <2>1, <2>2 DEF Ready
  <2>6. 0 % 2 = 0 /\ 0 <= F
    BY <1>1
  <2> QED
    BY <1>3, <2>1, <2>2, <2>3, <2>4, <2>5, <2>6 DEF Delivered
<1>6. ASSUME NEW r \in Requests, Serve(r, "device", pc'),
             pc' = IF r.bRequest = DFU_REQ_UPLOAD THEN "upload" ELSE "answer"
      PROVE  FALSE
  BY <1>6
<1>7. CASE AnswerRequest /\ StartReading
  <2>1. /\ pc = "upload" /\ DFU_State = dfuUPLOAD_IDLE /\ UNCHANGED <<DFU_State, ep, rangeVars>>
        /\ \/ pc' = "upFlash" /\ n2 = words
           \/ pc' = "upEeprom" /\ n2 = all
    BY <1>1, <1>7 DEF StartReading, Enter, Send, Locals
  <2>2. ep = [NoPacket EXCEPT !.turn = "device"]
    BY <2>1 DEF Asked, AnswerStages
  <2>3. ep'.bank = 0 /\ ep'.moved = 0 /\ Ready'
    BY <2>1, <2>2 DEF NoPacket, Ready
  <2>4. Seen(all)
    BY <2>1 DEF RangeSeen
  <2>5. words' = words
    BY <2>1 DEF BytesRemaining, rangeVars
  <2>6. 0 % F = 0 /\ 0 % 2 = 0 /\ 0 <= F /\ 0 + 0 + 2 * words = 2 * words /\ 0 + 0 + all = all
    BY <1>1
  <2> HIDE DEF words, all, n2, F
  <2> QED
    BY <1>3, <2>1, <2>3, <2>4, <2>5, <2>6 DEF Delivered, words, n2, F
<1>8. CASE AnswerRequest /\ SendFullPacket
  <2>1. /\ pc' = pc /\ pc \in Reading /\ n2 = n /\ n > 0 /\ ep.bank = F
        /\ UNCHANGED <<DFU_State, rangeVars>> /\ ep' = [ep EXCEPT !.turn = "host"]
    BY <1>8 DEF SendFullPacket, ClearPacket, stepVars
  <2>2. words' = words /\ ep'.bank = ep.bank /\ ep'.moved = ep.moved
    BY <1>1, <2>1 DEF BytesRemaining, rangeVars, Packet
  <2> QED
    BY <1>1, <1>3, <2>1, <2>2 DEF Delivered
<1>9. CASE AnswerRequest /\ ReadFlashWord
  <2>1. /\ pc' = pc /\ pc = "upFlash" /\ n2 = n - 1 /\ n > 0 /\ ep.bank # F /\ Ready
        /\ UNCHANGED <<DFU_State, rangeVars>>
        /\ Write(<<FlashByte(loop.cursor), FlashByte(loop.cursor + 1)>>)
    BY <1>1, <1>9 DEF ReadFlashWord, Locals
  <2>2. ep'.bank = ep.bank + 2 /\ ep'.moved = ep.moved /\ Ready'
    <3>1. Len(<<FlashByte(loop.cursor), FlashByte(loop.cursor + 1)>>) = 2
      OBVIOUS
    <3>2. ep' = [ep EXCEPT !.bank = ep.bank + 2]
      BY <2>1, <3>1 DEF Write
    <3> QED
      BY <1>1, <2>1, <3>2 DEF Ready, Packet
  <2>3. /\ DFU_State = dfuUPLOAD_IDLE /\ ep.moved % F = 0 /\ ep.bank <= F
        /\ ep.bank % 2 = 0 /\ ep.moved + ep.bank + 2 * n = 2 * words
    BY <2>1 DEF Delivered
  <2>4. (ep.bank + 2) % 2 = 0 /\ ep.bank + 2 <= F
    BY <1>1, <2>1, <2>3
  <2>5. words' = words
    BY <2>1 DEF BytesRemaining, rangeVars
  <2>6. ep.moved + (ep.bank + 2) + 2 * n2 = 2 * words
    BY <1>1, <2>1, <2>3
  <2>7. ep.bank + 2 # 0
    BY <1>1
  <2> QED
    BY <2>1, <2>2, <2>3, <2>4, <2>5, <2>6, <2>7 DEF Delivered
<1>10. CASE AnswerRequest /\ ReadEepromByte
  <2>1. /\ pc' = pc /\ pc = "upEeprom" /\ n2 = n - 1 /\ n > 0 /\ ep.bank # F /\ Ready
        /\ UNCHANGED DFU_State /\ Write(<<eeprom[StartAddr % (E2END + 1)]>>)
    BY <1>1, <1>10 DEF ReadEepromByte, Locals
  <2>2. ep'.bank = ep.bank + 1 /\ ep'.moved = ep.moved /\ Ready'
    <3>1. Len(<<eeprom[StartAddr % (E2END + 1)]>>) = 1
      OBVIOUS
    <3>2. ep' = [ep EXCEPT !.bank = ep.bank + 1]
      BY <2>1, <3>1 DEF Write
    <3> QED
      BY <1>1, <2>1, <3>2 DEF Ready, Packet
  <2>3. /\ DFU_State = dfuUPLOAD_IDLE /\ ep.moved % F = 0 /\ ep.bank <= F
        /\ Seen(ep.moved + ep.bank + n)
    BY <2>1 DEF Delivered
  <2>4. /\ ep.bank + 1 <= F /\ ep.bank + 1 # 0
        /\ ep.moved + (ep.bank + 1) + n2 = ep.moved + ep.bank + n
    BY <1>1, <2>1, <2>3
  <2> QED
    BY <1>3, <2>1, <2>2, <2>3, <2>4 DEF Delivered
<1>11. CASE AnswerRequest /\ (AnswerState \/ AnswerUpload \/ MemoryRead \/ StatusStage)
  BY <1>11 DEF AnswerState, AnswerUpload, MemoryRead, StatusStage, Send, Return
<1> QED
  BY <1>2, <1>4, <1>5, <1>6, <1>7, <1>8, <1>9, <1>10, <1>11, AnswerEntered DEF AnswerRequest

(* An upload of a range in whole words, or of all of it, shows its end.     *)
LEMMA EndShown ==
  ASSUME NEW n \in Nat, NEW length \in Nat, EndSeen(n, length),
         NEW total \in Nat, total = n \/ total = 2 * (n \div 2)
  PROVE  total <= n /\ n <= length /\ LastOf(total, length)
<1> DEFINE F == FIXED_CONTROL_ENDPOINT_SIZE
<1>1. F \in Nat /\ F > 0
  BY DFUConstants DEF HeaderSize
<1>2. /\ n <= length
      /\ \/ n % F \notin {0, 1}
         \/ n = length /\ n % 2 = 0
  BY DEF EndSeen
<1>3. \/ total = n
      \/ total = n - 1 /\ n % 2 # 0
  OBVIOUS
<1>4. CASE total = n
  BY <1>2, <1>4 DEF LastOf
<1>5. CASE total = n - 1 /\ n % 2 # 0
  <2> DEFINE c == n % F
             q == n \div F
  <2>1. c \in Nat /\ c < F /\ q \in Nat /\ n = F * q + c
    BY <1>1, Quotient
  <2>2. c \notin {0, 1}
    BY <1>2, <1>5
  <2> HIDE DEF c, q, F
  <2>3. total = F * q + (c - 1) /\ c - 1 \in Nat /\ c - 1 < F /\ c - 1 # 0
    BY <1>1, <1>5, <2>1, <2>2
  <2>4. (F * q + (c - 1)) % F = c - 1
    BY <1>1, <2>1, <2>3, QuotientUnique
  <2>5. total % F # 0
    BY <2>3, <2>4
  <2> QED
    BY <1>2, <1>5, <2>5 DEF LastOf, F
<1> QED
  BY <1>3, <1>4, <1>5

(* Short answers are sent as they are, when the endpoint is empty.          *)
LEMMA ShortAnswer ==
  ASSUME TypeOK, Asked, PatientHosts, pc \in {"upload", "answer"},
         NEW k \in 0 .. HeaderSize,
         ep' = [ep EXCEPT !.bank = ep.bank + k, !.turn = "host"]
  PROVE  /\ ~Ready' /\ ep'.moved < request.wLength
         /\ LastOf(ep'.moved + ep'.bank, request.wLength)
<1>1. /\ ep = [NoPacket EXCEPT !.turn = "device"]
      /\ request \in Requests /\ Asks(request)
  BY DEF Asked, AnswerStages
<1>2. /\ request.wLength \in Nat /\ request.wLength > 0
      /\ FIXED_CONTROL_ENDPOINT_SIZE \in Nat /\ FIXED_CONTROL_ENDPOINT_SIZE > 6
  BY <1>1, PacketTypes, DFUConstants DEF PatientHosts, HeaderSize
<1>3. ep \in Packet /\ ep.bank = 0 /\ ep.moved = 0
  BY <1>1, PacketTypes DEF NoPacket
<1>4. k \in Nat /\ k <= 6
  BY DEF HeaderSize
<1>5. ep'.turn = "host" /\ ep'.moved = ep.moved /\ ep'.bank = ep.bank + k
  BY <1>3 DEF Packet
<1>6. LastOf(k, request.wLength)
  <2>1. k = 0 \/ k % FIXED_CONTROL_ENDPOINT_SIZE = k
    BY <1>2, <1>4
  <2> QED
    BY <2>1 DEF LastOf
<1>7. ep'.moved = 0 /\ ep'.moved + ep'.bank = k
  BY <1>3, <1>4, <1>5
<1>8. ~Ready'
  BY <1>5 DEF Ready
<1>9. ep'.moved < request.wLength
  BY <1>2, <1>7
<1>10. LastOf(ep'.moved + ep'.bank, request.wLength)
  BY <1>6, <1>7
<1> QED
  BY <1>8, <1>9, <1>10

(* What an upload sends last shows that it is the last.                     *)
LEMMA LastReading ==
  ASSUME TypeOK, EepromRead, Asked, RangeSeen, Delivered, PatientHosts, MemoryRead
  PROVE  /\ ~Ready' /\ ep'.moved < request.wLength
         /\ LastOf(ep'.moved + ep'.bank, request.wLength)
<1> DEFINE m == ep.moved
           b == ep.bank
           all == BytesRemaining
<1>1. /\ ep \in Packet /\ b \in Nat /\ m \in Nat /\ request.wLength \in Nat
      /\ all \in Nat /\ all \div 2 \in Nat
  BY PacketTypes, NeededTypes
<1>2. /\ pc \in {"upFlash", "upEeprom"} /\ loop.remaining = 0 /\ Send(<<>>)
  BY DEF MemoryRead
<1>3. ep'.turn = "host" /\ ep'.moved = m /\ ep'.bank = b
  <2>1. ep' = [ep EXCEPT !.bank = ep.bank + 0, !.turn = "host"]
    <3>1. Len(<<>>) = 0
      OBVIOUS
    <3> QED
      BY <1>2, <3>1 DEF Send
  <2>2. ep.bank + 0 = ep.bank
    BY <1>1
  <2> QED
    BY <1>1, <2>1, <2>2 DEF Packet
<1>4. /\ request \in Requests /\ request.bRequest = DFU_REQ_UPLOAD
  BY <1>2 DEF Asked, AnswerStages, InStages
<1>5. /\ DFU_State = dfuUPLOAD_IDLE
      /\ m > 0 => b # 0
      /\ pc = "upFlash" => m + b + 2 * 0 = 2 * (all \div 2)
      /\ pc = "upEeprom" => Seen(m + b + 0)
  BY <1>1, <1>2 DEF Delivered
<1>6. \E n \in Nat : EndSeen(n, request.wLength) /\ (m + b = n \/ m + b = 2 * (n \div 2))
  <2>1. CASE pc = "upFlash"
    <3>1. EndSeen(all, request.wLength)
      BY <1>4, <1>5, <2>1 DEF RangeSeen, Seen
    <3>2. m + b = 2 * (all \div 2)
      BY <1>1, <1>5, <2>1
    <3> QED
      BY <1>1, <3>1, <3>2
  <2>2. CASE pc = "upEeprom"
    <3>1. m + b + 0 = m + b /\ m + b \in Nat
      BY <1>1
    <3>2. EndSeen(m + b, request.wLength)
      BY <1>4, <1>5, <2>2, <3>1 DEF Seen
    <3> QED
      BY <3>1, <3>2
  <2> QED
    BY <1>2, <2>1, <2>2
<1>7. m + b <= request.wLength /\ LastOf(m + b, request.wLength)
  <2>1. m + b \in Nat
    BY <1>1
  <2>2. PICK n \in Nat : /\ EndSeen(n, request.wLength)
                         /\ m + b = n \/ m + b = 2 * (n \div 2)
    BY <1>6
  <2>3. m + b <= n /\ n <= request.wLength /\ LastOf(m + b, request.wLength)
    BY <1>1, <2>1, <2>2, EndShown
  <2> HIDE DEF m, b
  <2> QED
    BY <1>1, <2>1, <2>3
<1>8. request.wLength > 0
  BY <1>4 DEF PatientHosts, Asks
<1>9. m < request.wLength
  BY <1>1, <1>5, <1>7, <1>8
<1> QED
  BY <1>3, <1>7, <1>9 DEF Ready

LEMMA ConcludedStep ==
  ASSUME TypeOK, EepromRead, Asked, RangeSeen, Delivered, Concluded, PatientHosts, [Next]_vars
  PROVE  Concluded'
<1> SUFFICES ASSUME pc' = "status" PROVE Concluded'
  BY DEF Concluded
<1> DEFINE Closing == /\ ~Ready' /\ ep'.moved < request.wLength /\ request' = request
                      /\ LastOf(ep'.moved + ep'.bank, request.wLength)
<1>1. Closing => Concluded'
  BY DEF Concluded, LastOf
<1>2. CASE UNCHANGED <<pc, loop, request, ep, SentCommand, rangeVars, DFU_State>>
  BY <1>2 DEF Concluded, Ready, HostSatisfied, LastOf
<1>3. CASE pc \in InStages /\ HostTakesPacket
  <2>1. /\ pc = "status" /\ ~Ready /\ request' = request
        /\ ep' = [turn |-> "device", bank |-> 0, moved |-> ep.moved + ep.bank]
    BY <1>3 DEF HostTakesPacket, busFrame, stepVars
  <2>2. LastOf(ep.moved + ep.bank, request.wLength)
    BY <2>1 DEF Concluded, LastOf
  <2>3. HostSatisfied' /\ Ready'
    BY <2>1, <2>2 DEF HostSatisfied, LastOf, Ready
  <2> QED
    BY <2>3 DEF Concluded
<1>4. ASSUME NEW r \in Requests, Serve(r, "device", pc'),
             pc' = IF r.bRequest = DFU_REQ_UPLOAD THEN "upload" ELSE "answer"
      PROVE  FALSE
  BY <1>4
<1>5. CASE AnswerRequest /\ AnswerState
  <2>1. pc = "answer" /\ Send(StateAnswer) /\ request' = request
    BY <1>5 DEF AnswerState
  <2>2. Len(StateAnswer) = 6 \/ Len(StateAnswer) = 1
    <3>1. Len(<<DFU_Status, 0, 0, 0, DFU_State, 0>>) = 6 /\ Len(<<DFU_State>>) = 1
      OBVIOUS
    <3> QED
      BY <3>1 DEF StateAnswer
  <2>3. \E k \in 0 .. HeaderSize : ep' = [ep EXCEPT !.bank = ep.bank + k, !.turn = "host"]
    <3>1. ep' = [ep EXCEPT !.bank = ep.bank + Len(StateAnswer), !.turn = "host"]
      BY <2>1 DEF Send
    <3>2. Len(StateAnswer) \in 0 .. HeaderSize
      BY <2>2 DEF HeaderSize
    <3> QED
      BY <3>1, <3>2
  <2> QED
    BY <1>1, <2>1, <2>3, ShortAnswer
<1>6. CASE AnswerRequest /\ AnswerUpload
  <2>1. pc = "upload" /\ Send(IdleAnswer) /\ request' = request
    BY <1>6 DEF AnswerUpload
  <2>2. Len(IdleAnswer) = 2 \/ Len(IdleAnswer) = 1
    <3>1. Len(<<StartAddr % 256, StartAddr \div 256>>) = 2 /\ Len(<<ResponseByte>>) = 1
      OBVIOUS
    <3> QED
      BY <3>1 DEF IdleAnswer
  <2>3. \E k \in 0 .. HeaderSize : ep' = [ep EXCEPT !.bank = ep.bank + k, !.turn = "host"]
    <3>1. ep' = [ep EXCEPT !.bank = ep.bank + Len(IdleAnswer), !.turn = "host"]
      BY <2>1 DEF Send
    <3>2. Len(IdleAnswer) \in 0 .. HeaderSize
      BY <2>2 DEF HeaderSize
    <3> QED
      BY <3>1, <3>2
  <2> QED
    BY <1>1, <2>1, <2>3, ShortAnswer
<1>7. CASE AnswerRequest /\ StartReading
  <2>1. pc = "upload" /\ Send(<<>>) /\ request' = request
    BY <1>7 DEF StartReading, Enter
  <2>2. Len(<<>>) = 0
    OBVIOUS
  <2>3. \E k \in 0 .. HeaderSize : ep' = [ep EXCEPT !.bank = ep.bank + k, !.turn = "host"]
    BY <2>1, <2>2 DEF Send, HeaderSize
  <2> QED
    BY <1>1, <2>1, <2>3, ShortAnswer
<1>8. CASE AnswerRequest /\ MemoryRead
  <2>1. request' = request
    BY <1>8 DEF MemoryRead
  <2> QED
    BY <1>1, <1>8, <2>1, LastReading
<1>9. CASE AnswerRequest /\ (SendFullPacket \/ ReadFlashWord \/ ReadEepromByte \/ StatusStage)
  BY <1>9 DEF SendFullPacket, ReadFlashWord, ReadEepromByte, StatusStage, Return, stepVars
<1>10. pc' \in AnswerStages
  BY DEF AnswerStages, InStages
<1> QED
  BY <1>2, <1>3, <1>4, <1>5, <1>6, <1>7, <1>8, <1>9, <1>10, AnswerEntered DEF AnswerRequest
-----------------------------------------------------------------------------
(* What is proved of the waits together.                                    *)
DownloadInv == Served /\ BankFill /\ BeforeHeader /\ EraseIsWrite /\ Aimed

LEMMA WaitInvInit == Init => WaitInv
<1> SUFFICES ASSUME Init PROVE WaitInv
  OBVIOUS
<1>1. HeaderTaken /\ Supplied
  BY DEF Init, HeaderTaken, Supplied, Loaded, FirmwareStages, DownloadStages
<1>2. Asked /\ Delivered /\ Concluded
  BY DEF Init, Asked, AnswerStages, InStages, Delivered, Concluded
<1>3. EepromNamed
  BY DEF Init, EepromNamed, IsOneByteCommand, NoData
<1>4. RangeSeen
  BY DEF Init, RangeSeen, dfuIDLE, dfuUPLOAD_IDLE
<1> QED
  BY <1>1, <1>2, <1>3, <1>4 DEF WaitInv

LEMMA WaitInvAlways ==
  ASSUME PatientHosts
  PROVE  Spec => [](DFUInv /\ AnswerInv /\ FlashInv /\ DownloadInv /\ WaitInv)
<1>1. Init => DownloadInv /\ WaitInv
  <2>1. Init => DownloadInv
    BY DEF Init, DownloadInv, Served, BankFill, BeforeHeader, EraseIsWrite, Aimed, Ahead,
           Loaded, DownloadStages, FirmwareStages, FlashStages, NoLoop
  <2> QED
    BY <2>1, WaitInvInit
<1>2. /\ DFUInv /\ DFUInv' /\ AnswerInv /\ DownloadInv /\ WaitInv /\ [Next]_vars
      => DownloadInv' /\ WaitInv'
  <2> SUFFICES ASSUME DFUInv, DFUInv', AnswerInv, DownloadInv, WaitInv, [Next]_vars
               PROVE  DownloadInv' /\ WaitInv'
    OBVIOUS
  <2>1. /\ TypeOK /\ ExitOrder /\ ExitOrder' /\ ExitPending
        /\ FirmwareState /\ FlashRead /\ EepromRead
    BY DEF DFUInv, AnswerInv
  <2>2. Served /\ BankFill /\ BeforeHeader /\ EraseIsWrite /\ Aimed
    BY DEF DownloadInv
  <2>3. HeaderTaken /\ Supplied /\ Asked /\ EepromNamed /\ RangeSeen /\ Delivered /\ Concluded
    BY DEF WaitInv
  <2>4. DownloadInv'
    BY <2>1, <2>2, ServedStep, BankFillStep, BeforeHeaderStep, EraseIsWriteStep, AimedStep
    DEF DownloadInv
  <2>5. HeaderTaken' /\ Supplied'
    BY <2>1, <2>2, <2>3, HeaderTakenStep, SuppliedStep
  <2>6. Asked' /\ EepromNamed'
    BY <2>1, <2>2, <2>3, AskedStep, EepromNamedStep
  <2>7. RangeSeen' /\ Delivered' /\ Concluded'
    BY <2>1, <2>2, <2>3, RangeSeenStep, DeliveredStep, ConcludedStep
  <2> QED
    BY <2>4, <2>5, <2>6, <2>7 DEF WaitInv
<1> QED
  BY <1>1, <1>2, FlashInvAlways, PTL DEF Spec

(* While an upload waits, the packet that is ready is full, and wanted.     *)
LEMMA ReadingWanted ==
  ASSUME TypeOK, Asked, RangeSeen, Delivered, pc \in {"upFlash", "upEeprom"}, ~Ready
  PROVE  ep.moved < request.wLength
<1> DEFINE all  == BytesRemaining
           left == loop.remaining
           m    == ep.moved
           b    == ep.bank
<1>1. /\ m \in Nat /\ b \in Nat /\ left \in Nat /\ request.wLength \in Nat
      /\ all \in Nat /\ all \div 2 \in Nat /\ 2 * (all \div 2) <= all
  BY PacketTypes, NeededTypes
<1>2. request \in Requests /\ request.bRequest = DFU_REQ_UPLOAD
  BY DEF Asked, AnswerStages, InStages
<1>3. left > 0 /\ DFU_State = dfuUPLOAD_IDLE
  BY DEF Delivered
<1>4. CASE pc = "upFlash"
  <2>1. m + b + 2 * left = 2 * (all \div 2)
    BY <1>4 DEF Delivered
  <2>2. all <= request.wLength
    BY <1>2, <1>3, <1>4 DEF RangeSeen, Seen, EndSeen
  <2> HIDE DEF all, left, m, b
  <2>3. m < request.wLength
    BY <1>1, <1>3, <2>1, <2>2
  <2> QED
    BY <2>3 DEF m
<1>5. CASE pc = "upEeprom"
  <2>1. m + b + left <= request.wLength
    BY <1>2, <1>5 DEF Delivered, Seen, EndSeen
  <2> HIDE DEF left, m, b
  <2>2. m < request.wLength
    BY <1>1, <1>3, <2>1
  <2> QED
    BY <2>2 DEF m
<1> QED
  BY <1>4, <1>5

(* BootloaderDFU.c:184, 243, 285, 351, 378, 472 and the status stages:      *)
(* whatever requests patient hosts make, in whatever order, whichever       *)
(* commands fail and whenever the cable is pulled, none of the handler's    *)
(* loops waits for a packet the host does not have, or for a host that has  *)
(* had enough.                                                              *)
THEOREM DFUNoStandstill ==
  ASSUME PatientHosts
  PROVE  Spec => []NoStandstill
<1>1. DFUInv /\ WaitInv => NoStandstill
  <2> SUFFICES ASSUME DFUInv, WaitInv PROVE NoStandstill
    OBVIOUS
  <2>1. TypeOK
    BY DEF DFUInv
  <2>2. Supplied /\ Asked /\ RangeSeen /\ Delivered /\ Concluded
    BY DEF WaitInv
  <2>3. pc \in OutStages /\ ~Ready => ep.moved < request.wLength
    BY <2>2 DEF Supplied, OutStages, FirmwareStages
  <2>4. pc \in {"upFlash", "upEeprom"} /\ ~Ready => ep.moved < request.wLength
    BY <2>1, <2>2, ReadingWanted
  <2>5. pc = "status" => /\ ~Ready => ep.moved < request.wLength
                         /\ Ready => HostSatisfied
    BY <2>2 DEF Concluded
  <2> QED
    BY <2>3, <2>4, <2>5 DEF NoStandstill, InStages
<1> QED
  BY <1>1, WaitInvAlways, PTL
=============================================================================
