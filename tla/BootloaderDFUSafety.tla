-------------------------- MODULE BootloaderDFUSafety --------------------------
(***************************************************************************)
(* Safety theorems of the DFU bootloader, for every flash geometry, packet  *)
(* size, filler and suffix length, EEPROM size and set of requests, in      *)
(* locked and in open builds: types, the bootloader section, the locked     *)
(* session and the pending exit.  Past the types they rest on one inductive *)
(* invariant, DFUInv.                                                       *)
(***************************************************************************)
EXTENDS BootloaderDFUProperties, FlashLemmas

-----------------------------------------------------------------------------
(* Types.  The invariant is split by what the variables are for, and each   *)
(* part survives a step that leaves its variables alone.                    *)
LEMMA Frames ==
  ASSUME TypeOK
  PROVE  /\ UNCHANGED <<flashVars, eeprom>> => MemoryTypeOK'
         /\ UNCHANGED statusVars => StatusTypeOK'
         /\ UNCHANGED <<SentCommand, ResponseByte, IsSecure>> => CommandTypeOK'
         /\ UNCHANGED rangeVars => RangeTypeOK'
         /\ UNCHANGED exitVars => ExitTypeOK'
         /\ UNCHANGED busVars => BusTypeOK'
         /\ UNCHANGED stepVars => StepTypeOK'
<1>1. UNCHANGED <<flashVars, eeprom>> => MemoryTypeOK'
  BY DEF TypeOK, MemoryTypeOK, FlashTypeOK, flashVars
<1>2. UNCHANGED statusVars => StatusTypeOK'
  BY DEF TypeOK, StatusTypeOK, statusVars
<1>3. UNCHANGED <<SentCommand, ResponseByte, IsSecure>> => CommandTypeOK'
  BY DEF TypeOK, CommandTypeOK
<1>4. UNCHANGED rangeVars => RangeTypeOK'
  BY DEF TypeOK, RangeTypeOK, rangeVars
<1>5. UNCHANGED exitVars => ExitTypeOK'
  BY DEF TypeOK, ExitTypeOK, exitVars
<1>6. UNCHANGED busVars => BusTypeOK'
  BY DEF TypeOK, BusTypeOK, busVars
<1>7. UNCHANGED stepVars => StepTypeOK'
  BY DEF TypeOK, StepTypeOK, stepVars
<1> QED
  BY <1>1, <1>2, <1>3, <1>4, <1>5, <1>6, <1>7

(* What a step may put into the locals, the endpoint and the command.       *)
LEMMA StepValues ==
  /\ NoLoop \in Locals
  /\ NoPacket \in Packet
  /\ NoRequest \in Request
  /\ NoData \in CommandData
<1>1. NoData \in CommandData
  BY DEF NoData, CommandData, Byte
<1>2. NoLoop \in Locals
  BY DEF NoLoop, Locals
<1>3. NoPacket \in Packet
  BY DEF NoPacket, Packet
<1> QED
  BY <1>1, <1>2, <1>3 DEF NoRequest, Request, Byte, Word

LEMMA WordNatural ==
  ASSUME NEW n \in Word
  PROVE  n \in Nat
  BY DEF Word

LEMMA WordModulo ==
  ASSUME NEW n \in Int
  PROVE  n % 65536 \in Word
  BY DEF Word

LEMMA ReturnType ==
  ASSUME BusTypeOK, UNCHANGED USB_DeviceState, Return
  PROVE  BusTypeOK' /\ StepTypeOK'
  BY StepValues DEF BusTypeOK, StepTypeOK, Return, Labels

LEMMA RequestType ==
  ASSUME TypeOK, EVENT_USB_Device_ControlRequest
  PROVE  TypeOK'
<1> PICK r \in Requests : \/ Download(r) \/ Upload(r) \/ GetStatusOrState(r)
                          \/ ClearStatus(r) \/ Abort(r) \/ Unhandled(r)
  BY DEF EVENT_USB_Device_ControlRequest
<1>1. r \in Request
  BY DFUConstants
<1>2. Setup(r)
  BY DEF Download, Upload, GetStatusOrState, ClearStatus, Abort, Unhandled
<1>3. MemoryTypeOK' /\ RangeTypeOK' /\ ExitTypeOK'
  BY <1>2, Frames DEF Setup
<1>4. CommandTypeOK'
  BY <1>1, <1>2 DEF TypeOK, Setup, CommandTypeOK, Request
<1>5. StatusTypeOK'
  BY Frames DEF Download, Upload, GetStatusOrState, ClearStatus, Abort, Unhandled,
                Serve, TypeOK, StatusTypeOK, statusVars
<1>6. BusTypeOK'
  <2>1. CASE UNCHANGED <<request, ep, reply>>
    BY <1>2, <2>1 DEF Setup, TypeOK, BusTypeOK
  <2>2. ASSUME NEW turn \in {"host", "device"}, NEW label, Serve(r, turn, label)
        PROVE  BusTypeOK'
    BY <1>1, <1>2, <2>2 DEF Setup, Serve, TypeOK, BusTypeOK, Packet, NoPacket
  <2> QED
    BY <2>1, <2>2 DEF Download, Upload, GetStatusOrState, ClearStatus, Abort, Unhandled
<1>7. StepTypeOK'
  <2>1. CASE Download(r)
    BY <2>1 DEF Download, Serve, TypeOK, StepTypeOK, NoLoop, Locals, Labels, OutStages
  <2>2. CASE ~Download(r)
    BY <2>2 DEF Upload, GetStatusOrState, ClearStatus, Abort, Unhandled,
                Serve, TypeOK, StepTypeOK, Labels, stepVars
  <2> QED
    BY <2>1, <2>2
<1> QED
  BY <1>3, <1>4, <1>5, <1>6, <1>7 DEF TypeOK

LEMMA FinishExitType ==
  ASSUME TypeOK, FinishExit
  PROVE  TypeOK'
<1>1. MemoryTypeOK' /\ StatusTypeOK' /\ CommandTypeOK' /\ RangeTypeOK' /\ BusTypeOK'
  BY Frames DEF FinishExit
<1>2. ExitTypeOK'
  BY DEF FinishExit, AfterExit, TypeOK, ExitTypeOK
<1>3. StepTypeOK'
  BY DEF FinishExit, Goto, TypeOK, StepTypeOK, Labels, OutStages
<1> QED
  BY <1>1, <1>2, <1>3 DEF TypeOK

(* Reading k bytes leaves a packet. *)
LEMMA ConsumeType ==
  ASSUME ep \in Packet, NEW k \in Nat, Consume(k)
  PROVE  ep' \in Packet
  BY DEF Packet, Consume

LEMMA LoadCommandType ==
  ASSUME TypeOK, LoadCommand
  PROVE  TypeOK'
<1> DEFINE size == IF ep.bank < HeaderSize THEN ep.bank - 1 ELSE HeaderSize - 1
<1>1. MemoryTypeOK' /\ StatusTypeOK' /\ RangeTypeOK' /\ ExitTypeOK'
  BY Frames DEF LoadCommand
<1>2. /\ ep \in Packet
      /\ request.Data \in CommandData /\ request.Command \in Byte
      /\ SentCommand.Data \in CommandData /\ SentCommand.DataSize \in Nat
  <2>1. ep \in Packet /\ request \in Request
    BY DEF TypeOK, BusTypeOK
  <2>2. SentCommand \in [Command : Byte, Data : CommandData, DataSize : Word]
    BY DEF TypeOK, CommandTypeOK
  <2>4. SentCommand.Data \in CommandData /\ SentCommand.DataSize \in Word
    BY <2>2
  <2>3. request.Data \in CommandData /\ request.Command \in Byte
    BY <2>1 DEF Request
  <2> QED
    BY <2>1, <2>3, <2>4, WordNatural
<1> HIDE DEF size
<1>3. size \in Int /\ size + 1 \in Nat
  BY <1>2 DEF Packet, HeaderSize, size
<1>4. CommandTypeOK'
  <2>1. [i \in 0 .. 4 |-> IF i < size THEN request.Data[i] ELSE SentCommand.Data[i]]
          \in CommandData
    <3>1. ASSUME NEW i \in 0 .. 4
          PROVE  request.Data[i] \in Byte /\ SentCommand.Data[i] \in Byte
      BY <1>2 DEF CommandData
    <3> QED
      BY <3>1 DEF CommandData
  <2>2. (SentCommand.DataSize - 1 - size) % 65536 \in Word
    BY <1>2, <1>3, WordModulo
  <2> QED
    BY <1>2, <2>1, <2>2 DEF LoadCommand, TypeOK, CommandTypeOK, size
<1>5. BusTypeOK'
  <2>1. ep' \in Packet
    BY <1>2, <1>3, ConsumeType DEF LoadCommand, size
  <2> QED
    BY <2>1 DEF LoadCommand, TypeOK, BusTypeOK
<1>6. StepTypeOK'
  BY DEF LoadCommand, StepTypeOK, NoLoop, Locals, Labels
<1> QED
  BY <1>1, <1>4, <1>5, <1>6 DEF TypeOK

-----------------------------------------------------------------------------
(* The commands. *)
LEMMA CommandFields ==
  ASSUME TypeOK
  PROVE  /\ \A i \in 0 .. 4 : SentCommand.Data[i] \in Byte
         /\ SentCommand.DataSize \in Word
<1>1. SentCommand \in [Command : Byte, Data : CommandData, DataSize : Word]
  BY DEF TypeOK, CommandTypeOK
<1>2. SentCommand.Data \in CommandData /\ SentCommand.DataSize \in Word
  BY <1>1
<1> QED
  BY <1>2 DEF CommandData

LEMMA BigEndianType ==
  ASSUME NEW hi \in Byte, NEW lo \in Byte
  PROVE  BigEndian(hi, lo) \in Word
  BY DEF BigEndian, Byte, Word

LEMMA LongType ==
  ASSUME Flash64KBPage \in Byte, NEW lo \in Word
  PROVE  Long(lo) \in Nat
  BY DEF Long, Byte, Word

LEMMA AddressesType ==
  ASSUME TypeOK, LoadStartEndAddresses
  PROVE  RangeTypeOK'
<1>1. \A i \in 0 .. 4 : SentCommand.Data[i] \in Byte
  BY CommandFields
<1>2. StartAddr' \in Word /\ EndAddr' \in Word
  BY <1>1, BigEndianType DEF LoadStartEndAddresses
<1> QED
  BY <1>2 DEF LoadStartEndAddresses, TypeOK, RangeTypeOK

LEMMA ProcessedType ==
  ASSUME TypeOK, Processed
  PROVE  StepTypeOK'
  BY DEF Processed, Goto, TypeOK, StepTypeOK, Locals, Labels

commandFrame == <<eeprom, SentCommand, busVars>>

LEMMA RefuseType ==
  ASSUME TypeOK, RefuseCommand, UNCHANGED commandFrame
  PROVE  TypeOK'
<1>1. MemoryTypeOK' /\ CommandTypeOK' /\ RangeTypeOK' /\ ExitTypeOK' /\ BusTypeOK'
  BY Frames DEF RefuseCommand, commandFrame
<1>2. StatusTypeOK'
  BY DEF RefuseCommand, SetError, StatusTypeOK
<1>3. StepTypeOK'
  BY ProcessedType DEF RefuseCommand
<1> QED
  BY <1>1, <1>2, <1>3 DEF TypeOK

LEMMA ProgramCommandType ==
  ASSUME TypeOK, ProcessMemProgCommand, UNCHANGED commandFrame
  PROVE  TypeOK'
<1>1. CommandTypeOK' /\ ExitTypeOK' /\ BusTypeOK'
  BY Frames DEF ProcessMemProgCommand, commandFrame
<1>2. RangeTypeOK'
  BY Frames, AddressesType DEF ProcessMemProgCommand
<1>3. MemoryTypeOK'
  <2>1. CASE UNCHANGED flashVars
    BY <2>1, Frames DEF commandFrame
  <2>2. CASE LoadStartEndAddresses /\ ErasePage(Long(StartAddr'))
    <3>1. Long(StartAddr') \in Nat
      BY <1>2, LongType DEF RangeTypeOK, TypeOK
    <3> QED
      BY <2>2, <3>1, EraseType DEF TypeOK, MemoryTypeOK, commandFrame
  <2> QED
    BY <2>1, <2>2 DEF ProcessMemProgCommand
<1>4. StatusTypeOK'
  BY DEF ProcessMemProgCommand, TypeOK, StatusTypeOK
<1>5. StepTypeOK'
  BY ProcessedType DEF ProcessMemProgCommand
<1> QED
  BY <1>1, <1>2, <1>3, <1>4, <1>5 DEF TypeOK

LEMMA ReadCommandType ==
  ASSUME TypeOK, ProcessMemReadCommand, UNCHANGED commandFrame
  PROVE  TypeOK'
<1>1. MemoryTypeOK' /\ CommandTypeOK' /\ ExitTypeOK' /\ BusTypeOK'
  BY Frames DEF ProcessMemReadCommand, commandFrame
<1>2. ASSUME BlankCheck PROVE RangeTypeOK' /\ StatusTypeOK'
  <2>1. CASE UNCHANGED <<rangeVars, statusVars>>
    BY <2>1, Frames
  <2>2. ASSUME NEW first \in NonBlank,
               Flash64KBPage' = (first \div 65536) % 256,
               StartAddr' = first % 65536, SetError(errCHECK_ERASED),
               UNCHANGED EndAddr
        PROVE  RangeTypeOK' /\ StatusTypeOK'
    <3>1. first \in Nat
      BY FlashGeometry DEF NonBlank
    <3>2. Flash64KBPage' \in Byte /\ StartAddr' \in Word
      BY <2>2, <3>1 DEF Byte, Word
    <3> QED
      BY <2>2, <3>2 DEF SetError, TypeOK, RangeTypeOK, StatusTypeOK
  <2> QED
    BY <1>2, <2>1, <2>2 DEF BlankCheck
<1>3. RangeTypeOK'
  BY <1>2, Frames, AddressesType DEF ProcessMemReadCommand
<1>4. StatusTypeOK'
  BY <1>2, Frames DEF ProcessMemReadCommand, TypeOK, StatusTypeOK
<1>5. StepTypeOK'
  BY ProcessedType DEF ProcessMemReadCommand
<1> QED
  BY <1>1, <1>3, <1>4, <1>5 DEF TypeOK

LEMMA WriteCommandType ==
  ASSUME TypeOK, ProcessWriteCommand, UNCHANGED commandFrame
  PROVE  TypeOK'
<1>1. MemoryTypeOK' /\ StatusTypeOK' /\ CommandTypeOK' /\ RangeTypeOK' /\ BusTypeOK'
  BY Frames DEF ProcessWriteCommand, commandFrame
<1>2. ASSUME StartApplication PROVE ExitTypeOK'
  <2>1. \A i \in 0 .. 4 : SentCommand.Data[i] \in Byte
    BY CommandFields
  <2>2. BigEndian(SentCommand.Data[3], SentCommand.Data[4]) \in Word
    BY <2>1, BigEndianType
  <2> QED
    BY <1>2, <2>2 DEF StartApplication, TypeOK, ExitTypeOK
<1>3. ExitTypeOK'
  BY <1>2, Frames DEF ProcessWriteCommand
<1>4. StepTypeOK'
  BY ProcessedType DEF ProcessWriteCommand, Goto, TypeOK, StepTypeOK, Labels
<1> QED
  BY <1>1, <1>3, <1>4 DEF TypeOK

LEMMA InfoTable ==
  /\ \A i \in DOMAIN BootloaderInfo : BootloaderInfo[i] \in Byte
  /\ \A i \in DOMAIN SignatureInfo : SignatureInfo[i] \in Byte
<1>1. ASSUME NEW i \in 0 .. 2 PROVE <<32, 220, 251>>[i + 1] \in Byte
  <2>1. i = 0 \/ i = 1 \/ i = 2
    OBVIOUS
  <2> QED
    BY <2>1 DEF Byte
<1>2. \A i \in DOMAIN SignatureInfo : SignatureInfo[i] \in Byte
  BY DEF SignatureInfo, Byte
<1> QED
  BY <1>1, <1>2 DEF BootloaderInfo

LEMMA InfoCommandType ==
  ASSUME TypeOK, ProcessReadCommand, UNCHANGED commandFrame
  PROVE  TypeOK'
<1>1. MemoryTypeOK' /\ RangeTypeOK' /\ ExitTypeOK' /\ BusTypeOK'
  BY Frames DEF ProcessReadCommand, commandFrame
<1>2. ASSUME NEW table, \A i \in DOMAIN table : table[i] \in Byte, ReadByte(table)
      PROVE  ResponseByte' \in Byte /\ StatusTypeOK'
  BY <1>2 DEF ReadByte, SetError, TypeOK, CommandTypeOK, StatusTypeOK, statusVars
<1>3. ResponseByte' \in Byte /\ StatusTypeOK'
  <2>1. CASE UNCHANGED <<ResponseByte, statusVars>>
    BY <2>1, Frames DEF TypeOK, CommandTypeOK
  <2> QED
    BY <1>2, <2>1, InfoTable DEF ProcessReadCommand
<1>4. CommandTypeOK'
  BY <1>3 DEF ProcessReadCommand, commandFrame, TypeOK, CommandTypeOK
<1>5. StepTypeOK'
  BY ProcessedType DEF ProcessReadCommand
<1> QED
  BY <1>1, <1>3, <1>4, <1>5 DEF TypeOK

LEMMA ChangeBaseType ==
  ASSUME TypeOK, ProcessChangeBase, UNCHANGED commandFrame
  PROVE  TypeOK'
<1>1. MemoryTypeOK' /\ StatusTypeOK' /\ CommandTypeOK' /\ ExitTypeOK' /\ BusTypeOK'
  BY Frames DEF ProcessChangeBase, commandFrame
<1>2. RangeTypeOK'
  BY CommandFields DEF ProcessChangeBase, TypeOK, RangeTypeOK
<1>3. StepTypeOK'
  BY ProcessedType DEF ProcessChangeBase
<1> QED
  BY <1>1, <1>2, <1>3 DEF TypeOK

LEMMA UnknownType ==
  ASSUME TypeOK, UnknownCommand, UNCHANGED commandFrame
  PROVE  TypeOK'
  BY Frames, ProcessedType DEF UnknownCommand, commandFrame, TypeOK

LEMMA ProcessType ==
  ASSUME TypeOK, ProcessBootloaderCommand
  PROVE  TypeOK'
  BY RefuseType, ProgramCommandType, ReadCommandType, WriteCommandType,
     InfoCommandType, ChangeBaseType, UnknownType
  DEF ProcessBootloaderCommand, commandFrame

LEMMA EraseNextType ==
  ASSUME TypeOK, EraseNextPage
  PROVE  TypeOK'
<1>1. StatusTypeOK' /\ RangeTypeOK' /\ ExitTypeOK' /\ BusTypeOK'
  BY Frames DEF EraseNextPage
<1>2. loop \in Locals
  BY DEF TypeOK, StepTypeOK
<1>3. MemoryTypeOK'
  <2>1. loop.cursor \in Nat
    BY <1>2 DEF Locals
  <2> QED
    BY <2>1, EraseType DEF EraseNextPage, TypeOK, MemoryTypeOK
<1>4. CommandTypeOK'
  BY DEF EraseNextPage, TypeOK, CommandTypeOK
<1>5. StepTypeOK'
  BY <1>2, FlashGeometry DEF EraseNextPage, NextPage, TypeOK, StepTypeOK, Locals, Labels
<1> QED
  BY <1>1, <1>3, <1>4, <1>5 DEF TypeOK

-----------------------------------------------------------------------------
(* The firmware of a download.  A word that is read from the endpoint is    *)
(* the tag of an address, or no firmware at all.                            *)
LEMMA RequestFields ==
  ASSUME BusTypeOK
  PROVE  /\ \A i \in 0 .. 4 : request.Data[i] \in Byte
         /\ request.wLength \in Word
<1>1. request \in Request
  BY DEF BusTypeOK
<1>2. request.Data \in CommandData /\ request.wLength \in Word
  BY <1>1 DEF Request
<1> QED
  BY <1>2 DEF CommandData

LEMMA StreamType ==
  ASSUME TypeOK, NEW p \in Int
  PROVE  StreamByte(p) \in Nat \cup {Junk}
<1>1. HostStart \in Nat
  BY RequestFields, BigEndianType, WordNatural DEF HostStart, TypeOK
<1>2. HostStart % FIXED_CONTROL_ENDPOINT_SIZE \in Nat
  BY <1>1, DFUConstants DEF HeaderSize
<1> DEFINE first == HeaderSize + DFU_FILLER_BYTES_SIZE
                      + (HostStart % FIXED_CONTROL_ENDPOINT_SIZE)
<1>3. first \in Nat
  BY <1>2, DFUConstants DEF HeaderSize
<1> HIDE DEF first
<1> DEFINE address == HostStart + p - first
<1>4. p >= first => address \in Nat /\ Long(address) \in Nat
  BY <1>1, <1>3 DEF TypeOK, RangeTypeOK, Byte, Long
<1>5. StreamByte(p) = IF request.Command = COMMAND_PROG_START /\ p >= first
                           /\ address <= HostEnd
                      THEN IF request.Data[0] = 0 THEN Long(address) ELSE address
                      ELSE Junk
  BY DEF StreamByte, first
<1> HIDE DEF address
<1> QED
  BY <1>4, <1>5

LEMMA ReadType ==
  ASSUME TypeOK, NEW k \in Nat
  PROVE  Read8(k) \in Nat \cup {Junk}
<1>1. Position + k \in Int
  BY DEF Position, TypeOK, BusTypeOK, Packet
<1> QED
  BY <1>1, StreamType DEF Read8

LEMMA BytesRemainingType ==
  ASSUME TypeOK
  PROVE  BytesRemaining \in Word
<1>1. EndAddr - StartAddr + 1 \in Int
  BY DEF TypeOK, RangeTypeOK, Word
<1> QED
  BY <1>1, WordModulo DEF BytesRemaining

(* A step of the firmware loops that leaves memory and addresses alone.     *)
LEMMA LocalStepType ==
  ASSUME TypeOK, UNCHANGED <<flashVars, eeprom, rangeVars, firmwareFrame>>,
         DFU_State' \in {DFU_State, dfuIDLE},
         UNCHANGED <<request, reply>>, ep' \in Packet,
         pc' \in Labels, loop' \in Locals
  PROVE  TypeOK'
<1>1. MemoryTypeOK' /\ RangeTypeOK'
  BY Frames
<1>2. CommandTypeOK' /\ ExitTypeOK'
  BY Frames DEF firmwareFrame
<1>3. StatusTypeOK'
  BY DEF firmwareFrame, TypeOK, StatusTypeOK
<1>4. BusTypeOK'
  BY DEF firmwareFrame, TypeOK, BusTypeOK
<1> QED
  BY <1>1, <1>2, <1>3, <1>4 DEF TypeOK, StepTypeOK

LEMMA FirmwareStageType ==
  ASSUME TypeOK, FirmwareStage, UNCHANGED firmwareFrame
  PROVE  TypeOK'
<1>1. MemoryTypeOK' /\ RangeTypeOK'
  BY Frames DEF FirmwareStage
<1>2. CommandTypeOK' /\ ExitTypeOK'
  BY Frames DEF firmwareFrame
<1>3. StatusTypeOK'
  BY DEF FirmwareStage, firmwareFrame, TypeOK, StatusTypeOK
<1>4. BusTypeOK' /\ StepTypeOK'
  <2>1. CASE Return
    BY <2>1, ReturnType DEF firmwareFrame, TypeOK
  <2>2. CASE Enter("filler", DFU_FILLER_BYTES_SIZE) /\ UNCHANGED <<request, ep, reply>>
    BY <2>2, DFUConstants
    DEF Enter, firmwareFrame, TypeOK, BusTypeOK, StepTypeOK, Locals, Labels, OutStages
  <2> QED
    BY <2>1, <2>2 DEF FirmwareStage
<1> QED
  BY <1>1, <1>2, <1>3, <1>4 DEF TypeOK

LEMMA DiscardType ==
  ASSUME TypeOK, DiscardFillerBytes \/ DiscardGivenUp, UNCHANGED firmwareFrame
  PROVE  TypeOK'
<1>1. ep \in Packet /\ loop \in Locals
  BY DEF TypeOK, BusTypeOK, StepTypeOK
<1>2. ep' \in Packet
  BY <1>1, ConsumeType DEF DiscardFillerBytes, DiscardGivenUp, ClearPacket, Packet, Locals
<1>3. loop' \in Locals
  BY <1>1 DEF DiscardFillerBytes, DiscardGivenUp, Locals, Packet
<1>4. pc' \in Labels
  BY DEF DiscardFillerBytes, DiscardGivenUp, TypeOK, StepTypeOK
<1> QED
  BY <1>2, <1>3, <1>4, LocalStepType DEF DiscardFillerBytes, DiscardGivenUp

(* The steps between the parts of a download.                               *)
LEMMA StageChangeType ==
  ASSUME TypeOK, AlignFirmware \/ StartWriting \/ FetchPacket \/ EepromWritten,
         UNCHANGED firmwareFrame
  PROVE  TypeOK'
<1>1. ep \in Packet /\ loop \in Locals /\ StartAddr \in Nat
  BY WordNatural DEF TypeOK, BusTypeOK, StepTypeOK, RangeTypeOK
<1>2. ep' \in Packet
  BY <1>1 DEF AlignFirmware, StartWriting, FetchPacket, EepromWritten, ClearPacket, Packet
<1>3. StartAddr % FIXED_CONTROL_ENDPOINT_SIZE \in Nat
  BY <1>1, DFUConstants DEF HeaderSize
<1>4. BytesRemaining \in Nat /\ BytesRemaining \div 2 \in Nat
  <2>1. BytesRemaining \in Nat
    BY BytesRemainingType, WordNatural
  <2> HIDE DEF BytesRemaining
  <2> QED
    BY <2>1
<1>5. Long(StartAddr) \in Nat
  BY LongType DEF TypeOK, RangeTypeOK
<1>6. loop' \in Locals
  BY <1>1, <1>3, <1>4, <1>5, DFUConstants
  DEF AlignFirmware, StartWriting, FetchPacket, EepromWritten, Enter, stepVars, Locals
<1>7. pc' \in Labels
  BY DEF AlignFirmware, StartWriting, FetchPacket, EepromWritten, Enter, stepVars,
         TypeOK, StepTypeOK, Labels, OutStages
<1> QED
  BY <1>2, <1>6, <1>7, LocalStepType
  DEF AlignFirmware, StartWriting, FetchPacket, EepromWritten, stepVars

LEMMA LoopCountersType ==
  ASSUME NEW l \in Locals, NEW r \in Nat, NEW c \in Nat, NEW w \in Nat
  PROVE  [l EXCEPT !.remaining = r, !.cursor = c, !.words = w] \in Locals
  BY DEF Locals

(* The steps of the flash loop that program or erase.                       *)
LEMMA FlashLoopType ==
  ASSUME TypeOK, WriteFlashWord \/ CommitPage \/ StartNextPage, UNCHANGED firmwareFrame
  PROVE  TypeOK'
<1>1. ep \in Packet /\ loop \in Locals
  BY DEF TypeOK, BusTypeOK, StepTypeOK
<1>2. RangeTypeOK'
  BY Frames DEF WriteFlashWord, CommitPage, StartNextPage
<1>3. CommandTypeOK' /\ ExitTypeOK'
  BY Frames DEF firmwareFrame
<1>4. StatusTypeOK'
  BY DEF WriteFlashWord, CommitPage, StartNextPage, firmwareFrame, TypeOK, StatusTypeOK
<1>5. BusTypeOK'
  <2>1. ep' \in Packet
    BY <1>1, ConsumeType DEF WriteFlashWord, CommitPage, StartNextPage
  <2> QED
    BY <2>1 DEF WriteFlashWord, CommitPage, StartNextPage, firmwareFrame,
                TypeOK, BusTypeOK
<1>6. StepTypeOK'
  <2>1. pc' \in Labels
    BY DEF WriteFlashWord, CommitPage, StartNextPage, Goto, Labels, OutStages
  <2>2. CASE WriteFlashWord
    <3>1. loop' = [loop EXCEPT !.remaining = loop.remaining - 1,
                              !.cursor = loop.cursor + 2, !.words = loop.words + 1]
      BY <2>2 DEF WriteFlashWord
    <3>2. /\ loop.remaining - 1 \in Nat /\ loop.cursor + 2 \in Nat
          /\ loop.words + 1 \in Nat
      BY <1>1, <2>2 DEF WriteFlashWord, Locals
    <3>3. loop' \in Locals
      BY <1>1, <3>1, <3>2, LoopCountersType
    <3> QED
      BY <2>1, <3>3 DEF StepTypeOK
  <2>3. CASE CommitPage
    BY <1>1, <2>1, <2>3 DEF CommitPage, Goto, StepTypeOK
  <2>4. CASE StartNextPage
    BY <1>1, <2>1, <2>4 DEF StartNextPage, StepTypeOK, Locals
  <2> QED
    BY <2>2, <2>3, <2>4
<1>7. MemoryTypeOK'
  <2>1. loop.cursor \in Nat /\ loop.pageStart \in Nat
    BY <1>1 DEF Locals
  <2>2. Read8(0) \in Int /\ Read8(1) \in Int
    BY ReadType DEF Junk
  <2>3. FlashTypeOK'
    BY <2>1, <2>2, EraseType, WriteType, FillType
    DEF WriteFlashWord, CommitPage, StartNextPage, TypeOK, MemoryTypeOK
  <2> QED
    BY <2>3 DEF WriteFlashWord, CommitPage, StartNextPage, TypeOK, MemoryTypeOK
<1> QED
  BY <1>2, <1>3, <1>4, <1>5, <1>6, <1>7 DEF TypeOK

LEMMA FlashWrittenType ==
  ASSUME TypeOK, FlashWritten, UNCHANGED firmwareFrame
  PROVE  TypeOK'
<1>1. MemoryTypeOK'
  BY Frames DEF FlashWritten
<1>2. CommandTypeOK' /\ ExitTypeOK'
  BY Frames DEF firmwareFrame
<1>3. StatusTypeOK' /\ RangeTypeOK'
  BY DEF FlashWritten, firmwareFrame, TypeOK, StatusTypeOK, RangeTypeOK
<1>4. BusTypeOK'
  BY DEF FlashWritten, firmwareFrame, TypeOK, BusTypeOK
<1>5. StepTypeOK'
  BY DFUConstants DEF FlashWritten, Enter, TypeOK, StepTypeOK, Locals, Labels, OutStages
<1> QED
  BY <1>1, <1>2, <1>3, <1>4, <1>5 DEF TypeOK

LEMMA WriteEepromType ==
  ASSUME TypeOK, WriteEepromByte, UNCHANGED firmwareFrame
  PROVE  TypeOK'
<1>1. ep \in Packet /\ loop \in Locals /\ StartAddr \in Nat
  BY WordNatural DEF TypeOK, BusTypeOK, StepTypeOK, RangeTypeOK
<1>2. CommandTypeOK' /\ ExitTypeOK'
  BY Frames DEF firmwareFrame
<1>3. StatusTypeOK'
  BY DEF WriteEepromByte, firmwareFrame, TypeOK, StatusTypeOK
<1>4. RangeTypeOK'
  BY <1>1, WordModulo DEF WriteEepromByte, TypeOK, RangeTypeOK
<1>5. MemoryTypeOK'
  <2>1. Read8(0) \in Int
    BY ReadType DEF Junk
  <2>2. eeprom \in [EepromAddresses -> Int]
    BY DEF TypeOK, MemoryTypeOK
  <2>3. eeprom' \in [EepromAddresses -> Int]
    <3> DEFINE a == StartAddr % (E2END + 1)
    <3>1. eeprom' = [eeprom EXCEPT ![a] = Read8(0)]
      BY DEF WriteEepromByte
    <3> HIDE DEF a
    <3> QED
      BY <2>1, <2>2, <3>1
  <2>4. FlashTypeOK'
    BY DEF WriteEepromByte, TypeOK, MemoryTypeOK, FlashTypeOK, flashVars
  <2> QED
    BY <2>3, <2>4 DEF MemoryTypeOK
<1>6. BusTypeOK'
  BY <1>1, ConsumeType DEF WriteEepromByte, firmwareFrame, TypeOK, BusTypeOK
<1>7. StepTypeOK'
  BY <1>1 DEF WriteEepromByte, Enter, StepTypeOK, Locals, Labels, OutStages
<1> QED
  BY <1>2, <1>3, <1>4, <1>5, <1>6, <1>7 DEF TypeOK

LEMMA FirmwareDoneType ==
  ASSUME TypeOK, FirmwareDone, UNCHANGED firmwareFrame
  PROVE  TypeOK'
<1>1. MemoryTypeOK' /\ RangeTypeOK'
  BY Frames DEF FirmwareDone
<1>2. CommandTypeOK' /\ ExitTypeOK' /\ StatusTypeOK'
  BY Frames DEF FirmwareDone, firmwareFrame, statusVars
<1>3. BusTypeOK' /\ StepTypeOK'
  BY ReturnType DEF FirmwareDone, firmwareFrame, TypeOK
<1> QED
  BY <1>1, <1>2, <1>3 DEF TypeOK

LEMMA WriteFirmwareType ==
  ASSUME TypeOK, WriteFirmware
  PROVE  TypeOK'
  BY FirmwareStageType, DiscardType, StageChangeType, FlashLoopType, FlashWrittenType,
     WriteEepromType, FirmwareDoneType
  DEF WriteFirmware

-----------------------------------------------------------------------------
(* Answers.  They leave memory, command and exit alone.                     *)
LEMMA ModuloRange ==
  ASSUME NEW a \in Nat, NEW last \in Nat
  PROVE  a % (last + 1) \in 0 .. last
<1>1. \A m \in Nat \ {0} : a % m \in 0 .. m - 1
  OBVIOUS
<1>2. last + 1 \in Nat \ {0} /\ last + 1 - 1 = last
  OBVIOUS
<1> QED
  BY <1>1, <1>2

LEMMA FlashByteType ==
  ASSUME MemoryTypeOK, NEW a \in Nat
  PROVE  FlashByte(a) \in Int
<1>1. FLASHEND \in Nat
  BY FlashGeometry
<1>2. a % 65536 \in Nat
  BY WordModulo, WordNatural
<1>3. (a % 65536) % (FLASHEND + 1) \in 0 .. FLASHEND
  BY <1>1, <1>2, ModuloRange
<1> QED
  BY <1>3 DEF FlashByte, MemoryTypeOK, FlashTypeOK, FlashAddresses

LEMMA EepromByteType ==
  ASSUME MemoryTypeOK, NEW a \in Nat
  PROVE  eeprom[a % (E2END + 1)] \in Int
<1>1. E2END \in Nat
  BY DFUConstants
<1>2. a % (E2END + 1) \in 0 .. E2END
  BY <1>1, ModuloRange
<1> QED
  BY <1>2 DEF MemoryTypeOK, EepromAddresses

LEMMA SendType ==
  ASSUME BusTypeOK, NEW bytes \in Seq(Int), Send(bytes) \/ Write(bytes)
  PROVE  reply' \in Seq(Int) /\ ep' \in Packet
<1>1. ep \in Packet /\ reply \in Seq(Int)
  BY DEF BusTypeOK
<1>2. reply' \in Seq(Int)
  <2>1. reply' = reply \o bytes
    BY DEF Send, Write
  <2>2. reply \o bytes \in Seq(Int)
    BY <1>1
  <2> QED
    BY <2>1, <2>2
<1>3. Len(bytes) \in Nat
  OBVIOUS
<1>4. ep.bank + Len(bytes) \in Nat
  BY <1>1, <1>3 DEF Packet
<1> DEFINE size == ep.bank + Len(bytes)
<1>5. \/ ep' = [ep EXCEPT !.bank = size]
      \/ ep' = [ep EXCEPT !.bank = size, !.turn = "host"]
  BY DEF Send, Write
<1> HIDE DEF size
<1>6. ep' \in Packet
  BY <1>1, <1>4, <1>5 DEF Packet, size
<1> QED
  BY <1>2, <1>6

LEMMA EmptyAnswer == <<>> \in Seq(Int)
  OBVIOUS

LEMMA AnswersType ==
  ASSUME TypeOK, AnswerRequest
  PROVE  /\ MemoryTypeOK' /\ CommandTypeOK' /\ ExitTypeOK'
         /\ StatusTypeOK' /\ RangeTypeOK'
<1>1. MemoryTypeOK' /\ CommandTypeOK' /\ ExitTypeOK'
  BY Frames DEF AnswerRequest, answerFrame
<1>2. StatusTypeOK'
  BY DEF AnswerRequest, answerFrame, AnswerState, AnswerUpload, StartReading,
         SendFullPacket, ReadFlashWord, ReadEepromByte, MemoryRead, StatusStage,
         TypeOK, StatusTypeOK
<1>3. RangeTypeOK'
  <2>1. CASE UNCHANGED rangeVars
    BY <2>1, Frames
  <2>2. CASE ReadEepromByte
    <3>1. StartAddr + 1 \in Int
      BY DEF TypeOK, RangeTypeOK, Word
    <3> QED
      BY <2>2, <3>1, WordModulo DEF ReadEepromByte, TypeOK, RangeTypeOK
  <2>3. CASE MemoryRead
    BY <2>3 DEF MemoryRead, TypeOK, RangeTypeOK
  <2> QED
    BY <2>1, <2>2, <2>3
    DEF AnswerRequest, AnswerState, AnswerUpload, StartReading, SendFullPacket,
        ReadFlashWord, StatusStage
<1> QED
  BY <1>1, <1>2, <1>3

LEMMA StateAnswerType ==
  ASSUME TypeOK
  PROVE  StateAnswer \in Seq(Int) /\ IdleAnswer \in Seq(Int)
<1>1. DFU_Status \in Int /\ DFU_State \in Int
  BY DEF TypeOK, StatusTypeOK, OK, errWRITE, errCHECK_ERASED, errADDRESS,
         dfuIDLE, dfuDNLOAD_IDLE, dfuUPLOAD_IDLE, dfuERROR
<1>2. ResponseByte \in Int
  BY DEF TypeOK, CommandTypeOK, Byte
<1>3. StartAddr % 256 \in Int /\ StartAddr \div 256 \in Int
  <2>1. StartAddr \in Nat
    BY WordNatural DEF TypeOK, RangeTypeOK
  <2> QED
    BY <2>1
<1> QED
  BY <1>1, <1>2, <1>3 DEF StateAnswer, IdleAnswer

LEMMA AnswerStateType ==
  ASSUME TypeOK, AnswerState \/ AnswerUpload, UNCHANGED answerFrame
  PROVE  BusTypeOK' /\ StepTypeOK'
<1>1. reply' \in Seq(Int) /\ ep' \in Packet
  BY SendType, StateAnswerType DEF AnswerState, AnswerUpload, TypeOK
<1> QED
  BY <1>1 DEF AnswerState, AnswerUpload, Send, answerFrame, TypeOK, BusTypeOK,
              StepTypeOK, Labels, InStages

LEMMA StartReadingType ==
  ASSUME TypeOK, StartReading, UNCHANGED answerFrame
  PROVE  BusTypeOK' /\ StepTypeOK'
<1>1. BytesRemaining \in Nat /\ BytesRemaining \div 2 \in Nat /\ Long(StartAddr) \in Nat
  <2>1. BytesRemaining \in Nat
    BY BytesRemainingType, WordNatural
  <2>2. Long(StartAddr) \in Nat
    BY LongType DEF TypeOK, RangeTypeOK
  <2> HIDE DEF BytesRemaining
  <2> QED
    BY <2>1, <2>2
<1>2. BusTypeOK'
  <2>1. Send(<<>>) => reply' \in Seq(Int) /\ ep' \in Packet
    BY SendType, EmptyAnswer DEF TypeOK
  <2> QED
    BY <2>1 DEF StartReading, answerFrame, TypeOK, BusTypeOK
<1>3. loop' \in Locals
  BY <1>1 DEF StartReading, Enter, TypeOK, StepTypeOK, Locals
<1>4. pc' \in Labels
  BY DEF StartReading, Enter, Send, Labels, InStages
<1> QED
  BY <1>2, <1>3, <1>4 DEF StepTypeOK

LEMMA ReadStepsType ==
  ASSUME TypeOK, SendFullPacket \/ ReadFlashWord \/ ReadEepromByte,
         UNCHANGED answerFrame
  PROVE  BusTypeOK' /\ StepTypeOK'
<1>1. loop \in Locals /\ pc \in Labels /\ StartAddr \in Nat
  BY WordNatural DEF TypeOK, StepTypeOK, RangeTypeOK
<1>2. reply' \in Seq(Int) /\ ep' \in Packet
  <2>1. CASE SendFullPacket
    BY <2>1 DEF SendFullPacket, ClearPacket, TypeOK, BusTypeOK, Packet
  <2>2. CASE ReadFlashWord
    <3>1. FlashByte(loop.cursor) \in Int /\ FlashByte(loop.cursor + 1) \in Int
      BY <1>1, FlashByteType DEF Locals, TypeOK
    <3>2. <<FlashByte(loop.cursor), FlashByte(loop.cursor + 1)>> \in Seq(Int)
      BY <3>1
    <3> QED
      BY <2>2, <3>2, SendType DEF ReadFlashWord, TypeOK
  <2>3. CASE ReadEepromByte
    <3> DEFINE byte == eeprom[StartAddr % (E2END + 1)]
    <3>1. Write(<<byte>>)
      BY <2>3 DEF ReadEepromByte
    <3>2. byte \in Int
      BY <1>1, EepromByteType DEF TypeOK
    <3> HIDE DEF byte
    <3>3. <<byte>> \in Seq(Int)
      BY <3>2
    <3> QED
      BY <3>1, <3>3, SendType DEF TypeOK
  <2> QED
    BY <2>1, <2>2, <2>3
<1>3. BusTypeOK'
  BY <1>2 DEF SendFullPacket, ReadFlashWord, ReadEepromByte, answerFrame,
              TypeOK, BusTypeOK
<1>4. loop' \in Locals
  <2>1. CASE SendFullPacket
    BY <1>1, <2>1 DEF SendFullPacket, stepVars
  <2>2. CASE ReadFlashWord
    <3>1. loop' = [loop EXCEPT !.remaining = loop.remaining - 1,
                              !.cursor = loop.cursor + 2]
      BY <2>2 DEF ReadFlashWord
    <3>2. loop.remaining - 1 \in Nat /\ loop.cursor + 2 \in Nat
      BY <1>1, <2>2 DEF ReadFlashWord, Locals
    <3> QED
      BY <1>1, <3>1, <3>2 DEF Locals
  <2>3. CASE ReadEepromByte
    BY <1>1, <2>3 DEF ReadEepromByte, Locals
  <2> QED
    BY <2>1, <2>2, <2>3
<1> QED
  BY <1>1, <1>3, <1>4
  DEF SendFullPacket, ReadFlashWord, ReadEepromByte, stepVars, StepTypeOK

LEMMA LastStepsType ==
  ASSUME TypeOK, MemoryRead \/ StatusStage, UNCHANGED answerFrame
  PROVE  BusTypeOK' /\ StepTypeOK'
<1>1. CASE StatusStage
  BY <1>1, ReturnType DEF StatusStage, answerFrame, TypeOK
<1>2. CASE MemoryRead
  <2>1. reply' \in Seq(Int) /\ ep' \in Packet
    BY <1>2, SendType, EmptyAnswer DEF MemoryRead, TypeOK
  <2> QED
    BY <1>2, <2>1 DEF MemoryRead, Send, answerFrame, TypeOK, BusTypeOK, StepTypeOK,
                      Labels, InStages
<1> QED
  BY <1>1, <1>2

LEMMA AnswerType ==
  ASSUME TypeOK, AnswerRequest
  PROVE  TypeOK'
<1>1. BusTypeOK' /\ StepTypeOK'
  BY AnswerStateType, StartReadingType, ReadStepsType, LastStepsType DEF AnswerRequest
<1> QED
  BY <1>1, AnswersType DEF TypeOK
-----------------------------------------------------------------------------
(* Waiting, the host, the cable and the reset line.                         *)
LEMMA GiveUpType ==
  ASSUME TypeOK, GiveUp
  PROVE  TypeOK'
<1>1. BusTypeOK' /\ StepTypeOK'
  BY ReturnType DEF GiveUp, TypeOK
<1> QED
  BY <1>1, Frames DEF GiveUp, TypeOK

LEMMA BusStepType ==
  ASSUME TypeOK, HostSendsPacket \/ HostTakesPacket \/ Detach \/ Attach
  PROVE  TypeOK'
<1>1. UNCHANGED busFrame
  BY DEF HostSendsPacket, HostTakesPacket, Detach, Attach
<1>2. MemoryTypeOK' /\ CommandTypeOK' /\ StatusTypeOK' /\ RangeTypeOK' /\ ExitTypeOK'
      /\ StepTypeOK'
  BY <1>1, Frames DEF busFrame
<1>3. ep \in Packet /\ request.wLength \in Nat
  BY RequestFields, WordNatural DEF TypeOK, BusTypeOK
<1>4. ep' \in Packet
  BY <1>3, DFUConstants DEF HostSendsPacket, HostTakesPacket, Detach, Attach, Packet
<1> QED
  BY <1>1, <1>2, <1>4 DEF HostSendsPacket, HostTakesPacket, Detach, Attach, busFrame,
                          TypeOK, BusTypeOK

LEMMA ZeroValues == 0 \in Byte /\ 0 \in Word
  BY DEF Byte, Word

LEMMA RestartType ==
  ASSUME TypeOK, WatchdogFires \/ PowerFails
  PROVE  TypeOK'
<1>1. MemoryTypeOK'
  <2>1. EmptyBuffer \in [PageOffsets -> Int]
    BY DEF EmptyBuffer, Blank
  <2> QED
    BY <2>1 DEF WatchdogFires, PowerFails, Restart, TypeOK, MemoryTypeOK, FlashTypeOK
<1>2. Restart /\ MagicBootKey' \in BOOLEAN
  BY DEF WatchdogFires, PowerFails, TypeOK, ExitTypeOK
<1>3. StatusTypeOK'
  BY <1>2 DEF Restart, StatusTypeOK
<1>4. RangeTypeOK'
  BY <1>2 DEF Restart, RangeTypeOK, Byte, Word
<1>5. ExitTypeOK'
  BY <1>2, Zenon, ZeroValues DEF Restart, ExitTypeOK
<1>6. CommandTypeOK'
  BY <1>2, StepValues, ZeroValues, DFUConstants DEF Restart, CommandTypeOK
<1>7. BusTypeOK'
  BY <1>2, StepValues, EmptyAnswer DEF Restart, BusTypeOK
<1>8. StepTypeOK'
  BY <1>2, StepValues DEF Restart, StepTypeOK, Labels
<1> QED
  BY <1>1, <1>3, <1>4, <1>5, <1>6, <1>7, <1>8 DEF TypeOK

LEMMA InitType ==
  ASSUME Init
  PROVE  TypeOK
<1>1. MemoryTypeOK
  BY InitFlashType DEF Init, MemoryTypeOK, Saved
<1>2. StatusTypeOK
  BY DEF Init, StatusTypeOK
<1>3. RangeTypeOK
  BY DEF Init, RangeTypeOK, Byte, Word
<1>4. ExitTypeOK
  BY ZeroValues, Zenon DEF Init, ExitTypeOK
<1>5. CommandTypeOK
  BY StepValues, ZeroValues, DFUConstants DEF Init, CommandTypeOK
<1>6. BusTypeOK
  BY StepValues, EmptyAnswer DEF Init, BusTypeOK
<1>7. StepTypeOK
  BY StepValues DEF Init, StepTypeOK, Labels
<1> QED
  BY <1>1, <1>2, <1>3, <1>4, <1>5, <1>6, <1>7 DEF TypeOK

LEMMA TypeStep == TypeOK /\ [Next]_vars => TypeOK'
<1>1. ASSUME TypeOK, UNCHANGED vars PROVE TypeOK'
  BY <1>1, Frames DEF vars, busVars, TypeOK
<1> QED
  BY <1>1, RequestType, FinishExitType, LoadCommandType, ProcessType, EraseNextType,
     WriteFirmwareType, AnswerType, GiveUpType, BusStepType, RestartType
  DEF Next, Handler, Environment

(* Every variable keeps its width and its set of values: no address, count  *)
(* or byte of BootloaderDFU.c leaves the type the code gives it.            *)
THEOREM DFUTypeOK == Spec => []TypeOK
  BY InitType, TypeStep, PTL DEF Spec
-----------------------------------------------------------------------------
(* No byte that waits to be programmed is an application byte of before.    *)
Clean ==
  /\ \A i \in PageOffsets : pageBuffer[i] # Original
  /\ \A a \in EepromAddresses : eeprom[a] # Original

(* The chip erase has blanked every page below its cursor.                  *)
EraseProgress ==
  /\ pc = "process" => loop.cursor = 0
  /\ pc = "erase" => /\ loop.cursor < BOOT_START_ADDR
                     /\ loop.cursor % SPM_PAGESIZE = 0
                     /\ \A a \in Application : a < loop.cursor => flash[a] = Blank

(* While locked no transfer is announced, and none is under way.            *)
LockedQuiet ==
  IsSecure => /\ DFU_State \in {dfuIDLE, dfuERROR}
              /\ pc \notin {"filler", "align", "flash", "eeprom", "suffix", "commit",
                            "eraseNext", "upFlash", "upEeprom"}

(* The exit is pending from its command to its acknowledgement; the command *)
(* is overwritten only when it no longer is.                                *)
ExitOrder ==
  /\ pc = "command" => ~WaitForExit
  /\ pc = "process" /\ loop.caller = "exit" => WaitForExit
  /\ pc = "erase" => loop.caller # "exit"

(* Only a build that starts locked is ever locked.                          *)
LockOrigin == IsSecure => SECURE_MODE

DFUInv ==
  /\ TypeOK /\ LockOrigin
  /\ BootSectionIntact /\ Clean /\ EraseProgress
  /\ LockedQuiet /\ SecretsGone /\ NoSecretSent
  /\ ExitOrder /\ ExitPending
-----------------------------------------------------------------------------
(* How flash, its page buffer and the lock change.                          *)
LEMMA MemorySteps ==
  ASSUME TypeOK, [Next]_vars
  PROVE  \/ UNCHANGED <<flash, pageBuffer>>
         \/ \E a \in Nat : ErasePage(a)
         \/ pc = "commit" /\ \E a \in Nat : WritePage(a)
         \/ \E a \in Nat, low, high \in Nat \cup {Junk} : FillWord(a, low, high)
         \/ UNCHANGED flash /\ pageBuffer' = EmptyBuffer
<1>1. loop.cursor \in Nat /\ loop.pageStart \in Nat
  BY DEF TypeOK, StepTypeOK, Locals
<1>2. CASE UNCHANGED flashVars
  BY <1>2 DEF flashVars
<1>3. CASE WatchdogFires \/ PowerFails
  BY <1>3 DEF WatchdogFires, PowerFails, Restart
<1>4. CASE ProcessBootloaderCommand
  <2>1. CASE ProcessMemProgCommand /\ ~UNCHANGED flashVars
    <3>1. LoadStartEndAddresses /\ ErasePage(Long(StartAddr'))
      BY <2>1 DEF ProcessMemProgCommand
    <3>2. RangeTypeOK' /\ Flash64KBPage' = Flash64KBPage
      BY <3>1, AddressesType DEF LoadStartEndAddresses
    <3>3. Long(StartAddr') \in Nat
      BY <3>2, LongType DEF RangeTypeOK, TypeOK
    <3> QED
      BY <3>1, <3>3
  <2> QED
    BY <1>2, <1>4, <2>1
    DEF ProcessBootloaderCommand, RefuseCommand, ProcessMemReadCommand,
        ProcessWriteCommand, ProcessReadCommand, ProcessChangeBase, UnknownCommand
<1>5. CASE EraseNextPage
  BY <1>1, <1>5 DEF EraseNextPage
<1>6. CASE WriteFirmware
  <2>1. CASE WriteFlashWord
    BY <1>1, <2>1, ReadType DEF WriteFlashWord
  <2>2. CASE CommitPage \/ StartNextPage
    BY <1>1, <2>2 DEF CommitPage, StartNextPage
  <2> QED
    BY <1>2, <1>6, <2>1, <2>2
    DEF WriteFirmware, FirmwareStage, DiscardFillerBytes, DiscardGivenUp, AlignFirmware,
        StartWriting, FetchPacket, FlashWritten, WriteEepromByte, EepromWritten,
        FirmwareDone
<1>7. CASE \/ EVENT_USB_Device_ControlRequest \/ FinishExit \/ LoadCommand
           \/ AnswerRequest \/ GiveUp \/ HostSendsPacket \/ HostTakesPacket
           \/ Detach \/ Attach \/ UNCHANGED vars
  BY <1>2, <1>7
  DEF EVENT_USB_Device_ControlRequest, Download, Upload, GetStatusOrState, ClearStatus,
      Abort, Unhandled, Setup, FinishExit, LoadCommand, AnswerRequest, answerFrame,
      GiveUp, HostSendsPacket, HostTakesPacket, Detach, Attach, busFrame, vars
<1> QED
  BY <1>3, <1>4, <1>5, <1>6, <1>7 DEF Next, Handler, Environment

(* A flash byte is never turned back into an application byte of before.    *)
LEMMA NoNewOriginal ==
  ASSUME TypeOK, Clean, [Next]_vars, NEW c \in FlashAddresses, flash[c] # Original
  PROVE  flash'[c] # Original
<1>1. ASSUME NEW a \in Nat, ErasePage(a) PROVE flash'[c] # Original
  BY <1>1 DEF ErasePage, Blank, Original
<1>2. ASSUME NEW a \in Nat, WritePage(a) PROVE flash'[c] # Original
  <2>1. ASSUME c \in PageCells(a) PROVE pageBuffer[c - a] # Original
    BY <2>1, FlashGeometry DEF Clean, PageCells, PageOffsets, FlashAddresses
  <2> QED
    BY <1>2, <2>1 DEF WritePage, Program, Corrupt, Original
<1> QED
  BY <1>1, <1>2, MemorySteps DEF FillWord

LEMMA BootStep ==
  ASSUME TypeOK, BootSectionIntact, [Next]_vars
  PROVE  BootSectionIntact'
<1>1. CASE UNCHANGED flash
  BY <1>1 DEF BootSectionIntact
<1> QED
  BY <1>1, MemorySteps, EraseKeepsBoot, WriteKeepsBoot DEF FillWord
-----------------------------------------------------------------------------
LEMMA CleanBuffer ==
  ASSUME TypeOK, Clean, [Next]_vars, NEW i \in PageOffsets
  PROVE  pageBuffer'[i] # Original
<1>1. CASE UNCHANGED pageBuffer
  BY <1>1 DEF Clean
<1>2. CASE pageBuffer' = EmptyBuffer
  BY <1>2 DEF EmptyBuffer, Blank, Original
<1>3. ASSUME NEW a \in Nat, NEW low \in Nat \cup {Junk}, NEW high \in Nat \cup {Junk},
             FillWord(a, low, high)
      PROVE  pageBuffer'[i] # Original
  <2>1. low # Original /\ high # Original
    BY DEF Junk, Original
  <2>2. pageBuffer \in [PageOffsets -> Int] /\ pageBuffer[i] # Original
    BY DEF TypeOK, MemoryTypeOK, FlashTypeOK, Clean
  <2> DEFINE slot == (a % SPM_PAGESIZE) - (a % 2)
  <2>3. \/ pageBuffer' = pageBuffer
        \/ pageBuffer' = [pageBuffer EXCEPT ![slot] = low, ![slot + 1] = high]
    BY <1>3 DEF FillWord
  <2> HIDE DEF slot
  <2> QED
    BY <2>1, <2>2, <2>3
<1> QED
  BY <1>1, <1>2, <1>3, MemorySteps DEF ErasePage, WritePage, BufferAfterRwwEnable

LEMMA EepromSteps ==
  ASSUME [Next]_vars
  PROVE  UNCHANGED eeprom \/ WriteEepromByte
<1>1. CASE WriteFirmware
  BY <1>1
  DEF WriteFirmware, FirmwareStage, DiscardFillerBytes, DiscardGivenUp, AlignFirmware,
      StartWriting, FetchPacket, WriteFlashWord, CommitPage, StartNextPage, FlashWritten,
      EepromWritten, FirmwareDone
<1>2. CASE ~WriteFirmware
  BY <1>2
  DEF Next, Handler, Environment, EVENT_USB_Device_ControlRequest, Download, Upload,
      GetStatusOrState, ClearStatus, Abort, Unhandled, Setup, FinishExit, LoadCommand,
      ProcessBootloaderCommand, EraseNextPage, AnswerRequest, answerFrame, GiveUp,
      HostSendsPacket, HostTakesPacket, Detach, Attach, busFrame, WatchdogFires,
      PowerFails, Restart, vars
<1> QED
  BY <1>1, <1>2

LEMMA CleanEeprom ==
  ASSUME TypeOK, Clean, [Next]_vars, NEW a \in EepromAddresses
  PROVE  eeprom'[a] # Original
<1>1. CASE UNCHANGED eeprom
  BY <1>1 DEF Clean
<1>2. CASE WriteEepromByte
  <2>1. Read8(0) # Original
    BY ReadType DEF Junk, Original
  <2>2. eeprom \in [EepromAddresses -> Int] /\ eeprom[a] # Original
    BY DEF TypeOK, MemoryTypeOK, Clean
  <2> DEFINE to == StartAddr % (E2END + 1)
  <2>3. eeprom' = [eeprom EXCEPT ![to] = Read8(0)]
    BY <1>2 DEF WriteEepromByte
  <2> HIDE DEF to
  <2> QED
    BY <2>1, <2>2, <2>3
<1> QED
  BY <1>1, <1>2, EepromSteps
-----------------------------------------------------------------------------
(* Places in the handler.                                                   *)
LEMMA Entered ==
  ASSUME TypeOK, [Next]_vars, pc' \in {"command", "process", "erase"}
  PROVE  \/ UNCHANGED <<stepVars, flash, WaitForExit>>
         \/ \E r \in Requests : Download(r)
         \/ FinishExit \/ LoadCommand
         \/ ProcessBootloaderCommand /\ pc' = "erase" /\ ProcessWriteCommand
         \/ EraseNextPage
<1>1. loop.caller \in {"idle", "exit", "firmware"}
  BY DEF TypeOK, StepTypeOK, Locals
<1>2. CASE EVENT_USB_Device_ControlRequest
  BY <1>2 DEF EVENT_USB_Device_ControlRequest, Upload, GetStatusOrState, ClearStatus,
              Abort, Unhandled, Setup, Serve, flashVars, exitVars, stepVars
<1>3. CASE ProcessBootloaderCommand
  BY <1>1, <1>3
  DEF ProcessBootloaderCommand, Processed, Goto, RefuseCommand, ProcessMemProgCommand,
      ProcessMemReadCommand, ProcessWriteCommand, ProcessReadCommand, ProcessChangeBase,
      UnknownCommand
<1>4. CASE WriteFirmware
  BY <1>4
  DEF WriteFirmware, FirmwareStage, DiscardFillerBytes, DiscardGivenUp, AlignFirmware,
      StartWriting, FetchPacket, WriteFlashWord, CommitPage, StartNextPage, FlashWritten,
      WriteEepromByte, EepromWritten, FirmwareDone, Return, Goto, Enter, stepVars
<1>5. CASE AnswerRequest
  BY <1>5
  DEF AnswerRequest, AnswerState, AnswerUpload, StartReading, SendFullPacket,
      ReadFlashWord, ReadEepromByte, MemoryRead, StatusStage, Send, Enter, Return, stepVars
<1>6. CASE GiveUp \/ WatchdogFires \/ PowerFails
  BY <1>6 DEF GiveUp, Return, WatchdogFires, PowerFails, Restart
<1>7. CASE HostSendsPacket \/ HostTakesPacket \/ Detach \/ Attach \/ UNCHANGED vars
  BY <1>7 DEF HostSendsPacket, HostTakesPacket, Detach, Attach, busFrame, flashVars,
              exitVars, vars
<1> QED
  BY <1>2, <1>3, <1>4, <1>5, <1>6, <1>7 DEF Next, Handler, Environment

(* One more page is blank, or the erase is over and all of them are.        *)
LEMMA ErasedPages ==
  ASSUME TypeOK, EraseProgress, EraseNextPage
  PROVE  \A a \in Application : a < loop.cursor + SPM_PAGESIZE => flash'[a] = Blank
<1>1. /\ loop.cursor \in Nat /\ loop.cursor < BOOT_START_ADDR
      /\ loop.cursor % SPM_PAGESIZE = 0
      /\ \A a \in Application : a < loop.cursor => flash[a] = Blank
  BY DEF TypeOK, StepTypeOK, Locals, EraseProgress, EraseNextPage
<1>2. IsPageAddressValid(loop.cursor)
  BY <1>1 DEF IsPageAddressValid
<1>3. flash' = [c \in FlashAddresses |->
                  IF c \in PageCells(loop.cursor) THEN Blank ELSE flash[c]]
  BY <1>2 DEF EraseNextPage, ErasePage
<1> QED
  BY <1>1, <1>3, FlashGeometry DEF Application, FlashAddresses, PageCells

LEMMA AllErased ==
  ASSUME TypeOK, EraseProgress, EraseNextPage, ErasedAll(loop.cursor + SPM_PAGESIZE)
  PROVE  \A a \in Application : flash'[a] = Blank
<1>1. loop.cursor \in Nat
  BY DEF TypeOK, StepTypeOK, Locals
<1>2. \A a \in Application : a < loop.cursor + SPM_PAGESIZE
  BY <1>1, FlashGeometry DEF ErasedAll, Application
<1> QED
  BY <1>2, ErasedPages

LEMMA NextMultiple ==
  ASSUME NEW a \in Nat, NEW p \in Nat, p > 0, a % p = 0
  PROVE  (a + p) % p = 0
<1>1. PICK q \in Int : a = p * q
  BY ZeroRemainder
<1>2. a + p = p * (q + 1)
  <2>1. p * (q + 1) = p * q + p
    BY Z3
  <2> QED
    BY <1>1, <2>1
<1>3. (p * (q + 1)) % p = 0
  BY Z3
<1> QED
  BY <1>2, <1>3

LEMMA EraseProgressStep ==
  ASSUME TypeOK, EraseProgress, [Next]_vars
  PROVE  EraseProgress'
<1>1. CASE UNCHANGED <<stepVars, flash>>
  BY <1>1 DEF EraseProgress, stepVars
<1>2. ASSUME NEW r \in Requests, Download(r) PROVE EraseProgress'
  BY <1>2 DEF Download, Serve, NoLoop, EraseProgress
<1>3. CASE FinishExit
  BY <1>3 DEF FinishExit, Goto, EraseProgress
<1>4. CASE LoadCommand
  BY <1>4 DEF LoadCommand, NoLoop, EraseProgress
<1>5. CASE ProcessBootloaderCommand /\ pc' = "erase" /\ ProcessWriteCommand
  <2>1. loop.cursor = 0 /\ loop' = loop
    BY <1>5 DEF ProcessBootloaderCommand, ProcessWriteCommand, Processed, Goto,
                EraseProgress
  <2>2. 0 % SPM_PAGESIZE = 0
    BY FlashGeometry
  <2> QED
    BY <1>5, <2>1, <2>2, FlashGeometry DEF EraseProgress, Application
<1>6. CASE EraseNextPage
  <2>1. loop \in Locals /\ loop.cursor \in Nat /\ loop.cursor % SPM_PAGESIZE = 0
    BY <1>6 DEF TypeOK, StepTypeOK, Locals, EraseProgress, EraseNextPage
  <2>2. CASE ErasedAll(loop.cursor + SPM_PAGESIZE)
    <3>1. pc' = loop.caller /\ loop.caller \in {"idle", "exit", "firmware"}
      BY <1>6, <2>1, <2>2 DEF EraseNextPage, NextPage, Locals
    <3> QED
      BY <3>1 DEF EraseProgress
  <2>3. CASE ~ErasedAll(loop.cursor + SPM_PAGESIZE)
    <3>1. loop'.cursor = loop.cursor + SPM_PAGESIZE /\ pc' = "erase"
      BY <1>6, <2>1, <2>3 DEF EraseNextPage, NextPage, Locals
    <3>2. loop'.cursor < BOOT_START_ADDR
      BY <2>1, <2>3, <3>1, FlashGeometry DEF ErasedAll
    <3>3. loop'.cursor % SPM_PAGESIZE = 0
      BY <2>1, <3>1, NextMultiple, FlashGeometry
    <3> QED
      BY <1>6, <3>1, <3>2, <3>3, ErasedPages DEF EraseProgress, Application
  <2> QED
    BY <2>2, <2>3
<1>7. CASE pc' \notin {"command", "process", "erase"}
  BY <1>7 DEF EraseProgress
<1> QED
  BY <1>1, <1>2, <1>3, <1>4, <1>5, <1>6, <1>7, Entered
-----------------------------------------------------------------------------
(* The locked session.                                                      *)
LEMMA LockSteps ==
  ASSUME TypeOK, [Next]_vars, ~UNCHANGED IsSecure
  PROVE  \/ WatchdogFires \/ PowerFails
         \/ EraseNextPage /\ ErasedAll(loop.cursor + SPM_PAGESIZE) /\ ~IsSecure'
<1>1. CASE EraseNextPage
  BY <1>1 DEF EraseNextPage, NextPage
<1>2. CASE WriteFirmware \/ AnswerRequest \/ GiveUp
  BY <1>2 DEF WriteFirmware, firmwareFrame, AnswerRequest, answerFrame, GiveUp
<1>3. CASE ProcessBootloaderCommand
  BY <1>3
  DEF ProcessBootloaderCommand, RefuseCommand, ProcessMemProgCommand,
      ProcessMemReadCommand, ProcessWriteCommand, ProcessReadCommand, ProcessChangeBase,
      UnknownCommand
<1>4. CASE \/ EVENT_USB_Device_ControlRequest \/ FinishExit \/ LoadCommand
           \/ HostSendsPacket \/ HostTakesPacket \/ Detach \/ Attach \/ UNCHANGED vars
  BY <1>4
  DEF EVENT_USB_Device_ControlRequest, Download, Upload, GetStatusOrState, ClearStatus,
      Abort, Unhandled, Setup, FinishExit, LoadCommand, HostSendsPacket,
      HostTakesPacket, Detach, Attach, busFrame, vars
<1> QED
  BY <1>1, <1>2, <1>3, <1>4 DEF Next, Handler, Environment

LEMMA SecretsGoneStep ==
  ASSUME TypeOK, Clean, EraseProgress, SecretsGone, [Next]_vars
  PROVE  SecretsGone'
<1> SUFFICES ASSUME SECURE_MODE, ~IsSecure', NEW a \in Application
             PROVE  flash'[a] # Original
  BY DEF SecretsGone
<1>1. CASE ~IsSecure
  <2>1. a \in FlashAddresses /\ flash[a] # Original
    BY <1>1, FlashGeometry DEF SecretsGone, Application, FlashAddresses
  <2> QED
    BY <2>1, NoNewOriginal
<1>2. CASE IsSecure
  <2>1. ~(WatchdogFires \/ PowerFails)
    BY DEF WatchdogFires, PowerFails, Restart
  <2>2. EraseNextPage /\ ErasedAll(loop.cursor + SPM_PAGESIZE)
    BY <1>2, <2>1, LockSteps
  <2> QED
    BY <2>2, AllErased DEF Blank, Original
<1> QED
  BY <1>1, <1>2

(* A command that is let through while the device is locked announces no    *)
(* transfer.                                                                *)
LEMMA LockedCommand ==
  ASSUME TypeOK, LockedQuiet, ProcessBootloaderCommand, IsSecure
  PROVE  DFU_State' \in {dfuIDLE, dfuERROR}
<1>1. DFU_State \in {dfuIDLE, dfuERROR}
  BY DEF LockedQuiet
<1>2. CASE RefuseCommand
  BY <1>2 DEF RefuseCommand, SetError
<1>3. CASE ~RefuseCommand
  <2>1. SentCommand.Command \in {COMMAND_READ, COMMAND_WRITE}
    BY <1>3 DEF ProcessBootloaderCommand, AllowedWhenSecure, EraseCommand
  <2>2. ProcessReadCommand \/ ProcessWriteCommand
    <3>1. \/ SentCommand.Command \in {COMMAND_PROG_START, COMMAND_DISP_DATA,
                                     COMMAND_CHANGE_BASE_ADDR}
          \/ UnknownCommand \/ ProcessReadCommand \/ ProcessWriteCommand
      BY <1>3 DEF ProcessBootloaderCommand
    <3>2. UnknownCommand => SentCommand.Command \notin {COMMAND_READ, COMMAND_WRITE}
      BY DEF UnknownCommand
    <3> QED
      BY <2>1, <3>1, <3>2
      DEF COMMAND_READ, COMMAND_WRITE, COMMAND_PROG_START, COMMAND_DISP_DATA,
          COMMAND_CHANGE_BASE_ADDR
  <2>3. ASSUME NEW table, ReadByte(table) PROVE DFU_State' \in {DFU_State, dfuERROR}
    BY <2>3 DEF ReadByte, SetError, statusVars
  <2>4. CASE ProcessReadCommand
    BY <1>1, <2>3, <2>4 DEF ProcessReadCommand, statusVars
  <2>5. CASE ProcessWriteCommand
    BY <1>1, <2>5 DEF ProcessWriteCommand, statusVars
  <2> QED
    BY <2>2, <2>4, <2>5
<1> QED
  BY <1>2, <1>3

LEMMA LockedQuietStep ==
  ASSUME TypeOK, LockedQuiet, [Next]_vars
  PROVE  LockedQuiet'
<1> SUFFICES ASSUME IsSecure'
             PROVE  /\ DFU_State' \in {dfuIDLE, dfuERROR}
                    /\ pc' \notin {"filler", "align", "flash", "eeprom", "suffix",
                                   "commit", "eraseNext", "upFlash", "upEeprom"}
  BY DEF LockedQuiet
<1>1. CASE WatchdogFires \/ PowerFails
  BY <1>1 DEF WatchdogFires, PowerFails, Restart
<1>2. CASE IsSecure
  <2>1. /\ DFU_State \in {dfuIDLE, dfuERROR}
        /\ pc \notin {"filler", "align", "flash", "eeprom", "suffix", "commit",
                      "eraseNext", "upFlash", "upEeprom"}
    BY <1>2 DEF LockedQuiet
  <2>2. loop.caller \in {"idle", "exit", "firmware"}
    BY DEF TypeOK, StepTypeOK, Locals
  <2>3. CASE EVENT_USB_Device_ControlRequest
    <3>1. DFU_State' \in {DFU_State, dfuIDLE}
      BY <2>3 DEF EVENT_USB_Device_ControlRequest, Download, Upload, GetStatusOrState,
                  ClearStatus, Abort, Unhandled, Serve, statusVars
    <3>2. pc' = pc \/ pc' \in {"process", "command", "firmware", "upload", "answer"}
      BY <2>3 DEF EVENT_USB_Device_ControlRequest, Download, Upload, GetStatusOrState,
                  ClearStatus, Abort, Unhandled, Serve, stepVars
    <3> QED
      BY <2>1, <3>1, <3>2
  <2>4. CASE FinishExit \/ LoadCommand
    <3>1. FinishExit => UNCHANGED DFU_State /\ pc' \in {"command", "firmware"}
      BY DEF FinishExit, Goto, statusVars
    <3>2. LoadCommand => UNCHANGED statusVars /\ pc' = "process"
      BY DEF LoadCommand
    <3> QED
      BY <2>1, <2>4, <3>1, <3>2 DEF statusVars
  <2>5. CASE ProcessBootloaderCommand
    <3>1. DFU_State' \in {dfuIDLE, dfuERROR}
      BY <1>2, <2>5, LockedCommand
    <3>2. pc' \in {loop.caller, "erase"}
      BY <2>5
      DEF ProcessBootloaderCommand, Processed, Goto, RefuseCommand,
          ProcessMemProgCommand, ProcessMemReadCommand, ProcessWriteCommand,
          ProcessReadCommand, ProcessChangeBase, UnknownCommand
    <3> QED
      BY <2>2, <3>1, <3>2
  <2>6. CASE EraseNextPage
    BY <2>1, <2>2, <2>6 DEF EraseNextPage, statusVars
  <2>7. CASE WriteFirmware
    BY <2>1, <2>7
    DEF WriteFirmware, FirmwareStage, DiscardFillerBytes, DiscardGivenUp, AlignFirmware,
        StartWriting, FetchPacket, WriteFlashWord, CommitPage, StartNextPage,
        FlashWritten, WriteEepromByte, EepromWritten, FirmwareDone, Return, dfuIDLE,
        dfuERROR, dfuDNLOAD_IDLE
  <2>8. CASE AnswerRequest
    BY <2>1, <2>8
    DEF AnswerRequest, AnswerState, AnswerUpload, StartReading, SendFullPacket,
        ReadFlashWord, ReadEepromByte, MemoryRead, StatusStage, Send, Return, dfuIDLE,
        dfuERROR, dfuUPLOAD_IDLE
  <2>9. CASE \/ GiveUp \/ HostSendsPacket \/ HostTakesPacket \/ Detach \/ Attach
             \/ UNCHANGED vars
    BY <2>1, <2>9 DEF GiveUp, Return, HostSendsPacket, HostTakesPacket, Detach, Attach,
                      busFrame, statusVars, stepVars, vars
  <2> QED
    BY <1>1, <2>3, <2>4, <2>5, <2>6, <2>7, <2>8, <2>9 DEF Next, Handler, Environment
<1> QED
  BY <1>1, <1>2, LockSteps

(* What an answer is made of. *)
LEMMA ReplySteps ==
  ASSUME TypeOK, [Next]_vars
  PROVE  \/ reply' = reply
         \/ reply' = <<>>
         \/ AnswerRequest /\ \E bytes \in Seq(Int) :
              /\ reply' = reply \o bytes
              /\ \/ bytes = <<>> \/ bytes = StateAnswer \/ bytes = IdleAnswer
                 \/ pc = "upFlash"
                      /\ bytes = <<FlashByte(loop.cursor), FlashByte(loop.cursor + 1)>>
                 \/ pc = "upEeprom" /\ bytes = <<eeprom[StartAddr % (E2END + 1)]>>
<1>1. CASE AnswerRequest
  <2>1. CASE AnswerState \/ AnswerUpload
    BY <1>1, <2>1, StateAnswerType DEF AnswerState, AnswerUpload, Send
  <2>2. CASE ReadFlashWord
    <3>1. loop.cursor \in Nat
      BY DEF TypeOK, StepTypeOK, Locals
    <3>2. FlashByte(loop.cursor) \in Int /\ FlashByte(loop.cursor + 1) \in Int
      BY <3>1, FlashByteType DEF TypeOK
    <3> DEFINE bytes == <<FlashByte(loop.cursor), FlashByte(loop.cursor + 1)>>
    <3>3. bytes \in Seq(Int)
      BY <3>2
    <3>4. pc = "upFlash" /\ reply' = reply \o bytes
      BY <2>2 DEF ReadFlashWord, Write
    <3> HIDE DEF bytes
    <3>5. AnswerRequest /\ bytes \in Seq(Int) /\ reply' = reply \o bytes
            /\ pc = "upFlash"
      BY <1>1, <3>3, <3>4
    <3> QED
      BY <3>5 DEF bytes
  <2>3. CASE ReadEepromByte
    <3>1. eeprom[StartAddr % (E2END + 1)] \in Int
      BY EepromByteType, WordNatural DEF TypeOK, RangeTypeOK
    <3> DEFINE bytes == <<eeprom[StartAddr % (E2END + 1)]>>
    <3>2. bytes \in Seq(Int)
      BY <3>1
    <3>3. pc = "upEeprom" /\ reply' = reply \o bytes
      BY <2>3 DEF ReadEepromByte, Write
    <3> HIDE DEF bytes
    <3>4. AnswerRequest /\ bytes \in Seq(Int) /\ reply' = reply \o bytes
            /\ pc = "upEeprom"
      BY <1>1, <3>2, <3>3
    <3> QED
      BY <3>4 DEF bytes
  <2>4. CASE MemoryRead \/ StartReading
    BY <1>1, <2>4, EmptyAnswer DEF MemoryRead, StartReading, Send
  <2> QED
    BY <1>1, <2>1, <2>2, <2>3, <2>4 DEF AnswerRequest, SendFullPacket, StatusStage, Return
<1>2. CASE WriteFirmware
  BY <1>2
  DEF WriteFirmware, FirmwareStage, DiscardFillerBytes, DiscardGivenUp, AlignFirmware,
      StartWriting, FetchPacket, WriteFlashWord, CommitPage, StartNextPage, FlashWritten,
      WriteEepromByte, EepromWritten, FirmwareDone, Return
<1>3. CASE GiveUp \/ WatchdogFires \/ PowerFails
  BY <1>3 DEF GiveUp, Return, WatchdogFires, PowerFails, Restart
<1>4. CASE \/ EVENT_USB_Device_ControlRequest \/ FinishExit \/ LoadCommand
           \/ ProcessBootloaderCommand \/ EraseNextPage
           \/ HostSendsPacket \/ HostTakesPacket \/ Detach \/ Attach \/ UNCHANGED vars
  BY <1>4
  DEF EVENT_USB_Device_ControlRequest, Download, Upload, GetStatusOrState, ClearStatus,
      Abort, Unhandled, Setup, Serve, FinishExit, LoadCommand, ProcessBootloaderCommand,
      EraseNextPage, HostSendsPacket, HostTakesPacket, Detach, Attach, busFrame, busVars,
      vars
<1> QED
  BY <1>1, <1>2, <1>3, <1>4 DEF Next, Handler, Environment

(* None of the answers is a byte of the application of before.              *)
LEMMA StateAnswerClean ==
  ASSUME TypeOK
  PROVE  /\ \A i \in DOMAIN StateAnswer : StateAnswer[i] # Original
         /\ \A i \in DOMAIN IdleAnswer : IdleAnswer[i] # Original
<1>1. DFU_Status # Original /\ DFU_State # Original
  BY DEF TypeOK, StatusTypeOK, OK, errWRITE, errCHECK_ERASED, errADDRESS,
         dfuIDLE, dfuDNLOAD_IDLE, dfuUPLOAD_IDLE, dfuERROR, Original
<1>2. ResponseByte # Original
  BY DEF TypeOK, CommandTypeOK, Byte, Original
<1>3. StartAddr % 256 # Original /\ StartAddr \div 256 # Original
  <2>1. \A n \in Nat : n % 256 >= 0 /\ n \div 256 >= 0
    OBVIOUS
  <2>2. StartAddr \in Nat
    BY WordNatural DEF TypeOK, RangeTypeOK
  <2> QED
    BY <2>1, <2>2 DEF Original
<1>4. \A i \in DOMAIN StateAnswer : StateAnswer[i] # Original
  <2>1. CASE request.bRequest = DFU_REQ_GETSTATUS
    <3>1. StateAnswer = <<DFU_Status, 0, 0, 0, DFU_State, 0>>
      BY <2>1 DEF StateAnswer
    <3>2. DOMAIN StateAnswer = 1 .. 6
      BY <3>1
    <3> QED
      BY <1>1, <3>1, <3>2 DEF Original
  <2>2. CASE request.bRequest # DFU_REQ_GETSTATUS
    BY <1>1, <2>2 DEF StateAnswer
  <2> QED
    BY <2>1, <2>2
<1>5. \A i \in DOMAIN IdleAnswer : IdleAnswer[i] # Original
  BY <1>2, <1>3 DEF IdleAnswer
<1> QED
  BY <1>4, <1>5

LEMMA OpenFlashClean ==
  ASSUME TypeOK, BootSectionIntact, SecretsGone, SECURE_MODE, ~IsSecure, NEW a \in Nat
  PROVE  FlashByte(a) # Original
<1>1. (a % 65536) % (FLASHEND + 1) \in 0 .. FLASHEND
  BY FlashGeometry, WordModulo, WordNatural, ModuloRange
<1>2. \A c \in 0 .. FLASHEND : flash[c] # Original
  BY FlashGeometry
  DEF BootSectionIntact, SecretsGone, Application, FlashAddresses, BootCode, Original
<1> QED
  BY <1>1, <1>2 DEF FlashByte

LEMMA AppendClean ==
  ASSUME NEW s \in Seq(Int), NEW t \in Seq(Int),
         \A i \in DOMAIN s : s[i] # Original, \A i \in DOMAIN t : t[i] # Original
  PROVE  \A i \in DOMAIN (s \o t) : (s \o t)[i] # Original
  OBVIOUS

LEMMA NoSecretStep ==
  ASSUME TypeOK, BootSectionIntact, Clean, LockedQuiet, SecretsGone, NoSecretSent,
         [Next]_vars
  PROVE  NoSecretSent'
<1> SUFFICES ASSUME SECURE_MODE
             PROVE  \A i \in DOMAIN reply' : reply'[i] # Original
  BY DEF NoSecretSent
<1>1. reply \in Seq(Int) /\ \A i \in DOMAIN reply : reply[i] # Original
  BY DEF NoSecretSent, TypeOK, BusTypeOK
<1>2. ASSUME NEW bytes \in Seq(Int), reply' = reply \o bytes,
             \/ bytes = <<>> \/ bytes = StateAnswer \/ bytes = IdleAnswer
             \/ pc = "upFlash"
                  /\ bytes = <<FlashByte(loop.cursor), FlashByte(loop.cursor + 1)>>
             \/ pc = "upEeprom" /\ bytes = <<eeprom[StartAddr % (E2END + 1)]>>
      PROVE  \A i \in DOMAIN reply' : reply'[i] # Original
  <2>1. \A i \in DOMAIN bytes : bytes[i] # Original
    <3>1. CASE bytes = <<>>
      BY <3>1
    <3>2. CASE bytes = StateAnswer \/ bytes = IdleAnswer
      BY <3>2, StateAnswerClean
    <3>3. CASE pc = "upFlash"
                 /\ bytes = <<FlashByte(loop.cursor), FlashByte(loop.cursor + 1)>>
      <4>1. ~IsSecure /\ loop.cursor \in Nat
        BY <3>3 DEF LockedQuiet, TypeOK, StepTypeOK, Locals
      <4>2. FlashByte(loop.cursor) # Original /\ FlashByte(loop.cursor + 1) # Original
        BY <4>1, OpenFlashClean
      <4> QED
        BY <3>3, <4>2
    <3>4. CASE pc = "upEeprom" /\ bytes = <<eeprom[StartAddr % (E2END + 1)]>>
      <4>1. StartAddr % (E2END + 1) \in EepromAddresses
        BY ModuloRange, WordNatural, DFUConstants DEF TypeOK, RangeTypeOK, EepromAddresses
      <4>2. eeprom[StartAddr % (E2END + 1)] # Original
        BY <4>1 DEF Clean
      <4> QED
        BY <3>4, <4>2
    <3> QED
      BY <1>2, <3>1, <3>2, <3>3, <3>4
  <2> QED
    BY <1>1, <1>2, <2>1, AppendClean
<1>3. CASE reply' = reply
  BY <1>1, <1>3
<1>4. CASE reply' = <<>>
  BY <1>4
<1> QED
  BY <1>2, <1>3, <1>4, ReplySteps
-----------------------------------------------------------------------------
(* The pending exit.                                                        *)
LEMMA ExitSteps ==
  ASSUME TypeOK, [Next]_vars
  PROVE  \/ UNCHANGED WaitForExit
         \/ pc = "exit" /\ ~WaitForExit'
         \/ ~WaitForExit' /\ pc' = "idle"
         \/ /\ pc = "process" /\ pc' = loop.caller /\ UNCHANGED <<SentCommand, IsSecure>>
            /\ SentCommand.Command = COMMAND_WRITE /\ IsOneByteCommand(3)
            /\ IsSecure => AllowedWhenSecure(COMMAND_WRITE)
<1>1. CASE ProcessBootloaderCommand /\ ~UNCHANGED WaitForExit
  <2>1. /\ pc = "process" /\ UNCHANGED SentCommand
        /\ SentCommand.Command = COMMAND_WRITE /\ ProcessWriteCommand
        /\ IsSecure => AllowedWhenSecure(COMMAND_WRITE)
    BY <1>1
    DEF ProcessBootloaderCommand, RefuseCommand, ProcessMemProgCommand,
        ProcessMemReadCommand, ProcessReadCommand, ProcessChangeBase, UnknownCommand,
        exitVars
  <2>2. IsOneByteCommand(3) /\ Processed /\ UNCHANGED IsSecure
    BY <1>1, <2>1 DEF ProcessWriteCommand, exitVars
  <2> QED
    BY <2>1, <2>2 DEF Processed, Goto
<1>2. CASE WriteFirmware \/ AnswerRequest \/ GiveUp \/ EraseNextPage
  BY <1>2 DEF WriteFirmware, firmwareFrame, AnswerRequest, answerFrame, GiveUp,
              EraseNextPage, exitVars
<1>3. CASE FinishExit \/ WatchdogFires \/ PowerFails
  BY <1>3 DEF FinishExit, AfterExit, WatchdogFires, PowerFails, Restart
<1>4. CASE \/ EVENT_USB_Device_ControlRequest \/ LoadCommand
           \/ HostSendsPacket \/ HostTakesPacket \/ Detach \/ Attach \/ UNCHANGED vars
  BY <1>4
  DEF EVENT_USB_Device_ControlRequest, Download, Upload, GetStatusOrState, ClearStatus,
      Abort, Unhandled, Setup, LoadCommand, HostSendsPacket, HostTakesPacket, Detach,
      Attach, busFrame, exitVars, vars
<1> QED
  BY <1>1, <1>2, <1>3, <1>4 DEF Next, Handler, Environment

LEMMA CommandSteps ==
  ASSUME TypeOK, [Next]_vars
  PROVE  \/ UNCHANGED <<SentCommand>>
         \/ pc = "command" /\ LoadCommand
         \/ SentCommand'.Command = SentCommand.Command
              /\ SentCommand'.Data = SentCommand.Data
         \/ WatchdogFires \/ PowerFails
<1>1. SentCommand \in [Command : Byte, Data : CommandData, DataSize : Word]
  BY DEF TypeOK, CommandTypeOK
<1>2. CASE EVENT_USB_Device_ControlRequest
  <2>1. PICK r \in Requests : Setup(r)
    BY <1>2 DEF EVENT_USB_Device_ControlRequest, Download, Upload, GetStatusOrState,
                ClearStatus, Abort, Unhandled
  <2> QED
    BY <1>1, <2>1 DEF Setup
<1>3. CASE WriteFirmware \/ AnswerRequest \/ GiveUp \/ EraseNextPage \/ FinishExit
           \/ ProcessBootloaderCommand
  BY <1>3 DEF WriteFirmware, firmwareFrame, AnswerRequest, answerFrame, GiveUp,
              EraseNextPage, FinishExit, ProcessBootloaderCommand
<1>4. CASE \/ LoadCommand
           \/ HostSendsPacket \/ HostTakesPacket \/ Detach \/ Attach \/ UNCHANGED vars
  BY <1>4 DEF LoadCommand, HostSendsPacket, HostTakesPacket, Detach, Attach, busFrame,
              vars
<1> QED
  BY <1>2, <1>3, <1>4 DEF Next, Handler, Environment

LEMMA ExitPendingStep ==
  ASSUME TypeOK, ExitPending, ExitOrder, [Next]_vars
  PROVE  ExitPending'
<1> SUFFICES ASSUME WaitForExit'
             PROVE  /\ SentCommand'.Command = COMMAND_WRITE /\ SentCommand'.Data[0] = 3
                    /\ ~IsSecure'
  BY DEF ExitPending, IsOneByteCommand
<1>1. CASE /\ pc = "process" /\ UNCHANGED <<SentCommand, IsSecure>>
           /\ SentCommand.Command = COMMAND_WRITE /\ IsOneByteCommand(3)
           /\ IsSecure => AllowedWhenSecure(COMMAND_WRITE)
  BY <1>1 DEF IsOneByteCommand, AllowedWhenSecure, EraseCommand, IsTwoByteCommand,
              COMMAND_WRITE, COMMAND_READ
<1>2. CASE UNCHANGED WaitForExit
  <2>1. ~(WatchdogFires \/ PowerFails)
    BY DEF WatchdogFires, PowerFails, Restart
  <2>2. /\ SentCommand.Command = COMMAND_WRITE /\ SentCommand.Data[0] = 3 /\ ~IsSecure
        /\ pc # "command"
    BY <1>2 DEF ExitPending, IsOneByteCommand, ExitOrder
  <2>3. SentCommand'.Command = SentCommand.Command /\ SentCommand'.Data = SentCommand.Data
    BY <2>1, <2>2, CommandSteps
  <2>4. ~IsSecure'
    BY <2>1, <2>2, LockSteps
  <2> QED
    BY <2>2, <2>3, <2>4
<1>3. CASE ~WaitForExit'
  BY <1>3
<1> QED
  BY <1>1, <1>2, <1>3, ExitSteps

LEMMA ExitOrderStep ==
  ASSUME TypeOK, ExitPending, ExitOrder, [Next]_vars
  PROVE  ExitOrder'
<1>1. CASE UNCHANGED <<stepVars, WaitForExit>>
  BY <1>1 DEF ExitOrder, stepVars
<1>2. ASSUME NEW r \in Requests, Download(r) PROVE ExitOrder'
  BY <1>2 DEF Download, Setup, Serve, NoLoop, exitVars, ExitOrder
<1>3. CASE FinishExit
  BY <1>3 DEF FinishExit, AfterExit, Goto, ExitOrder
<1>4. CASE LoadCommand
  <2>1. pc' = "process" /\ loop'.caller = "firmware"
    BY <1>4 DEF LoadCommand, NoLoop
  <2> QED
    BY <2>1 DEF ExitOrder
<1>5. CASE ProcessBootloaderCommand /\ pc' = "erase" /\ ProcessWriteCommand
  <2>1. pc = "process" /\ UNCHANGED loop /\ ~IsOneByteCommand(3)
    <3>1. loop.caller # "erase"
      BY DEF TypeOK, StepTypeOK, Locals
    <3> QED
      BY <1>5, <3>1 DEF ProcessBootloaderCommand, ProcessWriteCommand, Processed, Goto
  <2>2. loop.caller # "exit"
    BY <2>1 DEF ExitOrder, ExitPending
  <2> QED
    BY <1>5, <2>1, <2>2 DEF ExitOrder
<1>6. CASE EraseNextPage
  <2>1. loop \in Locals /\ loop.caller # "exit"
    BY <1>6 DEF EraseNextPage, ExitOrder, TypeOK, StepTypeOK
  <2>2. loop'.caller = loop.caller /\ pc' \in {"erase", loop.caller}
    BY <1>6, <2>1 DEF EraseNextPage, Locals
  <2>3. loop.caller \in {"idle", "firmware"}
    BY <2>1 DEF Locals
  <2> QED
    BY <2>2, <2>3 DEF ExitOrder
<1>7. CASE pc' \notin {"command", "process", "erase"}
  BY <1>7 DEF ExitOrder
<1> QED
  BY <1>1, <1>2, <1>3, <1>4, <1>5, <1>6, <1>7, Entered
-----------------------------------------------------------------------------
LEMMA InvInit == Init => DFUInv
<1> SUFFICES ASSUME Init PROVE DFUInv
  OBVIOUS
<1>1. TypeOK /\ BootSectionIntact
  BY InitType, InitFlashType DEF Init
<1>2. Clean
  BY DEF Init, InitFlash, Clean, EmptyBuffer, Blank, Saved, Original
<1>3. EraseProgress /\ ExitOrder /\ ExitPending
  BY DEF Init, EraseProgress, ExitOrder, ExitPending
<1>4. LockOrigin /\ LockedQuiet /\ SecretsGone
  BY DEF Init, LockOrigin, LockedQuiet, SecretsGone
<1>5. NoSecretSent
  BY DEF Init, NoSecretSent
<1> QED
  BY <1>1, <1>2, <1>3, <1>4, <1>5 DEF DFUInv

LEMMA InvStep == DFUInv /\ [Next]_vars => DFUInv'
<1> SUFFICES ASSUME DFUInv, [Next]_vars PROVE DFUInv'
  OBVIOUS
<1>1. TypeOK /\ LockOrigin /\ BootSectionIntact /\ Clean /\ EraseProgress
      /\ LockedQuiet /\ SecretsGone /\ NoSecretSent /\ ExitOrder /\ ExitPending
  BY DEF DFUInv
<1>2. TypeOK' /\ BootSectionIntact'
  BY <1>1, TypeStep, BootStep
<1>3. Clean'
  BY <1>1, CleanBuffer, CleanEeprom DEF Clean
<1>4. EraseProgress' /\ LockedQuiet' /\ SecretsGone' /\ NoSecretSent'
  BY <1>1, EraseProgressStep, LockedQuietStep, SecretsGoneStep, NoSecretStep
<1>5. ExitOrder' /\ ExitPending'
  BY <1>1, ExitOrderStep, ExitPendingStep
<1>6. LockOrigin'
  BY <1>1, LockSteps DEF LockOrigin, WatchdogFires, PowerFails, Restart
<1> QED
  BY <1>2, <1>3, <1>4, <1>5, <1>6 DEF DFUInv

LEMMA InvAlways == Spec => []DFUInv
  BY InvInit, InvStep, PTL DEF Spec

(* Whatever the host asks for, and wherever a request is cut short, no byte *)
(* of the bootloader section (BootloaderAPI.c:38) changes.                  *)
THEOREM DFUBootSectionIntact == Spec => []BootSectionIntact
<1>1. DFUInv => BootSectionIntact
  BY DEF DFUInv
<1> QED
  BY <1>1, InvAlways, PTL

(* A device that starts locked opens only once its application section      *)
(* holds none of the bytes it started with (BootloaderDFU.c:659).           *)
THEOREM DFUSecretsGone == Spec => []SecretsGone
<1>1. DFUInv => SecretsGone
  BY DEF DFUInv
<1> QED
  BY <1>1, InvAlways, PTL

(* A build that starts locked never hands the host a byte of the            *)
(* application it found.                                                    *)
THEOREM DFUNoSecretSent == Spec => []NoSecretSent
<1>1. DFUInv => NoSecretSent
  BY DEF DFUInv
<1> QED
  BY <1>1, InvAlways, PTL

(* The command that is processed again to end a session is the exit command *)
(* that began to end it (BootloaderDFU.c:173).                              *)
THEOREM DFUExitPending == Spec => []ExitPending
<1>1. DFUInv => ExitPending
  BY DEF DFUInv
<1> QED
  BY <1>1, InvAlways, PTL

(* Opening the device leaves every application byte blank, also after       *)
(* erases that were cut short.                                              *)
THEOREM DFUOpenedByErase == Spec => OpenedByErase
<1> DEFINE Opened == \A a \in Application : flash'[a] = Blank
<1>1. DFUInv /\ [Next]_vars => [IsSecure /\ ~IsSecure' => Opened]_vars
  <2> SUFFICES ASSUME DFUInv, [Next]_vars, IsSecure, ~IsSecure' PROVE Opened
    OBVIOUS
  <2>1. TypeOK /\ EraseProgress /\ SECURE_MODE
    BY DEF DFUInv, LockOrigin
  <2>2. ~(WatchdogFires \/ PowerFails)
    BY <2>1 DEF WatchdogFires, PowerFails, Restart
  <2>3. EraseNextPage /\ ErasedAll(loop.cursor + SPM_PAGESIZE)
    BY <2>1, <2>2, LockSteps
  <2> QED
    BY <2>1, <2>3, AllErased
<1> QED
  BY <1>1, InvAlways, PTL DEF Spec, OpenedByErase

(* While the device is locked flash bytes only become blank, and the EEPROM *)
(* keeps its bytes (BootloaderDFU.c:489).                                   *)
THEOREM DFULockedOnlyErases == Spec => LockedOnlyErases
<1> DEFINE OnlyErased == /\ \A a \in FlashAddresses : flash'[a] \in {flash[a], Blank}
                         /\ eeprom' = eeprom
<1>1. DFUInv /\ [Next]_vars => [IsSecure => OnlyErased]_vars
  <2> SUFFICES ASSUME DFUInv, [Next]_vars, IsSecure PROVE OnlyErased
    OBVIOUS
  <2>1. TypeOK /\ LockedQuiet
    BY DEF DFUInv
  <2>2. pc # "commit" /\ pc # "eeprom"
    BY <2>1 DEF LockedQuiet
  <2>3. ASSUME NEW a \in Nat, ErasePage(a), NEW c \in FlashAddresses
        PROVE  flash'[c] \in {flash[c], Blank}
    BY <2>3 DEF ErasePage
  <2>4. \A c \in FlashAddresses : flash'[c] \in {flash[c], Blank}
    BY <2>1, <2>2, <2>3, MemorySteps DEF FillWord
  <2>5. UNCHANGED eeprom
    BY <2>2, EepromSteps DEF WriteEepromByte
  <2> QED
    BY <2>4, <2>5
<1> QED
  BY <1>1, InvAlways, PTL DEF Spec, LockedOnlyErases

(* Processing the retained exit command once more changes neither memory,   *)
(* lock, DFU state nor address range.                                       *)
THEOREM DFUAcknowledgementHarmless == Spec => AcknowledgementHarmless
<1> DEFINE Again == (ProcessBootloaderCommand \/ EraseNextPage) /\ loop.caller = "exit"
           Same == UNCHANGED <<flashVars, eeprom, IsSecure, statusVars, rangeVars>>
<1>1. DFUInv /\ [Next]_vars => [Again => Same]_vars
  <2> SUFFICES ASSUME DFUInv, Again PROVE Same
    OBVIOUS
  <2>1. ExitOrder /\ ExitPending
    BY DEF DFUInv
  <2>2. ProcessBootloaderCommand /\ pc = "process"
    BY <2>1 DEF EraseNextPage, ExitOrder, ProcessBootloaderCommand
  <2>3. SentCommand.Command = COMMAND_WRITE /\ IsOneByteCommand(3) /\ ~IsSecure
    BY <2>1, <2>2 DEF ExitOrder, ExitPending
  <2>4. ProcessWriteCommand \/ UnknownCommand
    BY <2>2, <2>3
    DEF ProcessBootloaderCommand, COMMAND_WRITE, COMMAND_READ, COMMAND_PROG_START,
        COMMAND_DISP_DATA, COMMAND_CHANGE_BASE_ADDR
  <2> QED
    BY <2>2, <2>4 DEF ProcessBootloaderCommand, ProcessWriteCommand, UnknownCommand
<1> QED
  BY <1>1, InvAlways, PTL DEF Spec, AcknowledgementHarmless
-----------------------------------------------------------------------------
(* Errors and their reasons.                                                *)

(* A command that puts the device into dfuERROR sets a status with it.      *)
LEMMA CommandStatus ==
  ASSUME ProcessBootloaderCommand
  PROVE  UNCHANGED statusVars \/ DFU_State' # dfuERROR \/ DFU_Status' # OK
<1>1. CASE RefuseCommand
  BY <1>1 DEF RefuseCommand, SetError, errWRITE, OK
<1>2. CASE ProcessMemProgCommand
  BY <1>2 DEF ProcessMemProgCommand, statusVars, dfuDNLOAD_IDLE, dfuERROR
<1>3. CASE ProcessMemReadCommand
  <2>1. CASE DFU_State' = dfuUPLOAD_IDLE
    BY <2>1 DEF dfuUPLOAD_IDLE, dfuERROR
  <2>2. CASE BlankCheck
    BY <2>2 DEF BlankCheck, SetError, errCHECK_ERASED, OK
  <2> QED
    BY <1>3, <2>1, <2>2 DEF ProcessMemReadCommand
<1>4. CASE ProcessReadCommand
  BY <1>4 DEF ProcessReadCommand, ReadByte, SetError, errADDRESS, OK
<1>5. CASE ProcessWriteCommand \/ ProcessChangeBase \/ UnknownCommand
  BY <1>5 DEF ProcessWriteCommand, ProcessChangeBase, UnknownCommand
<1> QED
  BY <1>1, <1>2, <1>3, <1>4, <1>5 DEF ProcessBootloaderCommand

(* No other step enters dfuERROR, and only a clear request resets a status  *)
(* there.                                                                   *)
LEMMA StatusSteps ==
  ASSUME [Next]_vars
  PROVE  \/ UNCHANGED statusVars \/ DFU_State' # dfuERROR \/ DFU_Status' # OK
         \/ \E r \in Requests : ClearStatus(r)
<1>1. CASE EVENT_USB_Device_ControlRequest
  BY <1>1 DEF EVENT_USB_Device_ControlRequest, Download, Upload, GetStatusOrState, Abort,
              Unhandled, Serve, dfuIDLE, dfuERROR
<1>2. CASE ProcessBootloaderCommand
  BY <1>2, CommandStatus
<1>3. CASE WriteFirmware
  BY <1>3 DEF WriteFirmware, FirmwareStage, DiscardFillerBytes, DiscardGivenUp,
              AlignFirmware, StartWriting, FetchPacket, WriteFlashWord, CommitPage,
              StartNextPage, FlashWritten, WriteEepromByte, EepromWritten, FirmwareDone,
              firmwareFrame, statusVars, dfuIDLE, dfuERROR
<1>4. CASE AnswerRequest
  BY <1>4 DEF AnswerRequest, AnswerState, AnswerUpload, StartReading, SendFullPacket,
              ReadFlashWord, ReadEepromByte, MemoryRead, StatusStage, answerFrame,
              statusVars, dfuIDLE, dfuERROR
<1>5. CASE WatchdogFires \/ PowerFails
  BY <1>5 DEF WatchdogFires, PowerFails, Restart, dfuIDLE, dfuERROR
<1>6. CASE \/ FinishExit \/ LoadCommand \/ EraseNextPage \/ GiveUp
           \/ HostSendsPacket \/ HostTakesPacket \/ Detach \/ Attach \/ UNCHANGED vars
  BY <1>6 DEF FinishExit, LoadCommand, EraseNextPage, GiveUp, HostSendsPacket,
              HostTakesPacket, Detach, Attach, busFrame, vars
<1> QED
  BY <1>1, <1>2, <1>3, <1>4, <1>5, <1>6 DEF Next, Handler, Environment

(* BootloaderDFU.c:494-496 and its like: no step of the bootloader enters   *)
(* dfuERROR without a status that says why; only the host takes it away.    *)
THEOREM DFUNoSilentError == Spec => NoSilentError
<1> DEFINE Cleared == \E r \in Requests : ClearStatus(r)
<1>1. [Next]_vars => [~Unexplained /\ Unexplained' => Cleared]_vars
  BY StatusSteps DEF Unexplained, statusVars
<1> QED
  BY <1>1, PTL DEF Spec, NoSilentError
-----------------------------------------------------------------------------
(* Every step counts.                                                       *)
LEMMA LocalsRange ==
  ASSUME TypeOK
  PROVE  /\ loop \in Locals /\ loop.remaining \in Nat /\ loop.cursor \in Nat
         /\ loop.caller \in {"idle", "exit", "firmware"}
         /\ ep \in Packet /\ ep.bank \in Nat /\ ep.moved \in Nat
         /\ pc \in Labels
  BY DEF TypeOK, StepTypeOK, BusTypeOK, Locals, Packet

LEMMA NextStageNearer ==
  ASSUME TypeOK, EraseProgress, [Next]_vars, pc # "idle", pc' # "idle", pc' # pc
  PROVE  Nearer
<1>1. loop.caller \in {"idle", "exit", "firmware"}
  BY LocalsRange
<1>2. CASE FinishExit \/ LoadCommand
  BY <1>2 DEF FinishExit, LoadCommand, Goto, NoLoop, SecondTurn, StagesLeft, Nearer
<1>3. CASE ProcessBootloaderCommand
  <2>1. pc = "process" /\ loop' = loop /\ pc' \in {loop.caller, "erase"}
    BY <1>3
    DEF ProcessBootloaderCommand, Processed, Goto, RefuseCommand, ProcessMemProgCommand,
        ProcessMemReadCommand, ProcessWriteCommand, ProcessReadCommand,
        ProcessChangeBase, UnknownCommand
  <2> QED
    BY <1>1, <2>1 DEF StagesLeft, SecondTurn, Nearer
<1>4. CASE EraseNextPage
  <2>1. pc = "erase" /\ pc' = loop.caller
    BY <1>4 DEF EraseNextPage
  <2> QED
    BY <1>1, <2>1 DEF StagesLeft, SecondTurn, Nearer
<1>5. CASE CommitPage \/ StartNextPage \/ WriteFlashWord
  <2>1. loop \in Locals /\ loop.remaining \in Nat
    BY LocalsRange
  <2>2. StagesLeft = 3 /\ StagesLeft' = 3
    BY <1>5 DEF CommitPage, StartNextPage, WriteFlashWord, Goto, StagesLeft
  <2>3. CASE CommitPage
    <3>1. TurnsLeft' = TurnsLeft /\ WaitsLeft = 4 /\ WaitsLeft' \in 0 .. 3
      BY <2>3 DEF CommitPage, Goto, TurnsLeft, WaitsLeft
    <3> QED
      BY <2>2, <3>1 DEF Nearer
  <2>4. CASE StartNextPage
    <3>1. TurnsLeft' = TurnsLeft /\ WaitsLeft = 3 /\ WaitsLeft' \in 0 .. 2
      BY <2>1, <2>4 DEF StartNextPage, Locals, TurnsLeft, WaitsLeft
    <3> QED
      BY <2>2, <3>1 DEF Nearer
  <2>5. CASE WriteFlashWord
    <3>1. TurnsLeft = loop.remaining /\ TurnsLeft' = loop.remaining - 1
      BY <2>1, <2>5 DEF WriteFlashWord, Locals, TurnsLeft
    <3> QED
      BY <2>1, <2>2, <2>5, <3>1 DEF WriteFlashWord, Nearer
  <2> QED
    BY <1>5, <2>3, <2>4, <2>5
<1>6. CASE \/ FirmwareStage \/ AlignFirmware \/ StartWriting \/ FlashWritten
           \/ EepromWritten
  BY <1>6 DEF FirmwareStage, AlignFirmware, StartWriting, FlashWritten, EepromWritten,
              Enter, Return, StagesLeft, Nearer
<1>7. CASE DiscardFillerBytes \/ DiscardGivenUp \/ FetchPacket \/ WriteEepromByte
           \/ FirmwareDone
  BY <1>7 DEF DiscardFillerBytes, DiscardGivenUp, FetchPacket, WriteEepromByte,
              FirmwareDone, Enter, Return, stepVars
<1>8. CASE AnswerRequest
  BY <1>8
  DEF AnswerRequest, AnswerState, AnswerUpload, StartReading, SendFullPacket,
      ReadFlashWord, ReadEepromByte, MemoryRead, StatusStage, Send, Enter, Return,
      stepVars, StagesLeft, Nearer
<1>9. CASE EVENT_USB_Device_ControlRequest
  BY <1>9 DEF EVENT_USB_Device_ControlRequest, Download, Upload, GetStatusOrState,
              ClearStatus, Abort, Unhandled, Setup
<1>10. CASE GiveUp \/ WatchdogFires \/ PowerFails
  BY <1>10 DEF GiveUp, Return, WatchdogFires, PowerFails, Restart
<1>11. CASE HostSendsPacket \/ HostTakesPacket \/ Detach \/ Attach \/ UNCHANGED vars
  BY <1>11 DEF HostSendsPacket, HostTakesPacket, Detach, Attach, busFrame, stepVars, vars
<1> QED
  BY <1>2, <1>3, <1>4, <1>5, <1>6, <1>7, <1>8, <1>9, <1>10, <1>11
  DEF Next, Handler, Environment, WriteFirmware

(* Within a stage the loop has a turn less, or a packet moves.              *)
LEMMA SameStageNearer ==
  ASSUME TypeOK, EraseProgress, Next, ~UNCHANGED vars, pc # "idle", pc' = pc
  PROVE  \/ Nearer
         \/ Detach /\ UNCHANGED <<StagesLeft, TurnsLeft, WaitsLeft>>
<1>1. /\ loop \in Locals /\ loop.remaining \in Nat /\ loop.cursor \in Nat
      /\ loop.caller \in {"idle", "exit", "firmware"}
      /\ ep \in Packet /\ ep.bank \in Nat /\ ep.moved \in Nat
  BY LocalsRange
<1>2. CASE EraseNextPage
  <2>1. pc = "erase" /\ loop.cursor < BOOT_START_ADDR
    BY <1>2 DEF EraseNextPage, EraseProgress
  <2>2. ~ErasedAll(NextPage(loop.cursor))
    BY <1>1, <1>2, <2>1 DEF EraseNextPage
  <2>3. loop'.cursor = loop.cursor + SPM_PAGESIZE /\ loop'.caller = loop.caller
    BY <1>1, <1>2, <2>2 DEF EraseNextPage, NextPage, Locals
  <2>4. /\ TurnsLeft = BOOT_START_ADDR - loop.cursor
        /\ TurnsLeft' = BOOT_START_ADDR - (loop.cursor + SPM_PAGESIZE)
    BY <2>1, <2>3 DEF TurnsLeft
  <2>5. loop.cursor + SPM_PAGESIZE < BOOT_START_ADDR
    BY <1>1, <2>2, FlashGeometry DEF ErasedAll, NextPage
  <2>6. StagesLeft' = StagesLeft
    BY <2>1, <2>3 DEF StagesLeft, SecondTurn
  <2>7. TurnsLeft' \in 0 .. TurnsLeft - 1
    BY <1>1, <2>4, <2>5, FlashGeometry
  <2> QED
    BY <2>6, <2>7 DEF Nearer
<1>3. CASE DiscardFillerBytes \/ WriteFlashWord \/ WriteEepromByte \/ ReadFlashWord
           \/ ReadEepromByte
  <2>1. pc \notin {"process", "erase"} /\ loop.remaining > 0
    BY <1>3 DEF DiscardFillerBytes, WriteFlashWord, WriteEepromByte, ReadFlashWord,
                ReadEepromByte
  <2>2. loop'.remaining \in 0 .. loop.remaining - 1
    <3>1. CASE DiscardFillerBytes
      BY <1>1, <2>1, <3>1 DEF DiscardFillerBytes, Locals
    <3>2. CASE WriteFlashWord \/ WriteEepromByte \/ ReadFlashWord \/ ReadEepromByte
      <4>1. \/ loop' = [loop EXCEPT !.remaining = @ - 1, !.cursor = @ + 2,
                                    !.words = @ + 1]
            \/ loop' = [loop EXCEPT !.remaining = @ - 1]
            \/ loop' = [loop EXCEPT !.remaining = @ - 1, !.cursor = @ + 2]
        BY <3>2
        DEF WriteFlashWord, WriteEepromByte, ReadFlashWord, ReadEepromByte, Enter
      <4>2. loop'.remaining = loop.remaining - 1
        BY <1>1, <4>1 DEF Locals
      <4> QED
        BY <1>1, <2>1, <4>2
    <3> QED
      BY <1>3, <3>1, <3>2
  <2>3. StagesLeft' = StagesLeft
    BY <2>1 DEF StagesLeft
  <2> QED
    BY <2>1, <2>2, <2>3 DEF TurnsLeft, Nearer
<1>4. CASE DiscardGivenUp
  <2>1. /\ pc \in {"filler", "align", "suffix"} /\ ~Ready /\ Ready'
        /\ loop'.remaining = 0
    BY <1>1, <1>4 DEF DiscardGivenUp, Ready, Packet, Locals
  <2>2. StagesLeft' = StagesLeft
    BY <2>1 DEF StagesLeft
  <2>3. TurnsLeft = loop.remaining /\ TurnsLeft' = 0
    BY <2>1 DEF TurnsLeft
  <2>4. WaitsLeft = 1 /\ WaitsLeft' = 0
    BY <2>1 DEF WaitsLeft, PacketSpent
  <2> QED
    BY <1>1, <2>2, <2>3, <2>4 DEF Nearer
<1>5. ASSUME pc \notin {"process", "erase", "commit", "eraseNext"}, UNCHANGED loop,
             WaitsLeft' \in 0 .. WaitsLeft - 1
      PROVE  Nearer
  BY <1>5 DEF StagesLeft, TurnsLeft, Nearer
<1>6. CASE FetchPacket \/ SendFullPacket
  <2>1. Ready /\ ~Ready' /\ PacketSpent
    BY <1>1, <1>6 DEF FetchPacket, SendFullPacket, ClearPacket, PacketSpent, Ready, Packet
  <2>2. /\ pc \notin {"process", "erase", "commit", "eraseNext"}
        /\ UNCHANGED loop
    BY <1>6 DEF FetchPacket, SendFullPacket, stepVars
  <2>3. WaitsLeft = 2 /\ WaitsLeft' = 1
    BY <2>1, <2>2 DEF WaitsLeft
  <2> QED
    BY <1>5, <2>2, <2>3
<1>7. CASE HostSendsPacket \/ HostTakesPacket
  <2>1. request.wLength \in Nat
    <3>1. request.wLength \in Word
      BY DEF TypeOK, BusTypeOK, Request
    <3> QED
      BY <3>1, WordNatural
  <2>2. /\ pc \in OutStages \cup InStages /\ ~Ready /\ Ready' /\ UNCHANGED loop
        /\ pc \in OutStages => ep'.bank > 0
        /\ pc \in InStages => ep'.bank = 0
    BY <1>1, <1>7, <2>1, DFUConstants
    DEF HostSendsPacket, HostTakesPacket, Ready, busFrame, stepVars, OutStages, InStages,
        HeaderSize
  <2>3. ~PacketSpent'
    BY <2>2, DFUConstants DEF PacketSpent, OutStages, InStages, HeaderSize
  <2>4. WaitsLeft = 1 /\ WaitsLeft' = 0
    BY <2>2, <2>3 DEF WaitsLeft, OutStages, InStages
  <2> QED
    BY <1>5, <2>2, <2>4 DEF OutStages, InStages
<1>8. CASE Detach
  BY <1>8 DEF Detach, busFrame, stepVars, StagesLeft, SecondTurn, TurnsLeft, WaitsLeft,
              PacketSpent, Ready
<1>9. CASE Attach \/ EVENT_USB_Device_ControlRequest
  BY <1>9 DEF Attach, EVENT_USB_Device_ControlRequest, Download, Upload,
              GetStatusOrState, ClearStatus, Abort, Unhandled, Setup
<1>10. CASE GiveUp \/ WatchdogFires \/ PowerFails
  BY <1>10 DEF GiveUp, Return, WatchdogFires, PowerFails, Restart
<1>11. CASE FinishExit \/ LoadCommand \/ FirmwareStage \/ AlignFirmware
            \/ StartWriting \/ CommitPage \/ StartNextPage \/ FlashWritten
            \/ EepromWritten \/ FirmwareDone
  BY <1>11 DEF FinishExit, LoadCommand, FirmwareStage, AlignFirmware, StartWriting,
               CommitPage, StartNextPage, FlashWritten, EepromWritten, FirmwareDone,
               Goto, Enter, Return
<1>12. CASE AnswerState \/ AnswerUpload \/ StartReading \/ MemoryRead \/ StatusStage
  BY <1>12 DEF AnswerState, AnswerUpload, StartReading, MemoryRead, StatusStage, Send,
               Enter, Return
<1>13. CASE ProcessBootloaderCommand
  <2>1. pc = "process" /\ pc' \in {loop.caller, "erase"}
    BY <1>13
    DEF ProcessBootloaderCommand, Processed, Goto, RefuseCommand, ProcessMemProgCommand,
        ProcessMemReadCommand, ProcessWriteCommand, ProcessReadCommand,
        ProcessChangeBase, UnknownCommand
  <2> QED
    BY <1>1, <2>1
<1> QED
  BY <1>2, <1>3, <1>4, <1>6, <1>7, <1>8, <1>9, <1>10, <1>11, <1>12, <1>13
  DEF Next, Handler, Environment, WriteFirmware, AnswerRequest

(* While a request is served each step but Detach takes the handler to a    *)
(* later stage, its loop to its end or a packet across the wire: no loop of *)
(* EVENT_USB_Device_ControlRequest and of the functions it calls goes round *)
(* in vain, for any request, range, packet size and flash geometry.         *)
THEOREM DFUEveryStepCounts == Spec => EveryStepCounts
<1> DEFINE Counts == \/ Nearer
                     \/ Detach /\ UNCHANGED <<StagesLeft, TurnsLeft, WaitsLeft>>
<1>1. DFUInv /\ [Next]_vars => [pc # "idle" /\ pc' # "idle" => Counts]_vars
  <2> SUFFICES ASSUME DFUInv, Next, ~UNCHANGED vars, pc # "idle", pc' # "idle"
               PROVE  Counts
    OBVIOUS
  <2> QED
    BY NextStageNearer, SameStageNearer DEF DFUInv
<1> QED
  BY <1>1, InvAlways, PTL DEF Spec, EveryStepCounts
=============================================================================
