----------------------------- MODULE BootloaderDFU -----------------------------
(***************************************************************************)
(* The DFU bootloader of bootloader/BootloaderDFU.c.  The host issues class *)
(* requests one at a time on the control endpoint; the bootloader serves    *)
(* each one in EVENT_USB_Device_ControlRequest, whose polling loops wait    *)
(* for the host packet by packet.  Between any two steps of the handler the *)
(* cable may be pulled, the power may fail, or an armed watchdog may fire.  *)
(***************************************************************************)
EXTENDS BootloaderAPI, Sequences

CONSTANTS
  SECURE_MODE,                 (* initial value of IsSecure                  *)
  FIXED_CONTROL_ENDPOINT_SIZE, (* bytes in a packet                          *)
  DFU_FILLER_BYTES_SIZE,       (* filler between a command and its firmware  *)
  DFU_FILE_SUFFIX_SIZE,        (* suffix after the firmware                  *)
  E2END,                       (* last EEPROM address                        *)
  Requests                     (* requests the host may issue                *)

Byte == 0 .. 255
Word == 0 .. 2^16 - 1

DFU_REQ_DNLOAD    == 1
DFU_REQ_UPLOAD    == 2
DFU_REQ_GETSTATUS == 3
DFU_REQ_CLRSTATUS == 4
DFU_REQ_GETSTATE  == 5
DFU_REQ_ABORT     == 6

COMMAND_PROG_START       == 1
COMMAND_DISP_DATA        == 3
COMMAND_WRITE            == 4
COMMAND_READ             == 5
COMMAND_CHANGE_BASE_ADDR == 6

dfuIDLE        == 2
dfuDNLOAD_IDLE == 5
dfuUPLOAD_IDLE == 9
dfuERROR       == 10

OK              == 0
errWRITE        == 3
errCHECK_ERASED == 5
errADDRESS      == 8

BootloaderInfo == [i \in 0 .. 2 |-> <<32, 220, 251>>[i + 1]]
SignatureInfo  == [i \in {48, 49, 96, 97} |->
                     CASE i = 48 -> 88 [] i = 49 -> 30 [] i = 96 -> 149 [] i = 97 -> 135]

CommandData == [0 .. 4 -> Byte]
NoData      == [i \in 0 .. 4 |-> 0]
HeaderSize  == 6    (* the command byte and its five data bytes              *)

Request == [bRequest : Byte, Command : Byte, Data : CommandData, wLength : Word]
NoRequest == [bRequest |-> 0, Command |-> 0, Data |-> NoData, wLength |-> 0]

ASSUME DFUConstants ==
  /\ SECURE_MODE \in BOOLEAN
  /\ FIXED_CONTROL_ENDPOINT_SIZE \in Nat /\ FIXED_CONTROL_ENDPOINT_SIZE > HeaderSize
  /\ DFU_FILLER_BYTES_SIZE \in Nat
  /\ DFU_FILE_SUFFIX_SIZE \in Nat
  /\ E2END \in Nat
  /\ Requests \subseteq Request

VARIABLES
  eeprom,         (* contents of the EEPROM                                  *)
  IsSecure, RunBootloader, WaitForExit, DFU_State, DFU_Status, SentCommand,
  ResponseByte, AppStartPtr, Flash64KBPage, StartAddr, EndAddr,
  MagicBootKey,   (* whether the key is in no-init RAM                       *)
  watchdog,       (* whether the watchdog is counting down                   *)
  USB_DeviceState,
  request,        (* request being served                                    *)
  ep,             (* control endpoint bank: whose turn it is, the bytes in   *)
                  (* it, and all the bytes that crossed the wire so far      *)
  reply,          (* bytes written for the host by this request              *)
  pc, loop        (* place in the handler and the locals of its loops        *)

flashVars  == <<flash, pageBuffer, lockBits>>
statusVars == <<DFU_State, DFU_Status>>
rangeVars  == <<Flash64KBPage, StartAddr, EndAddr>>
exitVars   == <<RunBootloader, WaitForExit, AppStartPtr, MagicBootKey, watchdog>>
busVars    == <<USB_DeviceState, request, ep, reply>>
stepVars   == <<pc, loop>>
vars == <<flashVars, eeprom, IsSecure, statusVars, SentCommand, ResponseByte,
          rangeVars, exitVars, busVars, stepVars>>

(* EEPROM bytes carry the tags of flash bytes; this one was never written.  *)
Saved == -6
EepromAddresses == 0 .. E2END

NoLoop == [remaining |-> 0, cursor |-> 0, pageStart |-> 0, words |-> 0, caller |-> "idle"]
NoPacket == [turn |-> "host", bank |-> 0, moved |-> 0]
OutStages == {"command", "filler", "align", "flash", "eeprom", "suffix"}
InStages  == {"upFlash", "upEeprom", "status"}
Labels == OutStages \cup InStages
            \cup {"idle", "exit", "process", "erase", "firmware", "commit",
                             "eraseNext", "answer", "upload"}
-----------------------------------------------------------------------------
(* Helpers of the handler.                                                  *)

IsOneByteCommand(b)     == SentCommand.Data[0] = b
IsTwoByteCommand(b, b2) == SentCommand.Data[0] = b /\ SentCommand.Data[1] = b2
BigEndian(hi, lo)       == 256 * hi + lo
Long(lo)                == 65536 * Flash64KBPage + lo

(* Slip: the subtraction is not confined to sixteen bits, or loses the one. *)
BytesRemainingWide  == EndAddr - StartAddr + 1
BytesRemainingExtra == (EndAddr - StartAddr + 2) % 65536
BytesRemaining      == (EndAddr - StartAddr + 1) % 65536

(* Slips: the last, partly filled page is never committed; the page after   *)
(* the last one is prepared as well.                                        *)
CommitWhenFull(words, left) == words = SPM_PAGESIZE \div 2
CommitDue(words, left)      == words = SPM_PAGESIZE \div 2 \/ left = 0
AlwaysMorePages(left)       == TRUE
MorePages(left)             == left > 0

(* Reading back the version, and erasing, are allowed in secure mode.       *)
(* Slips: DISP_DATA, or PROG_START, is let through as well.                 *)
EraseCommand(cmd)       == cmd = COMMAND_WRITE /\ IsTwoByteCommand(0, 255)
AllowedWithData(cmd)    == cmd \in {COMMAND_READ, COMMAND_DISP_DATA} \/ EraseCommand(cmd)
AllowedWithProgram(cmd) == cmd \in {COMMAND_READ, COMMAND_PROG_START} \/ EraseCommand(cmd)
AllowedWhenSecure(cmd)  == cmd = COMMAND_READ \/ EraseCommand(cmd)

(* Slips: the erase loop stops one page early; it never leaves its page.    *)
SamePage(address)   == address
NextPage(address)   == address + SPM_PAGESIZE
ErasedButLast(next) == next + SPM_PAGESIZE >= BOOT_START_ADDR
ErasedAll(next)     == next >= BOOT_START_ADDR

(* Slips: WaitForExit stays up, the wait loops miss the pulled cable.       *)
StillWaiting    == WaitForExit
AfterExit       == FALSE
NeverUnplugged  == FALSE
Unplugged       == USB_DeviceState = "Unattached"

(* The byte at position p of the data stage, as the host lays it out: the   *)
(* header, the filler, padding up to the start address within a packet, the *)
(* firmware, the suffix.                                                     *)
HostStart == BigEndian(request.Data[1], request.Data[2])
HostEnd   == BigEndian(request.Data[3], request.Data[4])
StreamByte(p) ==
  LET first == HeaderSize + DFU_FILLER_BYTES_SIZE
                 + (HostStart % FIXED_CONTROL_ENDPOINT_SIZE)
      address == HostStart + p - first
  IN  IF request.Command = COMMAND_PROG_START /\ p >= first /\ address <= HostEnd
      THEN IF request.Data[0] = 0 THEN Long(address) ELSE address
      ELSE Junk

(* Position in the data stage of the next byte of the bank; a read past the *)
(* bank's end returns whatever the FIFO gives.                              *)
Position == ep.moved - ep.bank
Read8(k) == IF k < ep.bank THEN StreamByte(Position + k) ELSE Junk
Consume(k) == ep' = [ep EXCEPT !.bank = IF k < @ THEN @ - k ELSE 0]

Ready == ep.turn = "device"
ClearPacket == ep' = [ep EXCEPT !.turn = "host"]

(* Bytes written for the host stay in the bank until it is handed over.     *)
Write(bytes) ==
  /\ reply' = reply \o bytes
  /\ ep' = [ep EXCEPT !.bank = @ + Len(bytes)]

Goto(label)          == pc' = label /\ UNCHANGED loop
Enter(label, count)  == pc' = label /\ loop' = [loop EXCEPT !.remaining = count]

(* The handler returns: its locals, and the endpoint's bytes, are gone.     *)
Return ==
  /\ pc' = "idle"
  /\ loop' = NoLoop
  /\ request' = NoRequest
  /\ ep' = NoPacket
  /\ reply' = <<>>
-----------------------------------------------------------------------------
(* The setup packet of a class request: its wLength replaces DataSize.      *)
Setup(r) ==
  /\ pc = "idle" /\ USB_DeviceState = "Configured"
  /\ SentCommand' = [SentCommand EXCEPT !.DataSize = r.wLength]
  /\ UNCHANGED <<flashVars, eeprom, IsSecure, ResponseByte, rangeVars, exitVars,
                 USB_DeviceState>>

Serve(r, turn, label) ==
  /\ request' = r
  /\ ep' = [NoPacket EXCEPT !.turn = turn]
  /\ pc' = label
  /\ UNCHANGED <<reply, statusVars>>

(* While the exit is pending the retained command is processed once more,   *)
(* before any data stage is read.                                           *)
Download(r) ==
  /\ r.bRequest = DFU_REQ_DNLOAD
  /\ Setup(r)
  /\ IF WaitForExit
     THEN Serve(r, "host", "process") /\ loop' = [NoLoop EXCEPT !.caller = "exit"]
     ELSE /\ Serve(r, "host", IF r.wLength > 0 THEN "command" ELSE "firmware")
          /\ UNCHANGED loop

Upload(r) ==
  /\ r.bRequest = DFU_REQ_UPLOAD
  /\ Setup(r)
  /\ Serve(r, "device", "upload")
  /\ UNCHANGED loop

GetStatusOrState(r) ==
  /\ r.bRequest \in {DFU_REQ_GETSTATUS, DFU_REQ_GETSTATE}
  /\ Setup(r)
  /\ Serve(r, "device", "answer")
  /\ UNCHANGED loop

ClearStatus(r) ==
  /\ r.bRequest = DFU_REQ_CLRSTATUS
  /\ Setup(r)
  /\ DFU_Status' = OK
  /\ UNCHANGED <<DFU_State, request, ep, reply, stepVars>>

Abort(r) ==
  /\ r.bRequest = DFU_REQ_ABORT
  /\ Setup(r)
  /\ DFU_State' = dfuIDLE
  /\ UNCHANGED <<DFU_Status, request, ep, reply, stepVars>>

(* Any other class request, DFU_REQ_DETATCH among them, is left to the USB  *)
(* library, which stalls it.                                                *)
Unhandled(r) ==
  /\ r.bRequest \notin DFU_REQ_DNLOAD .. DFU_REQ_ABORT
  /\ Setup(r)
  /\ UNCHANGED <<statusVars, request, ep, reply, stepVars>>

EVENT_USB_Device_ControlRequest ==
  \E r \in Requests :
    \/ Download(r) \/ Upload(r) \/ GetStatusOrState(r)
    \/ ClearStatus(r) \/ Abort(r) \/ Unhandled(r)
-----------------------------------------------------------------------------
(* DNLOAD up to the dispatch of its command.                                *)

(* The acknowledged exit is over; a data stage, if any, is read next.       *)
FinishExit ==
  /\ pc = "exit"
  /\ WaitForExit' = AfterExit
  /\ Goto(IF SentCommand.DataSize > 0 THEN "command" ELSE "firmware")
  /\ UNCHANGED <<flashVars, eeprom, IsSecure, statusVars, SentCommand, ResponseByte,
                 rangeVars, RunBootloader, AppStartPtr, MagicBootKey, watchdog, busVars>>

(* The first packet fills Command and as much of Data as it reaches; the    *)
(* rest of Data keeps the bytes of an earlier command.                      *)
LoadCommand ==
  /\ pc = "command" /\ Ready
  /\ LET size == IF ep.bank < HeaderSize THEN ep.bank - 1 ELSE HeaderSize - 1
     IN  /\ SentCommand' =
              [Command  |-> request.Command,
               Data     |-> [i \in 0 .. 4 |-> IF i < size THEN request.Data[i]
                                              ELSE SentCommand.Data[i]],
               DataSize |-> (SentCommand.DataSize - 1 - size) % 65536]
         /\ Consume(size + 1)
  /\ pc' = "process" /\ loop' = [NoLoop EXCEPT !.caller = "firmware"]
  /\ UNCHANGED <<flashVars, eeprom, IsSecure, statusVars, ResponseByte, rangeVars,
                 exitVars, USB_DeviceState, request, reply>>
-----------------------------------------------------------------------------
(* ProcessBootloaderCommand and the commands.  The tuple after each names   *)
(* what it leaves alone; pc moves on to the caller unless an erase follows. *)

Processed == Goto(loop.caller)

(* Slip: the state is set and the status forgotten. *)
SetErrorState(status) == DFU_State' = dfuERROR /\ UNCHANGED DFU_Status
SetError(status)      == DFU_State' = dfuERROR /\ DFU_Status' = status

LoadStartEndAddresses ==
  /\ StartAddr' = BigEndian(SentCommand.Data[1], SentCommand.Data[2])
  /\ EndAddr'   = BigEndian(SentCommand.Data[3], SentCommand.Data[4])
  /\ UNCHANGED Flash64KBPage

(* The endpoint is stalled too; the next setup packet clears that.          *)
RefuseCommand ==
  /\ SetError(errWRITE)
  /\ Processed
  /\ UNCHANGED <<flashVars, IsSecure, ResponseByte, rangeVars, exitVars>>

ProcessMemProgCommand ==
  /\ IF IsOneByteCommand(0) \/ IsOneByteCommand(1)
     THEN /\ LoadStartEndAddresses
          /\ IF IsOneByteCommand(0) THEN ErasePage(Long(StartAddr'))
             ELSE UNCHANGED flashVars
          /\ DFU_State' = dfuDNLOAD_IDLE
     ELSE UNCHANGED <<flashVars, rangeVars, DFU_State>>
  /\ Processed
  /\ UNCHANGED <<IsSecure, DFU_Status, ResponseByte, exitVars>>

NonBlank == {a \in 0 .. BOOT_START_ADDR - 1 : flash[a] # Blank}

BlankCheck ==
  IF NonBlank = {} THEN UNCHANGED <<rangeVars, statusVars>>
  ELSE \E first \in NonBlank :
         /\ \A a \in NonBlank : first <= a
         /\ Flash64KBPage' = (first \div 65536) % 256
         /\ StartAddr' = first % 65536
         /\ SetError(errCHECK_ERASED)
         /\ UNCHANGED EndAddr

ProcessMemReadCommand ==
  /\ \/ /\ IsOneByteCommand(0) \/ IsOneByteCommand(2)
        /\ LoadStartEndAddresses
        /\ DFU_State' = dfuUPLOAD_IDLE
        /\ UNCHANGED DFU_Status
     \/ IsOneByteCommand(1) /\ BlankCheck
     \/ ~IsOneByteCommand(0) /\ ~IsOneByteCommand(1) /\ ~IsOneByteCommand(2)
        /\ UNCHANGED <<rangeVars, statusVars>>
  /\ Processed
  /\ UNCHANGED <<flashVars, IsSecure, ResponseByte, exitVars>>

(* The jump address counts only when bytes of the request are left over;    *)
(* with none left the program is started, by watchdog or by a soft exit.    *)
StartApplication ==
  /\ WaitForExit' = TRUE
  /\ \/ /\ SentCommand.DataSize > 0
        /\ AppStartPtr' = IF SentCommand.Data[1] = 1
                          THEN BigEndian(SentCommand.Data[3], SentCommand.Data[4])
                          ELSE AppStartPtr
        /\ UNCHANGED <<RunBootloader, MagicBootKey, watchdog>>
     \/ /\ SentCommand.DataSize = 0 /\ SentCommand.Data[1] = 0
        /\ MagicBootKey' = TRUE /\ watchdog' = TRUE
        /\ UNCHANGED <<RunBootloader, AppStartPtr>>
     \/ /\ SentCommand.DataSize = 0 /\ SentCommand.Data[1] # 0
        /\ RunBootloader' = (RunBootloader /\ ~(flash[0] = Blank /\ flash[1] = Blank))
        /\ UNCHANGED <<AppStartPtr, MagicBootKey, watchdog>>

ProcessWriteCommand ==
  /\ \/ IsOneByteCommand(3) /\ StartApplication /\ Processed
     \/ ~IsOneByteCommand(3) /\ IsTwoByteCommand(0, 255) /\ Goto("erase")
        /\ UNCHANGED exitVars
     \/ ~IsOneByteCommand(3) /\ ~IsTwoByteCommand(0, 255) /\ Processed
        /\ UNCHANGED exitVars
  /\ UNCHANGED <<flashVars, IsSecure, statusVars, ResponseByte, rangeVars>>

(* The loop of the erase command, a page per step; the memory is unlocked   *)
(* when the last application page is blank.                                 *)
EraseNextPage ==
  /\ pc = "erase"
  /\ ErasePage(loop.cursor)
  /\ IF ErasedAll(NextPage(loop.cursor))
     THEN /\ IsSecure' = FALSE
          /\ pc' = loop.caller /\ loop' = [loop EXCEPT !.cursor = 0]
     ELSE /\ UNCHANGED <<IsSecure, pc>>
          /\ loop' = [loop EXCEPT !.cursor = NextPage(@)]
  /\ UNCHANGED <<eeprom, statusVars, SentCommand, ResponseByte, rangeVars, exitVars,
                 busVars>>

ReadByte(table) ==
  IF SentCommand.Data[1] \in DOMAIN table
  THEN ResponseByte' = table[SentCommand.Data[1]] /\ UNCHANGED statusVars
  ELSE SetError(errADDRESS) /\ UNCHANGED ResponseByte

ProcessReadCommand ==
  /\ \/ IsOneByteCommand(0) /\ ReadByte(BootloaderInfo)
     \/ IsOneByteCommand(1) /\ ReadByte(SignatureInfo)
     \/ SentCommand.Data[0] \notin {0, 1} /\ UNCHANGED <<ResponseByte, statusVars>>
  /\ Processed
  /\ UNCHANGED <<flashVars, IsSecure, rangeVars, exitVars>>

(* Only {03 00} of the base address command does anything, and of the       *)
(* commands that are not named below none does.                             *)
ProcessChangeBase ==
  /\ Flash64KBPage' = IF IsTwoByteCommand(3, 0) THEN SentCommand.Data[2]
                      ELSE Flash64KBPage
  /\ Processed
  /\ UNCHANGED <<flashVars, IsSecure, statusVars, ResponseByte, StartAddr, EndAddr,
                 exitVars>>

UnknownCommand ==
  /\ SentCommand.Command \notin {COMMAND_PROG_START, COMMAND_DISP_DATA, COMMAND_WRITE,
                                 COMMAND_READ, COMMAND_CHANGE_BASE_ADDR}
  /\ Processed
  /\ UNCHANGED <<flashVars, IsSecure, statusVars, ResponseByte, rangeVars, exitVars>>

ProcessBootloaderCommand ==
  /\ pc = "process"
  /\ LET cmd == SentCommand.Command
     IN  \/ IsSecure /\ ~AllowedWhenSecure(cmd) /\ RefuseCommand
         \/ /\ IsSecure => AllowedWhenSecure(cmd)
            /\ \/ cmd = COMMAND_PROG_START /\ ProcessMemProgCommand
               \/ cmd = COMMAND_DISP_DATA /\ ProcessMemReadCommand
               \/ cmd = COMMAND_WRITE /\ ProcessWriteCommand
               \/ cmd = COMMAND_READ /\ ProcessReadCommand
               \/ cmd = COMMAND_CHANGE_BASE_ADDR /\ ProcessChangeBase
               \/ UnknownCommand
  /\ UNCHANGED <<eeprom, SentCommand, busVars>>
-----------------------------------------------------------------------------
(* DNLOAD after the dispatch: the firmware that follows a program command.  *)

firmwareFrame == <<IsSecure, ResponseByte, DFU_Status, SentCommand, exitVars,
                   USB_DeviceState>>

(* Without firmware the handler clears the endpoint, answers the status     *)
(* stage and returns; an empty request ends a download.                     *)
FirmwareStage ==
  /\ pc = "firmware"
  /\ IF DFU_State = dfuDNLOAD_IDLE /\ SentCommand.DataSize > 0
     THEN /\ Enter("filler", DFU_FILLER_BYTES_SIZE)
          /\ UNCHANGED <<DFU_State, request, ep, reply>>
     ELSE /\ DFU_State' = IF DFU_State = dfuDNLOAD_IDLE THEN dfuIDLE ELSE DFU_State
          /\ Return
  /\ UNCHANGED <<flashVars, eeprom, rangeVars>>

(* DiscardFillerBytes.  A turn that finds the bank empty fetches the next   *)
(* packet and counts as a byte, though it discards none.                    *)
DiscardFillerBytes ==
  /\ pc \in {"filler", "align", "suffix"} /\ Ready /\ loop.remaining > 0
  /\ IF ep.bank = 0
     THEN /\ ClearPacket
          /\ loop' = [loop EXCEPT !.remaining = @ - 1]
     ELSE /\ Consume(loop.remaining)
          /\ loop' = [loop EXCEPT !.remaining = IF @ > ep.bank THEN @ - ep.bank ELSE 0]
  /\ UNCHANGED <<flashVars, eeprom, rangeVars, DFU_State, pc, request, reply>>

(* Unplugged while it waits, DiscardFillerBytes returns to the handler,     *)
(* which goes on with the next stage.                                       *)
DiscardGivenUp ==
  /\ pc \in {"filler", "align", "suffix"} /\ ~Ready /\ Unplugged
  /\ loop' = [loop EXCEPT !.remaining = 0]
  /\ ep' = [ep EXCEPT !.turn = "device"]
  /\ UNCHANGED <<flashVars, eeprom, rangeVars, DFU_State, pc, request, reply>>

AlignFirmware ==
  /\ pc = "filler" /\ Ready /\ loop.remaining = 0
  /\ Enter("align", StartAddr % FIXED_CONTROL_ENDPOINT_SIZE)
  /\ UNCHANGED <<flashVars, eeprom, rangeVars, DFU_State, request, ep, reply>>

StartWriting ==
  /\ pc = "align" /\ Ready /\ loop.remaining = 0
  /\ IF IsOneByteCommand(0)
     THEN /\ pc' = "flash"
          /\ loop' = [loop EXCEPT !.remaining = BytesRemaining \div 2,
                                  !.cursor = Long(StartAddr),
                                  !.pageStart = Long(StartAddr)]
     ELSE Enter("eeprom", BytesRemaining)
  /\ UNCHANGED <<flashVars, eeprom, rangeVars, DFU_State, request, ep, reply>>

FetchPacket ==
  /\ pc \in {"flash", "eeprom"} /\ Ready /\ loop.remaining > 0 /\ ep.bank = 0
  /\ ClearPacket
  /\ UNCHANGED <<flashVars, eeprom, rangeVars, DFU_State, stepVars, request, reply>>

WriteFlashWord ==
  /\ pc = "flash" /\ Ready /\ loop.remaining > 0 /\ ep.bank > 0
  /\ FillWord(loop.cursor, Read8(0), Read8(1))
  /\ Consume(2)
  /\ loop' = [loop EXCEPT !.remaining = @ - 1, !.cursor = @ + 2, !.words = @ + 1]
  /\ pc' = IF CommitDue(loop.words + 1, loop.remaining - 1) THEN "commit" ELSE "flash"
  /\ UNCHANGED <<eeprom, rangeVars, DFU_State, request, reply>>

CommitPage ==
  /\ pc = "commit"
  /\ WritePage(loop.pageStart)
  /\ Goto(IF MorePages(loop.remaining) THEN "eraseNext" ELSE "flash")
  /\ UNCHANGED <<eeprom, rangeVars, DFU_State, request, ep, reply>>

StartNextPage ==
  /\ pc = "eraseNext"
  /\ ErasePage(loop.cursor)
  /\ pc' = "flash"
  /\ loop' = [loop EXCEPT !.pageStart = loop.cursor, !.words = 0]
  /\ UNCHANGED <<eeprom, rangeVars, DFU_State, request, ep, reply>>

FlashWritten ==
  /\ pc = "flash" /\ Ready /\ loop.remaining = 0
  /\ StartAddr' = EndAddr
  /\ Enter("suffix", DFU_FILE_SUFFIX_SIZE)
  /\ UNCHANGED <<flashVars, eeprom, Flash64KBPage, EndAddr, DFU_State,
                 request, ep, reply>>

WriteEepromByte ==
  /\ pc = "eeprom" /\ Ready /\ loop.remaining > 0 /\ ep.bank > 0
  /\ eeprom' = [eeprom EXCEPT ![StartAddr % (E2END + 1)] = Read8(0)]
  /\ Consume(1)
  /\ StartAddr' = (StartAddr + 1) % 65536
  /\ Enter("eeprom", loop.remaining - 1)
  /\ UNCHANGED <<flashVars, Flash64KBPage, EndAddr, DFU_State, request, reply>>

EepromWritten ==
  /\ pc = "eeprom" /\ Ready /\ loop.remaining = 0
  /\ Enter("suffix", DFU_FILE_SUFFIX_SIZE)
  /\ UNCHANGED <<flashVars, eeprom, rangeVars, DFU_State, request, ep, reply>>

FirmwareDone ==
  /\ pc = "suffix" /\ Ready /\ loop.remaining = 0
  /\ Return
  /\ UNCHANGED <<flashVars, eeprom, rangeVars, DFU_State>>

WriteFirmware ==
  /\ \/ FirmwareStage \/ DiscardFillerBytes \/ DiscardGivenUp \/ AlignFirmware
     \/ StartWriting \/ FetchPacket \/ WriteFlashWord \/ CommitPage
     \/ StartNextPage \/ FlashWritten \/ WriteEepromByte \/ EepromWritten
     \/ FirmwareDone
  /\ UNCHANGED firmwareFrame
-----------------------------------------------------------------------------
(* Requests that answer: UPLOAD, GETSTATUS and GETSTATE.                    *)

answerFrame == <<flashVars, eeprom, IsSecure, ResponseByte, DFU_Status, SentCommand,
                 exitVars, USB_DeviceState>>

(* The last packet goes out and the handler waits for the status stage.     *)
Send(bytes) ==
  /\ reply' = reply \o bytes
  /\ ep' = [ep EXCEPT !.bank = @ + Len(bytes), !.turn = "host"]
  /\ pc' = "status"

StateAnswer ==
  IF request.bRequest = DFU_REQ_GETSTATUS THEN <<DFU_Status, 0, 0, 0, DFU_State, 0>>
  ELSE <<DFU_State>>

AnswerState ==
  /\ pc = "answer"
  /\ Send(StateAnswer)
  /\ UNCHANGED <<rangeVars, DFU_State, loop, request>>

(* Outside a memory upload the answer is a failed blank check's address, or *)
(* the byte of the last read command.  Slip: the state is not looked at.    *)
IdleAnswerBySelector ==
  IF IsOneByteCommand(1) THEN <<StartAddr % 256, StartAddr \div 256>> ELSE <<ResponseByte>>
IdleAnswer ==
  IF DFU_State = dfuERROR /\ IsOneByteCommand(1)
  THEN <<StartAddr % 256, StartAddr \div 256>> ELSE <<ResponseByte>>

AnswerUpload ==
  /\ pc = "upload" /\ DFU_State # dfuUPLOAD_IDLE
  /\ Send(IdleAnswer)
  /\ UNCHANGED <<rangeVars, DFU_State, loop, request>>

StartReading ==
  /\ pc = "upload" /\ DFU_State = dfuUPLOAD_IDLE
  /\ \/ /\ IsOneByteCommand(0)
        /\ pc' = "upFlash"
        /\ loop' = [loop EXCEPT !.remaining = BytesRemaining \div 2,
                                !.cursor = Long(StartAddr)]
        /\ UNCHANGED <<DFU_State, ep, reply>>
     \/ /\ IsOneByteCommand(2)
        /\ Enter("upEeprom", BytesRemaining)
        /\ UNCHANGED <<DFU_State, ep, reply>>
     \/ /\ ~IsOneByteCommand(0) /\ ~IsOneByteCommand(2)
        /\ DFU_State' = dfuIDLE
        /\ Send(<<>>)
        /\ UNCHANGED loop
  /\ UNCHANGED <<rangeVars, request>>

SendFullPacket ==
  /\ pc \in {"upFlash", "upEeprom"} /\ Ready /\ loop.remaining > 0
  /\ ep.bank = FIXED_CONTROL_ENDPOINT_SIZE
  /\ ClearPacket
  /\ UNCHANGED <<rangeVars, DFU_State, stepVars, request, reply>>

(* pgm_read_word takes a sixteen-bit address, of which flash has fewer bits.*)
FlashByte(a) == flash[(a % 65536) % (FLASHEND + 1)]

ReadFlashWord ==
  /\ pc = "upFlash" /\ Ready /\ loop.remaining > 0
  /\ ep.bank # FIXED_CONTROL_ENDPOINT_SIZE
  /\ Write(<<FlashByte(loop.cursor), FlashByte(loop.cursor + 1)>>)
  /\ loop' = [loop EXCEPT !.remaining = @ - 1, !.cursor = @ + 2]
  /\ UNCHANGED <<rangeVars, DFU_State, pc, request>>

ReadEepromByte ==
  /\ pc = "upEeprom" /\ Ready /\ loop.remaining > 0
  /\ ep.bank # FIXED_CONTROL_ENDPOINT_SIZE
  /\ Write(<<eeprom[StartAddr % (E2END + 1)]>>)
  /\ loop' = [loop EXCEPT !.remaining = @ - 1]
  /\ StartAddr' = (StartAddr + 1) % 65536
  /\ UNCHANGED <<Flash64KBPage, EndAddr, DFU_State, pc, request>>

MemoryRead ==
  /\ pc \in {"upFlash", "upEeprom"} /\ Ready /\ loop.remaining = 0
  /\ StartAddr' = IF pc = "upFlash" THEN EndAddr ELSE StartAddr
  /\ DFU_State' = dfuIDLE
  /\ Send(<<>>)
  /\ UNCHANGED <<Flash64KBPage, EndAddr, loop, request>>

(* The host ends the data stage when it has what it asked for or when a     *)
(* packet comes short; its empty packet ends the request.                   *)
HostSatisfied ==
  \/ ep.moved >= request.wLength
  \/ ep.moved = 0 \/ ep.moved % FIXED_CONTROL_ENDPOINT_SIZE # 0

StatusStage ==
  /\ pc = "status" /\ Ready /\ HostSatisfied
  /\ Return
  /\ UNCHANGED <<rangeVars, DFU_State>>

AnswerRequest ==
  /\ \/ AnswerState \/ AnswerUpload \/ StartReading \/ SendFullPacket
     \/ ReadFlashWord \/ ReadEepromByte \/ MemoryRead \/ StatusStage
  /\ UNCHANGED answerFrame
-----------------------------------------------------------------------------
(* Waiting, the host, the cable and the reset line.                         *)

(* Every wait for the host gives up, and returns from the handler, when the *)
(* device is no longer attached.  State set so far stays as it is.          *)
GiveUp ==
  /\ Unplugged
  /\ \/ pc \in {"answer", "upload", "status"}
     \/ pc \in {"command", "flash", "eeprom", "upFlash", "upEeprom"} /\ ~Ready
  /\ Return
  /\ UNCHANGED <<flashVars, eeprom, IsSecure, ResponseByte, statusVars, SentCommand,
                 rangeVars, exitVars, USB_DeviceState>>

busFrame == <<flashVars, eeprom, IsSecure, ResponseByte, statusVars, SentCommand,
              rangeVars, exitVars, request, reply, stepVars>>

HostSendsPacket ==
  /\ pc \in OutStages /\ ~Ready /\ USB_DeviceState = "Configured"
  /\ ep.moved < request.wLength
  /\ LET left == request.wLength - ep.moved
         size == IF left < FIXED_CONTROL_ENDPOINT_SIZE THEN left
                 ELSE FIXED_CONTROL_ENDPOINT_SIZE
     IN  ep' = [turn |-> "device", bank |-> size, moved |-> ep.moved + size]
  /\ UNCHANGED <<busFrame, USB_DeviceState>>

HostTakesPacket ==
  /\ pc \in InStages /\ ~Ready /\ USB_DeviceState = "Configured"
  /\ ep.moved < request.wLength
  /\ ep' = [turn |-> "device", bank |-> 0, moved |-> ep.moved + ep.bank]
  /\ UNCHANGED <<busFrame, USB_DeviceState>>

(* What the bank holds stays readable once the cable is out.                *)
Detach ==
  /\ USB_DeviceState = "Configured" /\ USB_DeviceState' = "Unattached"
  /\ UNCHANGED <<busFrame, ep>>

(* Configured again: the requests that enumerate a device are served by     *)
(* main() (INTERRUPT_CONTROL_ENDPOINT is off), so between two others.       *)
Attach ==
  /\ USB_DeviceState = "Unattached" /\ pc = "idle"
  /\ USB_DeviceState' = "Configured"
  /\ UNCHANGED <<busFrame, ep>>

(* main() starts again from the initial values of its statics, the watchdog *)
(* off.  Flash, EEPROM and lock bits survive; the page buffer does not.     *)
Restart ==
  /\ pageBuffer' = EmptyBuffer
  /\ IsSecure' = SECURE_MODE
  /\ RunBootloader' = TRUE /\ WaitForExit' = FALSE
  /\ DFU_State' = dfuIDLE /\ DFU_Status' = OK
  /\ SentCommand' = [Command |-> 0, Data |-> NoData, DataSize |-> 0]
  /\ ResponseByte' = 0 /\ AppStartPtr' = 0
  /\ Flash64KBPage' = 0 /\ StartAddr' = 0 /\ EndAddr' = 0
  /\ watchdog' = FALSE
  /\ USB_DeviceState' \in {"Configured", "Unattached"}
  /\ request' = NoRequest /\ ep' = NoPacket /\ reply' = <<>>
  /\ pc' = "idle" /\ loop' = NoLoop
  /\ UNCHANGED <<flash, lockBits, eeprom>>

WatchdogFires == watchdog /\ Restart /\ UNCHANGED MagicBootKey

PowerFails == Restart /\ MagicBootKey' \in BOOLEAN
-----------------------------------------------------------------------------
Init ==
  /\ InitFlash
  /\ eeprom = [a \in EepromAddresses |-> Saved]
  /\ IsSecure = SECURE_MODE
  /\ RunBootloader = TRUE /\ WaitForExit = FALSE
  /\ DFU_State = dfuIDLE /\ DFU_Status = OK
  /\ SentCommand = [Command |-> 0, Data |-> NoData, DataSize |-> 0]
  /\ ResponseByte = 0 /\ AppStartPtr = 0
  /\ Flash64KBPage = 0 /\ StartAddr = 0 /\ EndAddr = 0
  /\ MagicBootKey \in BOOLEAN /\ watchdog = FALSE
  /\ USB_DeviceState \in {"Configured", "Unattached"}
  /\ request = NoRequest /\ ep = NoPacket /\ reply = <<>>
  /\ pc = "idle" /\ loop = NoLoop

Handler ==
  \/ FinishExit \/ LoadCommand \/ ProcessBootloaderCommand \/ EraseNextPage
  \/ WriteFirmware \/ AnswerRequest \/ GiveUp

Environment ==
  \/ HostSendsPacket \/ HostTakesPacket \/ Detach \/ Attach
  \/ WatchdogFires \/ PowerFails

Next == EVENT_USB_Device_ControlRequest \/ Handler \/ Environment

Spec == Init /\ [][Next]_vars

(* The processor keeps running, and a host that is plugged in keeps moving  *)
(* the packets of the request it issued.  Nobody has to issue a request,    *)
(* plug a cable back in, or reset the board.                                *)
FairSpec ==
  Spec /\ WF_vars(Handler) /\ WF_vars(HostSendsPacket) /\ WF_vars(HostTakesPacket)
-----------------------------------------------------------------------------
Locals == [remaining : Nat, cursor : Nat, pageStart : Nat, words : Nat,
           caller : {"idle", "exit", "firmware"}]
Packet == [turn : {"host", "device"}, bank : Nat, moved : Nat]

MemoryTypeOK  == FlashTypeOK /\ eeprom \in [EepromAddresses -> Int]
StatusTypeOK  == /\ DFU_State \in {dfuIDLE, dfuDNLOAD_IDLE, dfuUPLOAD_IDLE, dfuERROR}
                 /\ DFU_Status \in {OK, errWRITE, errCHECK_ERASED, errADDRESS}
CommandTypeOK == /\ SentCommand \in [Command : Byte, Data : CommandData, DataSize : Word]
                 /\ ResponseByte \in Byte /\ IsSecure \in BOOLEAN
RangeTypeOK   == Flash64KBPage \in Byte /\ StartAddr \in Word /\ EndAddr \in Word
ExitTypeOK    == /\ RunBootloader \in BOOLEAN /\ WaitForExit \in BOOLEAN
                 /\ AppStartPtr \in Word
                 /\ MagicBootKey \in BOOLEAN /\ watchdog \in BOOLEAN
BusTypeOK     == /\ USB_DeviceState \in {"Configured", "Unattached"}
                 /\ request \in Request /\ ep \in Packet /\ reply \in Seq(Int)
StepTypeOK    == pc \in Labels /\ loop \in Locals

(* Every static variable keeps its width and its set of values, and a count *)
(* or an address in a local of the handler does not fall below zero.        *)
TypeOK ==
  /\ MemoryTypeOK /\ StatusTypeOK /\ CommandTypeOK /\ RangeTypeOK
  /\ ExitTypeOK /\ BusTypeOK /\ StepTypeOK
=============================================================================
