---------------------------- MODULE MCBootloaderDFU ----------------------------
(***************************************************************************)
(* Hosts for model checking the DFU bootloader: each is the set of requests *)
(* it may issue, in any order.  The checked device has two or three         *)
(* application pages and one bootloader page of eight bytes, packets of     *)
(* eight bytes, two filler bytes (header and filler make a packet, as       *)
(* 6 + 26 do on the device) and a suffix of half a packet.                  *)
(***************************************************************************)
EXTENDS BootloaderDFUProperties

Setting(req, length) ==
  [bRequest |-> req, Command |-> 0, Data |-> NoData, wLength |-> length]

Dnload(cmd, bytes, length) ==
  [bRequest |-> DFU_REQ_DNLOAD, Command |-> cmd, wLength |-> length,
   Data |-> [i \in 0 .. 4 |-> IF i < Len(bytes) THEN bytes[i + 1] ELSE 0]]

(* A command is sent with exactly its bytes. *)
Short(cmd, bytes) == Dnload(cmd, bytes, 1 + Len(bytes))

(* A program command with the packet padding, data and suffix it announces. *)
Program8(memory, first, last) ==
  Dnload(COMMAND_PROG_START, <<memory, 0, first, 0, last>>,
         HeaderSize + DFU_FILLER_BYTES_SIZE + (first % FIXED_CONTROL_ENDPOINT_SIZE)
           + (last - first + 1) + DFU_FILE_SUFFIX_SIZE)

Flashing(first, last) == Program8(0, first, last)
Storing(first, last)  == Program8(1, first, last)
Display(memory, first, last) ==
  Short(COMMAND_DISP_DATA, <<memory, 0, first, 0, last>>)

BlankChecking == Short(COMMAND_DISP_DATA, <<1>>)
EndDownload   == Setting(DFU_REQ_DNLOAD, 0)
Aborting      == Setting(DFU_REQ_ABORT, 0)
ClearingStatus == Setting(DFU_REQ_CLRSTATUS, 0)
Detaching     == Setting(0, 0)
GettingStatus == Setting(DFU_REQ_GETSTATUS, 6)
GettingState  == Setting(DFU_REQ_GETSTATE, 1)
Uploading(n)  == Setting(DFU_REQ_UPLOAD, n)
Erasing       == Short(COMMAND_WRITE, <<0, 255>>)
ExitReset     == Short(COMMAND_WRITE, <<3, 0>>)
ExitJump      == Short(COMMAND_WRITE, <<3, 1, 0, 2, 0>>)
ExitJumpPadded == Dnload(COMMAND_WRITE, <<3, 1, 0, 2, 0>>, 7)
OtherWrite    == Short(COMMAND_WRITE, <<1, 0>>)
UnknownMemory == Short(COMMAND_DISP_DATA, <<9>>)
UnknownProgram == Short(COMMAND_PROG_START, <<9>>)
UnknownNumber == Short(2, <<0>>)
ReadInfo(i)   == Short(COMMAND_READ, <<0, i>>)
ReadSignature(i) == Short(COMMAND_READ, <<1, i>>)
ReadOther     == Short(COMMAND_READ, <<9, 0>>)
ChangeBase(p) == Short(COMMAND_CHANGE_BASE_ADDR, <<3, 0, p>>)

(* Downloads to flash: three pages, a part of the last and an odd length;   *)
(* a whole page; across the bootloader's border; off a page border; to the  *)
(* next 64 KB; and a range that ends before it starts (with less than a     *)
(* page of data); unfinished ones come from Detach.                         *)
Backward == Dnload(COMMAND_PROG_START, <<0, 0, 8, 0, 3>>, 14)
FlashHost ==
  {Flashing(0, 20), Flashing(8, 15), Flashing(16, 27), Flashing(3, 12), Backward,
   ChangeBase(1), Erasing, EndDownload}

(* Transfers of both memories in both directions, in two packets and of an  *)
(* even and an odd number of bytes, and commands the handler does not know. *)
TransferHost ==
  {Storing(0, 9), Flashing(0, 9), Display(2, 0, 9), Display(0, 0, 10), Uploading(11),
   UnknownMemory, UnknownProgram, UnknownNumber, OtherWrite, ReadOther, Detaching,
   GettingStatus, EndDownload, Aborting}
EepromUnalignedHost == {Storing(2, 4)}

(* Locked or opened by an erase: transfers of flash, and a read command that *)
(* is too long, whose surplus a download in dfuDNLOAD_IDLE would take for   *)
(* firmware.                                                                *)
TooLongRead == Dnload(COMMAND_READ, <<0, 1, 0, 0, 0>>, 16)
SecureHost ==
  {TooLongRead, Erasing, Flashing(0, 7), Flashing(8, 9), Display(0, 0, 9),
   Display(0, 8, 15), BlankChecking, Uploading(10), Uploading(8), ReadInfo(1),
   Storing(0, 1), Aborting}

(* A session of a locked build without transfers: both exits, the erase     *)
(* that lets them through, and reads and checks that fail or succeed.       *)
SessionHost ==
  {ExitReset, ExitJump, ExitJumpPadded, EndDownload, Erasing, Flashing(0, 1),
   ReadInfo(2), ReadInfo(3), ReadSignature(49), BlankChecking,
   Uploading(2), GettingState, ClearingStatus, Aborting}

(* What the theorems about downloads assume holds of the checked device and *)
(* of the hosts that transfer data, so their hypotheses can be met.  Two    *)
(* hosts break the rules on purpose: SecureHost with TooLongRead, and       *)
(* EepromUnalignedHost with a range that starts inside a packet.            *)
Downloads(host) == {r \in host : r.bRequest = DFU_REQ_DNLOAD}
ASSUME HostsKeepTheRules ==
  /\ DeviceSizes
  /\ \A r \in Downloads(FlashHost \cup TransferHost) : FlashDownload(r) /\ EepromDownload(r)
  /\ \A r \in Downloads(SecureHost) \ {TooLongRead} : FlashDownload(r)
  /\ Requests = TransferHost => PatientHosts
=============================================================================
