-------------------------- MODULE BootloaderAPITable --------------------------
(***************************************************************************)
(* The application's view of the bootloader API: it calls through the jump *)
(* table of bootloader/BootloaderAPITable.S, in any order, with any        *)
(* argument.  Table entries past the seventh return at once.               *)
(***************************************************************************)
EXTENDS BootloaderAPI

CONSTANTS
  CallAddresses, (* addresses the application passes                         *)
  CallBytes      (* bytes of the words the application passes                *)

ASSUME CallsAreWords ==
  /\ CallAddresses \subseteq Nat
  /\ CallBytes \subseteq Nat

apiVars == <<flash, pageBuffer, lockBits>>

JumpTable ==
  <<"ErasePage", "WritePage", "FillWord", "ReadSignature", "ReadFuse",
    "ReadLock", "WriteLock", "UNUSED1", "UNUSED2", "UNUSED3", "UNUSED4",
    "UNUSED5">>

(* Signature, fuse and lock bytes are read into a register; an unused entry *)
(* is a bare ret.                                                           *)
ReadsOnly(entry) ==
  /\ JumpTable[entry] \in {"ReadSignature", "ReadFuse", "ReadLock", "UNUSED1",
                           "UNUSED2", "UNUSED3", "UNUSED4", "UNUSED5"}
  /\ UNCHANGED apiVars

Call(entry) ==
  \/ /\ JumpTable[entry] = "ErasePage"
     /\ \E a \in CallAddresses : ErasePage(a)
  \/ /\ JumpTable[entry] = "WritePage"
     /\ \E a \in CallAddresses : WritePage(a)
  \/ /\ JumpTable[entry] = "FillWord"
     /\ \E a \in CallAddresses, low, high \in CallBytes : FillWord(a, low, high)
  \/ /\ JumpTable[entry] = "WriteLock"
     /\ \E bits \in SUBSET LockBitNames : WriteLock(bits)
  \/ ReadsOnly(entry)

APIInit == InitFlash
APINext == \E entry \in DOMAIN JumpTable : Call(entry)
APISpec == APIInit /\ [][APINext]_apiVars
=============================================================================
