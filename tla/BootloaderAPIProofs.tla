-------------------------- MODULE BootloaderAPIProofs --------------------------
(***************************************************************************)
(* The bootloader section survives every call of the flash API, for every   *)
(* flash geometry the makefile may configure.                               *)
(***************************************************************************)
EXTENDS BootloaderAPITable, FlashLemmas

(* Whatever words and addresses the application passes through the jump     *)
(* table, the flash variables keep their types and the bootloader section   *)
(* (BootloaderAPI.c:38) keeps its code.                                     *)
APIInv == FlashTypeOK /\ BootSectionIntact

LEMMA APIStep == APIInv /\ [APINext]_apiVars => APIInv'
<1> SUFFICES ASSUME APIInv, [APINext]_apiVars PROVE APIInv'
  OBVIOUS
<1> USE DEF APIInv
<1>1. CASE UNCHANGED apiVars
  BY <1>1 DEF apiVars, FlashTypeOK, BootSectionIntact
<1>2. ASSUME NEW a \in CallAddresses, ErasePage(a) PROVE APIInv'
  BY <1>2, CallsAreWords, EraseType, EraseKeepsBoot
<1>3. ASSUME NEW a \in CallAddresses, WritePage(a) PROVE APIInv'
  BY <1>3, CallsAreWords, WriteType, WriteKeepsBoot
<1>4. ASSUME NEW a \in CallAddresses, NEW low \in CallBytes, NEW high \in CallBytes,
             FillWord(a, low, high)
      PROVE  APIInv'
  <2>1. BootSectionIntact'
    BY <1>4 DEF FillWord, BootSectionIntact
  <2> QED
    BY <1>4, <2>1, CallsAreWords, FillType
<1>5. ASSUME NEW bits \in SUBSET LockBitNames, WriteLock(bits) PROVE APIInv'
  BY <1>5 DEF WriteLock, FlashTypeOK, BootSectionIntact
<1> QED
  BY <1>1, <1>2, <1>3, <1>4, <1>5 DEF APINext, Call, ReadsOnly

THEOREM APITypeOK == APISpec => []FlashTypeOK
<1>1. APIInit => APIInv
  BY InitFlashType DEF APIInit, APIInv
<1>2. APIInv => FlashTypeOK
  BY DEF APIInv
<1> QED
  BY <1>1, <1>2, APIStep, PTL DEF APISpec

THEOREM APIBootSectionIntact == APISpec => []BootSectionIntact
<1>1. APIInit => APIInv
  BY InitFlashType DEF APIInit, APIInv
<1>2. APIInv => BootSectionIntact
  BY DEF APIInv
<1> QED
  BY <1>1, <1>2, APIStep, PTL DEF APISpec
=============================================================================
