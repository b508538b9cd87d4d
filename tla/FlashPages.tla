------------------------------- MODULE FlashPages -------------------------------
(***************************************************************************)
(* What the bootloader promises about the application section, whatever the *)
(* requests and the accidents: a byte range is announced; its pages turn    *)
(* blank, the first with the announcement, and then take the bytes that     *)
(* belong there; a chip erase blanks the pages from the first to the last   *)
(* and only its end unlocks the memory; a reset locks it again, forgets the *)
(* range and leaves every byte as it was.                                   *)
(***************************************************************************)
EXTENDS Integers

CONSTANTS
  PageSize, Size,  (* bytes in a page and in the memory                      *)
  Lock,            (* whether the memory starts, and restarts, locked        *)
  Found, Blank     (* a byte that was there at first; an erased byte         *)

VARIABLES
  memory,   (* contents: Found, Blank, or the address a byte was sent for    *)
  locked,
  range,    (* the bytes that are announced, first and last                  *)
  erasing   (* the next page of the chip erase that is going on, if any      *)

pageVars == <<memory, locked, range, erasing>>

Cells   == 0 .. Size - 1
Pages   == 0 .. Size \div PageSize - 1
NoRange == [first |-> 1, last |-> 0]
NoErase == -1

PageOf(p)   == {a \in Cells : a \div PageSize = p}
Announced   == {a \in Cells : range.first <= a /\ a <= range.last}
Wiped(p)    == [a \in Cells |-> IF a \in PageOf(p) THEN Blank ELSE memory[a]]
IsBlank(p)  == \A a \in PageOf(p) : memory[a] = Blank
Quiet       == ~locked /\ erasing = NoErase

(* The announcement names a range; its first page may turn blank with it.   *)
Announce ==
  /\ Quiet
  /\ \/ UNCHANGED memory
     \/ range'.first % PageSize = 0 /\ memory' = Wiped(range'.first \div PageSize)
  /\ UNCHANGED <<locked, erasing>>

(* A later page of the range is opened. *)
Open(p) ==
  /\ Quiet /\ PageOf(p) \cap Announced # {}
  /\ memory' = Wiped(p)
  /\ UNCHANGED <<locked, range, erasing>>

(* A blank page takes its bytes, from its first one on, the announced ones  *)
(* only.                                                                    *)
Fill(p) ==
  /\ Quiet /\ IsBlank(p)
  /\ \E last \in PageOf(p) \cap Announced :
       memory' = [a \in Cells |-> IF a \in PageOf(p) /\ a <= last THEN a ELSE memory[a]]
  /\ UNCHANGED <<locked, range, erasing>>

StartErase ==
  /\ erasing = NoErase /\ erasing' = 0
  /\ UNCHANGED <<memory, locked, range>>

EraseNext ==
  /\ erasing # NoErase
  /\ memory' = Wiped(erasing)
  /\ IF erasing + 1 \in Pages
     THEN erasing' = erasing + 1 /\ UNCHANGED locked
     ELSE erasing' = NoErase /\ locked' = FALSE
  /\ UNCHANGED range

Reset ==
  /\ locked' = Lock /\ range' = NoRange /\ erasing' = NoErase
  /\ UNCHANGED memory

PagesInit ==
  /\ memory = [a \in Cells |-> Found]
  /\ locked = Lock /\ range = NoRange /\ erasing = NoErase

PagesNext ==
  \/ Announce \/ StartErase \/ EraseNext \/ Reset
  \/ \E p \in Pages : Open(p) \/ Fill(p)

PagesSpec == PagesInit /\ [][PagesNext]_pageVars
=============================================================================
