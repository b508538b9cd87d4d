---------------------------- MODULE MCBootloaderAPI ----------------------------
(***************************************************************************)
(* An application that calls the flash API in any order on a device of two  *)
(* application pages and one bootloader page of four bytes: aligned and     *)
(* unaligned addresses on both sides of the border, one data byte.          *)
(***************************************************************************)
EXTENDS BootloaderAPITable

MCCallAddresses == {0, 2, 3, 4, 7, 8, 12}
MCCallBytes     == {0}
=============================================================================
