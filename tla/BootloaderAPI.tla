---------------------------- MODULE BootloaderAPI ----------------------------
(***************************************************************************)
(* The flash programming functions of bootloader/BootloaderAPI.c: page     *)
(* erase, page write, page-buffer fill and lock-bit write, each of them    *)
(* one self-programming (SPM) operation of the AVR.  The DFU request       *)
(* handler calls them, and so does the application through the jump table. *)
(*                                                                         *)
(* Flash is kept byte by byte, and a byte is one of a few integers: the    *)
(* negative ones below, or a natural number that names the data byte the   *)
(* host sent for the address of that number.                               *)
(***************************************************************************)
EXTENDS Integers

CONSTANTS
  SPM_PAGESIZE,    (* bytes in a flash page                                  *)
  BOOT_START_ADDR, (* first byte of the bootloader section                   *)
  FLASHEND         (* last byte of flash                                     *)

ASSUME FlashGeometry ==
  /\ SPM_PAGESIZE \in Nat /\ SPM_PAGESIZE > 0 /\ SPM_PAGESIZE % 2 = 0
  /\ BOOT_START_ADDR \in Nat /\ BOOT_START_ADDR > 0
  /\ BOOT_START_ADDR % SPM_PAGESIZE = 0
  /\ FLASHEND \in Nat /\ BOOT_START_ADDR <= FLASHEND
  /\ (FLASHEND + 1) % SPM_PAGESIZE = 0

VARIABLES
  flash,      (* contents of the program memory                              *)
  pageBuffer, (* the write-only temporary page buffer of the SPM unit        *)
  lockBits    (* the lock bits programmed so far                             *)

Original == -1  (* application byte that was there at power-up               *)
Blank    == -2  (* erased byte, 0xFF; in the page buffer: not loaded         *)
BootCode == -3  (* byte of the bootloader                                    *)
Junk     == -4  (* a byte that is not firmware data: filler, suffix, underrun*)
Corrupt  == -5  (* AND of two different bytes: programmed without an erase   *)

FlashAddresses == 0 .. FLASHEND
PageOffsets    == 0 .. SPM_PAGESIZE - 1
LockBitNames   == {"LB1", "LB2", "BLB01", "BLB02", "BLB11", "BLB12"}

EmptyBuffer == [i \in PageOffsets |-> Blank]

(* The page whose first byte is at Address. *)
PageCells(Address) == Address .. Address + SPM_PAGESIZE - 1

(* Slips in the address check: a test lost, or the range test off by one.   *)
AlignedOnly(Address) == Address % SPM_PAGESIZE = 0
RangeOnly(Address)   == Address < BOOT_START_ADDR
OffByOneRange(Address) ==
  Address <= BOOT_START_ADDR /\ Address % SPM_PAGESIZE = 0

IsPageAddressValid(Address) ==
  Address < BOOT_START_ADDR /\ Address % SPM_PAGESIZE = 0

(* A flash cell can only lose bits: data lands intact on a blank cell. *)
Program(old, new) ==
  IF new = Blank \/ new = old THEN old
  ELSE IF old = Blank THEN new
  ELSE Corrupt

(* boot_rww_enable() at the end of an erase or a write clears the buffer;   *)
(* the slip leaves the words of an interrupted page in it.                  *)
BufferKept == pageBuffer
BufferAfterRwwEnable == EmptyBuffer

ErasePage(Address) ==
  /\ IF IsPageAddressValid(Address)
     THEN /\ flash' = [c \in FlashAddresses |->
                         IF c \in PageCells(Address) THEN Blank ELSE flash[c]]
          /\ pageBuffer' = BufferAfterRwwEnable
     ELSE UNCHANGED <<flash, pageBuffer>>
  /\ UNCHANGED lockBits

WritePage(Address) ==
  /\ IF IsPageAddressValid(Address)
     THEN /\ flash' = [c \in FlashAddresses |->
                         IF c \in PageCells(Address)
                         THEN Program(flash[c], pageBuffer[c - Address])
                         ELSE flash[c]]
          /\ pageBuffer' = BufferAfterRwwEnable
     ELSE UNCHANGED <<flash, pageBuffer>>
  /\ UNCHANGED lockBits

(* The word goes to the buffer slot selected by the address bits within a   *)
(* page, bit 0 ignored.  A slot that is loaded keeps its word until the     *)
(* buffer is cleared.  The address is not validated.                        *)
FillWord(Address, low, high) ==
  LET slot == (Address % SPM_PAGESIZE) - (Address % 2)
  IN  /\ pageBuffer' =
           IF pageBuffer[slot] = Blank /\ pageBuffer[slot + 1] = Blank
           THEN [pageBuffer EXCEPT ![slot] = low, ![slot + 1] = high]
           ELSE pageBuffer
      /\ UNCHANGED <<flash, lockBits>>

(* Lock bits can be programmed, never unprogrammed, from software. *)
WriteLock(LockBits) ==
  /\ lockBits' = lockBits \cup LockBits
  /\ UNCHANGED <<flash, pageBuffer>>

InitFlash ==
  /\ flash = [c \in FlashAddresses |->
                IF c < BOOT_START_ADDR THEN Original ELSE BootCode]
  /\ pageBuffer = EmptyBuffer
  /\ lockBits = {}

FlashTypeOK ==
  /\ flash \in [FlashAddresses -> Int]
  /\ pageBuffer \in [PageOffsets -> Int]
  /\ lockBits \in SUBSET LockBitNames

(* No call, whatever its address, alters a byte of the bootloader section:  *)
(* the address check of ErasePage and WritePage is what keeps a board       *)
(* recoverable over USB.                                                    *)
BootSectionIntact ==
  \A c \in FlashAddresses : c >= BOOT_START_ADDR => flash[c] = BootCode
=============================================================================
