----------------------------- MODULE FlashLemmas -----------------------------
(***************************************************************************)
(* Facts about the flash functions of the bootloader API, for every flash   *)
(* geometry: the page check keeps them out of the bootloader section, and   *)
(* they keep the types of the flash variables.                              *)
(***************************************************************************)
EXTENDS BootloaderAPI, TLAPS

(* Multiplication by a positive number is monotonic. *)
LEMMA ProductMonotonic ==
  ASSUME NEW p \in Nat, NEW q \in Int, NEW r \in Int, q <= r
  PROVE  p * q <= p * r
  BY Z3

(* A number without remainder is a multiple. *)
LEMMA ZeroRemainder ==
  ASSUME NEW a \in Nat, NEW p \in Nat, p > 0, a % p = 0
  PROVE  \E q \in Int : a = p * q
  BY Z3

LEMMA MultiplesApart ==
  ASSUME NEW p \in Nat, p > 0, NEW a \in Nat, NEW b \in Nat,
         a % p = 0, b % p = 0, a < b
  PROVE  a + p <= b
<1>1. PICK q \in Int : a = p * q
  BY ZeroRemainder
<1>2. PICK r \in Int : b = p * r
  BY ZeroRemainder
<1>3. q + 1 <= r
  <2>1. SUFFICES ASSUME r <= q PROVE FALSE
    OBVIOUS
  <2>2. p * r <= p * q
    BY <2>1, ProductMonotonic
  <2> QED
    BY <1>1, <1>2, <2>2
<1>4. p * (q + 1) <= p * r
  BY <1>3, ProductMonotonic
<1>5. p * (q + 1) = p * q + p
  BY Z3
<1> QED
  BY <1>1, <1>2, <1>4, <1>5

(* Quotients and remainders.                                               *)
LEMMA ProductNatural ==
  ASSUME NEW p \in Nat, NEW q \in Nat
  PROVE  p * q \in Nat
  BY Z3

LEMMA Quotient ==
  ASSUME NEW p \in Nat, p > 0, NEW a \in Nat
  PROVE  /\ a \div p \in Nat /\ a % p \in Nat /\ a % p < p
         /\ a = p * (a \div p) + (a % p)
  BY Z3

LEMMA QuotientUnique ==
  ASSUME NEW p \in Nat, p > 0, NEW q \in Nat, NEW c \in Nat, c < p
  PROVE  (p * q + c) \div p = q /\ (p * q + c) % p = c
  BY Z3

LEMMA QuotientMonotonic ==
  ASSUME NEW p \in Nat, p > 0, NEW a \in Nat, NEW b \in Nat, a <= b
  PROVE  a \div p <= b \div p
  BY Z3

LEMMA RemainderAdded ==
  ASSUME NEW p \in Nat, p > 0, NEW a \in Nat
  PROVE  (a + p) % p = a % p /\ (a + p) \div p = (a \div p) + 1
<1> DEFINE q == a \div p
           c == a % p
<1>1. q \in Nat /\ c \in Nat /\ c < p /\ a = p * q + c
  BY Quotient
<1> HIDE DEF q, c
<1>2. p * (q + 1) = p * q + p
  BY <1>1, Z3
<1>3. p * q \in Nat /\ p * (q + 1) \in Nat
  BY <1>1, ProductNatural
<1>4. a + p = p * (q + 1) + c
  BY <1>1, <1>2, <1>3, Z3
<1>5. (p * (q + 1) + c) \div p = q + 1 /\ (p * (q + 1) + c) % p = c
  BY <1>1, QuotientUnique
<1> QED
  BY <1>4, <1>5 DEF q, c

LEMMA MultipleSum ==
  ASSUME NEW p \in Nat, p > 0, NEW a \in Nat, NEW b \in Nat, a % p = 0
  PROVE  (a + b) % p = b % p
<1>1. PICK q \in Int : a = p * q
  BY ZeroRemainder
<1> DEFINE r == b \div p
           c == b % p
<1>2. r \in Nat /\ c \in Nat /\ c < p /\ b = p * r + c
  BY Quotient
<1> HIDE DEF r, c
<1>3. q \in Nat
  BY <1>1, Z3
<1>4. p * (q + r) = p * q + p * r
  BY <1>2, <1>3, Z3
<1>5. p * q \in Nat /\ p * r \in Nat /\ p * (q + r) \in Nat
  BY <1>2, <1>3, ProductNatural
<1>6. a + b = p * (q + r) + c
  BY <1>1, <1>2, <1>4, <1>5, Z3
<1>7. (p * (q + r) + c) % p = c
  BY <1>2, <1>3, QuotientUnique
<1> QED
  BY <1>6, <1>7 DEF r, c

LEMMA MultipleProduct ==
  ASSUME NEW p \in Nat, p > 0, NEW m \in Nat, m % p = 0, NEW k \in Nat
  PROVE  (m * k) % p = 0
<1>1. PICK q \in Int : m = p * q
  BY ZeroRemainder
<1>2. q \in Nat
  BY <1>1, Z3
<1>3. (p * q) * k = p * (q * k) + 0 /\ q * k \in Nat
  BY <1>2, Z3
<1>4. (p * (q * k) + 0) % p = 0
  BY <1>3, QuotientUnique
<1> QED
  BY <1>1, <1>3, <1>4

(* Divisibility carries over. *)
LEMMA MultipleOfMultiple ==
  ASSUME NEW d \in Nat, d > 0, NEW p \in Nat, p > 0, p % d = 0, NEW m \in Nat, m % p = 0
  PROVE  m % d = 0
<1>1. PICK q \in Int : m = p * q
  BY ZeroRemainder
<1>2. q \in Nat
  BY <1>1, Z3
<1> QED
  BY <1>1, <1>2, MultipleProduct
-----------------------------------------------------------------------------
(* A page the address check accepts ends below the bootloader section.      *)
LEMMA PageBelowBoot ==
  ASSUME NEW a \in Nat, IsPageAddressValid(a)
  PROVE  \A c \in PageCells(a) : c < BOOT_START_ADDR
<1>1. a + SPM_PAGESIZE <= BOOT_START_ADDR
  BY FlashGeometry, MultiplesApart DEF IsPageAddressValid
<1> QED
  BY <1>1, FlashGeometry DEF PageCells

(* The bytes of a page the address check accepts. *)
LEMMA ValidPageCells ==
  ASSUME NEW p \in Nat, IsPageAddressValid(p), NEW c \in PageCells(p)
  PROVE  /\ c \in FlashAddresses /\ c \in Nat /\ p <= c /\ c < p + SPM_PAGESIZE
         /\ c - p \in PageOffsets /\ c < BOOT_START_ADDR
<1>1. c < BOOT_START_ADDR
  BY PageBelowBoot
<1> QED
  BY <1>1, FlashGeometry DEF PageCells, FlashAddresses, PageOffsets

(* The bytes of a page have its number. *)
LEMMA PageOfCell ==
  ASSUME NEW a \in Nat, a % SPM_PAGESIZE = 0, NEW c \in PageCells(a)
  PROVE  c \in Nat /\ c \div SPM_PAGESIZE = a \div SPM_PAGESIZE
<1> DEFINE p == SPM_PAGESIZE
           q == a \div p
<1>1. p \in Nat /\ p > 0
  BY FlashGeometry
<1>2. q \in Nat /\ a = p * q + (a % p)
  BY <1>1, Quotient
<1>3. c - a \in Nat /\ c - a < p /\ c \in Nat
  BY <1>1 DEF PageCells
<1> HIDE DEF p, q
<1>4. p * q \in Nat /\ a % p = 0
  BY <1>1, <1>2 DEF p
<1>5. c = p * q + (c - a)
  BY <1>2, <1>3, <1>4
<1>6. (p * q + (c - a)) \div p = q
  BY <1>1, <1>2, <1>3, QuotientUnique
<1> QED
  BY <1>3, <1>5, <1>6 DEF p, q

LEMMA EraseKeepsBoot ==
  ASSUME NEW a \in Nat, ErasePage(a), BootSectionIntact
  PROVE  BootSectionIntact'
<1>1. CASE IsPageAddressValid(a)
  BY <1>1, PageBelowBoot, FlashGeometry
  DEF ErasePage, BootSectionIntact, FlashAddresses
<1>2. CASE ~IsPageAddressValid(a)
  BY <1>2 DEF ErasePage, BootSectionIntact
<1> QED
  BY <1>1, <1>2

LEMMA WriteKeepsBoot ==
  ASSUME NEW a \in Nat, WritePage(a), BootSectionIntact
  PROVE  BootSectionIntact'
<1>1. CASE IsPageAddressValid(a)
  BY <1>1, PageBelowBoot, FlashGeometry
  DEF WritePage, BootSectionIntact, FlashAddresses
<1>2. CASE ~IsPageAddressValid(a)
  BY <1>2 DEF WritePage, BootSectionIntact
<1> QED
  BY <1>1, <1>2

(* The types of the flash variables are kept by each function. *)
LEMMA ProgramType ==
  ASSUME NEW old \in Int, NEW new \in Int
  PROVE  Program(old, new) \in Int
  BY DEF Program, Corrupt

LEMMA EraseType ==
  ASSUME NEW a \in Nat, ErasePage(a), FlashTypeOK
  PROVE  FlashTypeOK'
  BY DEF ErasePage, FlashTypeOK, BufferAfterRwwEnable, EmptyBuffer, Blank

LEMMA WriteType ==
  ASSUME NEW a \in Nat, WritePage(a), FlashTypeOK
  PROVE  FlashTypeOK'
<1>1. CASE IsPageAddressValid(a)
  <2>1. ASSUME NEW c \in FlashAddresses, c \in PageCells(a)
        PROVE  pageBuffer[c - a] \in Int
    BY <2>1, FlashGeometry
    DEF PageCells, PageOffsets, FlashTypeOK, FlashAddresses
  <2>2. flash' \in [FlashAddresses -> Int]
    BY <1>1, <2>1, ProgramType DEF WritePage, FlashTypeOK
  <2> QED
    BY <1>1, <2>2
    DEF WritePage, FlashTypeOK, BufferAfterRwwEnable, EmptyBuffer, Blank
<1>2. CASE ~IsPageAddressValid(a)
  BY <1>2 DEF WritePage, FlashTypeOK
<1> QED
  BY <1>1, <1>2

LEMMA FillType ==
  ASSUME NEW a \in Nat, NEW low \in Int, NEW high \in Int,
         FillWord(a, low, high), FlashTypeOK
  PROVE  FlashTypeOK'
  BY DEF FillWord, FlashTypeOK

LEMMA InitFlashType ==
  ASSUME InitFlash
  PROVE  FlashTypeOK /\ BootSectionIntact
<1>1. flash \in [FlashAddresses -> Int]
  BY DEF InitFlash, Original, BootCode
<1>2. pageBuffer \in [PageOffsets -> Int]
  BY DEF InitFlash, EmptyBuffer, Blank
<1>3. BootSectionIntact
  BY FlashGeometry DEF InitFlash, BootSectionIntact, FlashAddresses
<1> QED
  BY <1>1, <1>2, <1>3 DEF InitFlash, FlashTypeOK
=============================================================================
