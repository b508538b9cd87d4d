--------------------------- MODULE EnumerationProofs ---------------------------
(***************************************************************************)
(* Theorems about enumeration, for hosts that ask for descriptors of any    *)
(* lengths.  They rest on one inductive invariant, EnumInv.                 *)
(***************************************************************************)
EXTENDS Enumeration, FiniteSetTheorems, TLAPS

Types == {"Device", "Configuration", "String", "DeviceQualifier"}
Posed == [type : Types, number : {0} \cup Named, length : Nat \ {0}]

(* The sizes of the descriptors that a host keeps.                          *)
Whole == [Device |-> SizeOf.Device, Configuration |-> TotalConfigurationSize]

EnumTypeOK ==
  /\ product \in Products
  /\ asked \in Posed \cup {NoRequest}
  /\ stage \in {"none", "data", "complete", "stalled"}
  /\ known \in [Device : 0 .. Whole.Device, Configuration : 0 .. Whole.Configuration]
  /\ configured \in BOOLEAN
  /\ got \in Nat

(* The host takes packets for what they are: of the smallest size there is  *)
(* until it has the start of the device descriptor, then of the true size.  *)
SizeLearnt == packetSize = IF known.Device = 0 THEN 8 ELSE FIXED_CONTROL_ENDPOINT_SIZE

(* What has arrived are full packets, and there is more to come.            *)
FirstLooks == {Request("Device", 0, 8), FirstLook}
UnderWay ==
  stage = "data" =>
    /\ asked \in Posed /\ (known.Device = 0 <=> asked \in FirstLooks)
    /\ got % FIXED_CONTROL_ENDPOINT_SIZE = 0 /\ got <= Answer(asked) /\ got < asked.length
    /\ known.Device = 0 => got = 0

(* A device is configured by a host that has its whole configuration.       *)
Informed ==
  /\ configured => known.Configuration = TotalConfigurationSize
  /\ endpoints = IF configured THEN SetUp ELSE {}

EnumInv ==
  /\ EnumTypeOK /\ SizeLearnt /\ UnderWay /\ Informed /\ WholeAnswers /\ NamedIsAnswered
-----------------------------------------------------------------------------
(* The layouts.  Places is a recursive function; a table that solves its    *)
(* equations is exhibited, and a function of the same equations is it.      *)
LEMMA PlacesEquation ==
  ASSUME NEW n \in Nat, NEW sizes \in [1 .. n -> Nat], Len(sizes) = n,
         NEW table \in [1 .. n + 1 -> Nat],
         table[1] = 0, \A i \in 1 .. n : table[i + 1] = table[i] + sizes[i]
  PROVE  /\ DOMAIN Places(sizes) = 1 .. n + 1
         /\ Places(sizes)[1] = 0
         /\ \A i \in 1 .. n : Places(sizes)[i + 1] = Places(sizes)[i] + sizes[i]
<1> DEFINE Solves(f) ==
      f = [i \in 1 .. Len(sizes) + 1 |-> IF i = 1 THEN 0 ELSE f[i - 1] + sizes[i - 1]]
<1>1. ASSUME NEW i \in 1 .. n + 1
      PROVE  table[i] = IF i = 1 THEN 0 ELSE table[i - 1] + sizes[i - 1]
  <2>1. CASE i = 1
    BY <2>1
  <2>2. CASE i # 1
    <3>1. i - 1 \in 1 .. n /\ (i - 1) + 1 = i
      BY <2>2
    <3> QED
      BY <2>2, <3>1
  <2> QED
    BY <2>1, <2>2
<1>2. Solves(table)
  BY <1>1
<1>3. Places(sizes) = CHOOSE f : Solves(f)
  BY Zenon DEF Places
<1>4. Solves(Places(sizes))
  <2> HIDE DEF Solves
  <2> QED
    BY <1>2, <1>3, Zenon
<1>5. ASSUME NEW i \in 1 .. n
      PROVE  Places(sizes)[i + 1] = Places(sizes)[i] + sizes[i]
  BY <1>4
<1> QED
  BY <1>4, <1>5

SizesOf(parts) == [i \in 1 .. Len(parts) |-> SizeOf[parts[i].kind]]

LEMMA BootloaderLayout ==
  /\ Len(BootloaderParts) = 3
  /\ DOMAIN Places(SizesOf(BootloaderParts)) = 1 .. 4
  /\ \A i \in 1 .. 4 : Places(SizesOf(BootloaderParts))[i] = <<0, 9, 18, 27>>[i]
<1> DEFINE sizes == SizesOf(BootloaderParts)
<1>1. Len(BootloaderParts) = 3
  BY DEF BootloaderParts
<1>2. sizes = [i \in 1 .. 3 |-> 9]
  BY DEF SizesOf, BootloaderParts, Part, Interface, SizeOf
<1>3. Len(sizes) = 3
  BY <1>2
<1> QED
  <2> HIDE DEF sizes
  <2> DEFINE table == [i \in 1 .. 3 + 1 |-> <<0, 9, 18, 27>>[i]]
  <2>1. /\ table \in [1 .. 3 + 1 -> Nat] /\ sizes \in [1 .. 3 -> Nat]
        /\ table[1] = 0 /\ \A i \in 1 .. 3 : table[i + 1] = table[i] + sizes[i]
    BY <1>2
  <2>2. /\ DOMAIN Places(sizes) = 1 .. 3 + 1 /\ Places(sizes)[1] = 0
        /\ \A i \in 1 .. 3 : Places(sizes)[i + 1] = Places(sizes)[i] + sizes[i]
    <3> HIDE DEF table
    <3>1. 3 \in Nat
      OBVIOUS
    <3> QED
      BY <1>3, <2>1, <3>1, PlacesEquation, Zenon
  <2>3. \A i \in 1 .. 4 : Places(sizes)[i] = <<0, 9, 18, 27>>[i]
    BY <1>2, <2>2
  <2> QED
    BY <1>1, <2>2, <2>3 DEF sizes

LEMMA CommandLineLayout ==
  /\ Len(CommandLineParts) = 9
  /\ DOMAIN Places(SizesOf(CommandLineParts)) = 1 .. 10
  /\ \A i \in 1 .. 10 : Places(SizesOf(CommandLineParts))[i] =
                           <<0, 9, 18, 23, 27, 32, 39, 48, 55, 62>>[i]
<1> DEFINE sizes == SizesOf(CommandLineParts)
           ends  == <<0, 9, 18, 23, 27, 32, 39, 48, 55, 62>>
<1>1. Len(CommandLineParts) = 9
  BY DEF CommandLineParts
<1>2. sizes = [i \in 1 .. 9 |-> <<9, 9, 5, 4, 5, 7, 9, 7, 7>>[i]]
  BY DEF SizesOf, CommandLineParts, Part, Interface, Endpoint, SizeOf
<1>3. Len(sizes) = 9
  BY <1>2
<1> QED
  <2> HIDE DEF sizes
  <2> DEFINE table == [i \in 1 .. 9 + 1 |-> ends[i]]
  <2>1. /\ table \in [1 .. 9 + 1 -> Nat] /\ sizes \in [1 .. 9 -> Nat]
        /\ table[1] = 0 /\ \A i \in 1 .. 9 : table[i + 1] = table[i] + sizes[i]
    BY <1>2
  <2>2. /\ DOMAIN Places(sizes) = 1 .. 9 + 1 /\ Places(sizes)[1] = 0
        /\ \A i \in 1 .. 9 : Places(sizes)[i + 1] = Places(sizes)[i] + sizes[i]
    <3> HIDE DEF table
    <3>1. 9 \in Nat
      OBVIOUS
    <3> QED
      BY <1>3, <2>1, <3>1, PlacesEquation, Zenon
  <2>3. \A i \in 1 .. 10 : Places(sizes)[i] = ends[i]
    BY <1>2, <2>2
  <2> QED
    BY <1>1, <2>2, <2>3 DEF sizes

LEMMA TotalSize ==
  TotalConfigurationSize = IF product = "bootloader" THEN 27 ELSE 62
<1>1. Offset = Places(SizesOf(Parts))
  BY Zenon DEF Offset, SizesOf
<1>2. TotalConfigurationSize = Offset[Len(Parts) + 1]
  BY DEF TotalConfigurationSize
<1>3. CASE product = "bootloader"
  <2>1. Parts = BootloaderParts
    BY <1>3 DEF Parts
  <2>2. TotalConfigurationSize = Places(SizesOf(BootloaderParts))[4]
    BY <1>1, <1>2, <2>1, BootloaderLayout
  <2> QED
    BY <1>3, <2>2, BootloaderLayout
<1>4. CASE product # "bootloader"
  <2>1. Parts = CommandLineParts
    BY <1>4 DEF Parts
  <2>2. TotalConfigurationSize = Places(SizesOf(CommandLineParts))[10]
    BY <1>1, <1>2, <2>1, CommandLineLayout
  <2> QED
    BY <1>4, <2>2, CommandLineLayout
<1> QED
  BY <1>3, <1>4

(* What is known of a device depends on the device alone.                   *)
LEMMA SameProduct ==
  ASSUME UNCHANGED product
  PROVE  /\ FIXED_CONTROL_ENDPOINT_SIZE' = FIXED_CONTROL_ENDPOINT_SIZE
         /\ TotalConfigurationSize' = TotalConfigurationSize
         /\ Named' = Named /\ SetUp' = SetUp /\ Whole' = Whole /\ Posed' = Posed
         /\ \A r : Answer(r)' = Answer(r)
<1>1. TotalConfigurationSize' = TotalConfigurationSize
  BY DEF TotalConfigurationSize, Offset, Parts
<1>2. Named' = Named
  BY DEF Named, SerialNumStrIndex
<1>3. \A r : Answer(r)' = Answer(r)
  BY <1>1 DEF Answer, GetDescriptor, StringDescriptor, StringSize
<1>4. Whole' = Whole
  BY <1>1 DEF Whole
<1>5. Posed' = Posed
  BY <1>2 DEF Posed
<1> QED
  BY <1>1, <1>2, <1>3, <1>4, <1>5 DEF FIXED_CONTROL_ENDPOINT_SIZE, SetUp

(* What the device answers to a request: what it has, as far as asked for.  *)
LEMMA Answers ==
  ASSUME product \in Products, NEW r \in Posed
  PROVE  /\ Answer(r) \in 0 .. r.length
         /\ Answer(r) = 0 => r.type = "DeviceQualifier"
         /\ r.type = "Device" => Answer(r) <= SizeOf.Device
         /\ r.type = "Configuration" => Answer(r) <= TotalConfigurationSize
<1> DEFINE size == IF r.type = "String" /\ r.number = USE_INTERNAL_SERIAL
                   THEN 42 ELSE GetDescriptor(r.type, r.number)
<1>1. Answer(r) = IF size < r.length THEN size ELSE r.length
  BY DEF Answer
<1>2. r.length \in Nat \ {0} /\ r.type \in Types /\ r.number \in {0} \cup Named
  BY DEF Posed
<1>3. CASE r.type = "Device"
  <2>1. size = 18
    BY <1>3 DEF GetDescriptor, SizeOf
  <2> QED
    <3> HIDE DEF size
    <3> QED
      BY <1>1, <1>2, <1>3, <2>1 DEF SizeOf
<1>4. CASE r.type = "Configuration"
  <2>1. size = TotalConfigurationSize /\ TotalConfigurationSize \in {27, 62}
    BY <1>4, TotalSize DEF GetDescriptor
  <2> QED
    <3> HIDE DEF size
    <3> QED
      BY <1>1, <1>2, <1>4, <2>1
<1>5. CASE r.type = "String"
  <2>1. r.number \in {0, 1, 2} \/ r.number = USE_INTERNAL_SERIAL
    BY <1>2 DEF Named, SerialNumStrIndex
  <2>2. StringSize \in {<<4, 26, 18>>, <<4, 26, 52>>}
    BY DEF StringSize
  <2>3. size \in {42, 4, 26, 18, 52}
    BY <1>5, <2>1, <2>2
       DEF GetDescriptor, StringDescriptor, USE_INTERNAL_SERIAL
  <2> QED
    <3> HIDE DEF size
    <3> QED
      BY <1>1, <1>2, <1>5, <2>3
<1>6. CASE r.type = "DeviceQualifier"
  <2>1. size = 0
    BY <1>6 DEF GetDescriptor, NO_DESCRIPTOR
  <2> QED
    <3> HIDE DEF size
    <3> QED
      BY <1>1, <1>2, <1>6, <2>1
<1> QED
  BY <1>2, <1>3, <1>4, <1>5, <1>6 DEF Types
-----------------------------------------------------------------------------
(* The invariant holds after each step.                                     *)
LEMMA Sizes ==
  ASSUME product \in Products
  PROVE  /\ FIXED_CONTROL_ENDPOINT_SIZE \in {8, 32}
         /\ Endpoint0Size = FIXED_CONTROL_ENDPOINT_SIZE
         /\ TotalConfigurationSize \in 27 .. 62
         /\ Whole.Device = 18 /\ Whole.Configuration = TotalConfigurationSize
         /\ SizeOf.Device = 18 /\ NO_DESCRIPTOR = 0
BY TotalSize
   DEF FIXED_CONTROL_ENDPOINT_SIZE, Endpoint0Size, Whole, SizeOf, NO_DESCRIPTOR

(* A device that was just plugged in.                                       *)
Fresh ==
  /\ product \in Products
  /\ packetSize = 8 /\ asked = NoRequest /\ got = 0 /\ stage = "none"
  /\ known = Unknown /\ configured = FALSE /\ endpoints = {}

LEMMA FreshInv == Fresh => EnumInv
<1> SUFFICES ASSUME Fresh PROVE EnumInv
  OBVIOUS
<1> USE DEF Fresh
<1>1. known = [Device |-> 0, Configuration |-> 0]
  BY DEF Unknown
<1>2. EnumTypeOK
  <2>1. known \in [Device : 0 .. Whole.Device, Configuration : 0 .. Whole.Configuration]
    <3> HIDE DEF Fresh
    <3>1. 0 \in 0 .. Whole.Device /\ 0 \in 0 .. Whole.Configuration
      BY Sizes DEF Fresh
    <3> QED
      BY <1>1, <3>1, Zenon
  <2> QED
    BY <2>1 DEF EnumTypeOK
<1>3. SizeLearnt /\ UnderWay /\ Informed /\ NamedIsAnswered
  BY <1>1 DEF SizeLearnt, UnderWay, Informed, NamedIsAnswered
<1> QED
  BY <1>2, <1>3 DEF EnumInv, WholeAnswers

LEMMA BusResetInv == EnumInv /\ BusReset => EnumInv'
<1>1. Fresh' => EnumInv'
  BY FreshInv, PTL
<1>2. ASSUME EnumInv, BusReset PROVE Fresh'
  BY <1>2 DEF EnumInv, EnumTypeOK, BusReset, PluggedIn, Fresh, Unknown, NoRequest
<1> QED
  BY <1>1, <1>2

LEMMA Posing ==
  ASSUME product \in Products, known.Device \in 0 .. SizeOf.Device, NEW r \in Requests
  PROVE  r \in Posed /\ (known.Device = 0 <=> r \in FirstLooks)
<1>1. SizeOf.Device = 18 /\ TotalConfigurationSize \in 27 .. 62
  BY Sizes
<1>2. CASE known.Device = 0
  BY <1>2 DEF Requests, Request, FirstLook, FirstLooks, Posed, Types
<1>3. CASE known.Device # 0 /\ known.Device < SizeOf.Device
  BY <1>1, <1>3 DEF Requests, Request, FirstLook, FirstLooks, Posed, Types
<1>4. CASE known.Device # 0 /\ ~(known.Device < SizeOf.Device)
  <2>1. CASE r = Request("DeviceQualifier", 0, 10)
    BY <1>4, <2>1 DEF Request, FirstLook, FirstLooks, Posed, Types
  <2>2. CASE \E n \in {9} \cup Lengths \cup {TotalConfigurationSize} :
               r = Request("Configuration", 0, n)
    <3>1. PICK n \in {9} \cup Lengths \cup {TotalConfigurationSize} :
                 r = Request("Configuration", 0, n)
      BY <2>2
    <3>2. n \in Nat \ {0}
      BY <1>1, EnumerationConstants
    <3>3. r \in Posed /\ r.type = "Configuration"
      BY <3>1, <3>2 DEF Request, Posed, Types
    <3> QED
      BY <1>4, <3>3 DEF Request, FirstLook, FirstLooks
  <2>3. CASE \E s \in {0} \cup Named, n \in {2} \cup Lengths : r = Request("String", s, n)
    <3>1. PICK s \in {0} \cup Named, n \in {2} \cup Lengths : r = Request("String", s, n)
      BY <2>3
    <3>2. n \in Nat \ {0}
      BY EnumerationConstants
    <3>3. r \in Posed /\ r.type = "String"
      BY <3>1, <3>2 DEF Request, Posed, Types
    <3> QED
      BY <1>4, <3>3 DEF Request, FirstLook, FirstLooks
  <2> QED
    BY <1>4, <2>1, <2>2, <2>3 DEF Requests
<1> QED
  BY <1>2, <1>3, <1>4

LEMMA AskInv == EnumInv /\ Ask => EnumInv'
<1> SUFFICES ASSUME EnumInv, Ask PROVE EnumInv'
  OBVIOUS
<1>1. /\ product \in Products /\ UNCHANGED <<product, packetSize, known, configured, endpoints>>
      /\ asked' \in Requests /\ got' = 0
      /\ stage' = IF Answer(asked') = NO_DESCRIPTOR THEN "stalled" ELSE "data"
  BY DEF Ask, EnumInv, EnumTypeOK
<1>2. asked' \in Posed /\ (known.Device = 0 <=> asked' \in FirstLooks)
  BY <1>1, Posing, Sizes DEF EnumInv, EnumTypeOK
<1>3. /\ Answer(asked') \in 0 .. asked'.length
      /\ Answer(asked') = 0 => asked'.type = "DeviceQualifier"
      /\ asked'.length \in Nat \ {0}
  BY <1>1, <1>2, Answers DEF Posed
<1>4. stage' \in {"stalled", "data"} /\ (stage' = "stalled" <=> Answer(asked') = 0)
  BY <1>1 DEF NO_DESCRIPTOR
<1>5. FIXED_CONTROL_ENDPOINT_SIZE' = FIXED_CONTROL_ENDPOINT_SIZE
  BY <1>1, SameProduct
<1>6. EnumTypeOK'
  BY <1>1, <1>2, <1>4, SameProduct DEF EnumInv, EnumTypeOK
<1>7. SizeLearnt' /\ Informed'
  BY <1>1, SameProduct DEF EnumInv, SizeLearnt, Informed
<1>8. UnderWay'
  <2>1. Answer(asked)' = Answer(asked')
    BY <1>1, SameProduct DEF Answer, GetDescriptor, StringDescriptor, StringSize
  <2>2. 0 % FIXED_CONTROL_ENDPOINT_SIZE = 0
    BY <1>1, Sizes
  <2> QED
    BY <1>1, <1>2, <1>3, <1>4, <1>5, <2>1, <2>2, SameProduct DEF UnderWay, FirstLooks
<1>9. NamedIsAnswered' /\ WholeAnswers'
  BY <1>3, <1>4 DEF NamedIsAnswered, WholeAnswers
<1> QED
  BY <1>6, <1>7, <1>8, <1>9 DEF EnumInv

(* A packet ends the data stage just when all has arrived, unless it is the *)
(* first one a host ever takes.                                             *)
LEMMA PacketStep ==
  ASSUME EnumInv, Packet
  PROVE  /\ asked \in Posed /\ stage' \in {"data", "complete"}
         /\ got' \in 0 .. Answer(asked) /\ got' <= asked.length
         /\ stage' = "complete" /\ asked # FirstLook => got' = Answer(asked)
         /\ stage' = "complete" /\ asked.type = "Device" => got' > 0
         /\ stage' = "data" => /\ got' % FIXED_CONTROL_ENDPOINT_SIZE = 0
                               /\ got' < asked.length /\ known.Device # 0
<1> DEFINE size == FIXED_CONTROL_ENDPOINT_SIZE
           a    == Answer(asked)
           n    == NextPacket(a - got)
<1>1. /\ product \in Products /\ stage = "data" /\ got \in Nat
      /\ asked \in Posed /\ (known.Device = 0 <=> asked \in FirstLooks)
      /\ got % size = 0 /\ got <= a /\ got < asked.length
      /\ known.Device = 0 => got = 0
      /\ packetSize = IF known.Device = 0 THEN 8 ELSE size
  BY DEF EnumInv, EnumTypeOK, UnderWay, SizeLearnt, Packet
<1>2. /\ got' = got + n
      /\ stage' = IF n > packetSize /\ asked # FirstLook THEN "broken"
                  ELSE IF Done(n) THEN "complete" ELSE "data"
  BY DEF Packet
<1>3. /\ size \in {8, 32} /\ a \in 0 .. asked.length /\ asked.length \in Nat \ {0}
  BY <1>1, Sizes, Answers DEF Posed
<1>4. n = IF a - got < size THEN a - got ELSE size
  BY DEF NextPacket
<1>5. Done(n) <=> got + n = asked.length \/ n < packetSize \/ asked = FirstLook
  BY DEF Done
<1>6. CASE known.Device = 0
  <2>1. asked.type = "Device" /\ asked.length \in {8, 64} /\ (asked.length = 64 <=> asked = FirstLook)
    BY <1>1, <1>6 DEF FirstLooks, FirstLook, Request
  <2>2. a = IF 18 < asked.length THEN 18 ELSE asked.length
    BY <2>1 DEF Answer, GetDescriptor, SizeOf
  <2>3. got = 0 /\ packetSize = 8 /\ stage' = "complete" /\ n > 0
    <3> HIDE DEF a, n, size
    <3> QED
      BY <1>1, <1>2, <1>3, <1>4, <1>5, <1>6, <2>1, <2>2
  <2>4. CASE asked.length = 8
    BY <1>1, <1>2, <1>3, <1>4, <2>1, <2>2, <2>3, <2>4
  <2>5. CASE asked.length = 64
    BY <1>1, <1>2, <1>3, <1>4, <2>1, <2>2, <2>3, <2>5
  <2> QED
    BY <2>1, <2>4, <2>5
<1>7. CASE known.Device # 0
  <2>1. asked # FirstLook /\ packetSize = size
    BY <1>1, <1>7 DEF FirstLooks
  <2>2. asked.type = "Device" => a > 0
    BY <1>1, Answers DEF Types
  <2>3. n \in Nat /\ n <= size /\ n <= a - got /\ (n < size => n = a - got)
    <3> HIDE DEF a, n, size
    <3> QED
      BY <1>1, <1>3, <1>4
  <2>4. stage' = IF got + n = asked.length \/ n < size THEN "complete" ELSE "data"
    <3> HIDE DEF a, n, size
    <3> QED
      BY <1>2, <1>3, <1>5, <2>1, <2>3
  <2>5. (got + size) % size = 0
    <3>1. CASE size = 8
      BY <1>1, <3>1
    <3>2. CASE size = 32
      BY <1>1, <3>2
    <3> QED
      BY <1>3, <3>1, <3>2
  <2> QED
    <3> HIDE DEF a, n, size
    <3>1. CASE stage' = "complete"
      <4>1. got' = a
        BY <1>1, <1>2, <1>3, <2>3, <2>4, <3>1
      <4> QED
        BY <1>1, <1>3, <2>2, <3>1, <4>1 DEF a
    <3>2. CASE stage' = "data"
      <4>1. n = size /\ got' = got + size /\ got' <= a /\ got' # asked.length
        BY <1>1, <1>2, <1>3, <2>3, <2>4, <3>2
      <4>2. got' \in 0 .. a /\ got' < asked.length /\ got' <= asked.length
        BY <1>1, <1>3, <4>1
      <4> QED
        BY <1>1, <1>7, <2>5, <3>2, <4>1, <4>2 DEF a, size
    <3> QED
      BY <2>4, <3>1, <3>2
<1> QED
  BY <1>6, <1>7

LEMMA PacketInv == EnumInv /\ Packet => EnumInv'
<1> SUFFICES ASSUME EnumInv, Packet PROVE EnumInv'
  OBVIOUS
<1> DEFINE done == stage' = "complete" /\ asked.type \in DOMAIN known
<1>1. /\ product \in Products /\ UNCHANGED <<product, asked, configured, endpoints>>
      /\ known \in [Device : 0 .. 18, Configuration : 0 .. TotalConfigurationSize]
      /\ TotalConfigurationSize \in 27 .. 62
  BY Sizes DEF Packet, EnumInv, EnumTypeOK
<1>2. IF done
      THEN /\ known' = [known EXCEPT ![asked.type] = IF got' > @ THEN got' ELSE @]
           /\ packetSize' = FIXED_CONTROL_ENDPOINT_SIZE
      ELSE UNCHANGED <<known, packetSize>>
  BY <1>1, Sizes DEF Packet
<1>3. DOMAIN known = {"Device", "Configuration"} /\ asked.type \in Types
  BY <1>1, PacketStep DEF Posed
<1>4. /\ got' \in Nat
      /\ asked.type = "Device" => got' <= 18
      /\ asked.type = "Configuration" => got' <= TotalConfigurationSize
  BY <1>1, PacketStep, Answers, Sizes
<1>5. /\ known' \in [Device : 0 .. 18, Configuration : 0 .. TotalConfigurationSize]
      /\ known'.Configuration >= known.Configuration
      /\ known'.Device >= known.Device
      /\ done /\ asked.type = "Device" => known'.Device > 0
      /\ done /\ asked.type = "Configuration" => known'.Device = known.Device
      /\ ~done => known'.Device = known.Device
  <2>1. CASE ~done
    BY <1>1, <1>2, <2>1
  <2>2. CASE done /\ asked.type = "Device"
    <3>1. known' = [known EXCEPT !.Device = IF got' > @ THEN got' ELSE @]
      BY <1>2, <2>2
    <3>2. got' > 0
      BY <2>2, PacketStep
    <3> QED
      BY <1>1, <1>4, <2>2, <3>1, <3>2
  <2>3. CASE done /\ asked.type = "Configuration"
    <3>1. known' = [known EXCEPT !.Configuration = IF got' > @ THEN got' ELSE @]
      BY <1>2, <2>3
    <3> QED
      BY <1>1, <1>4, <2>3, <3>1
  <2> QED
    BY <1>3, <2>1, <2>2, <2>3
<1>6. EnumTypeOK'
  BY <1>1, <1>4, <1>5, PacketStep, SameProduct, Sizes DEF EnumInv, EnumTypeOK
<1>7. SizeLearnt'
  <2>1. asked.type = "Configuration" /\ done => known.Device # 0
    BY <1>1, PacketStep DEF EnumInv, UnderWay, Packet, FirstLooks, FirstLook, Request
  <2> QED
    BY <1>1, <1>2, <1>3, <1>5, <2>1, SameProduct DEF EnumInv, SizeLearnt
<1>8. UnderWay'
  <2>1. stage' = "data" => known'.Device = known.Device /\ known.Device # 0
    BY <1>5, PacketStep
  <2>2. Answer(asked)' = Answer(asked)
    BY <1>1, SameProduct
       DEF Answer, GetDescriptor, StringDescriptor, StringSize
  <2>3. asked \in Posed /\ (known.Device = 0 <=> asked \in FirstLooks)
    BY DEF EnumInv, UnderWay, Packet
  <2> QED
    BY <1>1, <2>1, <2>2, <2>3, PacketStep, SameProduct DEF UnderWay, FirstLooks
<1>9. Informed'
  BY <1>1, <1>5, SameProduct DEF EnumInv, Informed
<1>10. WholeAnswers' /\ NamedIsAnswered'
  <2>1. Answer(asked)' = Answer(asked)
    BY <1>1, SameProduct
       DEF Answer, GetDescriptor, StringDescriptor, StringSize
  <2> QED
    BY <1>1, <2>1, PacketStep DEF WholeAnswers, NamedIsAnswered
<1> QED
  BY <1>6, <1>7, <1>8, <1>9, <1>10 DEF EnumInv

LEMMA SetConfigurationInv == EnumInv /\ SetConfiguration => EnumInv'
<1> SUFFICES ASSUME EnumInv, SetConfiguration PROVE EnumInv'
  OBVIOUS
<1>1. /\ UNCHANGED <<product, packetSize, asked, got, stage, known>>
      /\ configured' = TRUE /\ endpoints' = SetUp
      /\ known.Configuration = TotalConfigurationSize
  BY DEF SetConfiguration
<1>2. Answer(asked)' = Answer(asked)
  BY <1>1, SameProduct
     DEF Answer, GetDescriptor, StringDescriptor, StringSize
<1>3. EnumTypeOK' /\ SizeLearnt' /\ Informed'
  BY <1>1, SameProduct DEF EnumInv, EnumTypeOK, SizeLearnt, Informed
<1>4. UnderWay' /\ WholeAnswers' /\ NamedIsAnswered'
  BY <1>1, <1>2, SameProduct
     DEF EnumInv, UnderWay, WholeAnswers, NamedIsAnswered, FirstLooks
<1> QED
  BY <1>3, <1>4 DEF EnumInv

LEMMA StutterInv == EnumInv /\ UNCHANGED enumVars => EnumInv'
<1> SUFFICES ASSUME EnumInv, UNCHANGED enumVars PROVE EnumInv'
  OBVIOUS
<1>1. UNCHANGED <<product, packetSize, asked, got, stage, known, configured, endpoints>>
  BY DEF enumVars
<1>2. Answer(asked)' = Answer(asked)
  BY <1>1, SameProduct
     DEF Answer, GetDescriptor, StringDescriptor, StringSize
<1> QED
  BY <1>1, <1>2, SameProduct
     DEF EnumInv, EnumTypeOK, SizeLearnt, Informed, UnderWay, WholeAnswers,
         NamedIsAnswered, FirstLooks

THEOREM EnumerationInvariant == EnumSpec => []EnumInv
<1>1. EnumInit => EnumInv
  BY FreshInv DEF EnumInit, Fresh
<1>2. EnumInv /\ [EnumNext]_enumVars => EnumInv'
  BY AskInv, PacketInv, SetConfigurationInv, BusResetInv, StutterInv DEF EnumNext
<1> QED
  BY <1>1, <1>2, PTL DEF EnumSpec
-----------------------------------------------------------------------------
(* What follows for a host that has the whole configuration.                *)
LEMMA ReadThrough ==
  ASSUME known.Configuration = TotalConfigurationSize
  PROVE  Read = 1 .. Len(Parts)
<1>1. Offset = Places(SizesOf(Parts))
  BY Zenon DEF Offset, SizesOf
<1>2. TotalConfigurationSize = Offset[Len(Parts) + 1]
  BY DEF TotalConfigurationSize
<1>3. \A j \in 1 .. Len(Parts) : Offset[j + 1] <= Offset[Len(Parts) + 1]
  <2>1. CASE product = "bootloader"
    <3>1. Parts = BootloaderParts
      BY <2>1 DEF Parts
    <3>2. Len(Parts) + 1 = 4 /\ Offset = Places(SizesOf(BootloaderParts))
      BY <1>1, <3>1, BootloaderLayout
    <3>3. \A j \in 1 .. 3 : j + 1 \in 1 .. 4
      OBVIOUS
    <3> QED
      BY <3>2, <3>3, BootloaderLayout
  <2>2. CASE product # "bootloader"
    <3>1. Parts = CommandLineParts
      BY <2>2 DEF Parts
    <3>2. Len(Parts) + 1 = 10 /\ Offset = Places(SizesOf(CommandLineParts))
      BY <1>1, <3>1, CommandLineLayout
    <3>3. \A j \in 1 .. 9 : j + 1 \in 1 .. 10
      OBVIOUS
    <3> QED
      BY <3>2, <3>3, CommandLineLayout
  <2> QED
    BY <2>1, <2>2
<1> QED
  BY <1>2, <1>3 DEF Read

LEMMA Pairs ==
  ASSUME NEW a, NEW b, a # b
  PROVE  IsFiniteSet({a, b}) /\ Cardinality({a, b}) = 2
<1>1. IsFiniteSet({a}) /\ Cardinality({a}) = 1
  BY FS_Singleton
<1>2. {a, b} = {a} \cup {b} /\ b \notin {a}
  OBVIOUS
<1> QED
  BY <1>1, <1>2, FS_AddElement

LEMMA Triples ==
  ASSUME NEW a, NEW b, NEW c, a # b, a # c, b # c
  PROVE  Cardinality({a, b, c}) = 3
<1>1. {a, b, c} = {a, b} \cup {c} /\ c \notin {a, b}
  OBVIOUS
<1>2. IsFiniteSet({a, b}) /\ Cardinality({a, b}) = 2
  BY Pairs
<1>3. Cardinality({a, b} \cup {c}) = Cardinality({a, b}) + 1
  BY <1>1, <1>2, FS_AddElement, Zenon
<1> QED
  BY <1>1, <1>2, <1>3

LEMMA BootloaderTold ==
  ASSUME EnumInv, configured, product = "bootloader"
  PROVE  ToldAsSetUp
<1>1. /\ known.Configuration = TotalConfigurationSize /\ endpoints = {}
      /\ Read = 1 .. 3
      /\ Parts = BootloaderParts
  BY ReadThrough, BootloaderLayout DEF EnumInv, Informed, SetUp, Parts
<1>2. /\ BootloaderParts[1].kind = "Configuration" /\ BootloaderParts[2].kind = "Interface"
      /\ BootloaderParts[3].kind = "DFUFunctional" /\ BootloaderParts[2].endpoints = 0
  BY DEF BootloaderParts, Part, Interface
<1>3. {j \in Read : Parts[j].kind = "Endpoint"} = {} /\ Interfaces = {2}
  BY <1>1, <1>2 DEF Interfaces
<1>4. Announced = {} /\ {e.number : e \in endpoints} = {}
  BY <1>1, <1>3 DEF Announced
<1>5. \A i \in Interfaces :
        {j \in Read : /\ i < j /\ Parts[j].kind = "Endpoint"
                      /\ \A k \in Interfaces : ~(i < k /\ k < j)} = {}
  BY <1>3
<1>6. Cardinality({}) = 0 /\ Cardinality(Interfaces) = 1
  BY <1>3, FS_EmptySet, FS_Singleton
<1>7. \A i \in Interfaces : Parts[i].endpoints = 0
  BY <1>1, <1>2, <1>3
<1> QED
  BY <1>1, <1>4, <1>5, <1>6, <1>7 DEF ToldAsSetUp, TotalInterfaces

LEMMA CommandLineTold ==
  ASSUME EnumInv, configured, product # "bootloader"
  PROVE  ToldAsSetUp
<1> DEFINE Under(i) == {j \in Read : /\ i < j /\ Parts[j].kind = "Endpoint"
                                     /\ \A k \in Interfaces : ~(i < k /\ k < j)}
<1>1. /\ known.Configuration = TotalConfigurationSize
      /\ endpoints = {Notification, DataIn, DataOut}
      /\ Read = 1 .. 9
      /\ Parts = CommandLineParts
  BY ReadThrough, CommandLineLayout DEF EnumInv, Informed, SetUp, Parts
<1>2. \A i \in 1 .. 9 : /\ Parts[i].kind = "Endpoint" <=> i \in {6, 8, 9}
                        /\ Parts[i].kind = "Interface" <=> i \in {2, 7}
  BY <1>1 DEF CommandLineParts, Part, Interface, Endpoint
<1>3. /\ Parts[2].endpoints = 1 /\ Parts[7].endpoints = 2
      /\ Parts[6].is = Notification /\ Parts[8].is = DataOut /\ Parts[9].is = DataIn
  BY <1>1 DEF CommandLineParts, Interface, Endpoint
<1>4. {j \in Read : Parts[j].kind = "Endpoint"} = {6, 8, 9} /\ Interfaces = {2, 7}
  <2>1. {j \in 1 .. 9 : Parts[j].kind = "Endpoint"} = {6, 8, 9}
    BY <1>2
  <2>2. {j \in 1 .. 9 : Parts[j].kind = "Interface"} = {2, 7}
    BY <1>2
  <2> QED
    BY <1>1, <2>1, <2>2 DEF Interfaces
<1>5. Announced = {Parts[6].is, Parts[8].is, Parts[9].is}
  BY <1>4 DEF Announced
<1>6. {e.number : e \in endpoints} = {2, 3, 4}
  BY <1>1 DEF Notification, DataIn, DataOut
<1>7. Cardinality({e.number : e \in endpoints}) = Cardinality(endpoints)
  <2>1. Cardinality({2, 3, 4}) = 3
    <3>1. 2 # 3 /\ 2 # 4 /\ 3 # 4
      OBVIOUS
    <3> QED
      BY <3>1, Triples, Zenon
  <2>2. /\ Notification # DataIn /\ Notification # DataOut /\ DataIn # DataOut
    BY DEF Notification, DataIn, DataOut
  <2>3. Cardinality({Notification, DataIn, DataOut}) = 3
    BY <2>2, Triples
  <2> QED
    BY <1>1, <1>6, <2>1, <2>3
<1>8. Under(2) = {6} /\ Under(7) = {8, 9}
  BY <1>1, <1>2, <1>4
<1>9. Cardinality(Under(2)) = 1 /\ Cardinality(Under(7)) = 2 /\ Cardinality(Interfaces) = 2
  <2>1. Cardinality({6}) = 1 /\ Cardinality({8, 9}) = 2 /\ Cardinality({2, 7}) = 2
    <3>1. 8 # 9 /\ 2 # 7
      OBVIOUS
    <3> QED
      BY <3>1, FS_Singleton, Pairs, Zenon
  <2> HIDE DEF Under
  <2> QED
    BY <1>4, <1>8, <2>1
<1>10. \A i \in Interfaces : Parts[i].endpoints = Cardinality(Under(i))
  <2> HIDE DEF Under
  <2> QED
    BY <1>3, <1>4, <1>9
<1> QED
  BY <1>1, <1>3, <1>5, <1>7, <1>9, <1>10 DEF ToldAsSetUp, TotalInterfaces

(* Every data stage hands over what was asked for, whatever lengths the     *)
(* host asks for and in whatever order: the endpoint size the device        *)
(* descriptor tells is the one the packets have.                            *)
THEOREM EnumerationWhole == EnumSpec => []WholeAnswers
<1>1. EnumInv => WholeAnswers
  BY DEF EnumInv
<1> QED
  BY <1>1, EnumerationInvariant, PTL

(* Every string a descriptor names is answered.                             *)
THEOREM EnumerationNamed == EnumSpec => []NamedIsAnswered
<1>1. EnumInv => NamedIsAnswered
  BY DEF EnumInv
<1> QED
  BY <1>1, EnumerationInvariant, PTL

(* A configured device has just the endpoints that its descriptors led the  *)
(* host to.                                                                 *)
THEOREM EnumerationTold == EnumSpec => []ToldAsSetUp
<1>1. EnumInv => ToldAsSetUp
  BY BootloaderTold, CommandLineTold DEF ToldAsSetUp
<1> QED
  BY <1>1, EnumerationInvariant, PTL
=============================================================================
