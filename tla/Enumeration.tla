------------------------------ MODULE Enumeration ------------------------------
(***************************************************************************)
(* How a host gets to know the bootloader (Descriptors.c) and a command     *)
(* line (usb.c): it fetches descriptors packet by packet, learns the size   *)
(* of these packets, the lengths, the strings and the endpoints from what   *)
(* it has fetched so far, and selects the configuration, upon which the     *)
(* device sets up its endpoints.  What the device says of itself must be    *)
(* what it does.                                                            *)
(***************************************************************************)
EXTENDS Integers, Sequences, FiniteSets

CONSTANT Lengths   (* how many bytes of a descriptor a host asks for        *)

(* A request for none has no data stage. *)
ASSUME EnumerationConstants == Lengths \subseteq Nat \ {0}

Products == {"bootloader", "command line"}

VARIABLES
  product,    (* the device that is plugged in                               *)
  packetSize, (* of the control endpoint, as far as the host knows           *)
  asked,      (* the request: type and number of a descriptor, and a length  *)
  got,        (* bytes of its answer that have arrived                       *)
  stage,      (* "none", "data", "complete", "stalled" or "broken"           *)
  known,      (* bytes the host has of the two descriptors                   *)
  configured,
  endpoints   (* what the device has set up                                  *)

enumVars == <<product, packetSize, asked, got, stage, known, configured, endpoints>>

Unknown   == [Device |-> 0, Configuration |-> 0]
NoRequest == [type |-> "none", number |-> 0, length |-> 0]
-----------------------------------------------------------------------------
(* The tables.                                                              *)

NO_DESCRIPTOR       == 0
USE_INTERNAL_SERIAL == 220

SizeOf ==
  [Device |-> 18, Configuration |-> 9, Interface |-> 9, Endpoint |-> 7,
   DFUFunctional |-> 9, CDCHeader |-> 5, CDCACM |-> 4, CDCUnion |-> 5]

Part(kind) == [kind |-> kind]
Interface(number, n) == [kind |-> "Interface", number |-> number, endpoints |-> n]
Endpoint(is) == [kind |-> "Endpoint", is |-> is]

Notification == [number |-> 2, direction |-> "in", size |-> 8]
DataIn       == [number |-> 3, direction |-> "in", size |-> 16]
DataOut      == [number |-> 4, direction |-> "out", size |-> 16]

BootloaderParts == <<Part("Configuration"), Interface(0, 0), Part("DFUFunctional")>>

CommandLineParts ==
  <<Part("Configuration"),
    Interface(0, 1), Part("CDCHeader"), Part("CDCACM"), Part("CDCUnion"), Endpoint(Notification),
    Interface(1, 2), Endpoint(DataOut), Endpoint(DataIn)>>

Parts == IF product = "bootloader" THEN BootloaderParts ELSE CommandLineParts
TotalInterfaces == IF product = "bootloader" THEN 1 ELSE 2

(* Where each of some members of a structure lies, the end included.        *)
Places(sizes) ==
  LET at[i \in 1 .. Len(sizes) + 1] == IF i = 1 THEN 0 ELSE at[i - 1] + sizes[i - 1]
  IN  at

(* Where the members of the configuration structure lie.  Each header gives *)
(* the size of its member, so a host that goes by them comes to the same    *)
(* places.                                                                  *)
Offset == Places([i \in 1 .. Len(Parts) |-> SizeOf[Parts[i].kind]])
TotalConfigurationSize == Offset[Len(Parts) + 1]

(* Both string tables hold a language, a manufacturer and a product.        *)
StringSize == IF product = "bootloader" THEN <<4, 26, 18>> ELSE <<4, 26, 52>>
SerialNumStrIndex == IF product = "bootloader" THEN NO_DESCRIPTOR ELSE USE_INTERNAL_SERIAL
Named == {1, 2, SerialNumStrIndex} \ {NO_DESCRIPTOR}

FIXED_CONTROL_ENDPOINT_SIZE == IF product = "bootloader" THEN 32 ELSE 8

(* The size the device descriptor gives.  Slip: the one of the other build. *)
Endpoint0SizeOfOther == 40 - FIXED_CONTROL_ENDPOINT_SIZE
Endpoint0Size == FIXED_CONTROL_ENDPOINT_SIZE

(* CALLBACK_USB_GetDescriptor: the size of the answer, if there is one.     *)
(* Slip: a string that has no case.                                         *)
WithoutManufacturer(number) == IF number \in {0, 2} THEN StringSize[number + 1] ELSE NO_DESCRIPTOR
StringDescriptor(number)    == IF number \in 0 .. 2 THEN StringSize[number + 1] ELSE NO_DESCRIPTOR

GetDescriptor(type, number) ==
  CASE type = "Device"        -> SizeOf.Device
    [] type = "Configuration" -> TotalConfigurationSize
    [] type = "String"        -> StringDescriptor(number)
    [] OTHER                  -> NO_DESCRIPTOR

(* The USB stack answers for the serial number of the part itself.          *)
Answer(request) ==
  LET size == IF request.type = "String" /\ request.number = USE_INTERNAL_SERIAL
              THEN 42 ELSE GetDescriptor(request.type, request.number)
  IN  IF size < request.length THEN size ELSE request.length

(* CDC_Device_ConfigureEndpoints with cdc_interface; the bootloader has the *)
(* control endpoint only.  Slip: receive and transmit the wrong way round.  *)
RxTxSwapped ==
  IF product = "bootloader" THEN {}
  ELSE {Notification, [DataIn EXCEPT !.direction = "out"], [DataOut EXCEPT !.direction = "in"]}
SetUp == IF product = "bootloader" THEN {} ELSE {Notification, DataIn, DataOut}
-----------------------------------------------------------------------------
(* The host.                                                                *)

(* The host reads the parts that lie within the bytes it has.               *)
Read == {i \in 1 .. Len(Parts) : Offset[i + 1] <= known.Configuration}
Announced == {Parts[i].is : i \in {j \in Read : Parts[j].kind = "Endpoint"}}
Interfaces == {i \in Read : Parts[i].kind = "Interface"}

(* The first look at a device fetches the part of the device descriptor     *)
(* that gives the packet size, or as much as its first packet holds.        *)
Request(type, number, length) == [type |-> type, number |-> number, length |-> length]
FirstLook == Request("Device", 0, 64)
Requests ==
  IF known.Device = 0 THEN {Request("Device", 0, 8), FirstLook}
  ELSE IF known.Device < SizeOf.Device THEN {Request("Device", 0, SizeOf.Device)}
  ELSE {Request("Configuration", 0, n) :
          n \in {9} \cup Lengths \cup (IF 1 \in Read THEN {TotalConfigurationSize} ELSE {})}
         \cup {Request("String", s, n) : s \in {0} \cup Named, n \in {2} \cup Lengths}
         \cup {Request("DeviceQualifier", 0, 10)}

Ask ==
  /\ stage # "data" /\ stage # "broken"
  /\ asked' \in Requests /\ got' = 0
  /\ stage' = IF Answer(asked') = NO_DESCRIPTOR THEN "stalled" ELSE "data"
  /\ UNCHANGED <<product, packetSize, known, configured, endpoints>>

(* A packet.  One that is not full, and may be empty after a full one, ends *)
(* the stage early; one that is larger than the host expects breaks it.     *)
NextPacket(n) == IF n < FIXED_CONTROL_ENDPOINT_SIZE THEN n ELSE FIXED_CONTROL_ENDPOINT_SIZE

Done(n) == got + n = asked.length \/ n < packetSize \/ asked = FirstLook

Packet ==
  /\ stage = "data"
  /\ LET n == NextPacket(Answer(asked) - got)
     IN  /\ n > 0 \/ got % FIXED_CONTROL_ENDPOINT_SIZE = 0
         /\ got' = got + n
         /\ stage' = IF n > packetSize /\ asked # FirstLook THEN "broken"
                     ELSE IF Done(n) THEN "complete" ELSE "data"
  /\ IF stage' = "complete" /\ asked.type \in DOMAIN known
     THEN /\ known' = [known EXCEPT ![asked.type] = IF got' > @ THEN got' ELSE @]
          /\ packetSize' = Endpoint0Size
     ELSE UNCHANGED <<known, packetSize>>
  /\ UNCHANGED <<product, asked, configured, endpoints>>

(* EVENT_USB_Device_ConfigurationChanged *)
SetConfiguration ==
  /\ stage \notin {"data", "broken"}
  /\ known.Configuration = TotalConfigurationSize
  /\ configured' = TRUE /\ endpoints' = SetUp
  /\ UNCHANGED <<product, packetSize, asked, got, stage, known>>

PluggedIn ==
  /\ packetSize' = 8 /\ asked' = NoRequest /\ got' = 0 /\ stage' = "none"
  /\ known' = Unknown /\ configured' = FALSE /\ endpoints' = {}

BusReset == PluggedIn /\ UNCHANGED product

EnumInit ==
  /\ product \in Products
  /\ packetSize = 8 /\ asked = NoRequest /\ got = 0 /\ stage = "none"
  /\ known = Unknown /\ configured = FALSE /\ endpoints = {}

EnumNext == Ask \/ Packet \/ SetConfiguration \/ BusReset

EnumSpec == EnumInit /\ [][EnumNext]_enumVars
-----------------------------------------------------------------------------
(* Every data stage hands over what was asked for, as far as it is there:   *)
(* the packets are of the size that the device descriptor gave, so none is  *)
(* taken for the last one and none is too large.                            *)
WholeAnswers ==
  /\ stage # "broken"
  /\ stage = "complete" /\ asked # FirstLook => got = Answer(asked)

(* Every string a descriptor names is there; only what the device does not  *)
(* have is refused.                                                         *)
NamedIsAnswered == stage = "stalled" => asked.type = "DeviceQualifier"

(* A configured device has just the endpoints that its descriptors led the  *)
(* host to, of the same size and direction, each with a number of its own,  *)
(* and as many in each interface as that announced.                         *)
ToldAsSetUp ==
  configured =>
    /\ Announced = endpoints
    /\ Cardinality({e.number : e \in endpoints}) = Cardinality(endpoints)
    /\ Cardinality(Interfaces) = TotalInterfaces
    /\ \A i \in Interfaces :
         Parts[i].endpoints =
           Cardinality({j \in Read : /\ i < j /\ Parts[j].kind = "Endpoint"
                                     /\ \A k \in Interfaces : ~(i < k /\ k < j)})
=============================================================================
