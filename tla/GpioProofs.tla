------------------------------- MODULE GpioProofs -------------------------------
(***************************************************************************)
(* The GPIO command line keeps reserved bits clear and does for each pin    *)
(* what PinBoard promises, whatever ports the part has and whatever numbers *)
(* are typed.                                                               *)
(***************************************************************************)
EXTENDS Gpio, TLAPS

GpioInv == GpioTypeOK /\ ReservedClear

(* The ports and registers of a pin. *)
LEMMA PinRegisters ==
  ASSUME NEW p \in Pins
  PROVE  /\ p[1] \in Ports /\ p[2] \in Digits /\ p[2] \in PortPins(p[1])
         /\ gpio_pin_map[p].direction = <<"DDR", p[1]>>
         /\ gpio_pin_map[p].level = <<"PORT", p[1]>>
         /\ gpio_pin_map[p].bit = p[2]
         /\ <<"DDR", p[1]>> \in Writable /\ <<"PORT", p[1]>> \in Writable
  BY DEF Pins, gpio_pin_map, Writable

LEMMA MaskType ==
  ASSUME NEW r \in Writable
  PROVE  Mask(r) \subseteq Digits
<1>1. r # MCUCR => r[2] \in {"B", "C", "D", "E", "F"}
  BY GpioConstants DEF Writable
<1> QED
  BY <1>1 DEF Mask, PortPins, Digits, PUD

(* On the command line the masks are just the bits that are not reserved.   *)
LEMMA ReservedMasked ==
  /\ ReservedClear /\ program # "leaving" => \A r \in Writable : io[r] \subseteq Mask(r)
  /\ (\A r \in Writable : io'[r] \subseteq Mask(r)) /\ program' # "leaving" => ReservedClear'
<1>1. Mask(MCUCR) = {PUD} /\ MCUCR \in Writable
  BY DEF Mask, Writable
<1>2. ASSUME NEW kind \in {"DDR", "PORT"}, NEW p \in Ports
      PROVE  Mask(<<kind, p>>) = PortPins(p) /\ <<kind, p>> \in Writable
  BY <1>2 DEF Mask, Writable, MCUCR
<1>3. ASSUME NEW r \in Writable, r # MCUCR
      PROVE  \E kind \in {"DDR", "PORT"}, p \in Ports : r = <<kind, p>>
  BY <1>3 DEF Writable
<1> QED
  BY <1>1, <1>2, <1>3 DEF ReservedClear

(* Whatever is written, only the masked bits of one register change.        *)
LEMMA WriteKeeps ==
  ASSUME GpioInv, program = "cli", program' = "cli", NEW reg, NEW value,
         gpio_write(reg, value)
  PROVE  io' \in [Writable -> SUBSET Digits] /\ ReservedClear'
<1>1. io \in [Writable -> SUBSET Digits] /\ \A r \in Writable : io[r] \subseteq Mask(r)
  BY ReservedMasked DEF GpioInv, GpioTypeOK
<1>2. CASE reg \in Writable
  <2>1. value \cap Mask(reg) \in SUBSET Digits
    BY <1>2, MaskType
  <2> QED
    BY <1>1, <1>2, <2>1, ReservedMasked DEF gpio_write
<1>3. CASE reg \notin Writable
  BY <1>1, <1>3, ReservedMasked DEF gpio_write
<1> QED
  BY <1>2, <1>3

LEMMA GpioStep == GpioInv /\ [GpioNext]_gpioVars => GpioInv'
<1> SUFFICES ASSUME GpioInv, [GpioNext]_gpioVars PROVE GpioInv'
  OBVIOUS
<1>1. CASE process_gpio
  <2>1. program = "cli" /\ UNCHANGED <<wires, program>>
    BY <1>1 DEF process_gpio, print_pin_status, print_register_value, set_pin_mode,
                set_pin_value, set_register_value, print_other, Command
  <2>2. io' \in [Writable -> SUBSET Digits] /\ ReservedClear'
    <3>1. CASE UNCHANGED io
      BY <2>1, <3>1 DEF GpioInv, GpioTypeOK, ReservedClear
    <3>2. ASSUME NEW reg, NEW value, gpio_write(reg, value)
          PROVE  io' \in [Writable -> SUBSET Digits] /\ ReservedClear'
      BY <2>1, <3>2, WriteKeeps
    <3> QED
      BY <1>1, <3>1, <3>2
      DEF process_gpio, print_pin_status, print_register_value, set_pin_mode,
          set_pin_value, set_register_value, print_other, gpio_set_direction,
          gpio_set_level
  <2> QED
    BY <2>1, <2>2 DEF GpioInv, GpioTypeOK
<1>2. CASE process_reboot
  BY <1>2 DEF process_reboot, GpioInv, GpioTypeOK, ReservedClear
<1>3. CASE process_bootloader
  <2>1. UNCHANGED wires /\ program' \in {"leaving", "bootloader"}
    BY <1>3 DEF process_bootloader
  <2>2. PICK bits \in {{IVCE}, {}} :
          /\ io' = [io EXCEPT ![MCUCR] = bits]
          /\ bits = {} \/ program' = "leaving"
    BY <1>3 DEF process_bootloader
  <2>3. MCUCR \in Writable /\ bits \in SUBSET Digits
    BY DEF Writable, IVCE, Digits
  <2>4. io' \in [Writable -> SUBSET Digits] /\ io'[MCUCR] = bits
    BY <2>2, <2>3 DEF GpioInv, GpioTypeOK
  <2>5. ASSUME NEW kind \in {"DDR", "PORT"}, NEW p \in Ports
        PROVE  io'[<<kind, p>>] = io[<<kind, p>>]
    <3>1. <<kind, p>> \in Writable /\ <<kind, p>> # MCUCR
      BY <2>5 DEF Writable, MCUCR
    <3> QED
      BY <2>2, <3>1 DEF GpioInv, GpioTypeOK
  <2>6. ReservedClear'
    BY <2>2, <2>4, <2>5 DEF GpioInv, ReservedClear
  <2> QED
    BY <2>1, <2>4, <2>6 DEF GpioInv, GpioTypeOK
<1>4. CASE Reset
  <2>1. io' \in [Writable -> SUBSET Digits] /\ \A r \in Writable : io'[r] = {}
    BY <1>4 DEF Reset
  <2>2. ReservedClear'
    BY <2>1 DEF ReservedClear, Writable
  <2> QED
    BY <1>4, <2>1, <2>2 DEF Reset, GpioInv, GpioTypeOK
<1>5. CASE WiresChange
  BY <1>5, GpioConstants DEF WiresChange, GpioInv, GpioTypeOK, ReservedClear
<1>6. CASE UNCHANGED gpioVars
  BY <1>6 DEF gpioVars, GpioInv, GpioTypeOK, ReservedClear
<1> QED
  BY <1>1, <1>2, <1>3, <1>4, <1>5, <1>6 DEF GpioNext

LEMMA GpioStart == GpioInit => GpioInv
<1> SUFFICES ASSUME GpioInit PROVE GpioInv
  OBVIOUS
<1>1. io \in [Writable -> SUBSET Digits] /\ \A r \in Writable : io[r] = {}
  BY DEF GpioInit
<1>2. ReservedClear
  BY <1>1 DEF ReservedClear, Writable
<1>3. wires \in SUBSET Pins /\ program = "cli"
  BY GpioConstants DEF GpioInit
<1> QED
  BY <1>1, <1>2, <1>3 DEF GpioInv, GpioTypeOK

(* The masks of gpio_write (gpio.c:155) hold for every gpio command: no     *)
(* reserved bit of a port, and no bit of MCUCR but PUD, is ever written as  *)
(* one; IVCE alone is up between the two writes of the bootloader command   *)
(* (command.c:270-271).                                                     *)
THEOREM GpioReserved == GpioSpec => []ReservedClear
<1>1. GpioInv => ReservedClear
  BY DEF GpioInv
<1> QED
  BY <1>1, GpioStart, GpioStep, PTL DEF GpioSpec
-----------------------------------------------------------------------------
(* What a step does to the pins, by what it does to the registers.          *)
LEMMA SamePins ==
  ASSUME \A p \in Ports : /\ io'[<<"DDR", p>>] = io[<<"DDR", p>>]
                          /\ io'[<<"PORT", p>>] = io[<<"PORT", p>>]
  PROVE  UNCHANGED <<PinDirection, PinLatch>>
  BY DEF PinDirection, PinLatch, Pins, PortOf

(* Two pins of a port differ in their bit.                                  *)
LEMMA PinsDiffer ==
  ASSUME NEW p \in Pins, NEW q \in Pins, p # q, p[1] = q[1]
  PROVE  p[2] # q[2]
  BY DEF Pins

(* The read-modify-write of one bit of one register of pin p: that bit gets *)
(* bit 0 of the value, every other pin's bit of that register and the other *)
(* register of every port stay.                                             *)
LEMMA OneBit ==
  ASSUME GpioInv, program = "cli", NEW p \in Pins, NEW value,
         NEW kind \in {"DDR", "PORT"},
         gpio_write(<<kind, p[1]>>,
                    BIT_RESET(gpio_read(<<kind, p[1]>>), p[2], value))
  PROVE  /\ \A q \in Pins : q[2] \in io'[<<kind, q[1]>>]
                <=> IF q = p THEN 0 \in value ELSE q[2] \in io[<<kind, q[1]>>]
         /\ \A k \in {"DDR", "PORT"} \ {kind}, q \in Pins :
               io'[<<k, q[1]>>] = io[<<k, q[1]>>]
<1> DEFINE reg == <<kind, p[1]>>
           bits == BIT_RESET(io[reg], p[2], value)
<1>1. reg \in Writable /\ reg # MCUCR
  BY PinRegisters DEF MCUCR
<1>2. io \in [Writable -> SUBSET Digits] /\ io[reg] \subseteq Mask(reg)
  BY <1>1, ReservedMasked DEF GpioInv, GpioTypeOK
<1>3. p[2] \in Mask(reg)
  BY <1>1, PinRegisters DEF Mask
<1>4. bits \cap Mask(reg) = bits
  BY <1>2, <1>3 DEF BIT_RESET
<1>5. io' = [io EXCEPT ![reg] = bits]
  BY <1>1, <1>4 DEF gpio_write, gpio_read
<1>6. io'[reg] = bits /\ \A r \in Writable : r # reg => io'[r] = io[r]
  BY <1>1, <1>2, <1>5
<1>7. ASSUME NEW q \in Pins, NEW k \in {"DDR", "PORT"}
      PROVE  <<k, q[1]>> \in Writable
  BY <1>7, PinRegisters
<1>8. \A k \in {"DDR", "PORT"} \ {kind}, q \in Pins : io'[<<k, q[1]>>] = io[<<k, q[1]>>]
  BY <1>6, <1>7
<1>9. ASSUME NEW q \in Pins
      PROVE  q[2] \in io'[<<kind, q[1]>>]
               <=> IF q = p THEN 0 \in value ELSE q[2] \in io[<<kind, q[1]>>]
  <2>1. CASE q = p
    BY <2>1, <1>6 DEF BIT_RESET
  <2>2. CASE q # p /\ q[1] = p[1]
    BY <2>2, <1>6, PinsDiffer DEF BIT_RESET
  <2>3. CASE q[1] # p[1]
    BY <2>3, <1>6, <1>7
  <2> QED
    BY <2>1, <2>2, <2>3
<1> QED
  BY <1>8, <1>9

LEMMA ModeStep ==
  ASSUME GpioInv, NEW p \in Pins, NEW mode \in {"IN", "OUT"}, set_pin_mode(p, mode)
  PROVE  Board!SetDirection(p, mode)
<1> DEFINE value == IF mode = "IN" THEN {} ELSE {0}
<1>1. gpio_write(<<"DDR", p[1]>>, BIT_RESET(gpio_read(<<"DDR", p[1]>>), p[2], value))
  BY PinRegisters DEF set_pin_mode, gpio_set_direction
<1>2. /\ \A q \in Pins : q[2] \in io'[<<"DDR", q[1]>>]
            <=> IF q = p THEN 0 \in value ELSE q[2] \in io[<<"DDR", q[1]>>]
      /\ \A q \in Pins : io'[<<"PORT", q[1]>>] = io[<<"PORT", q[1]>>]
  BY <1>1, OneBit DEF set_pin_mode, Command
<1>3. 0 \in value <=> mode = "OUT"
  OBVIOUS
<1>4. PinDirection' = [PinDirection EXCEPT ![p] = mode]
  BY <1>2, <1>3 DEF PinDirection, PortOf, BitOf
<1>5. PinLatch' = PinLatch
  BY <1>2 DEF PinLatch, PortOf, BitOf
<1> QED
  BY <1>4, <1>5 DEF Board!SetDirection, set_pin_mode, Command

LEMMA ValueStep ==
  ASSUME GpioInv, NEW p \in Pins, NEW value, set_pin_value(p, value)
  PROVE  Board!SetLatch(p, value)
<1>1. gpio_write(<<"PORT", p[1]>>, BIT_RESET(gpio_read(<<"PORT", p[1]>>), p[2], value))
  BY PinRegisters DEF set_pin_value, gpio_set_level
<1>2. /\ \A q \in Pins : q[2] \in io'[<<"PORT", q[1]>>]
            <=> IF q = p THEN 0 \in value ELSE q[2] \in io[<<"PORT", q[1]>>]
      /\ \A q \in Pins : io'[<<"DDR", q[1]>>] = io[<<"DDR", q[1]>>]
  BY <1>1, OneBit DEF set_pin_value, Command
<1>3. PinLatch' = [PinLatch EXCEPT ![p] = Board!LevelOf(value)]
  BY <1>2 DEF PinLatch, PortOf, BitOf, Board!LevelOf
<1>4. PinDirection' = PinDirection
  BY <1>2 DEF PinDirection, PortOf, BitOf
<1> QED
  BY <1>3, <1>4 DEF Board!SetLatch, set_pin_value, Command

(* A register that is a port's own gives each pin of that port its bit of   *)
(* the number, in spite of the mask, and reaches no other pin.              *)
LEMMA PortStep ==
  ASSUME GpioInv, NEW kind \in {"DDR", "PORT"}, NEW port \in Ports, NEW value,
         set_register_value(<<kind, port>>, value)
  PROVE  /\ kind = "DDR" => Board!WriteDirections(port, value)
         /\ kind = "PORT" => Board!WriteLatches(port, value)
<1> DEFINE reg == <<kind, port>>
<1>1. reg \in Writable /\ Mask(reg) = PortPins(port)
  BY DEF Writable, Mask, MCUCR
<1>2. io' = [io EXCEPT ![reg] = value \cap PortPins(port)]
  BY <1>1 DEF set_register_value, gpio_write
<1>3. io'[reg] = value \cap PortPins(port) /\ \A r \in Writable : r # reg => io'[r] = io[r]
  BY <1>1, <1>2 DEF GpioInv, GpioTypeOK
<1>4. ASSUME NEW q \in Pins
      PROVE  /\ q[2] \in io'[<<kind, q[1]>>]
                   <=> IF q[1] = port THEN q[2] \in value ELSE q[2] \in io[<<kind, q[1]>>]
             /\ \A k \in {"DDR", "PORT"} \ {kind} : io'[<<k, q[1]>>] = io[<<k, q[1]>>]
  BY <1>3, PinRegisters
<1>5. /\ UNCHANGED wires
      /\ told' = <<"write", <<kind, port>>, value>> /\ printed' = <<>>
  BY DEF set_register_value, Command
<1>6. CASE kind = "DDR"
  <2>1. PinLatch' = PinLatch
    BY <1>4, <1>6 DEF PinLatch, PortOf, BitOf
  <2>2. PinDirection' = [p \in Pins |-> IF PortOf(p) # port THEN PinDirection[p]
                                        ELSE IF BitOf(p) \in value THEN "OUT" ELSE "IN"]
    BY <1>4, <1>6 DEF PinDirection, PortOf, BitOf
  <2> QED
    BY <1>5, <1>6, <2>1, <2>2 DEF Board!WriteDirections
<1>7. CASE kind = "PORT"
  <2>1. PinDirection' = PinDirection
    BY <1>4, <1>7 DEF PinDirection, PortOf, BitOf
  <2>2. PinLatch' = [p \in Pins |-> IF PortOf(p) # port THEN PinLatch[p]
                                    ELSE IF BitOf(p) \in value THEN "HIGH" ELSE "LOW"]
    BY <1>4, <1>7 DEF PinLatch, PortOf, BitOf
  <2> QED
    BY <1>5, <1>7, <2>1, <2>2 DEF Board!WriteLatches
<1> QED
  BY <1>6, <1>7

LEMMA OtherRegisterStep ==
  ASSUME GpioInv, NEW reg \in OtherRegisters, NEW value, set_register_value(reg, value)
  PROVE  Board!WriteOther(reg, value)
<1>1. \A p \in Ports : /\ io'[<<"DDR", p>>] = io[<<"DDR", p>>]
                       /\ io'[<<"PORT", p>>] = io[<<"PORT", p>>]
  <2>1. CASE reg = MCUCR
    BY <2>1 DEF set_register_value, gpio_write, Writable, MCUCR, GpioInv, GpioTypeOK
  <2>2. CASE reg # MCUCR
    <3>1. reg \notin Writable
      BY <2>2 DEF OtherRegisters, Registers, Writable
    <3> QED
      BY <3>1 DEF set_register_value, gpio_write
  <2> QED
    BY <2>1, <2>2
<1> QED
  BY <1>1, SamePins DEF Board!WriteOther, set_register_value, Command

LEMMA StatusStep ==
  ASSUME NEW p \in Pins, print_pin_status(p)
  PROVE  Board!Show(p)
<1>1. UNCHANGED <<PinDirection, PinLatch>>
  BY SamePins DEF print_pin_status
<1>2. gpio_get_direction(p) = PinDirection[p] /\ gpio_get_level(p) = PinLatch[p]
  BY PinRegisters
  DEF gpio_get_direction, gpio_get_level, gpio_read, PinDirection, PinLatch, PortOf, BitOf
<1> QED
  BY <1>1, <1>2 DEF Board!Show, print_pin_status, Command

(* What is read of a port's register has the bits of its pins and, since    *)
(* reserved bits stay clear, no other.                                      *)
LEMMA ReadingIsPins ==
  ASSUME GpioInv, NEW kind \in {"DDR", "PORT", "PIN"}, NEW port \in Ports
  PROVE  gpio_read(<<kind, port>>)
           = {BitOf(p) : p \in {q \in Pins : PortOf(q) = port /\ Board!IsOne(kind, q)}}
<1> DEFINE bits == gpio_read(<<kind, port>>)
<1>1. bits \subseteq PortPins(port)
  BY DEF gpio_read, PinLevels, GpioInv, ReservedClear, Writable, MCUCR
<1>2. ASSUME NEW b \in PortPins(port)
      PROVE  <<port, b>> \in Pins /\ (b \in bits <=> Board!IsOne(kind, <<port, b>>))
  <2>1. <<port, b>> \in Pins
    BY GpioConstants DEF Pins, PortPins, Digits
  <2>2. /\ PinDirection[<<port, b>>] = "OUT" <=> b \in io[<<"DDR", port>>]
        /\ PinLatch[<<port, b>>] = "HIGH" <=> b \in io[<<"PORT", port>>]
    BY <2>1 DEF PinDirection, PinLatch, PortOf, BitOf
  <2>3. CASE kind = "DDR"
    BY <2>1, <2>2, <2>3 DEF Board!IsOne, gpio_read, Writable
  <2>4. CASE kind = "PORT"
    BY <2>1, <2>2, <2>4 DEF Board!IsOne, gpio_read, Writable
  <2>5. CASE kind = "PIN"
    BY <2>1, <2>2, <2>5 DEF Board!IsOne, gpio_read, PinLevels, Writable, MCUCR
  <2> QED
    BY <2>1, <2>3, <2>4, <2>5
<1>3. \A q \in Pins : PortOf(q) = port => q = <<port, BitOf(q)>> /\ BitOf(q) \in PortPins(port)
  BY DEF Pins, PortOf, BitOf
<1>4. \A b : PortOf(<<port, b>>) = port /\ BitOf(<<port, b>>) = b
  BY DEF PortOf, BitOf
<1> QED
  BY <1>1, <1>2, <1>3, <1>4

LEMMA ReadStep ==
  ASSUME GpioInv, NEW reg \in Registers \ {MCUCR}, print_register_value(reg)
  PROVE  \E kind \in {"DDR", "PORT", "PIN"}, port \in Ports : Board!ShowPort(kind, port)
<1>1. PICK kind \in {"DDR", "PORT", "PIN"}, port \in Ports : reg = <<kind, port>>
  BY DEF Registers, Writable
<1>2. UNCHANGED <<PinDirection, PinLatch>>
  BY SamePins DEF print_register_value
<1>3. Board!ShowPort(kind, port)
  BY <1>1, <1>2, ReadingIsPins DEF Board!ShowPort, print_register_value, Command
<1> QED
  BY <1>3

LEMMA ResetStep ==
  ASSUME Reset
  PROVE  Board!Reset
<1>1. \A p \in Pins : io'[<<"DDR", p[1]>>] = {} /\ io'[<<"PORT", p[1]>>] = {}
  BY PinRegisters DEF Reset
<1> QED
  BY <1>1 DEF Reset, Board!Reset, PinDirection, PinLatch, PortOf, BitOf

LEMMA BoardStart == GpioInit => Board!Released
<1> SUFFICES ASSUME GpioInit PROVE Board!Released
  OBVIOUS
<1>1. \A p \in Pins : io[<<"DDR", p[1]>>] = {} /\ io[<<"PORT", p[1]>>] = {}
  BY PinRegisters DEF GpioInit
<1>2. wires \subseteq Pins
  BY GpioConstants DEF GpioInit
<1> QED
  BY <1>1, <1>2 DEF GpioInit, Board!Released, PinDirection, PinLatch, PortOf, BitOf

LEMMA BoardStep == GpioInv /\ [GpioNext]_gpioVars => [Board!BoardNext]_Board!boardVars
<1> SUFFICES ASSUME GpioInv, [GpioNext]_gpioVars
             PROVE  [Board!BoardNext]_Board!boardVars
  OBVIOUS
<1>1. ASSUME NEW p \in Pins, print_pin_status(p) PROVE Board!BoardNext
  BY <1>1, StatusStep DEF Board!BoardNext
<1>2. ASSUME NEW p \in Pins, NEW mode \in {"IN", "OUT"}, set_pin_mode(p, mode)
      PROVE  Board!BoardNext
  BY <1>2, ModeStep DEF Board!BoardNext, Board!Directions
<1>3. ASSUME NEW p \in Pins, NEW value \in Values, set_pin_value(p, value)
      PROVE  Board!BoardNext
  BY <1>3, ValueStep DEF Board!BoardNext
<1>4. ASSUME NEW reg \in Registers, NEW value \in Values, set_register_value(reg, value)
      PROVE  Board!BoardNext
  <2>1. CASE reg \in {"DDR", "PORT"} \X Ports
    <3>1. PICK kind \in {"DDR", "PORT"}, port \in Ports : reg = <<kind, port>>
      BY <2>1
    <3>2. Board!WriteDirections(port, value) \/ Board!WriteLatches(port, value)
      BY <1>4, <3>1, PortStep
    <3> QED
      BY <1>4, <3>1, <3>2 DEF Board!BoardNext
  <2>2. CASE reg \notin {"DDR", "PORT"} \X Ports
    <3>1. reg \in OtherRegisters
      BY <1>4, <2>2 DEF OtherRegisters
    <3> QED
      BY <1>4, <3>1, OtherRegisterStep DEF Board!BoardNext
  <2> QED
    BY <2>1, <2>2
<1>5. ASSUME NEW reg \in Registers \ {MCUCR}, print_register_value(reg)
      PROVE  Board!BoardNext
  BY <1>5, ReadStep DEF Board!BoardNext
<1>6. CASE print_other \/ process_reboot
  <2>1. UNCHANGED <<PinDirection, PinLatch>>
    BY <1>6, SamePins DEF print_other, process_reboot
  <2> QED
    BY <1>6, <2>1
    DEF print_other, process_reboot, Command, Board!Other, Board!BoardNext
<1>7. CASE process_bootloader
  <2>1. \A p \in Ports : /\ io'[<<"DDR", p>>] = io[<<"DDR", p>>]
                         /\ io'[<<"PORT", p>>] = io[<<"PORT", p>>]
    BY <1>7 DEF process_bootloader, MCUCR, Writable, GpioInv, GpioTypeOK
  <2>2. UNCHANGED <<PinDirection, PinLatch>>
    BY <2>1, SamePins
  <2> QED
    BY <1>7, <2>2
    DEF process_bootloader, Board!Other, Board!BoardNext, Board!boardVars
<1>8. CASE Reset
  BY <1>8, ResetStep DEF Board!BoardNext
<1>9. CASE WiresChange
  <2>1. UNCHANGED <<PinDirection, PinLatch>> /\ wires' \subseteq Pins
    BY <1>9, SamePins, GpioConstants DEF WiresChange
  <2> QED
    BY <1>9, <2>1 DEF WiresChange, Board!Rewire, Board!BoardNext
<1>10. CASE UNCHANGED gpioVars
  BY <1>10, SamePins DEF gpioVars, Board!boardVars
<1> QED
  BY <1>1, <1>2, <1>3, <1>4, <1>5, <1>6, <1>7, <1>8, <1>9, <1>10
  DEF GpioNext, process_gpio

(* The command line implements the abstract board: every command changes    *)
(* just what it says of the pins it names, shows what is theirs, and leaves *)
(* every other pin alone (gpio.c:59-236).                                   *)
THEOREM GpioImplementsBoard == GpioSpec => PinsAsTold
  BY BoardStart, BoardStep, GpioStart, GpioStep, PTL
  DEF GpioSpec, PinsAsTold, Board!BoardSpec
=============================================================================
