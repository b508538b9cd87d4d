-------------------------------- MODULE PinBoard --------------------------------
(***************************************************************************)
(* What the gpio command promises its user.  Every pin has a direction and  *)
(* a latch; what a command line does to them, and what it shows, follows    *)
(* from the pin or register it names and the number it gives, and nothing   *)
(* else on the board changes.                                               *)
(***************************************************************************)
CONSTANTS
  Pins, Ports, Values,
  OtherRegisters,       (* registers that hold no direction and no latch     *)
  PortOf(_), BitOf(_)

VARIABLES
  told,       (* the last command line                                       *)
  direction, latch,
  wires,      (* pins that are high from outside                             *)
  shown       (* what that command line showed                               *)

boardVars == <<told, direction, latch, wires, shown>>

Directions == {"IN", "OUT"}

(* A number gives a pin the level of its lowest bit. *)
LevelOf(value) == IF 0 \in value THEN "HIGH" ELSE "LOW"

SetDirection(p, d) ==
  /\ told' = <<"mode", p, d>> /\ shown' = <<>>
  /\ direction' = [direction EXCEPT ![p] = d]
  /\ UNCHANGED <<latch, wires>>

SetLatch(p, value) ==
  /\ told' = <<"level", p, value>> /\ shown' = <<>>
  /\ latch' = [latch EXCEPT ![p] = LevelOf(value)]
  /\ UNCHANGED <<direction, wires>>

(* A number gives each pin of a port the bit in the pin's place. *)
WriteDirections(port, value) ==
  /\ told' = <<"write", <<"DDR", port>>, value>> /\ shown' = <<>>
  /\ direction' = [p \in Pins |-> IF PortOf(p) # port THEN direction[p]
                                  ELSE IF BitOf(p) \in value THEN "OUT" ELSE "IN"]
  /\ UNCHANGED <<latch, wires>>

WriteLatches(port, value) ==
  /\ told' = <<"write", <<"PORT", port>>, value>> /\ shown' = <<>>
  /\ latch' = [p \in Pins |-> IF PortOf(p) # port THEN latch[p]
                              ELSE IF BitOf(p) \in value THEN "HIGH" ELSE "LOW"]
  /\ UNCHANGED <<direction, wires>>

WriteOther(reg, value) ==
  /\ told' = <<"write", reg, value>> /\ shown' = <<>>
  /\ UNCHANGED <<direction, latch, wires>>

Show(p) ==
  /\ told' = <<"status", p>> /\ shown' = <<direction[p], latch[p]>>
  /\ UNCHANGED <<direction, latch, wires>>

(* The pins of a port whose direction is out, whose latch is high, or that  *)
(* are high: an output has the level of its latch, an input that of its     *)
(* wire.                                                                    *)
IsOne(kind, p) ==
  CASE kind = "DDR"  -> direction[p] = "OUT"
    [] kind = "PORT" -> latch[p] = "HIGH"
    [] kind = "PIN"  -> IF direction[p] = "OUT" THEN latch[p] = "HIGH" ELSE p \in wires

ShowPort(kind, port) ==
  /\ told' = <<"read", <<kind, port>>>>
  /\ shown' = <<{BitOf(p) : p \in {q \in Pins : PortOf(q) = port /\ IsOne(kind, q)}}>>
  /\ UNCHANGED <<direction, latch, wires>>

(* A command line that is not about pins. *)
Other ==
  /\ told' = <<"other">> /\ shown' = <<>>
  /\ UNCHANGED <<direction, latch, wires>>

Rewire == wires' \subseteq Pins /\ UNCHANGED <<told, direction, latch, shown>>

Released ==
  /\ direction = [p \in Pins |-> "IN"] /\ latch = [p \in Pins |-> "LOW"]
  /\ told = <<>> /\ shown = <<>> /\ wires \subseteq Pins

Reset ==
  /\ direction' = [p \in Pins |-> "IN"] /\ latch' = [p \in Pins |-> "LOW"]
  /\ told' = <<>> /\ shown' = <<>> /\ UNCHANGED wires

BoardNext ==
  \/ \E p \in Pins : \/ \E d \in Directions : SetDirection(p, d)
                     \/ \E value \in Values : SetLatch(p, value)
                     \/ Show(p)
  \/ \E port \in Ports, value \in Values :
       WriteDirections(port, value) \/ WriteLatches(port, value)
  \/ \E reg \in OtherRegisters, value \in Values : WriteOther(reg, value)
  \/ \E kind \in {"DDR", "PORT", "PIN"}, port \in Ports : ShowPort(kind, port)
  \/ Other \/ Rewire \/ Reset

BoardSpec == Released /\ [][BoardNext]_boardVars
=============================================================================
