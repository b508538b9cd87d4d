--------------------------------- MODULE MCGpio ---------------------------------
(***************************************************************************)
(* The GPIO command line on the two small ports, C and E, whose reserved    *)
(* bits outnumber their pins.                                               *)
(***************************************************************************)
EXTENDS Gpio

SmallPorts == {"C", "E"}

(* Zero and one as a pin value, every bit, and bits 2 and 6 alone: the two  *)
(* pins of E, of which the second has its like in port C.                   *)
SomeValues == {{}, {0}, Digits, {2}, {6}}

(* The world may drive pin C6 high, or no pin.                              *)
OneHigh == {{}, {<<"C", 6>>}}
=============================================================================
