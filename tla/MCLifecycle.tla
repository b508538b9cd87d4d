------------------------------ MODULE MCLifecycle ------------------------------
(***************************************************************************)
(* Images for the checks: whole programs that stay below 24 KB, a program   *)
(* that takes more, as far as gen-firmware.py accepts, and the front part   *)
(* of a download that was cut short.                                        *)
(***************************************************************************)
EXTENDS Lifecycle

SomeImages ==
  [program : Applications, top : {8192}]
    \cup {[program |-> "cdc-gpio-cli", top |-> 28000], [program |-> "broken", top |-> 4096]}
=============================================================================
