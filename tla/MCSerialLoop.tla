------------------------------ MODULE MCSerialLoop ------------------------------
(* The end of a line, and the byte that looks like -1.                      *)
EXTENDS SerialLoop

SomeBytes == {13, 255}
=============================================================================
