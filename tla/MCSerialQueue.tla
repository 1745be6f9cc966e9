---------------------------- MODULE MCSerialQueue ---------------------------
(* Three lines, two of them of the same file.                              *)
EXTENDS SerialQueue

ThreeLines == [a |-> "u1", b |-> "u2", c |-> "u1"]

=============================================================================
