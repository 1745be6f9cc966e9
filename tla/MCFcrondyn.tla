----------------------------- MODULE MCFcrondyn -----------------------------
(* Instances of Fcrondyn: bob asks once, root twice, about a line of root.   *)
EXTENDS Fcrondyn

MCUser   == [c \in Clients |-> IF c = 1 THEN "bob" ELSE "root"]
MCCmds   == [c \in Clients |-> IF c = 1 THEN 1 ELSE 2]
MCOwner  == [l \in Lines |-> "root"]
=============================================================================
