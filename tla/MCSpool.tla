------------------------------- MODULE MCSpool -------------------------------
(* Runs of fcrontab are interchangeable, and so are the users.             *)
EXTENDS Spool, TLC

Symmetry == Permutations(Runs) \cup Permutations(Users)

=============================================================================
