----------------------------- MODULE KeptOrder ------------------------------
(***************************************************************************)
(* What is left of a sequence when entries are taken out of it and the     *)
(* others move up: how delete_file() rebuilds the serial queue, and        *)
(* job_queue_remove() closes the list of lines.                            *)
(***************************************************************************)
EXTENDS Integers, Sequences, FiniteSets

(* The k-th element, from the smallest, of a set of numbers.               *)
Nth(K, k) == CHOOSE i \in K : Cardinality({j \in K : j <= i}) = k

(* The entries of q at the positions of K, in the order of q.              *)
Keep(q, K) == [k \in 1..Cardinality(K) |-> q[Nth(K, k)]]

=============================================================================
