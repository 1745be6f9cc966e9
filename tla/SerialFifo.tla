----------------------------- MODULE SerialFifo -----------------------------
(***************************************************************************)
(* What the rest of fcron relies on in the serial queue: jobs leave it in  *)
(* the order they came, except the jobs of a file that is freed, which     *)
(* leave it at once, and the others keep their order.                      *)
(*                                                                         *)
(* A queue whose length is in Reorders may change its order when a job is  *)
(* added: with {} this is a FIFO queue, and SerialQueue says what the code *)
(* needs.                                                                  *)
(***************************************************************************)
EXTENDS Integers, Sequences, Functions, KeptOrder

CONSTANTS
  Jobs,        (* the lines (cl_t) that may be queued                      *)
  Files,       (* the files they belong to                                 *)
  FileOf,      (* cl_file                                                  *)
  Reorders     (* lengths                                                  *)

VARIABLE queue

Kept(q, f) == Keep(q, {i \in 1..Len(q) : FileOf[q[i]] # f})

Reordered(q) == {[i \in 1..Len(q) |-> q[p[i]]] : p \in Bijection(1..Len(q), 1..Len(q))}

Init == queue = <<>>

Add(j) ==
  \/ queue' = Append(queue, j)
  \/ /\ Len(queue) \in Reorders
     /\ \E q \in Reordered(queue) : queue' = Append(q, j)

Run == queue # <<>> /\ queue' = Tail(queue)

Delete(f) == queue' = Kept(queue, f)

Next ==
  \/ \E j \in Jobs : Add(j)
  \/ Run
  \/ \E f \in Files : Delete(f)

Spec == Init /\ [][Next]_queue

=============================================================================
