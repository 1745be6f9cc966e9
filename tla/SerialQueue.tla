----------------------------- MODULE SerialQueue ----------------------------
(***************************************************************************)
(* The array behind the serial queue (serial_array of fcron.c): a circular *)
(* buffer whose first job is at serial_array_index, which grows when it is *)
(* full and is rebuilt, with its first job at 0, when a file is freed.     *)
(*                                                                         *)
(* JobControl sees this queue as a sequence; here the sequence is what     *)
(* Queue says it is, and SerialFifo what its users may expect of it.  How  *)
(* often a line may be queued is JobControl's matter: here any line may be *)
(* added at any time.                                                      *)
(***************************************************************************)
EXTENDS Integers, Sequences, FiniteSets, KeptOrder

CONSTANTS
  Jobs, Files, FileOf,
  NoJob,         (* the NULL pointer                                       *)
  InitialSize,   (* SERIAL_INITIAL_SIZE                                    *)
  GrowSize,      (* SERIAL_GROW_SIZE                                       *)
  QueueMax       (* serial_queue_max                                       *)

ASSUME SerialQueueAssumption ==
  /\ InitialSize \in Nat \ {0} /\ GrowSize \in Nat \ {0} /\ QueueMax \in Nat
  /\ FileOf \in [Jobs -> Files] /\ NoJob \notin Jobs

VARIABLES
  serial_array,         (* the cells, from 0 to serial_array_size - 1      *)
  serial_array_size,
  serial_array_index,   (* the cell of the first job                       *)
  serial_num            (* number of jobs in the queue                     *)

vars == <<serial_array, serial_array_size, serial_array_index, serial_num>>

(* An index past the end of an array of that size comes back at its start. *)
Wrap(i, size) == IF i >= size THEN i - size ELSE i

Cells(size) == 0..(size - 1)

(* The cells in the order of the queue, which cmd_ls() also walks in.      *)
FromFirst == [i \in 1..serial_array_size |->
                serial_array[Wrap(serial_array_index + i - 1, serial_array_size)]]
Queue     == SubSeq(FromFirst, 1, serial_num)

(* Mutant: the last cell is never used again once the queue has wrapped.   *)
Put_unwrapped(array, size, index, num, j) ==
  /\ serial_array' = [array EXCEPT ![IF index + num >= size THEN size - 1
                                                            ELSE index + num] = j]
  /\ serial_array_size' = size
  /\ serial_array_index' = index
  /\ serial_num' = num + 1

Put(array, size, index, num, j) ==
  /\ serial_array' = [array EXCEPT ![Wrap(index + num, size)] = j]
  /\ serial_array_size' = size
  /\ serial_array_index' = index
  /\ serial_num' = num + 1

(* add_serial_job(): there is room.                                        *)
AddInPlace(j) ==
  /\ serial_num < serial_array_size
  /\ Put(serial_array, serial_array_size, serial_array_index, serial_num, j)

(* Mutant: the second memcpy() is forgotten.                               *)
Grown_once(array, size, index) ==
  [c \in Cells(size + GrowSize) |->
     IF c \in index..(size - 1) THEN array[c - index] ELSE NoJob]

(* add_serial_job(): the array is full and grows.  The two memcpy() move   *)
(* cell c of the old array to cell c + serial_array_index of the new one.  *)
Grown(array, size, index) ==
  [c \in Cells(size + GrowSize) |->
     IF c >= size THEN NoJob
     ELSE IF c >= index THEN array[c - index] ELSE array[c + size - index]]

AddAndGrow(j) ==
  /\ serial_num >= serial_array_size /\ serial_num < QueueMax
  /\ Put(Grown(serial_array, serial_array_size, serial_array_index),
         serial_array_size + GrowSize, 0, serial_num, j)

(* run_serial_job()                                                        *)
Run ==
  /\ serial_num # 0
  /\ serial_array' = [serial_array EXCEPT ![serial_array_index] = NoJob]
  /\ serial_array_index' = Wrap(serial_array_index + 1, serial_array_size)
  /\ serial_num' = serial_num - 1
  /\ UNCHANGED serial_array_size

(* delete_file(): the cells of the file are emptied, then the array is     *)
(* rebuilt from the first job on, without empty cells.                     *)
Delete(f) ==
  LET Of   == {c \in Cells(serial_array_size) :
                 serial_array[c] # NoJob /\ FileOf[serial_array[c]] = f}
      rest == Keep(FromFirst, {i \in 1..serial_array_size :
                                 FromFirst[i] # NoJob /\ FileOf[FromFirst[i]] # f})
  IN /\ Of # {}
     /\ serial_num' = serial_num - Cardinality(Of)
     /\ serial_array' = [c \in Cells(serial_array_size) |->
                           IF c < Len(rest) THEN rest[c + 1] ELSE NoJob]
     /\ serial_array_index' = 0
     /\ UNCHANGED serial_array_size

Init ==
  /\ serial_array = [c \in Cells(InitialSize) |-> NoJob]
  /\ serial_array_size = InitialSize
  /\ serial_array_index = 0 /\ serial_num = 0

Next ==
  \/ \E j \in Jobs : AddInPlace(j)
  \/ \E j \in Jobs : AddAndGrow(j)
  \/ Run
  \/ \E f \in Files : Delete(f)

Spec == Init /\ [][Next]_vars

-----------------------------------------------------------------------------
(* Properties.                                                             *)

(* The jobs are in the serial_num cells from serial_array_index on, and    *)
(* nowhere else: run_serial_job() never takes an empty cell, and           *)
(* delete_file(), which looks at every cell, only sees jobs of the queue.  *)
Contiguous ==
  \A i \in 1..serial_array_size : FromFirst[i] # NoJob <=> i <= serial_num

(* The queue is first in, first out, and freeing a file only takes its own *)
(* jobs out.  No job is ever lost or doubled, but adding one when the      *)
(* array is full may change the order of the others.                       *)
FullLengths == {InitialSize + k * GrowSize : k \in 0..QueueMax}
Fifo == INSTANCE SerialFifo WITH queue <- Queue, Reorders <- FullLengths
FifoUnlessFull == Fifo!Spec

=============================================================================
