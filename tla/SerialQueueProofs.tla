-------------------------- MODULE SerialQueueProofs -------------------------
(***************************************************************************)
(* Proofs about SerialQueue: the circular array is a queue, for all lines, *)
(* files and sizes.                                                        *)
(***************************************************************************)
EXTENDS SerialQueue, KeptOrderProofs

-----------------------------------------------------------------------------
(* The array, and its jobs at the places Queue reads.                      *)

SizeIs(k) == k \in 0..QueueMax /\ serial_array_size = InitialSize + k * GrowSize

TypeOK ==
  /\ serial_array_size \in Nat /\ \E k \in Nat : SizeIs(k)
  /\ serial_array \in [Cells(serial_array_size) -> Jobs \cup {NoJob}]
  /\ serial_array_index \in Cells(serial_array_size)
  /\ serial_num \in 0..serial_array_size

(* The cell of the i-th job.                                               *)
Cell(i) == Wrap(serial_array_index + i - 1, serial_array_size)

IInv == TypeOK /\ Contiguous

LEMMA CellType ==
  ASSUME TypeOK
  PROVE  \A i \in 1..serial_array_size :
           /\ Cell(i) \in Cells(serial_array_size)
           /\ FromFirst[i] = serial_array[Cell(i)]
           /\ FromFirst[i] \in Jobs \cup {NoJob}
BY DEF TypeOK, Cells, Cell, Wrap, FromFirst

(* Each cell is that of one place.                                         *)
LEMMA CellBijective ==
  ASSUME TypeOK
  PROVE  /\ \A i, j \in 1..serial_array_size : Cell(i) = Cell(j) => i = j
         /\ \A c \in Cells(serial_array_size) :
              \E i \in 1..serial_array_size : Cell(i) = c
<1>1. \A i, j \in 1..serial_array_size : Cell(i) = Cell(j) => i = j
  BY DEF TypeOK, Cells, Cell, Wrap
<1>2. ASSUME NEW c \in Cells(serial_array_size)
      PROVE  \E i \in 1..serial_array_size : Cell(i) = c
  <2>1. CASE c >= serial_array_index
    <3>1. c - serial_array_index + 1 \in 1..serial_array_size
          /\ Cell(c - serial_array_index + 1) = c
      BY <2>1 DEF TypeOK, Cells, Cell, Wrap
    <3> QED  BY <3>1
  <2>2. CASE c < serial_array_index
    <3>1. c - serial_array_index + 1 + serial_array_size \in 1..serial_array_size
          /\ Cell(c - serial_array_index + 1 + serial_array_size) = c
      BY <2>2 DEF TypeOK, Cells, Cell, Wrap
    <3> QED  BY <3>1
  <2> QED  BY <2>1, <2>2 DEF TypeOK, Cells
<1> QED  BY <1>1, <1>2

(* The queue is the first serial_num cells.                                *)
LEMMA QueueIs ==
  ASSUME TypeOK
  PROVE  Queue = [i \in 1..serial_num |-> serial_array[Cell(i)]]
<1>1. serial_num \in Nat /\ \A i \in 1..serial_num : i \in 1..serial_array_size
  BY DEF TypeOK
<1>2. Queue = [i \in 1..serial_num |-> FromFirst[i]]
  BY <1>1 DEF Queue
<1> QED  BY <1>1, <1>2, CellType

LEMMA QueueType ==
  ASSUME IInv
  PROVE  /\ Queue \in Seq(Jobs) /\ Len(Queue) = serial_num
         /\ \A i \in 1..serial_num : Queue[i] = serial_array[Cell(i)]
<1>1. serial_num \in Nat /\ \A i \in 1..serial_num : i \in 1..serial_array_size
  BY DEF IInv, TypeOK
<1>2. Queue = [i \in 1..serial_num |-> serial_array[Cell(i)]]
  BY QueueIs DEF IInv
<1>3. \A i \in 1..serial_num : serial_array[Cell(i)] \in Jobs
  BY <1>1, CellType DEF IInv, Contiguous
<1> QED  BY <1>1, <1>2, <1>3

(* The same after a step.                                                  *)
NextCell(i) == Wrap(serial_array_index' + i - 1, serial_array_size')

LEMMA NextQueueIs ==
  ASSUME TypeOK'
  PROVE  /\ Queue' = [i \in 1..serial_num' |-> serial_array'[NextCell(i)]]
         /\ Contiguous' <=> \A i \in 1..serial_array_size' :
                              serial_array'[NextCell(i)] # NoJob <=> i <= serial_num'
<1>1. serial_num' \in Nat /\ \A i \in 1..serial_num' : i \in 1..serial_array_size'
  BY DEF TypeOK
<1>2. \A i \in 1..serial_array_size' : FromFirst'[i] = serial_array'[NextCell(i)]
  BY DEF FromFirst, NextCell
<1>3. Queue' = [i \in 1..serial_num' |-> FromFirst'[i]]
  BY <1>1 DEF Queue
<1> QED  BY <1>1, <1>2, <1>3 DEF Contiguous

-----------------------------------------------------------------------------
(* What each step does to the queue.                                       *)

LEMMA InitStep ==
  ASSUME Init
  PROVE  IInv /\ Queue = <<>>
<1>1. SizeIs(0)
  BY SerialQueueAssumption DEF Init, SizeIs
<1>2. TypeOK
  BY <1>1, SerialQueueAssumption DEF Init, TypeOK, Cells
<1>3. Contiguous
  BY <1>2, CellType DEF Init, Contiguous, Cells
<1>4. Queue = <<>>
  BY <1>2, <1>3, QueueType DEF IInv, Init
<1> QED  BY <1>2, <1>3, <1>4 DEF IInv

LEMMA AddStep ==
  ASSUME IInv, NEW j \in Jobs, AddInPlace(j)
  PROVE  IInv' /\ Queue' = Append(Queue, j)
<1> USE SerialQueueAssumption
<1>1. TypeOK /\ Contiguous
  BY DEF IInv
<1>2. /\ serial_num < serial_array_size /\ serial_num' = serial_num + 1
      /\ serial_array' = [serial_array EXCEPT ![Cell(serial_num + 1)] = j]
      /\ serial_array_size' = serial_array_size
      /\ serial_array_index' = serial_array_index
  BY <1>1 DEF AddInPlace, Put, Cell, TypeOK, Cells
<1>3. serial_num + 1 \in 1..serial_array_size
  BY <1>1, <1>2 DEF TypeOK
<1>4. TypeOK'
  <2>1. \E k \in Nat : SizeIs(k)'
    BY <1>1, <1>2 DEF TypeOK, SizeIs
  <2>2. serial_array' \in [Cells(serial_array_size) -> Jobs \cup {NoJob}]
    BY <1>1, <1>2 DEF TypeOK
  <2>3. serial_num' \in 0..serial_array_size
    BY <1>1, <1>2 DEF TypeOK
  <2> QED  BY <2>1, <2>2, <2>3, <1>1, <1>2 DEF TypeOK
<1>5. \A i \in 1..serial_array_size :
        /\ NextCell(i) = Cell(i)
        /\ serial_array'[Cell(i)] = IF i = serial_num + 1 THEN j ELSE serial_array[Cell(i)]
  BY <1>1, <1>2, <1>3, CellType, CellBijective DEF NextCell, Cell, TypeOK
<1>6. \A i \in 1..serial_array_size : serial_array[Cell(i)] # NoJob <=> i <= serial_num
  BY <1>1, CellType DEF Contiguous
<1>7. Contiguous'
  BY <1>1, <1>2, <1>4, <1>5, <1>6, NextQueueIs DEF TypeOK
<1>8. Queue' = Append(Queue, j)
  <2>1. /\ Queue \in Seq(Jobs) /\ Len(Queue) = serial_num
        /\ \A i \in 1..serial_num : Queue[i] = serial_array[Cell(i)]
    BY QueueType
  <2>2. Queue' = [i \in 1..serial_num + 1 |->
                    IF i = serial_num + 1 THEN j ELSE Queue[i]]
    <3>1. \A i \in 1..serial_num + 1 : i \in 1..serial_array_size
      BY <1>1, <1>3 DEF TypeOK
    <3>2. \A i \in 1..serial_num + 1 :
            serial_array'[NextCell(i)] = IF i = serial_num + 1 THEN j ELSE Queue[i]
      BY <1>1, <1>5, <2>1, <3>1 DEF TypeOK
    <3> QED  BY <1>2, <1>4, <3>2, NextQueueIs
  <2> QED  BY <2>1, <2>2, AppendIs
<1> QED  BY <1>4, <1>7, <1>8 DEF IInv

LEMMA RunStep ==
  ASSUME IInv, Run
  PROVE  IInv' /\ Queue # <<>> /\ Queue' = Tail(Queue)
<1> USE SerialQueueAssumption
<1>1. TypeOK /\ Contiguous
  BY DEF IInv
<1>2. /\ serial_num # 0 /\ serial_num' = serial_num - 1
      /\ serial_array' = [serial_array EXCEPT ![Cell(1)] = NoJob]
      /\ serial_array_size' = serial_array_size
      /\ serial_array_index' = Wrap(serial_array_index + 1, serial_array_size)
  <2>1. Cell(1) = serial_array_index
    BY <1>1 DEF Cell, TypeOK, Cells, Wrap
  <2> QED  BY <2>1 DEF Run
<1>3. TypeOK'
  <2>1. \E k \in Nat : SizeIs(k)'
    BY <1>1, <1>2 DEF TypeOK, SizeIs
  <2>2. serial_array_index' \in Cells(serial_array_size)
    BY <1>1, <1>2 DEF TypeOK, Cells, Wrap
  <2>3. serial_array' \in [Cells(serial_array_size) -> Jobs \cup {NoJob}]
    BY <1>1, <1>2 DEF TypeOK
  <2>4. serial_num' \in 0..serial_array_size
    BY <1>1, <1>2 DEF TypeOK
  <2> QED  BY <2>1, <2>2, <2>3, <2>4, <1>1, <1>2 DEF TypeOK
<1>4. \A i \in 1..serial_array_size - 1 :
        /\ i \in 1..serial_array_size /\ i + 1 \in 1..serial_array_size
        /\ NextCell(i) = Cell(i + 1) /\ Cell(i + 1) # Cell(1)
  <2>1. serial_array_size \in Nat \ {0} /\ 1 \in 1..serial_array_size
    BY <1>1 DEF TypeOK, Cells
  <2>2. \A i \in 1..serial_array_size - 1 : NextCell(i) = Cell(i + 1)
    BY <1>1, <1>2 DEF NextCell, Cell, TypeOK, Cells, Wrap
  <2>3. \A i \in 1..serial_array_size - 1 : i + 1 \in 1..serial_array_size /\ i + 1 # 1
    BY <2>1
  <2> QED  BY <1>1, <2>1, <2>2, <2>3, CellBijective
<1>5. NextCell(serial_array_size) = Cell(1)
  BY <1>1, <1>2 DEF NextCell, Cell, TypeOK, Cells, Wrap
<1>6. \A i \in 1..serial_array_size : serial_array[Cell(i)] # NoJob <=> i <= serial_num
  BY <1>1, CellType DEF Contiguous
<1>7. \A i \in 1..serial_array_size - 1 : serial_array'[NextCell(i)] = serial_array[Cell(i + 1)]
  BY <1>1, <1>2, <1>4, CellType DEF TypeOK
<1>8. serial_array'[NextCell(serial_array_size)] = NoJob
  BY <1>1, <1>2, <1>5, CellType DEF TypeOK, Cells
<1>9. Contiguous'
  BY <1>1, <1>2, <1>3, <1>4, <1>6, <1>7, <1>8, NextQueueIs DEF TypeOK
<1>10. Queue # <<>> /\ Queue' = Tail(Queue)
  <2>1. /\ Queue \in Seq(Jobs) /\ Len(Queue) = serial_num
        /\ \A i \in 1..serial_num : Queue[i] = serial_array[Cell(i)]
    BY QueueType
  <2>2. \A i \in 1..serial_num - 1 :
          i \in 1..serial_array_size - 1 /\ i + 1 \in 1..serial_num
    BY <1>1, <1>2 DEF TypeOK
  <2>3. Queue' = [i \in 1..serial_num - 1 |-> Queue[i + 1]]
    BY <1>2, <1>3, <1>7, <2>1, <2>2, NextQueueIs
  <2>4. Queue # <<>>
    BY <1>2, <2>1
  <2> QED  BY <2>1, <2>3, <2>4, TailIs
<1> QED  BY <1>3, <1>9, <1>10 DEF IInv

(* delete_file(): the places that stay are those of the queue, and there   *)
(* are as many of the others as of the cells that are emptied.             *)
LEMMA DeleteStep ==
  ASSUME IInv, NEW f \in Files, Delete(f)
  PROVE  IInv' /\ Queue' = Fifo!Kept(Queue, f)
<1> USE SerialQueueAssumption
<1> DEFINE Of   == {c \in Cells(serial_array_size) :
                      serial_array[c] # NoJob /\ FileOf[serial_array[c]] = f}
           stay == {i \in 1..serial_array_size :
                      FromFirst[i] # NoJob /\ FileOf[FromFirst[i]] # f}
           gone == {i \in 1..serial_num : FileOf[Queue[i]] = f}
           rest == Keep(FromFirst, stay)
<1>1. TypeOK /\ Contiguous
  BY DEF IInv
<1>2. /\ serial_num' = serial_num - Cardinality(Of)
      /\ serial_array' = [c \in Cells(serial_array_size) |->
                            IF c < Len(rest) THEN rest[c + 1] ELSE NoJob]
      /\ serial_array_index' = 0 /\ serial_array_size' = serial_array_size
  BY DEF Delete
<1>3. /\ Queue \in Seq(Jobs) /\ Len(Queue) = serial_num /\ serial_num \in Nat
      /\ \A i \in 1..serial_num : /\ i \in 1..serial_array_size
                                  /\ Queue[i] = FromFirst[i]
      /\ \A i \in 1..serial_array_size : FromFirst[i] # NoJob <=> i <= serial_num
  <2>1. serial_num \in Nat /\ \A i \in 1..serial_num : i \in 1..serial_array_size
    BY <1>1 DEF TypeOK
  <2> QED  BY <1>1, <2>1, QueueType, CellType DEF Contiguous
<1>4. /\ stay = {i \in 1..serial_num : FileOf[Queue[i]] # f}
      /\ stay = (1..serial_num) \ gone
      /\ stay \in SUBSET (1..serial_num)
  BY <1>1, <1>3 DEF TypeOK
<1>5. Cardinality(Of) = Cardinality(gone)
  <2> DEFINE g == [i \in gone |-> Cell(i)]
  <2>1. IsFiniteSet(gone)
    BY <1>3, FS_Interval, FS_Subset
  <2>2. g \in [gone -> Of]
    BY <1>1, <1>3, CellType
  <2>3. \A i, j \in gone : g[i] = g[j] => i = j
    BY <1>1, <1>3, CellBijective
  <2>4. \A c \in Of : \E i \in gone : g[i] = c
    <3> TAKE c \in Of
    <3>1. PICK i \in 1..serial_array_size : Cell(i) = c
      BY <1>1, CellBijective
    <3>2. FromFirst[i] = serial_array[c]
      BY <1>1, <3>1, CellType
    <3>3. i \in gone
      BY <1>3, <3>2
    <3> QED  BY <3>1, <3>3
  <2> HIDE DEF Of, gone, g
  <2> QED  BY <2>1, <2>2, <2>3, <2>4, SameSize
<1>6. Cardinality(stay) = serial_num' /\ serial_num' \in 0..serial_num
  <2>1. IsFiniteSet(1..serial_num) /\ Cardinality(1..serial_num) = serial_num
    BY <1>3, FS_Interval
  <2>2. gone \in SUBSET (1..serial_num)
    OBVIOUS
  <2> HIDE DEF gone, stay, Of
  <2>3. IsFiniteSet(gone) /\ Cardinality(gone) \in Nat
        /\ Cardinality(gone) <= serial_num
    BY <2>1, <2>2, FS_Subset, FS_CardinalityType
  <2>4. (1..serial_num) \cap gone = gone
    BY <2>2
  <2>5. Cardinality(stay) = serial_num - Cardinality(gone)
    BY <1>4, <2>1, <2>4, FS_Difference
  <2> QED  BY <1>2, <1>3, <1>5, <2>3, <2>5
<1>7. /\ \A k \in 1..serial_num' : Nth(stay, k) \in stay
      /\ rest = [k \in 1..serial_num' |-> FromFirst[Nth(stay, k)]]
      /\ \A k \in 1..serial_num' : rest[k] \in Jobs
      /\ Len(rest) = serial_num'
  <2>1. stay \in SUBSET Nat /\ IsFiniteSet(stay)
    <3>1. IsFiniteSet(1..serial_num)
      BY <1>3, FS_Interval
    <3> HIDE DEF stay
    <3> QED  BY <1>3, <1>4, <3>1, FS_Subset
  <2>2. \A i \in stay : FromFirst[i] \in Jobs
    BY <1>1, CellType
  <2> HIDE DEF stay
  <2>3. \A k \in 1..serial_num' : Nth(stay, k) \in stay
    BY <2>1, <1>6, NthProperties
  <2>4. rest = [k \in 1..serial_num' |-> FromFirst[Nth(stay, k)]]
    BY <1>6 DEF Keep
  <2>5. Len(rest) = serial_num'
    <3>1. Cardinality(stay) \in Nat
      BY <1>3, <1>6
    <3> QED  BY <1>6, <3>1 DEF Keep
  <2> QED  BY <2>2, <2>3, <2>4, <2>5
<1> HIDE DEF rest
<1>70. serial_array' = [c \in Cells(serial_array_size) |->
                         IF c < serial_num' THEN rest[c + 1] ELSE NoJob]
  <2>1. Len(rest) = serial_num'
    BY <1>7
  <2>2. serial_array' = [c \in Cells(serial_array_size) |->
                          IF c < Len(rest) THEN rest[c + 1] ELSE NoJob]
    BY <1>2
  <2> QED  BY <2>1, <2>2
<1>8. TypeOK'
  <2>1. \E k \in Nat : SizeIs(k)'
    BY <1>1, <1>2 DEF TypeOK, SizeIs
  <2>2. serial_array' \in [Cells(serial_array_size) -> Jobs \cup {NoJob}]
    <3>1. \A c \in Cells(serial_array_size) :
            c \in Int /\ (c < serial_num' => c + 1 \in 1..serial_num')
      BY <1>1, <1>3, <1>6 DEF TypeOK, Cells
    <3>2. \A c \in Cells(serial_array_size) :
            (IF c < serial_num' THEN rest[c + 1] ELSE NoJob) \in Jobs \cup {NoJob}
      BY <1>7, <3>1
    <3> QED  BY <1>70, <3>2
  <2>3. serial_num' \in 0..serial_array_size /\ 0 \in Cells(serial_array_size)
    BY <1>1, <1>6 DEF TypeOK, Cells
  <2> QED  BY <2>1, <2>2, <2>3, <1>1, <1>2 DEF TypeOK
<1>9. \A i \in 1..serial_array_size :
        serial_array'[NextCell(i)] = IF i <= serial_num' THEN rest[i] ELSE NoJob
  <2>1. serial_num' \in Nat /\ serial_array_size \in Nat
    BY <1>1, <1>3, <1>6 DEF TypeOK
  <2>2. \A i \in 1..serial_array_size :
          /\ NextCell(i) = i - 1 /\ i - 1 \in Cells(serial_array_size)
          /\ i - 1 < serial_num' <=> i <= serial_num'
          /\ (i - 1) + 1 = i
    BY <1>2, <2>1 DEF NextCell, Wrap, Cells
  <2> HIDE DEF Of
  <2> QED  BY <1>70, <2>2
<1>10. Contiguous'
  <2>1. \A i \in 1..serial_array_size :
          serial_array'[NextCell(i)] # NoJob <=> i <= serial_num'
    <3>1. \A i \in 1..serial_array_size : i <= serial_num' => i \in 1..serial_num'
      BY <1>1, <1>3, <1>6 DEF TypeOK
    <3>2. \A i \in 1..serial_num' : rest[i] # NoJob
      BY <1>7
    <3> HIDE DEF Of, stay, gone
    <3> QED  BY <1>9, <3>1, <3>2
  <2> QED  BY <2>1, <1>2, <1>8, NextQueueIs
<1>11. Queue' = rest
  <2>1. \A i \in 1..serial_num' : i \in 1..serial_array_size /\ i <= serial_num'
    BY <1>1, <1>6 DEF TypeOK
  <2> QED  BY <1>7, <1>8, <1>9, <2>1, NextQueueIs
<1>12. rest = Fifo!Kept(Queue, f)
  <2>1. \A k \in 1..serial_num' : FromFirst[Nth(stay, k)] = Queue[Nth(stay, k)]
    BY <1>3, <1>4, <1>7
  <2>2. rest = Keep(Queue, stay)
    <3> HIDE DEF stay
    <3> QED  BY <1>6, <1>7, <2>1 DEF Keep
  <2>3. Keep(Queue, stay) = Fifo!Keep(Queue, stay)
    BY DEF Keep, Fifo!Keep, Nth, Fifo!Nth, Cardinality,
       Fifo!Cardinality
  <2>4. Fifo!Keep(Queue, stay) = Fifo!Kept(Queue, f)
    BY <1>3, <1>4 DEF Fifo!Kept
  <2> QED  BY <2>2, <2>3, <2>4
<1> QED  BY <1>8, <1>10, <1>11, <1>12 DEF IInv

(* The two memcpy(): cell c of the array that has grown is what was in     *)
(* this cell of the old one.                                               *)
OldCell(c) == IF c >= serial_array_index THEN c - serial_array_index
              ELSE c + serial_array_size - serial_array_index

(* add_serial_job() when the array is full: each job has one new place.    *)
LEMMA GrowStep ==
  ASSUME IInv, NEW j \in Jobs, AddAndGrow(j)
  PROVE  /\ IInv' /\ Len(Queue) \in FullLengths
         /\ \E q \in Fifo!Reordered(Queue) : Queue' = Append(q, j)
<1> USE SerialQueueAssumption
<1> DEFINE n == serial_array_size
           perm == [i \in 1..n |-> CHOOSE k \in 1..n : Cell(k) = OldCell(i - 1)]
           moved == [i \in 1..Len(Queue) |-> Queue[perm[i]]]
<1>1. TypeOK /\ Contiguous
  BY DEF IInv
<1>2. /\ n \in Nat \ {0} /\ serial_num = n /\ n < QueueMax
      /\ serial_array_index \in 0..n - 1
  BY <1>1 DEF AddAndGrow, TypeOK, Cells
<1>3. /\ serial_num' = n + 1 /\ serial_array_size' = n + GrowSize
      /\ serial_array_index' = 0
      /\ serial_array' = [Grown(serial_array, n, serial_array_index) EXCEPT ![n] = j]
  <2>1. Wrap(0 + serial_num, serial_array_size + GrowSize) = n
    BY <1>2 DEF Wrap
  <2> HIDE DEF n
  <2>2. /\ serial_num' = serial_num + 1
        /\ serial_array_size' = serial_array_size + GrowSize
        /\ serial_array_index' = 0
        /\ serial_array' =
             [Grown(serial_array, serial_array_size, serial_array_index) EXCEPT ![n] = j]
    BY <2>1 DEF AddAndGrow, Put
  <2> QED  BY <1>2, <2>2 DEF n
<1>4. /\ Queue \in Seq(Jobs) /\ Len(Queue) = n
      /\ \A i \in 1..n : Queue[i] = serial_array[Cell(i)]
  BY <1>2, QueueType
<1>5. \A c \in 0..n - 1 : OldCell(c) \in 0..n - 1
  BY <1>2 DEF OldCell
<1>6. \A i \in 1..n : perm[i] \in 1..n /\ Cell(perm[i]) = OldCell(i - 1)
  <2> TAKE i \in 1..n
  <2>1. OldCell(i - 1) \in Cells(n)
    BY <1>2, <1>5 DEF Cells
  <2>2. \E k \in 1..n : Cell(k) = OldCell(i - 1)
    BY <1>1, <2>1, CellBijective
  <2> QED  BY <2>2
<1>7. /\ Grown(serial_array, n, serial_array_index) \in
           [Cells(n + GrowSize) -> Jobs \cup {NoJob}]
      /\ \A c \in 0..n - 1 : /\ c \in Cells(n + GrowSize)
                             /\ Grown(serial_array, n, serial_array_index)[c]
                                  = serial_array[OldCell(c)]
      /\ \A c \in n..n + GrowSize - 1 :
           Grown(serial_array, n, serial_array_index)[c] = NoJob
  BY <1>1, <1>2 DEF Grown, OldCell, Cells, TypeOK
<1>8. TypeOK'
  <2>1. PICK k \in Nat : SizeIs(k)
    BY <1>1 DEF TypeOK
  <2>2. k < QueueMax
    <3>1. k * GrowSize >= k
      BY <2>1
    <3> QED  BY <1>2, <2>1, <3>1 DEF SizeIs
  <2>3. InitialSize + (k + 1) * GrowSize = n + GrowSize
    BY <2>1 DEF SizeIs
  <2>4. SizeIs(k + 1)'
    BY <1>3, <2>1, <2>2, <2>3 DEF SizeIs
  <2>5. serial_array' \in [Cells(n + GrowSize) -> Jobs \cup {NoJob}]
    BY <1>3, <1>7
  <2>6. 0 \in Cells(n + GrowSize) /\ n + 1 \in 0..n + GrowSize /\ n + GrowSize \in Nat
    BY <1>2 DEF Cells
  <2> QED  BY <1>3, <2>4, <2>5, <2>6 DEF TypeOK
<1>9. \A i \in 1..n + GrowSize :
        serial_array'[NextCell(i)] = IF i <= n THEN serial_array[OldCell(i - 1)]
                                     ELSE IF i = n + 1 THEN j ELSE NoJob
  <2> TAKE i \in 1..n + GrowSize
  <2>1. NextCell(i) = i - 1 /\ i - 1 \in Cells(n + GrowSize)
    BY <1>2, <1>3 DEF NextCell, Wrap, Cells
  <2>2. CASE i <= n
    <3>1. i - 1 \in 0..n - 1 /\ i - 1 # n
      BY <1>2, <2>2
    <3> QED  BY <1>3, <1>7, <2>1, <2>2, <3>1
  <2>3. CASE i = n + 1
    <3>1. i - 1 = n /\ ~(i <= n)
      BY <1>2, <2>3
    <3> QED  BY <1>3, <1>7, <2>1, <2>3, <3>1
  <2>4. CASE i > n + 1
    <3>1. i - 1 \in n..n + GrowSize - 1 /\ i - 1 # n /\ ~(i <= n) /\ i # n + 1
      BY <1>2, <2>4
    <3> QED  BY <1>3, <1>7, <2>1, <3>1
  <2> QED  BY <1>2, <2>2, <2>3, <2>4
<1>10. \A i \in 1..n : serial_array[OldCell(i - 1)] = Queue[perm[i]]
                       /\ Queue[perm[i]] \in Jobs
  BY <1>4, <1>6, ElementOfSeq
<1> HIDE DEF perm
<1>11. Contiguous'
  <2>1. \A i \in 1..n + GrowSize : serial_array'[NextCell(i)] # NoJob <=> i <= n + 1
    <3> TAKE i \in 1..n + GrowSize
    <3>1. CASE i <= n
      BY <1>2, <1>9, <1>10, <3>1
    <3>2. CASE ~(i <= n)
      BY <1>2, <1>9, <3>2
    <3> QED  BY <3>1, <3>2
  <2> QED  BY <2>1, <1>3, <1>8, NextQueueIs
<1>12. moved \in Seq(Jobs) /\ Len(moved) = n /\ \A i \in 1..n : moved[i] = Queue[perm[i]]
  BY <1>2, <1>4, <1>10
<1>13. moved \in Fifo!Reordered(Queue)
  <2>1. perm \in [1..n -> 1..n]
    BY <1>6 DEF perm
  <2>2. \A w \in 1..n : \E v \in 1..n : perm[v] = w
    <3> TAKE w \in 1..n
    <3> DEFINE c == Cell(w)
               v == IF c + serial_array_index < n THEN c + serial_array_index + 1
                    ELSE c + serial_array_index - n + 1
    <3>1. c \in 0..n - 1
      BY <1>1, CellType DEF Cells
    <3> HIDE DEF c
    <3>2. v \in 1..n /\ OldCell(v - 1) = c
      BY <1>2, <3>1 DEF OldCell
    <3>3. Cell(perm[v]) = Cell(w) /\ perm[v] \in 1..n
      BY <1>6, <3>2 DEF c
    <3> QED  BY <1>1, <3>2, <3>3, CellBijective
  <2>3. \A v, w \in 1..n : perm[v] = perm[w] => v = w
    <3>1. \A v, w \in 1..n : OldCell(v - 1) = OldCell(w - 1) => v = w
      BY <1>2 DEF OldCell
    <3> QED  BY <1>6, <3>1
  <2>4. perm \in Fifo!Bijection(1..Len(Queue), 1..Len(Queue))
    BY <1>4, <2>1, <2>2, <2>3
       DEF Fifo!Bijection, Fifo!Injection, Fifo!IsInjective, Fifo!Surjection
  <2> QED  BY <2>4 DEF Fifo!Reordered
<1> HIDE DEF moved
<1>14. Queue' = Append(moved, j)
  <2>1. \A i \in 1..n + 1 : i \in 1..n + GrowSize
    BY <1>2
  <2>2. \A i \in 1..n + 1 : serial_array'[NextCell(i)] = IF i = n + 1 THEN j ELSE moved[i]
    <3> TAKE i \in 1..n + 1
    <3>1. CASE i = n + 1
      BY <1>2, <1>9, <2>1, <3>1
    <3>2. CASE i # n + 1
      <4>1. i \in 1..n /\ i <= n
        BY <1>2, <3>2
      <4> QED  BY <1>9, <1>10, <1>12, <2>1, <3>2, <4>1
    <3> QED  BY <3>1, <3>2
  <2>3. Queue' = [i \in 1..n + 1 |-> IF i = n + 1 THEN j ELSE moved[i]]
    BY <1>3, <1>8, <2>2, NextQueueIs
  <2> QED  BY <1>12, <2>3, AppendIs
<1>15. Len(Queue) \in FullLengths
  BY <1>1, <1>4 DEF TypeOK, SizeIs, FullLengths
<1> QED  BY <1>8, <1>11, <1>13, <1>14, <1>15 DEF IInv

-----------------------------------------------------------------------------
(* The theorems.                                                           *)

LEMMA IInvNext ==
  ASSUME IInv, [Next]_vars
  PROVE  IInv' /\ [Fifo!Next]_Queue
<1>1. CASE UNCHANGED vars
  BY <1>1 DEF vars, IInv, TypeOK, SizeIs, Contiguous, FromFirst, Queue
<1>2. ASSUME NEW j \in Jobs, AddInPlace(j)
      PROVE  IInv' /\ [Fifo!Next]_Queue
  BY <1>2, AddStep DEF Fifo!Next, Fifo!Add
<1>3. ASSUME NEW j \in Jobs, AddAndGrow(j)
      PROVE  IInv' /\ [Fifo!Next]_Queue
  BY <1>3, GrowStep DEF Fifo!Next, Fifo!Add
<1>4. CASE Run
  BY <1>4, RunStep DEF Fifo!Next, Fifo!Run
<1>5. ASSUME NEW f \in Files, Delete(f)
      PROVE  IInv' /\ [Fifo!Next]_Queue
  BY <1>5, DeleteStep DEF Fifo!Next, Fifo!Delete
<1> QED  BY <1>1, <1>2, <1>3, <1>4, <1>5 DEF Next

(* The jobs are in the serial_num cells from serial_array_index on, and in *)
(* no other: run_serial_job() never takes an empty cell.                   *)
THEOREM JobsAreContiguous == Spec => []Contiguous
<1>1. IInv /\ [Next]_vars => IInv'
  BY IInvNext
<1>2. IInv => Contiguous
  BY DEF IInv
<1> QED  BY <1>1, <1>2, InitStep, PTL DEF Spec

(* The array implements the queue: for all lines, files and sizes, each    *)
(* step of the array is one of the queue, whose order only an addition to  *)
(* a full array may change.                                                *)
THEOREM ArrayIsQueue == Spec => FifoUnlessFull
<1>1. IInv /\ [Next]_vars => IInv' /\ [Fifo!Next]_Queue
  BY IInvNext
<1>2. Init => IInv /\ Fifo!Init
  BY InitStep DEF Fifo!Init
<1> QED  BY <1>1, <1>2, PTL DEF Spec, FifoUnlessFull, Fifo!Spec

=============================================================================
