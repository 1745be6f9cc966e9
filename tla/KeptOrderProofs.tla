--------------------------- MODULE KeptOrderProofs --------------------------
(***************************************************************************)
(* What Keep leaves of a sequence, and the facts about numbers and sizes   *)
(* that it rests on.                                                       *)
(***************************************************************************)
EXTENDS KeptOrder, FiniteSetTheorems, SequenceTheorems, WellFoundedInduction,
        TLAPS

(* A function that is one to one from S onto T: they are of the same size. *)
LEMMA SameSize ==
  ASSUME NEW S, NEW T, IsFiniteSet(S), NEW f \in [S -> T],
         \A x, y \in S : f[x] = f[y] => x = y,
         \A z \in T : \E x \in S : f[x] = z
  PROVE  Cardinality(T) = Cardinality(S)
<1>1. f \in Bijection(S, T)
  BY DEF Bijection, Injection, IsInjective, Surjection
<1> QED  BY <1>1, FS_Bijection DEF ExistsBijection

(* A nonempty set of natural numbers has a least element.                  *)
LEMMA LeastNumber ==
  ASSUME NEW S \in SUBSET Nat, S # {}
  PROVE  \E x \in S : \A y \in S : x <= y
<1> DEFINE R == OpToRel(<, Nat)
<1>1. IsWellFoundedOn(R, Nat)
  BY NatLessThanWellFounded
<1>2. \E x \in S : \A y \in S : ~ (<<y, x>> \in R)
  <2> HIDE DEF R
  <2> QED  BY <1>1, WFMin
<1>3. \A x, y \in Nat : <<y, x>> \in R <=> y < x
  BY DEF OpToRel
<1>4. PICK x \in S : \A y \in S : ~ (<<y, x>> \in R)
  BY <1>2
<1> HIDE DEF R
<1>5. \A y \in S : ~ (y < x)
  BY <1>3, <1>4
<1> QED  BY <1>5

(* The elements of a finite set of numbers below one of them make an       *)
(* initial segment; the smallest number that is not the rank of an element *)
(* would be the rank of the least element above the segment before it.     *)
LEMMA NthExists ==
  ASSUME NEW K \in SUBSET Nat, IsFiniteSet(K), NEW k \in 1..Cardinality(K)
  PROVE  \E i \in K : Cardinality({j \in K : j <= i}) = k
<1> DEFINE Rank(i) == Cardinality({j \in K : j <= i})
           Bad == {n \in 1..Cardinality(K) : \A i \in K : Rank(i) # n}
<1>0. Cardinality(K) \in Nat
  BY FS_CardinalityType
<1> SUFFICES ASSUME Bad # {} PROVE FALSE
  OBVIOUS
<1>1. PICK n \in Bad : \A m \in Bad : n <= m
  <2>1. Bad \in SUBSET Nat  BY <1>0
  <2> HIDE DEF Bad
  <2> QED  BY <2>1, LeastNumber
<1>2. n \in 1..Cardinality(K) /\ \A i \in K : Rank(i) # n
  OBVIOUS
<1>3. \E below \in SUBSET K :
        /\ Cardinality(below) = n - 1
        /\ \A x \in below, y \in K \ below : x < y
  <2>1. CASE n = 1
    <3> WITNESS {} \in SUBSET K
    <3> QED  BY <2>1, FS_EmptySet
  <2>2. CASE n # 1
    <3>1. n - 1 \in 1..Cardinality(K) /\ n - 1 \notin Bad
      BY <2>2, <1>0, <1>1, <1>2
    <3>2. PICK i \in K : Rank(i) = n - 1
      BY <3>1
    <3> WITNESS {j \in K : j <= i} \in SUBSET K
    <3> QED  BY <3>2
  <2> QED  BY <2>1, <2>2
<1>4. PICK below \in SUBSET K :
        /\ Cardinality(below) = n - 1
        /\ \A x \in below, y \in K \ below : x < y
  BY <1>3
<1>5. K \ below # {}
  <2>1. SUFFICES ASSUME K \ below = {} PROVE FALSE
    OBVIOUS
  <2>2. below = K
    BY <2>1
  <2>3. Cardinality(K) = n - 1
    BY <2>2, <1>4
  <2> QED  BY <2>3, <1>2, <1>0
<1>6. PICK i \in K \ below : \A y \in K \ below : i <= y
  <2>1. K \ below \in SUBSET Nat  OBVIOUS
  <2> QED  BY <2>1, <1>5, LeastNumber
<1>7. {j \in K : j <= i} = below \cup {i}
  <2>1. i \in Nat /\ \A j \in K : j \in Nat
    BY <1>6
  <2>2. \A j \in below : j <= i
    BY <2>1, <1>4, <1>6
  <2>3. \A j \in K \ below : j <= i => j = i
    BY <2>1, <1>6
  <2> QED  BY <2>1, <2>2, <2>3, <1>6
<1>8. IsFiniteSet(below)
  BY FS_Subset
<1>9. Rank(i) = n
  <2>1. Cardinality(below \cup {i}) = Cardinality(below) + 1
    BY <1>8, <1>6, FS_AddElement
  <2> QED  BY <2>1, <1>7, <1>4, <1>2, <1>0
<1> QED  BY <1>9, <1>2, <1>6

(* Two sequences as functions of the position.                             *)
LEMMA AppendIs ==
  ASSUME NEW S, NEW q \in Seq(S), NEW e \in S, NEW r,
         r = [i \in 1..Len(q) + 1 |-> IF i = Len(q) + 1 THEN e ELSE q[i]]
  PROVE  r = Append(q, e)
<1>1. Len(q) \in Nat /\ \A i \in 1..Len(q) : q[i] \in S
  BY LenProperties, ElementOfSeq
<1>2. /\ Append(q, e) \in Seq(S) /\ Len(Append(q, e)) = Len(q) + 1
      /\ \A i \in 1..Len(q) + 1 :
           Append(q, e)[i] = IF i = Len(q) + 1 THEN e ELSE q[i]
  BY <1>1
<1>3. r \in Seq(S) /\ Len(r) = Len(q) + 1
  BY <1>1
<1>4. \A i \in 1..Len(r) : r[i] = Append(q, e)[i]
  BY <1>2, <1>3
<1> QED  BY <1>2, <1>3, <1>4, SeqEqual

LEMMA TailIs ==
  ASSUME NEW S, NEW q \in Seq(S), q # <<>>, NEW r,
         r = [i \in 1..Len(q) - 1 |-> q[i + 1]]
  PROVE  r = Tail(q)
<1>1. Len(q) \in Nat /\ Len(q) # 0 /\ \A i \in 1..Len(q) : q[i] \in S
  BY LenProperties, ElementOfSeq, EmptySeq
<1>2. /\ Tail(q) \in Seq(S) /\ Len(Tail(q)) = Len(q) - 1
      /\ \A i \in 1..Len(Tail(q)) : Tail(q)[i] = q[i + 1]
  BY HeadTailProperties
<1>3. r \in Seq(S) /\ Len(r) = Len(q) - 1
  <2>1. Len(q) - 1 \in Nat /\ \A i \in 1..Len(q) - 1 : q[i + 1] \in S
    BY <1>1
  <2> QED  BY <2>1
<1>4. \A i \in 1..Len(r) : r[i] = Tail(q)[i]
  BY <1>2, <1>3
<1> QED  BY <1>2, <1>3, <1>4, SeqEqual

(* The k-th element of a finite set of numbers, and that each element is   *)
(* the k-th for one k only.                                                *)
LEMMA NthProperties ==
  ASSUME NEW K \in SUBSET Nat, IsFiniteSet(K)
  PROVE  /\ \A k \in 1..Cardinality(K) :
              Nth(K, k) \in K /\ Cardinality({j \in K : j <= Nth(K, k)}) = k
         /\ \A i \in K : \E k \in 1..Cardinality(K) : Nth(K, k) = i
<1> DEFINE Below(i) == {j \in K : j <= i}
           Rank(i) == Cardinality(Below(i))
<1>0. Cardinality(K) \in Nat
  BY FS_CardinalityType
<1>1. ASSUME NEW k \in 1..Cardinality(K)
      PROVE  Nth(K, k) \in K /\ Rank(Nth(K, k)) = k
  <2>1. \E i \in K : Cardinality({j \in K : j <= i}) = k
    BY NthExists
  <2> QED  BY <2>1 DEF Nth
<1>2. \A i \in K : IsFiniteSet(Below(i)) /\ Rank(i) \in Nat
                     /\ Rank(i) <= Cardinality(K)
  <2> TAKE i \in K
  <2>1. Below(i) \in SUBSET K
    OBVIOUS
  <2> HIDE DEF Below
  <2>2. IsFiniteSet(Below(i)) /\ Cardinality(Below(i)) <= Cardinality(K)
    BY <2>1, FS_Subset
  <2>3. Cardinality(Below(i)) \in Nat
    BY <2>2, FS_CardinalityType
  <2> QED  BY <2>2, <2>3
<1>3. ASSUME NEW i \in K, NEW j \in K, i < j
      PROVE  Rank(i) < Rank(j)
  <2>1. IsFiniteSet(Below(i)) /\ IsFiniteSet(Below(j))
    BY <1>2
  <2>2. Below(i) \in SUBSET (Below(j) \ {j}) /\ j \in Below(j)
    <3>1. \A x \in K : x \in Nat
      OBVIOUS
    <3>2. \A x, y, z \in Nat : x <= y /\ y < z => x <= z /\ x # z
      OBVIOUS
    <3>3. \A x \in K : x <= i => x <= j /\ x # j
      BY <3>1, <3>2, <1>3
    <3>4. j <= j
      BY <3>1
    <3> QED  BY <3>3, <3>4
  <2>3. IsFiniteSet(Below(j) \ {j}) /\ Cardinality(Below(j) \ {j}) = Rank(j) - 1
    BY <2>1, <2>2, FS_RemoveElement
  <2>4. Rank(i) <= Cardinality(Below(j) \ {j})
    BY <2>2, <2>3, FS_Subset
  <2> QED  BY <2>3, <2>4, <1>2
<1>4. \A i \in K : Rank(i) \in 1..Cardinality(K)
  <2> TAKE i \in K
  <2>1. Below(i) # {}
    OBVIOUS
  <2>2. Rank(i) # 0
    BY <2>1, <1>2, FS_EmptySet
  <2> QED  BY <2>2, <1>2
<1>5. \A i \in K : Nth(K, Rank(i)) = i
  <2> TAKE i \in K
  <2>1. Nth(K, Rank(i)) \in K /\ Rank(Nth(K, Rank(i))) = Rank(i)
    BY <1>1, <1>4
  <2>2. i \in Nat /\ Nth(K, Rank(i)) \in Nat /\ Rank(i) \in Nat
    BY <2>1, <1>2
  <2>3. ~ (i < Nth(K, Rank(i)))
    BY <2>1, <2>2, <1>3
  <2>4. ~ (Nth(K, Rank(i)) < i)
    BY <2>1, <2>2, <1>3
  <2> QED  BY <2>2, <2>3, <2>4
<1> QED  BY <1>1, <1>4, <1>5

(* The elements come in increasing order.                                  *)
LEMMA NthIncreases ==
  ASSUME NEW K \in SUBSET Nat, IsFiniteSet(K),
         NEW j \in 1..Cardinality(K), NEW k \in 1..Cardinality(K), j < k
  PROVE  Nth(K, j) < Nth(K, k)
<1>0. Cardinality(K) \in Nat
  BY FS_CardinalityType
<1>1. /\ Nth(K, j) \in K /\ Cardinality({i \in K : i <= Nth(K, j)}) = j
      /\ Nth(K, k) \in K /\ Cardinality({i \in K : i <= Nth(K, k)}) = k
  BY NthProperties
<1>2. Nth(K, j) \in Nat /\ Nth(K, k) \in Nat
  BY <1>1
<1> SUFFICES ASSUME Nth(K, k) <= Nth(K, j) PROVE FALSE
  BY <1>2
<1> DEFINE A == {i \in K : i <= Nth(K, k)}
           B == {i \in K : i <= Nth(K, j)}
<1>3. \A i \in K : i <= Nth(K, k) => i <= Nth(K, j)
  <2>1. \A i \in K : i \in Nat
    OBVIOUS
  <2>2. \A x, y, z \in Nat : x <= y /\ y <= z => x <= z
    OBVIOUS
  <2> QED  BY <1>2, <2>1, <2>2
<1>4. A \in SUBSET B
  BY <1>3, Zenon
<1>5. IsFiniteSet(B) /\ Cardinality(A) \in Nat /\ Cardinality(B) \in Nat
  <2>1. A \in SUBSET K /\ B \in SUBSET K
    OBVIOUS
  <2> HIDE DEF A, B
  <2> QED  BY <2>1, FS_Subset, FS_CardinalityType
<1> HIDE DEF A, B
<1>6. Cardinality(A) <= Cardinality(B)
  BY <1>4, <1>5, FS_Subset
<1>7. Cardinality(A) = k /\ Cardinality(B) = j
  BY <1>1 DEF A, B
<1> QED  BY <1>0, <1>6, <1>7

(* What is kept of a sequence is a sequence.                               *)
LEMMA KeepType ==
  ASSUME NEW S, NEW q, NEW n \in Nat, NEW K \in SUBSET (1..n),
         \A i \in K : q[i] \in S
  PROVE  /\ Keep(q, K) \in Seq(S)
         /\ Len(Keep(q, K)) = Cardinality(K) /\ Cardinality(K) \in Nat
<1>1. K \in SUBSET Nat /\ IsFiniteSet(K) /\ Cardinality(K) \in Nat
  <2>1. IsFiniteSet(1..n)
    BY FS_Interval
  <2>2. IsFiniteSet(K)
    BY <2>1, FS_Subset
  <2>3. K \in SUBSET Nat
    OBVIOUS
  <2> QED  BY <2>2, <2>3, FS_CardinalityType
<1>2. \A k \in 1..Cardinality(K) : Nth(K, k) \in K
  BY <1>1, NthProperties
<1>3. Keep(q, K) \in [1..Cardinality(K) -> S]
  BY <1>2 DEF Keep
<1>4. Keep(q, K) \in Seq(S)
  BY <1>1, <1>3, SeqDef
<1>5. Len(Keep(q, K)) = Cardinality(K)
  BY <1>1 DEF Keep
<1> QED  BY <1>1, <1>4, <1>5

=============================================================================
