--------------------------- MODULE ScheduleProofs ---------------------------
(***************************************************************************)
(* Three theorems about Schedule: queue_base is sorted and has every line  *)
(* once, the daemon wakes up in time, and an @-line counts uptime.         *)
(*                                                                         *)
(* What set_next_exe() finds for an &-line or a %-line is a walk through a *)
(* calendar, defined by recursion.  That it is a number, at every time, is *)
(* the hypothesis of the theorems, and all that they need to know of it.   *)
(***************************************************************************)
EXTENDS Schedule, KeptOrderProofs

TimesAreNumbers == \A l \in Lines : Td(l) => line[l].nextexe \in Int

AllNumbers == \A l \in Lines : line[l].nextexe \in Int

-----------------------------------------------------------------------------
(* Least and greatest of a few numbers.                                    *)

LEMMA MinIs ==
  ASSUME NEW S \in SUBSET Nat, S # {}
  PROVE  Min(S) \in S /\ \A x \in S : Min(S) <= x
BY LeastNumber DEF Min

LEMMA OfTwo ==
  ASSUME NEW a \in Int, NEW b \in Int
  PROVE  /\ Max({a, b}) = IF a >= b THEN a ELSE b
         /\ Min({a, b}) = IF a <= b THEN a ELSE b
<1>1. \E x \in {a, b} : \A y \in {a, b} : x >= y
  OBVIOUS
<1>2. \E x \in {a, b} : \A y \in {a, b} : x <= y
  OBVIOUS
<1>3. Max({a, b}) \in {a, b} /\ \A y \in {a, b} : Max({a, b}) >= y
  BY <1>1 DEF Max
<1>4. Min({a, b}) \in {a, b} /\ \A y \in {a, b} : Min({a, b}) <= y
  BY <1>2 DEF Min
<1> QED  BY <1>3, <1>4

-----------------------------------------------------------------------------
(* Sequences of lines.                                                     *)

Once(q) == \A i, j \in 1..Len(q) : q[i] = q[j] => i = j

InOrder(q, s) ==
  \A i, j \in 1..Len(q) : i < j => s[q[i]].nextexe <= s[q[j]].nextexe

LEMMA ToSetIs ==
  ASSUME NEW S, NEW q \in Seq(S)
  PROVE  /\ Len(q) \in Nat /\ \A i \in 1..Len(q) : q[i] \in S /\ q[i] \in ToSet(q)
         /\ ToSet(q) \subseteq S
         /\ \A x \in ToSet(q) : \E i \in 1..Len(q) : q[i] = x
BY LenProperties, ElementOfSeq DEF ToSet

LEMMA HeadOf ==
  ASSUME NEW S, NEW q \in Seq(S), q # <<>>
  PROVE  Head(q) = q[1] /\ 1 \in 1..Len(q) /\ Head(q) \in S /\ Head(q) \in ToSet(q)
<1>1. Len(q) \in Nat /\ Len(q) # 0 /\ Head(q) = q[1]
  BY LenProperties, EmptySeq, HeadTailProperties
<1> QED  BY <1>1, ToSetIs

(* The lines of a set, each once.                                          *)
LEMMA SetToSeqIs ==
  ASSUME NEW S, IsFiniteSet(S)
  PROVE  SetToSeq(S) \in Seq(S) /\ Once(SetToSeq(S)) /\ ToSet(SetToSeq(S)) = S
<1> DEFINE n == Cardinality(S)
<1>0. n \in Nat
  BY FS_CardinalityType
<1>1. ExistsBijection(1..n, S)
  BY FS_CardinalityType
<1>2. PICK g \in Bijection(1..n, S) : TRUE
  BY <1>1 DEF ExistsBijection
<1>3. g \in [1..n -> S] /\ IsInjective(g)
  BY <1>2 DEF Bijection, Injection
<1> DEFINE f == SetToSeq(S)
<1>4. f \in [1..n -> S] /\ IsInjective(f)
  BY <1>3 DEF SetToSeq
<1> HIDE DEF f
<1>5. f \in Seq(S) /\ Len(f) = n
  BY <1>0, <1>4
<1>6. Once(f)
  BY <1>4, <1>5 DEF Once, IsInjective
<1>7. f \in Injection(1..n, S)
  BY <1>4 DEF Injection
<1>8. f \in Surjection(1..n, S)
  <2>1. IsFiniteSet(1..n) /\ Cardinality(1..n) = n
    BY <1>0, FS_Interval
  <2> QED  BY <1>7, <2>1, FS_Injection
<1>9. ToSet(f) = S
  BY <1>4, <1>8 DEF Surjection, ToSet
<1> QED  BY <1>5, <1>6, <1>9 DEF f

-----------------------------------------------------------------------------
(* queue_base: a line is taken out, and put in its place.                  *)

LEMMA KeepIs ==
  ASSUME NEW S, NEW q \in Seq(S), NEW K \in SUBSET (1..Len(q))
  PROVE  LET r == Keep(q, K)
         IN  /\ r \in Seq(S) /\ Len(r) = Cardinality(K) /\ IsFiniteSet(K)
             /\ \A k \in 1..Len(r) : Nth(K, k) \in K /\ r[k] = q[Nth(K, k)]
             /\ \A j, k \in 1..Len(r) : j < k => Nth(K, j) < Nth(K, k)
             /\ \A i \in K : \E k \in 1..Len(r) : r[k] = q[i]
<1>1. Len(q) \in Nat /\ \A i \in 1..Len(q) : q[i] \in S
  BY LenProperties, ElementOfSeq
<1>2. IsFiniteSet(K) /\ K \in SUBSET Nat
  <2>1. IsFiniteSet(1..Len(q))
    BY <1>1, FS_Interval
  <2>2. IsFiniteSet(K)
    BY <2>1, FS_Subset
  <2>3. 1..Len(q) \subseteq Nat
    BY <1>1
  <2> QED  BY <2>2, <2>3
<1>3. Keep(q, K) \in Seq(S) /\ Len(Keep(q, K)) = Cardinality(K) /\ Cardinality(K) \in Nat
  BY <1>1, KeepType
<1>4. \A k \in 1..Cardinality(K) : Keep(q, K)[k] = q[Nth(K, k)]
  BY DEF Keep
<1>5. \A k \in 1..Cardinality(K) : Nth(K, k) \in K
  BY <1>2, NthProperties
<1>6. \A i \in K : \E k \in 1..Cardinality(K) : Nth(K, k) = i
  BY <1>2, NthProperties
<1>7. \A j, k \in 1..Cardinality(K) : j < k => Nth(K, j) < Nth(K, k)
  BY <1>2, NthIncreases
<1> QED  BY <1>2, <1>3, <1>4, <1>5, <1>6, <1>7

LEMMA RemoveIs ==
  ASSUME NEW q \in Seq(Lines), Once(q), NEW l, NEW s,
         \A i, j \in 1..Len(q) :
           i < j /\ q[i] # l /\ q[j] # l => s[q[i]].nextexe <= s[q[j]].nextexe
  PROVE  LET r == job_queue_remove(q, l)
         IN  /\ r \in Seq(Lines) /\ Once(r) /\ InOrder(r, s)
             /\ ToSet(r) = ToSet(q) \ {l}
             /\ Contains(q, l) => Len(r) + 1 = Len(q)
<1> DEFINE K == {i \in 1..Len(q) : q[i] # l}
           r == Keep(q, K)
<1>0. job_queue_remove(q, l) = r
  BY DEF job_queue_remove
<1>1. /\ r \in Seq(Lines) /\ Len(r) = Cardinality(K) /\ IsFiniteSet(K)
      /\ \A k \in 1..Len(r) : Nth(K, k) \in K /\ r[k] = q[Nth(K, k)]
      /\ \A j, k \in 1..Len(r) : j < k => Nth(K, j) < Nth(K, k)
      /\ \A i \in K : \E k \in 1..Len(r) : r[k] = q[i]
  <2>1. K \in SUBSET (1..Len(q))
    OBVIOUS
  <2> HIDE DEF K
  <2> QED  BY <2>1, KeepIs
<1>2. Len(r) \in Nat /\ Len(q) \in Nat /\ \A i \in K : i \in Nat
  BY <1>1, LenProperties
<1>3. \A i \in K : i \in 1..Len(q) /\ q[i] # l
  OBVIOUS
<1>4. \A i \in 1..Len(q) : q[i] # l => i \in K
  OBVIOUS
<1>5. Contains(q, l) => Len(r) + 1 = Len(q)
  <2> SUFFICES ASSUME Contains(q, l) PROVE Len(r) + 1 = Len(q)
    OBVIOUS
  <2>1. PICK i \in 1..Len(q) : q[i] = l
    BY DEF Contains
  <2>2. K = (1..Len(q)) \ {i}
    BY <2>1 DEF Once
  <2> HIDE DEF K
  <2>3. IsFiniteSet(1..Len(q)) /\ Cardinality(1..Len(q)) = Len(q)
    BY <1>2, FS_Interval
  <2>4. Cardinality(K) = Len(q) - 1
    BY <2>1, <2>2, <2>3, FS_RemoveElement
  <2> QED  BY <2>4, <1>1, <1>2
<1> HIDE DEF K, r
<1>6. Once(r)
  <2> SUFFICES ASSUME NEW j \in 1..Len(r), NEW k \in 1..Len(r), r[j] = r[k], j # k
               PROVE  FALSE
    BY DEF Once
  <2>1. Nth(K, j) = Nth(K, k)
    <3>1. Nth(K, j) \in K /\ Nth(K, k) \in K /\ q[Nth(K, j)] = q[Nth(K, k)]
      BY <1>1
    <3>2. Nth(K, j) \in 1..Len(q) /\ Nth(K, k) \in 1..Len(q)
      BY <3>1, <1>3
    <3> QED  BY <3>1, <3>2 DEF Once
  <2>2. Nth(K, j) \in Nat
    BY <1>1, <1>2
  <2>3. j < k \/ k < j
    BY <1>2
  <2>4. CASE j < k
    BY <2>1, <2>2, <2>4, <1>1
  <2>5. CASE k < j
    BY <2>1, <2>2, <2>5, <1>1
  <2> QED  BY <2>3, <2>4, <2>5
<1>7. InOrder(r, s)
  <2> SUFFICES ASSUME NEW j \in 1..Len(r), NEW k \in 1..Len(r), j < k
               PROVE  s[r[j]].nextexe <= s[r[k]].nextexe
    BY DEF InOrder
  <2>1. /\ Nth(K, j) \in 1..Len(q) /\ Nth(K, k) \in 1..Len(q) /\ Nth(K, j) < Nth(K, k)
        /\ r[j] = q[Nth(K, j)] /\ r[k] = q[Nth(K, k)] /\ r[j] # l /\ r[k] # l
    BY <1>1, <1>3
  <2> QED  BY <2>1
<1>8. ToSet(r) = ToSet(q) \ {l}
  <2>1. ASSUME NEW x \in ToSet(r)
        PROVE  x \in ToSet(q) \ {l}
    <3>1. PICK k \in 1..Len(r) : r[k] = x
      BY <1>1, ToSetIs
    <3>2. Nth(K, k) \in 1..Len(q) /\ x = q[Nth(K, k)] /\ x # l
      BY <3>1, <1>1, <1>3
    <3> QED  BY <3>2, ToSetIs
  <2>2. ASSUME NEW x \in ToSet(q) \ {l}
        PROVE  x \in ToSet(r)
    <3>1. PICK i \in 1..Len(q) : q[i] = x
      BY ToSetIs
    <3>2. PICK k \in 1..Len(r) : r[k] = q[i]
      BY <3>1, <1>1, <1>4
    <3> QED  BY <3>1, <3>2, <1>1, ToSetIs
  <2> QED  BY <2>1, <2>2
<1> QED  BY <1>0, <1>1, <1>5, <1>6, <1>7, <1>8

LEMMA InsertAtIs ==
  ASSUME NEW S, NEW q \in Seq(S), NEW l \in S, NEW pos \in 1..Len(q) + 1
  PROVE  LET r == InsertAt(q, pos, l)
         IN  /\ r \in Seq(S) /\ Len(r) = Len(q) + 1
             /\ \A i \in 1..Len(q) + 1 :
                  r[i] = IF i < pos THEN q[i] ELSE IF i = pos THEN l ELSE q[i - 1]
<1> DEFINE a == SubSeq(q, 1, pos - 1)
           e == <<l>>
           b == SubSeq(q, pos, Len(q))
<1>0. Len(q) \in Nat /\ pos \in Nat /\ \A i \in 1..Len(q) : q[i] \in S
  BY LenProperties, ElementOfSeq
<1>1. a \in Seq(S) /\ Len(a) = pos - 1 /\ \A i \in 1..pos - 1 : a[i] = q[i]
  <2>1. \A i \in 1..pos - 1 : q[i] \in S
    BY <1>0
  <2>2. /\ SubSeq(q, 1, pos - 1) \in Seq(S)
        /\ Len(SubSeq(q, 1, pos - 1)) = IF 1 <= pos - 1 THEN (pos - 1) - 1 + 1 ELSE 0
        /\ \A i \in 1..(pos - 1) - 1 + 1 : SubSeq(q, 1, pos - 1)[i] = q[1 + i - 1]
    BY <1>0, <2>1, SubSeqProperties
  <2> QED  BY <2>2, <1>0
<1>2. b \in Seq(S) /\ Len(b) = Len(q) - pos + 1
      /\ \A i \in 1..Len(q) - pos + 1 : b[i] = q[pos + i - 1]
  <2>1. \A i \in pos..Len(q) : q[i] \in S
    BY <1>0
  <2>2. /\ SubSeq(q, pos, Len(q)) \in Seq(S)
        /\ Len(SubSeq(q, pos, Len(q))) = IF pos <= Len(q) THEN Len(q) - pos + 1 ELSE 0
        /\ \A i \in 1..Len(q) - pos + 1 : SubSeq(q, pos, Len(q))[i] = q[pos + i - 1]
    BY <1>0, <2>1, SubSeqProperties
  <2> QED  BY <2>2, <1>0
<1>3. e \in Seq(S) /\ Len(e) = 1 /\ e[1] = l
  OBVIOUS
<1>4. InsertAt(q, pos, l) = (a \o e) \o b
  BY DEF InsertAt
<1> HIDE DEF a, b, e
<1> DEFINE ae == a \o e
<1>5. /\ ae \in Seq(S) /\ Len(ae) = pos
      /\ \A i \in 1..pos : ae[i] = IF i < pos THEN q[i] ELSE l
  <2>1. /\ ae \in Seq(S) /\ Len(ae) = Len(a) + Len(e)
        /\ \A i \in 1..Len(a) + Len(e) : ae[i] = IF i <= Len(a) THEN a[i] ELSE e[i - Len(a)]
    BY <1>1, <1>3, ConcatProperties
  <2>2. Len(ae) = pos
    BY <2>1, <1>0, <1>1, <1>3
  <2>3. ASSUME NEW i \in 1..pos
        PROVE  ae[i] = IF i < pos THEN q[i] ELSE l
    <3>1. CASE i < pos
      <4>1. i \in 1..Len(a) + Len(e) /\ i <= Len(a) /\ i \in 1..pos - 1
        BY <3>1, <1>0, <1>1, <1>3
      <4> QED  BY <4>1, <3>1, <2>1, <1>1
    <3>2. CASE i = pos
      <4>1. i \in 1..Len(a) + Len(e) /\ ~(i <= Len(a)) /\ i - Len(a) = 1
        BY <3>2, <1>0, <1>1, <1>3
      <4> QED  BY <4>1, <3>2, <2>1, <1>0, <1>3
    <3>3. i < pos \/ i = pos
      BY <1>0
    <3> QED  BY <3>1, <3>2, <3>3
  <2> QED  BY <2>1, <2>2, <2>3
<1> HIDE DEF ae
<1>6. /\ ae \o b \in Seq(S) /\ Len(ae \o b) = Len(ae) + Len(b)
      /\ \A i \in 1..Len(ae) + Len(b) :
           (ae \o b)[i] = IF i <= Len(ae) THEN ae[i] ELSE b[i - Len(ae)]
  BY <1>2, <1>5, ConcatProperties
<1>7. Len(ae) + Len(b) = Len(q) + 1
  BY <1>0, <1>2, <1>5
<1>8. ASSUME NEW i \in 1..Len(q) + 1
      PROVE  (ae \o b)[i] = IF i < pos THEN q[i] ELSE IF i = pos THEN l ELSE q[i - 1]
  <2>1. CASE i <= pos
    BY <2>1, <1>0, <1>5, <1>6, <1>7
  <2>2. CASE i > pos
    <3>1. ~(i <= Len(ae)) /\ i - pos \in 1..Len(q) - pos + 1 /\ pos + (i - pos) - 1 = i - 1
      BY <2>2, <1>0, <1>5
    <3>2. b[i - pos] = q[i - 1]
      BY <3>1, <1>2
    <3> QED  BY <2>2, <3>1, <3>2, <1>0, <1>5, <1>6, <1>7
  <2>3. i <= pos \/ i > pos
    BY <1>0
  <2> QED  BY <2>1, <2>2, <2>3
<1> QED  BY <1>4, <1>6, <1>7, <1>8 DEF ae

(* insert_nextexe() looks for the place of a line from the one it had, or  *)
(* from the beginning: in both cases it finds the last one that will do.   *)
LEMMA InsertKeeps ==
  ASSUME NEW q \in Seq(Lines), Once(q), NEW l \in Lines, NEW s,
         \A m \in Lines : s[m].nextexe \in Int,
         \A i, j \in 1..Len(q) :
           i < j /\ q[i] # l /\ q[j] # l => s[q[i]].nextexe <= s[q[j]].nextexe
  PROVE  LET r == insert_nextexe(q, s, l)
         IN  /\ r \in Seq(Lines) /\ Once(r) /\ InOrder(r, s)
             /\ ToSet(r) = ToSet(q) \cup {l}
<1> DEFINE rest == job_queue_remove(q, l)
           At(m) == Min({i \in 1..Len(m) : m[i] = l})
           prev == IF Contains(q, l) THEN At(q) - 1 ELSE 0
           from == IF prev > 0 /\ s[l].nextexe >= s[rest[prev]].nextexe THEN prev ELSE 1
           Later(f) == {Len(rest) + 1} \cup
                       {i \in f..Len(rest) : s[l].nextexe < s[rest[i]].nextexe}
           pos == Min(Later(from))
           r == InsertAt(rest, pos, l)
<1>1. CASE q = <<>>
  <2>1. insert_nextexe(q, s, l) = <<l>>
    BY <1>1 DEF insert_nextexe
  <2>2. <<l>> \in Seq(Lines) /\ Len(<<l>>) = 1 /\ ToSet(<<l>>) = {l} /\ ToSet(q) = {}
    BY <1>1 DEF ToSet
  <2> QED  BY <2>1, <2>2 DEF Once, InOrder
<1>2. CASE q # <<>>
  <2>1. insert_nextexe(q, s, l) = r
    BY <1>2 DEF insert_nextexe
  <2>2. /\ rest \in Seq(Lines) /\ Once(rest) /\ InOrder(rest, s)
        /\ ToSet(rest) = ToSet(q) \ {l}
        /\ Contains(q, l) => Len(rest) + 1 = Len(q)
    BY RemoveIs
  <2>3. Len(rest) \in Nat /\ Len(q) \in Nat /\ \A i \in 1..Len(rest) : rest[i] \in Lines
    BY <2>2, ToSetIs
  <2>4. prev \in 0..Len(rest)
    <3> SUFFICES ASSUME Contains(q, l) PROVE At(q) \in 1..Len(q)
      BY <2>2, <2>3
    <3> DEFINE I == {i \in 1..Len(q) : q[i] = l}
    <3>1. I # {} /\ I \in SUBSET (1..Len(q)) /\ I \in SUBSET Nat
      BY <2>3 DEF Contains
    <3> HIDE DEF I
    <3>2. Min(I) \in I
      BY <3>1, MinIs
    <3> QED  BY <3>1, <3>2 DEF I
  <2> HIDE DEF prev, rest
  <2>5. from \in 1..Len(rest) + 1 /\ \A i \in 1..from - 1 : s[rest[i]].nextexe <= s[l].nextexe
    <3>1. CASE prev > 0 /\ s[l].nextexe >= s[rest[prev]].nextexe
      <4>1. from = prev /\ prev \in 1..Len(rest)
        BY <3>1, <2>3, <2>4
      <4>2. \A i \in 1..from - 1 : i \in 1..Len(rest) /\ i < prev
        BY <4>1, <2>3
      <4>3. \A i \in 1..from - 1 : s[rest[i]].nextexe <= s[rest[prev]].nextexe
        BY <4>1, <4>2, <2>2 DEF InOrder
      <4>4. /\ s[l].nextexe \in Int /\ s[rest[prev]].nextexe \in Int
            /\ \A i \in 1..from - 1 : s[rest[i]].nextexe \in Int
        BY <4>1, <4>2, <2>3
      <4> HIDE DEF from
      <4> QED  BY <3>1, <4>1, <4>3, <4>4, <2>3
    <3>2. CASE ~(prev > 0 /\ s[l].nextexe >= s[rest[prev]].nextexe)
      BY <3>2, <2>3
    <3> QED  BY <3>1, <3>2
  <2> HIDE DEF from
  <2>6. /\ pos \in 1..Len(rest) + 1
        /\ \A i \in 1..pos - 1 : s[rest[i]].nextexe <= s[l].nextexe
        /\ \A i \in pos..Len(rest) : s[l].nextexe <= s[rest[i]].nextexe
    <3>1. Later(from) \in SUBSET Nat /\ Later(from) # {}
      BY <2>3, <2>5
    <3>2. pos \in Later(from) /\ \A i \in Later(from) : pos <= i
      BY <3>1, MinIs
    <3>3. Len(rest) + 1 \in Later(from) /\ \A i \in Later(from) : i \in 1..Len(rest) + 1
      BY <2>3, <2>5
    <3>4. pos \in 1..Len(rest) + 1
      BY <3>2, <3>3
    <3>5. \A i \in Later(from) : i = Len(rest) + 1 \/ s[l].nextexe < s[rest[i]].nextexe
      OBVIOUS
    <3>6. \A i \in from..Len(rest) : s[l].nextexe < s[rest[i]].nextexe => i \in Later(from)
      OBVIOUS
    <3> HIDE DEF Later, pos
    <3>7. ASSUME NEW i \in 1..pos - 1
          PROVE  s[rest[i]].nextexe <= s[l].nextexe
      <4>1. i \in 1..Len(rest) /\ ~(pos <= i)
        BY <3>4, <2>3
      <4>2. i \in 1..from - 1 \/ i \in from..Len(rest)
        BY <4>1, <2>3, <2>5
      <4>3. s[rest[i]].nextexe \in Int /\ s[l].nextexe \in Int
        BY <4>1, <2>3
      <4>4. CASE i \in from..Len(rest)
        <5>1. ~(s[l].nextexe < s[rest[i]].nextexe)
          BY <4>1, <4>4, <3>2, <3>6
        <5> QED  BY <5>1, <4>3
      <4> QED  BY <4>2, <4>4, <2>5
    <3>8. ASSUME NEW i \in pos..Len(rest)
          PROVE  s[l].nextexe <= s[rest[i]].nextexe
      <4>1. pos \in 1..Len(rest) /\ i \in 1..Len(rest) /\ pos # Len(rest) + 1
        BY <3>4, <2>3
      <4>2. s[l].nextexe < s[rest[pos]].nextexe
        BY <4>1, <3>2, <3>5
      <4>3. /\ s[rest[i]].nextexe \in Int /\ s[l].nextexe \in Int
            /\ s[rest[pos]].nextexe \in Int
        BY <4>1, <2>3
      <4>4. i = pos \/ s[rest[pos]].nextexe <= s[rest[i]].nextexe
        <5>1. i = pos \/ pos < i
          BY <4>1, <2>3
        <5> QED  BY <5>1, <4>1, <2>2 DEF InOrder
      <4> QED  BY <4>2, <4>3, <4>4
    <3> QED  BY <3>4, <3>7, <3>8
  <2> HIDE DEF pos
  <2>7. /\ r \in Seq(Lines) /\ Len(r) = Len(rest) + 1
        /\ \A i \in 1..Len(rest) + 1 :
             r[i] = IF i < pos THEN rest[i] ELSE IF i = pos THEN l ELSE rest[i - 1]
    BY <2>2, <2>6, InsertAtIs
  <2> HIDE DEF r
  <2>8. \A i \in 1..Len(r) :
          \/ i < pos /\ i \in 1..Len(rest) /\ i \in 1..pos - 1 /\ r[i] = rest[i]
          \/ i = pos /\ r[i] = l
          \/ /\ i > pos /\ i - 1 \in 1..Len(rest) /\ i - 1 \in pos..Len(rest)
             /\ r[i] = rest[i - 1]
    <3> SUFFICES ASSUME NEW i \in 1..Len(r)
                 PROVE  \/ i < pos /\ i \in 1..Len(rest) /\ i \in 1..pos - 1 /\ r[i] = rest[i]
                        \/ i = pos /\ r[i] = l
                        \/ /\ i > pos /\ i - 1 \in 1..Len(rest) /\ i - 1 \in pos..Len(rest)
                           /\ r[i] = rest[i - 1]
      OBVIOUS
    <3>1. i \in Nat /\ pos \in Nat /\ i \in 1..Len(rest) + 1
      BY <2>3, <2>6, <2>7
    <3>2. r[i] = IF i < pos THEN rest[i] ELSE IF i = pos THEN l ELSE rest[i - 1]
      BY <3>1, <2>7
    <3>3. CASE i < pos
      <4>1. i \in 1..Len(rest) /\ i \in 1..pos - 1
        BY <3>1, <3>3, <2>3, <2>6
      <4> QED  BY <3>2, <3>3, <4>1
    <3>4. CASE i = pos
      BY <3>1, <3>2, <3>4
    <3>5. CASE i > pos
      <4>1. i - 1 \in 1..Len(rest) /\ i - 1 \in pos..Len(rest) /\ ~(i < pos) /\ i # pos
        BY <3>1, <3>5, <2>3, <2>6
      <4> QED  BY <3>2, <3>5, <4>1
    <3> QED  BY <3>1, <3>3, <3>4, <3>5
  <2>9. \A i \in 1..Len(rest) : rest[i] # l
    <3>1. \A i \in 1..Len(rest) : rest[i] \in ToSet(rest)
      BY <2>2, ToSetIs
    <3> QED  BY <3>1, <2>2
  <2>10. Once(r)
    <3> SUFFICES ASSUME NEW i \in 1..Len(r), NEW j \in 1..Len(r), r[i] = r[j]
                 PROVE  i = j
      BY DEF Once
    <3>1. i \in Nat /\ j \in Nat /\ pos \in Nat
      BY <2>6, <2>7
    <3>2. CASE i < pos
      <4>1. j < pos
        BY <3>1, <3>2, <2>2, <2>8, <2>9 DEF Once
      <4> QED  BY <3>1, <3>2, <4>1, <2>2, <2>8 DEF Once
    <3>3. CASE i = pos
      BY <3>1, <3>3, <2>8, <2>9
    <3>4. CASE i > pos
      <4>1. i - 1 \in 1..Len(rest) /\ r[i] = rest[i - 1]
        BY <3>1, <3>4, <2>8
      <4>2. j > pos /\ j - 1 \in 1..Len(rest) /\ r[j] = rest[j - 1]
        <5>1. CASE j < pos
          <6>1. j \in 1..Len(rest) /\ r[j] = rest[j] /\ j \in 1..pos - 1
            BY <3>1, <5>1, <2>8
          <6>2. i - 1 = j
            BY <4>1, <6>1, <2>2 DEF Once
          <6> QED  BY <6>2, <5>1, <3>1, <3>4
        <5>2. CASE j = pos
          BY <5>2, <3>1, <4>1, <2>8, <2>9
        <5>3. CASE j > pos
          BY <5>3, <3>1, <2>8
        <5> QED  BY <5>1, <5>2, <5>3, <3>1
      <4>3. i - 1 = j - 1
        BY <4>1, <4>2, <2>2 DEF Once
      <4> QED  BY <4>3, <3>1
    <3> QED  BY <3>1, <3>2, <3>3, <3>4
  <2>11. InOrder(r, s)
    <3> SUFFICES ASSUME NEW i \in 1..Len(r), NEW j \in 1..Len(r), i < j
                 PROVE  s[r[i]].nextexe <= s[r[j]].nextexe
      BY DEF InOrder
    <3>1. i \in Nat /\ j \in Nat /\ pos \in Nat
      BY <2>6, <2>7
    <3>2. CASE j < pos
      BY <3>1, <3>2, <2>2, <2>8 DEF InOrder
    <3>3. CASE j = pos
      BY <3>1, <3>3, <2>6, <2>8
    <3>4. CASE j > pos /\ i = pos
      <4>1. j - 1 \in pos..Len(rest) /\ r[j] = rest[j - 1] /\ r[i] = l
        BY <3>1, <3>4, <2>8
      <4> QED  BY <4>1, <2>6
    <3>5. CASE j > pos /\ i < pos
      <4>1. i \in 1..pos - 1 /\ r[i] = rest[i]
        BY <3>1, <3>5, <2>8
      <4>2. j - 1 \in pos..Len(rest) /\ r[j] = rest[j - 1]
        BY <3>1, <3>5, <2>8
      <4>3. s[r[i]].nextexe <= s[l].nextexe /\ s[l].nextexe <= s[r[j]].nextexe
        BY <4>1, <4>2, <2>6
      <4>4. r[i] \in Lines /\ r[j] \in Lines
        BY <2>7, ToSetIs
      <4>5. /\ s[r[i]].nextexe \in Int /\ s[l].nextexe \in Int /\ s[r[j]].nextexe \in Int
        BY <4>4
      <4> QED  BY <4>3, <4>5
    <3>6. CASE j > pos /\ i > pos
      <4>1. /\ i - 1 \in 1..Len(rest) /\ r[i] = rest[i - 1]
            /\ j - 1 \in 1..Len(rest) /\ r[j] = rest[j - 1] /\ i - 1 < j - 1
        BY <3>1, <3>6, <2>8
      <4> QED  BY <4>1, <2>2 DEF InOrder
    <3> QED  BY <3>1, <3>2, <3>3, <3>4, <3>5, <3>6
  <2>12. ToSet(r) = ToSet(q) \cup {l}
    <3>1. \A x \in ToSet(r) : x \in ToSet(rest) \cup {l}
      BY <2>2, <2>7, <2>8, ToSetIs
    <3>2. l \in ToSet(r)
      <4>1. pos \in 1..Len(r) /\ r[pos] = l
        BY <2>6, <2>7
      <4> QED  BY <4>1, <2>7, ToSetIs
    <3>3. ASSUME NEW i \in 1..Len(rest)
          PROVE  rest[i] \in ToSet(r)
      <4>1. CASE i < pos
        <5>1. i \in 1..Len(r) /\ r[i] = rest[i]
          BY <4>1, <2>3, <2>7
        <5> QED  BY <5>1, <2>7, ToSetIs
      <4>2. CASE ~(i < pos)
        <5>1. i + 1 \in 1..Len(r) /\ ~(i + 1 < pos) /\ i + 1 # pos /\ (i + 1) - 1 = i
          BY <4>2, <2>3, <2>6, <2>7
        <5>2. r[i + 1] = rest[i]
          BY <5>1, <2>7
        <5> QED  BY <5>1, <5>2, <2>7, ToSetIs
      <4> QED  BY <4>1, <4>2
    <3>4. \A x \in ToSet(rest) : x \in ToSet(r)
      BY <3>3, <2>2, ToSetIs
    <3>5. ToSet(r) = ToSet(rest) \cup {l}
      BY <3>1, <3>2, <3>4
    <3>6. ToSet(rest) = ToSet(q) \ {l}
      BY <2>2
    <3> QED  BY <3>5, <3>6
  <2> QED  BY <2>1, <2>7, <2>10, <2>11, <2>12
<1> QED  BY <1>1, <1>2

(* Lines that are inserted one after the other in an empty queue are all    *)
(* there, in order: by the first of them that would break this.            *)
LEMMA InsertAllIs ==
  ASSUME NEW ls \in Seq(Lines), NEW s, \A m \in Lines : s[m].nextexe \in Int
  PROVE  LET r == InsertAll(s, ls)
         IN  /\ r \in Seq(Lines) /\ Once(r) /\ InOrder(r, s)
             /\ ToSet(r) = ToSet(ls)
<1> DEFINE Of(n, f) == [i \in 0..n |->
                          IF i = 0 THEN <<>> ELSE insert_nextexe(f[i - 1], s, ls[i])]
           nth == CHOOSE f : f = Of(Len(ls), f)
           First(i) == {ls[k] : k \in 1..i}
           Good(q, i) == /\ q \in Seq(Lines) /\ Once(q) /\ InOrder(q, s)
                         /\ ToSet(q) = First(i)
<1>1. InsertAll(s, ls) = nth[Len(ls)]
  BY DEF InsertAll
<1>2. Len(ls) \in Nat /\ \A i \in 1..Len(ls) : ls[i] \in Lines
  BY ToSetIs
<1>3. \A n \in Nat : \E f : f = Of(n, f)
  <2> DEFINE Bad == {n \in Nat : ~ \E f : f = Of(n, f)}
  <2> SUFFICES ASSUME Bad # {} PROVE FALSE
    OBVIOUS
  <2>1. PICK n \in Bad : \A j \in Bad : n <= j
    <3>1. Bad \in SUBSET Nat
      OBVIOUS
    <3> HIDE DEF Bad
    <3> QED  BY <3>1, LeastNumber
  <2>2. n \in Nat /\ ~ \E f : f = Of(n, f)
    OBVIOUS
  <2>3. CASE n = 0
    <3> DEFINE f == [i \in 0..0 |-> <<>>]
    <3>1. f = Of(0, f)
      OBVIOUS
    <3> QED  BY <3>1, <2>2, <2>3
  <2>4. CASE n # 0
    <3>1. n - 1 \in Nat /\ ~(n <= n - 1)
      BY <2>2, <2>4
    <3>2. PICK g : g = Of(n - 1, g)
      BY <3>1, <2>1
    <3> DEFINE f == [i \in 0..n |-> IF i < n THEN g[i] ELSE insert_nextexe(g[n - 1], s, ls[n])]
    <3>3. ASSUME NEW i \in 0..n
          PROVE  f[i] = Of(n, f)[i]
      <4>1. CASE i = 0
        <5>1. f[i] = g[i] /\ i \in 0..n - 1
          BY <4>1, <2>2, <2>4
        <5>2. g[i] = <<>>
          BY <5>1, <4>1, <3>2
        <5> HIDE DEF f
        <5> QED  BY <5>1, <5>2, <4>1
      <4>2. CASE i # 0
        <5>1. i - 1 \in 0..n /\ i - 1 < n
          BY <4>2, <2>2
        <5>2. f[i - 1] = g[i - 1]
          BY <5>1
        <5>3. Of(n, f)[i] = insert_nextexe(g[i - 1], s, ls[i])
          BY <5>2, <4>2
        <5>4. CASE i < n
          <6>1. i \in 0..n - 1 /\ f[i] = g[i]
            BY <5>4, <2>2
          <6>2. g[i] = insert_nextexe(g[i - 1], s, ls[i])
            BY <6>1, <4>2, <3>2
          <6> QED  BY <5>3, <6>1, <6>2
        <5>5. CASE ~(i < n)
          <6>1. i = n
            BY <5>5, <2>2
          <6> QED  BY <5>3, <5>5, <6>1
        <5> QED  BY <5>4, <5>5
      <4> QED  BY <4>1, <4>2
    <3>4. f = Of(n, f)
      BY <3>3
    <3> QED  BY <3>4, <2>2
  <2> QED  BY <2>3, <2>4
<1>4. nth = Of(Len(ls), nth)
  <2>1. \E f : f = Of(Len(ls), f)
    BY <1>2, <1>3
  <2> HIDE DEF Of
  <2> QED  BY <2>1
<1> HIDE DEF nth
<1>5. nth[0] = <<>> /\ \A i \in 1..Len(ls) : nth[i] = insert_nextexe(nth[i - 1], s, ls[i])
  <2>1. 0 \in 0..Len(ls) /\ \A i \in 1..Len(ls) : i \in 0..Len(ls) /\ i # 0
    BY <1>2
  <2>2. \A f : f = Of(Len(ls), f) =>
           f[0] = <<>> /\ \A i \in 1..Len(ls) : f[i] = insert_nextexe(f[i - 1], s, ls[i])
    BY <2>1
  <2> HIDE DEF Of
  <2> QED  BY <1>4, <2>2
<1> HIDE DEF Of
<1>6. Good(nth[0], 0)
  <2>1. ToSet(<<>>) = {} /\ First(0) = {}
    BY DEF ToSet
  <2>2. <<>> \in Seq(Lines) /\ Once(<<>>) /\ InOrder(<<>>, s)
    BY DEF Once, InOrder
  <2> QED  BY <1>5, <2>1, <2>2
<1>7. ASSUME NEW i \in 1..Len(ls), Good(nth[i - 1], i - 1)
      PROVE  Good(nth[i], i)
  <2> DEFINE q == nth[i - 1]
  <2>1. /\ q \in Seq(Lines) /\ Once(q) /\ ls[i] \in Lines
        /\ \A j, k \in 1..Len(q) : j < k => s[q[j]].nextexe <= s[q[k]].nextexe
        /\ ToSet(q) = First(i - 1)
    BY <1>2, <1>7 DEF InOrder
  <2>2. nth[i] = insert_nextexe(q, s, ls[i])
    BY <1>5
  <2> HIDE DEF q
  <2>3. /\ nth[i] \in Seq(Lines) /\ Once(nth[i]) /\ InOrder(nth[i], s)
        /\ ToSet(nth[i]) = ToSet(q) \cup {ls[i]}
    BY <2>1, <2>2, InsertKeeps
  <2>4. First(i) = First(i - 1) \cup {ls[i]}
    <3>1. \A k : k \in 1..i <=> k \in 1..i - 1 \/ k = i
      BY <1>2
    <3> QED  BY <3>1
  <2> QED  BY <2>1, <2>3, <2>4
<1>8. \A i \in 0..Len(ls) : Good(nth[i], i)
  <2> DEFINE Bad == {i \in 0..Len(ls) : ~Good(nth[i], i)}
  <2> SUFFICES ASSUME Bad # {} PROVE FALSE
    OBVIOUS
  <2>1. PICK i \in Bad : \A j \in Bad : i <= j
    <3>1. Bad \in SUBSET Nat
      OBVIOUS
    <3> HIDE DEF Bad
    <3> QED  BY <3>1, LeastNumber
  <2>2. i \in 0..Len(ls) /\ ~Good(nth[i], i)
    OBVIOUS
  <2> HIDE DEF Good
  <2>3. i # 0
    BY <2>2, <1>6
  <2>4. i \in 1..Len(ls) /\ i - 1 \in 0..Len(ls) /\ ~(i <= i - 1)
    BY <2>2, <2>3, <1>2
  <2>5. Good(nth[i - 1], i - 1)
    BY <2>4, <2>1
  <2> QED  BY <2>2, <2>4, <2>5, <1>7
<1>9. First(Len(ls)) = ToSet(ls)
  BY DEF ToSet
<1>10. Good(nth[Len(ls)], Len(ls))
  <2>1. Len(ls) \in 0..Len(ls)
    BY <1>2
  <2> HIDE DEF Good
  <2> QED  BY <2>1, <1>8
<1> HIDE DEF First
<1> QED  BY <1>1, <1>9, <1>10

-----------------------------------------------------------------------------
(* What the state is made of.                                              *)

Places == {"load", "select", "signal", "resume", "test", "lavg", "sleep"}

LineState == [nextexe : Int, remain : Int, hasrun : BOOLEAN]

TdLines == {l \in Lines : Td(l)}

(* An entry of the lavg queue is of a lavg line, and is given up when it is *)
(* late only if the line is a strict %-line.                               *)
Entry(L, T) ==
  {e \in [line : L, until : T, late : BOOLEAN] :
     Is(e.line, "lavg") /\ (e.late \/ (Is(e.line, "strict") /\ Percent(e.line)))}

Entries(q, L) == \E T : q \in Seq(Entry(L, T))

Typed ==
  /\ at \in Places /\ now \in Nat \ {0} /\ save \in Int /\ nwt \in Int /\ away \in Int
  /\ loaded \in SUBSET Lines /\ line \in [Lines -> LineState]
  /\ queue \in Seq(Lines) /\ todo \in Seq(Lines) /\ serialq \in Seq(TdLines)
  /\ Entries(lavgq, loaded)
  /\ context \in [kind : {"default", "boot", "resume"}, slept : Int]
  /\ disk \in [loaded : SUBSET Lines, line : [Lines -> LineState], t_save : Nat]
  /\ up \in [Lines -> Int] /\ behind \in BOOLEAN

Sorted == Once(queue) /\ InOrder(queue, line) /\ ToSet(queue) \subseteq loaded

ToLoad ==
  /\ at \in {"load", "resume"} => ToSet(todo) \subseteq loaded
  /\ at = "load" => Once(todo) /\ context.kind # "resume"
  /\ at \in {"signal", "resume"} => context.kind = "resume"

Base == Typed /\ Sorted /\ ToLoad

LEMMA Finite ==
  ASSUME NEW v \in SUBSET Lines
  PROVE  IsFiniteSet(v)
BY ScheduleAssumption, FS_Subset DEF ScheduleAssumption

(* One line changes, and takes its place again.                            *)
LEMMA MoveLine ==
  ASSUME Typed, Sorted, AllNumbers', NEW l \in Lines,
         NEW T, NEW r \in [nextexe : T, remain : Int, hasrun : BOOLEAN],
         line' = [line EXCEPT ![l] = r],
         queue' = insert_nextexe(queue, line', l)
  PROVE  /\ line' \in [Lines -> LineState] /\ line'[l] = r
         /\ \A m \in Lines : m # l => line'[m] = line[m]
         /\ queue' \in Seq(Lines) /\ Once(queue') /\ InOrder(queue', line')
         /\ ToSet(queue') = ToSet(queue) \cup {l}
<1>1. line \in [Lines -> LineState] /\ queue \in Seq(Lines) /\ Once(queue)
  BY DEF Typed, Sorted
<1>2. PICK s : s = line'
  OBVIOUS
<1>3. s = [line EXCEPT ![l] = r] /\ \A m \in Lines : s[m].nextexe \in Int
  BY <1>2 DEF AllNumbers
<1>4. s[l] = r /\ DOMAIN s = Lines /\ \A m \in Lines : m # l => s[m] = line[m]
  BY <1>1, <1>3
<1>5. r \in LineState
  <2>1. r.nextexe \in Int
    BY <1>3, <1>4
  <2> QED  BY <2>1 DEF LineState
<1>6. s \in [Lines -> LineState]
  BY <1>1, <1>3, <1>5
<1>7. \A i, j \in 1..Len(queue) :
        i < j /\ queue[i] # l /\ queue[j] # l =>
          s[queue[i]].nextexe <= s[queue[j]].nextexe
  <2>1. \A i \in 1..Len(queue) : queue[i] \in Lines
    BY <1>1, ToSetIs
  <2>2. \A i \in 1..Len(queue) : queue[i] # l => s[queue[i]] = line[queue[i]]
    BY <2>1, <1>4
  <2> QED  BY <2>2 DEF Sorted, InOrder
<1>8. LET q == insert_nextexe(queue, s, l)
      IN  q \in Seq(Lines) /\ Once(q) /\ InOrder(q, s) /\ ToSet(q) = ToSet(queue) \cup {l}
  BY <1>1, <1>3, <1>7, InsertKeeps
<1>9. queue' = insert_nextexe(queue, s, l)
  BY <1>2
<1> QED  BY <1>2, <1>4, <1>6, <1>8, <1>9

LEMMA HeadAndTail ==
  ASSUME NEW S, NEW q \in Seq(S), q # <<>>
  PROVE  /\ Tail(q) \in Seq(S) /\ Head(q) \in S
         /\ ToSet(q) = {Head(q)} \cup ToSet(Tail(q))
         /\ Once(q) => Once(Tail(q)) /\ Head(q) \notin ToSet(Tail(q))
<1>1. Len(q) \in Nat /\ Len(q) # 0 /\ Head(q) = q[1]
  BY LenProperties, EmptySeq, HeadTailProperties
<1>2. /\ Tail(q) \in Seq(S) /\ Len(Tail(q)) = Len(q) - 1
      /\ \A i \in 1..Len(Tail(q)) : Tail(q)[i] = q[i + 1]
  BY HeadTailProperties
<1>3. \A i \in 1..Len(q) : i = 1 \/ (i - 1 \in 1..Len(Tail(q)) /\ Tail(q)[i - 1] = q[i])
  <2> TAKE i \in 1..Len(q)
  <2>1. CASE i # 1
    <3>1. i - 1 \in 1..Len(Tail(q)) /\ (i - 1) + 1 = i
      BY <2>1, <1>1, <1>2
    <3> QED  BY <3>1, <1>2
  <2> QED  BY <2>1
<1>4. \A i \in 1..Len(Tail(q)) : i + 1 \in 1..Len(q) /\ i + 1 # 1
  BY <1>1, <1>2
<1>5. 1 \in 1..Len(q)
  BY <1>1
<1>6. ToSet(q) = {Head(q)} \cup ToSet(Tail(q))
  <2>1. \A x \in ToSet(q) : x = Head(q) \/ x \in ToSet(Tail(q))
    <3> TAKE x \in ToSet(q)
    <3>1. PICK i \in 1..Len(q) : q[i] = x
      BY ToSetIs
    <3>2. CASE i = 1
      BY <3>1, <3>2, <1>1
    <3>3. CASE i # 1
      <4>1. i - 1 \in 1..Len(Tail(q)) /\ Tail(q)[i - 1] = x
        BY <3>1, <3>3, <1>3
      <4> QED  BY <4>1, <1>2, ToSetIs
    <3> QED  BY <3>2, <3>3
  <2>2. \A x \in ToSet(Tail(q)) : x \in ToSet(q)
    <3> TAKE x \in ToSet(Tail(q))
    <3>1. PICK i \in 1..Len(Tail(q)) : Tail(q)[i] = x
      BY <1>2, ToSetIs
    <3>2. i + 1 \in 1..Len(q) /\ q[i + 1] = x
      BY <3>1, <1>2, <1>4
    <3> QED  BY <3>2, ToSetIs
  <2>3. Head(q) \in ToSet(q)
    BY <1>1, <1>5, ToSetIs
  <2> QED  BY <2>1, <2>2, <2>3
<1>7. Once(q) => Once(Tail(q)) /\ Head(q) \notin ToSet(Tail(q))
  <2> SUFFICES ASSUME Once(q) PROVE Once(Tail(q)) /\ Head(q) \notin ToSet(Tail(q))
    OBVIOUS
  <2>1. ASSUME NEW i \in 1..Len(Tail(q)), NEW j \in 1..Len(Tail(q)), Tail(q)[i] = Tail(q)[j]
        PROVE  i = j
    <3>1. i + 1 = j + 1
      BY <2>1, <1>2, <1>4 DEF Once
    <3> QED  BY <3>1, <1>2
  <2>2. \A i \in 1..Len(Tail(q)) : Tail(q)[i] # Head(q)
    BY <1>1, <1>2, <1>4, <1>5 DEF Once
  <2>3. Head(q) \notin ToSet(Tail(q))
    BY <2>2, <1>2, ToSetIs
  <2> QED  BY <2>1, <2>3 DEF Once
<1> QED  BY <1>1, <1>2, <1>5, <1>6, <1>7, ToSetIs

-----------------------------------------------------------------------------
(* The lavg queue.                                                         *)

LEMMA EntriesGrow ==
  ASSUME NEW q, NEW L, NEW T, NEW e, q \in Seq(Entry(L, T)),
         e \in Entry(L, T \cup {e.until})
  PROVE  Entries(Append(q, e), L)
<1> DEFINE V == T \cup {e.until}
<1>1. Entry(L, T) \subseteq Entry(L, V)
  BY DEF Entry
<1>2. q \in Seq(Entry(L, V))
  <2>1. Len(q) \in Nat /\ q = [i \in 1..Len(q) |-> q[i]]
    BY LenProperties
  <2>2. \A i \in 1..Len(q) : q[i] \in Entry(L, T)
    BY ElementOfSeq
  <2> HIDE DEF V
  <2>3. q \in [1..Len(q) -> Entry(L, V)]
    BY <2>1, <2>2, <1>1
  <2> QED  BY <2>1, <2>3, SeqDef
<1>3. Append(q, e) \in Seq(Entry(L, V))
  BY <1>2, AppendProperties
<1> QED  BY <1>3 DEF Entries

LEMMA LavgAdded ==
  ASSUME Typed, NEW l \in loaded, Is(l, "lavg"), NEW t
  PROVE  Entries(add_lavg_job(l, t), loaded)
<1>1. PICK T : lavgq \in Seq(Entry(loaded, T))
  BY DEF Typed, Entries
<1> DEFINE e == LavgEntry(l, t)
<1>2. /\ e.line = l /\ e.late \in BOOLEAN
      /\ e = [line |-> l, until |-> e.until, late |-> e.late]
      /\ e.late \/ (Is(l, "strict") /\ Percent(l))
  BY DEF LavgEntry
<1>3. e \in Entry(loaded, T \cup {e.until})
  <2> HIDE DEF e
  <2>1. e \in [line : loaded, until : T \cup {e.until}, late : BOOLEAN]
    BY <1>2
  <2> QED  BY <1>2, <2>1 DEF Entry
<1>4. Entries(Append(lavgq, e), loaded)
  <2> HIDE DEF e
  <2> QED  BY <1>1, <1>3, EntriesGrow
<1>5. Entries(lavgq, loaded)
  BY DEF Typed
<1> QED  BY <1>4, <1>5 DEF add_lavg_job

LEMMA EntriesKept ==
  ASSUME NEW q, NEW L, Entries(q, L), NEW K \in SUBSET (1..Len(q))
  PROVE  Entries(Keep(q, K), L)
<1>1. PICK T : q \in Seq(Entry(L, T))
  BY DEF Entries
<1>2. Keep(q, K) \in Seq(Entry(L, T))
  BY <1>1, KeepIs
<1> QED  BY <1>2 DEF Entries

LEMMA EntryRemoved ==
  ASSUME NEW q, NEW L, Entries(q, L), NEW i \in 1..Len(q)
  PROVE  Entries(RemoveAt(q, i), L)
<1>1. PICK T : q \in Seq(Entry(L, T))
  BY DEF Entries
<1> DEFINE S == Entry(L, T)
<1>2. Len(q) \in Nat /\ \A j \in 1..Len(q) : q[j] \in S
  BY <1>1, LenProperties, ElementOfSeq
<1> HIDE DEF S
<1>3. SubSeq(q, 1, i - 1) \in Seq(S)
  <2>1. \A j \in 1..i - 1 : q[j] \in S
    BY <1>2
  <2> QED  BY <1>2, <2>1, SubSeqProperties
<1>4. SubSeq(q, i + 1, Len(q)) \in Seq(S)
  <2>1. \A j \in i + 1..Len(q) : q[j] \in S
    BY <1>2
  <2> QED  BY <1>2, <2>1, SubSeqProperties
<1>5. \A a, b \in Seq(S) : a \o b \in Seq(S)
  BY ConcatProperties
<1>6. RemoveAt(q, i) \in Seq(S)
  BY <1>3, <1>4, <1>5 DEF RemoveAt
<1> QED  BY <1>6 DEF Entries, S

LEMMA EntryIs ==
  ASSUME NEW q, NEW L, Entries(q, L), NEW i \in 1..Len(q)
  PROVE  /\ q[i].line \in L /\ Is(q[i].line, "lavg") /\ q[i].late \in BOOLEAN
         /\ q[i].late \/ (Is(q[i].line, "strict") /\ Percent(q[i].line))
<1>1. PICK T : q \in Seq(Entry(L, T))
  BY DEF Entries
<1>2. q[i] \in Entry(L, T)
  BY <1>1, ElementOfSeq
<1> QED  BY <1>2 DEF Entry

LEMMA NoEntries == \A L : Entries(<<>>, L)
BY DEF Entries

-----------------------------------------------------------------------------
(* A line that is scheduled at the start, or as the machine resumes.       *)

Changed(l) ==
  /\ line' \in [Lines -> LineState] /\ \A m \in Lines : m # l => line'[m] = line[m]
  /\ queue' \in Seq(Lines) /\ Once(queue') /\ InOrder(queue', line')
  /\ serialq' \in Seq(TdLines) /\ Entries(lavgq', loaded)

Skipped(l) ==
  /\ Is(l, "runonce") /\ line[l].hasrun /\ line' = line /\ queue' = queue

Moved(l) ==
  /\ ~(Is(l, "runonce") /\ line'[l].hasrun) /\ ToSet(queue') = ToSet(queue) \cup {l}

Stays(l) ==
  /\ context.kind = "resume" /\ line'[l].hasrun = line[l].hasrun /\ queue' = queue
  /\ ~(Is(l, "runonce") /\ line[l].hasrun)

LEMMA LoadingIs ==
  ASSUME Base, NEW l \in Lines, Loading(l)
  PROVE  /\ l \in ToSet(todo) /\ l \in loaded /\ todo' \in Seq(Lines)
         /\ ToSet(todo) = {l} \cup ToSet(todo')
         /\ Once(todo) => Once(todo') /\ l \notin ToSet(todo')
<1>1. todo \in Seq(Lines) /\ todo # <<>> /\ l = Head(todo) /\ todo' = Tail(todo)
  BY DEF Base, Typed, Loading
<1>2. ToSet(todo) \subseteq loaded
  BY DEF Base, ToLoad, Loading
<1> QED  BY <1>1, <1>2, HeadAndTail

LEMMA InsertIs ==
  ASSUME Base, AllNumbers', NEW l \in Lines, Scheduled(l),
         NEW T, NEW r \in [nextexe : T, remain : Int, hasrun : BOOLEAN],
         line' = [line EXCEPT ![l] = [r EXCEPT !.hasrun = HasRun(l)]],
         queue' = insert_nextexe(queue, line', l)
  PROVE  /\ line' \in [Lines -> LineState] /\ \A m \in Lines : m # l => line'[m] = line[m]
         /\ queue' \in Seq(Lines) /\ Once(queue') /\ InOrder(queue', line')
         /\ Moved(l) /\ line'[l].nextexe = r.nextexe
<1>1. HasRun(l) \in BOOLEAN
  BY DEF HasRun
<1>2. PICK h \in BOOLEAN : h = HasRun(l)
  BY <1>1
<1> DEFINE p == [r EXCEPT !.hasrun = h]
<1>3. p \in [nextexe : T, remain : Int, hasrun : BOOLEAN] /\ p.nextexe = r.nextexe
      /\ p.hasrun = h
  OBVIOUS
<1>4. line' = [line EXCEPT ![l] = p]
  BY <1>2
<1> HIDE DEF p
<1>5. /\ line' \in [Lines -> LineState] /\ line'[l] = p
      /\ \A m \in Lines : m # l => line'[m] = line[m]
      /\ queue' \in Seq(Lines) /\ Once(queue') /\ InOrder(queue', line')
      /\ ToSet(queue') = ToSet(queue) \cup {l}
  BY <1>3, <1>4, MoveLine DEF Base
<1>6. ~(Is(l, "runonce") /\ h)
  BY <1>2 DEF Scheduled
<1>7. ~(Is(l, "runonce") /\ line'[l].hasrun)
  BY <1>3, <1>5, <1>6
<1> QED  BY <1>3, <1>5, <1>7 DEF Moved

LEMMA StartIs ==
  ASSUME Base, AllNumbers', NEW l \in Lines, StartLine(l)
  PROVE  Changed(l) /\ (Skipped(l) \/ Moved(l) \/ Stays(l)) /\ Loading(l)
<1>0. Loading(l)
  BY DEF StartLine, SkipRunOnce, StartTdAtOnce, StartTdMissed, StartBootrun,
         StartTdValid, StartFreq, Overdue, Scheduled
<1>1. /\ line \in [Lines -> LineState] /\ queue \in Seq(Lines) /\ Once(queue)
      /\ InOrder(queue, line) /\ Entries(lavgq, loaded) /\ serialq \in Seq(TdLines)
      /\ line[l] \in LineState
  BY DEF Base, Typed, Sorted
<1>2. l \in loaded
  BY <1>0, LoadingIs
<1>3. line[l] = [nextexe |-> line[l].nextexe, remain |-> line[l].remain,
                 hasrun |-> line[l].hasrun]
      /\ line[l].remain \in Int /\ line[l].hasrun \in BOOLEAN /\ line[l].nextexe \in Int
  BY <1>1 DEF LineState
<1>4. CASE SkipRunOnce(l)
  <2>1. Is(l, "runonce") /\ HasRun(l) /\ UNCHANGED <<line, queue, lavgq, serialq>>
    BY <1>4 DEF SkipRunOnce
  <2>2. line[l].hasrun
    BY <2>1 DEF HasRun
  <2> QED  BY <1>0, <1>1, <2>1, <2>2 DEF Changed, Skipped
<1>5. ASSUME Scheduled(l), NEW r, NEW t, NEW n \in Int,
             r = [nextexe |-> t, remain |-> n, hasrun |-> line[l].hasrun],
             Insert(l, r), serialq' \in Seq(TdLines), Entries(lavgq', loaded)
      PROVE  Changed(l) /\ Moved(l)
  <2>1. r \in [nextexe : {t}, remain : Int, hasrun : BOOLEAN]
    BY <1>3, <1>5
  <2>2. /\ line' = [line EXCEPT ![l] = [r EXCEPT !.hasrun = HasRun(l)]]
        /\ queue' = insert_nextexe(queue, line', l)
    BY <1>5 DEF Insert
  <2> QED  BY <1>5, <2>1, <2>2, InsertIs DEF Changed
<1>6. CASE StartTdAtOnce(l)
  <2>1. Scheduled(l) /\ Insert(l, [line[l] EXCEPT !.nextexe = now])
        /\ lavgq' = lavgq /\ serialq' = serialq
    BY <1>6 DEF StartTdAtOnce
  <2> QED  BY <1>0, <1>1, <1>3, <1>5, <2>1
<1>7. CASE StartTdMissed(l)
  <2>1. Scheduled(l) /\ lavgq' = lavgq /\ serialq' = serialq
    BY <1>7 DEF StartTdMissed, Overdue
  <2>2. PICK next : Insert(l, [line[l] EXCEPT !.nextexe = next])
    BY <1>7 DEF StartTdMissed
  <2> QED  BY <1>0, <1>1, <1>3, <1>5, <2>1, <2>2
<1>8. CASE StartBootrun(l)
  <2>1. Scheduled(l) /\ Td(l)
    BY <1>8 DEF StartBootrun, Overdue
  <2>2. LineOf[l].runfreq \in Int
    BY ScheduleAssumption DEF ScheduleAssumption
  <2>3. PICK d \in Draws :
          Insert(l, [line[l] EXCEPT
            !.nextexe = NextExeOf(l, STD, 0, d),
            !.remain  = IF Countdown(l) THEN @ - 1 ELSE LineOf[l].runfreq])
    BY <1>8 DEF StartBootrun
  <2>4. PICK t : \E n \in Int : Insert(l, [line[l] EXCEPT !.nextexe = t, !.remain = n])
    <3>1. CASE Countdown(l)
      <4>1. Insert(l, [line[l] EXCEPT !.nextexe = NextExeOf(l, STD, 0, d),
                                      !.remain = line[l].remain - 1])
        BY <2>3, <3>1 DEF Countdown
      <4>2. line[l].remain - 1 \in Int
        BY <1>3
      <4> QED  BY <4>1, <4>2
    <3>2. CASE ~Countdown(l)
      <4>1. Insert(l, [line[l] EXCEPT !.nextexe = NextExeOf(l, STD, 0, d),
                                      !.remain = LineOf[l].runfreq])
        BY <2>3, <3>2 DEF Countdown
      <4> QED  BY <4>1, <2>2
    <3> QED  BY <3>1, <3>2
  <2>5. PICK n \in Int : Insert(l, [line[l] EXCEPT !.nextexe = t, !.remain = n])
    BY <2>4
  <2>6. Insert(l, [nextexe |-> t, remain |-> n, hasrun |-> line[l].hasrun])
    <3>1. [line[l] EXCEPT !.nextexe = t, !.remain = n]
          = [nextexe |-> t, remain |-> n, hasrun |-> line[l].hasrun]
      <4>1. [line[l] EXCEPT !.nextexe = t, !.remain = n]
            = [[line[l] EXCEPT !.nextexe = t] EXCEPT !.remain = n]
        OBVIOUS
      <4>2. \A y : \A x \in LineState :
              [x EXCEPT !.nextexe = y]
              = [nextexe |-> y, remain |-> x.remain, hasrun |-> x.hasrun]
        BY DEF LineState
      <4>3. \A y : \A x \in [nextexe : {t}, remain : Int, hasrun : BOOLEAN] :
              [x EXCEPT !.remain = y]
              = [nextexe |-> x.nextexe, remain |-> y, hasrun |-> x.hasrun]
        OBVIOUS
      <4> DEFINE p == [nextexe |-> t, remain |-> line[l].remain, hasrun |-> line[l].hasrun]
      <4>4. [line[l] EXCEPT !.nextexe = t] = p
        BY <4>2, <1>1
      <4>5. /\ p \in [nextexe : {t}, remain : Int, hasrun : BOOLEAN]
            /\ p.nextexe = t /\ p.hasrun = line[l].hasrun
        BY <1>3
      <4> HIDE DEF p
      <4>6. [p EXCEPT !.remain = n] = [nextexe |-> t, remain |-> n, hasrun |-> line[l].hasrun]
        BY <4>3, <4>5
      <4> QED  BY <4>1, <4>4, <4>6
    <3> QED  BY <2>5, <3>1
  <2>7. Entries(lavgq', loaded)
    <3>1. \/ lavgq' = lavgq
          \/ Is(l, "lavg") /\ lavgq' = add_lavg_job(l, line[l].nextexe)
      BY <1>8 DEF StartBootrun
    <3> QED  BY <3>1, <1>1, <1>2, LavgAdded DEF Base
  <2>8. serialq' \in Seq(TdLines)
    <3>1. serialq' = serialq \/ serialq' = Append(serialq, l)
      BY <1>8 DEF StartBootrun
    <3>2. l \in TdLines
      BY <2>1 DEF TdLines
    <3> QED  BY <3>1, <3>2, <1>1, AppendProperties
  <2> QED  BY <1>0, <1>5, <2>1, <2>6, <2>7, <2>8
<1>9. CASE StartTdValid(l)
  <2>1. Scheduled(l) /\ ~RunAtOnce(l) /\ lavgq' = lavgq /\ serialq' = serialq
    BY <1>9 DEF StartTdValid
  <2>2. CASE context.kind = "resume"
    <3>1. line' = [line EXCEPT ![l].hasrun = HasRun(l)] /\ queue' = queue
      BY <1>9, <2>2 DEF StartTdValid
    <3>2. ~Is(l, "runatresume")
      BY <2>1, <2>2 DEF RunAtOnce
    <3>3. HasRun(l) = line[l].hasrun
      BY <2>2, <3>2, <1>3, Zenon DEF HasRun
    <3>4. line' = line
      BY <3>1, <3>3, <1>1, <1>3
    <3>5. ~(Is(l, "runonce") /\ line[l].hasrun)
      BY <2>1, <3>3 DEF Scheduled
    <3> QED  BY <1>0, <1>1, <2>1, <2>2, <3>1, <3>4, <3>5 DEF Changed, Stays
  <2>3. CASE context.kind # "resume"
    <3>1. Insert(l, line[l])
      BY <1>9, <2>3 DEF StartTdValid
    <3> QED  BY <1>0, <1>1, <1>3, <1>5, <2>1, <3>1
  <2> QED  BY <2>2, <2>3
<1>10. CASE StartFreq(l)
  <2>1. Scheduled(l) /\ lavgq' = lavgq /\ serialq' = serialq
    BY <1>10 DEF StartFreq
  <2>2. PICK t : Insert(l, [line[l] EXCEPT !.nextexe = t])
    BY <1>10 DEF StartFreq
  <2> QED  BY <1>0, <1>1, <1>3, <1>5, <2>1, <2>2
<1> QED  BY <1>4, <1>6, <1>7, <1>8, <1>9, <1>10 DEF StartLine

-----------------------------------------------------------------------------
(* What the other steps do to the lines and the queues.                    *)

LEMMA TestIs ==
  ASSUME Base, AllNumbers', TestJob
  PROVE  \E l \in loaded, d \in Draws :
           LET runs == ~Countdown(l)
               over == Is(l, "runonce") /\ (runs \/ line[l].hasrun)
           IN  /\ l = Head(queue) /\ Changed(l)
               /\ ToSet(queue') = IF over THEN ToSet(queue) \ {l} ELSE ToSet(queue) \cup {l}
               /\ line'[l].hasrun = (line[l].hasrun \/ runs)
               /\ line'[l].nextexe = IF over THEN line[l].nextexe
                                     ELSE NextExeOf(l, STD, 0, d)
<1> DEFINE l == Head(queue)
           runs == ~Countdown(l)
           over == Is(l, "runonce") /\ (runs \/ line[l].hasrun)
<1>1. /\ line \in [Lines -> LineState] /\ queue \in Seq(Lines) /\ Once(queue)
      /\ InOrder(queue, line) /\ Entries(lavgq, loaded) /\ serialq \in Seq(TdLines)
      /\ ToSet(queue) \subseteq loaded /\ loaded \subseteq Lines
  BY DEF Base, Typed, Sorted
<1>2. queue # <<>> /\ serialq' = serialq
  BY DEF TestJob
<1>3. l \in loaded /\ l \in Lines
  BY <1>1, <1>2, HeadOf
<1>4. PICK k : k = l
  OBVIOUS
<1> DEFINE kruns == ~Countdown(k)
           kover == Is(k, "runonce") /\ (kruns \/ line[k].hasrun)
<1>5. PICK d \in Draws :
        line' = [line EXCEPT ![k] =
                   [nextexe |-> IF kover THEN @.nextexe ELSE NextExeOf(k, STD, 0, d),
                    remain  |-> IF kruns THEN LineOf[k].runfreq ELSE @.remain - 1,
                    hasrun  |-> @.hasrun \/ kruns]]
  BY <1>4 DEF TestJob
<1>6. /\ queue' = IF kover THEN job_queue_remove(queue, k) ELSE insert_nextexe(queue, line', k)
      /\ lavgq' = IF kruns /\ Is(k, "lavg") THEN add_lavg_job(k, line[k].nextexe) ELSE lavgq
  BY <1>4 DEF TestJob
<1>7. k \in loaded /\ k \in Lines /\ line[k] \in LineState
  BY <1>1, <1>3, <1>4
<1>8. line[k].remain \in Int /\ line[k].hasrun \in BOOLEAN /\ line[k].nextexe \in Int
  BY <1>7 DEF LineState
<1>9. PICK t : t = IF kover THEN line[k].nextexe ELSE NextExeOf(k, STD, 0, d)
  OBVIOUS
<1>10. PICK n \in Int : n = IF kruns THEN LineOf[k].runfreq ELSE line[k].remain - 1
  <2>1. LineOf[k].runfreq \in Int
    BY <1>7, ScheduleAssumption DEF ScheduleAssumption
  <2> QED  BY <1>8, <2>1
<1>11. PICK h \in BOOLEAN : h = (line[k].hasrun \/ kruns)
  OBVIOUS
<1>12. PICK o \in BOOLEAN : o = kover
  OBVIOUS
<1> DEFINE r == [nextexe |-> t, remain |-> n, hasrun |-> h]
<1>13. line' = [line EXCEPT ![k] = r]
  BY <1>5, <1>9, <1>10, <1>11
<1>14. r \in [nextexe : {t}, remain : Int, hasrun : BOOLEAN] /\ r.nextexe = t /\ r.hasrun = h
  OBVIOUS
<1>15. Entries(lavgq', loaded)
  BY <1>1, <1>6, <1>7, LavgAdded DEF Base
<1> HIDE DEF r, l
<1> DEFINE done ==
             /\ Changed(k)
             /\ ToSet(queue') = IF kover THEN ToSet(queue) \ {k} ELSE ToSet(queue) \cup {k}
             /\ line'[k].hasrun = (line[k].hasrun \/ kruns)
             /\ line'[k].nextexe = IF kover THEN line[k].nextexe ELSE NextExeOf(k, STD, 0, d)
<1>16. ASSUME ~o PROVE done
  <2>1. queue' = insert_nextexe(queue, line', k)
    BY <1>6, <1>12, <1>16
  <2>2. /\ line' \in [Lines -> LineState] /\ line'[k] = r
        /\ \A m \in Lines : m # k => line'[m] = line[m]
        /\ queue' \in Seq(Lines) /\ Once(queue') /\ InOrder(queue', line')
        /\ ToSet(queue') = ToSet(queue) \cup {k}
    BY <1>7, <1>13, <1>14, <2>1, MoveLine DEF Base
  <2>3. Changed(k)
    BY <1>1, <1>2, <1>15, <2>2 DEF Changed
  <2>4. ToSet(queue') = IF kover THEN ToSet(queue) \ {k} ELSE ToSet(queue) \cup {k}
    BY <1>12, <1>16, <2>2
  <2>5. line'[k].hasrun = (line[k].hasrun \/ kruns)
    BY <1>11, <1>14, <2>2
  <2>6. line'[k].nextexe = IF kover THEN line[k].nextexe ELSE NextExeOf(k, STD, 0, d)
    BY <1>9, <1>14, <2>2
  <2> QED  BY <2>3, <2>4, <2>5, <2>6
<1>17. ASSUME o PROVE done
  <2>1. queue' = job_queue_remove(queue, k)
    BY <1>6, <1>12, <1>17
  <2>2. t = line[k].nextexe
    BY <1>9, <1>12, <1>17
  <2>3. r \in LineState
    BY <1>8, <1>14, <2>2 DEF LineState
  <2>4. /\ line' \in [Lines -> LineState] /\ line'[k] = r
        /\ \A m \in Lines : m # k => line'[m] = line[m]
    BY <1>1, <1>7, <1>13, <2>3
  <2>5. PICK s : s = line'
    OBVIOUS
  <2>6. \A m \in Lines : s[m].nextexe = line[m].nextexe
    BY <1>14, <2>2, <2>4, <2>5
  <2>7. \A i \in 1..Len(queue) : queue[i] \in Lines
    BY <1>1, ToSetIs
  <2>8. \A i, j \in 1..Len(queue) :
           i < j /\ queue[i] # k /\ queue[j] # k =>
             s[queue[i]].nextexe <= s[queue[j]].nextexe
    BY <1>1, <2>6, <2>7 DEF InOrder
  <2>9. LET q == job_queue_remove(queue, k)
        IN  q \in Seq(Lines) /\ Once(q) /\ InOrder(q, s) /\ ToSet(q) = ToSet(queue) \ {k}
    BY <1>1, <2>8, RemoveIs
  <2>10. Changed(k)
    BY <1>1, <1>2, <1>15, <2>1, <2>4, <2>5, <2>9 DEF Changed
  <2>11. ToSet(queue') = IF kover THEN ToSet(queue) \ {k} ELSE ToSet(queue) \cup {k}
    BY <1>12, <1>17, <2>1, <2>9
  <2>12. line'[k].hasrun = (line[k].hasrun \/ kruns)
    BY <1>11, <1>14, <2>4
  <2>13. line'[k].nextexe = IF kover THEN line[k].nextexe ELSE NextExeOf(k, STD, 0, d)
    BY <1>9, <1>14, <2>4
  <2> QED  BY <2>10, <2>11, <2>12, <2>13
<1>18. k = Head(queue) /\ k \in loaded /\ d \in Draws
  BY <1>4, <1>7 DEF l
<1>19. done
  BY <1>12, <1>16, <1>17
<1> QED  BY <1>18, <1>19

LEMMA LateIs ==
  ASSUME Base, AllNumbers', LavgLate
  PROVE  /\ Entries(lavgq', loaded) /\ serialq' = serialq
         /\ \/ line' = line /\ queue' = queue
            \/ \E l \in loaded :
                 /\ Is(l, "lavg") /\ Is(l, "strict") /\ Percent(l)
                 /\ Changed(l) /\ ToSet(queue') = ToSet(queue) \cup {l}
                 /\ line'[l].hasrun = line[l].hasrun
<1>1. /\ line \in [Lines -> LineState] /\ Entries(lavgq, loaded) /\ loaded \subseteq Lines
      /\ serialq \in Seq(TdLines)
  BY DEF Base, Typed
<1>2. PICK i \in 1..Len(lavgq) :
        /\ lavgq' = RemoveAt(lavgq, i)
        /\ IF lavgq[i].late
           THEN UNCHANGED <<line, queue>>
           ELSE \E next : /\ line' = [line EXCEPT ![lavgq[i].line].nextexe = next]
                          /\ queue' = insert_nextexe(queue, line', lavgq[i].line)
  BY DEF LavgLate
<1>3. serialq' = serialq
  BY DEF LavgLate
<1>4. Entries(lavgq', loaded)
  BY <1>1, <1>2, EntryRemoved
<1>5. CASE lavgq[i].late
  BY <1>2, <1>3, <1>4, <1>5
<1>6. CASE ~lavgq[i].late
  <2>1. PICK l : l = lavgq[i].line
    OBVIOUS
  <2>2. l \in loaded /\ l \in Lines /\ Is(l, "lavg") /\ Is(l, "strict") /\ Percent(l)
    BY <1>1, <1>6, <2>1, EntryIs
  <2>3. PICK next : /\ line' = [line EXCEPT ![l].nextexe = next]
                    /\ queue' = insert_nextexe(queue, line', l)
    BY <1>2, <1>6, <2>1
  <2>4. line[l] \in LineState
    BY <1>1, <2>2
  <2> DEFINE r == [line[l] EXCEPT !.nextexe = next]
  <2>5. /\ r \in [nextexe : {next}, remain : Int, hasrun : BOOLEAN]
        /\ r.hasrun = line[l].hasrun
    BY <2>4 DEF LineState
  <2>6. line' = [line EXCEPT ![l] = r]
    BY <2>3
  <2> HIDE DEF r
  <2>7. /\ line' \in [Lines -> LineState] /\ line'[l] = r
        /\ \A m \in Lines : m # l => line'[m] = line[m]
        /\ queue' \in Seq(Lines) /\ Once(queue') /\ InOrder(queue', line')
        /\ ToSet(queue') = ToSet(queue) \cup {l}
    BY <2>2, <2>3, <2>5, <2>6, MoveLine DEF Base
  <2>8. Changed(l)
    BY <1>1, <1>3, <1>4, <2>7 DEF Changed
  <2> QED  BY <1>3, <1>4, <2>2, <2>5, <2>7, <2>8
<1>7. lavgq[i].late \in BOOLEAN
  BY <1>1, EntryIs
<1> QED  BY <1>5, <1>6, <1>7

LEMMA SynchronizeIs ==
  ASSUME Base, AllNumbers', NEW v \in Versions, Synchronize(v)
  PROVE  /\ v \in SUBSET Lines /\ loaded' = v /\ lavgq' = <<>> /\ serialq' = <<>>
         /\ line' \in [Lines -> LineState]
         /\ \A l \in v \cap loaded : line'[l].nextexe = line[l].nextexe
         /\ queue' \in Seq(Lines) /\ Once(queue') /\ InOrder(queue', line')
         /\ ToSet(queue') = {l \in v : ~(Is(l, "runonce") /\ line'[l].hasrun)}
         /\ disk' = [loaded |-> v, line |-> line', t_save |-> now]
         /\ up' = [l \in Lines |-> IF l \in v \cap loaded THEN up[l] ELSE 0]
<1>1. v \in SUBSET Lines
  BY ScheduleAssumption DEF ScheduleAssumption
<1>2. PICK d \in Draws :
        /\ loaded' = v /\ line' = Taken(v, d)
        /\ queue' = InsertAll(Taken(v, d),
             SetToSeq({l \in v : ~(Is(l, "runonce") /\ Taken(v, d)[l].hasrun)}))
        /\ lavgq' = <<>> /\ serialq' = <<>>
        /\ disk' = [loaded |-> v, line |-> Taken(v, d), t_save |-> now]
        /\ up' = [l \in Lines |-> IF l \in v \cap loaded THEN up[l] ELSE 0]
  BY DEF Synchronize
<1>3. PICK s : s = Taken(v, d)
  OBVIOUS
<1>4. s = line'
  BY <1>2, <1>3
<1>5. \A l \in Lines : s[l].nextexe \in Int
  BY <1>4 DEF AllNumbers
<1>6. line \in [Lines -> LineState] /\ \A l \in Lines : LineOf[l].runfreq \in Int
  BY ScheduleAssumption DEF ScheduleAssumption, Base, Typed
<1>7. ASSUME NEW l \in Lines
      PROVE  s[l] \in LineState /\ (l \in v \cap loaded => s[l].nextexe = line[l].nextexe)
  <2>1. s[l] = CASE l \in v /\ l \in loaded ->
                [line[l] EXCEPT !.hasrun = @ /\ Is(l, "runonce")]
          [] l \in v /\ l \notin loaded ->
                [NewLine(l) EXCEPT !.nextexe = IF Td(l) THEN NextExeOf(l, NO_GOTO, 0, d)
                                               ELSE FirstTime(l)]
          [] OTHER -> line[l]
    BY <1>3 DEF Taken
  <2>2. line[l] \in LineState
    BY <1>6
  <2>3. CASE l \in v /\ l \in loaded
    <3>1. PICK h \in BOOLEAN : h = (line[l].hasrun /\ Is(l, "runonce"))
      OBVIOUS
    <3>2. s[l] = [line[l] EXCEPT !.hasrun = h]
      BY <2>1, <2>3, <3>1
    <3> QED  BY <2>2, <3>2 DEF LineState
  <2>4. CASE l \in v /\ l \notin loaded
    <3>1. PICK t : s[l] = [NewLine(l) EXCEPT !.nextexe = t]
      BY <2>1, <2>4
    <3>2. s[l].nextexe \in Int
      BY <1>5
    <3>3. NewLine(l) \in LineState
      BY <1>6 DEF NewLine, LineState
    <3>4. s[l].nextexe = t
      BY <3>1, <3>3 DEF LineState
    <3> QED  BY <2>4, <3>1, <3>2, <3>3, <3>4 DEF LineState
  <2>5. CASE l \notin v
    BY <2>1, <2>2, <2>5
  <2> QED  BY <2>3, <2>4, <2>5
<1>8. s \in [Lines -> LineState]
  <2>1. DOMAIN s = Lines /\ s = [l \in Lines |-> s[l]]
    BY <1>3 DEF Taken
  <2> QED  BY <1>7, <2>1
<1> DEFINE w == {l \in v : ~(Is(l, "runonce") /\ s[l].hasrun)}
<1>9. w \in SUBSET Lines
  BY <1>1
<1>10. queue' = InsertAll(s, SetToSeq(w))
  BY <1>2, <1>3
<1>101. ToSet(SetToSeq(w)) = w /\ SetToSeq(w) \in Seq(Lines)
  <2> HIDE DEF w
  <2>1. IsFiniteSet(w)
    BY <1>9, Finite
  <2>2. SetToSeq(w) \in Seq(w) /\ ToSet(SetToSeq(w)) = w
    BY <2>1, SetToSeqIs
  <2>3. \A q \in Seq(w) : q \in Seq(Lines)
    BY <1>9
  <2> QED  BY <2>2, <2>3
<1>11. LET q == InsertAll(s, SetToSeq(w))
       IN  q \in Seq(Lines) /\ Once(q) /\ InOrder(q, s) /\ ToSet(q) = w
  <2> HIDE DEF w
  <2> QED  BY <1>5, <1>101, InsertAllIs
<1>12. queue' \in Seq(Lines) /\ Once(queue') /\ InOrder(queue', s) /\ ToSet(queue') = w
  BY <1>10, <1>11
<1>13. InOrder(queue', line') /\ w = {l \in v : ~(Is(l, "runonce") /\ line'[l].hasrun)}
  BY <1>4, <1>12
<1> HIDE DEF w
<1>14. disk' = [loaded |-> v, line |-> line', t_save |-> now]
  BY <1>2
<1> QED  BY <1>1, <1>2, <1>4, <1>7, <1>8, <1>12, <1>13, <1>14

-----------------------------------------------------------------------------
(* The types, the order of queue_base, and the lines to load.              *)

LEMMA MaxInt ==
  ASSUME NEW a \in Int, NEW b \in Int
  PROVE  Max({a, b}) \in Int /\ Max({a, b}) >= a /\ Max({a, b}) >= b
BY OfTwo

LEMMA Delays ==
  /\ SaveTime \in Nat \ {0} /\ LAVG_SLEEP \in Nat \ {0} /\ FirstSleep \in Nat
  /\ TIME_T_MAX \in Nat /\ \A d \in Late \cup Pauses : d \in Nat
  /\ \A n \in Starts : n \in Nat \ {0}
BY ScheduleAssumption DEF ScheduleAssumption

LEMMA NextWake ==
  ASSUME Typed, NEW lim \in Int
  PROVE  LET due == IF queue # <<>> /\ line[Head(queue)].nextexe < lim
                    THEN line[Head(queue)].nextexe ELSE lim
         IN  /\ due \in Int /\ next_wake_time(lim, queue, line) = Max({now, due})
             /\ next_wake_time(lim, queue, line) \in Int
<1> DEFINE due == IF queue # <<>> /\ line[Head(queue)].nextexe < lim
                  THEN line[Head(queue)].nextexe ELSE lim
<1>1. queue \in Seq(Lines) /\ now \in Int /\ line \in [Lines -> LineState]
  BY DEF Typed
<1>2. queue # <<>> => line[Head(queue)].nextexe \in Int
  <2>1. queue # <<>> => Head(queue) \in Lines
    BY <1>1, HeadOf
  <2> QED  BY <1>1, <2>1 DEF LineState
<1>3. due \in Int
  BY <1>2
<1>4. next_wake_time(lim, queue, line) = Max({now, due})
  BY DEF next_wake_time
<1> HIDE DEF due
<1>5. Max({now, due}) \in Int
  BY <1>1, <1>3, OfTwo
<1> QED  BY <1>3, <1>4, <1>5 DEF due

LEMMA BaseInit == Init => Base
<1> SUFFICES ASSUME Init PROVE Base
  OBVIOUS
<1>1. PICK v \in Versions, kind \in {"default", "boot"} :
        /\ loaded = v /\ todo = SetToSeq(v) /\ context = [kind |-> kind, slept |-> now]
        /\ disk = [loaded |-> v, line |-> [l \in Lines |-> NewLine(l)], t_save |-> 0]
  BY DEF Init
<1>2. v \in SUBSET Lines /\ now \in Nat \ {0} /\ \A l \in Lines : LineOf[l].runfreq \in Int
  BY Delays, ScheduleAssumption DEF ScheduleAssumption, Init
<1>3. todo \in Seq(v) /\ Once(todo) /\ ToSet(todo) = v
  BY <1>1, <1>2, Finite, SetToSeqIs
<1>4. todo \in Seq(Lines)
  BY <1>2, <1>3
<1>5. [l \in Lines |-> NewLine(l)] \in [Lines -> LineState]
  BY <1>2 DEF NewLine, LineState
<1>6. disk \in [loaded : SUBSET Lines, line : [Lines -> LineState], t_save : Nat]
      /\ line \in [Lines -> LineState]
  BY <1>1, <1>2, <1>5 DEF Init
<1>7. <<>> \in Seq(Lines) /\ <<>> \in Seq(TdLines) /\ ToSet(<<>>) = {}
  BY DEF ToSet
<1>8. Typed
  <2>1. context \in [kind : {"default", "boot", "resume"}, slept : Int]
    BY <1>1, <1>2
  <2>2. up \in [Lines -> Int]
    BY DEF Init
  <2>3. Entries(lavgq, loaded)
    BY NoEntries DEF Init
  <2>4. /\ at \in Places /\ save \in Int /\ nwt \in Int /\ away \in Int
        /\ queue \in Seq(Lines) /\ serialq \in Seq(TdLines) /\ behind \in BOOLEAN
    <3>1. /\ at = "load" /\ save = now /\ nwt = now /\ away = 0
          /\ queue = <<>> /\ serialq = <<>> /\ behind = FALSE
      BY DEF Init
    <3>2. save \in Int /\ nwt \in Int /\ away \in Int
      BY <3>1, <1>2
    <3>3. queue \in Seq(Lines) /\ serialq \in Seq(TdLines)
      BY <3>1, <1>7
    <3>4. at \in Places
      BY <3>1 DEF Places
    <3> QED  BY <3>1, <3>2, <3>3, <3>4
  <2> QED  BY <1>1, <1>2, <1>4, <1>6, <2>1, <2>2, <2>3, <2>4 DEF Typed
<1>9. Sorted
  BY <1>7 DEF Init, Sorted, Once, InOrder
<1>10. ToLoad
  BY <1>1, <1>3 DEF Init, ToLoad
<1> QED  BY <1>8, <1>9, <1>10 DEF Base

LEMMA StartBase ==
  ASSUME Base, AllNumbers', NEW l \in Lines, StartLine(l)
  PROVE  Base'
<1>1. Changed(l) /\ (Skipped(l) \/ Moved(l) \/ Stays(l)) /\ Loading(l)
  BY StartIs
<1>2. /\ l \in loaded /\ todo' \in Seq(Lines) /\ ToSet(todo) = {l} \cup ToSet(todo')
      /\ Once(todo) => Once(todo')
  BY <1>1, LoadingIs
<1>3. UNCHANGED <<now, at, loaded, context, save, nwt, disk, away, up, behind>>
  BY <1>1 DEF Loading
<1>4. Typed'
  BY <1>1, <1>2, <1>3 DEF Base, Typed, Changed
<1>5. Sorted'
  <2>1. ToSet(queue') \subseteq loaded
    BY <1>1, <1>2 DEF Base, Sorted, Skipped, Moved, Stays
  <2> QED  BY <1>1, <1>3, <2>1 DEF Sorted, Changed
<1>6. ToLoad'
  BY <1>2, <1>3 DEF Base, ToLoad
<1> QED  BY <1>4, <1>5, <1>6 DEF Base

(* Steps that leave the lines and queue_base as they are.                  *)
LEMMA SameLines ==
  ASSUME Base, Typed', ToLoad', UNCHANGED <<line, queue, loaded>>
  PROVE  Base'
<1>1. Sorted'
  BY DEF Base, Sorted
<1> QED  BY <1>1 DEF Base

LEMMA EndLoadBase ==
  ASSUME Base, EndLoad
  PROVE  Base'
<1>1. /\ at' = "select" /\ save' = now + SaveTime
      /\ context' = [kind |-> "default", slept |-> 0]
      /\ disk' = Saved \/ disk' = disk
      /\ UNCHANGED <<now, loaded, line, queue, todo, lavgq, serialq, away, up, behind>>
  BY DEF EndLoad
<1>2. Typed
  BY DEF Base
<1>3. save' \in Int /\ now \in Int /\ now + FirstSleep \in Int
  BY <1>1, <1>2, Delays DEF Typed
<1>4. nwt' \in Int
  <2>1. PICK lim \in Int : lim = save'
    BY <1>3
  <2>2. next_wake_time(lim, queue, line) \in Int
    BY <1>2, NextWake
  <2>3. nwt' = now + FirstSleep
        \/ nwt' = Max({next_wake_time(lim, queue, line), now + FirstSleep})
    BY <2>1 DEF EndLoad
  <2> QED  BY <1>3, <2>2, <2>3, MaxInt
<1>5. disk' \in [loaded : SUBSET Lines, line : [Lines -> LineState], t_save : Nat]
  BY <1>1, <1>2 DEF Saved, Typed
<1>6. Typed'
  BY <1>1, <1>2, <1>3, <1>4, <1>5 DEF Typed, Places
<1>7. ToLoad'
  BY <1>1 DEF ToLoad
<1> QED  BY <1>1, <1>6, <1>7, SameLines

LEMMA WakeIs ==
  ASSUME Base, WakeOnTime \/ WakeLate \/ WakeEarly \/ Suspend
  PROVE  \E t \in Nat, slept \in Nat :
           /\ Wake(t, slept) /\ t >= now + slept /\ slept < t
<1>1. now \in Nat \ {0} /\ nwt \in Int
  BY DEF Base, Typed
<1>2. PICK m \in Int : m = Max({now, nwt}) /\ m >= now
  BY <1>1, MaxInt
<1>3. m \in Nat \ {0}
  BY <1>1, <1>2
<1>4. CASE WakeOnTime
  BY <1>1, <1>2, <1>3, <1>4 DEF WakeOnTime
<1>5. CASE WakeLate
  <2>1. PICK d \in Late : Wake(m + d, 0)
    BY <1>2, <1>5 DEF WakeLate
  <2>2. d \in Nat
    BY Delays
  <2>3. m + d \in Nat /\ m + d >= now + 0 /\ 0 < m + d
    BY <1>1, <1>2, <1>3, <2>2
  <2> QED  BY <2>1, <2>3
<1>6. CASE WakeEarly
  <2>1. nwt > now + 1 /\ Wake(now + (nwt - now) \div 2, 0)
    BY <1>6 DEF WakeEarly
  <2>2. (nwt - now) \div 2 \in Nat
    BY <1>1, <2>1
  <2>3. PICK k \in Nat : k = (nwt - now) \div 2
    BY <2>2
  <2>4. now + k \in Nat /\ now + k >= now + 0 /\ 0 < now + k
    BY <1>1
  <2> QED  BY <2>1, <2>3, <2>4
<1>7. CASE Suspend
  <2>1. PICK d \in Pauses : Wake(now + d, d)
    BY <1>7 DEF Suspend
  <2>2. d \in Nat
    BY Delays
  <2>3. now + d \in Nat /\ now + d >= now + d /\ d < now + d
    BY <1>1, <2>2
  <2> QED  BY <2>1, <2>2, <2>3
<1> QED  BY <1>4, <1>5, <1>6, <1>7

LEMMA WakeBase ==
  ASSUME Base, WakeOnTime \/ WakeLate \/ WakeEarly \/ Suspend
  PROVE  Base'
<1>1. PICK t \in Nat, slept \in Nat : Wake(t, slept) /\ t >= now + slept /\ slept < t
  BY WakeIs
<1>2. /\ at' = "signal" /\ now' = t /\ context' = [kind |-> "resume", slept |-> slept]
      /\ away' = away + slept
      /\ UNCHANGED <<loaded, line, queue, todo, lavgq, serialq, save, nwt, disk, up, behind>>
  BY <1>1 DEF Wake
<1>3. now' \in Nat \ {0} /\ away' \in Int
  BY <1>1, <1>2 DEF Base, Typed
<1>4. Typed'
  BY <1>1, <1>2, <1>3 DEF Base, Typed, Places
<1>5. ToLoad'
  BY <1>2 DEF ToLoad
<1> QED  BY <1>2, <1>4, <1>5, SameLines

LEMMA HupBase ==
  ASSUME Base, AllNumbers', Hup \/ HupLate
  PROVE  Base'
<1>1. PICK v \in Versions : Synchronize(v)
  BY DEF Hup, HupLate, ServeHup
<1>2. /\ at \in {"signal", "sleep"} /\ behind' \in {behind, TRUE}
      /\ UNCHANGED <<now, at, todo, context, save, nwt, away>>
  BY DEF Hup, HupLate, ServeHup
<1>3. /\ v \in SUBSET Lines /\ loaded' = v /\ lavgq' = <<>> /\ serialq' = <<>>
      /\ line' \in [Lines -> LineState]
      /\ queue' \in Seq(Lines) /\ Once(queue') /\ InOrder(queue', line')
      /\ ToSet(queue') = {l \in v : ~(Is(l, "runonce") /\ line'[l].hasrun)}
      /\ disk' = [loaded |-> v, line |-> line', t_save |-> now]
      /\ up' = [l \in Lines |-> IF l \in v \cap loaded THEN up[l] ELSE 0]
  BY <1>1, SynchronizeIs
<1>4. Typed'
  <2>1. <<>> \in Seq(TdLines) /\ Entries(<<>>, loaded')
    BY NoEntries
  <2>2. up' \in [Lines -> Int]
    BY <1>3 DEF Base, Typed
  <2>3. disk' \in [loaded : SUBSET Lines, line : [Lines -> LineState], t_save : Nat]
    BY <1>3 DEF Base, Typed
  <2>4. behind' \in BOOLEAN
    BY <1>2 DEF Base, Typed
  <2> QED  BY <1>2, <1>3, <2>1, <2>2, <2>3, <2>4 DEF Base, Typed
<1>5. Sorted'
  BY <1>3 DEF Sorted
<1>6. ToLoad'
  BY <1>2 DEF Base, ToLoad
<1> QED  BY <1>4, <1>5, <1>6 DEF Base

LEMMA CheckSuspendIs ==
  ASSUME Base, CheckSuspend
  PROVE  /\ todo' \in Seq(Lines) /\ ToSet(todo') \subseteq loaded
         /\ context.slept > 0 => ToSet(todo') = loaded
<1>1. loaded \in SUBSET Lines
  BY DEF Base, Typed
<1>2. SetToSeq(loaded) \in Seq(loaded) /\ ToSet(SetToSeq(loaded)) = loaded
  BY <1>1, Finite, SetToSeqIs
<1>3. SetToSeq(loaded) \in Seq(Lines) /\ <<>> \in Seq(Lines) /\ ToSet(<<>>) = {}
  BY <1>1, <1>2 DEF ToSet
<1>4. todo' = IF context.slept > 0 THEN SetToSeq(loaded) ELSE <<>>
  BY DEF CheckSuspend
<1> QED  BY <1>2, <1>3, <1>4

LEMMA LoopBase ==
  ASSUME Base, CheckSuspend \/ EndResume \/ Sleep
  PROVE  Base'
<1>1. CASE CheckSuspend
  <2>1. todo' \in Seq(Lines) /\ ToSet(todo') \subseteq loaded
    BY <1>1, CheckSuspendIs
  <2>2. /\ at = "signal" /\ at' = "resume"
        /\ UNCHANGED <<now, loaded, line, queue, context, lavgq, serialq, save, nwt, disk,
                       away, up, behind>>
    BY <1>1 DEF CheckSuspend
  <2>3. Typed'
    BY <2>1, <2>2 DEF Base, Typed, Places
  <2>4. ToLoad'
    BY <2>1, <2>2 DEF Base, ToLoad
  <2> QED  BY <2>2, <2>3, <2>4, SameLines
<1>2. CASE EndResume
  <2>1. Typed'
    BY <1>2 DEF EndResume, Base, Typed, Places
  <2>2. ToLoad'
    BY <1>2 DEF EndResume, ToLoad
  <2>3. UNCHANGED <<line, queue, loaded>>
    BY <1>2 DEF EndResume
  <2> QED  BY <2>1, <2>2, <2>3, SameLines
<1>3. CASE Sleep
  <2>1. Typed'
    BY <1>3 DEF Sleep, Base, Typed, Places
  <2>2. ToLoad'
    BY <1>3 DEF Sleep, ToLoad
  <2>3. UNCHANGED <<line, queue, loaded>>
    BY <1>3 DEF Sleep
  <2> QED  BY <2>1, <2>2, <2>3, SameLines
<1> QED  BY <1>1, <1>2, <1>3

LEMMA RunIs ==
  ASSUME Typed, NEW ls, Run(ls)
  PROVE  /\ up' \in [Lines -> Int]
         /\ \A l \in Lines : up'[l] = IF l \in ls THEN now - away ELSE up[l]
BY DEF Run, Typed

LEMMA TestBase ==
  ASSUME Base, AllNumbers', TestJob
  PROVE  Base'
<1>1. PICK l \in loaded : /\ Changed(l)
                          /\ \/ ToSet(queue') = ToSet(queue) \ {l}
                             \/ ToSet(queue') = ToSet(queue) \cup {l}
  BY TestIs
<1>2. /\ at = "test"
      /\ UNCHANGED <<now, at, loaded, todo, context, serialq, save, nwt, disk, away, behind>>
  BY DEF TestJob
<1>3. up' \in [Lines -> Int]
  <2>1. \E ls : Run(ls)
    BY DEF TestJob
  <2> QED  BY <2>1, RunIs DEF Base
<1>4. Typed'
  BY <1>1, <1>2, <1>3 DEF Base, Typed, Changed
<1>5. Sorted'
  <2>1. ToSet(queue') \subseteq loaded
    BY <1>1 DEF Base, Sorted
  <2> QED  BY <1>1, <1>2, <2>1 DEF Sorted, Changed
<1>6. ToLoad'
  BY <1>2 DEF ToLoad
<1> QED  BY <1>4, <1>5, <1>6 DEF Base

LEMMA EndTestBase ==
  ASSUME Base, EndTest
  PROVE  Base'
<1>1. /\ at' = "lavg" /\ serialq' = <<>>
      /\ save' = now + SaveTime \/ save' = save
      /\ disk' = Saved \/ disk' = disk
      /\ UNCHANGED <<now, loaded, line, queue, todo, context, lavgq, nwt, away, behind>>
  BY DEF EndTest
<1>2. up' \in [Lines -> Int]
  <2>1. \E ls : Run(ls)
    BY DEF EndTest
  <2> QED  BY <2>1, RunIs DEF Base
<1>3. save' \in Int
  BY <1>1, Delays DEF Base, Typed
<1>4. disk' \in [loaded : SUBSET Lines, line : [Lines -> LineState], t_save : Nat]
  BY <1>1 DEF Saved, Base, Typed
<1>5. Typed'
  BY <1>1, <1>2, <1>3, <1>4 DEF Base, Typed, Places
<1>6. ToLoad'
  BY <1>1 DEF ToLoad
<1> QED  BY <1>1, <1>5, <1>6, SameLines

LEMMA LateBase ==
  ASSUME Base, AllNumbers', LavgLate
  PROVE  Base'
<1>1. /\ Entries(lavgq', loaded) /\ serialq' = serialq
      /\ \/ line' = line /\ queue' = queue
         \/ \E l \in loaded : Changed(l) /\ ToSet(queue') = ToSet(queue) \cup {l}
  BY LateIs
<1>2. /\ at = "lavg"
      /\ UNCHANGED <<now, at, loaded, todo, context, serialq, save, nwt, disk, away, behind>>
  BY DEF LavgLate
<1>3. up' \in [Lines -> Int]
  <2>1. \E ls : Run(ls)
    BY DEF LavgLate
  <2> QED  BY <2>1, RunIs DEF Base
<1>4. /\ line' \in [Lines -> LineState] /\ queue' \in Seq(Lines)
      /\ Once(queue') /\ InOrder(queue', line') /\ ToSet(queue') \subseteq loaded
  BY <1>1 DEF Base, Typed, Sorted, Changed
<1>5. Typed'
  BY <1>1, <1>2, <1>3, <1>4 DEF Base, Typed
<1>6. Sorted'
  BY <1>2, <1>4 DEF Sorted
<1>7. ToLoad'
  BY <1>2 DEF ToLoad
<1> QED  BY <1>5, <1>6, <1>7 DEF Base

(* check_lavg() sets the time to wake at.                                  *)
LEMMA LavgRunIs ==
  ASSUME Base, LavgRun
  PROVE  /\ Entries(lavgq', loaded) /\ nwt' \in Int
         /\ nwt' <= next_wake_time(save, queue, line)
         /\ \E low : Run(low) /\ \A l \in low : Is(l, "lavg")
<1>1. PICK low \in SUBSET {lavgq[i].line : i \in 1..Len(lavgq)} :
        LET left == Keep(lavgq, {i \in 1..Len(lavgq) : lavgq[i].line \notin low})
            wake == next_wake_time(save, queue, line)
        IN  /\ lavgq' = left
            /\ Run(low)
            /\ nwt' = IF left = <<>> THEN wake ELSE Min({now + LAVG_SLEEP, wake})
  BY DEF LavgRun
<1> DEFINE left == {i \in 1..Len(lavgq) : lavgq[i].line \notin low}
<1>2. Typed
  BY DEF Base
<1>3. Entries(lavgq', loaded)
  <2>1. Entries(lavgq, loaded) /\ left \in SUBSET (1..Len(lavgq)) /\ lavgq' = Keep(lavgq, left)
    BY <1>1, <1>2 DEF Typed
  <2> HIDE DEF left
  <2> QED  BY <2>1, EntriesKept
<1>4. save \in Int /\ now + LAVG_SLEEP \in Int
  BY <1>2, Delays DEF Typed
<1>5. PICK w \in Int : w = next_wake_time(save, queue, line)
  BY <1>2, <1>4, NextWake
<1>6. nwt' = w \/ nwt' = Min({now + LAVG_SLEEP, w})
  BY <1>1, <1>5
<1>7. nwt' \in Int /\ nwt' <= w
  <2>1. PICK a \in Int : a = now + LAVG_SLEEP
    BY <1>4
  <2>2. Min({a, w}) = IF a <= w THEN a ELSE w
    BY OfTwo
  <2> QED  BY <1>6, <2>1, <2>2
<1>8. \A l \in low : Is(l, "lavg")
  <2> TAKE l \in low
  <2>1. PICK i \in 1..Len(lavgq) : l = lavgq[i].line
    OBVIOUS
  <2>2. Entries(lavgq, loaded)
    BY <1>2 DEF Typed
  <2> HIDE DEF left
  <2> QED  BY <2>1, <2>2, EntryIs
<1> QED  BY <1>1, <1>3, <1>5, <1>7, <1>8

LEMMA LavgRunBase ==
  ASSUME Base, LavgRun
  PROVE  Base'
<1>1. Entries(lavgq', loaded) /\ nwt' \in Int /\ \E low : Run(low)
  BY LavgRunIs
<1>2. /\ at' = "sleep" /\ behind' = FALSE
      /\ UNCHANGED <<now, loaded, line, queue, todo, context, serialq, save, disk, away>>
  BY DEF LavgRun
<1>3. up' \in [Lines -> Int]
  BY <1>1, RunIs DEF Base
<1>4. Typed'
  BY <1>1, <1>2, <1>3 DEF Base, Typed, Places
<1>5. ToLoad'
  BY <1>2 DEF ToLoad
<1> QED  BY <1>2, <1>4, <1>5, SameLines

LEMMA RestartIs ==
  ASSUME Base, NEW how, Restart(how)
  PROVE  \E d \in Nat, kind \in {"default", "boot"}, d0 \in {disk, Saved} :
           /\ how = "stop" => d0 = Saved
           /\ at = "select" /\ at' = "load" /\ now' = now + d /\ away' = away + d
           /\ disk' = d0 /\ loaded' = d0.loaded /\ line' = d0.line
           /\ todo' \in Seq(Lines) /\ Once(todo') /\ ToSet(todo') = d0.loaded
           /\ context' = [kind |-> kind, slept |-> now' - d0.t_save]
           /\ queue' = <<>> /\ lavgq' = <<>> /\ serialq' = <<>> /\ behind' = FALSE
           /\ up' = IF how = "stop" THEN up ELSE [l \in Lines |-> 0]
           /\ UNCHANGED <<save, nwt>>
<1>1. PICK d \in Pauses, kind \in {"default"} \cup (Env \cap {"boot"}) :
        LET d0 == IF how = "stop" THEN Saved ELSE disk
        IN  /\ now' = now + d
            /\ disk' = d0 /\ loaded' = d0.loaded /\ line' = d0.line
            /\ todo' = SetToSeq(d0.loaded)
            /\ context' = [kind |-> kind, slept |-> now' - d0.t_save]
            /\ away' = away + d
  BY DEF Restart
<1> DEFINE d0 == IF how = "stop" THEN Saved ELSE disk
<1>2. d \in Nat /\ kind \in {"default", "boot"} /\ d0 \in {disk, Saved}
      /\ (how = "stop" => d0 = Saved)
  BY <1>1, Delays
<1>3. d0.loaded \in SUBSET Lines
  BY DEF Base, Typed, Saved
<1>4. PICK D : D = d0
  OBVIOUS
<1>5. /\ SetToSeq(D.loaded) \in Seq(D.loaded) /\ Once(SetToSeq(D.loaded))
      /\ ToSet(SetToSeq(D.loaded)) = D.loaded
  BY <1>3, <1>4, Finite, SetToSeqIs
<1>6. SetToSeq(D.loaded) \in Seq(Lines)
  BY <1>3, <1>4, <1>5
<1>7. /\ at = "select" /\ at' = "load"
      /\ queue' = <<>> /\ lavgq' = <<>> /\ serialq' = <<>> /\ behind' = FALSE
      /\ up' = IF how = "stop" THEN up ELSE [l \in Lines |-> 0]
      /\ UNCHANGED <<save, nwt>>
  BY DEF Restart
<1>8. /\ now' = now + d /\ disk' = D /\ loaded' = D.loaded /\ line' = D.line
      /\ todo' = SetToSeq(D.loaded)
      /\ context' = [kind |-> kind, slept |-> now' - D.t_save]
      /\ away' = away + d
  BY <1>1, <1>4
<1>9. D \in {disk, Saved} /\ (how = "stop" => D = Saved)
  BY <1>2, <1>4
<1> HIDE DEF d0
<1> QED  BY <1>2, <1>5, <1>6, <1>7, <1>8, <1>9

LEMMA RestartBase ==
  ASSUME Base, NEW how, Restart(how)
  PROVE  Base'
<1>1. PICK d \in Nat, kind \in {"default", "boot"}, d0 \in {disk, Saved} :
           /\ at = "select" /\ at' = "load" /\ now' = now + d /\ away' = away + d
           /\ disk' = d0 /\ loaded' = d0.loaded /\ line' = d0.line
           /\ todo' \in Seq(Lines) /\ Once(todo') /\ ToSet(todo') = d0.loaded
           /\ context' = [kind |-> kind, slept |-> now' - d0.t_save]
           /\ queue' = <<>> /\ lavgq' = <<>> /\ serialq' = <<>> /\ behind' = FALSE
           /\ up' = IF how = "stop" THEN up ELSE [l \in Lines |-> 0]
           /\ UNCHANGED <<save, nwt>>
  BY RestartIs
<1>2. d0 \in [loaded : SUBSET Lines, line : [Lines -> LineState], t_save : Nat]
  BY DEF Base, Typed, Saved
<1>3. now' \in Nat \ {0} /\ away' \in Int
  BY <1>1 DEF Base, Typed
<1>4. d0.loaded \in SUBSET Lines /\ d0.line \in [Lines -> LineState] /\ d0.t_save \in Nat
  BY <1>2
<1>5. context' \in [kind : {"default", "boot", "resume"}, slept : Int]
  <2>1. now' - d0.t_save \in Int
    BY <1>3, <1>4
  <2> QED  BY <1>1, <2>1
<1>6. up' \in [Lines -> Int]
  BY <1>1 DEF Base, Typed
<1>7. <<>> \in Seq(Lines) /\ <<>> \in Seq(TdLines) /\ ToSet(<<>>) = {}
  BY DEF ToSet
<1>8. Typed'
  BY <1>1, <1>2, <1>3, <1>4, <1>5, <1>6, <1>7, NoEntries DEF Base, Typed, Places
<1>9. Sorted'
  BY <1>1, <1>7 DEF Sorted, Once, InOrder
<1>10. ToLoad'
  BY <1>1 DEF ToLoad
<1> QED  BY <1>8, <1>9, <1>10 DEF Base

LEMMA BaseNext == Base /\ AllNumbers' /\ [Next]_vars => Base'
<1> SUFFICES ASSUME Base, AllNumbers', [Next]_vars PROVE Base'
  OBVIOUS
<1>1. CASE UNCHANGED vars
  BY <1>1 DEF vars, Base, Typed, Sorted, ToLoad
<1>2. CASE Next
  BY <1>2, StartBase, EndLoadBase, WakeBase, HupBase, LoopBase, TestBase, EndTestBase,
     LateBase, LavgRunBase, RestartBase DEF Next
<1> QED  BY <1>1, <1>2

-----------------------------------------------------------------------------
(* The time of an @-line is a number, without a calendar.                  *)

LEMMA FreqTimes ==
  ASSUME Base, NEW l \in Lines, ~Td(l)
  PROVE  /\ FirstTime(l) \in Int /\ PutOff(l) \in Int
         /\ \A o, d : NextExeOf(l, o, 0, d) \in Int
<1>1. /\ TIME_T_MAX \in Int /\ LineOf[l].first \in Int /\ LineOf[l].timefreq \in Int
  BY ScheduleAssumption DEF ScheduleAssumption
<1>2. now \in Int /\ context.slept \in Int /\ line[l].nextexe \in Int
  BY DEF Base, Typed, LineState
<1>3. FirstTime(l) \in Int
  BY <1>1, <1>2 DEF FirstTime
<1>4. PutOff(l) \in Int
  <2> DEFINE t == line[l].nextexe
  <2>1. CASE t < now - context.slept
    BY <1>1, <1>2, <2>1 DEF PutOff
  <2>2. CASE t >= now - context.slept
    BY <1>1, <1>2, <2>2 DEF PutOff
  <2> QED  BY <1>2, <2>1, <2>2
<1>5. ASSUME NEW o, NEW d PROVE NextExeOf(l, o, 0, d) \in Int
  <2>1. CASE LineOf[l].timefreq = TIME_T_MAX
    BY <1>1, <2>1 DEF NextExeOf
  <2>2. CASE LineOf[l].timefreq # TIME_T_MAX
    BY <1>1, <1>2, <2>2 DEF NextExeOf
  <2> QED  BY <2>1, <2>2
<1> QED  BY <1>3, <1>4, <1>5

LEMMA FreqNext ==
  ASSUME Base, [Next]_vars, NEW l \in Lines, ~Td(l)
  PROVE  line'[l].nextexe \in Int
<1>1. line \in [Lines -> LineState] /\ line[l] \in LineState /\ line[l].nextexe \in Int
  BY DEF Base, Typed, LineState
<1>2. ASSUME line' = line PROVE line'[l].nextexe \in Int
  BY <1>1, <1>2
<1>3. ASSUME NEW m \in Lines, NEW r, line' = [line EXCEPT ![m] = r], r.nextexe \in Int \/ m # l
      PROVE  line'[l].nextexe \in Int
  BY <1>1, <1>3
<1>4. ASSUME NEW m \in Lines, StartLine(m) PROVE line'[l].nextexe \in Int
  <2>1. ASSUME NEW s, Insert(m, s), m # l PROVE line'[l].nextexe \in Int
    BY <1>3, <2>1 DEF Insert
  <2>2. CASE SkipRunOnce(m)
    BY <1>2, <2>2 DEF SkipRunOnce
  <2>3. CASE StartTdAtOnce(m)
    BY <2>1, <2>3 DEF StartTdAtOnce
  <2>4. CASE StartTdMissed(m)
    <3>1. m # l /\ \E s : Insert(m, s)
      BY <2>4 DEF StartTdMissed, Overdue
    <3> QED  BY <2>1, <3>1
  <2>5. CASE StartBootrun(m)
    <3>1. m # l /\ \E s : Insert(m, s)
      BY <2>5 DEF StartBootrun, Overdue
    <3> QED  BY <2>1, <3>1
  <2>6. CASE StartTdValid(m)
    <3>1. m # l /\ (line' = [line EXCEPT ![m].hasrun = HasRun(m)] \/ \E s : Insert(m, s))
      BY <2>6 DEF StartTdValid
    <3> QED  BY <1>1, <2>1, <3>1
  <2>7. CASE StartFreq(m)
    <3>1. PICK t : /\ Insert(m, [line[m] EXCEPT !.nextexe = t])
                   /\ t = CASE RunAtOnce(m) -> now
                            [] ~RunAtOnce(m) /\ FromFirst(m) -> FirstTime(m)
                            [] OTHER -> PutOff(m)
      BY <2>7 DEF StartFreq
    <3>2. ~Td(m)
      BY <2>7 DEF StartFreq
    <3>3. now \in Int /\ FirstTime(m) \in Int /\ PutOff(m) \in Int
      BY <3>2, FreqTimes DEF Base, Typed
    <3>4. t \in Int
      <4>1. PICK a \in BOOLEAN : a = RunAtOnce(m)
        BY DEF RunAtOnce
      <4>2. PICK f \in BOOLEAN : f = FromFirst(m)
        BY DEF FromFirst
      <4> QED  BY <3>1, <3>3, <4>1, <4>2
    <3> DEFINE r == [[line[m] EXCEPT !.nextexe = t] EXCEPT !.hasrun = HasRun(m)]
    <3>5. line[m] \in LineState
      BY <1>1
    <3>6. r.nextexe = t
      BY <3>5 DEF LineState
    <3>7. line' = [line EXCEPT ![m] = r]
      BY <3>1 DEF Insert
    <3> HIDE DEF r
    <3> QED  BY <1>3, <3>4, <3>6, <3>7
  <2> QED  BY <1>4, <2>2, <2>3, <2>4, <2>5, <2>6, <2>7 DEF StartLine
<1>5. CASE EndLoad \/ WakeOnTime \/ WakeLate \/ WakeEarly \/ Suspend \/ CheckSuspend
           \/ EndResume \/ EndTest \/ LavgRun \/ Sleep
  BY <1>2, <1>5 DEF EndLoad, WakeOnTime, WakeLate, WakeEarly, Suspend, Wake, CheckSuspend,
                    EndResume, EndTest, LavgRun, Sleep
<1>6. CASE Hup \/ HupLate
  <2>1. PICK v \in Versions : Synchronize(v)
    BY <1>6 DEF Hup, HupLate, ServeHup
  <2>2. PICK d : line' = Taken(v, d)
    BY <2>1 DEF Synchronize
  <2>3. line'[l] = CASE l \in v /\ l \in loaded ->
                [line[l] EXCEPT !.hasrun = @ /\ Is(l, "runonce")]
          [] l \in v /\ l \notin loaded ->
                [NewLine(l) EXCEPT !.nextexe = FirstTime(l)]
          [] OTHER -> line[l]
    BY <2>2 DEF Taken
  <2>4. CASE l \in v /\ l \in loaded
    BY <1>1, <2>3, <2>4 DEF LineState
  <2>5. CASE l \in v /\ l \notin loaded
    <3>1. line'[l].nextexe = FirstTime(l)
      BY <2>3, <2>5 DEF NewLine
    <3> QED  BY <3>1, FreqTimes
  <2>6. CASE l \notin v
    BY <1>1, <2>3, <2>6
  <2> QED  BY <2>4, <2>5, <2>6
<1>7. CASE TestJob
  <2>1. PICK m : m = Head(queue)
    OBVIOUS
  <2>2. m \in Lines
    BY <1>7, <2>1, HeadOf DEF TestJob, Base, Typed
  <2> DEFINE runs == ~Countdown(m)
             over == Is(m, "runonce") /\ (runs \/ line[m].hasrun)
  <2>3. PICK d \in Draws :
          line' = [line EXCEPT ![m] =
                     [nextexe |-> IF over THEN @.nextexe ELSE NextExeOf(m, STD, 0, d),
                      remain  |-> IF runs THEN LineOf[m].runfreq ELSE @.remain - 1,
                      hasrun  |-> @.hasrun \/ runs]]
    BY <1>7, <2>1 DEF TestJob
  <2>4. PICK o \in BOOLEAN : o = over
    OBVIOUS
  <2>5. PICK t : t = IF o THEN line[m].nextexe ELSE NextExeOf(m, STD, 0, d)
    OBVIOUS
  <2>6. PICK n : n = IF runs THEN LineOf[m].runfreq ELSE line[m].remain - 1
    OBVIOUS
  <2>7. PICK h : h = (line[m].hasrun \/ runs)
    OBVIOUS
  <2> DEFINE r == [nextexe |-> t, remain |-> n, hasrun |-> h]
  <2>8. line' = [line EXCEPT ![m] = r]
    BY <2>3, <2>4, <2>5, <2>6, <2>7
  <2>9. m = l => r.nextexe \in Int
    BY <1>1, <2>5, FreqTimes
  <2> HIDE DEF r, runs, over
  <2> QED  BY <1>3, <2>2, <2>8, <2>9
<1>8. CASE LavgLate
  <2>1. PICK i \in 1..Len(lavgq) :
          \/ line' = line
          \/ \E next \in {NextExeOf(lavgq[i].line, NO_GOTO_LOG, 0, d) : d \in Draws} :
               line' = [line EXCEPT ![lavgq[i].line].nextexe = next]
    BY <1>8 DEF LavgLate
  <2>2. PICK m : m = lavgq[i].line
    OBVIOUS
  <2>3. m \in Lines
    BY <2>2, EntryIs DEF Base, Typed
  <2>4. ASSUME NEW d, line' = [line EXCEPT ![m].nextexe = NextExeOf(m, NO_GOTO_LOG, 0, d)]
        PROVE  line'[l].nextexe \in Int
    <3>1. PICK t : t = NextExeOf(m, NO_GOTO_LOG, 0, d)
      OBVIOUS
    <3>2. m = l => t \in Int
      BY <3>1, FreqTimes
    <3> DEFINE r == [line[m] EXCEPT !.nextexe = t]
    <3>3. line[m] \in LineState
      BY <1>1, <2>3
    <3>4. r.nextexe = t
      BY <3>3 DEF LineState
    <3>5. line' = [line EXCEPT ![m] = r]
      BY <2>4, <3>1
    <3> HIDE DEF r
    <3> QED  BY <1>3, <2>3, <3>2, <3>4, <3>5
  <2> QED  BY <1>2, <2>1, <2>2, <2>4
<1>9. CASE Restart("stop") \/ Restart("crash")
  <2>1. line' = line \/ line' = disk.line
    BY <1>9 DEF Restart, Saved
  <2>2. disk.line \in [Lines -> LineState]
    BY DEF Base, Typed
  <2> QED  BY <1>1, <2>1, <2>2 DEF LineState
<1>10. CASE UNCHANGED vars
  BY <1>2, <1>10 DEF vars
<1> QED  BY <1>4, <1>5, <1>6, <1>7, <1>8, <1>9, <1>10 DEF Next

LEMMA NumbersNext == Base /\ TimesAreNumbers' /\ [Next]_vars => AllNumbers'
BY FreqNext DEF TimesAreNumbers, AllNumbers, Td, Is

-----------------------------------------------------------------------------
(* Which lines are in queue_base.                                          *)

(* The code puts a line back that check_lavg() gives up, even one that runs *)
(* once and counts as run.                                                 *)
NoneGivenUp ==
  \A l \in Lines : ~(Is(l, "runonce") /\ Is(l, "lavg") /\ Is(l, "strict") /\ Percent(l))

Due(l) == ~(Is(l, "runonce") /\ line[l].hasrun)

QueueHeld ==
  ToSet(queue) = {l \in loaded : Due(l) /\ (at = "load" => l \notin ToSet(todo))}

LEMMA HeldInit == Init => QueueHeld
<1> SUFFICES ASSUME Init PROVE QueueHeld
  OBVIOUS
<1>1. loaded \in SUBSET Lines
  BY BaseInit DEF Base, Typed
<1>2. todo = SetToSeq(loaded) /\ at = "load" /\ queue = <<>>
  BY DEF Init
<1>3. ToSet(todo) = loaded
  BY <1>1, <1>2, Finite, SetToSeqIs
<1>4. ToSet(queue) = {}
  BY <1>2 DEF ToSet
<1> QED  BY <1>2, <1>3, <1>4 DEF QueueHeld

LEMMA SameHeld ==
  ASSUME QueueHeld, UNCHANGED <<line, queue, loaded>>, at # "load" \/ todo = <<>>,
         at' # "load"
  PROVE  QueueHeld'
<1>1. ToSet(<<>>) = {}
  BY DEF ToSet
<1>2. ToSet(queue) = {l \in loaded : Due(l)}
  BY <1>1 DEF QueueHeld
<1>3. \A l \in Lines : Due(l)' = Due(l)
  BY DEF Due
<1> QED  BY <1>2 DEF QueueHeld, Due

LEMMA HeldNext ==
  ASSUME NoneGivenUp, Base, Base', QueueHeld, AllNumbers', [Next]_vars
  PROVE  QueueHeld'
<1>0. loaded \subseteq Lines
  BY DEF Base, Typed
<1>1. ASSUME NEW l \in Lines, StartLine(l)
      PROVE  QueueHeld'
  <2>1. /\ Changed(l) /\ (Skipped(l) \/ Moved(l) \/ Stays(l)) /\ Loading(l)
    BY <1>1, StartIs
  <2>2. /\ l \in ToSet(todo) /\ l \in loaded /\ ToSet(todo) = {l} \cup ToSet(todo')
        /\ Once(todo) => l \notin ToSet(todo')
    BY <2>1, LoadingIs
  <2>3. at' = at /\ loaded' = loaded /\ at \in {"load", "resume"}
    BY <2>1 DEF Loading
  <2>4. at = "load" => l \notin ToSet(todo') /\ context.kind # "resume"
    BY <2>2 DEF Base, ToLoad
  <2>5. \A m \in Lines : m # l => line'[m] = line[m]
    BY <2>1 DEF Changed
  <2>6. \A m \in loaded : m # l => (m \in ToSet(queue')
          <=> ~(Is(m, "runonce") /\ line'[m].hasrun) /\ (at = "load" => m \notin ToSet(todo')))
    <3> SUFFICES ASSUME NEW m \in loaded, m # l
                 PROVE  m \in ToSet(queue') <=>
                          /\ ~(Is(m, "runonce") /\ line'[m].hasrun)
                          /\ at = "load" => m \notin ToSet(todo')
      OBVIOUS
    <3>1. m \in ToSet(queue') <=> m \in ToSet(queue)
      BY <2>1 DEF Skipped, Moved, Stays
    <3>2. m \in ToSet(todo') <=> m \in ToSet(todo)
      BY <2>2
    <3>3. line'[m] = line[m]
      BY <1>0, <2>5
    <3> QED  BY <3>1, <3>2, <3>3 DEF QueueHeld, Due
  <2>7. l \in ToSet(queue')
          <=> ~(Is(l, "runonce") /\ line'[l].hasrun) /\ (at = "load" => l \notin ToSet(todo'))
    <3>1. CASE Skipped(l)
      <4>1. l \notin ToSet(queue) /\ Is(l, "runonce") /\ line'[l].hasrun
        BY <3>1 DEF Skipped, QueueHeld, Due
      <4> QED  BY <3>1, <4>1 DEF Skipped
    <3>2. CASE Moved(l)
      BY <3>2, <2>4 DEF Moved
    <3>3. CASE Stays(l)
      <4>1. at # "load"
        BY <3>3, <2>4 DEF Stays
      <4>2. l \in ToSet(queue) /\ queue' = queue
        BY <4>1, <3>3, <2>2 DEF Stays, QueueHeld, Due
      <4> QED  BY <3>3, <4>1, <4>2 DEF Stays
    <3> QED  BY <2>1, <3>1, <3>2, <3>3
  <2>8. ToSet(queue') \subseteq loaded
    BY <2>3 DEF Base, Sorted
  <2>9. ToSet(queue') =
          {m \in loaded : /\ ~(Is(m, "runonce") /\ line'[m].hasrun)
                          /\ at = "load" => m \notin ToSet(todo')}
    BY <2>6, <2>7, <2>8
  <2> QED  BY <2>3, <2>9 DEF QueueHeld, Due
<1>2. CASE EndLoad \/ EndResume \/ CheckSuspend \/ Sleep \/ EndTest \/ LavgRun
  <2>1. /\ UNCHANGED <<line, queue, loaded>> /\ at' # "load"
        /\ at # "load" \/ todo = <<>>
    BY <1>2 DEF EndLoad, EndResume, CheckSuspend, Sleep, EndTest, LavgRun
  <2> QED  BY <2>1, SameHeld
<1>3. CASE WakeOnTime \/ WakeLate \/ WakeEarly \/ Suspend
  <2>1. PICK t \in Nat, slept \in Nat : Wake(t, slept)
    BY <1>3, WakeIs
  <2>2. UNCHANGED <<line, queue, loaded>> /\ at' # "load" /\ at # "load"
    BY <2>1 DEF Wake
  <2> QED  BY <2>2, SameHeld
<1>4. CASE Hup \/ HupLate
  <2>1. PICK v \in Versions : Synchronize(v)
    BY <1>4 DEF Hup, HupLate, ServeHup
  <2>2. loaded' = v /\ ToSet(queue') = {l \in v : ~(Is(l, "runonce") /\ line'[l].hasrun)}
    BY <2>1, SynchronizeIs
  <2>3. at' # "load"
    BY <1>4 DEF Hup, HupLate, ServeHup
  <2> QED  BY <2>2, <2>3 DEF QueueHeld, Due
<1>5. CASE TestJob
  <2>1. PICK l \in loaded, d \in Draws :
           LET runs == ~Countdown(l)
               over == Is(l, "runonce") /\ (runs \/ line[l].hasrun)
           IN  /\ l = Head(queue) /\ Changed(l)
               /\ ToSet(queue') = IF over THEN ToSet(queue) \ {l} ELSE ToSet(queue) \cup {l}
               /\ line'[l].hasrun = (line[l].hasrun \/ runs)
    BY <1>5, TestIs
  <2>2. at' = at /\ at = "test" /\ loaded' = loaded
    BY <1>5 DEF TestJob
  <2>3. \A m \in loaded : m # l => line'[m] = line[m]
    BY <1>0, <2>1 DEF Changed
  <2>4. ToSet(queue) = {m \in loaded : ~(Is(m, "runonce") /\ line[m].hasrun)}
    BY <2>2 DEF QueueHeld, Due
  <2>5. PICK h \in BOOLEAN : h = (line[l].hasrun \/ ~Countdown(l))
    OBVIOUS
  <2>6. line'[l].hasrun = h
    BY <2>1, <2>5
  <2>7. ToSet(queue') = IF Is(l, "runonce") /\ h THEN ToSet(queue) \ {l} ELSE ToSet(queue) \cup {l}
    <3>1. (Is(l, "runonce") /\ (~Countdown(l) \/ line[l].hasrun)) <=> (Is(l, "runonce") /\ h)
      BY <2>5
    <3> QED  BY <2>1, <3>1
  <2>8. ToSet(queue') = {m \in loaded : ~(Is(m, "runonce") /\ line'[m].hasrun)}
    <3>1. \A m \in loaded : m # l =>
            (m \in ToSet(queue') <=> ~(Is(m, "runonce") /\ line'[m].hasrun))
      BY <2>3, <2>4, <2>7
    <3>2. l \in ToSet(queue') <=> ~(Is(l, "runonce") /\ line'[l].hasrun)
      BY <2>6, <2>7
    <3>3. ToSet(queue') \subseteq loaded
      BY <2>4, <2>7
    <3> QED  BY <3>1, <3>2, <3>3
  <2> QED  BY <2>2, <2>8 DEF QueueHeld, Due
<1>6. CASE LavgLate
  <2>1. at' = at /\ at = "lavg" /\ loaded' = loaded
    BY <1>6 DEF LavgLate
  <2>2. CASE line' = line /\ queue' = queue
    BY <2>1, <2>2, SameHeld
  <2>3. ASSUME NEW l \in loaded, Is(l, "lavg"), Is(l, "strict"), Percent(l), Changed(l),
               ToSet(queue') = ToSet(queue) \cup {l}, line'[l].hasrun = line[l].hasrun
        PROVE  QueueHeld'
    <3>1. ~Is(l, "runonce")
      BY <1>0, <2>3 DEF NoneGivenUp
    <3>2. \A m \in loaded : m # l => line'[m] = line[m]
      BY <1>0, <2>3 DEF Changed
    <3>3. ToSet(queue) = {m \in loaded : ~(Is(m, "runonce") /\ line[m].hasrun)}
      BY <2>1 DEF QueueHeld, Due
    <3>4. ToSet(queue') = {m \in loaded : ~(Is(m, "runonce") /\ line'[m].hasrun)}
      BY <2>3, <3>1, <3>2, <3>3
    <3> QED  BY <2>1, <3>4 DEF QueueHeld, Due
  <2> QED  BY <1>6, <2>2, <2>3, LateIs
<1>7. ASSUME NEW how, Restart(how)
      PROVE  QueueHeld'
  <2>1. at' = "load" /\ queue' = <<>> /\ ToSet(todo') = loaded'
    <3>1. PICK d0 \in {disk, Saved} :
            at' = "load" /\ loaded' = d0.loaded /\ ToSet(todo') = d0.loaded /\ queue' = <<>>
      BY <1>7, RestartIs
    <3> QED  BY <3>1
  <2>2. ToSet(<<>>) = {}
    BY DEF ToSet
  <2> QED  BY <2>1, <2>2 DEF QueueHeld
<1>8. CASE UNCHANGED vars
  BY <1>8 DEF vars, QueueHeld, Due
<1> QED  BY <1>1, <1>2, <1>3, <1>4, <1>5, <1>6, <1>7, <1>8 DEF Next

LEMMA HeldIsExact == Base /\ QueueHeld => QueueExact
<1> SUFFICES ASSUME Base, QueueHeld PROVE QueueExact
  OBVIOUS
<1>1. queue \in Seq(Lines) /\ Once(queue) /\ InOrder(queue, line)
  BY DEF Base, Typed, Sorted
<1>2. Len(queue) \in Nat
  BY <1>1, ToSetIs
<1>3. ASSUME NEW i \in 1..Len(queue) - 1
      PROVE  line[queue[i]].nextexe <= line[queue[i + 1]].nextexe
  <2>1. i \in 1..Len(queue) /\ i + 1 \in 1..Len(queue) /\ i < i + 1
    BY <1>2
  <2> QED  BY <1>1, <2>1 DEF InOrder
<1>4. at # "load" => ToSet(queue) = {l \in loaded : ~(Is(l, "runonce") /\ line[l].hasrun)}
  BY DEF QueueHeld, Due
<1>5. Len(queue) = Cardinality(ToSet(queue))
  <2>1. queue \in [1..Len(queue) -> ToSet(queue)]
    <3>1. queue = [i \in 1..Len(queue) |-> queue[i]]
      BY <1>1, LenProperties
    <3> QED  BY <1>1, <3>1, ToSetIs
  <2>2. queue \in Injection(1..Len(queue), ToSet(queue))
    BY <1>1, <2>1 DEF Once, Injection, IsInjective
  <2>3. queue \in Surjection(1..Len(queue), ToSet(queue))
    <3>1. \A x \in ToSet(queue) : \E i \in 1..Len(queue) : queue[i] = x
      BY <1>1, ToSetIs
    <3> QED  BY <2>1, <3>1 DEF Surjection
  <2>4. queue \in Bijection(1..Len(queue), ToSet(queue))
    BY <2>2, <2>3 DEF Bijection
  <2>5. ExistsBijection(1..Len(queue), ToSet(queue))
    BY <2>4 DEF ExistsBijection
  <2> QED  BY <1>2, <2>5, FS_CountingElements
<1> QED  BY <1>3, <1>4, <1>5 DEF QueueExact

(* queue_base is sorted by due time, and has each line of the fcrontabs     *)
(* once, but for the lines with runonce that have run.                     *)
THEOREM QueueIsExact ==
  ASSUME NoneGivenUp
  PROVE  Spec /\ []TimesAreNumbers => []QueueExact
<1>1. Init => Base /\ QueueHeld
  BY BaseInit, HeldInit
<1>2. Base /\ QueueHeld /\ TimesAreNumbers' /\ [Next]_vars => Base' /\ QueueHeld'
  BY NumbersNext, BaseNext, HeldNext
<1>3. Base /\ QueueHeld => QueueExact
  BY HeldIsExact
<1> QED  BY <1>1, <1>2, <1>3, PTL DEF Spec

-----------------------------------------------------------------------------
(* When the daemon wakes up.                                               *)

InTime ==
  /\ at = "load" => behind = FALSE
  /\ at = "lavg" => save > now
  /\ at = "sleep" \/ (at = "select" /\ behind # FALSE) => nwt <= save
  /\ at \in {"sleep", "select"} /\ behind = FALSE /\ queue # <<>> =>
       nwt <= line[Head(queue)].nextexe \/ nwt <= now + FirstSleep

LEMMA DueIsInt ==
  ASSUME Base, queue # <<>>
  PROVE  line[Head(queue)].nextexe \in Int
<1>1. queue \in Seq(Lines) /\ line \in [Lines -> LineState]
  BY DEF Base, Typed
<1>2. Head(queue) \in Lines
  BY <1>1, HeadOf
<1> QED  BY <1>1, <1>2 DEF LineState

LEMMA InTimeNext ==
  ASSUME Base, InTime, [Next]_vars
  PROVE  InTime'
<1>0. now \in Nat \ {0} /\ save \in Int /\ nwt \in Int /\ FirstSleep \in Nat
  BY Delays DEF Base, Typed
<1>1. ASSUME NEW l \in Lines, StartLine(l)
      PROVE  InTime'
  <2>1. Loading(l)
    BY <1>1 DEF StartLine, SkipRunOnce, StartTdAtOnce, StartTdMissed, StartBootrun,
                StartTdValid, StartFreq, Overdue, Scheduled
  <2>2. at \in {"load", "resume"} /\ at' = at /\ behind' = behind
    BY <2>1 DEF Loading
  <2> QED  BY <2>2 DEF InTime
<1>2. CASE EndLoad
  <2>1. /\ at = "load" /\ at' = "select" /\ save' = now + SaveTime
        /\ UNCHANGED <<now, line, queue, behind>>
        /\ \/ nwt' = now + FirstSleep
           \/ nwt' = Max({next_wake_time(save', queue, line), now + FirstSleep})
    BY <1>2 DEF EndLoad
  <2>2. behind' = FALSE
    BY <2>1 DEF InTime
  <2>3. ASSUME queue # <<>>
        PROVE  nwt' <= line[Head(queue)].nextexe \/ nwt' <= now + FirstSleep
    <3>1. PICK lim \in Int : lim = save'
      BY <1>0, <2>1, Delays
    <3>2. PICK t \in Int : t = line[Head(queue)].nextexe
      BY <2>3, DueIsInt
    <3>3. PICK w \in Int : w = next_wake_time(lim, queue, line)
      BY <3>1, NextWake DEF Base
    <3>4. w = Max({now, IF t < lim THEN t ELSE lim})
      BY <2>3, <3>1, <3>2, <3>3, NextWake DEF Base
    <3>5. w <= t \/ w <= now
      <4>1. PICK x \in Int : x = IF t < lim THEN t ELSE lim
        BY <3>1, <3>2
      <4>2. x <= t
        BY <4>1, <3>1, <3>2
      <4>3. w = IF now >= x THEN now ELSE x
        BY <1>0, <3>4, <4>1, OfTwo
      <4> QED  BY <1>0, <4>2, <4>3
    <3>6. PICK f \in Int : f = now + FirstSleep /\ f >= now
      BY <1>0
    <3>7. nwt' = f \/ nwt' = Max({w, f})
      BY <2>1, <3>1, <3>3, <3>6
    <3>8. Max({w, f}) = IF w >= f THEN w ELSE f
      BY OfTwo
    <3>9. nwt' <= t \/ nwt' <= f
      BY <1>0, <3>5, <3>6, <3>7, <3>8
    <3> QED  BY <3>2, <3>6, <3>9
  <2> QED  BY <2>1, <2>2, <2>3 DEF InTime
<1>3. CASE WakeOnTime \/ WakeLate \/ WakeEarly \/ Suspend
  <2>1. PICK t \in Nat, slept \in Nat : Wake(t, slept)
    BY <1>3, WakeIs
  <2>2. at' = "signal"
    BY <2>1 DEF Wake
  <2> QED  BY <2>2 DEF InTime
<1>4. CASE Hup
  <2>1. at = "signal" /\ at' = at
    BY <1>4 DEF Hup, ServeHup
  <2> QED  BY <2>1 DEF InTime
<1>5. CASE HupLate
  <2>1. at = "sleep" /\ at' = at /\ behind' = TRUE /\ UNCHANGED <<nwt, save>>
    BY <1>5 DEF HupLate, ServeHup
  <2> QED  BY <2>1 DEF InTime
<1>6. CASE CheckSuspend
  BY <1>6 DEF CheckSuspend, InTime
<1>7. CASE EndResume
  BY <1>7 DEF EndResume, InTime
<1>8. CASE Sleep
  <2>1. /\ at = "sleep" /\ at' = "select"
        /\ UNCHANGED <<line, queue, nwt, now, save, behind>>
    BY <1>8 DEF Sleep
  <2> QED  BY <2>1 DEF InTime
<1>9. CASE TestJob
  <2>1. at' = "test"
    BY <1>9 DEF TestJob
  <2> QED  BY <2>1 DEF InTime
<1>10. CASE EndTest
  <2>1. at' = "lavg" /\ now' = now /\ save' = IF save <= now THEN now + SaveTime ELSE save
    BY <1>10 DEF EndTest
  <2>2. save' > now'
    BY <1>0, <2>1, Delays
  <2> QED  BY <2>1, <2>2 DEF InTime
<1>11. CASE LavgLate
  <2>1. at = "lavg" /\ UNCHANGED <<at, now, save>>
    BY <1>11 DEF LavgLate
  <2> QED  BY <2>1 DEF InTime
<1>12. CASE LavgRun
  <2>1. /\ at = "lavg" /\ at' = "sleep" /\ behind' = FALSE
        /\ UNCHANGED <<now, line, queue, save>>
    BY <1>12 DEF LavgRun
  <2>2. save > now
    BY <2>1 DEF InTime
  <2>3. PICK w \in Int : w = next_wake_time(save, queue, line) /\ nwt' <= w /\ nwt' \in Int
    BY <1>0, <1>12, LavgRunIs, NextWake DEF Base
  <2>4. CASE queue = <<>>
    <3>1. w = Max({now, save})
      BY <1>0, <2>3, <2>4, NextWake DEF Base
    <3>2. w = save
      BY <1>0, <2>2, <3>1, OfTwo
    <3> QED  BY <2>1, <2>3, <2>4, <3>2 DEF InTime
  <2>5. CASE queue # <<>>
    <3>1. PICK t \in Int : t = line[Head(queue)].nextexe
      BY <2>5, DueIsInt
    <3>2. PICK x \in Int : x = IF t < save THEN t ELSE save
      BY <1>0, <3>1
    <3>3. w = Max({now, x})
      BY <1>0, <2>3, <2>5, <3>1, <3>2, NextWake DEF Base
    <3>4. w = IF now >= x THEN now ELSE x
      BY <1>0, <3>3, OfTwo
    <3>5. w <= save /\ (w <= t \/ w <= now + FirstSleep)
      BY <1>0, <2>2, <3>1, <3>2, <3>4
    <3>6. nwt' <= save /\ (nwt' <= t \/ nwt' <= now + FirstSleep)
      BY <1>0, <2>3, <3>5
    <3> QED  BY <2>1, <2>5, <3>1, <3>6 DEF InTime
  <2> QED  BY <2>4, <2>5
<1>13. ASSUME NEW how, Restart(how)
       PROVE  InTime'
  <2>1. at' = "load" /\ behind' = FALSE
    BY <1>13 DEF Restart
  <2> QED  BY <2>1 DEF InTime
<1>14. CASE UNCHANGED vars
  BY <1>14 DEF vars, InTime
<1> QED  BY <1>1, <1>2, <1>3, <1>4, <1>5, <1>6, <1>7, <1>8, <1>9, <1>10, <1>11, <1>12,
            <1>13, <1>14 DEF Next

LEMMA InTimeIsEnough == Base /\ InTime => WakesInTime
<1> SUFFICES ASSUME Base, InTime, at = "select", queue # <<>>
             PROVE  nwt <= IF behind THEN save
                           ELSE Max({line[Head(queue)].nextexe, now + FirstSleep})
  BY DEF WakesInTime
<1>1. /\ nwt \in Int /\ behind \in BOOLEAN /\ now + FirstSleep \in Int
  BY Delays DEF Base, Typed
<1>2. CASE behind
  BY <1>1, <1>2 DEF InTime
<1>3. CASE ~behind
  <2>1. PICK t \in Int, f \in Int : t = line[Head(queue)].nextexe /\ f = now + FirstSleep
    BY <1>1, DueIsInt
  <2>2. nwt <= t \/ nwt <= f
    BY <1>1, <1>3, <2>1 DEF InTime
  <2>3. nwt <= Max({t, f})
    BY <1>1, <2>2, OfTwo
  <2> QED  BY <1>3, <2>1, <2>3
<1> QED  BY <1>1, <1>2, <1>3

(* The daemon does not sleep past the time the first line is due at, or the *)
(* next save if a fcrontab was loaded after the time to wake was computed.  *)
THEOREM DaemonWakesInTime == Spec /\ []TimesAreNumbers => []WakesInTime
<1>1. Init => Base /\ InTime
  <2>1. Init => InTime
    <3> SUFFICES ASSUME Init PROVE InTime
      OBVIOUS
    <3>1. at = "load" /\ behind = FALSE
      BY DEF Init
    <3> QED  BY <3>1 DEF InTime
  <2> QED  BY <2>1, BaseInit
<1>2. Base /\ InTime /\ TimesAreNumbers' /\ [Next]_vars => Base' /\ InTime'
  BY NumbersNext, BaseNext, InTimeNext
<1>3. Base /\ InTime => WakesInTime
  BY InTimeIsEnough
<1> QED  BY <1>1, <1>2, <1>3, PTL DEF Spec

-----------------------------------------------------------------------------
(* Uptime.                                                                 *)

(* The @-lines without options: the code sets timefreq to LONG_MAX only in  *)
(* lines that run once.                                                    *)
Plain == {l \in Lines : LineOf[l].opt = {}}

Periodic == \A l \in Plain : LineOf[l].timefreq # TIME_T_MAX

(* By how much a line has still to be put off.                             *)
Owed(l) ==
  IF at = "signal" \/ (at \in {"resume", "load"} /\ l \in ToSet(todo))
  THEN context.slept ELSE 0

(* The time of absence is known when it is used: a line that has run since  *)
(* the daemon was started is not one of a new file.                        *)
Absence ==
  /\ at \in {"signal", "resume"} => 0 <= context.slept /\ context.slept < now
  /\ at = "load" /\ (\E l \in Lines : up[l] # 0) =>
       0 <= context.slept /\ context.slept < now

Counts(l) ==
  up[l] # 0 =>
    /\ l \in loaded /\ up[l] <= now - away
    /\ line[l].nextexe - away + Owed(l) >= up[l] + LineOf[l].timefreq

Uptime == Absence /\ \A l \in Plain : Counts(l)

LEMMA PlainIs ==
  ASSUME NEW l \in Plain
  PROVE  /\ l \in Lines /\ LineOf[l].timefreq \in Nat /\ ~Td(l) /\ \A o : ~Is(l, o)
BY ScheduleAssumption DEF ScheduleAssumption, Plain, Is, Td

LEMMA StateIs ==
  ASSUME Typed, NEW l \in Lines
  PROVE  /\ line[l].nextexe \in Int /\ up[l] \in Int /\ away \in Int /\ now \in Nat \ {0}
         /\ context.slept \in Int
BY DEF Typed, LineState

(* Nothing happens to a line, nor to what it is owed.                      *)
LEMMA SameCounts ==
  ASSUME NEW l \in Plain, Counts(l), line'[l].nextexe = line[l].nextexe, up'[l] = up[l],
         UNCHANGED <<now, away>>, Owed(l)' = Owed(l), l \in loaded => l \in loaded'
  PROVE  Counts(l)'
BY DEF Counts

LEMMA StartUptime ==
  ASSUME Base, AllNumbers', Uptime, NEW l \in Lines, StartLine(l)
  PROVE  Uptime'
<1>1. Changed(l) /\ Loading(l)
  BY StartIs
<1>2. /\ l \in ToSet(todo) /\ l \in loaded /\ ToSet(todo) = {l} \cup ToSet(todo')
  BY <1>1, LoadingIs
<1>3. UNCHANGED <<now, at, loaded, context, away, up>> /\ at \in {"load", "resume"}
  BY <1>1 DEF Loading
<1>4. Absence'
  BY <1>3 DEF Uptime, Absence
<1>5. ASSUME NEW m \in Plain, m # l
      PROVE  Counts(m)'
  <2>1. line'[m] = line[m]
    BY <1>1, <1>5, PlainIs DEF Changed
  <2>2. Owed(m)' = Owed(m)
    BY <1>2, <1>3, <1>5 DEF Owed
  <2> QED  BY <1>3, <2>1, <2>2, SameCounts DEF Uptime
<1>6. ASSUME l \in Plain, up[l] # 0
      PROVE  Counts(l)'
  <2>1. LineOf[l].timefreq \in Nat /\ ~Td(l) /\ \A o : ~Is(l, o)
    BY <1>6, PlainIs
  <2>2. /\ line[l].nextexe \in Int /\ up[l] \in Int /\ away \in Int /\ now \in Int
        /\ context.slept \in Int
    BY StateIs DEF Base
  <2>3. 0 <= context.slept /\ context.slept < now
    BY <1>3, <1>6 DEF Uptime, Absence
  <2>4. /\ up[l] <= now - away
        /\ line[l].nextexe - away + context.slept >= up[l] + LineOf[l].timefreq
    BY <1>2, <1>3, <1>6 DEF Uptime, Counts, Owed
  <2>5. Scheduled(l)
    BY <2>1 DEF StartLine, SkipRunOnce, StartTdAtOnce, StartTdMissed, StartBootrun,
                StartTdValid, StartFreq, Overdue
  <2>6. Insert(l, [line[l] EXCEPT !.nextexe = PutOff(l)])
    <3>1. StartFreq(l)
      BY <2>1 DEF StartLine, SkipRunOnce, StartTdAtOnce, StartTdMissed, StartBootrun,
                  StartTdValid, Overdue
    <3>2. ~RunAtOnce(l) /\ ~FromFirst(l)
      BY <2>1, <2>2, <2>3 DEF RunAtOnce, FromFirst, IsNewFile
    <3>3. Insert(l, [line[l] EXCEPT
            !.nextexe = CASE RunAtOnce(l) -> now
                          [] ~RunAtOnce(l) /\ FromFirst(l) -> FirstTime(l)
                          [] OTHER -> PutOff(l)])
      BY <3>1 DEF StartFreq
    <3>4. (CASE RunAtOnce(l) -> now
             [] ~RunAtOnce(l) /\ FromFirst(l) -> FirstTime(l)
             [] OTHER -> PutOff(l)) = PutOff(l)
      BY <3>2, Zenon
    <3> QED  BY <3>3, <3>4
  <2>7. line'[l].nextexe = PutOff(l)
    <3>1. line[l] \in LineState
      BY DEF Base, Typed
    <3>2. PICK t : t = PutOff(l)
      OBVIOUS
    <3> DEFINE r == [line[l] EXCEPT !.nextexe = t]
    <3>3. r \in [nextexe : {t}, remain : Int, hasrun : BOOLEAN] /\ r.nextexe = t
      BY <3>1 DEF LineState
    <3>4. /\ line' = [line EXCEPT ![l] = [r EXCEPT !.hasrun = HasRun(l)]]
          /\ queue' = insert_nextexe(queue, line', l)
      BY <2>6, <3>2 DEF Insert
    <3> HIDE DEF r
    <3> QED  BY <2>5, <3>2, <3>3, <3>4, InsertIs
  <2>8. PutOff(l) - away >= up[l] + LineOf[l].timefreq
    <3> DEFINE t == line[l].nextexe
    <3>1. CASE t < now - context.slept /\ context.kind = "resume"
      <4>1. PutOff(l) = now
        <5>1. ~(t >= now - context.slept)
          BY <2>2, <3>1
        <5> QED  BY <3>1, <5>1 DEF PutOff
      <4>2. \A n, s, x, a, u, f \in Int : x < n - s /\ x - a + s >= u + f => n - a >= u + f
        OBVIOUS
      <4>3. LineOf[l].timefreq \in Int
        BY <2>1
      <4> QED  BY <2>2, <2>4, <3>1, <4>1, <4>2, <4>3
    <3>2. CASE t < now - context.slept /\ context.kind # "resume"
      <4>1. PutOff(l) = now + LineOf[l].timefreq
        BY <3>2 DEF PutOff
      <4> QED  BY <2>1, <2>2, <2>4, <4>1
    <3>3. CASE t >= now - context.slept /\ t > TIME_T_MAX - context.slept
      <4>1. ~(t < now - context.slept)
        BY <2>2, <3>3
      <4>2. PutOff(l) = now + LineOf[l].timefreq
        BY <3>3, <4>1 DEF PutOff
      <4> QED  BY <2>1, <2>2, <2>4, <4>2
    <3>4. CASE t >= now - context.slept /\ ~(t > TIME_T_MAX - context.slept)
      <4>1. ~(t < now - context.slept)
        BY <2>2, <3>4
      <4>2. PutOff(l) = t + context.slept
        BY <3>4, <4>1 DEF PutOff
      <4> QED  BY <2>1, <2>2, <2>4, <4>2
    <3>5. t < now - context.slept \/ t >= now - context.slept
      BY <2>2
    <3> QED  BY <3>1, <3>2, <3>3, <3>4, <3>5
  <2>9. Owed(l)' \in {0, context.slept}
    BY <1>3 DEF Owed
  <2>10. PutOff(l) \in Int
    BY <2>7 DEF AllNumbers
  <2>11. PICK o \in Int : o = Owed(l)' /\ o >= 0
    BY <2>2, <2>3, <2>9
  <2>12. PutOff(l) - away + o >= up[l] + LineOf[l].timefreq
    BY <2>1, <2>2, <2>8, <2>10, <2>11
  <2> QED  BY <1>2, <1>3, <2>4, <2>7, <2>11, <2>12 DEF Counts
<1>7. \A m \in Plain : Counts(m)'
  <2> TAKE m \in Plain
  <2>1. CASE m = l /\ up[l] = 0
    BY <1>3, <2>1 DEF Counts
  <2> QED  BY <1>5, <1>6, <2>1
<1> QED  BY <1>4, <1>7 DEF Uptime

LEMMA WakeUptime ==
  ASSUME Base, Uptime, WakeOnTime \/ WakeLate \/ WakeEarly \/ Suspend
  PROVE  Uptime'
<1>1. PICK t \in Nat, slept \in Nat : Wake(t, slept) /\ t >= now + slept /\ slept < t
  BY WakeIs
<1>2. /\ at = "select" /\ at' = "signal" /\ now' = t /\ away' = away + slept
      /\ context' = [kind |-> "resume", slept |-> slept]
      /\ UNCHANGED <<loaded, line, up>>
  BY <1>1 DEF Wake
<1>3. Absence'
  BY <1>1, <1>2 DEF Absence
<1>4. ASSUME NEW l \in Plain
      PROVE  Counts(l)'
  <2>1. l \in Lines /\ LineOf[l].timefreq \in Nat
    BY PlainIs
  <2>2. line[l].nextexe \in Int /\ up[l] \in Int /\ away \in Int /\ now \in Int
    BY <2>1, StateIs DEF Base
  <2>3. Owed(l) = 0 /\ Owed(l)' = slept
    BY <1>2 DEF Owed
  <2>4. SUFFICES ASSUME up[l] # 0
                 PROVE  /\ l \in loaded /\ up[l] <= t - (away + slept)
                        /\ line[l].nextexe - (away + slept) + slept
                             >= up[l] + LineOf[l].timefreq
    BY <1>2, <2>3 DEF Counts
  <2>5. /\ l \in loaded /\ up[l] <= now - away
        /\ line[l].nextexe - away + 0 >= up[l] + LineOf[l].timefreq
    BY <2>3, <2>4 DEF Uptime, Counts
  <2> QED  BY <1>1, <2>1, <2>2, <2>5
<1> QED  BY <1>3, <1>4 DEF Uptime

LEMMA TestUptime ==
  ASSUME Periodic, Base, AllNumbers', Uptime, TestJob
  PROVE  Uptime'
<1>1. PICK l \in loaded, d \in Draws :
           LET runs == ~Countdown(l)
               over == Is(l, "runonce") /\ (runs \/ line[l].hasrun)
           IN  /\ l = Head(queue) /\ Changed(l)
               /\ line'[l].nextexe = IF over THEN line[l].nextexe
                                     ELSE NextExeOf(l, STD, 0, d)
  BY TestIs
<1>2. at = "test" /\ UNCHANGED <<at, now, away, loaded, todo, context>>
  BY DEF TestJob
<1>3. Run({l}) \/ Run({})
  <2>1. Run(IF ~Countdown(Head(queue)) /\ ~Is(Head(queue), "lavg")
            THEN {Head(queue)} ELSE {})
    BY DEF TestJob
  <2> QED  BY <1>1, <2>1
<1>4. \A m \in Lines : Owed(m)' = 0 /\ Owed(m) = 0
  BY <1>2 DEF Owed
<1>5. Absence'
  BY <1>2 DEF Absence
<1>6. ASSUME NEW m \in Plain, m # l
      PROVE  Counts(m)'
  <2>1. m \in Lines /\ line'[m] = line[m]
    BY <1>1, <1>6, PlainIs DEF Changed
  <2>2. up'[m] = up[m]
    BY <1>3, <1>6, <2>1, RunIs DEF Base
  <2> QED  BY <1>2, <1>4, <2>1, <2>2, SameCounts DEF Uptime
<1>7. ASSUME l \in Plain
      PROVE  Counts(l)'
  <2>1. /\ l \in Lines /\ LineOf[l].timefreq \in Nat /\ ~Td(l) /\ ~Is(l, "runonce")
    BY <1>7, PlainIs
  <2>2. line'[l].nextexe = NextExeOf(l, STD, 0, d)
    BY <1>1, <2>1
  <2>3. NextExeOf(l, STD, 0, d) = now + LineOf[l].timefreq
    <3>1. LineOf[l].timefreq # TIME_T_MAX
      BY <1>7 DEF Periodic
    <3>2. STD # FROM_CUR_NEXTEXE
      BY DEF STD, FROM_CUR_NEXTEXE
    <3> QED  BY <2>1, <3>1, <3>2 DEF NextExeOf
  <2>4. up[l] \in Int /\ away \in Int /\ now \in Int
    BY <2>1, StateIs DEF Base
  <2>5. up'[l] = now - away \/ up'[l] = up[l]
    BY <1>3, <2>1, RunIs DEF Base
  <2>6. up'[l] # 0 => up'[l] <= now - away
    <3>1. up[l] # 0 => up[l] <= now - away
      BY <1>7 DEF Uptime, Counts
    <3> QED  BY <2>4, <2>5, <3>1
  <2>7. PICK u \in Int : u = up'[l]
    BY <2>4, <2>5
  <2>8. u # 0 => (now + LineOf[l].timefreq) - away + 0 >= u + LineOf[l].timefreq
    BY <2>1, <2>4, <2>6, <2>7
  <2> QED  BY <1>2, <1>4, <2>1, <2>2, <2>3, <2>6, <2>7, <2>8 DEF Counts
<1> QED  BY <1>5, <1>6, <1>7 DEF Uptime

(* Jobs that were waiting are run: these are of other lines.               *)
LEMMA OthersRun ==
  ASSUME Base, Uptime, NEW ls, Run(ls), ls \cap Plain = {},
         \A l \in Plain : line'[l].nextexe = line[l].nextexe,
         at \in {"test", "lavg"}, at' \in {"test", "lavg", "sleep"},
         UNCHANGED <<now, away, loaded, context>>
  PROVE  Uptime'
<1>1. Absence'
  BY DEF Absence
<1>2. ASSUME NEW l \in Plain
      PROVE  Counts(l)'
  <2>1. l \in Lines
    BY PlainIs
  <2>2. up'[l] = up[l]
    BY <2>1, RunIs DEF Base
  <2>3. Owed(l)' = Owed(l)
    BY DEF Owed
  <2> QED  BY <2>2, <2>3, SameCounts DEF Uptime
<1> QED  BY <1>1, <1>2 DEF Uptime

LEMMA RestartUptime ==
  ASSUME Base, Uptime, NEW how, Restart(how)
  PROVE  Uptime'
<1>1. PICK d \in Nat, kind \in {"default", "boot"}, d0 \in {disk, Saved} :
           /\ how = "stop" => d0 = Saved
           /\ at = "select" /\ at' = "load" /\ now' = now + d /\ away' = away + d
           /\ loaded' = d0.loaded /\ line' = d0.line
           /\ ToSet(todo') = d0.loaded
           /\ context' = [kind |-> kind, slept |-> now' - d0.t_save]
           /\ up' = IF how = "stop" THEN up ELSE [l \in Lines |-> 0]
  BY RestartIs
<1>2. CASE how # "stop"
  <2>1. \A l \in Lines : up'[l] = 0
    BY <1>1, <1>2
  <2> QED  BY <1>1, <2>1, PlainIs DEF Uptime, Absence, Counts
<1>3. CASE how = "stop"
  <2>1. /\ d0 = Saved /\ up' = up
    BY <1>1, <1>3
  <2>2. /\ loaded' = loaded /\ line' = line /\ ToSet(todo') = loaded
        /\ context' = [kind |-> kind, slept |-> now' - now]
    BY <1>1, <2>1 DEF Saved
  <2>3. now \in Nat \ {0}
    BY DEF Base, Typed
  <2>4. context'.slept = d
    BY <1>1, <2>2, <2>3
  <2>5. Absence'
    BY <1>1, <2>3, <2>4 DEF Absence
  <2>6. ASSUME NEW l \in Plain
        PROVE  Counts(l)'
    <3>1. l \in Lines /\ LineOf[l].timefreq \in Nat
      BY PlainIs
    <3>2. line[l].nextexe \in Int /\ up[l] \in Int /\ away \in Int
      BY <3>1, StateIs DEF Base
    <3>3. Owed(l) = 0
      BY <1>1 DEF Owed
    <3>4. l \in loaded => Owed(l)' = d
      BY <1>1, <2>2, <2>4 DEF Owed
    <3>5. SUFFICES ASSUME up[l] # 0
                   PROVE  /\ l \in loaded /\ up[l] <= (now + d) - (away + d)
                          /\ line[l].nextexe - (away + d) + d
                               >= up[l] + LineOf[l].timefreq
      BY <1>1, <2>1, <2>2, <3>4 DEF Counts
    <3>6. /\ l \in loaded /\ up[l] <= now - away
          /\ line[l].nextexe - away + 0 >= up[l] + LineOf[l].timefreq
      BY <3>3, <3>5 DEF Uptime, Counts
    <3> QED  BY <2>3, <3>1, <3>2, <3>6
  <2> QED  BY <2>5, <2>6 DEF Uptime
<1> QED  BY <1>2, <1>3

LEMMA UptimeNext ==
  ASSUME Periodic, Base, AllNumbers', Uptime, [Next]_vars
  PROVE  Uptime'
<1>1. CASE EndLoad \/ EndResume \/ Sleep
  <2>1. /\ at' \in {"select", "test"} /\ at # "signal"
        /\ at \in {"load", "resume"} => todo = <<>>
        /\ UNCHANGED <<now, away, line, up, loaded>>
    BY <1>1 DEF EndLoad, EndResume, Sleep
  <2>2. ToSet(<<>>) = {}
    BY DEF ToSet
  <2>3. \A l \in Plain : Owed(l)' = 0 /\ Owed(l) = 0
    BY <2>1, <2>2 DEF Owed
  <2>4. Absence'
    BY <2>1 DEF Absence
  <2>5. \A l \in Plain : Counts(l)'
    BY <2>1, <2>3, SameCounts DEF Uptime
  <2> QED  BY <2>4, <2>5 DEF Uptime
<1>2. CASE Hup \/ HupLate
  <2>1. PICK v \in Versions : Synchronize(v)
    BY <1>2 DEF Hup, HupLate, ServeHup
  <2>2. /\ loaded' = v /\ \A l \in v \cap loaded : line'[l].nextexe = line[l].nextexe
        /\ up' = [l \in Lines |-> IF l \in v \cap loaded THEN up[l] ELSE 0]
    BY <2>1, SynchronizeIs
  <2>3. at \in {"signal", "sleep"} /\ UNCHANGED <<at, now, away, context>>
    BY <1>2 DEF Hup, HupLate, ServeHup
  <2>4. Absence'
    BY <2>3 DEF Uptime, Absence
  <2>5. ASSUME NEW l \in Plain
        PROVE  Counts(l)'
    <3>1. l \in Lines
      BY PlainIs
    <3>2. CASE l \in v \cap loaded
      <4>1. Owed(l)' = Owed(l)
        BY <2>3 DEF Owed
      <4> QED  BY <2>2, <2>3, <3>1, <3>2, <4>1, SameCounts DEF Uptime
    <3>3. CASE l \notin v \cap loaded
      <4>1. up'[l] = 0
        BY <2>2, <3>1, <3>3
      <4> QED  BY <4>1 DEF Counts
    <3> QED  BY <3>2, <3>3
  <2> QED  BY <2>4, <2>5 DEF Uptime
<1>3. CASE CheckSuspend
  <2>1. /\ at = "signal" /\ at' = "resume"
        /\ UNCHANGED <<now, away, line, up, loaded, context>>
    BY <1>3 DEF CheckSuspend
  <2>2. Absence'
    BY <2>1 DEF Uptime, Absence
  <2>3. ASSUME NEW l \in Plain
        PROVE  Counts(l)'
    <3>1. CASE up[l] = 0
      BY <2>1, <3>1 DEF Counts
    <3>2. CASE up[l] # 0
      <4>1. l \in loaded /\ 0 <= context.slept /\ context.slept \in Int
        BY <2>1, <3>2, PlainIs, StateIs DEF Base, Uptime, Counts, Absence
      <4>2. context.slept > 0 => l \in ToSet(todo')
        BY <1>3, <4>1, CheckSuspendIs
      <4>3. Owed(l) = context.slept /\ Owed(l)' = context.slept
        <5>1. Owed(l) = context.slept
          BY <2>1 DEF Owed
        <5>2. CASE context.slept > 0
          BY <2>1, <4>2, <5>2 DEF Owed
        <5>3. CASE context.slept = 0
          BY <2>1, <5>3 DEF Owed
        <5> QED  BY <4>1, <5>1, <5>2, <5>3
      <4> QED  BY <2>1, <4>3, SameCounts DEF Uptime
    <3> QED  BY <3>1, <3>2
  <2> QED  BY <2>2, <2>3 DEF Uptime
<1>4. CASE EndTest
  <2>1. /\ Run(ToSet(serialq)) /\ at = "test" /\ at' = "lavg"
        /\ UNCHANGED <<now, away, line, loaded, context>>
    BY <1>4 DEF EndTest
  <2>2. ToSet(serialq) \cap Plain = {}
    <3>1. ToSet(serialq) \subseteq TdLines
      BY ToSetIs DEF Base, Typed
    <3> QED  BY <3>1, PlainIs DEF TdLines
  <2> QED  BY <2>1, <2>2, OthersRun
<1>5. CASE LavgLate
  <2>1. /\ at = "lavg" /\ UNCHANGED <<at, now, away, loaded, context>>
    BY <1>5 DEF LavgLate
  <2>2. PICK ls : Run(ls) /\ ls \cap Plain = {}
    <3>1. PICK i \in 1..Len(lavgq) : Run({lavgq[i].line}) \/ Run({})
      BY <1>5 DEF LavgLate
    <3>2. lavgq[i].line \notin Plain
      BY PlainIs, EntryIs DEF Base, Typed
    <3> QED  BY <3>1, <3>2
  <2>3. \A l \in Plain : line'[l].nextexe = line[l].nextexe
    <3> TAKE l \in Plain
    <3>1. l \in Lines /\ ~Is(l, "lavg")
      BY PlainIs
    <3>2. \/ line' = line
          \/ \E m \in loaded : Is(m, "lavg") /\ Changed(m)
      BY <1>5, LateIs
    <3> QED  BY <3>1, <3>2 DEF Changed
  <2> QED  BY <2>1, <2>2, <2>3, OthersRun
<1>6. CASE LavgRun
  <2>1. /\ at = "lavg" /\ at' = "sleep" /\ UNCHANGED <<now, away, line, loaded, context>>
    BY <1>6 DEF LavgRun
  <2>2. PICK low : Run(low) /\ \A l \in low : Is(l, "lavg")
    BY <1>6, LavgRunIs
  <2>3. low \cap Plain = {}
    BY <2>2, PlainIs
  <2> QED  BY <2>1, <2>2, <2>3, OthersRun
<1>7. CASE UNCHANGED vars
  BY <1>7 DEF vars, Uptime, Absence, Counts, Owed
<1> QED  BY <1>1, <1>2, <1>3, <1>4, <1>5, <1>6, <1>7, StartUptime, WakeUptime, TestUptime,
            RestartUptime DEF Next

(* An @-line without options runs every timefreq seconds of uptime.        *)
THEOREM UptimeIsCounted ==
  ASSUME Periodic
  PROVE  Spec /\ []TimesAreNumbers => []UptimeCounts
<1>1. Init => Base /\ Uptime
  <2>1. Init => Uptime
    <3> SUFFICES ASSUME Init PROVE Uptime
      OBVIOUS
    <3>1. at = "load" /\ \A l \in Lines : up[l] = 0
      BY DEF Init
    <3> QED  BY <3>1, PlainIs DEF Uptime, Absence, Counts
  <2> QED  BY <2>1, BaseInit
<1>2. Base /\ Uptime /\ TimesAreNumbers' /\ [Next]_vars => Base' /\ Uptime'
  BY NumbersNext, BaseNext, UptimeNext
<1>3. Base /\ Uptime => UptimeCounts
  <2> SUFFICES ASSUME Base, Uptime, at = "select", NEW l \in ToSet(queue), ~Td(l),
                      LineOf[l].opt = {}, up[l] # 0
               PROVE  line[l].nextexe - away >= up[l] + LineOf[l].timefreq
    BY DEF UptimeCounts
  <2>1. l \in Plain
    BY ToSetIs DEF Plain, Base, Typed
  <2>2. Owed(l) = 0 /\ line[l].nextexe \in Int /\ away \in Int
    BY <2>1, PlainIs, StateIs DEF Owed, Base
  <2>3. line[l].nextexe - away + 0 >= up[l] + LineOf[l].timefreq
    BY <2>1, <2>2 DEF Uptime, Counts
  <2> QED  BY <2>2, <2>3
<1> QED  BY <1>1, <1>2, <1>3, PTL DEF Spec
=============================================================================
