--------------------------- MODULE DataInduction ----------------------------
(***************************************************************************)
(* What the proofs about plans and retrievals need of data: a property of  *)
(* the numbers up to n by induction, a function that is defined step by    *)
(* step up to n, the list of a finite set in an order, and a list with an  *)
(* element removed or inserted.                                            *)
(*                                                                         *)
(* The principles are stated over sets and functions instead of operators: *)
(* the induction is over the set of the numbers that have the property, and*)
(* a recursion is over a function from a value and a number to the next    *)
(* value.  A recursive definition is then some run of that function.       *)
(***************************************************************************)
EXTENDS Integers, FiniteSets, Sequences, SequencesExt, FiniteSetTheorems, SequenceTheorems, TLAPS

\* The least element of a set of naturals.
LEMMA LeastNatural ==
    ASSUME NEW T, T \subseteq Nat, T # {}
    PROVE  \E x \in T : \A y \in T : x <= y
<1> DEFINE R == OpToRel(<, Nat)
<1>1. \E x \in T : \A y \in T : ~ (<<y, x>> \in R)
  BY NatLessThanWellFounded, WFMin
<1>2. \A x, y \in Nat : <<y, x>> \in R <=> y < x
  BY DEF OpToRel
<1> HIDE DEF R
<1>3. PICK x \in T : \A y \in T : ~ (<<y, x>> \in R)
  BY <1>1
<1>4. ASSUME NEW y \in T PROVE x <= y
  <2>1. ~ (<<y, x>> \in R) /\ x \in Nat /\ y \in Nat
    BY <1>3
  <2>2. ~ (y < x)
    BY <1>2, <2>1
  <2> QED
    BY <2>1, <2>2
<1> QED
  BY <1>4

\* Induction up to n, with a set in the place of a predicate.
LEMMA InductionUpTo ==
    ASSUME NEW n \in Nat, NEW S, 0 \in S, \A i \in 1..n : i - 1 \in S => i \in S
    PROVE  \A i \in 0..n : i \in S
<1> SUFFICES ASSUME NEW j \in 0..n, j \notin S PROVE FALSE
  OBVIOUS
<1> DEFINE Bad == {i \in 0..n : i \notin S}
<1>1. Bad \subseteq Nat /\ Bad # {}
  OBVIOUS
<1>2. PICK i \in Bad : \A k \in Bad : i <= k
  <2> HIDE DEF Bad
  <2> QED
    BY <1>1, LeastNatural
<1>3. i # 0 /\ i \in 1..n /\ i - 1 \in 0..n
  OBVIOUS
<1>4. i - 1 \in S
  BY <1>2, <1>3
<1> QED
  BY <1>3, <1>4

\* The greatest element of a finite set under a strict order of its elements
\* (the order as a set of pairs).
LEMMA MinimalElement ==
    ASSUME NEW S, IsFiniteSet(S), S # {}, NEW R,
           \A x \in S : <<x, x>> \notin R,
           \A x, y, z \in S : <<x, y>> \in R /\ <<y, z>> \in R => <<x, z>> \in R
    PROVE  \E m \in S : \A x \in S : <<x, m>> \notin R
<1> DEFINE Has(T) == \E m \in T : \A x \in T : <<x, m>> \notin R
           N == {n \in Nat : \E T \in SUBSET S : T # {} /\ Cardinality(T) = n /\ ~Has(T)}
<1>1. SUFFICES N = {}
  <2>1. Cardinality(S) \in Nat
    BY FS_CardinalityType
  <2> QED
    BY <1>1, <2>1
<1>2. SUFFICES ASSUME N # {} PROVE FALSE
  OBVIOUS
<1>3. PICK n \in N : \A k \in N : n <= k
  <2> HIDE DEF N
  <2>1. N \subseteq Nat
    BY DEF N
  <2> QED
    BY <1>2, <2>1, LeastNatural
<1>4. PICK T \in SUBSET S : T # {} /\ Cardinality(T) = n /\ ~Has(T)
  OBVIOUS
<1>5. PICK t \in T : TRUE
  BY <1>4
<1> DEFINE U == T \ {t}
<1>6. IsFiniteSet(T) /\ IsFiniteSet(U) /\ Cardinality(U) = n - 1
  BY <1>4, <1>5, FS_Subset, FS_RemoveElement
<1>7. CASE U = {}
  <2>1. Has(T)
    BY <1>5, <1>7
  <2> QED
    BY <1>4, <2>1
<1>8. CASE U # {}
  <2>1. n - 1 \in Nat
    BY <1>6, FS_CardinalityType
  <2>2. Has(U)
    <3>1. n - 1 \notin N
      BY <1>3, <2>1
    <3> QED
      BY <1>6, <1>8, <2>1, <3>1
  <2>3. PICK m \in U : \A x \in U : <<x, m>> \notin R
    BY <2>2
  <2>4. CASE <<t, m>> \notin R
    <3>1. Has(T)
      BY <2>3, <2>4
    <3> QED
      BY <1>4, <3>1
  <2>5. CASE <<t, m>> \in R
    <3>1. \A x \in T : <<x, t>> \notin R
      BY <2>3, <2>5
    <3>2. Has(T)
      BY <3>1
    <3> QED
      BY <1>4, <3>2
  <2> QED
    BY <2>4, <2>5
<1> QED
  BY <1>7, <1>8

\* A finite set, listed in the order of a strict total order of its elements.
LEMMA SortedListing ==
    ASSUME NEW S, IsFiniteSet(S), NEW R,
           \A x \in S : <<x, x>> \notin R,
           \A x, y, z \in S : <<x, y>> \in R /\ <<y, z>> \in R => <<x, z>> \in R,
           \A x, y \in S : x # y => <<x, y>> \in R \/ <<y, x>> \in R
    PROVE  \E q \in [1..Cardinality(S) -> S] :
              \A i, j \in 1..Cardinality(S) : i < j => <<q[i], q[j]>> \in R
<1> DEFINE Listed(T) == \E q \in [1..Cardinality(T) -> T] :
                           \A i, j \in 1..Cardinality(T) : i < j => <<q[i], q[j]>> \in R
           N == {n \in Nat : \E T \in SUBSET S : Cardinality(T) = n /\ ~Listed(T)}
<1>1. SUFFICES N = {}
  <2>1. Cardinality(S) \in Nat
    BY FS_CardinalityType
  <2>2. Listed(S)
    BY <1>1, <2>1
  <2> QED
    BY <2>2
<1>2. SUFFICES ASSUME N # {} PROVE FALSE
  OBVIOUS
<1>3. PICK n \in N : \A k \in N : n <= k
  <2> HIDE DEF N
  <2>1. N \subseteq Nat
    BY DEF N
  <2> QED
    BY <1>2, <2>1, LeastNatural
<1>4. PICK T \in SUBSET S : Cardinality(T) = n /\ ~Listed(T)
  OBVIOUS
<1>5. IsFiniteSet(T) /\ n \in Nat
  BY <1>4, FS_Subset, FS_CardinalityType
<1>6. CASE T = {}
  <2>1. 1..Cardinality(T) = {}
    BY <1>6, FS_EmptySet
  <2>2. [x \in {} |-> x] \in [1..Cardinality(T) -> T]
    BY <2>1
  <2>3. Listed(T)
    BY <2>1, <2>2
  <2> QED
    BY <1>4, <2>3
<1>7. CASE T # {}
  <2>1. PICK t \in T : \A x \in T : <<x, t>> \notin R
    BY <1>5, <1>7, MinimalElement
  <2> DEFINE U == T \ {t}
  <2>2. IsFiniteSet(U) /\ Cardinality(U) = n - 1 /\ n - 1 \in Nat /\ U \in SUBSET S
    <3>1. IsFiniteSet(U) /\ Cardinality(U) = n - 1
      BY <1>4, <1>5, <2>1, FS_RemoveElement
    <3>2. Cardinality(U) \in Nat
      BY <3>1, FS_CardinalityType
    <3> QED
      BY <3>1, <3>2
  <2>3. Listed(U)
    <3>1. n - 1 \notin N
      BY <1>3, <2>2
    <3> QED
      BY <2>2, <3>1
  <2>4. PICK q \in [1..(n - 1) -> U] : \A i, j \in 1..(n - 1) : i < j => <<q[i], q[j]>> \in R
    BY <2>2, <2>3
  <2> DEFINE p == [i \in 1..n |-> IF i = 1 THEN t ELSE q[i - 1]]
  <2>5. p \in [1..n -> T]
    BY <1>5, <2>4
  <2>6. ASSUME NEW i \in 1..n, NEW j \in 1..n, i < j PROVE <<p[i], p[j]>> \in R
    <3>1. j - 1 \in 1..(n - 1) /\ p[j] = q[j - 1] /\ q[j - 1] \in U
      BY <1>5, <2>4, <2>6
    <3>2. CASE i = 1
      BY <2>1, <3>1, <3>2
    <3>3. CASE i # 1
      <4>1. i - 1 \in 1..(n - 1) /\ p[i] = q[i - 1] /\ i - 1 < j - 1
        BY <1>5, <2>6, <3>3
      <4> QED
        BY <2>4, <3>1, <4>1
    <3> QED
      BY <3>2, <3>3
  <2>7. Listed(T)
    <3> HIDE DEF p
    <3> QED
      BY <1>4, <2>5, <2>6
  <2> QED
    BY <1>4, <2>7
<1> QED
  BY <1>6, <1>7

\* A step function on T, and the runs of n steps from base.
IsStep(n, T, step) == \A t \in T : \A i \in 1..n : step[<<t, i>>] \in T
RunsOf(n, T, base, step) ==
    {f \in [0..n -> T] : f[0] = base /\ \A i \in 1..n : f[i] = step[<<f[i - 1], i>>]}

\* A recursion up to n has a solution.
LEMMA RecursionUpTo ==
    ASSUME NEW n \in Nat, NEW T, NEW base \in T, NEW step, IsStep(n, T, step)
    PROVE  RunsOf(n, T, base, step) # {}
<1> USE DEF IsStep, RunsOf
<1> DEFINE Solved(m) == \E f \in [0..m -> T] : f[0] = base /\ \A i \in 1..m : f[i] = step[<<f[i - 1], i>>]
           M == {m \in 0..n : Solved(m)}
<1>1. 0 \in M
  <2> DEFINE g == [i \in 0..0 |-> base]
  <2>1. g \in [0..0 -> T] /\ g[0] = base /\ 1..0 = {}
    OBVIOUS
  <2>2. Solved(0)
    <3> HIDE DEF g
    <3> QED
      BY <2>1
  <2> QED
    BY <2>2
<1>2. ASSUME NEW m \in 1..n, m - 1 \in M PROVE m \in M
  <2>1. PICK f \in [0..(m - 1) -> T] : f[0] = base /\ \A i \in 1..(m - 1) : f[i] = step[<<f[i - 1], i>>]
    BY <1>2
  <2> DEFINE g == [i \in 0..m |-> IF i = m THEN step[<<f[m - 1], m>>] ELSE f[i]]
  <2>2. g \in [0..m -> T]
    BY <2>1
  <2>3. g[0] = base
    BY <2>1
  <2>4. ASSUME NEW i \in 1..m PROVE g[i] = step[<<g[i - 1], i>>]
    <3>1. i - 1 \in 0..m /\ i - 1 # m /\ g[i - 1] = f[i - 1]
      OBVIOUS
    <3>2. CASE i = m
      BY <3>1, <3>2
    <3>3. CASE i # m
      <4>1. i \in 1..(m - 1) /\ g[i] = f[i]
        BY <3>3
      <4> QED
        BY <2>1, <3>1, <4>1
    <3> QED
      BY <3>2, <3>3
  <2>5. Solved(m)
    <3> HIDE DEF g
    <3> QED
      BY <2>2, <2>3, <2>4
  <2> QED
    BY <2>5
<1>3. n \in M
  <2> HIDE DEF M
  <2> QED
    BY <1>1, <1>2, InductionUpTo
<1> QED
  BY <1>3

\* The values of a run.
LEMMA RunValues ==
    ASSUME NEW n \in Nat, NEW T, NEW base, NEW step, NEW f \in RunsOf(n, T, base, step)
    PROVE  /\ f \in [0..n -> T] /\ f[0] = base
           /\ \A i \in 1..n : f[i - 1] \in T /\ f[i] = step[<<f[i - 1], i>>]
<1>1. f \in [0..n -> T] /\ f[0] = base /\ \A i \in 1..n : f[i] = step[<<f[i - 1], i>>]
  BY DEF RunsOf
<1>2. ASSUME NEW i \in 1..n PROVE f[i - 1] \in T
  <2>1. i - 1 \in 0..n
    OBVIOUS
  <2> QED
    BY <1>1, <2>1
<1> QED
  BY <1>1, <1>2

\* The first n elements of a sequence.
LEMMA PrefixOfSeq ==
    ASSUME NEW S, NEW q \in Seq(S), NEW n \in 0..Len(q)
    PROVE  /\ SubSeq(q, 1, n) \in Seq(S) /\ Len(SubSeq(q, 1, n)) = n
           /\ SubSeq(q, 1, n) \in [1..n -> S]
           /\ \A i \in 1..n : SubSeq(q, 1, n)[i] = q[i]
<1>1. \A i \in 1..n : q[i] \in S
  BY ElementOfSeq
<1>2. n \in Nat
  BY LenProperties
<1>3. /\ SubSeq(q, 1, n) \in Seq(S)
      /\ Len(SubSeq(q, 1, n)) = IF 1 <= n THEN n - 1 + 1 ELSE 0
      /\ \A i \in 1..(n - 1 + 1) : SubSeq(q, 1, n)[i] = q[1 + i - 1]
  BY <1>1, <1>2, SubSeqProperties
<1>4. Len(SubSeq(q, 1, n)) = n /\ n - 1 + 1 = n /\ \A i \in 1..n : 1 + i - 1 = i
  BY <1>2, <1>3
<1>5. SubSeq(q, 1, n) \in [1..n -> S]
  BY <1>3, <1>4, LenProperties
<1> QED
  BY <1>3, <1>4, <1>5

\* The running total of the first n weights.
AreWeights(n, w) == \A i \in 1..n : w[i] \in Nat
IsRunningTotal(f, n, w) == f = [i \in 0..n |-> IF i = 0 THEN 0 ELSE f[i - 1] + w[i]]

\* It exists.
LEMMA RunningTotal ==
    ASSUME NEW n \in Nat, NEW w, AreWeights(n, w)
    PROVE  \E f : IsRunningTotal(f, n, w)
<1> USE DEF AreWeights, IsRunningTotal
<1> DEFINE step == [p \in Nat \X (1..n) |-> p[1] + w[p[2]]]
<1>1. IsStep(n, Nat, step)
  BY DEF IsStep
<1>2. \E f \in [0..n -> Nat] : f[0] = 0 /\ \A i \in 1..n : f[i] = step[<<f[i - 1], i>>]
  <2> HIDE DEF step
  <2>1. RunsOf(n, Nat, 0, step) # {}
    BY <1>1, RecursionUpTo
  <2> QED
    BY <2>1 DEF RunsOf
<1>3. PICK f \in [0..n -> Nat] : f[0] = 0 /\ \A i \in 1..n : f[i] = step[<<f[i - 1], i>>]
  BY <1>2
<1>4. \A i \in 1..n : f[i] = f[i - 1] + w[i]
  <2> TAKE i \in 1..n
  <2>1. f[i - 1] \in Nat
    OBVIOUS
  <2> QED
    BY <1>3, <2>1
<1>5. \A i \in 0..n : f[i] = IF i = 0 THEN 0 ELSE f[i - 1] + w[i]
  BY <1>3, <1>4
<1>6. f = [i \in 0..n |-> IF i = 0 THEN 0 ELSE f[i - 1] + w[i]]
  BY <1>5
<1> QED
  BY <1>6

\* It is a natural.
LEMMA RunningTotalType ==
    ASSUME NEW n \in Nat, NEW w, AreWeights(n, w), NEW f, IsRunningTotal(f, n, w)
    PROVE  f \in [0..n -> Nat]
<1> DEFINE M == {i \in 0..n : f[i] \in Nat}
<1>0. \A i \in 0..n : f[i] = IF i = 0 THEN 0 ELSE f[i - 1] + w[i]
  BY DEF IsRunningTotal
<1>1. 0 \in M
  BY <1>0
<1>2. ASSUME NEW i \in 1..n, i - 1 \in M PROVE i \in M
  <2>1. f[i] = f[i - 1] + w[i] /\ w[i] \in Nat
    BY <1>0 DEF AreWeights
  <2> QED
    BY <1>2, <2>1
<1>3. \A i \in 0..n : i \in M
  <2> HIDE DEF M
  <2> QED
    BY <1>1, <1>2, InductionUpTo
<1>4. \A i \in 0..n : f[i] \in Nat
  BY <1>3
<1>5. f = [i \in 0..n |-> f[i]]
  BY DEF IsRunningTotal
<1> QED
  BY <1>4, <1>5

\* The numbers up to n that are in K, one after the other.
IsKeptRun(f, n, K) ==
    f = [i \in 0..n |-> IF i = 0 THEN <<>> ELSE IF i \in K THEN Append(f[i - 1], i) ELSE f[i - 1]]
Increasing(q) == \A a, b \in 1..Len(q) : a < b => q[a] < q[b]

\* They can be listed,
LEMMA KeptRun ==
    ASSUME NEW n \in Nat, NEW K
    PROVE  \E f : IsKeptRun(f, n, K)
<1> DEFINE step == [p \in Seq(1..n) \X (1..n) |-> IF p[2] \in K THEN Append(p[1], p[2]) ELSE p[1]]
<1>1. IsStep(n, Seq(1..n), step) /\ <<>> \in Seq(1..n)
  <2>1. \A t \in Seq(1..n) : \A i \in 1..n : step[<<t, i>>] = IF i \in K THEN Append(t, i) ELSE t
    OBVIOUS
  <2>2. \A t \in Seq(1..n) : \A i \in 1..n : Append(t, i) \in Seq(1..n)
    OBVIOUS
  <2> HIDE DEF step
  <2> QED
    BY <2>1, <2>2, EmptySeq DEF IsStep
<1>2. PICK f \in RunsOf(n, Seq(1..n), <<>>, step) : TRUE
  <2> HIDE DEF step
  <2> QED
    BY <1>1, RecursionUpTo
<1>3. f \in [0..n -> Seq(1..n)] /\ f[0] = <<>> /\ \A i \in 1..n : f[i] = step[<<f[i - 1], i>>]
  BY <1>2 DEF RunsOf
<1>4. \A i \in 1..n : f[i] = IF i \in K THEN Append(f[i - 1], i) ELSE f[i - 1]
  <2> TAKE i \in 1..n
  <2>1. f[i - 1] \in Seq(1..n)
    BY <1>3
  <2> QED
    BY <1>3, <2>1
<1> HIDE DEF step
<1>5. \A i \in 0..n : f[i] = IF i = 0 THEN <<>> ELSE IF i \in K THEN Append(f[i - 1], i) ELSE f[i - 1]
  <2> TAKE i \in 0..n
  <2>1. CASE i = 0
    BY <1>3, <2>1
  <2>2. CASE i # 0
    <3>1. i \in 1..n
      BY <2>2
    <3> QED
      BY <1>4, <2>2, <3>1
  <2> QED
    BY <2>1, <2>2
<1>6. f = [i \in 0..n |-> IF i = 0 THEN <<>> ELSE IF i \in K THEN Append(f[i - 1], i) ELSE f[i - 1]]
  BY <1>3, <1>5
<1> QED
  BY <1>6 DEF IsKeptRun

\* and the list is increasing.
LEMMA KeptListing ==
    ASSUME NEW n \in Nat, NEW K, NEW f, IsKeptRun(f, n, K)
    PROVE  f[n] \in Seq(K \cap 1..n) /\ Increasing(f[n])
<1> DEFINE M == {i \in 0..n : f[i] \in Seq(K \cap 1..i) /\ Increasing(f[i])}
<1>0. \A i \in 0..n : f[i] = IF i = 0 THEN <<>> ELSE IF i \in K THEN Append(f[i - 1], i) ELSE f[i - 1]
  BY DEF IsKeptRun
<1>1. 0 \in M
  <2>1. f[0] = <<>>
    BY <1>0
  <2>2. f[0] \in Seq(K \cap 1..0) /\ Len(f[0]) = 0
    BY <2>1, EmptySeq
  <2>3. Increasing(f[0])
    BY <2>2 DEF Increasing
  <2> QED
    BY <2>2, <2>3
<1>2. ASSUME NEW i \in 1..n, i - 1 \in M PROVE i \in M
  <2>1. f[i - 1] \in Seq(K \cap 1..(i - 1)) /\ Increasing(f[i - 1])
    BY <1>2
  <2>2. f[i] = IF i \in K THEN Append(f[i - 1], i) ELSE f[i - 1]
    BY <1>0
  <2>3. f[i - 1] \in Seq(K \cap 1..i)
    <3>1. K \cap 1..(i - 1) \subseteq K \cap 1..i
      OBVIOUS
    <3> QED
      BY <2>1, <3>1, SeqMonotonic
  <2>4. CASE i \notin K
    BY <2>1, <2>2, <2>3, <2>4
  <2>5. CASE i \in K
    <3> DEFINE q == f[i - 1]
    <3>1. f[i] = Append(q, i) /\ q \in Seq(K \cap 1..i) /\ i \in K \cap 1..i
      BY <2>2, <2>3, <2>5
    <3>2. q \in Seq(K \cap 1..(i - 1)) /\ Increasing(q)
      BY <2>1
    <3> HIDE DEF q
    <3>3. f[i] \in Seq(K \cap 1..i) /\ Len(f[i]) = Len(q) + 1 /\ Len(q) \in Nat /\ f[i][Len(q) + 1] = i
          /\ \A a \in 1..Len(q) : f[i][a] = q[a]
      BY <3>1, LenProperties
    <3>4. \A a \in 1..Len(q) : q[a] \in K \cap 1..(i - 1)
      BY <3>2, ElementOfSeq
    <3>5. ASSUME NEW a \in 1..Len(f[i]), NEW b \in 1..Len(f[i]), a < b PROVE f[i][a] < f[i][b]
      <4>1. a \in 1..Len(q) /\ f[i][a] = q[a] /\ q[a] \in 1..(i - 1)
        BY <3>3, <3>4, <3>5
      <4>2. CASE b = Len(q) + 1
        BY <3>3, <4>1, <4>2
      <4>3. CASE b # Len(q) + 1
        <5>1. b \in 1..Len(q) /\ f[i][b] = q[b]
          BY <3>3, <3>5, <4>3
        <5> QED
          BY <3>2, <3>5, <4>1, <5>1 DEF Increasing
      <4> QED
        BY <4>2, <4>3
    <3>6. Increasing(f[i])
      BY <3>5 DEF Increasing
    <3> QED
      BY <3>3, <3>6
  <2> QED
    BY <2>4, <2>5
<1>3. n \in M
  <2> HIDE DEF M
  <2>1. \A i \in 0..n : i \in M
    BY <1>1, <1>2, InductionUpTo
  <2> QED
    BY <2>1
<1> QED
  BY <1>3

\* A sequence without its element i.
LEMMA ElementRemoved ==
    ASSUME NEW S, NEW q \in Seq(S), NEW i \in 1..Len(q)
    PROVE  /\ RemoveAt(q, i) \in Seq(S) /\ Len(RemoveAt(q, i)) = Len(q) - 1
           /\ \A k \in 1..(Len(q) - 1) : RemoveAt(q, i)[k] = IF k < i THEN q[k] ELSE q[k + 1]
<1> DEFINE a == SubSeq(q, 1, i - 1)
           b == SubSeq(q, i + 1, Len(q))
<1>1. Len(q) \in Nat /\ \A k \in 1..Len(q) : q[k] \in S
  BY LenProperties, ElementOfSeq
<1>2. a \in Seq(S) /\ Len(a) = i - 1 /\ \A k \in 1..(i - 1) : a[k] = q[k]
  <2>1. \A k \in 1..(i - 1) : q[k] \in S
    BY <1>1
  <2>2. /\ a \in Seq(S)
        /\ Len(a) = IF 1 <= i - 1 THEN i - 1 - 1 + 1 ELSE 0
        /\ \A k \in 1..(i - 1 - 1 + 1) : a[k] = q[1 + k - 1]
    BY <1>1, <2>1, SubSeqProperties
  <2>3. i - 1 - 1 + 1 = i - 1 /\ \A k \in 1..(i - 1) : 1 + k - 1 = k
    BY <1>1
  <2> QED
    BY <1>1, <2>2, <2>3
<1>3. b \in Seq(S) /\ Len(b) = Len(q) - i /\ \A k \in 1..(Len(q) - i) : b[k] = q[i + k]
  <2> DEFINE m == i + 1
  <2>1. m \in Int /\ \A k \in m..Len(q) : q[k] \in S
    BY <1>1
  <2>3. m = i + 1 /\ b = SubSeq(q, m, Len(q))
    OBVIOUS
  <2> HIDE DEF m, b
  <2>2. /\ b \in Seq(S)
        /\ Len(b) = IF m <= Len(q) THEN Len(q) - m + 1 ELSE 0
        /\ \A k \in 1..(Len(q) - m + 1) : b[k] = q[m + k - 1]
    BY <1>1, <2>1, <2>3, SubSeqProperties
  <2>4. Len(q) - m + 1 = Len(q) - i /\ \A k \in 1..(Len(q) - i) : m + k - 1 = i + k
    BY <1>1, <2>3
  <2>5. Len(b) = Len(q) - i
    BY <1>1, <2>2, <2>3
  <2>6. ASSUME NEW k \in 1..(Len(q) - i) PROVE b[k] = q[i + k]
    BY <2>2, <2>4, <2>6
  <2> QED
    BY <2>2, <2>5, <2>6
<1> DEFINE c == a \o b
<1>4. /\ c \in Seq(S) /\ Len(c) = Len(a) + Len(b)
      /\ \A k \in 1..(Len(a) + Len(b)) : c[k] = IF k <= Len(a) THEN a[k] ELSE b[k - Len(a)]
  <2>1. a \in Seq(S) /\ b \in Seq(S)
    BY <1>2, <1>3
  <2> HIDE DEF a, b
  <2> QED
    BY <2>1, ConcatProperties
<1>5. RemoveAt(q, i) = c
  BY DEF RemoveAt
<1> HIDE DEF a, b, c
<1>6. Len(a) + Len(b) = Len(q) - 1
  BY <1>1, <1>2, <1>3
<1>7. ASSUME NEW k \in 1..(Len(q) - 1) PROVE c[k] = IF k < i THEN q[k] ELSE q[k + 1]
  <2>1. c[k] = IF k <= Len(a) THEN a[k] ELSE b[k - Len(a)]
    BY <1>4, <1>6
  <2>2. CASE k < i
    BY <1>1, <1>2, <2>1, <2>2
  <2>3. CASE ~(k < i)
    <3>1. k - (i - 1) \in 1..(Len(q) - i) /\ ~(k <= i - 1) /\ i + (k - (i - 1)) = k + 1
      BY <1>1, <2>3
    <3>2. b[k - (i - 1)] = q[i + (k - (i - 1))]
      BY <1>3, <3>1
    <3> QED
      BY <1>2, <2>1, <2>3, <3>1, <3>2
  <2> QED
    BY <2>2, <2>3
<1> QED
  BY <1>4, <1>5, <1>6, <1>7

\* A sequence with p before its element k.
LEMMA ElementInserted ==
    ASSUME NEW S, NEW q \in Seq(S), NEW k \in 1..(Len(q) + 1), NEW p \in S
    PROVE  /\ InsertAt(q, k, p) \in Seq(S) /\ Len(InsertAt(q, k, p)) = Len(q) + 1
           /\ \A j \in 1..(Len(q) + 1) :
                 InsertAt(q, k, p)[j] = IF j < k THEN q[j] ELSE IF j = k THEN p ELSE q[j - 1]
<1> DEFINE a == SubSeq(q, 1, k - 1)
           b == SubSeq(q, k, Len(q))
           e == Append(a, p)
           c == e \o b
<1>1. Len(q) \in Nat /\ \A j \in 1..Len(q) : q[j] \in S
  BY LenProperties, ElementOfSeq
<1>2. a \in Seq(S) /\ Len(a) = k - 1 /\ \A j \in 1..(k - 1) : a[j] = q[j]
  <2>1. \A j \in 1..(k - 1) : q[j] \in S
    BY <1>1
  <2>2. /\ a \in Seq(S)
        /\ Len(a) = IF 1 <= k - 1 THEN k - 1 - 1 + 1 ELSE 0
        /\ \A j \in 1..(k - 1 - 1 + 1) : a[j] = q[1 + j - 1]
    BY <1>1, <2>1, SubSeqProperties
  <2>3. k - 1 - 1 + 1 = k - 1 /\ \A j \in 1..(k - 1) : 1 + j - 1 = j
    BY <1>1
  <2> QED
    BY <1>1, <2>2, <2>3
<1>3. b \in Seq(S) /\ Len(b) = Len(q) - k + 1 /\ \A j \in 1..(Len(q) - k + 1) : b[j] = q[k + j - 1]
  <2>1. \A j \in k..Len(q) : q[j] \in S
    BY <1>1
  <2>2. /\ b \in Seq(S)
        /\ Len(b) = IF k <= Len(q) THEN Len(q) - k + 1 ELSE 0
        /\ \A j \in 1..(Len(q) - k + 1) : b[j] = q[k + j - 1]
    BY <1>1, <2>1, SubSeqProperties
  <2> QED
    BY <1>1, <2>2
<1>4. InsertAt(q, k, p) = c
  <2>1. a \in Seq(S)
    BY <1>2
  <2> HIDE DEF a
  <2>2. Append(a, p) = a \o <<p>>
    BY <2>1, AppendIsConcat
  <2> QED
    BY <2>2 DEF InsertAt, a
<1> HIDE DEF a, b
<1>5. e \in Seq(S) /\ Len(e) = k /\ e[k] = p /\ \A j \in 1..(k - 1) : e[j] = q[j]
  <2>1. /\ e \in Seq(S) /\ Len(e) = Len(a) + 1 /\ e[Len(a) + 1] = p
        /\ \A j \in 1..Len(a) : e[j] = a[j]
    BY <1>2, AppendProperties
  <2> HIDE DEF e
  <2> QED
    BY <1>1, <1>2, <2>1
<1> HIDE DEF e
<1>6. /\ c \in Seq(S) /\ Len(c) = Len(e) + Len(b)
      /\ \A j \in 1..(Len(e) + Len(b)) : c[j] = IF j <= Len(e) THEN e[j] ELSE b[j - Len(e)]
  BY <1>3, <1>5, ConcatProperties
<1> HIDE DEF c
<1>7. Len(e) + Len(b) = Len(q) + 1
  BY <1>1, <1>3, <1>5
<1>8. ASSUME NEW j \in 1..(Len(q) + 1)
      PROVE  c[j] = IF j < k THEN q[j] ELSE IF j = k THEN p ELSE q[j - 1]
  <2>1. c[j] = IF j <= k THEN e[j] ELSE b[j - k]
    BY <1>5, <1>6, <1>7
  <2>2. CASE j < k
    <3>1. j \in 1..(k - 1)
      BY <1>1, <2>2
    <3> QED
      BY <1>1, <1>5, <2>1, <2>2, <3>1
  <2>3. CASE j = k
    BY <1>1, <1>5, <2>1, <2>3
  <2>4. CASE j > k
    <3>1. j - k \in 1..(Len(q) - k + 1) /\ k + (j - k) - 1 = j - 1
      BY <1>1, <2>4
    <3>2. b[j - k] = q[k + (j - k) - 1]
      BY <1>3, <3>1
    <3> QED
      BY <1>1, <2>1, <2>4, <3>1, <3>2
  <2> QED
    BY <1>1, <2>2, <2>3, <2>4
<1> QED
  BY <1>4, <1>6, <1>7, <1>8

=============================================================================
