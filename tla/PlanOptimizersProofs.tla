------------------------ MODULE PlanOptimizersProofs ------------------------
(***************************************************************************)
(* Proofs about the optimizers of a plan, for any number of days,          *)
(* attractions, restaurants and candidates, any roads and any settings.    *)
(*                                                                         *)
(* First the operators of DayTimeline: a timeline is built item by item,   *)
(* so that its items join, lunch lies in its window, and the minutes add   *)
(* up.  Then the candidates: PlansLike(w, n, K) are the plans that differ  *)
(* from w in their attractions, which are among K and not repeated, and    *)
(* every search of every optimizer stays in such a set.  Last the steps:   *)
(* each takes one of these plans, with a report that is its own.           *)
(***************************************************************************)
EXTENDS PlanOptimizers, DataInduction

-----------------------------------------------------------------------------
(* Sums, selections and other sequences.                                   *)

\* The sums of the first elements of f.
AreSums(g, f) ==
    /\ g \in [0..Len(f) -> Int] /\ g[0] = 0
    /\ \A n \in 1..Len(f) : g[n] = g[n - 1] + f[n]

\* Total adds up the elements, one after the other.
LEMMA TotalIsLastSum ==
    ASSUME NEW f \in Seq(Int)
    PROVE  \E g : AreSums(g, f) /\ Total(f) = g[Len(f)] /\ Total(f) \in Int
<1> DEFINE n == Len(f)
           step == [p \in Int \X (1..n) |-> p[1] + f[p[2]]]
           Solves(g) == g = [i \in 0..n |-> IF i = 0 THEN 0 ELSE g[i - 1] + f[i]]
<1>0. n \in Nat /\ \A i \in 1..n : f[i] \in Int
  BY LenProperties, ElementOfSeq
<1>1. IsStep(n, Int, step)
  BY <1>0 DEF IsStep
<1>2. PICK h \in RunsOf(n, Int, 0, step) : TRUE
  <2> HIDE DEF step, n
  <2>1. 0 \in Int
    OBVIOUS
  <2>2. RunsOf(n, Int, 0, step) # {}
    BY <1>0, <1>1, <2>1, RecursionUpTo
  <2> QED
    BY <2>2
<1>3. h \in [0..n -> Int] /\ h[0] = 0 /\ \A i \in 1..n : h[i] = h[i - 1] + f[i]
  <2>1. /\ h \in [0..n -> Int] /\ h[0] = 0
        /\ \A i \in 1..n : h[i - 1] \in Int /\ h[i] = step[<<h[i - 1], i>>]
    <3> HIDE DEF step, n
    <3> QED
      BY <1>0, <1>2, RunValues
  <2>2. \A i \in 1..n : h[i - 1] \in Int
    BY <2>1
  <2> QED
    BY <2>1, <2>2
<1>4. Solves(h)
  <2>1. \A i \in 0..n : h[i] = IF i = 0 THEN 0 ELSE h[i - 1] + f[i]
    BY <1>3
  <2> QED
    BY <1>3, <2>1
<1>5. PICK g : g = (CHOOSE l : Solves(l)) /\ Solves(g)
  <2> HIDE DEF Solves
  <2> QED
    BY <1>4
<1>6. Total(f) = g[n]
  BY <1>5 DEF Total
<1>7. g[0] = 0 /\ \A i \in 1..n : g[i] = g[i - 1] + f[i]
  <2>1. \A i \in 0..n : g[i] = IF i = 0 THEN 0 ELSE g[i - 1] + f[i]
    BY <1>5
  <2> QED
    BY <1>0, <2>1
<1>8. \A i \in 0..n : g[i] \in Int
  <2> DEFINE M == {i \in 0..n : g[i] \in Int}
  <2>1. 0 \in M
    BY <1>0, <1>7
  <2>3. ASSUME NEW i \in 1..n, i - 1 \in M PROVE i \in M
    <3>1. g[i - 1] \in Int /\ f[i] \in Int /\ g[i] = g[i - 1] + f[i] /\ i \in 0..n
      BY <1>0, <1>7, <2>3
    <3> QED
      BY <3>1
  <2>2. \A i \in 0..n : i \in M
    <3> HIDE DEF M, n
    <3> QED
      BY <1>0, <2>1, <2>3, InductionUpTo
  <2> QED
    BY <2>2
<1>9. g = [i \in 0..n |-> g[i]]
  BY <1>5
<1>10. AreSums(g, f)
  BY <1>7, <1>8, <1>9 DEF AreSums
<1> QED
  BY <1>0, <1>6, <1>8, <1>10

\* The positions in I, listed, and the elements of s there.
IsSelection(r, s, I, m) ==
    /\ m \in Seq(I \cap 1..Len(s)) /\ Increasing(m)
    /\ \A i \in I \cap 1..Len(s) : \E k \in 1..Len(m) : m[k] = i
    /\ Len(r) = Len(m) /\ DOMAIN r = 1..Len(m)
    /\ \A k \in 1..Len(m) : r[k] = s[m[k]]

\* A list one longer.
LEMMA SelectionGrows ==
    ASSUME NEW S, NEW s \in Seq(S), NEW I, NEW j \in 1..Len(s), j \in I,
           NEW r \in Seq(S), NEW m, IsSelection(r, s, I \cap 1..(j - 1), m)
    PROVE  IsSelection(Append(r, s[j]), s, I \cap 1..j, Append(m, j))
<1> DEFINE J == (I \cap 1..(j - 1)) \cap 1..Len(s)
           K == (I \cap 1..j) \cap 1..Len(s)
           x == s[j]
<1>1. m \in Seq(J) /\ J \subseteq K /\ j \in K /\ J \subseteq 1..(j - 1) /\ K \subseteq J \cup {j}
      /\ Len(s) \in Nat /\ x \in S
  BY LenProperties, ElementOfSeq DEF IsSelection
<1>2. m \in Seq(K)
  BY <1>1, SeqMonotonic
<1>3. /\ Append(m, j) \in Seq(K) /\ Len(Append(m, j)) = Len(m) + 1 /\ Len(m) \in Nat
      /\ Append(m, j)[Len(m) + 1] = j /\ \A a \in 1..Len(m) : Append(m, j)[a] = m[a]
  <2> HIDE DEF K, J, x
  <2> QED
    BY <1>1, <1>2, AppendProperties, LenProperties
<1>4. /\ Append(r, x) \in Seq(S) /\ Len(Append(r, x)) = Len(r) + 1 /\ Len(r) = Len(m)
      /\ Append(r, x)[Len(r) + 1] = x /\ \A a \in 1..Len(r) : Append(r, x)[a] = r[a]
  <2>1. Len(r) = Len(m)
    BY DEF IsSelection
  <2> HIDE DEF x
  <2> QED
    BY <1>1, <2>1, AppendProperties
<1> DEFINE mm == Append(m, j)
           rr == Append(r, x)
<1>5. \A a \in 1..Len(m) : m[a] \in 1..(j - 1) /\ r[a] = s[m[a]]
  <2>1. \A a \in 1..Len(m) : m[a] \in J
    <3> HIDE DEF J
    <3> QED
      BY <1>1, ElementOfSeq
  <2> QED
    BY <1>1, <2>1 DEF IsSelection
<1>6. Increasing(mm)
  <2> HIDE DEF mm
  <2>1. \A a \in 1..Len(m) : mm[a] = m[a] /\ m[a] \in 1..(j - 1)
    BY <1>3, <1>5 DEF mm
  <2>2. mm[Len(m) + 1] = j /\ Len(mm) = Len(m) + 1 /\ Increasing(m) /\ Len(m) \in Nat
    BY <1>3 DEF mm, IsSelection
  <2>3. ASSUME NEW a \in 1..Len(mm), NEW b \in 1..Len(mm), a < b PROVE mm[a] < mm[b]
    <3>1. a \in 1..Len(m)
      BY <2>2, <2>3
    <3>2. CASE b = Len(m) + 1
      BY <2>1, <2>2, <3>1, <3>2
    <3>3. CASE b # Len(m) + 1
      <4>1. b \in 1..Len(m)
        BY <2>2, <3>3
      <4>2. m[a] < m[b]
        BY <2>2, <2>3, <3>1, <4>1 DEF Increasing
      <4> QED
        BY <2>1, <3>1, <4>1, <4>2
    <3> QED
      BY <3>2, <3>3
  <2> QED
    BY <2>3 DEF Increasing
<1>7. ASSUME NEW i \in K PROVE \E k \in 1..Len(mm) : mm[k] = i
  <2>1. CASE i = j
    BY <1>3, <2>1
  <2>2. CASE i # j
    <3>1. i \in J
      BY <1>1, <2>2
    <3>2. PICK k \in 1..Len(m) : m[k] = i
      BY <3>1 DEF IsSelection
    <3> QED
      BY <1>3, <3>2
  <2> QED
    BY <2>1, <2>2
<1>8. ASSUME NEW k \in 1..Len(mm) PROVE rr[k] = s[mm[k]]
  <2>1. CASE k = Len(m) + 1
    BY <1>3, <1>4, <2>1
  <2>2. CASE k # Len(m) + 1
    <3>1. k \in 1..Len(m)
      BY <1>3, <2>2
    <3> QED
      BY <1>3, <1>4, <1>5, <3>1
  <2> QED
    BY <2>1, <2>2
<1>9. DOMAIN rr = 1..Len(mm) /\ Len(rr) = Len(mm)
  <2> HIDE DEF x
  <2> QED
    BY <1>3, <1>4, LenProperties
<1> QED
  BY <1>3, <1>6, <1>7, <1>8, <1>9 DEF IsSelection

\* Selected lists the elements at the positions in I.
LEMMA SelectedLists ==
    ASSUME NEW S, NEW s \in Seq(S), NEW I
    PROVE  Selected(s, I) \in Seq(S) /\ \E m : IsSelection(Selected(s, I), s, I, m)
<1> DEFINE n == Len(s)
           step == [p \in Seq(S) \X (1..n) |-> IF p[2] \in I THEN Append(p[1], s[p[2]]) ELSE p[1]]
           Solves(g) == g = [i \in 0..n |-> IF i = 0 THEN <<>>
                                           ELSE IF i \in I THEN Append(g[i - 1], s[i]) ELSE g[i - 1]]
<1>0. n \in Nat /\ \A i \in 1..n : s[i] \in S
  BY LenProperties, ElementOfSeq
<1>1. IsStep(n, Seq(S), step) /\ <<>> \in Seq(S)
  <2>1. \A t \in Seq(S) : \A i \in 1..n : step[<<t, i>>] = IF i \in I THEN Append(t, s[i]) ELSE t
    OBVIOUS
  <2>2. \A t \in Seq(S) : \A i \in 1..n : Append(t, s[i]) \in Seq(S)
    BY <1>0
  <2> HIDE DEF step
  <2> QED
    BY <2>1, <2>2, EmptySeq DEF IsStep
<1>2. PICK h \in RunsOf(n, Seq(S), <<>>, step) : TRUE
  <2> HIDE DEF step, n
  <2> QED
    BY <1>0, <1>1, RecursionUpTo
<1>3. h \in [0..n -> Seq(S)] /\ h[0] = <<>>
      /\ \A i \in 1..n : h[i] = IF i \in I THEN Append(h[i - 1], s[i]) ELSE h[i - 1]
  <2>1. /\ h \in [0..n -> Seq(S)] /\ h[0] = <<>>
        /\ \A i \in 1..n : h[i - 1] \in Seq(S) /\ h[i] = step[<<h[i - 1], i>>]
    <3> HIDE DEF step, n
    <3> QED
      BY <1>0, <1>2, RunValues
  <2>2. \A i \in 1..n : h[i - 1] \in Seq(S)
    BY <2>1
  <2> QED
    BY <2>1, <2>2
<1>4. Solves(h)
  <2>1. \A i \in 0..n : h[i] = IF i = 0 THEN <<>> ELSE IF i \in I THEN Append(h[i - 1], s[i]) ELSE h[i - 1]
    <3> TAKE i \in 0..n
    <3>1. CASE i = 0
      BY <1>3, <3>1
    <3>2. CASE i # 0
      <4>1. i \in 1..n
        BY <1>0, <3>2
      <4> QED
        BY <1>3, <3>2, <4>1
    <3> QED
      BY <3>1, <3>2
  <2> QED
    BY <1>3, <2>1
<1>5. PICK g : g = (CHOOSE l : Solves(l)) /\ Solves(g)
  <2> HIDE DEF Solves
  <2> QED
    BY <1>4
<1>6. Selected(s, I) = g[n]
  BY <1>5 DEF Selected
<1>7. g[0] = <<>> /\ \A i \in 1..n : g[i] = IF i \in I THEN Append(g[i - 1], s[i]) ELSE g[i - 1]
  <2>1. \A i \in 0..n : g[i] = IF i = 0 THEN <<>> ELSE IF i \in I THEN Append(g[i - 1], s[i]) ELSE g[i - 1]
    BY <1>5
  <2>2. g[0] = <<>>
    BY <1>0, <2>1
  <2>3. ASSUME NEW i \in 1..n PROVE g[i] = IF i \in I THEN Append(g[i - 1], s[i]) ELSE g[i - 1]
    <3>1. i \in 0..n /\ i # 0
      BY <1>0
    <3> QED
      BY <2>1, <3>1
  <2> QED
    BY <2>2, <2>3
<1> DEFINE M == {i \in 0..n : g[i] \in Seq(S) /\ \E m : IsSelection(g[i], s, I \cap 1..i, m)}
<1> HIDE DEF Solves, step
<1>8. 0 \in M
  <2>1. g[0] \in Seq(S) /\ Len(g[0]) = 0 /\ DOMAIN g[0] = 1..0
    BY <1>7, EmptySeq, LenProperties
  <2>2. <<>> \in Seq((I \cap 1..0) \cap 1..Len(s)) /\ Len(<<>>) = 0 /\ I \cap 1..0 = {} /\ 1..0 = {}
    BY EmptySeq
  <2>3. Increasing(<<>>)
    BY <2>2 DEF Increasing
  <2>4. IsSelection(g[0], s, I \cap 1..0, <<>>)
    BY <2>1, <2>2, <2>3 DEF IsSelection
  <2> QED
    BY <1>0, <2>1, <2>4
<1>9. ASSUME NEW j \in 1..n, j - 1 \in M PROVE j \in M
  <2>1. g[j - 1] \in Seq(S) /\ \E m : IsSelection(g[j - 1], s, I \cap 1..(j - 1), m)
    BY <1>9
  <2>2. PICK m : IsSelection(g[j - 1], s, I \cap 1..(j - 1), m)
    BY <2>1
  <2>3. CASE j \in I
    <3>1. g[j] = Append(g[j - 1], s[j])
      BY <1>7, <2>3
    <3>2. IsSelection(Append(g[j - 1], s[j]), s, I \cap 1..j, Append(m, j))
      BY <2>1, <2>2, <2>3, SelectionGrows
    <3>3. g[j] \in Seq(S) /\ IsSelection(g[j], s, I \cap 1..j, Append(m, j))
      BY <1>0, <2>1, <3>1, <3>2, AppendProperties
    <3> QED
      BY <1>0, <3>3
  <2>4. CASE j \notin I
    <3>1. g[j] = g[j - 1]
      BY <1>7, <2>4
    <3>2. I \cap 1..j = I \cap 1..(j - 1)
      BY <1>0, <2>4
    <3>3. g[j] \in Seq(S) /\ IsSelection(g[j], s, I \cap 1..j, m)
      BY <2>1, <2>2, <3>1, <3>2
    <3> QED
      BY <1>0, <3>3
  <2> QED
    BY <2>3, <2>4
<1>10. n \in M
  <2> HIDE DEF M, n
  <2>1. \A i \in 0..n : i \in M
    BY <1>0, <1>8, <1>9, InductionUpTo
  <2> QED
    BY <1>0, <2>1
<1>11. PICK m : IsSelection(g[n], s, I \cap 1..n, m)
  BY <1>10
<1>12. IsSelection(g[n], s, I, m)
  <2>1. (I \cap 1..n) \cap 1..Len(s) = I \cap 1..Len(s)
    OBVIOUS
  <2> QED
    BY <1>11, <2>1 DEF IsSelection
<1> QED
  BY <1>6, <1>10, <1>12

\* The elements of a flattened sequence.
LEMMA FlattenedIn ==
    ASSUME NEW S, NEW qq \in Seq(Seq(S))
    PROVE  FlattenSeq(qq) \in Seq(S)
<1> DEFINE n == Len(qq)
           step == [p \in Seq(S) \X (1..n) |-> p[1] \o qq[p[2]]]
           Solves(g) == g = [i \in 1..n |-> IF i = 1 THEN qq[i] ELSE g[i - 1] \o qq[i]]
<1>0. n \in Nat /\ \A i \in 1..n : qq[i] \in Seq(S)
  BY LenProperties, ElementOfSeq
<1>1. CASE n = 0
  <2>1. qq = <<>> /\ FlattenSeq(qq) = qq
    BY <1>1, EmptySeq DEF FlattenSeq
  <2> QED
    BY <2>1, EmptySeq
<1>2. CASE n # 0
  <2>1. IsStep(n, Seq(S), step) /\ <<>> \in Seq(S)
    <3>1. \A t \in Seq(S) : \A i \in 1..n : step[<<t, i>>] = t \o qq[i]
      OBVIOUS
    <3>2. \A t \in Seq(S) : \A i \in 1..n : t \o qq[i] \in Seq(S)
      BY <1>0, ConcatProperties
    <3> HIDE DEF step
    <3> QED
      BY <3>1, <3>2, EmptySeq DEF IsStep
  <2>2. PICK h \in RunsOf(n, Seq(S), <<>>, step) : TRUE
    <3> HIDE DEF step, n
    <3> QED
      BY <1>0, <2>1, RecursionUpTo
  <2>3. h \in [0..n -> Seq(S)] /\ h[0] = <<>> /\ \A i \in 1..n : h[i - 1] \in Seq(S) /\ h[i] = step[<<h[i - 1], i>>]
    <3> HIDE DEF step, n
    <3> QED
      BY <1>0, <2>2, RunValues
  <2>4. \A i \in 1..n : h[i] = h[i - 1] \o qq[i]
    BY <2>3
  <2> DEFINE f == [i \in 1..n |-> h[i]]
  <2>5. \A i \in 1..n : f[i] = IF i = 1 THEN qq[i] ELSE f[i - 1] \o qq[i]
    <3> HIDE DEF step
    <3> TAKE i \in 1..n
    <3>1. CASE i = 1
      <4>0. 1 \in 1..n /\ 1 - 1 = 0
        BY <3>1
      <4>3. h[1] = h[1 - 1] \o qq[1]
        BY <2>4, <4>0
      <4>1. h[1] = h[0] \o qq[1] /\ h[0] = <<>> /\ qq[1] \in Seq(S) /\ f[1] = h[1]
        BY <1>0, <2>3, <4>0, <4>3
      <4>2. <<>> \o qq[1] = qq[1]
        BY <4>1, ConcatEmptySeq
      <4> QED
        BY <3>1, <4>1, <4>2
    <3>2. CASE i # 1
      <4>1. i - 1 \in 1..n
        BY <1>0, <3>2
      <4>2. f[i] = h[i] /\ f[i - 1] = h[i - 1]
        BY <4>1
      <4> QED
        BY <2>4, <3>2, <4>2
    <3> QED
      BY <3>1, <3>2
  <2>6. Solves(f)
    <3>1. f = [i \in 1..n |-> f[i]]
      OBVIOUS
    <3> HIDE DEF f, n
    <3> QED
      BY <2>5, <3>1
  <2>7. PICK g : g = (CHOOSE l : Solves(l)) /\ Solves(g)
    <3> HIDE DEF Solves, f
    <3> QED
      BY <2>6
  <2>8. FlattenSeq(qq) = g[n]
    BY <1>2, <2>7 DEF FlattenSeq
  <2>9. \A i \in 1..n : g[i] = IF i = 1 THEN qq[i] ELSE g[i - 1] \o qq[i]
    BY <2>7
  <2> DEFINE M == {i \in 0..n : i = 0 \/ g[i] \in Seq(S)}
  <2>10. ASSUME NEW i \in 1..n, i - 1 \in M PROVE i \in M
    <3> HIDE DEF f, step, Solves
    <3>1. CASE i = 1
      BY <1>0, <2>9, <3>1
    <3>2. CASE i # 1
      <4>3. i - 1 # 0
        BY <1>0, <3>2
      <4>4. g[i - 1] \in Seq(S)
        BY <2>10, <4>3
      <4>1. g[i - 1] \in Seq(S) /\ g[i] = g[i - 1] \o qq[i] /\ qq[i] \in Seq(S)
        BY <1>0, <2>9, <3>2, <4>4
      <4>2. g[i] \in Seq(S)
        BY <4>1, ConcatProperties
      <4> QED
        BY <1>0, <4>2
    <3> QED
      BY <3>1, <3>2
  <2>11. n \in M
    <3>1. 0 \in M
      BY <1>0
    <3> HIDE DEF M, n
    <3>2. \A i \in 0..n : i \in M
      BY <1>0, <2>10, <3>1, InductionUpTo
    <3> QED
      BY <1>0, <3>2
  <2> QED
    BY <1>2, <2>8, <2>11
<1> QED
  BY <1>1, <1>2

\* The elements of a prefix.
LEMMA PrefixIn ==
    ASSUME NEW S, NEW s \in Seq(S), NEW n \in Int
    PROVE  Prefix(s, n) \in Seq(S)
<1> DEFINE m == IF Len(s) < n THEN Len(s) ELSE n
<1>1. Len(s) \in Nat
  BY LenProperties
<1>2. m \in Int /\ m <= Len(s)
  BY <1>1
<1>3. \A i \in 1..m : s[i] \in S
  <2> TAKE i \in 1..m
  <2>1. i \in 1..Len(s)
    BY <1>1, <1>2
  <2> QED
    BY <2>1, ElementOfSeq
<1>4. SubSeq(s, 1, m) \in Seq(S)
  <2> HIDE DEF m
  <2> QED
    BY <1>2, <1>3, SubSeqProperties
<1> QED
  BY <1>4 DEF Prefix

\* The elements of a sequence.
LEMMA ToSetIn ==
    ASSUME NEW S, NEW s \in Seq(S)
    PROVE  ToSet(s) \subseteq S /\ ToSet(s) = {s[i] : i \in 1..Len(s)}
<1>1. DOMAIN s = 1..Len(s) /\ \A i \in 1..Len(s) : s[i] \in S
  BY LenProperties, ElementOfSeq
<1> QED
  BY <1>1 DEF ToSet

\* A sequence that repeats nothing.
NoRepeat(q) == \A i, j \in 1..Len(q) : q[i] = q[j] => i = j

\* It has as many elements as it is long.
LEMMA NoRepeatCounts ==
    ASSUME NEW S, NEW q \in Seq(S), NoRepeat(q)
    PROVE  IsFiniteSet(ToSet(q)) /\ Cardinality(ToSet(q)) = Len(q)
<1> DEFINE T == ToSet(q)
<1>1. Len(q) \in Nat /\ q \in [1..Len(q) -> S] /\ T = {q[i] : i \in 1..Len(q)}
  BY LenProperties, ToSetIn
<1>2. q \in [1..Len(q) -> T]
  BY <1>1
<1>3. q \in Injection(1..Len(q), T)
  BY <1>2 DEF Injection, IsInjective, NoRepeat
<1>4. q \in Surjection(1..Len(q), T)
  BY <1>1, <1>2 DEF Surjection
<1>5. ExistsBijection(1..Len(q), T)
  BY <1>3, <1>4 DEF ExistsBijection, Bijection
<1> QED
  BY <1>1, <1>5, FS_CountingElements, FS_NatBijection

-----------------------------------------------------------------------------
(* Orders.                                                                 *)

Keys(n) == {a \in Seq(Int) : Len(a) = n}

\* LexLess is a strict total order of the keys of one length.
LEMMA LexIrreflexive ==
    ASSUME NEW n \in Nat, NEW a \in Keys(n)
    PROVE  ~LexLess(a, a)
<1>1. DOMAIN a = 1..n /\ \A i \in 1..n : a[i] \in Int
  BY LenProperties, ElementOfSeq DEF Keys
<1> QED
  BY <1>1 DEF LexLess

\* The order of keys is transitive.
LEMMA LexTransitive ==
    ASSUME NEW n \in Nat, NEW a \in Keys(n), NEW b \in Keys(n), NEW c \in Keys(n),
           LexLess(a, b), LexLess(b, c)
    PROVE  LexLess(a, c)
<1>1. /\ DOMAIN a = 1..n /\ DOMAIN b = 1..n
      /\ \A i \in 1..n : a[i] \in Int /\ b[i] \in Int /\ c[i] \in Int
  BY LenProperties, ElementOfSeq DEF Keys
<1>2. PICK i \in 1..n : a[i] < b[i] /\ \A j \in 1..(i - 1) : a[j] = b[j]
  BY <1>1 DEF LexLess
<1>3. PICK k \in 1..n : b[k] < c[k] /\ \A j \in 1..(k - 1) : b[j] = c[j]
  BY <1>1 DEF LexLess
<1>4. CASE i <= k
  <2>1. \A j \in 1..(i - 1) : a[j] = c[j]
    <3> TAKE j \in 1..(i - 1)
    <3>1. j \in 1..(k - 1)
      BY <1>4
    <3> QED
      BY <1>2, <1>3, <3>1
  <2>2. a[i] < c[i]
    <3>1. CASE i = k
      BY <1>1, <1>2, <1>3, <3>1
    <3>2. CASE i # k
      <4>1. i \in 1..(k - 1)
        BY <1>4, <3>2
      <4> QED
        BY <1>2, <1>3, <4>1
    <3> QED
      BY <3>1, <3>2
  <2> QED
    BY <1>1, <2>1, <2>2 DEF LexLess
<1>5. CASE k < i
  <2>1. \A j \in 1..(k - 1) : a[j] = c[j]
    <3> TAKE j \in 1..(k - 1)
    <3>1. j \in 1..(i - 1)
      BY <1>5
    <3> QED
      BY <1>2, <1>3, <3>1
  <2>2. a[k] < c[k]
    <3>1. k \in 1..(i - 1)
      BY <1>5
    <3> QED
      BY <1>2, <1>3, <3>1
  <2> QED
    BY <1>1, <2>1, <2>2 DEF LexLess
<1> QED
  BY <1>4, <1>5

\* Of two keys that differ one is the lower.
LEMMA LexTotal ==
    ASSUME NEW n \in Nat, NEW a \in Keys(n), NEW b \in Keys(n), a # b
    PROVE  LexLess(a, b) \/ LexLess(b, a)
<1>1. /\ DOMAIN a = 1..n /\ DOMAIN b = 1..n /\ Len(a) = n /\ Len(b) = n
      /\ \A i \in 1..n : a[i] \in Int /\ b[i] \in Int
  BY LenProperties, ElementOfSeq DEF Keys
<1> DEFINE D == {i \in 1..n : a[i] # b[i]}
<1>2. D # {}
  <2>1. SUFFICES ASSUME D = {} PROVE FALSE
    OBVIOUS
  <2>2. \A i \in 1..n : a[i] = b[i]
    BY <2>1
  <2> QED
    BY <1>1, <2>2, SeqEqual DEF Keys
<1>3. PICK i \in D : \A j \in D : i <= j
  <2>1. D \subseteq Nat
    OBVIOUS
  <2> HIDE DEF D
  <2> QED
    BY <1>2, <2>1, LeastNatural
<1>4. \A j \in 1..(i - 1) : a[j] = b[j]
  <2> TAKE j \in 1..(i - 1)
  <2>1. j \notin D /\ j \in 1..n
    BY <1>3
  <2> QED
    BY <2>1
<1>5. a[i] < b[i] \/ b[i] < a[i]
  BY <1>1, <1>3
<1> QED
  BY <1>1, <1>3, <1>4, <1>5 DEF LexLess

\* What comes before x in S by the order R.
Below(S, R, x) == {y \in S : <<y, x>> \in R}

IsStrictOrder(S, R) ==
    /\ \A x \in S : <<x, x>> \notin R
    /\ \A x, y, z \in S : <<x, y>> \in R /\ <<y, z>> \in R => <<x, z>> \in R
    /\ \A x, y \in S : x # y => <<x, y>> \in R \/ <<y, x>> \in R

\* The elements of a finite set have the ranks from 0 on.
LEMMA Ranks ==
    ASSUME NEW S, IsFiniteSet(S), NEW R, IsStrictOrder(S, R)
    PROVE  /\ \A i \in 1..Cardinality(S) : \E x \in S : Cardinality(Below(S, R, x)) = i - 1
           /\ \A x \in S : \E i \in 1..Cardinality(S) : Cardinality(Below(S, R, x)) = i - 1
           /\ \A x, y \in S : Cardinality(Below(S, R, x)) = Cardinality(Below(S, R, y)) => x = y
<1> DEFINE n == Cardinality(S)
<1>1. n \in Nat
  BY FS_CardinalityType
<1>2. PICK q \in [1..n -> S] : \A i, j \in 1..n : i < j => <<q[i], q[j]>> \in R
  BY SortedListing DEF IsStrictOrder
<1>3. \A i, j \in 1..n : q[i] = q[j] => i = j
  <2> SUFFICES ASSUME NEW i \in 1..n, NEW j \in 1..n, q[i] = q[j], i # j PROVE FALSE
    OBVIOUS
  <2>1. i < j \/ j < i
    BY <1>1
  <2>2. <<q[i], q[i]>> \in R /\ q[i] \in S
    BY <1>2, <2>1
  <2> QED
    BY <2>2 DEF IsStrictOrder
<1>4. q \in Injection(1..n, S)
  BY <1>2, <1>3 DEF Injection, IsInjective
<1>5. \A x \in S : \E i \in 1..n : q[i] = x
  <2>1. Cardinality(1..n) = n
    BY <1>1, FS_Interval
  <2>2. q \in Surjection(1..n, S)
    BY <1>4, <2>1, FS_Injection
  <2> QED
    BY <2>2 DEF Surjection
<1>6. ASSUME NEW i \in 1..n PROVE Cardinality(Below(S, R, q[i])) = i - 1
  <2> DEFINE B == Below(S, R, q[i])
             f == [j \in 1..(i - 1) |-> q[j]]
  <2>1. i - 1 \in Nat /\ \A j \in 1..(i - 1) : j \in 1..n /\ j < i
    BY <1>1
  <2>2. ASSUME NEW j \in 1..(i - 1) PROVE q[j] \in B
    <3>1. <<q[j], q[i]>> \in R /\ q[j] \in S
      BY <1>2, <2>1
    <3> QED
      BY <3>1 DEF Below
  <2>3. ASSUME NEW x \in B PROVE \E j \in 1..(i - 1) : q[j] = x
    <3>1. x \in S /\ <<x, q[i]>> \in R
      BY <2>3 DEF Below
    <3>2. PICK j \in 1..n : q[j] = x
      BY <1>5, <3>1
    <3>3. j < i
      <4>1. CASE j = i
        BY <1>2, <3>1, <3>2, <4>1 DEF IsStrictOrder
      <4>2. CASE i < j
        <5>1. <<q[i], x>> \in R /\ q[i] \in S
          BY <1>2, <3>2, <4>2
        <5>2. <<x, x>> \in R
          BY <3>1, <5>1 DEF IsStrictOrder
        <5> QED
          BY <3>1, <5>2 DEF IsStrictOrder
      <4> QED
        BY <1>1, <4>1, <4>2
    <3> QED
      BY <1>1, <3>2, <3>3
  <2>4. f \in [1..(i - 1) -> B]
    BY <2>2
  <2>5. f \in Injection(1..(i - 1), B)
    BY <1>3, <2>1, <2>4 DEF Injection, IsInjective
  <2>6. f \in Surjection(1..(i - 1), B)
    <3>1. \A x \in B : \E j \in 1..(i - 1) : f[j] = x
      BY <2>3
    <3> QED
      BY <2>4, <3>1 DEF Surjection
  <2>7. ExistsBijection(1..(i - 1), B)
    BY <2>5, <2>6 DEF ExistsBijection, Bijection
  <2> QED
    BY <2>1, <2>7, FS_CountingElements
<1>7. \A i \in 1..n : q[i] \in S
  BY <1>2
<1>8. ASSUME NEW x \in S, NEW y \in S, Cardinality(Below(S, R, x)) = Cardinality(Below(S, R, y)) PROVE x = y
  <2>1. PICK i \in 1..n : q[i] = x
    BY <1>5
  <2>2. PICK j \in 1..n : q[j] = y
    BY <1>5
  <2>3. i - 1 = j - 1
    BY <1>6, <1>8, <2>1, <2>2
  <2>4. i = j
    BY <1>1, <2>3
  <2> QED
    BY <2>1, <2>2, <2>4
<1>9. ASSUME NEW x \in S PROVE \E i \in 1..n : Cardinality(Below(S, R, x)) = i - 1
  BY <1>5, <1>6
<1>10. ASSUME NEW i \in 1..n PROVE \E x \in S : Cardinality(Below(S, R, x)) = i - 1
  BY <1>6, <1>7
<1> QED
  BY <1>8, <1>9, <1>10

-----------------------------------------------------------------------------
(* Legs and timelines.                                                     *)

IsRoads(rd) == rd = NoRoads \/ rd \in Roads

LegsOfDays == [kind : 1..3, leg : Nat, from : Positions, to : Positions]

\* Positions are numbers, and the places have one.
LEMMA PositionsAreNumbers ==
    Positions \subseteq Int /\ HotelAt \in Positions /\ \A p \in Places : PlaceAt(p) \in Positions
BY TimelineAssumption DEF Positions, PlaceAt

\* The days of a plan.
LEMMA TripDays ==
    ASSUME NEW n \in Nat, NEW w \in TripsOf(n)
    PROVE  /\ Days(w) = 1..n /\ Len(w.spots) = n /\ w.spots \in Seq(Seq(Places))
           /\ \A d \in 1..n : /\ w.spots[d] \in Seq(Places) /\ w.hotel[d] \in BOOLEAN
                              /\ w.text[d] \in Texts /\ w.meals[d] \in Seq(Meals)
           /\ w.stay \in [Places -> Nat]
           /\ w.spots \in [1..n -> Seq(Places)] /\ w.hotel \in [1..n -> BOOLEAN]
           /\ w.text \in [1..n -> Texts] /\ w.meals \in [1..n -> Seq(Meals)]
<1>1. /\ w.spots \in [1..n -> Seq(Places)] /\ w.hotel \in [1..n -> BOOLEAN]
      /\ w.text \in [1..n -> Texts] /\ w.meals \in [1..n -> Seq(Meals)] /\ w.stay \in [Places -> Nat]
  BY DEF TripsOf
<1>2. w.spots \in Seq(Seq(Places))
  BY <1>1
<1>3. Len(w.spots) = n
  BY <1>1, <1>2, LenProperties
<1> QED
  BY <1>1, <1>2, <1>3 DEF Days

\* The provider's minutes of a leg.
LEMMA RoadTimeType ==
    ASSUME NEW rd, IsRoads(rd), NEW l \in LegsOfDays
    PROVE  RoadTime(rd, l) \in Nat
<1>1. l.from \in Positions /\ l.to \in Positions
  BY DEF LegsOfDays
<1>2. CASE rd = NoRoads
  BY <1>2 DEF RoadTime
<1>3. CASE rd # NoRoads
  <2>1. rd \in [Positions \X Positions -> Nat]
    BY <1>3, TimelineAssumption DEF IsRoads
  <2>2. rd[<<l.from, l.to>>] \in Nat
    BY <1>1, <2>1
  <2> QED
    BY <1>3, <2>2 DEF RoadTime
<1> QED
  BY <1>2, <1>3

\* A text means one of the modes.
LEMMA ModeOfType ==
    ASSUME NEW x \in Texts
    PROVE  ModeOf(x) \in Modes
<1>1. x.declared \in Modes \cup {"none", "empty"} /\ x.marks \subseteq Modes
  BY DEF Texts
<1> QED
  BY <1>1, TimelineAssumption DEF ModeOf, Modes

\* The minutes of a leg.
LEMMA LegTimeType ==
    ASSUME NEW n \in Nat, NEW w \in TripsOf(n), NEW d \in 1..n, NEW rd, IsRoads(rd),
           NEW l \in LegsOfDays
    PROVE  LegTime(w, d, rd, l) \in Nat \ {0}
<1> DEFINE mode == ModeOf(w.text[d])
           fallback == Distance(l.from, l.to) * MinutesPerUnit[mode]
           time == IF RoadTime(rd, l) > 0 THEN RoadTime(rd, l) ELSE fallback
<1>1. RoadTime(rd, l) \in Nat
  BY RoadTimeType
<1>2. mode \in Modes
  BY TripDays, ModeOfType
<1>3. MinutesPerUnit[mode] \in Nat
  <2> HIDE DEF mode
  <2> QED
    BY <1>2, TimelineAssumption
<1>4. Distance(l.from, l.to) \in Nat
  <2>1. l.from \in Int /\ l.to \in Int
    BY PositionsAreNumbers DEF LegsOfDays
  <2> QED
    BY <2>1 DEF Distance
<1>5. fallback \in Int
  <2> HIDE DEF mode
  <2> QED
    BY <1>3, <1>4
<1>6. time \in Int
  <2> HIDE DEF fallback
  <2> QED
    BY <1>1, <1>5
<1>7. LegTime(w, d, rd, l) = IF time < 1 THEN 1 ELSE time
  BY DEF LegTime
<1> HIDE DEF time
<1> QED
  BY <1>6, <1>7

\* The legs of a day: the way out, the ways between, the way back.
IsLeg(w, d, l) ==
    LET q == w.spots[d] IN
    \/ l.kind = 2 /\ l.leg = 0 /\ l.from = HotelAt /\ l.to = PlaceAt(q[1])
    \/ /\ l.kind = 1 /\ l.leg \in 1..(Len(q) - 1)
       /\ l.from = PlaceAt(q[l.leg]) /\ l.to = PlaceAt(q[l.leg + 1])
    \/ l.kind = 3 /\ l.leg = 0 /\ l.from = PlaceAt(q[Len(q)]) /\ l.to = HotelAt

\* The legs of a day join its hotel and its attractions; a day without attractions has
\* none.
LEMMA LegsType ==
    ASSUME NEW n \in Nat, NEW w \in TripsOf(n), NEW d \in 1..n
    PROVE  /\ Legs(w, d) \in Seq({l \in LegsOfDays : IsLeg(w, d, l)})
           /\ w.spots[d] = <<>> => Legs(w, d) = <<>>
           /\ w.spots[d] # <<>> /\ (HasStart(w, d) \/ HasReturn(w, d)) => Legs(w, d) # <<>>
<1> DEFINE q == w.spots[d]
           m == Len(q)
           L == {l \in LegsOfDays : IsLeg(w, d, l)}
           out == [kind |-> 2, leg |-> 0, from |-> HotelAt, to |-> PlaceAt(q[1])]
           way(i) == [kind |-> 1, leg |-> i, from |-> PlaceAt(q[i]), to |-> PlaceAt(q[i + 1])]
           back == [kind |-> 3, leg |-> 0, from |-> PlaceAt(q[m]), to |-> HotelAt]
           departure == IF HasStart(w, d) THEN <<out>> ELSE <<>>
           between == [i \in 1..(m - 1) |-> way(i)]
           return == IF HasReturn(w, d) THEN <<back>> ELSE <<>>
<1>1. q \in Seq(Places) /\ m \in Nat /\ \A i \in 1..m : q[i] \in Places
  BY TripDays, LenProperties, ElementOfSeq
<1>2. CASE q = <<>>
  <2>1. Legs(w, d) = <<>>
    BY <1>2 DEF Legs
  <2> QED
    BY <1>2, <2>1, EmptySeq
<1>3. CASE q # <<>>
  <2>1. m \in Nat \ {0}
    BY <1>1, <1>3, EmptySeq, SMTT(20)
  <2>2. Legs(w, d) = departure \o between \o return
    BY <1>3 DEF Legs
  <2>3. out \in L /\ back \in L
    <3>1. q[1] \in Places /\ q[m] \in Places
      BY <1>1, <2>1
    <3>2. PlaceAt(q[1]) \in Positions /\ PlaceAt(q[m]) \in Positions /\ HotelAt \in Positions
      BY <3>1, PositionsAreNumbers
    <3>3. out \in LegsOfDays /\ back \in LegsOfDays
      BY <3>2 DEF LegsOfDays
    <3>4. IsLeg(w, d, out) /\ IsLeg(w, d, back)
      BY DEF IsLeg
    <3> QED
      BY <3>3, <3>4
  <2>4. between \in Seq(L)
    <3>1. m - 1 \in Nat
      BY <2>1
    <3>2. ASSUME NEW i \in 1..(m - 1) PROVE way(i) \in L
      <4>1. i \in Nat /\ q[i] \in Places /\ q[i + 1] \in Places
        BY <1>1
      <4>2. PlaceAt(q[i]) \in Positions /\ PlaceAt(q[i + 1]) \in Positions
        BY <4>1, PositionsAreNumbers
      <4>3. way(i) \in LegsOfDays
        BY <4>1, <4>2 DEF LegsOfDays
      <4>4. IsLeg(w, d, way(i))
        BY DEF IsLeg
      <4> QED
        BY <4>3, <4>4
    <3>3. between \in [1..(m - 1) -> L]
      <4> HIDE DEF way, L
      <4> QED
        BY <3>2
    <3> HIDE DEF between, L, m
    <3> QED
      BY <3>1, <3>3
  <2>5. departure \in Seq(L) /\ return \in Seq(L)
    <3> HIDE DEF out, back, L
    <3>1. <<out>> \in Seq(L) /\ <<back>> \in Seq(L) /\ <<>> \in Seq(L)
      BY <2>3
    <3> QED
      BY <3>1
  <2>6. HasStart(w, d) => Len(departure) = 1
    <3> HIDE DEF out
    <3> QED
      OBVIOUS
  <2>7. HasReturn(w, d) => Len(return) = 1
    <3> HIDE DEF back
    <3> QED
      OBVIOUS
  <2> DEFINE both == departure \o between
  <2> HIDE DEF departure, between, return, L
  <2>8. both \in Seq(L) /\ Len(both) = Len(departure) + Len(between)
        /\ Len(departure) \in Nat /\ Len(between) \in Nat /\ Len(return) \in Nat
    BY <2>4, <2>5, ConcatProperties, LenProperties
  <2> HIDE DEF both
  <2>9. both \o return \in Seq(L) /\ Len(both \o return) = Len(both) + Len(return)
    BY <2>5, <2>8, ConcatProperties
  <2>10. Legs(w, d) = both \o return
    BY <2>2 DEF both
  <2>11. HasStart(w, d) \/ HasReturn(w, d) => Len(Legs(w, d)) # 0
    BY <2>6, <2>7, <2>8, <2>9, <2>10
  <2>12. HasStart(w, d) \/ HasReturn(w, d) => Legs(w, d) # <<>>
    BY <2>11, EmptySeq
  <2>13. Legs(w, d) \in Seq(L)
    BY <2>9, <2>10
  <2> QED
    BY <1>3, <2>12, <2>13 DEF L
<1> QED
  BY <1>2, <1>3

-----------------------------------------------------------------------------
(* Timelines.                                                              *)

ItemTypes == {"break", "meal", "transportation", "attraction"}
Items == [type : ItemTypes, spot : Nat, from : Int, to : Int]
Timelines == [now : Int, items : Seq(Items), lunch : BOOLEAN, required : Int,
              travel : Int, fallbacks : Int]

\* Every item begins where the one before it ends, and the last one ends now.
Chained(t) ==
    /\ \A i \in 1..(Len(t.items) - 1) : t.items[i].to = t.items[i + 1].from
    /\ Len(t.items) > 0 => t.items[Len(t.items)].to = t.now

\* The day starts early enough for lunch.
InTime == DayStart <= LunchUntil - LunchTime

MealsInWindow(t) ==
    InTime =>
    \A i \in 1..Len(t.items) :
        t.items[i].type = "meal" => LunchFrom <= t.items[i].from /\ t.items[i].to <= LunchUntil

\* A timeline as it grows; lunch that was not eaten still can be.
Sound(t) ==
    /\ t \in Timelines /\ Chained(t) /\ MealsInWindow(t)
    /\ InTime /\ LunchTime > 0 /\ ~t.lunch => t.now <= LunchUntil - LunchTime
    /\ t.required = t.now - DayStart

\* The settings as numbers.
LEMMA SettingsAreNumbers ==
    /\ DayStart \in Nat /\ DayEnd \in Nat /\ LunchFrom \in Nat /\ LunchUntil \in Nat
    /\ LunchTime \in Nat /\ LunchTime <= LunchUntil - LunchFrom
    /\ RouteBuffer \in Nat /\ RestBuffer \in Nat
    /\ Noon \in Nat /\ LunchFrom < LunchUntil /\ DayStart < DayEnd
    /\ BreakfastAt \in Nat /\ DinnerAt \in Nat /\ MealTime \in Nat /\ Midnight \in Nat \ {0}
    /\ DayEnd <= Midnight
BY TimelineAssumption DEF SettingsAccepted

\* A timeline with another end, with lunch eaten, with other transport.
Moved(t, a, b) == [t EXCEPT !.now = a, !.items = b]
Eaten(t, a) == [t EXCEPT !.lunch = TRUE, !.required = a]
Travelled(t, a, c) == [t EXCEPT !.travel = a, !.fallbacks = c]

\* The end and the items of a timeline change.
LEMMA TimelineMoves ==
    ASSUME NEW t \in Timelines, NEW a \in Int, NEW b \in Seq(Items),
           NEW u, u = Moved(t, a, b)
    PROVE  /\ u \in Timelines /\ u.now = a /\ u.items = b /\ u.lunch = t.lunch
           /\ u.required = t.required
BY DEF Timelines, Moved

\* Lunch is eaten.
LEMMA TimelineEats ==
    ASSUME NEW t \in Timelines, NEW a \in Int,
           NEW u, u = Eaten(t, a)
    PROVE  /\ u \in Timelines /\ u.now = t.now /\ u.items = t.items /\ u.lunch = TRUE
           /\ u.required = a
BY DEF Timelines, Eaten

\* The minutes of transport change.
LEMMA TimelineTravels ==
    ASSUME NEW t \in Timelines, NEW a \in Int, NEW c \in Int,
           NEW u, u = Travelled(t, a, c)
    PROVE  /\ u \in Timelines /\ u.now = t.now /\ u.items = t.items /\ u.lunch = t.lunch
           /\ u.required = t.required
BY DEF Timelines, Travelled

\* One item more, which is a meal only inside the window.
LEMMA RawItemAppended ==
    ASSUME NEW t \in Timelines, Chained(t), MealsInWindow(t), NEW type \in ItemTypes, NEW i \in Nat,
           NEW minutes \in Nat,
           type = "meal" /\ InTime => LunchFrom <= t.now /\ t.now + minutes <= LunchUntil
    PROVE  \E u : /\ u = AppendRawItem(t, type, i, minutes) /\ u \in Timelines /\ Chained(u)
                  /\ MealsInWindow(u) /\ u.now = t.now + minutes /\ u.lunch = t.lunch
                  /\ u.required = t.required
<1> DEFINE u == AppendRawItem(t, type, i, minutes)
           x == [type |-> type, spot |-> i, from |-> t.now, to |-> t.now + minutes]
<1>0. t.now \in Int /\ t.items \in Seq(Items)
  BY DEF Timelines
<1>1. CASE minutes = 0
  <2>1. u = t
    BY <1>1 DEF AppendRawItem
  <2>2. t.now = t.now + minutes
    BY <1>0, <1>1
  <2> HIDE DEF u
  <2> QED
    BY <2>1, <2>2 DEF u
<1>2. CASE minutes # 0
  <2>1. u = Moved(t, t.now + minutes, Append(t.items, x))
    BY <1>2 DEF AppendRawItem, Moved
  <2>2. x \in Items
    BY <1>0 DEF Items
  <2> DEFINE k == Len(t.items)
  <2>3. /\ Append(t.items, x) \in Seq(Items) /\ Len(Append(t.items, x)) = k + 1 /\ k \in Nat
        /\ Append(t.items, x)[k + 1] = x /\ \A j \in 1..k : Append(t.items, x)[j] = t.items[j]
    <3> HIDE DEF x
    <3> QED
      BY <1>0, <2>2, AppendProperties, LenProperties
  <2>4. u \in Timelines /\ u.now = t.now + minutes /\ u.items = Append(t.items, x) /\ u.lunch = t.lunch
        /\ u.required = t.required
    <3>1. PICK a \in Int : a = t.now + minutes
      BY <1>0
    <3> HIDE DEF x, u
    <3>4. PICK b \in Seq(Items) : b = Append(t.items, x)
      BY <2>3
    <3>2. u = Moved(t, a, b)
      BY <2>1, <3>1, <3>4
    <3>3. /\ u \in Timelines /\ u.now = a /\ u.items = b /\ u.lunch = t.lunch
          /\ u.required = t.required
      BY <3>2, TimelineMoves
    <3> QED
      BY <3>1, <3>3, <3>4
  <2>5. x.to = u.now /\ x.from = t.now /\ x.type = type /\ x.to = t.now + minutes
    BY <2>4
  <2> HIDE DEF u, x, k
  <2>6. Chained(u)
    <3>1. \A j \in 1..k : u.items[j].to = u.items[j + 1].from
      <4> SUFFICES ASSUME NEW j \in 1..k PROVE u.items[j].to = u.items[j + 1].from
        OBVIOUS
      <4>1. CASE j = k
        <5>1. k > 0 /\ j + 1 = k + 1
          BY <2>3, <4>1
        <5>2. t.items[k].to = t.now
          BY <5>1 DEF Chained, k
        <5> QED
          BY <2>3, <2>4, <2>5, <4>1, <5>1, <5>2
      <4>2. CASE j # k
        <5>1. j + 1 \in 1..k /\ j \in 1..(k - 1)
          BY <2>3, <4>2
        <5>2. t.items[j].to = t.items[j + 1].from
          BY <5>1 DEF Chained, k
        <5> QED
          BY <2>3, <2>4, <5>1, <5>2
      <4> QED
        BY <4>1, <4>2
    <3>2. Len(u.items) - 1 = k /\ Len(u.items) = k + 1
      BY <2>3, <2>4
    <3> QED
      BY <2>3, <2>4, <2>5, <3>1, <3>2 DEF Chained
  <2>7. MealsInWindow(u)
    <3> SUFFICES ASSUME InTime, NEW j \in 1..(k + 1), u.items[j].type = "meal"
                 PROVE  LunchFrom <= u.items[j].from /\ u.items[j].to <= LunchUntil
      BY <2>3, <2>4 DEF MealsInWindow
    <3>1. CASE j = k + 1
      BY <2>3, <2>4, <2>5, <3>1
    <3>2. CASE j # k + 1
      <4>1. j \in 1..k
        BY <2>3, <3>2
      <4> QED
        BY <2>3, <2>4, <4>1 DEF MealsInWindow, k
    <3> QED
      BY <3>1, <3>2
  <2> QED
    BY <2>4, <2>6, <2>7 DEF u
<1> QED
  BY <1>1, <1>2

\* Lunch, when it was not eaten yet.
LEMMA LunchAppended ==
    ASSUME NEW t, Sound(t)
    PROVE  Sound(AppendLunch(t)) /\ (LunchTime > 0 => AppendLunch(t).lunch)
<1> DEFINE wait == IF t.now < LunchFrom THEN LunchFrom - t.now ELSE 0
<1>0. t \in Timelines /\ t.now \in Int /\ t.lunch \in BOOLEAN /\ t.required \in Int
  BY DEF Sound, Timelines
<1>1. CASE t.lunch \/ LunchTime = 0
  <2>1. AppendLunch(t) = t
    BY <1>1 DEF AppendLunch
  <2> QED
    BY <1>1, <2>1
<1>2. CASE ~t.lunch /\ LunchTime > 0
  <2>1. /\ wait \in Nat /\ LunchFrom <= t.now + wait
        /\ InTime => t.now + wait + LunchTime <= LunchUntil /\ t.now <= LunchUntil - LunchTime
    BY <1>0, <1>2, SettingsAreNumbers DEF Sound
  <2> HIDE DEF wait
  <2>2. PICK v : /\ v = AppendRawItem(t, "break", 0, wait) /\ v \in Timelines /\ Chained(v)
                 /\ MealsInWindow(v) /\ v.now = t.now + wait /\ v.lunch = t.lunch
                 /\ v.required = t.required
    <3>1. "break" \in ItemTypes /\ "break" # "meal" /\ 0 \in Nat
      BY DEF ItemTypes
    <3> QED
      BY <2>1, <3>1, RawItemAppended DEF Sound
  <2>3. PICK u : /\ u = AppendRawItem(v, "meal", 0, LunchTime) /\ u \in Timelines /\ Chained(u)
                 /\ MealsInWindow(u) /\ u.now = v.now + LunchTime /\ u.lunch = v.lunch
                 /\ u.required = v.required
    <3>1. "meal" \in ItemTypes /\ 0 \in Nat
      BY DEF ItemTypes
    <3>2. LunchFrom <= v.now /\ (InTime => v.now + LunchTime <= LunchUntil)
      BY <2>1, <2>2
    <3> QED
      BY <2>2, <3>1, <3>2, SettingsAreNumbers, RawItemAppended
  <2>4. AppendLunch(t) = Eaten(u, u.required + wait + LunchTime)
    BY <1>2, <2>2, <2>3 DEF AppendLunch, wait, Eaten
  <2> DEFINE z == AppendLunch(t)
  <2>5. z \in Timelines /\ z.now = u.now /\ z.items = u.items /\ z.lunch = TRUE
        /\ z.required = u.required + wait + LunchTime
    <3>1. PICK a \in Int : a = u.required + wait + LunchTime
      BY <2>1, <2>3, SettingsAreNumbers DEF Timelines
    <3>2. z = Eaten(u, a)
      BY <2>4, <3>1
    <3> HIDE DEF z
    <3>3. /\ z \in Timelines /\ z.now = u.now /\ z.items = u.items /\ z.lunch = TRUE
          /\ z.required = a
      BY <2>3, <3>2, TimelineEats, ZenonT(40)
    <3> QED
      BY <3>1, <3>3
  <2> HIDE DEF z
  <2>6. z.required = z.now - DayStart
    <3>1. t.required = t.now - DayStart
      BY DEF Sound
    <3> QED
      BY <1>0, <2>1, <2>2, <2>3, <2>5, <3>1, SettingsAreNumbers
  <2>7. Chained(z) /\ MealsInWindow(z)
    BY <2>3, <2>5 DEF Chained, MealsInWindow
  <2> QED
    BY <2>5, <2>6, <2>7 DEF Sound, z
<1> QED
  BY <1>0, <1>1, <1>2, SettingsAreNumbers

\* An item that is no meal, with lunch before it when it would be late after it.
LEMMA ItemAppended ==
    ASSUME NEW t, Sound(t), NEW type \in ItemTypes \ {"meal"}, NEW i \in Nat, NEW minutes \in Nat
    PROVE  Sound(AppendItem(t, type, i, minutes))
<1> DEFINE u == IF minutes > 0 /\ LunchIsDue(t, minutes) THEN AppendLunch(t) ELSE t
<1>0. t \in Timelines /\ t.now \in Int /\ t.lunch \in BOOLEAN
  BY DEF Sound, Timelines
<1>1. Sound(u) /\ (InTime /\ LunchTime > 0 /\ ~u.lunch => u.now + minutes <= LunchUntil - LunchTime)
  <2>1. CASE minutes > 0 /\ LunchIsDue(t, minutes)
    BY <2>1, LunchAppended
  <2>2. CASE ~(minutes > 0 /\ LunchIsDue(t, minutes))
    <3>1. u = t
      BY <2>2
    <3>2. ASSUME InTime, LunchTime > 0, ~t.lunch PROVE t.now + minutes <= LunchUntil - LunchTime
      <4>1. CASE minutes = 0
        BY <1>0, <3>2, <4>1 DEF Sound
      <4>2. CASE minutes > 0
        BY <1>0, <2>2, <3>2, <4>2, SettingsAreNumbers DEF LunchIsDue
      <4> QED
        BY <4>1, <4>2
    <3> HIDE DEF u
    <3> QED
      BY <3>1, <3>2
  <2> QED
    BY <2>1, <2>2
<1> HIDE DEF u
<1>2. PICK v : /\ v = AppendRawItem(u, type, i, minutes) /\ v \in Timelines /\ Chained(v)
               /\ MealsInWindow(v) /\ v.now = u.now + minutes /\ v.lunch = u.lunch
               /\ v.required = u.required
  BY <1>1, RawItemAppended DEF Sound
<1>3. AppendItem(t, type, i, minutes) = [v EXCEPT !.required = v.required + minutes]
  BY <1>2 DEF AppendItem, u
<1> DEFINE z == AppendItem(t, type, i, minutes)
<1>4. z \in Timelines /\ z.now = v.now /\ z.items = v.items /\ z.lunch = v.lunch
      /\ z.required = v.required + minutes
  BY <1>2, <1>3 DEF Timelines
<1> HIDE DEF z
<1>5. Chained(z) /\ MealsInWindow(z)
  BY <1>2, <1>4 DEF Chained, MealsInWindow
<1>6. z.required = z.now - DayStart
  <2>1. u.required = u.now - DayStart /\ u.now \in Int
    BY <1>1 DEF Sound, Timelines
  <2> QED
    BY <1>2, <1>4, <2>1, SettingsAreNumbers
<1>7. InTime /\ LunchTime > 0 /\ ~z.lunch => z.now <= LunchUntil - LunchTime
  BY <1>1, <1>2, <1>4
<1> QED
  BY <1>4, <1>5, <1>6, <1>7 DEF Sound, z

\* A leg and its buffer.
LEMMA LegAppended ==
    ASSUME NEW n \in Nat, NEW w \in TripsOf(n), NEW d \in 1..n, NEW rd, IsRoads(rd),
           NEW l \in LegsOfDays, NEW t, Sound(t), NEW i \in Nat
    PROVE  Sound(AppendLeg(t, w, d, rd, l, i))
<1> DEFINE time == LegTime(w, d, rd, l)
           u == AppendItem(t, "transportation", i, time)
           lacks == IF RoadTime(rd, l) > 0 THEN 0 ELSE 1
           v == [u EXCEPT !.travel = u.travel + time, !.fallbacks = u.fallbacks + lacks]
<1>1. time \in Nat
  BY LegTimeType
<1>2. Sound(u)
  <2> HIDE DEF time
  <2> QED
    BY <1>1, ItemAppended DEF ItemTypes
<1>3. lacks \in Nat
  OBVIOUS
<1>4. Sound(v)
  <2> HIDE DEF u, time, lacks
  <2>1. u \in Timelines
    BY <1>2 DEF Sound
  <2>2. v \in Timelines /\ v.now = u.now /\ v.items = u.items /\ v.lunch = u.lunch
        /\ v.required = u.required
    <3>1. u.travel + time \in Int /\ u.fallbacks + lacks \in Int
      BY <1>1, <1>3, <2>1 DEF Timelines
    <3>2. v = Travelled(u, u.travel + time, u.fallbacks + lacks)
      BY DEF Travelled
    <3> HIDE DEF v
    <3> QED
      BY <2>1, <3>1, <3>2, TimelineTravels
  <2> HIDE DEF v
  <2> QED
    BY <1>2, <2>2 DEF Sound, Chained, MealsInWindow
<1>5. AppendLeg(t, w, d, rd, l, i) = AppendItem(v, "break", i, RouteBuffer)
  BY DEF AppendLeg
<1> HIDE DEF v
<1> QED
  BY <1>4, <1>5, ItemAppended, SettingsAreNumbers DEF ItemTypes

\* An attraction and the way to the next one.
LEMMA VisitAppended ==
    ASSUME NEW n \in Nat, NEW w \in TripsOf(n), NEW d \in 1..n, NEW rd, IsRoads(rd),
           NEW t, Sound(t), NEW i \in 1..Len(w.spots[d])
    PROVE  Sound(AppendVisit(t, w, d, rd, i))
<1> DEFINE q == w.spots[d]
           u == AppendItem(t, "attraction", i, w.stay[q[i]])
           l == [kind |-> 1, leg |-> i, from |-> PlaceAt(q[i]), to |-> PlaceAt(q[i + 1])]
           v == AppendItem(u, "break", i, RestBuffer)
<1>1. q \in Seq(Places) /\ w.stay \in [Places -> Nat] /\ Len(q) \in Nat /\ i \in Nat
      /\ \A j \in 1..Len(q) : q[j] \in Places
  BY TripDays, LenProperties, ElementOfSeq
<1>2. Sound(u)
  <2>1. w.stay[q[i]] \in Nat
    BY <1>1
  <2> QED
    BY <1>1, <2>1, ItemAppended DEF ItemTypes
<1>3. CASE i = Len(q)
  <2>1. AppendVisit(t, w, d, rd, i) = u
    BY <1>3 DEF AppendVisit
  <2> HIDE DEF u
  <2> QED
    BY <1>2, <2>1
<1>4. CASE i # Len(q)
  <2>1. q[i] \in Places /\ q[i + 1] \in Places
    <3>1. i + 1 \in 1..Len(q)
      BY <1>1, <1>4
    <3> QED
      BY <1>1, <3>1
  <2>2. l \in LegsOfDays
    <3>1. PlaceAt(q[i]) \in Positions /\ PlaceAt(q[i + 1]) \in Positions
      BY <2>1, PositionsAreNumbers
    <3> QED
      BY <1>1, <3>1 DEF LegsOfDays
  <2>3. Sound(v)
    <3> HIDE DEF u
    <3> QED
      BY <1>1, <1>2, ItemAppended, SettingsAreNumbers DEF ItemTypes
  <2>4. AppendVisit(t, w, d, rd, i) = AppendLeg(v, w, d, rd, l, i)
    BY <1>4 DEF AppendVisit
  <2> HIDE DEF v, l
  <2> QED
    BY <1>1, <2>2, <2>3, <2>4, LegAppended
<1> QED
  BY <1>3, <1>4

\* A day begins with nothing.
LEMMA EmptyIsSound == Sound(EmptyTimeline)
<1>1. <<>> \in Seq(Items) /\ Len(<<>>) = 0
  BY EmptySeq
<1>2. EmptyTimeline \in Timelines
  BY <1>1, SettingsAreNumbers DEF EmptyTimeline, Timelines
<1>3. /\ EmptyTimeline.items = <<>> /\ EmptyTimeline.now = DayStart /\ EmptyTimeline.required = 0
      /\ EmptyTimeline.lunch = FALSE
  BY DEF EmptyTimeline
<1>4. Chained(EmptyTimeline) /\ MealsInWindow(EmptyTimeline)
  BY <1>1, <1>3 DEF Chained, MealsInWindow
<1> HIDE DEF EmptyTimeline
<1> QED
  BY <1>2, <1>3, <1>4, SettingsAreNumbers DEF Sound, InTime

\* The way out of a day that has attractions.
LEMMA WayOutIsSound ==
    ASSUME NEW n \in Nat, NEW w \in TripsOf(n), NEW d \in 1..n, NEW rd, IsRoads(rd), w.spots[d] # <<>>
    PROVE  Sound(WayOut(w, d, rd))
<1> DEFINE L == {l \in LegsOfDays : IsLeg(w, d, l)}
<1>1. CASE HasStart(w, d)
  <2>1. Legs(w, d) \in Seq(L) /\ Legs(w, d) # <<>>
    BY <1>1, LegsType
  <2>2. Head(Legs(w, d)) \in L
    <3> HIDE DEF L
    <3> QED
      BY <2>1, HeadTailProperties
  <2>3. PICK l \in LegsOfDays : l = Head(Legs(w, d))
    BY <2>2
  <2>4. Sound(AppendLeg(EmptyTimeline, w, d, rd, l, 1))
    BY <2>3, EmptyIsSound, LegAppended
  <2> QED
    BY <1>1, <2>3, <2>4 DEF WayOut
<1>2. CASE ~HasStart(w, d)
  BY <1>2, EmptyIsSound DEF WayOut
<1> QED
  BY <1>1, <1>2

\* The way back.
LEMMA WayBackIsSound ==
    ASSUME NEW n \in Nat, NEW w \in TripsOf(n), NEW d \in 1..n, NEW rd, IsRoads(rd), w.spots[d] # <<>>,
           NEW t, Sound(t)
    PROVE  Sound(WayBack(t, w, d, rd))
<1> DEFINE L == {l \in LegsOfDays : IsLeg(w, d, l)}
<1>1. CASE HasReturn(w, d)
  <2>1. Legs(w, d) \in Seq(L) /\ Legs(w, d) # <<>>
    BY <1>1, LegsType
  <2>2. Last(Legs(w, d)) \in L
    <3> HIDE DEF L
    <3>1. Len(Legs(w, d)) \in 1..Len(Legs(w, d))
      BY <2>1, EmptySeq, LenProperties
    <3>2. Legs(w, d)[Len(Legs(w, d))] \in L
      BY <2>1, <3>1, ElementOfSeq
    <3> QED
      BY <3>2 DEF Last
  <2>3. PICK l \in LegsOfDays : l = Last(Legs(w, d))
    BY <2>2
  <2>4. PICK k \in Nat : k = Len(w.spots[d])
    BY TripDays, LenProperties
  <2>5. Sound(AppendLeg(t, w, d, rd, l, k))
    BY <2>3, <2>4, LegAppended
  <2> QED
    BY <1>1, <2>3, <2>4, <2>5 DEF WayBack
<1>2. CASE ~HasReturn(w, d)
  BY <1>2 DEF WayBack
<1> QED
  BY <1>1, <1>2

\* The attractions of a day, one after the other.
LEMMA VisitsAreSound ==
    ASSUME NEW n \in Nat, NEW w \in TripsOf(n), NEW d \in 1..n, NEW rd, IsRoads(rd), w.spots[d] # <<>>
    PROVE  Sound(Visits(w, d, rd))
<1> DEFINE m == Len(w.spots[d])
           T == {t \in Timelines : Sound(t)}
           base == WayOut(w, d, rd)
           step == [p \in T \X (1..m) |-> AppendVisit(p[1], w, d, rd, p[2])]
           Solves(g) == g = [i \in 0..m |-> IF i = 0 THEN base ELSE AppendVisit(g[i - 1], w, d, rd, i)]
<1>0. m \in Nat
  BY TripDays, LenProperties
<1>a. \A t : t \in T <=> Sound(t)
  BY DEF Sound
<1>b. base \in T
  BY <1>a, WayOutIsSound
<1>c. \A t \in T : \A i \in 1..m : AppendVisit(t, w, d, rd, i) \in T
  <2> HIDE DEF T
  <2> QED
    BY <1>a, VisitAppended
<1>d. \A t \in T : \A i \in 1..m : step[<<t, i>>] = AppendVisit(t, w, d, rd, i)
  <2> HIDE DEF T
  <2> QED
    OBVIOUS
<1>1. IsStep(m, T, step)
  <2> HIDE DEF T, step
  <2> QED
    BY <1>c, <1>d DEF IsStep
<1>2. PICK h \in RunsOf(m, T, base, step) : TRUE
  <2> HIDE DEF step, m, base, T
  <2>2. RunsOf(m, T, base, step) # {}
    BY <1>0, <1>1, <1>b, RecursionUpTo
  <2> QED
    BY <2>2
<1>3. h \in [0..m -> T] /\ h[0] = base /\ \A i \in 1..m : h[i] = AppendVisit(h[i - 1], w, d, rd, i)
  <2>1. /\ h \in [0..m -> T] /\ h[0] = base
        /\ \A i \in 1..m : h[i - 1] \in T /\ h[i] = step[<<h[i - 1], i>>]
    <3> HIDE DEF step, m, T, base, Solves
    <3>1. h \in RunsOf(m, T, base, step) /\ m \in Nat
      BY <1>0, <1>2
    <3>2. h \in [0..m -> T] /\ h[0] = base /\ \A i \in 1..m : h[i] = step[<<h[i - 1], i>>]
      BY <3>1 DEF RunsOf
    <3>3. \A i \in 1..m : h[i - 1] \in T
      <4> TAKE i \in 1..m
      <4>1. i - 1 \in 0..m
        BY <3>1
      <4> QED
        BY <3>2, <4>1
    <3> QED
      BY <3>2, <3>3
  <2> HIDE DEF T
  <2>2. ASSUME NEW i \in 1..m PROVE h[i] = AppendVisit(h[i - 1], w, d, rd, i)
    <3>1. PICK t \in T : t = h[i - 1]
      BY <2>1
    <3> HIDE DEF step, m
    <3>2. step[<<t, i>>] = AppendVisit(t, w, d, rd, i)
      BY <1>d
    <3> QED
      BY <2>1, <3>1, <3>2
  <2> QED
    BY <2>1, <2>2
<1> HIDE DEF base
<1>4. Solves(h)
  <2>1. \A i \in 0..m : h[i] = IF i = 0 THEN base ELSE AppendVisit(h[i - 1], w, d, rd, i)
    BY <1>0, <1>3
  <2> QED
    BY <1>3, <2>1
<1>5. PICK g : g = (CHOOSE l : Solves(l)) /\ Solves(g)
  <2> HIDE DEF Solves
  <2> QED
    BY <1>4
<1>6. Visits(w, d, rd) = g[m]
  BY <1>5 DEF Visits, base
<1>7. g[0] = base /\ \A i \in 1..m : g[i] = AppendVisit(g[i - 1], w, d, rd, i)
  <2>1. \A i \in 0..m : g[i] = IF i = 0 THEN base ELSE AppendVisit(g[i - 1], w, d, rd, i)
    BY <1>5
  <2> QED
    BY <1>0, <2>1
<1> DEFINE M == {i \in 0..m : g[i] \in T}
<1> HIDE DEF Solves, step, T
<1>8. 0 \in M
  BY <1>0, <1>7, <1>b
<1>9. ASSUME NEW i \in 1..m, i - 1 \in M PROVE i \in M
  <2>1. PICK t \in T : t = g[i - 1]
    BY <1>9
  <2>2. g[i] = AppendVisit(t, w, d, rd, i) /\ i \in 0..m
    BY <1>0, <1>7, <2>1
  <2> QED
    BY <1>c, <2>1, <2>2
<1>10. m \in M
  <2> HIDE DEF M, m
  <2>1. \A i \in 0..m : i \in M
    BY <1>0, <1>8, <1>9, InductionUpTo
  <2> QED
    BY <1>0, <2>1
<1> QED
  BY <1>6, <1>10, <1>a

\* Every day of a schedule: its minutes add up, and lunch is in its window.
LEMMA TimelinesAreSound ==
    ASSUME NEW n \in Nat, NEW w \in TripsOf(n), NEW d \in 1..n, NEW rd, IsRoads(rd)
    PROVE  Sound(Timeline(w, d, rd))
<1>1. CASE w.spots[d] = <<>>
  BY <1>1, EmptyIsSound DEF Timeline
<1>2. CASE w.spots[d] # <<>>
  <2>1. Sound(Visits(w, d, rd))
    BY <1>2, VisitsAreSound
  <2>2. Sound(LunchAfterNoon(Visits(w, d, rd)))
    BY <2>1, LunchAppended DEF LunchAfterNoon
  <2>3. Sound(WayBack(LunchAfterNoon(Visits(w, d, rd)), w, d, rd))
    BY <1>2, <2>2, WayBackIsSound
  <2> QED
    BY <1>2, <2>3 DEF Timeline
<1> QED
  BY <1>1, <1>2

\* Every day of a schedule is a sound timeline.
LEMMA SchedulesAreSound ==
    ASSUME NEW n \in Nat, NEW w \in TripsOf(n), NEW rd, IsRoads(rd)
    PROVE  Schedule(w, rd) \in [1..n -> {t \in Timelines : Sound(t)}]
<1>1. \A d \in 1..n : Timeline(w, d, rd) \in {t \in Timelines : Sound(t)}
  BY TimelinesAreSound DEF Sound
<1>2. Days(w) = 1..n
  BY TripDays
<1> QED
  BY <1>1, <1>2 DEF Schedule

\* The days of a report, as TimelineAddsUp and LunchInWindow have them.
AddsUp(reported, w) ==
    \A d \in Days(w) : \E t \in {reported.schedule.days[d]} :
        /\ Sound(t) /\ t.required = t.now - DayStart
        /\ \A i \in 1..(Len(t.items) - 1) : t.items[i].to = t.items[i + 1].from
        /\ InTime => \A x \in ToSet(t.items) : x.type = "meal" => LunchFrom <= x.from /\ x.to <= LunchUntil

\* What the reports about a plan say of lunch and of the minutes.
LEMMA ScheduleReported ==
    ASSUME NEW n \in Nat, NEW w \in TripsOf(n), NEW rd, IsRoads(rd), NEW known
    PROVE  AddsUp(Evaluate(w, rd, known), w)
<1> SUFFICES ASSUME NEW d \in 1..n
             PROVE  \E t \in {Schedule(w, rd)[d]} :
              /\ Sound(t) /\ t.required = t.now - DayStart
              /\ \A i \in 1..(Len(t.items) - 1) : t.items[i].to = t.items[i + 1].from
              /\ InTime => \A x \in ToSet(t.items) : x.type = "meal" => LunchFrom <= x.from /\ x.to <= LunchUntil
  <2>1. Evaluate(w, rd, known).schedule.days = Schedule(w, rd)
    <3>1. Evaluate(w, rd, known).schedule = ScheduleTotals(Schedule(w, rd))
      BY DEF Evaluate, Report
    <3> DEFINE s == Schedule(w, rd)
    <3> HIDE DEF s
    <3>2. ScheduleTotals(s).days = s
      BY DEF ScheduleTotals
    <3> QED
      BY <3>1, <3>2 DEF s
  <2>2. Days(w) = 1..n
    BY TripDays
  <2>3. ASSUME NEW d \in Days(w)
        PROVE  \E t \in {Evaluate(w, rd, known).schedule.days[d]} :
              /\ Sound(t) /\ t.required = t.now - DayStart
              /\ \A i \in 1..(Len(t.items) - 1) : t.items[i].to = t.items[i + 1].from
              /\ InTime => \A x \in ToSet(t.items) : x.type = "meal" => LunchFrom <= x.from /\ x.to <= LunchUntil
    <3>1. d \in 1..n /\ {Evaluate(w, rd, known).schedule.days[d]} = {Schedule(w, rd)[d]}
      BY <2>1, <2>2
    <3> QED
      BY <3>1, Zenon
  <2> QED
    BY <2>3 DEF AddsUp
<1>1. PICK t \in Timelines : t = Schedule(w, rd)[d] /\ Sound(t)
  BY SchedulesAreSound
<1>2. t.items \in Seq(Items) /\ ToSet(t.items) = {t.items[i] : i \in 1..Len(t.items)}
  BY ToSetIn DEF Timelines
<1>3. InTime => \A x \in ToSet(t.items) : x.type = "meal" => LunchFrom <= x.from /\ x.to <= LunchUntil
  BY <1>1, <1>2 DEF Sound, MealsInWindow
<1>4. /\ t.required = t.now - DayStart
      /\ \A i \in 1..(Len(t.items) - 1) : t.items[i].to = t.items[i + 1].from
  BY <1>1 DEF Sound, Chained
<1> QED
  BY <1>1, <1>3, <1>4

-----------------------------------------------------------------------------
(* Routes and long legs.                                                   *)

\* The attraction blamed for a long leg is an end of the leg.
LEMMA TargetsAreEnds ==
    ASSUME NEW n \in Nat, NEW w \in TripsOf(n), NEW rd
    PROVE  \A x \in CommuteIssues(w, rd) :
              /\ x.day \in 1..n /\ x.target \in DOMAIN w.spots[x.day]
              /\ PlaceAt(w.spots[x.day][x.target]) \in {x.leg.from, x.leg.to}
<1> SUFFICES ASSUME NEW x \in CommuteIssues(w, rd)
             PROVE  /\ x.day \in 1..n /\ x.target \in DOMAIN w.spots[x.day]
                    /\ PlaceAt(w.spots[x.day][x.target]) \in {x.leg.from, x.leg.to}
  OBVIOUS
<1>0. PICK d \in Days(w) : \E l \in ToSet(Legs(w, d)) :
         x.day = d /\ x.leg = l /\ x.target = Target(w, d, l)
  BY DEF CommuteIssues
<1>1. PICK l \in ToSet(Legs(w, d)) : x.day = d /\ x.leg = l /\ x.target = Target(w, d, l)
  BY <1>0
<1>2. d \in 1..n
  BY TripDays
<1> DEFINE q == w.spots[d]
           m == Len(q)
           L == {k \in LegsOfDays : IsLeg(w, d, k)}
<1>3. Legs(w, d) \in Seq(L) /\ (q = <<>> => Legs(w, d) = <<>>)
  BY <1>2, LegsType
<1>4. l \in L /\ Legs(w, d) # <<>>
  <2> HIDE DEF L
  <2>1. ToSet(Legs(w, d)) \subseteq L /\ ToSet(Legs(w, d)) = {Legs(w, d)[i] : i \in 1..Len(Legs(w, d))}
    BY <1>3, ToSetIn
  <2>2. Len(Legs(w, d)) # 0
    BY <1>3, <2>1, LenProperties
  <2> QED
    BY <2>1, <2>2, EmptySeq
<1>5. q \in Seq(Places) /\ m \in Nat \ {0} /\ DOMAIN q = 1..m
  <2>1. q \in Seq(Places)
    BY <1>2, TripDays
  <2>2. q # <<>>
    BY <1>3, <1>4
  <2> HIDE DEF q
  <2> QED
    BY <2>1, <2>2, EmptySeq, LenProperties
<1>6. IsLeg(w, d, l) /\ l \in LegsOfDays
  BY <1>4
<1> DEFINE t == Target(w, d, l)
<1> SUFFICES t \in 1..m /\ PlaceAt(q[t]) \in {l.from, l.to}
  BY <1>1, <1>2, <1>5
<1>7. CASE l.kind = 2
  <2>1. t = 1
    BY <1>7 DEF Target
  <2>2. l.to = PlaceAt(q[1])
    BY <1>6, <1>7 DEF IsLeg
  <2> HIDE DEF t, q
  <2> QED
    BY <1>5, <2>1, <2>2
<1>8. CASE l.kind = 3
  <2>1. t = m
    BY <1>8 DEF Target
  <2>2. l.from = PlaceAt(q[m])
    BY <1>6, <1>8 DEF IsLeg
  <2> HIDE DEF t, q, m
  <2> QED
    BY <1>5, <2>1, <2>2
<1>9. CASE l.kind # 2 /\ l.kind # 3
  <2>1. l.leg \in 1..(m - 1) /\ l.from = PlaceAt(q[l.leg]) /\ l.to = PlaceAt(q[l.leg + 1])
    BY <1>6, <1>9 DEF IsLeg
  <2>2. t \in {l.leg, l.leg + 1}
    BY <1>9 DEF Target
  <2> HIDE DEF t, q, m
  <2> QED
    BY <1>5, <2>1, <2>2
<1> QED
  BY <1>7, <1>8, <1>9

\* The legs with a route are legs.
LEMMA UsableLegsType ==
    ASSUME NEW n \in Nat, NEW w \in TripsOf(n), NEW d \in 1..n, NEW rd
    PROVE  Len(UsableLegs(w, d, rd)) \in Nat
<1> DEFINE legs == Legs(w, d)
           I == {i \in DOMAIN legs : RoadTime(rd, legs[i]) > 0}
           usable == Selected(legs, I)
           L == {k \in LegsOfDays : IsLeg(w, d, k)}
           e == [i \in DOMAIN usable |-> [time |-> RoadTime(rd, usable[i]),
                                          far |-> Distance(usable[i].from, usable[i].to)]]
<1>1. legs \in Seq(L)
  BY LegsType
<1>2. usable \in Seq(L)
  <2> HIDE DEF L, I, legs
  <2> QED
    BY <1>1, SelectedLists
<1>3. DOMAIN usable = 1..Len(usable) /\ Len(usable) \in Nat
  <2> HIDE DEF usable, L
  <2> QED
    BY <1>2, LenProperties
<1>4. UsableLegs(w, d, rd) = e
  BY DEF UsableLegs
<1>5. Len(e) = Len(usable)
  <2> DEFINE f == [i \in 1..Len(usable) |-> [time |-> RoadTime(rd, usable[i]),
                                          far |-> Distance(usable[i].from, usable[i].to)]]
  <2>1. e = f
    BY <1>3
  <2>2. Len(f) = Len(usable)
    <3> HIDE DEF usable
    <3> QED
      BY <1>3
  <2> HIDE DEF e, f
  <2> QED
    BY <2>1, <2>2
<1> HIDE DEF e
<1> QED
  BY <1>3, <1>4, <1>5

LostOnDay(w, d, rd) == Len(Legs(w, d)) - Len(UsableLegs(w, d, rd))

\* The legs without a route, counted.
LEMMA LostIsTotal ==
    ASSUME NEW n \in Nat, NEW w \in TripsOf(n), NEW rd
    PROVE  RouteQuality(w, rd).lost = Total([d \in 1..n |-> LostOnDay(w, d, rd)])
<1> DEFINE days == [d \in Days(w) |-> DayRoutes(Len(Legs(w, d)), UsableLegs(w, d, rd))]
<1>1. Days(w) = 1..n
  BY TripDays
<1>2. RouteQuality(w, rd).lost = Total([d \in DOMAIN days |-> days[d].lost])
  <2>1. RouteQuality(w, rd) = QualityTotals(w, days)
    BY DEF RouteQuality
  <2> HIDE DEF days
  <2>2. QualityTotals(w, days).lost = Total([d \in DOMAIN days |-> days[d].lost])
    BY DEF QualityTotals
  <2> QED
    BY <2>1, <2>2
<1>3. \A a, u : DayRoutes(a, u).lost = a - Len(u)
  BY DEF DayRoutes
<1>4. DOMAIN days = 1..n
  BY <1>1
<1>5. \A d \in 1..n : days[d].lost = LostOnDay(w, d, rd)
  BY <1>1, <1>3 DEF LostOnDay
<1>6. [d \in DOMAIN days |-> days[d].lost] = [d \in 1..n |-> LostOnDay(w, d, rd)]
  <2> HIDE DEF days
  <2> QED
    BY <1>4, <1>5
<1> QED
  BY <1>2, <1>6

\* The number of legs without a route is a number.
LEMMA LostType ==
    ASSUME NEW n \in Nat, NEW w \in TripsOf(n), NEW rd
    PROVE  RouteQuality(w, rd).lost \in Int
<1> DEFINE f == [d \in 1..n |-> LostOnDay(w, d, rd)]
<1>1. \A d \in 1..n : LostOnDay(w, d, rd) \in Int
  <2> TAKE d \in 1..n
  <2>1. Len(Legs(w, d)) \in Nat
    BY LegsType, LenProperties
  <2> QED
    BY <2>1, UsableLegsType DEF LostOnDay
<1>2. f \in Seq(Int)
  BY <1>1
<1>3. Total(f) \in Int
  <2> HIDE DEF f
  <2> QED
    BY <1>2, TotalIsLastSum
<1> QED
  BY <1>3, LostIsTotal

\* The routes of a plan depend on its places alone.
LEMMA RoutesOfPlaces ==
    ASSUME NEW n \in Nat, NEW w \in TripsOf(n), NEW z \in TripsOf(n), NEW rd,
           z.spots = w.spots, z.hotel = w.hotel
    PROVE  /\ \A d \in 1..n : Legs(z, d) = Legs(w, d)
           /\ RouteQuality(z, rd).lost = RouteQuality(w, rd).lost
<1>1. \A d \in 1..n : Legs(z, d) = Legs(w, d)
  BY DEF Legs, HasStart, HasReturn
<1>2. \A d \in 1..n : LostOnDay(z, d, rd) = LostOnDay(w, d, rd)
  BY <1>1 DEF LostOnDay, UsableLegs
<1>3. [d \in 1..n |-> LostOnDay(z, d, rd)] = [d \in 1..n |-> LostOnDay(w, d, rd)]
  BY <1>2
<1>4. RouteQuality(z, rd).lost = Total([d \in 1..n |-> LostOnDay(z, d, rd)])
  BY LostIsTotal
<1>5. RouteQuality(w, rd).lost = Total([d \in 1..n |-> LostOnDay(w, d, rd)])
  BY LostIsTotal
<1> QED
  BY <1>1, <1>3, <1>4, <1>5

-----------------------------------------------------------------------------
(* Restaurants.                                                            *)

\* What follows one or two whole days later has the same time of day.
LEMMA SameTimeOfDay ==
    ASSUME NEW M \in Nat \ {0}, NEW r \in 0..(M - 1)
    PROVE  r % M = r /\ (r + M) % M = r /\ (r + M + M) % M = r
<1>1. r % M = r
  OBVIOUS
<1>2. (r + M) % M = r
  OBVIOUS
<1>3. (r + M + M) % M = r
  OBVIOUS
<1> QED
  BY <1>1, <1>2, <1>3

OpenAt(h, x) ==
    \/ h = <<0, 0>>
    \/ h[1] < h[2] /\ x % Midnight \in h[1]..(h[2] - 1)
    \/ h[1] > h[2] /\ (x % Midnight >= h[1] \/ x % Midnight < h[2])

\* A time of day inside a range that may run past midnight.
LEMMA InsideTheRange ==
    ASSUME NEW a \in 0..Midnight, NEW b \in 0..Midnight, a # b, NEW o \in {0, Midnight}, NEW x \in Int,
           x >= a + o, a < b => x < b + o, a > b => x < b + Midnight + o
    PROVE  \/ a < b /\ x % Midnight \in a..(b - 1)
           \/ a > b /\ (x % Midnight >= a \/ x % Midnight < b)
<1>0. Midnight \in Nat \ {0} /\ o \in Nat
  BY SettingsAreNumbers
<1> DEFINE y == x - o
<1>1. y \in Int /\ y >= a /\ x = y + o
  BY <1>0
<1>2. CASE y < Midnight
  <2>1. y \in 0..(Midnight - 1)
    BY <1>0, <1>1, <1>2
  <2>2. x % Midnight = y
    <3>1. CASE o = 0
      <4>1. x = y
        BY <1>1, <3>1
      <4> QED
        BY <1>0, <2>1, <4>1, SameTimeOfDay
    <3>2. CASE o = Midnight
      <4>1. x = y + Midnight
        BY <1>1, <3>2
      <4> HIDE DEF y
      <4> QED
        BY <1>0, <2>1, <4>1, SameTimeOfDay
    <3> QED
      BY <3>1, <3>2
  <2> QED
    BY <1>0, <1>1, <2>1, <2>2
<1>3. CASE y >= Midnight
  <2> DEFINE z == y - Midnight
  <2>1. z \in 0..(Midnight - 1) /\ a > b /\ z < b
    BY <1>0, <1>1, <1>3
  <2>2. x % Midnight = z
    <3>1. CASE o = 0
      <4>1. x = z + Midnight
        BY <1>0, <1>1, <3>1
      <4> HIDE DEF z
      <4> QED
        BY <1>0, <2>1, <4>1, SameTimeOfDay
    <3>2. CASE o = Midnight
      <4>1. x = z + Midnight + Midnight
        BY <1>0, <1>1, <3>2
      <4> HIDE DEF z
      <4> QED
        BY <1>0, <2>1, <4>1, SameTimeOfDay
    <3> QED
      BY <3>1, <3>2
  <2> QED
    BY <2>1, <2>2
<1> QED
  BY <1>0, <1>1, <1>2, <1>3

\* A restaurant called open is open all the time.
LEMMA OpenMeansOpen ==
    ASSUME NEW h \in Hours, NEW a \in Int, NEW b \in Int, OpeningStatus(h, a, b) = "open"
    PROVE  \A x \in a..(b - 1) : OpenAt(h, x)
<1> SUFFICES ASSUME NEW x \in a..(b - 1) PROVE OpenAt(h, x)
  OBVIOUS
<1>1. OpenRange(h) # {} /\ \E r \in OpenRange(h), o \in {0, Midnight} : a >= r[1] + o /\ b <= r[2] + o
  BY DEF OpeningStatus
<1>2. PICK r \in OpenRange(h), o \in {0, Midnight} : a >= r[1] + o /\ b <= r[2] + o
  BY <1>1
<1>3. h # <<>>
  BY <1>1 DEF OpenRange
<1>4. h[1] \in 0..Midnight /\ h[2] \in 0..Midnight /\ h = <<h[1], h[2]>>
  BY <1>3 DEF Hours
<1>5. Midnight \in Nat \ {0} /\ o \in Nat /\ x \in Int
  BY SettingsAreNumbers
<1>6. CASE h[1] = h[2]
  <2>1. h[1] = 0
    <3>1. SUFFICES ASSUME h[1] # 0 PROVE FALSE
      OBVIOUS
    <3>2. OpenRange(h) = {}
      BY <1>3, <1>4, <1>6, <3>1 DEF OpenRange
    <3> QED
      BY <1>1, <3>2
  <2> QED
    BY <1>4, <1>6, <2>1 DEF OpenAt
<1>7. CASE h[1] < h[2]
  <2>1. OpenRange(h) = {h}
    BY <1>3, <1>4, <1>7 DEF OpenRange
  <2>2. x >= h[1] + o /\ x < h[2] + o
    BY <1>2, <1>4, <1>5, <2>1
  <2>3. h[1] # h[2] /\ ~(h[1] > h[2])
    BY <1>4, <1>7
  <2>4. PICK f, g : f = h[1] /\ g = h[2]
    OBVIOUS
  <2>5. f < g /\ x % Midnight \in f..(g - 1)
    BY <1>4, <1>5, <1>7, <2>2, <2>3, <2>4, InsideTheRange
  <2> QED
    BY <2>4, <2>5 DEF OpenAt
<1>8. CASE h[1] > h[2]
  <2>1. OpenRange(h) = {<<h[1], h[2] + Midnight>>}
    BY <1>3, <1>4, <1>8 DEF OpenRange
  <2>0. r[1] = h[1] /\ r[2] = h[2] + Midnight
    BY <1>2, <2>1
  <2>2. x >= h[1] + o /\ x < h[2] + Midnight + o
    BY <1>2, <1>4, <1>5, <2>0
  <2>3. h[1] # h[2] /\ ~(h[1] < h[2])
    BY <1>4, <1>8
  <2>4. PICK f, g : f = h[1] /\ g = h[2]
    OBVIOUS
  <2>5. f > g /\ (x % Midnight >= f \/ x % Midnight < g)
    BY <1>4, <1>5, <1>8, <2>2, <2>3, <2>4, InsideTheRange
  <2> QED
    BY <2>4, <2>5 DEF OpenAt
<1> QED
  BY <1>4, <1>6, <1>7, <1>8

\* A meal that is called open was found so.
Honest(m) ==
    m.status = "open" =>
        m.who \in DOMAIN Restaurant /\ OpeningStatus(Restaurant[m.who].hours, m.from, m.to) = "open"

HonestMeals(w) == \A d \in Days(w) : \A k \in DOMAIN w.meals[d] : Honest(w.meals[d][k])

\* A meal that opening_status_for_interval calls open is open in every minute.
LEMMA HonestMealsAreOpen ==
    ASSUME NEW n \in Nat, NEW w \in TripsOf(n), HonestMeals(w), NEW d \in Days(w),
           NEW m \in ToSet(w.meals[d]), m.status = "open"
    PROVE  \A x \in m.from..(m.to - 1) : OpenAt(Restaurant[m.who].hours, x)
<1>1. d \in 1..n /\ w.meals[d] \in Seq(Meals)
  BY TripDays
<1>2. PICK k \in DOMAIN w.meals[d] : m = w.meals[d][k]
  BY <1>1, ToSetIn, LenProperties
<1>3. Honest(m) /\ m \in Meals
  BY <1>1, <1>2, LenProperties, ElementOfSeq DEF HonestMeals
<1>4. Restaurant[m.who].hours \in Hours /\ m.from \in Int /\ m.to \in Int
  BY <1>3, TimelineAssumption DEF Honest, Meals
<1> QED
  BY <1>3, <1>4, OpenMeansOpen DEF Honest

\* The end of the last item, or dinner time.
LEMMA LatestType ==
    ASSUME NEW S, S \subseteq Int, IsFiniteSet(S), S # {}
    PROVE  Largest(S \cup {DinnerAt}) \in Int
<1> DEFINE R == {p \in Int \X Int : p[1] > p[2]}
           T == S \cup {DinnerAt}
<1>1. IsFiniteSet(T) /\ T # {} /\ T \subseteq Int
  <2>1. DinnerAt \in Int
    BY SettingsAreNumbers
  <2>2. IsFiniteSet(T)
    BY FS_AddElement
  <2> QED
    BY <2>1, <2>2
<1>2. \A x, y \in Int : <<x, y>> \in R <=> x > y
  OBVIOUS
<1>3. PICK m \in T : \A x \in T : <<x, m>> \notin R
  <2>1. \A x \in T : <<x, x>> \notin R
    BY <1>1, <1>2
  <2>2. \A x, y, z \in T : <<x, y>> \in R /\ <<y, z>> \in R => <<x, z>> \in R
    BY <1>1, <1>2
  <2> HIDE DEF R, T
  <2> QED
    BY <1>1, <2>1, <2>2, MinimalElement
<1> HIDE DEF R, T
<1>4. ASSUME NEW y \in T PROVE y <= m
  <2>1. y \in Int /\ m \in Int /\ <<y, m>> \notin R
    BY <1>1, <1>3
  <2>2. ~(y > m)
    BY <1>2, <2>1
  <2> QED
    BY <2>1, <2>2
<1>5. \E x \in T \cup {0} : \A y \in T : y <= x
  BY <1>4
<1>6. Largest(T) \in T \cup {0}
  BY <1>5 DEF Largest
<1> QED
  BY <1>1, <1>6 DEF T

Intervals == [from : Int, to : Int]

\* The interval of lunch is one of numbers.
LEMMA LunchIntervalType ==
    ASSUME NEW a \in Int, NEW b \in Int
    PROVE  LunchInterval(a, b) \in Intervals
<1>1. LunchFrom \in Int /\ LunchUntil - b \in Int
  BY SettingsAreNumbers
<1>2. Clip(a, LunchFrom, LunchUntil - b) \in Int
  BY <1>1 DEF Clip
<1> QED
  BY <1>2 DEF LunchInterval, Intervals

\* When a meal is planned.
LEMMA MealIntervalType ==
    ASSUME NEW t, Sound(t), NEW meal \in {"breakfast", "lunch", "dinner"}
    PROVE  MealInterval(meal, t) \in Intervals
<1>0. t.items \in Seq(Items) /\ Len(t.items) \in Nat
  BY LenProperties DEF Sound, Timelines
<1>1. CASE meal = "breakfast"
  BY <1>1, SettingsAreNumbers DEF MealInterval, Intervals
<1>2. CASE meal = "lunch"
  <2> DEFINE I == {i \in DOMAIN t.items : t.items[i].type = "meal"}
             q == Selected(t.items, I)
  <2>1. q \in Seq(Items)
    <3> HIDE DEF I
    <3> QED
      BY <1>0, SelectedLists
  <2>2. MealInterval(meal, t) = PlannedLunch(q)
    BY <1>2 DEF MealInterval
  <2> HIDE DEF q
  <2>a. LunchUntil - LunchFrom \in Int
    BY SettingsAreNumbers
  <2>3. CASE q = <<>>
    <3>1. PICK b \in Int : b = Clip(MealTime, 1, LunchUntil - LunchFrom)
      BY <2>a, SettingsAreNumbers DEF Clip
    <3>2. PlannedLunch(q) = LunchInterval(Noon, b)
      BY <2>3, <3>1 DEF PlannedLunch
    <3> QED
      BY <2>2, <3>1, <3>2, LunchIntervalType, SettingsAreNumbers
  <2>4. CASE q # <<>>
    <3>1. Len(q) \in 1..Len(q)
      BY <2>1, <2>4, EmptySeq, LenProperties
    <3>2. Last(q) \in Items
      BY <2>1, <3>1, ElementOfSeq DEF Last
    <3>3. Last(q).from \in Int /\ Last(q).to \in Int
      BY <3>2 DEF Items
    <3>4. PICK b \in Int : b = Clip(Last(q).to - Last(q).from, 1, LunchUntil - LunchFrom)
      BY <2>a, <3>3 DEF Clip
    <3>5. PlannedLunch(q) = LunchInterval(Last(q).from, b)
      BY <2>4, <3>4 DEF PlannedLunch
    <3> QED
      BY <2>2, <3>3, <3>4, <3>5, LunchIntervalType
  <2> QED
    BY <2>3, <2>4
<1>3. CASE meal = "dinner"
  <2> DEFINE E == {x.to : x \in ToSet(t.items)}
             top == Largest(E \cup {DinnerAt})
  <2>1. ToSet(t.items) \subseteq Items /\ ToSet(t.items) = {t.items[i] : i \in 1..Len(t.items)}
    BY <1>0, ToSetIn
  <2>2. E \subseteq Int
    BY <2>1 DEF Items
  <2>3. IsFiniteSet(E)
    <3>1. E = {t.items[i].to : i \in 1..Len(t.items)}
      BY <2>1
    <3>2. IsFiniteSet({t.items[i].to : i \in 1..Len(t.items)})
      <4> DEFINE D == 1..Len(t.items)
                 f == [i \in D |-> t.items[i].to]
      <4>1. IsFiniteSet(D)
        BY <1>0, FS_Interval
      <4>2. f \in Surjection(D, {t.items[i].to : i \in D})
        BY DEF Surjection
      <4> HIDE DEF D, f
      <4>3. IsFiniteSet({t.items[i].to : i \in D})
        BY <4>1, <4>2, FS_Surjection
      <4> QED
        BY <4>3 DEF D
    <3> QED
      BY <3>1, <3>2
  <2>4. top \in Int
    <3>1. CASE E = {}
      <4>1. E \cup {DinnerAt} = {DinnerAt} \cup {DinnerAt} /\ IsFiniteSet({DinnerAt})
        BY <3>1, FS_Singleton
      <4>2. Largest({DinnerAt} \cup {DinnerAt}) \in Int
        BY <4>1, LatestType, SettingsAreNumbers
      <4> HIDE DEF E
      <4> QED
        BY <4>1, <4>2
    <3>2. CASE E # {}
      <4> HIDE DEF E
      <4> QED
        BY <2>2, <2>3, <3>2, LatestType
    <3> QED
      BY <3>1, <3>2
  <2>5. MealInterval(meal, t) = [from |-> top, to |-> top + MealTime]
    BY <1>3 DEF MealInterval
  <2> HIDE DEF top
  <2> QED
    BY <2>4, <2>5, SettingsAreNumbers DEF Intervals
<1> QED
  BY <1>1, <1>2, <1>3

\* The meal picked is one found, or none by name.
LEMMA NextMealIsHonest ==
    ASSUME NEW d, NEW meal, NEW at \in Intervals, NEW found, NEW meals
    PROVE  NextMeal(d, meal, at, found, meals) \in Meals /\ Honest(NextMeal(d, meal, at, found, meals))
<1> DEFINE F == {m \in Found(d, meal, at, found) :
                    m.status # "closed" /\ \A i \in DOMAIN meals : meals[i].who # m.who}
           best == {m \in F : \A x \in F : ~MealBefore(x, m)}
           none == [who |-> 0, from |-> at.from, to |-> at.to, status |-> "fallback"]
           z == NextMeal(d, meal, at, found, meals)
<1>0. at.from \in Int /\ at.to \in Int
  BY DEF Intervals
<1>1. ASSUME NEW m \in F PROVE m \in Meals /\ Honest(m)
  <2>1. m \in Found(d, meal, at, found) /\ m.status # "closed"
    OBVIOUS
  <2>2. PICK r \in DOMAIN Restaurant :
           m = [who |-> r, from |-> at.from, to |-> at.to,
                status |-> OpeningStatus(Restaurant[r].hours, at.from, at.to)]
    BY <2>1 DEF Found
  <2>3. OpeningStatus(Restaurant[r].hours, at.from, at.to) \in {"open", "unknown", "closed"}
    BY DEF OpeningStatus
  <2>4. m.who = r /\ m.from = at.from /\ m.to = at.to
        /\ m.status = OpeningStatus(Restaurant[r].hours, at.from, at.to)
    BY <2>2
  <2>5. m.status \in {"open", "unknown"}
    BY <2>1, <2>3, <2>4
  <2>6. m \in Meals
    BY <1>0, <2>2, <2>4, <2>5 DEF Meals
  <2>7. Honest(m)
    BY <2>4 DEF Honest
  <2> QED
    BY <2>6, <2>7
<1>2. none \in Meals /\ Honest(none)
  BY <1>0 DEF Meals, Honest
<1>3. z = IF best = {} THEN none ELSE CHOOSE m \in best : TRUE
  BY DEF NextMeal, PickMeal
<1> HIDE DEF F, none, z
<1>4. best # {} => (CHOOSE m \in best : TRUE) \in F
  OBVIOUS
<1> HIDE DEF best
<1>5. z = none \/ z \in F
  BY <1>3, <1>4
<1> QED
  BY <1>1, <1>2, <1>5 DEF z

\* The meals of a day.
LEMMA DayMealsAreHonest ==
    ASSUME NEW d, NEW t, Sound(t), NEW found
    PROVE  /\ DayMeals(d, t, found) \in Seq(Meals)
           /\ \A k \in DOMAIN DayMeals(d, t, found) : Honest(DayMeals(d, t, found)[k])
<1> DEFINE next(meals, meal) == NextMeal(d, meal, MealInterval(meal, t), found, meals)
           a == next(<<>>, "breakfast")
           b == next(<<a>>, "lunch")
           c == next(<<a, b>>, "dinner")
<1>1. \A meal \in {"breakfast", "lunch", "dinner"} : \A meals : next(meals, meal) \in Meals /\ Honest(next(meals, meal))
  BY MealIntervalType, NextMealIsHonest
<1>2. DayMeals(d, t, found) = <<a, b, c>>
  BY DEF DayMeals
<1>3. /\ a \in Meals /\ Honest(a) /\ b \in Meals /\ Honest(b) /\ c \in Meals /\ Honest(c)
  <2> HIDE DEF next
  <2> QED
    BY <1>1
<1> HIDE DEF a, b, c
<1>4. <<a, b, c>> \in Seq(Meals) /\ DOMAIN <<a, b, c>> = 1..3
  BY <1>3
<1>5. ASSUME NEW k \in 1..3 PROVE Honest(<<a, b, c>>[k])
  <2>1. k = 1 \/ k = 2 \/ k = 3
    OBVIOUS
  <2> QED
    BY <1>3, <2>1
<1> QED
  BY <1>2, <1>4, <1>5

\* The transport text of a day.
LEMMA TransportTextType ==
    ASSUME NEW n \in Nat, NEW w \in TripsOf(n), NEW d \in 1..n, NEW rd
    PROVE  TransportText(w, d, rd) \in Texts
<1> DEFINE mode == ModeOf(w.text[d])
           named == UNION {Spot[p].marks : p \in ToSet(w.spots[d])}
           on == \E l \in ToSet(Legs(w, d)) : RoadTime(rd, l) > 0
<1>1. mode \in Modes /\ w.spots[d] \in Seq(Places)
  BY TripDays, ModeOfType
<1>2. named \subseteq Modes
  <2>1. ToSet(w.spots[d]) \subseteq Places
    BY <1>1, ToSetIn
  <2> QED
    BY <2>1, TimelineAssumption
<1>3. TransportText(w, d, rd) = IF on THEN [declared |-> mode, marks |-> {mode} \cup named]
                                ELSE [declared |-> "none", marks |-> {mode} \cup named]
  BY DEF TransportText
<1> HIDE DEF mode, named, on
<1> QED
  BY <1>1, <1>2, <1>3 DEF Texts

\* The rebuilt plan visits the same places.
LEMMA RebuiltPlan ==
    ASSUME NEW n \in Nat, NEW w \in TripsOf(n), NEW rd, IsRoads(rd), NEW s, NEW found,
           \A d \in 1..n : Sound(s[d])
    PROVE  \E z \in TripsOf(n) :
              /\ z = Rebuilt(w, rd, s, found)
              /\ z.spots = w.spots /\ z.hotel = w.hotel /\ HonestMeals(z)
<1> DEFINE x == [d \in 1..n |-> TransportText(w, d, rd)]
           m == [d \in 1..n |-> DayMeals(d, s[d], found)]
           z == [w EXCEPT !.text = x, !.meals = m]
<1>1. Days(w) = 1..n
  BY TripDays
<1>2. Rebuilt(w, rd, s, found) = z
  BY <1>1 DEF Rebuilt
<1>3. x \in [1..n -> Texts]
  BY TransportTextType
<1>4. m \in [1..n -> Seq(Meals)] /\ \A d \in 1..n : \A k \in DOMAIN m[d] : Honest(m[d][k])
  BY DayMealsAreHonest
<1> HIDE DEF x, m
<1>6. z \in TripsOf(n) /\ z.spots = w.spots /\ z.hotel = w.hotel /\ z.text = x /\ z.meals = m
  BY <1>3, <1>4 DEF TripsOf
<1> HIDE DEF z
<1>7. HonestMeals(z)
  BY <1>1, <1>4, <1>6 DEF HonestMeals, Days
<1> QED
  BY <1>2, <1>6, <1>7

-----------------------------------------------------------------------------
(* Plans that differ from w in their attractions, which are among K.       *)

PlansLike(w, n, K) ==
    {u \in TripsOf(n) : /\ EachOnce(u) /\ Used(u) \subseteq K
                        /\ u.hotel = w.hotel /\ u.text = w.text /\ u.meals = w.meals}

\* No attraction twice, day by day.
LEMMA OnceByDays ==
    ASSUME NEW n \in Nat, NEW u \in TripsOf(n)
    PROVE  /\ EachOnce(u) <=>
                /\ \A d \in 1..n : NoRepeat(u.spots[d])
                /\ \A d, e \in 1..n : d # e => ToSet(u.spots[d]) \cap ToSet(u.spots[e]) = {}
           /\ Used(u) = UNION {ToSet(u.spots[d]) : d \in 1..n}
           /\ \A d \in 1..n : /\ DOMAIN u.spots[d] = 1..Len(u.spots[d])
                              /\ ToSet(u.spots[d]) = {u.spots[d][i] : i \in 1..Len(u.spots[d])}
                              /\ ToSet(u.spots[d]) \subseteq Used(u) /\ ToSet(u.spots[d]) \subseteq Places
<1>1. Days(u) = 1..n /\ \A d \in 1..n : u.spots[d] \in Seq(Places)
  BY TripDays
<1>2. \A d \in 1..n : /\ DOMAIN u.spots[d] = 1..Len(u.spots[d])
                      /\ ToSet(u.spots[d]) = {u.spots[d][i] : i \in 1..Len(u.spots[d])}
                      /\ ToSet(u.spots[d]) \subseteq Places
  BY <1>1, LenProperties, ToSetIn
<1>3. Used(u) = UNION {ToSet(u.spots[d]) : d \in 1..n}
  BY <1>1 DEF Used
<1>4. \A d \in 1..n : ToSet(u.spots[d]) \subseteq Used(u)
  BY <1>3
<1>5. ASSUME EachOnce(u)
      PROVE  /\ \A d \in 1..n : NoRepeat(u.spots[d])
             /\ \A d, e \in 1..n : d # e => ToSet(u.spots[d]) \cap ToSet(u.spots[e]) = {}
  <2>1. \A d \in 1..n : NoRepeat(u.spots[d])
    BY <1>1, <1>2, <1>5 DEF EachOnce, NoRepeat
  <2>2. ASSUME NEW d \in 1..n, NEW e \in 1..n, d # e, NEW p \in ToSet(u.spots[d]), p \in ToSet(u.spots[e])
        PROVE  FALSE
    <3>1. PICK i \in DOMAIN u.spots[d] : p = u.spots[d][i]
      BY <1>2
    <3>2. PICK j \in DOMAIN u.spots[e] : p = u.spots[e][j]
      BY <1>2, <2>2
    <3> QED
      BY <1>1, <1>5, <2>2, <3>1, <3>2 DEF EachOnce
  <2> QED
    BY <2>1, <2>2
<1>6. ASSUME \A d \in 1..n : NoRepeat(u.spots[d]),
             \A d, e \in 1..n : d # e => ToSet(u.spots[d]) \cap ToSet(u.spots[e]) = {}
      PROVE  EachOnce(u)
  <2> SUFFICES ASSUME NEW d \in Days(u), NEW e \in Days(u), NEW i \in DOMAIN u.spots[d],
                      NEW j \in DOMAIN u.spots[e], u.spots[d][i] = u.spots[e][j]
               PROVE  d = e /\ i = j
    BY DEF EachOnce
  <2>0. d \in 1..n /\ e \in 1..n /\ i \in 1..Len(u.spots[d]) /\ j \in 1..Len(u.spots[e])
    BY <1>1, <1>2
  <2>1. u.spots[d][i] \in ToSet(u.spots[d]) /\ u.spots[e][j] \in ToSet(u.spots[e])
    BY <1>2, <2>0
  <2>2. d = e
    BY <1>6, <2>0, <2>1
  <2>3. NoRepeat(u.spots[d])
    BY <1>6, <2>0
  <2> QED
    BY <2>0, <2>2, <2>3 DEF NoRepeat
<1>7. EachOnce(u) <=> /\ \A d \in 1..n : NoRepeat(u.spots[d])
                      /\ \A d, e \in 1..n : d # e => ToSet(u.spots[d]) \cap ToSet(u.spots[e]) = {}
  BY <1>5, <1>6
<1> QED
  BY <1>2, <1>3, <1>4, <1>7

\* What one day visits changes.
LEMMA DayReplaced ==
    ASSUME NEW n \in Nat, NEW w, NEW K, NEW u \in PlansLike(w, n, K), NEW d \in 1..n, NEW q \in Seq(Places),
           NoRepeat(q), ToSet(q) \subseteq K,
           \A e \in 1..n : e # d => ToSet(q) \cap ToSet(u.spots[e]) = {}
    PROVE  \E z \in PlansLike(w, n, K) :
              /\ z = WithDay(u, d, q) /\ z.spots[d] = q
              /\ \A e \in 1..n : e # d => z.spots[e] = u.spots[e]
              /\ z.stay = u.stay
<1> DEFINE z == WithDay(u, d, q)
           f == [u.spots EXCEPT ![d] = q]
<1>1. u \in TripsOf(n) /\ EachOnce(u) /\ Used(u) \subseteq K
      /\ u.hotel = w.hotel /\ u.text = w.text /\ u.meals = w.meals
  BY DEF PlansLike
<1>2. u.spots \in [1..n -> Seq(Places)]
  BY <1>1, TripDays
<1>3. f \in [1..n -> Seq(Places)] /\ f[d] = q /\ \A e \in 1..n : e # d => f[e] = u.spots[e]
  BY <1>2
<1>4. z = [u EXCEPT !.spots = f]
  BY DEF WithDay
<1> HIDE DEF f
<1>5. z \in TripsOf(n) /\ z.spots = f /\ z.hotel = u.hotel /\ z.text = u.text /\ z.meals = u.meals
      /\ z.stay = u.stay
  BY <1>1, <1>3, <1>4 DEF TripsOf
<1> HIDE DEF z
<1>6. /\ \A e \in 1..n : NoRepeat(u.spots[e])
      /\ \A a, b \in 1..n : a # b => ToSet(u.spots[a]) \cap ToSet(u.spots[b]) = {}
      /\ \A e \in 1..n : ToSet(u.spots[e]) \subseteq K
  BY <1>1, OnceByDays
<1>7. \A e \in 1..n : NoRepeat(z.spots[e]) /\ ToSet(z.spots[e]) \subseteq K
  BY <1>3, <1>5, <1>6
<1>8. ASSUME NEW a \in 1..n, NEW b \in 1..n, a # b
      PROVE  ToSet(z.spots[a]) \cap ToSet(z.spots[b]) = {}
  <2>1. CASE a = d
    BY <1>3, <1>5, <1>8, <2>1
  <2>2. CASE b = d
    BY <1>3, <1>5, <1>8, <2>2
  <2>3. CASE a # d /\ b # d
    BY <1>3, <1>5, <1>6, <1>8, <2>3
  <2> QED
    BY <2>1, <2>2, <2>3
<1>9. EachOnce(z) /\ Used(z) \subseteq K
  <2>1. EachOnce(z)
    BY <1>5, <1>7, <1>8, OnceByDays
  <2>2. Used(z) = UNION {ToSet(z.spots[e]) : e \in 1..n}
    BY <1>5, OnceByDays
  <2> QED
    BY <1>7, <2>1, <2>2
<1>10. z \in PlansLike(w, n, K)
  BY <1>1, <1>5, <1>9 DEF PlansLike
<1> QED
  BY <1>3, <1>5, <1>10 DEF z

\* A day that only rearranges or drops what it visits.
LEMMA DayArranged ==
    ASSUME NEW n \in Nat, NEW w, NEW K, NEW u \in PlansLike(w, n, K), NEW d \in 1..n, NEW q \in Seq(Places),
           NoRepeat(q), ToSet(q) \subseteq ToSet(u.spots[d])
    PROVE  \E z \in PlansLike(w, n, K) :
              /\ z = WithDay(u, d, q) /\ z.spots[d] = q
              /\ \A e \in 1..n : e # d => z.spots[e] = u.spots[e]
              /\ z.stay = u.stay
<1>1. u \in TripsOf(n) /\ EachOnce(u) /\ Used(u) \subseteq K
  BY DEF PlansLike
<1>2. /\ \A a, b \in 1..n : a # b => ToSet(u.spots[a]) \cap ToSet(u.spots[b]) = {}
      /\ \A e \in 1..n : ToSet(u.spots[e]) \subseteq K
  BY <1>1, OnceByDays
<1>3. ToSet(q) \subseteq K
  BY <1>2
<1>4. \A e \in 1..n : e # d => ToSet(q) \cap ToSet(u.spots[e]) = {}
  BY <1>2
<1> QED
  BY <1>3, <1>4, DayReplaced

StayAt(u, p, m) == [u EXCEPT !.stay[p] = m]

\* The minutes planned for an attraction change.
LEMMA StayChanged ==
    ASSUME NEW n \in Nat, NEW w, NEW K, NEW u \in PlansLike(w, n, K), NEW p \in Places, NEW m \in Nat
    PROVE  \E z \in PlansLike(w, n, K) : z = StayAt(u, p, m) /\ z.spots = u.spots
<1> DEFINE f == [u.stay EXCEPT ![p] = m]
           z == [u EXCEPT !.stay = f]
<1>1. u \in TripsOf(n) /\ EachOnce(u) /\ Used(u) \subseteq K
      /\ u.hotel = w.hotel /\ u.text = w.text /\ u.meals = w.meals
  BY DEF PlansLike
<1>2. f \in [Places -> Nat]
  BY <1>1, TripDays
<1>3. z = StayAt(u, p, m)
  BY DEF StayAt
<1> HIDE DEF f
<1>4. z \in TripsOf(n) /\ z.spots = u.spots /\ z.hotel = u.hotel /\ z.text = u.text /\ z.meals = u.meals
  BY <1>1, <1>2 DEF TripsOf
<1> HIDE DEF z
<1>5. EachOnce(z) /\ Used(z) \subseteq K
  BY <1>1, <1>4 DEF EachOnce, Used, Days
<1>6. z \in PlansLike(w, n, K)
  BY <1>1, <1>4, <1>5 DEF PlansLike
<1> QED
  BY <1>3, <1>4, <1>6

\* An attraction less.
LEMMA SpotRemoved ==
    ASSUME NEW q \in Seq(Places), NoRepeat(q), NEW i \in 1..Len(q)
    PROVE  /\ RemoveAt(q, i) \in Seq(Places) /\ NoRepeat(RemoveAt(q, i))
           /\ ToSet(RemoveAt(q, i)) = ToSet(q) \ {q[i]} /\ Len(RemoveAt(q, i)) = Len(q) - 1
<1> DEFINE r == RemoveAt(q, i)
           m == Len(q)
<1>1. /\ r \in Seq(Places) /\ Len(r) = m - 1 /\ m \in Nat
      /\ \A k \in 1..(m - 1) : r[k] = IF k < i THEN q[k] ELSE q[k + 1]
  BY ElementRemoved, LenProperties
<1> HIDE DEF r
<1>2. ToSet(r) = {r[k] : k \in 1..(m - 1)} /\ ToSet(q) = {q[k] : k \in 1..m}
  BY <1>1, ToSetIn
<1>3. NoRepeat(r)
  <2> SUFFICES ASSUME NEW a \in 1..(m - 1), NEW b \in 1..(m - 1), r[a] = r[b] PROVE a = b
    BY <1>1 DEF NoRepeat
  <2>1. \A x, y \in 1..m : q[x] = q[y] => x = y
    BY DEF NoRepeat
  <2>2. a \in 1..m /\ b \in 1..m /\ a + 1 \in 1..m /\ b + 1 \in 1..m
    BY <1>1
  <2>3. CASE a < i /\ b < i
    BY <1>1, <2>1, <2>2, <2>3
  <2>4. CASE a < i /\ ~(b < i)
    <3>1. q[a] = q[b + 1]
      BY <1>1, <2>4
    <3>2. a = b + 1
      BY <2>1, <2>2, <3>1
    <3> QED
      BY <1>1, <2>4, <3>2
  <2>5. CASE ~(a < i) /\ b < i
    <3>1. q[a + 1] = q[b]
      BY <1>1, <2>5
    <3>2. a + 1 = b
      BY <2>1, <2>2, <3>1
    <3> QED
      BY <1>1, <2>5, <3>2
  <2>6. CASE ~(a < i) /\ ~(b < i)
    <3>1. q[a + 1] = q[b + 1]
      BY <1>1, <2>6
    <3>2. a + 1 = b + 1
      BY <2>1, <2>2, <3>1
    <3> QED
      BY <3>2
  <2> QED
    BY <2>3, <2>4, <2>5, <2>6
<1>4. ToSet(r) \subseteq ToSet(q) \ {q[i]}
  <2>0. \A x \in 1..m : x # i => q[x] \in ToSet(q) \ {q[i]}
    BY <1>2 DEF NoRepeat
  <2> SUFFICES ASSUME NEW k \in 1..(m - 1) PROVE \E x \in 1..m : r[k] = q[x] /\ x # i
    BY <1>2, <2>0
  <2>1. CASE k < i
    BY <1>1, <2>1
  <2>2. CASE ~(k < i)
    <3>1. k + 1 \in 1..m /\ k + 1 # i /\ r[k] = q[k + 1]
      BY <1>1, <2>2
    <3> QED
      BY <3>1
  <2> QED
    BY <2>1, <2>2
<1>5. ToSet(q) \ {q[i]} \subseteq ToSet(r)
  <2> SUFFICES ASSUME NEW x \in 1..m, x # i PROVE \E k \in 1..(m - 1) : r[k] = q[x]
    BY <1>2
  <2>1. CASE x < i
    BY <1>1, <2>1
  <2>2. CASE x > i
    <3>1. x - 1 \in 1..(m - 1) /\ ~(x - 1 < i) /\ (x - 1) + 1 = x
      BY <1>1, <2>2
    <3> QED
      BY <1>1, <3>1
  <2> QED
    BY <1>1, <2>1, <2>2
<1> QED
  BY <1>1, <1>3, <1>4, <1>5 DEF r

\* An attraction more.
LEMMA SpotInserted ==
    ASSUME NEW q \in Seq(Places), NoRepeat(q), NEW p \in Places, p \notin ToSet(q), NEW k \in 1..(Len(q) + 1)
    PROVE  /\ InsertAt(q, k, p) \in Seq(Places) /\ NoRepeat(InsertAt(q, k, p))
           /\ ToSet(InsertAt(q, k, p)) = ToSet(q) \cup {p}
<1> DEFINE r == InsertAt(q, k, p)
           m == Len(q)
<1>1. /\ r \in Seq(Places) /\ Len(r) = m + 1 /\ m \in Nat
      /\ \A j \in 1..(m + 1) : r[j] = IF j < k THEN q[j] ELSE IF j = k THEN p ELSE q[j - 1]
  <2>1. m \in Nat
    BY LenProperties
  <2>2. /\ r \in Seq(Places) /\ Len(r) = m + 1
        /\ \A j \in 1..(m + 1) : r[j] = IF j < k THEN q[j] ELSE IF j = k THEN p ELSE q[j - 1]
    <3> HIDE DEF r, m
    <3>1. /\ InsertAt(q, k, p) \in Seq(Places) /\ Len(InsertAt(q, k, p)) = Len(q) + 1
          /\ \A j \in 1..(Len(q) + 1) :
                InsertAt(q, k, p)[j] = IF j < k THEN q[j] ELSE IF j = k THEN p ELSE q[j - 1]
      BY ElementInserted
    <3> QED
      BY <3>1 DEF r, m
  <2> QED
    BY <2>1, <2>2
<1> HIDE DEF r
<1>2. ToSet(r) = {r[j] : j \in 1..(m + 1)} /\ ToSet(q) = {q[j] : j \in 1..m}
  BY <1>1, ToSetIn
<1> DEFINE back(j) == IF j < k THEN j ELSE j - 1
<1>3. ASSUME NEW j \in 1..(m + 1), j # k PROVE back(j) \in 1..m /\ r[j] = q[back(j)]
  <2>1. CASE j < k
    BY <1>1, <2>1
  <2>2. CASE ~(j < k)
    <3>1. back(j) = j - 1 /\ j - 1 \in 1..m
      BY <1>1, <1>3, <2>2
    <3> QED
      BY <1>1, <1>3, <2>2, <3>1
  <2> QED
    BY <2>1, <2>2
<1>4. \A a, b \in 1..(m + 1) : a # k /\ b # k /\ back(a) = back(b) => a = b
  BY <1>1
<1> HIDE DEF back
<1>5. \A x, y \in 1..m : q[x] = q[y] => x = y
  BY DEF NoRepeat
<1>6. \A x \in 1..m : q[x] # p
  BY <1>2
<1>7. r[k] = p
  BY <1>1
<1>8. NoRepeat(r)
  <2> SUFFICES ASSUME NEW a \in 1..(m + 1), NEW b \in 1..(m + 1), r[a] = r[b] PROVE a = b
    BY <1>1 DEF NoRepeat
  <2>1. CASE a = k \/ b = k
    BY <1>3, <1>6, <1>7, <2>1
  <2>2. CASE a # k /\ b # k
    BY <1>3, <1>4, <1>5, <2>2
  <2> QED
    BY <2>1, <2>2
<1>9. ToSet(r) \subseteq ToSet(q) \cup {p}
  <2> SUFFICES ASSUME NEW j \in 1..(m + 1) PROVE r[j] \in ToSet(q) \cup {p}
    BY <1>2
  <2>1. CASE j = k
    BY <1>7, <2>1
  <2>2. CASE j # k
    BY <1>2, <1>3, <2>2
  <2> QED
    BY <2>1, <2>2
<1>10. ToSet(q) \cup {p} \subseteq ToSet(r)
  <2>1. k \in 1..(m + 1)
    OBVIOUS
  <2>2. p \in ToSet(r)
    BY <1>2, <1>7, <2>1
  <2>3. ASSUME NEW x \in 1..m PROVE q[x] \in ToSet(r)
    <3>1. CASE x < k
      <4>1. x \in 1..(m + 1) /\ r[x] = q[x]
        BY <1>1, <3>1
      <4> QED
        BY <1>2, <4>1
    <3>2. CASE x >= k
      <4>1. x + 1 \in 1..(m + 1) /\ ~(x + 1 < k) /\ x + 1 # k /\ (x + 1) - 1 = x
        BY <1>1, <3>2
      <4>2. r[x + 1] = q[x]
        BY <1>1, <4>1
      <4> QED
        BY <1>2, <4>1, <4>2
    <3> QED
      BY <1>1, <3>1, <3>2
  <2> QED
    BY <1>2, <2>2, <2>3
<1> QED
  BY <1>1, <1>8, <1>9, <1>10 DEF r

\* z is u without attraction i of day d.
IsWithout(z, u, n, K, d, i) ==
    /\ z = Without(u, d, i) /\ z.spots[d] = RemoveAt(u.spots[d], i)
    /\ \A e \in 1..n : e # d => z.spots[e] = u.spots[e]
    /\ u.spots[d][i] \notin Used(z) /\ u.spots[d][i] \in Places \cap K
    /\ Len(z.spots[d]) = Len(u.spots[d]) - 1

\* Attraction i of day d is dropped.
LEMMA SpotDropped ==
    ASSUME NEW n \in Nat, NEW w, NEW K, NEW u \in PlansLike(w, n, K), NEW d \in 1..n, NEW i \in 1..Len(u.spots[d])
    PROVE  \E z \in PlansLike(w, n, K) : IsWithout(z, u, n, K, d, i)
<1> DEFINE q == u.spots[d]
<1>1. u \in TripsOf(n) /\ EachOnce(u) /\ Used(u) \subseteq K
  BY DEF PlansLike
<1>2. /\ q \in Seq(Places) /\ NoRepeat(q) /\ q[i] \in ToSet(q) /\ ToSet(q) \subseteq Places
      /\ ToSet(q) \subseteq K
      /\ \A a, b \in 1..n : a # b => ToSet(u.spots[a]) \cap ToSet(u.spots[b]) = {}
  <2>1. q \in Seq(Places) /\ ToSet(q) \subseteq Places /\ ToSet(q) \subseteq Used(u)
        /\ ToSet(q) = {q[j] : j \in 1..Len(q)}
    BY <1>1, OnceByDays, TripDays
  <2>2. NoRepeat(q) /\ \A a, b \in 1..n : a # b => ToSet(u.spots[a]) \cap ToSet(u.spots[b]) = {}
    BY <1>1, OnceByDays
  <2> QED
    BY <1>1, <2>1, <2>2
<1>3. /\ RemoveAt(q, i) \in Seq(Places) /\ NoRepeat(RemoveAt(q, i))
      /\ ToSet(RemoveAt(q, i)) = ToSet(q) \ {q[i]} /\ Len(RemoveAt(q, i)) = Len(q) - 1
  BY <1>2, SpotRemoved
<1>4. PICK z \in PlansLike(w, n, K) :
         /\ z = WithDay(u, d, RemoveAt(q, i)) /\ z.spots[d] = RemoveAt(q, i)
         /\ \A e \in 1..n : e # d => z.spots[e] = u.spots[e]
  <2>1. ToSet(RemoveAt(q, i)) \subseteq ToSet(u.spots[d])
    BY <1>3
  <2> HIDE DEF q
  <2> QED
    BY <1>3, <2>1, DayArranged
<1>5. z \in TripsOf(n)
  BY DEF PlansLike
<1>6. q[i] \notin Used(z)
  <2>1. Used(z) = UNION {ToSet(z.spots[e]) : e \in 1..n}
    BY <1>5, OnceByDays
  <2>2. ASSUME NEW e \in 1..n PROVE q[i] \notin ToSet(z.spots[e])
    <3>1. CASE e = d
      BY <1>3, <1>4, <3>1
    <3>2. CASE e # d
      BY <1>2, <1>4, <3>2
    <3> QED
      BY <3>1, <3>2
  <2> QED
    BY <2>1, <2>2
<1> QED
  BY <1>2, <1>3, <1>4, <1>6 DEF Without, IsWithout

\* An attraction that is not in the plan is inserted.
LEMMA SpotAdded ==
    ASSUME NEW n \in Nat, NEW w, NEW K, NEW u \in PlansLike(w, n, K), NEW d \in 1..n,
           NEW p \in Places \cap K, p \notin Used(u), NEW k \in 1..(Len(u.spots[d]) + 1)
    PROVE  \E z \in PlansLike(w, n, K) :
              z = WithDay(u, d, InsertAt(u.spots[d], k, p)) /\ Used(z) = Used(u) \cup {p}
<1> DEFINE q == u.spots[d]
           r == InsertAt(q, k, p)
<1>1. u \in TripsOf(n) /\ EachOnce(u) /\ Used(u) \subseteq K
  BY DEF PlansLike
<1>2. /\ q \in Seq(Places) /\ NoRepeat(q) /\ ToSet(q) \subseteq K /\ p \notin ToSet(q)
      /\ \A a, b \in 1..n : a # b => ToSet(u.spots[a]) \cap ToSet(u.spots[b]) = {}
      /\ \A e \in 1..n : p \notin ToSet(u.spots[e])
  BY <1>1, OnceByDays, TripDays
<1>3. r \in Seq(Places) /\ NoRepeat(r) /\ ToSet(r) = ToSet(q) \cup {p}
  BY <1>2, SpotInserted
<1>4. ToSet(r) \subseteq K /\ \A e \in 1..n : e # d => ToSet(r) \cap ToSet(u.spots[e]) = {}
  <2> HIDE DEF r
  <2> QED
    BY <1>2, <1>3
<1>5. PICK z \in PlansLike(w, n, K) :
         /\ z = WithDay(u, d, r) /\ z.spots[d] = r
         /\ \A e \in 1..n : e # d => z.spots[e] = u.spots[e]
  <2> HIDE DEF r, q
  <2>1. r \in Seq(Places) /\ NoRepeat(r)
    BY <1>3
  <2>2. \E z \in PlansLike(w, n, K) :
              /\ z = WithDay(u, d, r) /\ z.spots[d] = r
              /\ \A e \in 1..n : e # d => z.spots[e] = u.spots[e]
              /\ z.stay = u.stay
    BY <1>4, <2>1, DayReplaced
  <2> QED
    BY <2>2
<1>6. z \in TripsOf(n)
  BY DEF PlansLike
<1>7. Used(z) = Used(u) \cup {p}
  <2>1. Used(z) = UNION {ToSet(z.spots[e]) : e \in 1..n} /\ Used(u) = UNION {ToSet(u.spots[e]) : e \in 1..n}
    BY <1>1, <1>6, OnceByDays
  <2>2. \A e \in 1..n : ToSet(z.spots[e]) = IF e = d THEN ToSet(u.spots[e]) \cup {p} ELSE ToSet(u.spots[e])
    <3> HIDE DEF r
    <3> TAKE e \in 1..n
    <3>1. CASE e = d
      BY <1>3, <1>5, <3>1
    <3>2. CASE e # d
      BY <1>5, <3>2
    <3> QED
      BY <3>1, <3>2
  <2>3. Used(z) \subseteq Used(u) \cup {p}
    <3>1. \A e \in 1..n : ToSet(z.spots[e]) \subseteq ToSet(u.spots[e]) \cup {p}
      BY <2>2
    <3> QED
      BY <2>1, <3>1
  <2>4. Used(u) \subseteq Used(z)
    <3>1. \A e \in 1..n : ToSet(u.spots[e]) \subseteq ToSet(z.spots[e])
      BY <2>2
    <3> QED
      BY <2>1, <3>1
  <2>5. p \in Used(z)
    <3>1. p \in ToSet(z.spots[d])
      BY <2>2
    <3> QED
      BY <2>1, <3>1
  <2> QED
    BY <2>3, <2>4, <2>5
<1> QED
  BY <1>5, <1>7

\* An attraction moves to another place of the plan.
LEMMA SpotMoved ==
    ASSUME NEW n \in Nat, NEW w, NEW K, NEW u \in PlansLike(w, n, K), NEW d \in 1..n, NEW i \in 1..Len(u.spots[d]),
           NEW e \in 1..n, NEW k \in Nat \ {0},
           e = d => k <= Len(u.spots[d]), e # d => k <= Len(u.spots[e]) + 1
    PROVE  MoveTo(u, d, i, e, k) \in PlansLike(w, n, K)
<1>0. PICK z \in PlansLike(w, n, K) : IsWithout(z, u, n, K, d, i)
  BY SpotDropped
<1>1. /\ z = Without(u, d, i) /\ z.spots[d] = RemoveAt(u.spots[d], i)
      /\ \A f \in 1..n : f # d => z.spots[f] = u.spots[f]
      /\ u.spots[d][i] \notin Used(z) /\ u.spots[d][i] \in Places \cap K
      /\ Len(z.spots[d]) = Len(u.spots[d]) - 1
  BY <1>0 DEF IsWithout
<1>2. k \in 1..(Len(z.spots[e]) + 1)
  <2>1. Len(u.spots[d]) \in Nat /\ Len(u.spots[e]) \in Nat
    <3>1. u \in TripsOf(n)
      BY DEF PlansLike
    <3> QED
      BY <3>1, TripDays, LenProperties
  <2>2. CASE e = d
    BY <1>1, <2>1, <2>2
  <2>3. CASE e # d
    BY <1>1, <2>1, <2>3
  <2> QED
    BY <2>2, <2>3
<1>3. PICK y \in PlansLike(w, n, K) : y = WithDay(z, e, InsertAt(z.spots[e], k, u.spots[d][i]))
  BY <1>1, <1>2, SpotAdded
<1>4. MoveTo(u, d, i, e, k) = y
  BY <1>1, <1>3 DEF MoveTo
<1> QED
  BY <1>4

\* Another attraction in the place of one.
LEMMA SpotReplaced ==
    ASSUME NEW n \in Nat, NEW w, NEW K, NEW u \in PlansLike(w, n, K), NEW d \in 1..n, NEW i \in 1..Len(u.spots[d]),
           NEW p \in Places \cap K, p \notin Used(u)
    PROVE  WithDay(u, d, [u.spots[d] EXCEPT ![i] = p]) \in PlansLike(w, n, K)
<1> DEFINE q == u.spots[d]
           r == [q EXCEPT ![i] = p]
           m == Len(q)
<1>1. u \in TripsOf(n) /\ EachOnce(u) /\ Used(u) \subseteq K
  BY DEF PlansLike
<1>2. /\ q \in Seq(Places) /\ NoRepeat(q) /\ ToSet(q) \subseteq K /\ p \notin ToSet(q)
      /\ \A a, b \in 1..n : a # b => ToSet(u.spots[a]) \cap ToSet(u.spots[b]) = {}
      /\ \A e \in 1..n : p \notin ToSet(u.spots[e])
      /\ ToSet(q) = {q[j] : j \in 1..m}
  BY <1>1, OnceByDays, TripDays
<1>3. /\ r \in Seq(Places) /\ Len(r) = m /\ m \in Nat
      /\ \A j \in 1..m : r[j] = IF j = i THEN p ELSE q[j]
  <2>1. q \in [1..m -> Places] /\ m \in Nat
    BY <1>2, LenProperties
  <2>2. r \in [1..m -> Places] /\ \A j \in 1..m : r[j] = IF j = i THEN p ELSE q[j]
    BY <2>1
  <2>3. r \in Seq(Places) /\ Len(r) = m
    <3> HIDE DEF r, m
    <3> QED
      BY <2>1, <2>2
  <2> QED
    BY <2>1, <2>2, <2>3
<1> HIDE DEF r, m
<1>4. NoRepeat(r)
  <2> SUFFICES ASSUME NEW a \in 1..m, NEW b \in 1..m, r[a] = r[b] PROVE a = b
    BY <1>3 DEF NoRepeat
  <2>1. \A x, y \in 1..m : q[x] = q[y] => x = y
    BY <1>2 DEF NoRepeat, m
  <2>2. \A x \in 1..m : q[x] # p
    BY <1>2
  <2> QED
    BY <1>3, <2>1, <2>2
<1>5. ToSet(r) \subseteq ToSet(q) \cup {p}
  <2>1. ToSet(r) = {r[j] : j \in 1..m}
    BY <1>3, ToSetIn
  <2> QED
    BY <1>2, <1>3, <2>1
<1>6. ToSet(r) \subseteq K /\ \A e \in 1..n : e # d => ToSet(r) \cap ToSet(u.spots[e]) = {}
  BY <1>2, <1>5
<1>7. \E z \in PlansLike(w, n, K) : z = WithDay(u, d, r)
  <2> HIDE DEF q
  <2> QED
    BY <1>3, <1>4, <1>6, DayReplaced
<1> QED
  BY <1>7 DEF r

\* Part of a sequence that repeats nothing repeats nothing.
LEMMA SelectedOnce ==
    ASSUME NEW q \in Seq(Places), NoRepeat(q), NEW I
    PROVE  /\ Selected(q, I) \in Seq(Places) /\ NoRepeat(Selected(q, I))
           /\ ToSet(Selected(q, I)) = {q[i] : i \in I \cap 1..Len(q)}
<1> DEFINE r == Selected(q, I)
           m == Len(q)
<1>1. r \in Seq(Places) /\ \E f : IsSelection(r, q, I, f)
  BY SelectedLists
<1> HIDE DEF r
<1>2. PICK f : IsSelection(r, q, I, f)
  BY <1>1
<1>3. /\ f \in Seq(I \cap 1..m) /\ Increasing(f) /\ Len(r) = Len(f) /\ Len(f) \in Nat
      /\ \A i \in I \cap 1..m : \E k \in 1..Len(f) : f[k] = i
      /\ \A k \in 1..Len(f) : r[k] = q[f[k]]
  BY <1>2, LenProperties DEF IsSelection
<1>4. \A k \in 1..Len(f) : f[k] \in I \cap 1..m
  BY <1>3, ElementOfSeq
<1>5. ToSet(r) = {r[k] : k \in 1..Len(f)}
  BY <1>1, <1>3, ToSetIn
<1>6. ToSet(r) = {q[i] : i \in I \cap 1..m}
  <2>1. \A k \in 1..Len(f) : \E i \in I \cap 1..m : r[k] = q[i]
    BY <1>3, <1>4
  <2>2. \A i \in I \cap 1..m : \E k \in 1..Len(f) : r[k] = q[i]
    BY <1>3
  <2>3. ToSet(r) \subseteq {q[i] : i \in I \cap 1..m}
    BY <1>5, <2>1
  <2>4. {q[i] : i \in I \cap 1..m} \subseteq ToSet(r)
    BY <1>5, <2>2
  <2> QED
    BY <2>3, <2>4
<1>7. NoRepeat(r)
  <2> SUFFICES ASSUME NEW a \in 1..Len(f), NEW b \in 1..Len(f), r[a] = r[b] PROVE a = b
    BY <1>3 DEF NoRepeat
  <2>0. f[a] \in 1..m /\ f[b] \in 1..m /\ q[f[a]] = q[f[b]]
    BY <1>3, <1>4
  <2>1. f[a] = f[b] /\ f[a] \in Int /\ f[b] \in Int
    BY <2>0 DEF NoRepeat
  <2>2. ~(a < b) /\ ~(b < a)
    BY <1>3, <2>1 DEF Increasing
  <2> QED
    BY <1>3, <2>2
<1> QED
  BY <1>1, <1>6, <1>7 DEF r

-----------------------------------------------------------------------------
(* The candidates of the optimizers.                                       *)

MovesLike(w, n, K) == [from : 1..n, to : 1..n, at : Nat, plan : PlansLike(w, n, K)]

\* The other days, nearest first, are days of the plan.
LEMMA OtherDaysType ==
    ASSUME NEW n \in Nat, NEW u \in TripsOf(n), NEW d \in 1..n
    PROVE  OtherDays(u, d) \in Seq((1..n) \ {d})
<1> DEFINE D == (1..n) \ {d}
           a == [k \in 1..(n - d) |-> d + k]
           b == UpTo(d - 1)
<1>1. Len(u.spots) = n
  BY TripDays
<1>2. a \in Seq(D)
  <2>1. n - d \in Nat /\ \A k \in 1..(n - d) : d + k \in D
    OBVIOUS
  <2>2. a \in [1..(n - d) -> D]
    BY <2>1
  <2> HIDE DEF a, D
  <2> QED
    BY <2>1, <2>2
<1>3. b \in Seq(D)
  <2>1. d - 1 \in Nat /\ \A k \in 1..(d - 1) : k \in D
    OBVIOUS
  <2>2. b \in [1..(d - 1) -> D]
    BY <2>1 DEF UpTo
  <2> HIDE DEF b, D
  <2> QED
    BY <2>1, <2>2
<1>4. OtherDays(u, d) = a \o b
  BY <1>1 DEF OtherDays
<1>5. a \o b \in Seq(D)
  <2> HIDE DEF a, b, D
  <2> QED
    BY <1>2, <1>3, ConcatProperties
<1> QED
  BY <1>4, <1>5

\* The moves of an attraction to another day keep the plan's attractions.
LEMMA CrossDayMovesType ==
    ASSUME NEW n \in Nat, NEW w, NEW K, NEW u \in PlansLike(w, n, K), NEW d \in 1..n, NEW i \in 1..Len(u.spots[d])
    PROVE  CrossDayMoves(u, d, i) \in Seq(MovesLike(w, n, K))
<1> DEFINE S == MovesLike(w, n, K)
           o == OtherDays(u, d)
           days(e) == [k \in 1..(Len(u.spots[e]) + 1) |->
                         [from |-> d, to |-> e, at |-> k, plan |-> MoveTo(u, d, i, e, k)]]
           all == [m \in DOMAIN o |-> days(o[m])]
<1>1. u \in TripsOf(n)
  BY DEF PlansLike
<1>2. o \in Seq((1..n) \ {d})
  BY <1>1, OtherDaysType
<1>3. ASSUME NEW e \in (1..n) \ {d} PROVE days(e) \in Seq(S)
  <2>1. PICK m \in Nat : m = Len(u.spots[e]) + 1
    BY <1>1, TripDays, LenProperties
  <2>2. ASSUME NEW k \in 1..m
        PROVE  [from |-> d, to |-> e, at |-> k, plan |-> MoveTo(u, d, i, e, k)] \in S
    <3>1. MoveTo(u, d, i, e, k) \in PlansLike(w, n, K)
      <4>1. k \in Nat \ {0} /\ k <= Len(u.spots[e]) + 1 /\ e # d /\ e \in 1..n
        BY <2>1
      <4> QED
        BY <4>1, SpotMoved
    <3> QED
      BY <3>1 DEF MovesLike
  <2>3. days(e) \in [1..m -> S]
    <3> HIDE DEF S
    <3> QED
      BY <2>1, <2>2
  <2> HIDE DEF days, S
  <2> QED
    BY <2>3
<1> HIDE DEF days, o, S
<1>4. DOMAIN o = 1..Len(o) /\ Len(o) \in Nat /\ \A m \in 1..Len(o) : o[m] \in (1..n) \ {d}
  BY <1>2, LenProperties, ElementOfSeq
<1>5. all \in [1..Len(o) -> Seq(S)]
  BY <1>3, <1>4
<1>6. all \in Seq(Seq(S))
  <2> HIDE DEF all
  <2> QED
    BY <1>4, <1>5
<1>7. CrossDayMoves(u, d, i) = FlattenSeq(all)
  BY DEF CrossDayMoves, days, o
<1>8. FlattenSeq(all) \in Seq(S)
  <2> HIDE DEF all
  <2> QED
    BY <1>6, FlattenedIn
<1> QED
  BY <1>7, <1>8 DEF S

\* The best plan is one of the plans.
LEMMA BestPlanIn ==
    ASSUME NEW P, NEW S, \A c \in S : c.plan \in P
    PROVE  BestPlan(S) \subseteq P
BY DEF BestPlan, Best

\* A candidate carries its plan, its schedule and its cost.
LEMMA CostedPlan ==
    ASSUME NEW u, NEW key
    PROVE  Costed(u, key).plan = u /\ Costed(u, key).days = Schedule(u, NoRoads)
           /\ Costed(u, key).key = <<ScheduleTotals(Schedule(u, NoRoads)).cost>> \o key
<1> DEFINE s == Schedule(u, NoRoads)
           c == <<ScheduleTotals(s).cost>> \o key
<1>1. Costed(u, key) = [key |-> c, plan |-> u, days |-> s]
  BY DEF Costed
<1> HIDE DEF s, c
<1>2. Costed(u, key).plan = u /\ Costed(u, key).days = s /\ Costed(u, key).key = c
  BY <1>1
<1> QED
  BY <1>2 DEF s, c

\* The candidates of the schedule optimizer keep the plan's attractions.
LEMMA ScheduleMovesType ==
    ASSUME NEW n \in Nat, NEW w, NEW K, NEW u \in PlansLike(w, n, K), NEW d \in 1..n, NEW baseline
    PROVE  \A c \in ScheduleMoves(u, d, baseline) : c.plan \in PlansLike(w, n, K)
<1> DEFINE S == MovesLike(w, n, K)
           q == u.spots[d]
           tried == IF q = <<>> THEN <<>> ELSE Prefix(CrossDayMoves(u, d, Len(q)), MaxCandidates)
<1>1. u \in TripsOf(n)
  BY DEF PlansLike
<1>2. tried \in Seq(S)
  <2>1. CASE q = <<>>
    BY <2>1, EmptySeq
  <2>2. CASE q # <<>>
    <3>1. Len(q) \in 1..Len(q)
      BY <1>1, <2>2, TripDays, EmptySeq, LenProperties
    <3>2. CrossDayMoves(u, d, Len(q)) \in Seq(S)
      BY <3>1, CrossDayMovesType
    <3>3. Prefix(CrossDayMoves(u, d, Len(q)), MaxCandidates) \in Seq(S)
      <4>1. MaxCandidates \in Int
        BY OptimizerAssumption DEF CandidatesAccepted
      <4> HIDE DEF S
      <4> QED
        BY <3>2, <4>1, PrefixIn
    <3> HIDE DEF S
    <3> QED
      BY <2>2, <3>3
  <2> QED
    BY <2>1, <2>2
<1>3. ToSet(tried) \subseteq S
  <2> HIDE DEF tried, S
  <2> QED
    BY <1>2, ToSetIn
<1> SUFFICES ASSUME NEW c \in ScheduleMoves(u, d, baseline) PROVE c.plan \in PlansLike(w, n, K)
  OBVIOUS
<1>4. PICK m \in ToSet(tried) : c = Costed(m.plan, <<m.to, m.at>>)
  BY DEF ScheduleMoves
<1>5. m \in S
  BY <1>3, <1>4
<1>6. m.plan \in PlansLike(w, n, K)
  BY <1>5 DEF MovesLike
<1>7. c.plan = m.plan
  BY <1>4, CostedPlan
<1> QED
  BY <1>6, <1>7

-----------------------------------------------------------------------------
(* Removals of the schedule optimizer.                                     *)

\* The values of a function on a finite set.
LEMMA FiniteValues ==
    ASSUME NEW D, IsFiniteSet(D), NEW f, f = [x \in D |-> f[x]]
    PROVE  IsFiniteSet({f[x] : x \in D})
<1>1. f \in Surjection(D, {f[x] : x \in D})
  BY DEF Surjection
<1> QED
  BY <1>1, FS_Surjection

\* Some of the first numbers.
LEMMA FiniteNumbers ==
    ASSUME NEW m \in Nat, NEW S, S \subseteq 1..m
    PROVE  IsFiniteSet(S)
<1>1. IsFiniteSet(1..m)
  BY FS_Interval
<1> QED
  BY <1>1, FS_Subset

\* No known route is a way to know the roads.
LEMMA NoRoadsAreRoads == IsRoads(NoRoads)
BY DEF IsRoads

\* The cost of a schedule is a number.
LEMMA CostType ==
    ASSUME NEW n \in Nat, NEW s \in [1..n -> Timelines]
    PROVE  ScheduleTotals(s).cost \in Int
<1> DEFINE f == [d \in DOMAIN s |-> 100 * OvertimeOf(s[d]) + 1000 * s[d].fallbacks + s[d].travel]
<1>1. ScheduleTotals(s).cost = Total(f)
  BY DEF ScheduleTotals
<1>2. ASSUME NEW d \in 1..n
      PROVE  100 * OvertimeOf(s[d]) + 1000 * s[d].fallbacks + s[d].travel \in Int
  <2>1. s[d].fallbacks \in Int /\ s[d].travel \in Int /\ s[d].required \in Int
    BY DEF Timelines
  <2>2. OvertimeOf(s[d]) \in Int
    BY <2>1, SettingsAreNumbers DEF OvertimeOf
  <2> QED
    BY <2>1, <2>2
<1>3. f \in [1..n -> Int]
  BY <1>2
<1>4. f \in Seq(Int)
  <2> HIDE DEF f
  <2> QED
    BY <1>3
<1>5. Total(f) \in Int
  <2> HIDE DEF f
  <2> QED
    BY <1>4, TotalIsLastSum
<1> QED
  BY <1>1, <1>5

\* The rounds of _build_overload_reduction.
Rounds(w, n, K) ==
    {r \in [plan : PlansLike(w, n, K), cost : Int, days : [1..n -> Timelines], considered : Int,
            done : BOOLEAN] : r.days = Schedule(r.plan, NoRoads)}

\* The schedule without routes, and its cost.
LEMMA ApproximateDays ==
    ASSUME NEW n \in Nat, NEW u \in TripsOf(n)
    PROVE  /\ Schedule(u, NoRoads) \in [1..n -> Timelines]
           /\ ScheduleTotals(Schedule(u, NoRoads)).cost \in Int
<1>1. Schedule(u, NoRoads) \in [1..n -> Timelines]
  BY SchedulesAreSound, NoRoadsAreRoads
<1> QED
  BY <1>1, CostType

\* The removals considered in a round: finitely many, each of one of the attractions.
LEMMA RemovalsType ==
    ASSUME NEW n \in Nat, NEW w, NEW K, NEW r \in Rounds(w, n, K), NEW d \in 1..n
    PROVE  /\ IsFiniteSet(Removals(r, d))
           /\ \A c \in Removals(r, d) : /\ c.plan \in PlansLike(w, n, K) /\ c.key[1] \in Int
                                        /\ c.days = Schedule(c.plan, NoRoads)
<1> DEFINE u == r.plan
           J == {j \in DOMAIN u.spots[d] : j <= MaxCandidates - r.considered}
           f == [i \in J |-> Costed(Without(u, d, i), <<i>>)]
<1>1. u \in PlansLike(w, n, K) /\ u \in TripsOf(n)
  BY DEF Rounds, PlansLike
<1>2. J \subseteq 1..Len(u.spots[d]) /\ Len(u.spots[d]) \in Nat
  BY <1>1, TripDays, LenProperties
<1>3. IsFiniteSet(J)
  <2> HIDE DEF J
  <2> QED
    BY <1>2, FiniteNumbers
<1>4. Removals(r, d) = {f[i] : i \in J}
  BY DEF Removals
<1>5. IsFiniteSet({f[i] : i \in J})
  <2>1. f = [i \in J |-> f[i]]
    OBVIOUS
  <2> HIDE DEF f, J
  <2> QED
    BY <1>3, <2>1, FiniteValues
<1>6. ASSUME NEW i \in J
      PROVE  LET c == Costed(Without(u, d, i), <<i>>)
             IN  /\ c.plan \in PlansLike(w, n, K) /\ c.key[1] \in Int
                 /\ c.days = Schedule(c.plan, NoRoads)
  <2>1. i \in 1..Len(u.spots[d])
    BY <1>2
  <2>2. PICK z \in PlansLike(w, n, K) : IsWithout(z, u, n, K, d, i)
    <3> HIDE DEF u, J
    <3> QED
      BY <1>1, <2>1, SpotDropped
  <2>3. z = Without(u, d, i) /\ z \in TripsOf(n)
    BY <2>2 DEF IsWithout, PlansLike
  <2>4. PICK c : c = Costed(z, <<i>>)
    OBVIOUS
  <2>5. c.plan = z /\ c.days = Schedule(z, NoRoads)
        /\ c.key = <<ScheduleTotals(Schedule(z, NoRoads)).cost>> \o <<i>>
    BY <2>4, CostedPlan
  <2>6. PICK a \in Int : a = ScheduleTotals(Schedule(z, NoRoads)).cost
    BY <2>3, ApproximateDays
  <2>7. c.key[1] = a
    <3>1. c.key = <<a>> \o <<i>>
      BY <2>5, <2>6
    <3>2. (<<a>> \o <<i>>)[1] = a
      OBVIOUS
    <3> QED
      BY <3>1, <3>2
  <2> QED
    BY <2>2, <2>3, <2>4, <2>5, <2>6, <2>7
<1> HIDE DEF J
<1>7. ASSUME NEW c \in Removals(r, d)
      PROVE  /\ c.plan \in PlansLike(w, n, K) /\ c.key[1] \in Int
             /\ c.days = Schedule(c.plan, NoRoads)
  <2>1. PICK i \in J : c = Costed(Without(u, d, i), <<i>>)
    BY <1>4
  <2> QED
    BY <1>6, <2>1
<1> QED
  BY <1>4, <1>5, <1>7

\* A round leaves a plan like the one before.
LEMMA RoundIsRound ==
    ASSUME NEW n \in Nat, NEW w, NEW K, NEW r \in Rounds(w, n, K)
    PROVE  ReduceOverload(r) \in Rounds(w, n, K)
<1> DEFINE D == WorstDay(r.days)
           f == [d \in D |-> Removals(r, d)]
           tried == UNION {Removals(r, d) : d \in D}
           best == Best(tried)
           z == TakeRemoval(r, best, Cardinality(tried))
<1>0. /\ r.plan \in PlansLike(w, n, K) /\ r.cost \in Int /\ r.days \in [1..n -> Timelines]
      /\ r.considered \in Int /\ r.done \in BOOLEAN /\ r.days = Schedule(r.plan, NoRoads)
      /\ r = [plan |-> r.plan, cost |-> r.cost, days |-> r.days, considered |-> r.considered, done |-> r.done]
  BY DEF Rounds
<1>1. D \subseteq 1..n
  <2>1. D \subseteq DOMAIN r.days
    BY DEF WorstDay
  <2> QED
    BY <1>0, <2>1
<1>2. Cardinality(tried) \in Int
  <2>1. IsFiniteSet(D)
    <3> HIDE DEF D
    <3> QED
      BY <1>1, FiniteNumbers
  <2> HIDE DEF D
  <2>2. IsFiniteSet({f[d] : d \in D})
    <3>1. f = [d \in D |-> f[d]]
      OBVIOUS
    <3> HIDE DEF f
    <3> QED
      BY <2>1, <3>1, FiniteValues
  <2>3. {f[d] : d \in D} = {Removals(r, d) : d \in D}
    OBVIOUS
  <2>4. \A S \in {Removals(r, d) : d \in D} : IsFiniteSet(S)
    BY <1>1, RemovalsType
  <2>5. IsFiniteSet(tried)
    BY <2>2, <2>3, <2>4, FS_UNION
  <2> QED
    BY <2>5, FS_CardinalityType
<1>3. \A c \in best : /\ c.plan \in PlansLike(w, n, K) /\ c.key[1] \in Int
                      /\ c.days = Schedule(c.plan, NoRoads)
  <2> HIDE DEF D
  <2>1. \A c \in tried : /\ c.plan \in PlansLike(w, n, K) /\ c.key[1] \in Int
                         /\ c.days = Schedule(c.plan, NoRoads)
    BY <1>1, RemovalsType
  <2>2. best \subseteq tried
    BY DEF Best
  <2> QED
    BY <2>1, <2>2
<1> HIDE DEF best, tried
<1>4. z \in Rounds(w, n, K)
  <2>1. CASE \A c \in best : c.key[1] >= r.cost
    <3>1. z = [r EXCEPT !.done = TRUE]
      BY <2>1 DEF TakeRemoval
    <3>2. z = [plan |-> r.plan, cost |-> r.cost, days |-> r.days, considered |-> r.considered, done |-> TRUE]
      BY <1>0, <3>1
    <3> HIDE DEF z
    <3> QED
      BY <1>0, <3>2 DEF Rounds
  <2>2. CASE ~\A c \in best : c.key[1] >= r.cost
    <3>1. PICK y \in best : y = The(best)
      BY <2>2 DEF The
    <3>2. z = [plan |-> y.plan, cost |-> y.key[1], days |-> y.days,
               considered |-> r.considered + Cardinality(tried), done |-> FALSE]
      BY <2>2, <3>1 DEF TakeRemoval
    <3>3. y.plan \in PlansLike(w, n, K) /\ y.key[1] \in Int /\ y.days = Schedule(y.plan, NoRoads)
      BY <1>3
    <3>4. y.days \in [1..n -> Timelines]
      BY <3>3, ApproximateDays DEF PlansLike
    <3>5. r.considered + Cardinality(tried) \in Int
      BY <1>0, <1>2
    <3> HIDE DEF z
    <3> QED
      BY <3>2, <3>3, <3>4, <3>5 DEF Rounds
  <2> QED
    BY <2>1, <2>2
<1>5. ReduceOverload(r) = r \/ ReduceOverload(r) = z
  BY DEF ReduceOverload, z, best, tried
<1> QED
  BY <1>4, <1>5

\* The rounds together.
LEMMA ReducedPlan ==
    ASSUME NEW n \in Nat, NEW w, NEW K, NEW c, c.plan \in PlansLike(w, n, K),
           c.key[1] \in Int, c.days = Schedule(c.plan, NoRoads)
    PROVE  Reduced(c).plan \in PlansLike(w, n, K)
<1> DEFINE m == MaxCandidates
           T == Rounds(w, n, K)
           base == [plan |-> c.plan, cost |-> c.key[1], days |-> c.days, considered |-> 0, done |-> FALSE]
           step == [p \in T \X (1..m) |-> ReduceOverload(p[1])]
           Solves(g) == g = [i \in 0..m |-> IF i = 0 THEN base ELSE ReduceOverload(g[i - 1])]
<1>0. m \in Nat
  BY OptimizerAssumption DEF CandidatesAccepted
<1>b. base \in T
  <2>1. c.days \in [1..n -> Timelines]
    BY ApproximateDays DEF PlansLike
  <2> QED
    BY <2>1 DEF Rounds
<1>c. \A t \in T : ReduceOverload(t) \in T
  BY RoundIsRound
<1> HIDE DEF T, base
<1>d. \A t \in T : \A i \in 1..m : step[<<t, i>>] = ReduceOverload(t)
  OBVIOUS
<1>1. IsStep(m, T, step)
  <2> HIDE DEF step
  <2> QED
    BY <1>c, <1>d DEF IsStep
<1>2. PICK h \in RunsOf(m, T, base, step) : TRUE
  <2> HIDE DEF step, m
  <2>2. RunsOf(m, T, base, step) # {}
    BY <1>0, <1>1, <1>b, RecursionUpTo
  <2> QED
    BY <2>2
<1>3. h \in [0..m -> T] /\ h[0] = base /\ \A i \in 1..m : h[i] = ReduceOverload(h[i - 1])
  <2> HIDE DEF step, m
  <2>1. /\ h \in [0..m -> T] /\ h[0] = base
        /\ \A i \in 1..m : h[i - 1] \in T /\ h[i] = step[<<h[i - 1], i>>]
    <3>1. h \in RunsOf(m, T, base, step) /\ m \in Nat
      BY <1>0, <1>2
    <3> QED
      BY <3>1, RunValues
  <2> QED
    BY <1>d, <2>1
<1>4. Solves(h)
  <2>1. \A i \in 0..m : h[i] = IF i = 0 THEN base ELSE ReduceOverload(h[i - 1])
    BY <1>0, <1>3
  <2> QED
    BY <1>3, <2>1
<1>5. PICK g : g = (CHOOSE l : Solves(l)) /\ Solves(g)
  <2> HIDE DEF Solves
  <2> QED
    BY <1>4
<1>6. Reduced(c) = g[m]
  BY <1>5 DEF Reduced, base
<1>7. g[0] = base /\ \A i \in 1..m : g[i] = ReduceOverload(g[i - 1])
  <2>1. \A i \in 0..m : g[i] = IF i = 0 THEN base ELSE ReduceOverload(g[i - 1])
    BY <1>5
  <2> QED
    BY <1>0, <2>1
<1> DEFINE M == {i \in 0..m : g[i] \in T}
<1> HIDE DEF Solves, step
<1>8. 0 \in M
  BY <1>0, <1>7, <1>b
<1>9. ASSUME NEW i \in 1..m, i - 1 \in M PROVE i \in M
  <2>1. g[i - 1] \in T /\ g[i] = ReduceOverload(g[i - 1]) /\ i \in 0..m
    BY <1>0, <1>7, <1>9
  <2> QED
    BY <1>c, <2>1
<1>10. m \in M
  <2> HIDE DEF M, m
  <2>1. \A i \in 0..m : i \in M
    BY <1>0, <1>8, <1>9, InductionUpTo
  <2> QED
    BY <1>0, <2>1
<1> QED
  BY <1>6, <1>10 DEF T, Rounds

-----------------------------------------------------------------------------
(* Orders of the route optimizer.                                          *)

\* Other orders of some of the attractions of a day.
OrdersOf(q) == {r \in Seq(Places) : NoRepeat(r) /\ ToSet(r) \subseteq ToSet(q)}

\* The smallest of numbered things by their keys.
LEMMA SmallestKey ==
    ASSUME NEW S, IsFiniteSet(S), S # {}, NEW n \in Nat, NEW key \in [S -> Keys(n)]
    PROVE  \E m \in S : \A x \in S : ~LexLess(key[x], key[m])
<1> DEFINE R == {p \in S \X S : LexLess(key[p[1]], key[p[2]])}
<1>1. \A x, y \in S : <<x, y>> \in R <=> LexLess(key[x], key[y])
  OBVIOUS
<1>2. \A x \in S : key[x] \in Keys(n)
  OBVIOUS
<1> HIDE DEF R
<1>3. \A x \in S : <<x, x>> \notin R
  BY <1>1, <1>2, LexIrreflexive
<1>4. \A x, y, z \in S : <<x, y>> \in R /\ <<y, z>> \in R => <<x, z>> \in R
  BY <1>1, <1>2, LexTransitive
<1>5. PICK m \in S : \A x \in S : <<x, m>> \notin R
  BY <1>3, <1>4, MinimalElement
<1> QED
  BY <1>1, <1>5

\* A distance is a number.
LEMMA DistanceType ==
    ASSUME NEW a \in Places, NEW b \in Places
    PROVE  Distance(PlaceAt(a), PlaceAt(b)) \in Int
<1>1. PlaceAt(a) \in Int /\ PlaceAt(b) \in Int
  BY PositionsAreNumbers
<1> QED
  BY <1>1 DEF Distance

\* The nearest attraction that is not on the path yet.
LEMMA NearestIn ==
    ASSUME NEW q \in Seq(Places), NoRepeat(q), NEW r \in OrdersOf(q), Len(r) \in 1..(Len(q) - 1)
    PROVE  Nearest(q, r) \in ToSet(q) \ ToSet(r)
<1> DEFINE m == Len(q)
           left == {i \in DOMAIN q : q[i] \notin ToSet(r)}
           key(i) == <<Distance(PlaceAt(Last(r)), PlaceAt(q[i])), i>>
           f == [i \in left |-> key(i)]
           first == {i \in left : \A j \in left : ~LexLess(key(j), key(i))}
<1>1. /\ m \in Nat /\ DOMAIN q = 1..m /\ \A i \in 1..m : q[i] \in Places
      /\ ToSet(q) = {q[i] : i \in 1..m}
      /\ r \in Seq(Places) /\ NoRepeat(r) /\ ToSet(r) \subseteq ToSet(q)
  BY LenProperties, ElementOfSeq, ToSetIn DEF OrdersOf
<1>2. left \subseteq 1..m /\ IsFiniteSet(left)
  <2>1. left \subseteq 1..m
    BY <1>1
  <2> HIDE DEF left
  <2> QED
    BY <1>1, <2>1, FiniteNumbers
<1>3. left # {}
  <2> SUFFICES ASSUME left = {} PROVE FALSE
    OBVIOUS
  <2>1. ToSet(q) \subseteq ToSet(r)
    BY <1>1
  <2>2. ToSet(q) = ToSet(r)
    BY <1>1, <2>1
  <2>3. Len(q) = Len(r)
    BY <1>1, <2>2, NoRepeatCounts
  <2> QED
    BY <1>1, <2>3
<1>4. Last(r) \in Places
  <2>1. Len(r) \in 1..Len(r)
    BY <1>1
  <2> QED
    BY <1>1, <2>1, ElementOfSeq DEF Last
<1>5. ASSUME NEW i \in left PROVE key(i) \in Keys(2)
  <2>1. PICK a \in Int : a = Distance(PlaceAt(Last(r)), PlaceAt(q[i]))
    <3>1. q[i] \in Places
      BY <1>1, <1>2
    <3> QED
      BY <1>4, <3>1, DistanceType
  <2>2. i \in Int
    BY <1>1, <1>2
  <2>3. <<a, i>> \in Seq(Int) /\ Len(<<a, i>>) = 2
    BY <2>2
  <2> QED
    BY <2>1, <2>3 DEF Keys
<1>6. f \in [left -> Keys(2)] /\ \A i \in left : f[i] = key(i)
  <2> HIDE DEF left, key
  <2> QED
    BY <1>5
<1>7. PICK a \in left : \A x \in left : ~LexLess(f[x], f[a])
  <2> HIDE DEF left, f, key
  <2> QED
    BY <1>2, <1>3, <1>6, SmallestKey
<1>8. a \in first
  <2> HIDE DEF left, f, key
  <2> QED
    BY <1>6, <1>7
<1>9. The(first) \in first
  <2> HIDE DEF first
  <2> QED
    BY <1>8 DEF The
<1>10. Nearest(q, r) = q[The(first)]
  BY DEF Nearest
<1>11. The(first) \in left
  <2>1. first \subseteq left
    OBVIOUS
  <2> HIDE DEF first, left
  <2> QED
    BY <1>9, <2>1
<1> HIDE DEF first
<1> QED
  BY <1>1, <1>10, <1>11

\* A path of different attractions, one longer.
LEMMA PathGrows ==
    ASSUME NEW q \in Seq(Places), NEW r \in OrdersOf(q), NEW p \in ToSet(q) \ ToSet(r)
    PROVE  Append(r, p) \in OrdersOf(q) /\ Len(Append(r, p)) = Len(r) + 1
<1> DEFINE k == Len(r)
           z == Append(r, p)
<1>1. r \in Seq(Places) /\ NoRepeat(r) /\ ToSet(r) \subseteq ToSet(q) /\ p \in Places /\ k \in Nat
      /\ ToSet(r) = {r[i] : i \in 1..k}
  BY ToSetIn, LenProperties DEF OrdersOf
<1>2. /\ z \in Seq(Places) /\ Len(z) = k + 1 /\ z[k + 1] = p /\ \A i \in 1..k : z[i] = r[i]
  BY <1>1, AppendProperties
<1> HIDE DEF z
<1>3. ToSet(z) = {z[i] : i \in 1..(k + 1)}
  BY <1>2, ToSetIn
<1>4. ASSUME NEW i \in 1..(k + 1) PROVE (i = k + 1 /\ z[i] = p) \/ (i \in 1..k /\ z[i] = r[i])
  <2>1. CASE i = k + 1
    <3>1. z[i] = p
      BY <1>2, <2>1, Zenon
    <3> QED
      BY <2>1, <3>1
  <2>2. CASE i # k + 1
    <3>1. i \in 1..k
      BY <1>1, <2>2
    <3>2. z[i] = r[i]
      BY <1>2, <3>1
    <3> QED
      BY <3>1, <3>2
  <2> QED
    BY <2>1, <2>2
<1>5. \A i \in 1..k : r[i] # p
  BY <1>1
<1>6. NoRepeat(z)
  <2> SUFFICES ASSUME NEW a \in 1..(k + 1), NEW b \in 1..(k + 1), z[a] = z[b] PROVE a = b
    BY <1>2 DEF NoRepeat
  <2>1. \A x, y \in 1..k : r[x] = r[y] => x = y
    BY <1>1 DEF NoRepeat
  <2> QED
    BY <1>4, <1>5, <2>1
<1>7. ToSet(z) \subseteq ToSet(q)
  BY <1>1, <1>3, <1>4
<1> QED
  BY <1>2, <1>6, <1>7 DEF OrdersOf, z

\* _nearest_neighbor visits no attraction twice.
LEMMA NearestNeighborType ==
    ASSUME NEW q \in Seq(Places), NoRepeat(q), q # <<>>
    PROVE  NearestNeighbor(q) \in OrdersOf(q)
<1> DEFINE m == Len(q)
           T == OrdersOf(q)
           grown(r) == Append(r, Nearest(q, r))
           one == <<q[1]>>
           step == [p \in T \X (1..m) |-> IF p[2] = 1 THEN one
                                          ELSE IF Len(p[1]) \in 1..(m - 1) THEN grown(p[1]) ELSE p[1]]
           Solves(g) == g = [i \in 1..m |-> IF i = 1 THEN one ELSE grown(g[i - 1])]
<1>0. m \in Nat /\ m >= 1 /\ q[1] \in ToSet(q) /\ q[1] \in Places
  <2>1. m \in Nat /\ m # 0
    BY EmptySeq, LenProperties
  <2>2. 1 \in 1..m
    BY <2>1
  <2> QED
    BY <2>1, <2>2, ElementOfSeq, ToSetIn
<1>b. one \in T /\ <<>> \in T /\ Len(one) = 1 /\ Len(<<>>) = 0
  <2>1. <<>> \in Seq(Places) /\ Len(<<>>) = 0 /\ ToSet(<<>>) = {}
    BY EmptySeq DEF ToSet
  <2>2. <<>> \in T
    BY <2>1 DEF OrdersOf, NoRepeat
  <2>3. Append(<<>>, q[1]) \in T /\ Len(Append(<<>>, q[1])) = 1
    <3>1. PICK e \in T : e = <<>>
      BY <2>2
    <3>2. q[1] \in ToSet(q) \ ToSet(e)
      BY <1>0, <2>1, <3>1
    <3>3. Append(e, q[1]) \in T /\ Len(Append(e, q[1])) = Len(e) + 1
      BY <3>2, PathGrows
    <3> QED
      BY <2>1, <3>1, <3>3
  <2>4. one = Append(<<>>, q[1])
    OBVIOUS
  <2> QED
    BY <2>1, <2>2, <2>3, <2>4
<1>c. \A r \in T : Len(r) \in 1..(m - 1) => grown(r) \in T /\ Len(grown(r)) = Len(r) + 1
  BY NearestIn, PathGrows
<1> HIDE DEF T, grown, one
<1>d. \A t \in T : \A i \in 1..m : step[<<t, i>>] = IF i = 1 THEN one
                                          ELSE IF Len(t) \in 1..(m - 1) THEN grown(t) ELSE t
  OBVIOUS
<1>1. IsStep(m, T, step)
  <2> HIDE DEF step
  <2> QED
    BY <1>b, <1>c, <1>d, ZenonT(40) DEF IsStep
<1>2. PICK h \in RunsOf(m, T, <<>>, step) : TRUE
  <2> HIDE DEF step, m
  <2>2. RunsOf(m, T, <<>>, step) # {}
    BY <1>0, <1>1, <1>b, RecursionUpTo
  <2> QED
    BY <2>2
<1>3. h \in [0..m -> T] /\ h[0] = <<>> /\ \A i \in 1..m : h[i - 1] \in T /\ h[i] = step[<<h[i - 1], i>>]
  <2> HIDE DEF step, m
  <2>1. h \in RunsOf(m, T, <<>>, step) /\ m \in Nat
    BY <1>0, <1>2
  <2> QED
    BY <2>1, RunValues
<1>4. \A i \in 1..m : h[i] = IF i = 1 THEN one
                              ELSE IF Len(h[i - 1]) \in 1..(m - 1) THEN grown(h[i - 1]) ELSE h[i - 1]
  <2> HIDE DEF step, m
  <2> TAKE i \in 1..m
  <2>1. PICK t \in T : t = h[i - 1]
    BY <1>3
  <2>2. h[i] = step[<<t, i>>]
    BY <1>3, <2>1
  <2> QED
    BY <1>d, <2>1, <2>2
<1> HIDE DEF step
<1>5. \A i \in 0..m : Len(h[i]) = i
  <2> DEFINE M == {i \in 0..m : Len(h[i]) = i}
  <2>1. 0 \in M
    BY <1>0, <1>3, <1>b
  <2>2. ASSUME NEW i \in 1..m, i - 1 \in M PROVE i \in M
    <3>1. CASE i = 1
      <4>1. h[1] = one
        BY <1>0, <1>4, <3>1
      <4> QED
        BY <1>0, <1>b, <3>1, <4>1
    <3>2. CASE i # 1
      <4>1. Len(h[i - 1]) = i - 1 /\ i - 1 \in 1..(m - 1) /\ h[i - 1] \in T
        BY <1>0, <1>3, <2>2, <3>2
      <4>2. h[i] = grown(h[i - 1])
        BY <1>4, <3>2, <4>1
      <4>3. Len(h[i]) = (i - 1) + 1
        BY <1>c, <4>1, <4>2
      <4> QED
        BY <1>0, <4>3
    <3> QED
      BY <3>1, <3>2
  <2>3. \A i \in 0..m : i \in M
    <3> HIDE DEF M, m
    <3> QED
      BY <1>0, <2>1, <2>2, InductionUpTo
  <2> QED
    BY <2>3
<1> DEFINE f == [i \in 1..m |-> h[i]]
<1>6. \A i \in 1..m : f[i] = IF i = 1 THEN one ELSE grown(f[i - 1])
  <2> TAKE i \in 1..m
  <2>1. CASE i = 1
    BY <1>4, <2>1
  <2>2. CASE i # 1
    <3>1. i - 1 \in 1..m /\ i - 1 \in 0..m /\ i - 1 \in 1..(m - 1)
      BY <1>0, <2>2
    <3>2. f[i] = h[i] /\ f[i - 1] = h[i - 1] /\ Len(h[i - 1]) = i - 1
      BY <1>5, <3>1
    <3>3. h[i] = grown(h[i - 1])
      BY <1>4, <2>2, <3>1, <3>2
    <3> QED
      BY <2>2, <3>2, <3>3
  <2> QED
    BY <2>1, <2>2
<1>7. Solves(f)
  <2>1. f = [i \in 1..m |-> f[i]]
    OBVIOUS
  <2> HIDE DEF f, m
  <2> QED
    BY <1>6, <2>1
<1>8. PICK g : g = (CHOOSE l : Solves(l)) /\ Solves(g)
  <2> HIDE DEF Solves, f
  <2> QED
    BY <1>7
<1>9. NearestNeighbor(q) = g[m]
  BY <1>8 DEF NearestNeighbor, one, grown
<1>10. \A i \in 1..m : g[i] = IF i = 1 THEN one ELSE grown(g[i - 1])
  BY <1>8
<1> HIDE DEF Solves, f
<1> DEFINE M == {i \in 0..m : i = 0 \/ (g[i] \in T /\ Len(g[i]) = i)}
<1>11. ASSUME NEW i \in 1..m, i - 1 \in M PROVE i \in M
  <2>1. CASE i = 1
    <3>1. g[1] = one
      BY <1>0, <1>10, <2>1
    <3> QED
      BY <1>0, <1>b, <2>1, <3>1
  <2>2. CASE i # 1
    <3>1. i - 1 # 0 /\ i - 1 \in 1..(m - 1)
      BY <1>0, <2>2
    <3>2. g[i - 1] \in T /\ Len(g[i - 1]) = i - 1
      BY <1>11, <3>1
    <3>3. g[i] = grown(g[i - 1])
      BY <1>10, <2>2
    <3>4. g[i] \in T /\ Len(g[i]) = (i - 1) + 1
      BY <1>c, <3>1, <3>2, <3>3
    <3> QED
      BY <1>0, <3>4
  <2> QED
    BY <2>1, <2>2
<1>12. m \in M
  <2>1. 0 \in M
    BY <1>0
  <2> HIDE DEF M, m
  <2>2. \A i \in 0..m : i \in M
    BY <1>0, <1>11, <2>1, InductionUpTo
  <2> QED
    BY <1>0, <2>2
<1> QED
  BY <1>0, <1>9, <1>12 DEF T

\* Part of a path turned round.
LEMMA TurnedIsOrder ==
    ASSUME NEW q \in Seq(Places), NoRepeat(q), NEW i \in 1..Len(q), NEW j \in i..Len(q)
    PROVE  [k \in DOMAIN q |-> IF k \in i..j THEN q[i + j - k] ELSE q[k]] \in OrdersOf(q)
<1> DEFINE m == Len(q)
           at(k) == IF k \in i..j THEN i + j - k ELSE k
           r == [k \in DOMAIN q |-> IF k \in i..j THEN q[i + j - k] ELSE q[k]]
<1>1. m \in Nat /\ DOMAIN q = 1..m /\ (\A k \in 1..m : q[k] \in Places) /\ ToSet(q) = {q[k] : k \in 1..m}
  BY LenProperties, ElementOfSeq, ToSetIn
<1>2. \A k \in 1..m : at(k) \in 1..m
  BY <1>1
<1>3. \A a, b \in 1..m : at(a) = at(b) => a = b
  BY <1>1
<1>4. \A k \in 1..m : r[k] = q[at(k)]
  BY <1>1
<1> HIDE DEF at
<1>5. r \in [1..m -> Places]
  <2>1. DOMAIN r = 1..m /\ r = [k \in 1..m |-> r[k]]
    BY <1>1
  <2>2. \A k \in 1..m : r[k] \in Places
    BY <1>1, <1>2, <1>4
  <2> HIDE DEF r
  <2> QED
    BY <2>1, <2>2
<1> HIDE DEF r
<1>6. r \in Seq(Places) /\ Len(r) = m
  <2> HIDE DEF m
  <2> QED
    BY <1>1, <1>5
<1>7. NoRepeat(r)
  <2> SUFFICES ASSUME NEW a \in 1..m, NEW b \in 1..m, r[a] = r[b] PROVE a = b
    BY <1>6 DEF NoRepeat
  <2>1. q[at(a)] = q[at(b)] /\ at(a) \in 1..m /\ at(b) \in 1..m
    BY <1>2, <1>4
  <2>2. at(a) = at(b)
    BY <2>1 DEF NoRepeat
  <2> QED
    BY <1>3, <2>2
<1>8. ToSet(r) \subseteq ToSet(q)
  <2>1. ToSet(r) = {r[k] : k \in 1..m}
    BY <1>6, ToSetIn
  <2> QED
    BY <1>1, <1>2, <1>4, <2>1
<1> QED
  BY <1>6, <1>7, <1>8 DEF OrdersOf, r

\* An attraction of a path put elsewhere.
LEMMA RelocatedIsOrder ==
    ASSUME NEW q \in Seq(Places), NoRepeat(q), NEW i \in 1..Len(q), NEW j \in 1..Len(q)
    PROVE  InsertAt(RemoveAt(q, i), j, q[i]) \in OrdersOf(q)
<1> DEFINE r == RemoveAt(q, i)
<1>1. /\ r \in Seq(Places) /\ NoRepeat(r) /\ ToSet(r) = ToSet(q) \ {q[i]} /\ Len(r) = Len(q) - 1
  BY SpotRemoved
<1>2. Len(q) \in Nat /\ q[i] \in Places /\ q[i] \in ToSet(q)
  BY LenProperties, ElementOfSeq, ToSetIn
<1> HIDE DEF r
<1>3. j \in 1..(Len(r) + 1) /\ q[i] \notin ToSet(r)
  BY <1>1, <1>2
<1>4. /\ InsertAt(r, j, q[i]) \in Seq(Places) /\ NoRepeat(InsertAt(r, j, q[i]))
      /\ ToSet(InsertAt(r, j, q[i])) = ToSet(r) \cup {q[i]}
  BY <1>1, <1>2, <1>3, SpotInserted
<1>5. ToSet(InsertAt(r, j, q[i])) \subseteq ToSet(q)
  BY <1>1, <1>2, <1>4
<1> QED
  BY <1>4, <1>5 DEF OrdersOf, r

Ranked(q) == [rank : Seq(Int), order : OrdersOf(q)]

\* _bounded_orders proposes orders of the day's attractions.
LEMMA BoundedOrdersType ==
    ASSUME NEW q \in Seq(Places), NoRepeat(q), Len(q) >= 3
    PROVE  BoundedOrders(q) \in Seq(Ranked(q))
<1> DEFINE n == Len(q)
           S == Ranked(q)
           turned(i, j) == [k \in DOMAIN q |-> IF k \in i..j THEN q[i + j - k] ELSE q[k]]
           t1(i, j) == [rank |-> <<3, i, i + j>>, order |-> turned(i + 1, i + j + 1)]
           two == [i \in 1..(n - 2) |-> [j \in 1..(n - i - 1) |-> t1(i, j)]]
           r1(i, j) == [rank |-> <<2, i, j>>, order |-> InsertAt(RemoveAt(q, i + 1), j + 1, q[i + 1])]
           re == [i \in 1..(n - 1) |-> [j \in 1..(n - 1) |-> r1(i, j)]]
           nn == [rank |-> <<1, 0, 0>>, order |-> NearestNeighbor(q)]
<1>0. n \in Nat /\ n >= 3 /\ n - 1 \in Nat /\ n - 2 \in Nat
  BY LenProperties
<1>1. \A i \in 1..(n - 2) : \A j \in 1..(n - i - 1) : t1(i, j) \in S
  <2> TAKE i \in 1..(n - 2)
  <2> TAKE j \in 1..(n - i - 1)
  <2>1. PICK a \in 1..n : a = i + 1
    BY <1>0
  <2>2. PICK b \in a..n : b = i + j + 1
    BY <1>0, <2>1
  <2>3. turned(a, b) \in OrdersOf(q)
    BY TurnedIsOrder
  <2>4. <<3, i, i + j>> \in Seq(Int)
    BY <1>0
  <2>5. t1(i, j) = [rank |-> <<3, i, i + j>>, order |-> turned(a, b)]
    BY <2>1, <2>2
  <2> HIDE DEF t1, turned
  <2> QED
    BY <2>3, <2>4, <2>5 DEF Ranked
<1>2. \A i \in 1..(n - 1) : \A j \in 1..(n - 1) : r1(i, j) \in S
  <2> TAKE i \in 1..(n - 1)
  <2> TAKE j \in 1..(n - 1)
  <2>1. PICK a \in 1..n : a = i + 1
    BY <1>0
  <2>2. PICK b \in 1..n : b = j + 1
    BY <1>0
  <2>3. InsertAt(RemoveAt(q, a), b, q[a]) \in OrdersOf(q)
    BY RelocatedIsOrder
  <2>4. <<2, i, j>> \in Seq(Int)
    BY <1>0
  <2>5. r1(i, j) = [rank |-> <<2, i, j>>, order |-> InsertAt(RemoveAt(q, a), b, q[a])]
    BY <2>1, <2>2
  <2> HIDE DEF r1
  <2> QED
    BY <2>3, <2>4, <2>5 DEF Ranked
<1>3. nn \in S
  <2>1. q # <<>>
    BY <1>0, EmptySeq
  <2>2. NearestNeighbor(q) \in OrdersOf(q)
    BY <2>1, NearestNeighborType
  <2>3. <<1, 0, 0>> \in Seq(Int)
    OBVIOUS
  <2> QED
    BY <2>2, <2>3 DEF Ranked
<1> HIDE DEF S, t1, r1, nn, turned
<1>4. two \in Seq(Seq(S))
  <2>1. \A i \in 1..(n - 2) : [j \in 1..(n - i - 1) |-> t1(i, j)] \in Seq(S)
    <3> TAKE i \in 1..(n - 2)
    <3>0. n - i - 1 \in Nat
      <4>1. i \in Int /\ i <= n - 2
        BY <1>0
      <4> HIDE DEF n
      <4> QED
        BY <1>0, <4>1
    <3>1. PICK m \in Nat : m = n - i - 1
      BY <3>0
    <3>2. [j \in 1..m |-> t1(i, j)] \in [1..m -> S]
      <4>1. \A j \in 1..m : t1(i, j) \in S
        BY <1>1, <3>1
      <4> QED
        BY <4>1
    <3>3. [j \in 1..m |-> t1(i, j)] \in Seq(S)
      BY <3>2
    <3> QED
      BY <3>1, <3>3
  <2>2. two \in [1..(n - 2) -> Seq(S)]
    BY <2>1
  <2>3. PICK m \in Nat : m = n - 2
    BY <1>0
  <2> HIDE DEF two
  <2> QED
    BY <2>2, <2>3
<1>5. re \in Seq(Seq(S))
  <2>3. PICK m \in Nat : m = n - 1
    BY <1>0
  <2>1. \A i \in 1..m : [j \in 1..m |-> r1(i, j)] \in Seq(S)
    <3> TAKE i \in 1..m
    <3>2. [j \in 1..m |-> r1(i, j)] \in [1..m -> S]
      BY <1>2, <2>3
    <3> QED
      BY <3>2
  <2>2. re \in [1..m -> Seq(S)]
    BY <2>1, <2>3
  <2> HIDE DEF re
  <2> QED
    BY <2>2
<1>6. FlattenSeq(two) \in Seq(S) /\ FlattenSeq(re) \in Seq(S) /\ <<nn>> \in Seq(S)
  <2> HIDE DEF two, re
  <2> QED
    BY <1>3, <1>4, <1>5, FlattenedIn
<1>7. BoundedOrders(q) = <<nn>> \o FlattenSeq(two) \o FlattenSeq(re)
  BY DEF BoundedOrders, nn, t1, r1, turned
<1> DEFINE a == <<nn>>
           b == FlattenSeq(two)
           c == FlattenSeq(re)
<1> HIDE DEF a, b, c
<1>8. a \o b \o c \in Seq(S)
  <2>1. a \in Seq(S) /\ b \in Seq(S) /\ c \in Seq(S)
    BY <1>6 DEF a, b, c
  <2>2. a \o b \in Seq(S)
    BY <2>1, ConcatProperties
  <2> QED
    BY <2>1, <2>2, ConcatProperties
<1> QED
  BY <1>7, <1>8 DEF a, b, c, S

DayOrders(w, n) == {c \in [day : 1..n, order : Seq(Places), rank : Seq(Int)] : c.order \in OrdersOf(w.spots[c.day])}

\* The orders that are considered.
LEMMA RouteOrdersType ==
    ASSUME NEW n \in Nat, NEW u \in TripsOf(n), EachOnce(u)
    PROVE  RouteOrders(u) \in Seq(DayOrders(u, n))
<1> DEFINE S == DayOrders(u, n)
           o(d) == BoundedOrders(u.spots[d])
           ofDay(d) == IF Len(u.spots[d]) < 3 THEN <<>>
                       ELSE [i \in DOMAIN o(d) |-> [day |-> d, order |-> o(d)[i].order, rank |-> o(d)[i].rank]]
           days == [d \in Days(u) |-> ofDay(d)]
           all == FlattenSeq(days)
           new == {i \in DOMAIN all :
                     /\ all[i].order # u.spots[all[i].day]
                     /\ \A j \in 1..(i - 1) : all[j].day # all[i].day \/ all[j].order # all[i].order}
<1>1. ASSUME NEW d \in 1..n PROVE ofDay(d) \in Seq(S)
  <2>1. CASE Len(u.spots[d]) < 3
    BY <2>1, EmptySeq
  <2>2. CASE ~(Len(u.spots[d]) < 3)
    <3> DEFINE b == o(d)
               e == [i \in DOMAIN b |-> [day |-> d, order |-> b[i].order, rank |-> b[i].rank]]
    <3>1. u.spots[d] \in Seq(Places) /\ NoRepeat(u.spots[d]) /\ Len(u.spots[d]) >= 3
      BY <2>2, TripDays, OnceByDays, LenProperties
    <3>2. b \in Seq(Ranked(u.spots[d]))
      BY <3>1, BoundedOrdersType
    <3> HIDE DEF o
    <3> HIDE DEF b
    <3>3. DOMAIN b = 1..Len(b) /\ Len(b) \in Nat /\ \A i \in 1..Len(b) : b[i] \in Ranked(u.spots[d])
      BY <3>2, LenProperties, ElementOfSeq
    <3>4. \A i \in 1..Len(b) : [day |-> d, order |-> b[i].order, rank |-> b[i].rank] \in S
      <4> TAKE i \in 1..Len(b)
      <4>1. b[i].order \in OrdersOf(u.spots[d]) /\ b[i].rank \in Seq(Int)
        BY <3>3 DEF Ranked
      <4>2. b[i].order \in Seq(Places)
        BY <4>1 DEF OrdersOf
      <4> QED
        BY <4>1, <4>2 DEF DayOrders
    <3> HIDE DEF S
    <3>5. e \in [1..Len(b) -> S]
      BY <3>3, <3>4
    <3>6. e \in Seq(S)
      <4> HIDE DEF e
      <4> QED
        BY <3>3, <3>5
    <3>7. ofDay(d) = e
      BY <2>2 DEF b
    <3> HIDE DEF ofDay, e
    <3> QED
      BY <3>6, <3>7
  <2> QED
    BY <2>1, <2>2
<1> HIDE DEF S, ofDay
<1>2. days \in Seq(Seq(S))
  <2>1. Days(u) = 1..n
    BY TripDays
  <2>2. days \in [1..n -> Seq(S)]
    BY <1>1, <2>1
  <2> HIDE DEF days
  <2> QED
    BY <2>2
<1>3. all \in Seq(S)
  <2> HIDE DEF days
  <2> QED
    BY <1>2, FlattenedIn
<1>4. RouteOrders(u) = Prefix(Selected(all, new), MaxCandidates)
  BY DEF RouteOrders, ofDay
<1> HIDE DEF all, new
<1>5. Selected(all, new) \in Seq(S) /\ MaxCandidates \in Int
  BY <1>3, SelectedLists, OptimizerAssumption DEF CandidatesAccepted
<1>6. Prefix(Selected(all, new), MaxCandidates) \in Seq(S)
  <2> DEFINE x == Selected(all, new)
  <2> HIDE DEF x
  <2>1. x \in Seq(S)
    BY <1>5 DEF x
  <2>2. Prefix(x, MaxCandidates) \in Seq(S)
    BY <1>5, <2>1, PrefixIn
  <2> QED
    BY <2>2 DEF x
<1> QED
  BY <1>4, <1>6 DEF S

\* The candidate of the route optimizer visits the same attractions on the same days.
LEMMA RouteCandidateType ==
    ASSUME NEW n \in Nat, NEW w, NEW K, NEW u \in PlansLike(w, n, K)
    PROVE  RouteCandidate(u) \subseteq PlansLike(w, n, K)
<1> DEFINE P == PlansLike(w, n, K)
           shorter == {c \in ToSet(RouteOrders(u)) : PathDistance(c.order) < PathDistance(u.spots[c.day])}
           C == {[key |-> <<PathDistance(c.order), c.day>> \o c.rank, plan |-> WithDay(u, c.day, c.order)] : c \in shorter}
<1>1. u \in TripsOf(n) /\ EachOnce(u)
  BY DEF PlansLike
<1>2. ToSet(RouteOrders(u)) \subseteq DayOrders(u, n)
  BY <1>1, RouteOrdersType, ToSetIn
<1>3. ASSUME NEW c \in shorter PROVE WithDay(u, c.day, c.order) \in P
  <2>1. c \in DayOrders(u, n)
    BY <1>2
  <2>2. c.day \in 1..n /\ c.order \in Seq(Places) /\ NoRepeat(c.order)
        /\ ToSet(c.order) \subseteq ToSet(u.spots[c.day])
    BY <2>1 DEF DayOrders, OrdersOf
  <2> QED
    BY <2>2, DayArranged
<1>4. \A x \in C : x.plan \in P
  <2> HIDE DEF shorter, P
  <2> TAKE x \in C
  <2>1. PICK c \in shorter :
           x = [key |-> <<PathDistance(c.order), c.day>> \o c.rank, plan |-> WithDay(u, c.day, c.order)]
    OBVIOUS
  <2>2. x.plan = WithDay(u, c.day, c.order)
    BY <2>1
  <2> QED
    BY <1>3, <2>2
<1>5. RouteCandidate(u) = BestPlan(C)
  BY DEF RouteCandidate
<1> HIDE DEF C
<1> QED
  BY <1>4, <1>5, BestPlanIn

\* A move or the removals of the schedule optimizer.
LEMMA ScheduleCandidateType ==
    ASSUME NEW n \in Nat, NEW w, NEW K, NEW u \in PlansLike(w, n, K), NEW worst, worst \subseteq 1..n
    PROVE  ScheduleCandidate(Costed(u, <<>>), worst) \subseteq PlansLike(w, n, K)
<1> DEFINE P == PlansLike(w, n, K)
<1>0. PICK c : c = Costed(u, <<>>)
  OBVIOUS
<1>1. c.plan = u /\ c.days = Schedule(u, NoRoads)
      /\ c.key = <<ScheduleTotals(Schedule(u, NoRoads)).cost>> \o <<>>
  BY <1>0, CostedPlan
<1>2. c.key[1] \in Int
  <2>1. PICK a \in Int : a = ScheduleTotals(Schedule(u, NoRoads)).cost
    BY ApproximateDays DEF PlansLike
  <2>2. c.key = <<a>> \o <<>>
    BY <1>1, <2>1
  <2>3. (<<a>> \o <<>>)[1] = a
    OBVIOUS
  <2> QED
    BY <2>2, <2>3
<1>3. Reduced(c).plan \in P
  BY <1>1, <1>2, ReducedPlan
<1>4. BestPlan(UNION {ScheduleMoves(c.plan, d, c.key[1]) : d \in worst}) \subseteq P
  <2> DEFINE C == UNION {ScheduleMoves(c.plan, d, c.key[1]) : d \in worst}
  <2>1. \A x \in C : x.plan \in P
    BY <1>1, ScheduleMovesType
  <2> HIDE DEF C, P
  <2>2. BestPlan(C) \subseteq P
    BY <2>1, BestPlanIn
  <2> QED
    BY <2>2 DEF C
<1>5. {r.plan : r \in {x \in {Reduced(c)} : x.cost < c.key[1]}} \subseteq P
  BY <1>3
<1>6. ScheduleCandidate(c, worst) \subseteq P
  BY <1>4, <1>5 DEF ScheduleCandidate, OrElse
<1> QED
  BY <1>0, <1>6

-----------------------------------------------------------------------------
(* Issues and their order.                                                 *)

Codes == {"lunch", "meal", "shut", "hours", "period", "load", "weather"}
IssuesOf(n) == [code : Codes, day : 1..n, spot : Int]

\* The issues of a day are finitely many and name attractions that exist.
LEMMA DayIssuesType ==
    ASSUME NEW n \in Nat, NEW w \in TripsOf(n), NEW d \in 1..n, NEW t, NEW K
    PROVE  /\ IsFiniteSet(DayIssues(w, d, t, K))
           /\ \A x \in DayIssues(w, d, t, K) :
                 /\ x \in IssuesOf(n) /\ x.day = d
                 /\ x.code = "hours" => x.spot \in DOMAIN w.spots[d]
<1> DEFINE a == Len(w.meals[d])
           b == Len(w.spots[d])
           D == Codes \X ((0 - a)..b)
           f == [y \in D |-> Issue(y[1], d, y[2])]
           V == {f[y] : y \in D}
<1>1. a \in Nat /\ b \in Nat /\ DOMAIN w.meals[d] = 1..a /\ DOMAIN w.spots[d] = 1..b
  BY TripDays, LenProperties
<1> HIDE DEF a, b
<1>2. IsFiniteSet(V)
  <2>1. IsFiniteSet((0 - a)..b)
    BY <1>1, FS_Interval
  <2>2. IsFiniteSet(Codes)
    <3>1. IsFiniteSet({"lunch"})
      BY FS_Singleton
    <3>2. IsFiniteSet({"lunch", "meal"})
      BY <3>1, FS_AddElement, {"lunch"} \cup {"meal"} = {"lunch", "meal"}
    <3>3. IsFiniteSet({"lunch", "meal", "shut"})
      BY <3>2, FS_AddElement, {"lunch", "meal"} \cup {"shut"} = {"lunch", "meal", "shut"}
    <3>4. IsFiniteSet({"lunch", "meal", "shut", "hours"})
      BY <3>3, FS_AddElement, {"lunch", "meal", "shut"} \cup {"hours"} = {"lunch", "meal", "shut", "hours"}
    <3>5. IsFiniteSet({"period"})
      BY FS_Singleton
    <3>6. IsFiniteSet({"period", "load"})
      BY <3>5, FS_AddElement, {"period"} \cup {"load"} = {"period", "load"}
    <3>7. IsFiniteSet({"period", "load", "weather"})
      BY <3>6, FS_AddElement, {"period", "load"} \cup {"weather"} = {"period", "load", "weather"}
    <3>8. Codes = {"lunch", "meal", "shut", "hours"} \cup {"period", "load", "weather"}
      BY DEF Codes
    <3> QED
      BY <3>4, <3>7, <3>8, FS_Union
  <2>3. IsFiniteSet(D)
    BY <2>1, <2>2, FS_Product
  <2>4. f = [y \in D |-> f[y]]
    OBVIOUS
  <2> HIDE DEF D, f
  <2> QED
    BY <2>3, <2>4, FiniteValues
<1>3. ASSUME NEW c \in Codes, NEW i \in (0 - a)..b PROVE Issue(c, d, i) \in V
  <2>1. <<c, i>> \in D
    OBVIOUS
  <2>2. f[<<c, i>>] = Issue(c, d, i)
    BY <2>1
  <2> HIDE DEF D, f
  <2> QED
    BY <2>1, <2>2
<1>4. \A x \in V : x \in IssuesOf(n) /\ x.day = d
  <2> TAKE x \in V
  <2>1. PICK c \in Codes, i \in (0 - a)..b : x = Issue(c, d, i)
    BY DEF D
  <2> QED
    BY <1>1, <2>1 DEF Issue, IssuesOf
<1>5. ASSUME NEW x \in HoursIssues(w, d, t, K)
      PROVE  x \in V /\ x.spot \in 1..b
  <2>1. PICK i \in 1..b : x = Issue("shut", d, i) \/ x = Issue("hours", d, i)
    BY <1>1 DEF HoursIssues
  <2>2. x.spot = i
    BY <2>1 DEF Issue
  <2>3. x \in V
    <3> HIDE DEF V
    <3> QED
      BY <1>1, <1>3, <2>1 DEF Codes
  <2> QED
    BY <2>2, <2>3
<1> HIDE DEF V
<1>6. \A x \in DayIssues(w, d, t, K) :
         \/ x \in HoursIssues(w, d, t, K)
         \/ x = Issue("lunch", d, 0)
         \/ \E i \in 1..b : x = Issue("period", d, i) \/ x = Issue("weather", d, i)
         \/ \E i \in 1..a : x = Issue("meal", d, -i)
         \/ x = Issue("load", d, b)
  BY <1>1 DEF DayIssues, b
<1>7. ASSUME NEW x \in DayIssues(w, d, t, K)
      PROVE  x \in V /\ (x.code = "hours" => x.spot \in DOMAIN w.spots[d])
  <2>1. CASE x \in HoursIssues(w, d, t, K)
    BY <1>1, <1>5, <2>1
  <2>2. CASE x = Issue("lunch", d, 0)
    BY <1>1, <1>3, <2>2 DEF Codes, Issue
  <2>3. ASSUME NEW i \in 1..b, x = Issue("period", d, i) \/ x = Issue("weather", d, i)
        PROVE  x \in V /\ x.code # "hours"
    BY <1>1, <1>3, <2>3 DEF Codes, Issue
  <2>4. ASSUME NEW i \in 1..a, x = Issue("meal", d, -i) PROVE x \in V /\ x.code # "hours"
    <3>1. -i \in (0 - a)..b
      BY <1>1
    <3> QED
      BY <1>3, <2>4, <3>1 DEF Codes, Issue
  <2>5. CASE x = Issue("load", d, b)
    BY <1>1, <1>3, <2>5 DEF Codes, Issue
  <2> QED
    BY <1>6, <2>1, <2>2, <2>3, <2>4, <2>5
<1>8. IsFiniteSet(DayIssues(w, d, t, K))
  BY <1>2, <1>7, FS_Subset
<1> QED
  BY <1>4, <1>7, <1>8

\* The issues of a plan.
LEMMA IssuesType ==
    ASSUME NEW n \in Nat, NEW w \in TripsOf(n), NEW s, NEW K
    PROVE  /\ IsFiniteSet(Issues(w, s, K)) /\ Issues(w, s, K) \subseteq IssuesOf(n)
           /\ \A x \in Issues(w, s, K) : x.code = "hours" => x.spot \in DOMAIN w.spots[x.day]
<1> DEFINE g == [d \in 1..n |-> DayIssues(w, d, s[d], K)]
           G == {g[d] : d \in 1..n}
<1>1. Issues(w, s, K) = UNION G
  BY TripDays DEF Issues
<1>2. IsFiniteSet(G)
  <2>1. g = [d \in 1..n |-> g[d]]
    OBVIOUS
  <2>2. IsFiniteSet(1..n)
    BY FS_Interval
  <2> HIDE DEF g
  <2> QED
    BY <2>1, <2>2, FiniteValues
<1>3. \A I \in G : IsFiniteSet(I)
  BY DayIssuesType
<1>4. ASSUME NEW x \in Issues(w, s, K)
      PROVE  x \in IssuesOf(n) /\ (x.code = "hours" => x.spot \in DOMAIN w.spots[x.day])
  <2>1. PICK d \in 1..n : x \in DayIssues(w, d, s[d], K)
    BY <1>1
  <2> QED
    BY <2>1, DayIssuesType
<1>5. IsFiniteSet(UNION G)
  <2> HIDE DEF G
  <2> QED
    BY <1>2, <1>3, FS_UNION
<1> QED
  BY <1>1, <1>4, <1>5

\* Keys that differ rank the elements of a finite set.
IsKeying(k, S, m) == k \in [S -> Keys(m)] /\ \A x, y \in S : k[x] = k[y] => x = y
Lower(k, S, x) == {y \in S : LexLess(k[y], k[x])}

\* Where keys differ, every rank is that of one element: the sorted list is a bijection.
LEMMA KeyRanks ==
    ASSUME NEW S, IsFiniteSet(S), NEW m \in Nat, NEW k, IsKeying(k, S, m)
    PROVE  /\ \A i \in 1..Cardinality(S) : \E x \in S : Cardinality(Lower(k, S, x)) = i - 1
           /\ \A x \in S : \E i \in 1..Cardinality(S) : Cardinality(Lower(k, S, x)) = i - 1
           /\ \A x, y \in S : Cardinality(Lower(k, S, x)) = Cardinality(Lower(k, S, y)) => x = y
<1> DEFINE R == {e \in S \X S : LexLess(k[e[1]], k[e[2]])}
<1>1. \A x, y \in S : <<x, y>> \in R <=> LexLess(k[x], k[y])
  OBVIOUS
<1>2. \A x \in S : k[x] \in Keys(m)
  BY DEF IsKeying
<1> HIDE DEF R
<1>3. IsStrictOrder(S, R)
  <2>1. \A x \in S : <<x, x>> \notin R
    BY <1>1, <1>2, LexIrreflexive
  <2>2. ASSUME NEW x \in S, NEW y \in S, NEW z \in S, <<x, y>> \in R, <<y, z>> \in R PROVE <<x, z>> \in R
    <3>1. LexLess(k[x], k[y]) /\ LexLess(k[y], k[z])
      BY <1>1, <2>2
    <3>2. LexLess(k[x], k[z])
      BY <1>2, <3>1, LexTransitive
    <3> QED
      BY <1>1, <3>2
  <2>3. ASSUME NEW x \in S, NEW y \in S, x # y PROVE <<x, y>> \in R \/ <<y, x>> \in R
    <3>1. k[x] # k[y]
      BY <2>3 DEF IsKeying
    <3>2. LexLess(k[x], k[y]) \/ LexLess(k[y], k[x])
      BY <1>2, <3>1, LexTotal
    <3> QED
      BY <1>1, <3>2
  <2> QED
    BY <2>1, <2>2, <2>3 DEF IsStrictOrder
<1>4. \A x \in S : Below(S, R, x) = Lower(k, S, x)
  BY <1>1 DEF Below, Lower
<1> QED
  BY <1>3, <1>4, Ranks

-----------------------------------------------------------------------------
(* Candidates of the constraint optimizer.                                 *)

\* The issues as the constraint optimizer takes them up.
LEMMA ActionableType ==
    ASSUME NEW n \in Nat, NEW S, IsFiniteSet(S), S \subseteq IssuesOf(n)
    PROVE  Actionable(S) \in Seq(S)
<1> DEFINE key(x) == <<IF IsError(x) THEN 0 ELSE 1, -Penalty[x.code], x.day,
                       IF x.spot <= 0 THEN 1000000 ELSE x.spot, -x.spot>>
           k == [x \in S |-> key(x)]
           q == Actionable(S)
           N == Cardinality(S)
<1>1. ASSUME NEW x \in S
      PROVE  /\ Penalty[x.code] \in Int /\ x.day \in Int /\ x.spot \in Int /\ x.code \in Codes
  BY DEF IssuesOf, Penalty, Codes
<1>2. ASSUME NEW x \in S PROVE key(x) \in Keys(5)
  <2>1. PICK a \in Int : a = IF IsError(x) THEN 0 ELSE 1
    OBVIOUS
  <2>2. PICK b \in Int : b = IF x.spot <= 0 THEN 1000000 ELSE x.spot
    BY <1>1
  <2>3. PICK c \in Int : c = -Penalty[x.code]
    BY <1>1
  <2>4. PICK e \in Int : e = -x.spot
    BY <1>1
  <2>5. key(x) = <<a, c, x.day, b, e>>
    BY <2>1, <2>2, <2>3, <2>4
  <2>6. <<a, c, x.day, b, e>> \in Keys(5)
    BY <1>1 DEF Keys
  <2> HIDE DEF key
  <2> QED
    BY <2>5, <2>6
<1>3. ASSUME NEW x \in S, NEW y \in S, key(x) = key(y) PROVE x = y
  <2>1. Penalty[x.code] = Penalty[y.code] /\ x.day = y.day /\ x.spot = y.spot
    <3>1. key(x)[2] = key(y)[2] /\ key(x)[3] = key(y)[3] /\ key(x)[5] = key(y)[5]
      BY <1>3
    <3>2. -Penalty[x.code] = -Penalty[y.code] /\ x.day = y.day /\ -x.spot = -y.spot
      BY <3>1
    <3> QED
      BY <1>1, <3>2
  <2>2. x.code = y.code
    BY <1>1, <2>1 DEF Penalty, Codes
  <2>3. x \in IssuesOf(n) /\ y \in IssuesOf(n)
    OBVIOUS
  <2> QED
    BY <2>1, <2>2, <2>3 DEF IssuesOf
<1> HIDE DEF key
<1>4. IsKeying(k, S, 5)
  BY <1>2, <1>3 DEF IsKeying
<1>5. N \in Nat
  BY FS_CardinalityType
<1>6. \A i \in 1..N : \E x \in S : Cardinality(Lower(k, S, x)) = i - 1
  <2> HIDE DEF k
  <2> QED
    BY <1>4, KeyRanks
<1> DEFINE A(x) == {y \in S : LexLess(key(y), key(x))}
<1>7. \A x \in S : A(x) = Lower(k, S, x)
  BY DEF Lower
<1>8. q = [i \in 1..N |-> CHOOSE x \in S : Cardinality(A(x)) = i - 1]
  BY DEF Actionable, Sorted, key
<1> HIDE DEF A, k, N, q
<1>9. \A i \in 1..N : q[i] \in S
  BY <1>6, <1>7, <1>8
<1>10. q \in [1..N -> S]
  BY <1>8, <1>9
<1>11. q \in Seq(S)
  BY <1>5, <1>10
<1> QED
  BY <1>11 DEF q

\* The conflicts with opening hours, each once, in the order of the plan.
LEMMA InPlanOrderLists ==
    ASSUME NEW n \in Nat, NEW S, IsFiniteSet(S), S \subseteq IssuesOf(n),
           \A x \in S : x.code = "hours"
    PROVE  /\ Cardinality(S) \in Nat /\ InPlanOrder(S) \in [1..Cardinality(S) -> S]
           /\ \A x \in S : \E i \in 1..Cardinality(S) : InPlanOrder(S)[i] = x
<1> DEFINE k == [x \in S |-> <<x.day, x.spot>>]
           q == InPlanOrder(S)
           N == Cardinality(S)
<1>1. \A x \in S : x \in IssuesOf(n) /\ x.day \in Int /\ x.spot \in Int
  BY DEF IssuesOf
<1>2. IsKeying(k, S, 2)
  <2>1. \A x \in S : <<x.day, x.spot>> \in Keys(2)
    BY <1>1 DEF Keys
  <2>2. ASSUME NEW x \in S, NEW y \in S, k[x] = k[y] PROVE x = y
    <3>1. x.day = y.day /\ x.spot = y.spot /\ x.code = y.code
      BY <2>2
    <3> QED
      BY <1>1, <3>1 DEF IssuesOf
  <2> QED
    BY <2>1, <2>2 DEF IsKeying
<1>3. N \in Nat
  BY FS_CardinalityType
<1> DEFINE A(x) == {y \in S : LexLess(<<y.day, y.spot>>, <<x.day, x.spot>>)}
<1>4. \A x \in S : A(x) = Lower(k, S, x)
  BY DEF Lower
<1>5. q = [i \in 1..N |-> CHOOSE x \in S : Cardinality(A(x)) = i - 1]
  BY DEF InPlanOrder, Sorted
<1> HIDE DEF A, k, N, q
<1>6. /\ \A i \in 1..N : \E x \in S : Cardinality(A(x)) = i - 1
      /\ \A x \in S : \E i \in 1..N : Cardinality(A(x)) = i - 1
      /\ \A x, y \in S : Cardinality(A(x)) = Cardinality(A(y)) => x = y
  BY <1>2, <1>4, KeyRanks DEF N
<1>7. \A i \in 1..N : q[i] \in S /\ Cardinality(A(q[i])) = i - 1
  BY <1>5, <1>6
<1>8. q \in [1..N -> S]
  BY <1>5, <1>7
<1>9. ASSUME NEW x \in S PROVE \E i \in 1..N : q[i] = x
  <2>1. PICK i \in 1..N : Cardinality(A(x)) = i - 1
    BY <1>6
  <2>2. q[i] \in S /\ Cardinality(A(q[i])) = i - 1
    BY <1>7
  <2> QED
    BY <1>6, <2>1, <2>2
<1> QED
  BY <1>3, <1>8, <1>9 DEF q, N

\* Behind an element of L come only elements of L.
GoLast(q, L) == \A i, j \in 1..Len(q) : i < j /\ q[i] \in L => q[j] \in L

\* An attraction of a day moved to its end.
LEMMA MovedToEnd ==
    ASSUME NEW q \in Seq(Places), NoRepeat(q), NEW p \in ToSet(q), NEW L, GoLast(q, L)
    PROVE  \E r \in Seq(Places) :
              /\ r = Append(Selected(q, {i \in DOMAIN q : q[i] # p}), p)
              /\ NoRepeat(r) /\ ToSet(r) = ToSet(q) /\ GoLast(r, L \cup {p})
<1> DEFINE I == {i \in DOMAIN q : q[i] # p}
           s == Selected(q, I)
           r == Append(s, p)
<1>1. DOMAIN q = 1..Len(q) /\ Len(q) \in Nat /\ p \in Places /\ ToSet(q) = {q[i] : i \in 1..Len(q)}
  BY ToSetIn, LenProperties
<1>2. I \cap 1..Len(q) = I /\ I \subseteq 1..Len(q) /\ \A i \in 1..Len(q) : i \in I <=> q[i] # p
  BY <1>1
<1> HIDE DEF I
<1>3. s \in Seq(Places) /\ NoRepeat(s) /\ ToSet(s) = {q[i] : i \in I}
  BY <1>2, SelectedOnce
<1>4. PICK m : IsSelection(s, q, I, m)
  BY SelectedLists
<1>5. /\ Len(s) = Len(m) /\ Len(m) \in Nat
      /\ \A i \in 1..Len(s) : m[i] \in 1..Len(q) /\ s[i] = q[m[i]] /\ s[i] # p
      /\ \A i, j \in 1..Len(s) : i < j => m[i] < m[j]
  <2>1. m \in Seq(I) /\ Len(s) = Len(m) /\ \A i \in 1..Len(m) : s[i] = q[m[i]]
    BY <1>2, <1>4 DEF IsSelection
  <2>2. Len(m) \in Nat /\ \A i \in 1..Len(m) : m[i] \in I
    BY <2>1, LenProperties, ElementOfSeq
  <2>3. \A i, j \in 1..Len(m) : i < j => m[i] < m[j]
    BY <1>4 DEF IsSelection, Increasing
  <2> QED
    BY <1>2, <2>1, <2>2, <2>3
<1> HIDE DEF s
<1>6. /\ r \in Seq(Places) /\ Len(r) = Len(s) + 1 /\ r[Len(s) + 1] = p
      /\ \A i \in 1..Len(s) : r[i] = s[i]
  BY <1>1, <1>3, AppendProperties
<1> HIDE DEF r
<1>7. NoRepeat(r)
  <2> SUFFICES ASSUME NEW i \in 1..Len(r), NEW j \in 1..Len(r), r[i] = r[j] PROVE i = j
    BY DEF NoRepeat
  <2>1. CASE i \in 1..Len(s) /\ j \in 1..Len(s)
    BY <1>3, <1>6, <2>1 DEF NoRepeat
  <2>2. CASE i = Len(s) + 1 /\ j \in 1..Len(s)
    BY <1>5, <1>6, <2>2
  <2>3. CASE j = Len(s) + 1 /\ i \in 1..Len(s)
    BY <1>5, <1>6, <2>3
  <2> QED
    BY <1>5, <1>6, <2>1, <2>2, <2>3
<1>8. ToSet(r) = ToSet(q)
  <2>1. ToSet(r) = {r[i] : i \in 1..Len(r)} /\ ToSet(s) = {s[i] : i \in 1..Len(s)}
    BY <1>3, <1>6, ToSetIn
  <2>2. ToSet(r) = ToSet(s) \cup {p}
    <3>1. 1..Len(r) = (1..Len(s)) \cup {Len(s) + 1}
      BY <1>5, <1>6
    <3> QED
      BY <1>6, <2>1, <3>1
  <2>3. ToSet(q) = {q[i] : i \in I} \cup {p}
    BY <1>1, <1>2
  <2> QED
    BY <1>3, <2>2, <2>3
<1>9. GoLast(r, L \cup {p})
  <2> SUFFICES ASSUME NEW i \in 1..Len(r), NEW j \in 1..Len(r), i < j, r[i] \in L \cup {p}
               PROVE  r[j] \in L \cup {p}
    BY DEF GoLast
  <2>1. i \in 1..Len(s)
    BY <1>5, <1>6
  <2>2. CASE j = Len(s) + 1
    BY <1>6, <2>2
  <2>3. CASE j \in 1..Len(s)
    <3>1. m[i] \in 1..Len(q) /\ m[j] \in 1..Len(q) /\ m[i] < m[j]
      BY <1>5, <2>1, <2>3
    <3>2. q[m[i]] \in L
      BY <1>5, <1>6, <2>1
    <3>3. q[m[j]] \in L
      BY <3>1, <3>2 DEF GoLast
    <3> QED
      BY <1>5, <1>6, <2>3, <3>3
  <2> QED
    BY <1>5, <1>6, <2>2, <2>3
<1> QED
  BY <1>6, <1>7, <1>8, <1>9 DEF r, s, I

\* The attraction that is found for p, the first alike, has the id or the name of p.
LEMMA FirstAlikeIn ==
    ASSUME NEW q \in Seq(Places), NEW p \in ToSet(q)
    PROVE  \E i \in 1..Len(q) : i = FirstAlike(q, p) /\ SameAttraction(q[i], p)
<1> DEFINE T == {i \in DOMAIN q : SameAttraction(q[i], p)}
           F == {i \in DOMAIN q : SameAttraction(q[i], p) /\ \A j \in 1..(i - 1) : ~SameAttraction(q[j], p)}
<1>1. DOMAIN q = 1..Len(q) /\ Len(q) \in Nat /\ ToSet(q) = {q[i] : i \in 1..Len(q)}
  BY ToSetIn, LenProperties
<1>2. T # {} /\ T \subseteq Nat
  <2>1. PICK i \in 1..Len(q) : q[i] = p
    BY <1>1
  <2>2. SameAttraction(q[i], p)
    BY <2>1 DEF SameAttraction
  <2> QED
    BY <1>1, <2>2
<1>3. PICK i \in T : \A j \in T : i <= j
  <2> HIDE DEF T
  <2> QED
    BY <1>2, LeastNatural
<1>4. i \in F
  <2>1. \A j \in 1..(i - 1) : j \in DOMAIN q /\ ~(i <= j)
    BY <1>1
  <2> QED
    BY <1>3, <2>1
<1>5. FirstAlike(q, p) \in F
  <2>1. FirstAlike(q, p) = CHOOSE c \in F : TRUE
    BY DEF FirstAlike, The
  <2> HIDE DEF F
  <2> QED
    BY <1>4, <2>1
<1> QED
  BY <1>1, <1>5

\* A day without two attractions of one name.
NamesDiffer(q) == \A a, b \in ToSet(q) : Spot[a].name = Spot[b].name => a = b

IsToEnd(z, v, n, d, p) ==
    /\ z = ToEnd(v, d, p) /\ \A e \in 1..n : ToSet(z.spots[e]) = ToSet(v.spots[e])
    /\ \A e \in 1..n : e # d => z.spots[e] = v.spots[e]
    /\ NamesDiffer(v.spots[d]) => \A L : GoLast(v.spots[d], L) => GoLast(z.spots[d], L \cup {p})

\* One conflict goes to the end of its day.
LEMMA ToEndPlan ==
    ASSUME NEW n \in Nat, NEW w, NEW K, NEW v \in PlansLike(w, n, K), NEW d \in 1..n, NEW p \in ToSet(v.spots[d])
    PROVE  \E z \in PlansLike(w, n, K) : IsToEnd(z, v, n, d, p)
<1> DEFINE q == v.spots[d]
           k == FirstAlike(q, p)
           x == q[k]
           r == Append(Selected(q, {i \in DOMAIN q : q[i] # x}), x)
<1>1. v \in TripsOf(n) /\ EachOnce(v)
  BY DEF PlansLike
<1>2. q \in Seq(Places) /\ NoRepeat(q) /\ p \in ToSet(q)
  BY <1>1, TripDays, OnceByDays
<1>k. k \in 1..Len(q) /\ SameAttraction(x, p) /\ x \in ToSet(q)
  <2> HIDE DEF q
  <2>1. k \in 1..Len(q) /\ SameAttraction(q[k], p)
    BY <1>2, FirstAlikeIn
  <2>2. ToSet(q) = {q[i] : i \in 1..Len(q)}
    BY <1>2, ToSetIn
  <2> QED
    BY <2>1, <2>2
<1>r. ToEnd(v, d, p) = WithDay(v, d, r)
  <2>1. ToEnd(v, d, p) = WithDay(v, d, Append(Selected(q, DOMAIN q \ {k}), q[k]))
    BY DEF ToEnd
  <2>2. DOMAIN q \ {k} = {i \in DOMAIN q : q[i] # x}
    <3> HIDE DEF q
    <3>1. DOMAIN q = 1..Len(q)
      BY <1>2, LenProperties
    <3> HIDE DEF k
    <3> QED
      BY <1>2, <1>k, <3>1 DEF NoRepeat
  <2> HIDE DEF q, k
  <2> QED
    BY <2>1, <2>2
<1>n. ASSUME NamesDiffer(q) PROVE x = p
  <2> HIDE DEF x, q
  <2> QED
    BY <1>2, <1>k, <1>n DEF NamesDiffer, SameAttraction
<1> HIDE DEF q, k, x
<1>3. GoLast(q, {})
  BY DEF GoLast
<1>4. r \in Seq(Places) /\ NoRepeat(r) /\ ToSet(r) = ToSet(q)
  BY <1>2, <1>3, <1>k, MovedToEnd
<1>5. ASSUME NamesDiffer(q), NEW L, GoLast(q, L) PROVE GoLast(r, L \cup {p})
  <2>1. GoLast(r, L \cup {x})
    BY <1>2, <1>5, <1>k, MovedToEnd
  <2>2. x = p
    BY <1>5, <1>n
  <2>3. L \cup {x} = L \cup {p}
    BY <2>2
  <2> HIDE DEF r
  <2> QED
    BY <2>1, <2>3
<1> HIDE DEF r
<1>6. PICK z \in PlansLike(w, n, K) :
         /\ z = WithDay(v, d, r) /\ z.spots[d] = r
         /\ \A e \in 1..n : e # d => z.spots[e] = v.spots[e]
  <2>1. ToSet(r) = ToSet(v.spots[d])
    BY <1>4 DEF q
  <2> QED
    BY <1>4, <2>1, DayArranged
<1>7. \A e \in 1..n : ToSet(z.spots[e]) = ToSet(v.spots[e])
  <2> TAKE e \in 1..n
  <2>1. CASE e = d
    BY <1>4, <1>6, <2>1 DEF q
  <2>2. CASE e # d
    BY <1>6, <2>2
  <2> QED
    BY <2>1, <2>2
<1>8. NamesDiffer(v.spots[d]) => \A L : GoLast(v.spots[d], L) => GoLast(z.spots[d], L \cup {p})
  BY <1>5, <1>6 DEF q
<1> QED
  BY <1>6, <1>7, <1>8, <1>r DEF IsToEnd

\* The attractions of the first k conflicts of a list that are on day d.
LateOf(u, listed, k, d) == {u.spots[d][listed[j].spot] : j \in {i \in 1..k : listed[i].day = d}}

LateOn(u, S, d) == {u.spots[d][x.spot] : x \in {y \in S : y.day = d}}

\* Conflict k is late on its day and on no other.
LateGrowsAt(u, listed, k, d) ==
    /\ listed[k].day = d =>
          LateOf(u, listed, k, d) = LateOf(u, listed, k - 1, d) \cup {u.spots[d][listed[k].spot]}
    /\ listed[k].day # d => LateOf(u, listed, k, d) = LateOf(u, listed, k - 1, d)

\* The list grows by one.
LEMMA LateGrows ==
    ASSUME NEW u, NEW listed, NEW k \in Nat \ {0}, NEW d
    PROVE  LateOf(u, listed, 0, d) = {} /\ LateGrowsAt(u, listed, k, d)
<1>1. 1..k = (1..(k - 1)) \cup {k} /\ 1..0 = {}
  OBVIOUS
<1> QED
  BY <1>1 DEF LateOf, LateGrowsAt

\* All conflicts with opening hours go to the ends of their days.
LEMMA ReorderedPlan ==
    ASSUME NEW n \in Nat, NEW w, NEW K, NEW u \in PlansLike(w, n, K), NEW S, IsFiniteSet(S),
           S \subseteq IssuesOf(n), \A x \in S : x.code = "hours" /\ x.spot \in DOMAIN u.spots[x.day]
    PROVE  \E z \in PlansLike(w, n, K) :
              /\ z = ReorderedForHours(u, S)
              /\ \A d \in 1..n : NamesDiffer(u.spots[d]) => GoLast(z.spots[d], LateOn(u, S, d))
<1> DEFINE m == Cardinality(S)
           listed == InPlanOrder(S)
           T == {v \in PlansLike(w, n, K) : \A d \in 1..n : ToSet(v.spots[d]) = ToSet(u.spots[d])}
           Next1(v, i) == ToEnd(v, listed[i].day, u.spots[listed[i].day][listed[i].spot])
           step == [p \in T \X (1..m) |-> Next1(p[1], p[2])]
           Solves(g) == g = [i \in 0..m |-> IF i = 0 THEN u ELSE Next1(g[i - 1], i)]
<1>0. /\ m \in Nat /\ listed \in [1..m -> S] /\ \A x \in S : \E i \in 1..m : listed[i] = x
  BY InPlanOrderLists
<1>a. ReorderedForHours(u, S) = (CHOOSE g : Solves(g))[m]
  BY DEF ReorderedForHours
<1> HIDE DEF m, listed
<1>b. u \in T
  OBVIOUS
<1>l. ASSUME NEW i \in 1..m
      PROVE  listed[i].day \in 1..n /\ u.spots[listed[i].day][listed[i].spot] \in ToSet(u.spots[listed[i].day])
  <2>1. listed[i] \in S
    BY <1>0
  <2>2. listed[i].day \in 1..n /\ listed[i].spot \in DOMAIN u.spots[listed[i].day]
    BY <2>1 DEF IssuesOf
  <2>3. u \in TripsOf(n)
    BY DEF PlansLike
  <2>4. PICK d, j : d = listed[i].day /\ j = listed[i].spot
    OBVIOUS
  <2>5. d \in 1..n /\ j \in DOMAIN u.spots[d]
    BY <2>2, <2>4
  <2>6. DOMAIN u.spots[d] = 1..Len(u.spots[d]) /\ ToSet(u.spots[d]) = {u.spots[d][k] : k \in 1..Len(u.spots[d])}
    BY <2>3, <2>5, OnceByDays
  <2>7. u.spots[d][j] \in ToSet(u.spots[d])
    BY <2>5, <2>6
  <2> QED
    BY <2>4, <2>5, <2>7
<1>c. ASSUME NEW v \in T, NEW i \in 1..m
      PROVE  Next1(v, i) \in T /\ IsToEnd(Next1(v, i), v, n, listed[i].day, u.spots[listed[i].day][listed[i].spot])
  <2> DEFINE d == listed[i].day
             p == u.spots[d][listed[i].spot]
  <2>1. d \in 1..n /\ p \in ToSet(v.spots[d])
    BY <1>l
  <2> HIDE DEF d, p
  <2>2. PICK z \in PlansLike(w, n, K) : IsToEnd(z, v, n, d, p)
    BY <2>1, ToEndPlan
  <2>3. z \in T
    <3>1. \A e \in 1..n : ToSet(z.spots[e]) = ToSet(v.spots[e])
      BY <2>2 DEF IsToEnd
    <3>2. \A e \in 1..n : ToSet(v.spots[e]) = ToSet(u.spots[e])
      <4> HIDE DEF Next1, step, Solves
      <4> QED
        OBVIOUS
    <3> QED
      BY <2>2, <3>1, <3>2
  <2>4. Next1(v, i) = z
    BY <2>2 DEF IsToEnd, d, p
  <2> HIDE DEF T, Next1
  <2> QED
    BY <2>2, <2>3, <2>4 DEF d, p
<1> HIDE DEF T, Next1
<1>d. \A v \in T : \A i \in 1..m : step[<<v, i>>] = Next1(v, i)
  OBVIOUS
<1>1. IsStep(m, T, step)
  <2> HIDE DEF step
  <2> QED
    BY <1>c, <1>d DEF IsStep
<1>2. PICK h \in RunsOf(m, T, u, step) : TRUE
  <2> HIDE DEF step
  <2>2. RunsOf(m, T, u, step) # {}
    BY <1>0, <1>1, <1>b, RecursionUpTo
  <2> QED
    BY <2>2
<1>3. h \in [0..m -> T] /\ h[0] = u /\ \A i \in 1..m : h[i] = Next1(h[i - 1], i)
  <2> HIDE DEF step
  <2>1. /\ h \in [0..m -> T] /\ h[0] = u
        /\ \A i \in 1..m : h[i - 1] \in T /\ h[i] = step[<<h[i - 1], i>>]
    <3>1. h \in RunsOf(m, T, u, step) /\ m \in Nat
      BY <1>0, <1>2
    <3> QED
      BY <3>1, RunValues
  <2> QED
    BY <1>d, <2>1
<1>4. Solves(h)
  <2>1. \A i \in 0..m : h[i] = IF i = 0 THEN u ELSE Next1(h[i - 1], i)
    BY <1>0, <1>3
  <2> QED
    BY <1>3, <2>1
<1>5. PICK g : g = (CHOOSE l : Solves(l)) /\ Solves(g)
  <2> HIDE DEF Solves
  <2> QED
    BY <1>4
<1>6. ReorderedForHours(u, S) = g[m]
  BY <1>5, <1>a
<1>7. g[0] = u /\ \A i \in 1..m : g[i] = Next1(g[i - 1], i)
  <2>1. \A i \in 0..m : g[i] = IF i = 0 THEN u ELSE Next1(g[i - 1], i)
    BY <1>5
  <2> QED
    BY <1>0, <2>1
<1> HIDE DEF Solves, step
<1> DEFINE Good(i) ==
              /\ g[i] \in T
              /\ \A d \in 1..n : NamesDiffer(u.spots[d]) => GoLast(g[i].spots[d], LateOf(u, listed, i, d))
           M == {i \in 0..m : Good(i)}
<1>8. 0 \in M
  <2>1. \A d \in 1..n : LateOf(u, listed, 0, d) = {}
    BY LateGrows
  <2>2. \A d \in 1..n : GoLast(u.spots[d], {})
    BY DEF GoLast
  <2>3. Good(0)
    BY <1>7, <1>b, <2>1, <2>2
  <2> HIDE DEF Good
  <2> QED
    BY <1>0, <2>3
<1>9. ASSUME NEW i \in 1..m, i - 1 \in M PROVE i \in M
  <2> DEFINE e == listed[i].day
             p == u.spots[e][listed[i].spot]
  <2>1. PICK v : /\ v = g[i - 1] /\ v \in T
                 /\ \A d \in 1..n : NamesDiffer(u.spots[d]) => GoLast(v.spots[d], LateOf(u, listed, i - 1, d))
    BY <1>9
  <2>2. PICK z \in T : z = g[i] /\ IsToEnd(z, v, n, e, p)
    BY <1>7, <1>c, <2>1
  <2>3. ASSUME NEW d \in 1..n, NamesDiffer(u.spots[d]) PROVE GoLast(z.spots[d], LateOf(u, listed, i, d))
    <3>n. NamesDiffer(v.spots[d])
      <4>1. ToSet(v.spots[d]) = ToSet(u.spots[d])
        BY <2>1 DEF T
      <4> QED
        BY <2>3, <4>1 DEF NamesDiffer
    <3>0. LateGrowsAt(u, listed, i, d)
      <4>1. i \in Nat \ {0}
        BY <1>0
      <4> QED
        BY <4>1, LateGrows
    <3>1. CASE d = e
      <4>1. LateOf(u, listed, i, d) = LateOf(u, listed, i - 1, d) \cup {p}
        BY ONLY <3>0, <3>1, Zenon DEF LateGrowsAt
      <4>2. GoLast(z.spots[d], LateOf(u, listed, i - 1, d) \cup {p})
        BY <2>1, <2>2, <2>3, <3>1, <3>n, Zenon DEF IsToEnd
      <4> QED
        BY <4>1, <4>2
    <3>2. CASE d # e
      <4>1. LateOf(u, listed, i, d) = LateOf(u, listed, i - 1, d)
        BY ONLY <3>0, <3>2, Zenon DEF LateGrowsAt
      <4>2. z.spots[d] = v.spots[d]
        BY <2>2, <3>2, Zenon DEF IsToEnd
      <4> QED
        BY <2>1, <2>3, <4>1, <4>2
    <3> QED
      BY <3>1, <3>2
  <2>4. Good(i)
    BY <2>2, <2>3
  <2> HIDE DEF Good
  <2> QED
    BY <1>0, <2>4
<1>10. Good(m)
  <2>1. m \in M
    <3> HIDE DEF M
    <3>1. \A i \in 0..m : i \in M
      BY <1>0, <1>8, <1>9, InductionUpTo
    <3> QED
      BY <1>0, <3>1
  <2> QED
    BY <2>1
<1>11. ASSUME NEW d \in 1..n
       PROVE  LateOf(u, listed, m, d) = LateOn(u, S, d)
  BY <1>0 DEF LateOf, LateOn
<1>12. g[m] \in PlansLike(w, n, K)
  BY <1>10 DEF T
<1> QED
  BY <1>6, <1>10, <1>11, <1>12

\* The conflicts that the batch repair starts from.
LEMMA ConflictsType ==
    ASSUME NEW n \in Nat, NEW u \in TripsOf(n)
    PROVE  /\ IsFiniteSet(HoursConflicts(Approximate(u))) /\ HoursConflicts(Approximate(u)) \subseteq IssuesOf(n)
           /\ \A x \in HoursConflicts(Approximate(u)) :
                 x.code = "hours" /\ x.spot \in DOMAIN u.spots[x.day]
<1> DEFINE A == Issues(u, Schedule(u, NoRoads), Known)
           C == HoursConflicts(Approximate(u))
<1>1. C = {x \in A : x.code = "hours"}
  BY DEF HoursConflicts, Approximate, Evaluate, Report, IssueTotals
<1>2. /\ IsFiniteSet(A) /\ A \subseteq IssuesOf(n)
      /\ \A x \in A : x.code = "hours" => x.spot \in DOMAIN u.spots[x.day]
  BY IssuesType
<1> HIDE DEF A, C
<1>3. C \subseteq A
  BY <1>1
<1>4. IsFiniteSet(C)
  BY <1>2, <1>3, FS_Subset
<1>5. C \subseteq IssuesOf(n) /\ \A x \in C : x.code = "hours" /\ x.spot \in DOMAIN u.spots[x.day]
  BY <1>1, <1>2
<1> QED
  BY <1>4, <1>5 DEF C

\* What still conflicts is removed from its day.
LEMMA RemovedPlan ==
    ASSUME NEW n \in Nat, NEW w, NEW K, NEW u \in PlansLike(w, n, K), NEW C
    PROVE  RemovedForHours(u, C) \in PlansLike(w, n, K)
<1> DEFINE I(d) == {i \in DOMAIN u.spots[d] : Issue("hours", d, i) \notin C}
           f == [d \in Days(u) |-> Selected(u.spots[d], I(d))]
           z == RemovedForHours(u, C)
<1>1. u \in TripsOf(n) /\ EachOnce(u) /\ Used(u) \subseteq K
      /\ u.hotel = w.hotel /\ u.text = w.text /\ u.meals = w.meals
  BY DEF PlansLike
<1>2. Days(u) = 1..n /\ \A d \in 1..n : u.spots[d] \in Seq(Places)
  BY <1>1, TripDays
<1>3. /\ \A e \in 1..n : NoRepeat(u.spots[e])
      /\ \A a, b \in 1..n : a # b => ToSet(u.spots[a]) \cap ToSet(u.spots[b]) = {}
      /\ \A e \in 1..n : ToSet(u.spots[e]) \subseteq K /\ ToSet(u.spots[e]) = {u.spots[e][i] : i \in 1..Len(u.spots[e])}
  BY <1>1, OnceByDays
<1>4. z = [u EXCEPT !.spots = f]
  BY DEF RemovedForHours
<1> HIDE DEF I
<1>5. ASSUME NEW d \in 1..n
      PROVE  f[d] \in Seq(Places) /\ NoRepeat(f[d]) /\ ToSet(f[d]) \subseteq ToSet(u.spots[d])
  <2> DEFINE q == u.spots[d]
             J == I(d)
  <2>1. q \in Seq(Places) /\ NoRepeat(q) /\ ToSet(q) = {q[i] : i \in 1..Len(q)}
    BY <1>2, <1>3
  <2>2. f[d] = Selected(q, J)
    BY <1>2
  <2> HIDE DEF q, J, f
  <2>3. /\ Selected(q, J) \in Seq(Places) /\ NoRepeat(Selected(q, J))
        /\ ToSet(Selected(q, J)) = {q[i] : i \in J \cap 1..Len(q)}
    BY <2>1, SelectedOnce
  <2> QED
    BY <2>1, <2>2, <2>3 DEF q
<1>6. f \in [1..n -> Seq(Places)]
  BY <1>2, <1>5
<1> HIDE DEF f, z
<1>7. z \in TripsOf(n) /\ z.spots = f /\ z.hotel = u.hotel /\ z.text = u.text /\ z.meals = u.meals
  BY <1>1, <1>4, <1>6 DEF TripsOf
<1>8. \A e \in 1..n : NoRepeat(z.spots[e]) /\ ToSet(z.spots[e]) \subseteq K
  BY <1>3, <1>5, <1>7
<1>9. \A a, b \in 1..n : a # b => ToSet(z.spots[a]) \cap ToSet(z.spots[b]) = {}
  BY <1>3, <1>5, <1>7
<1>10. EachOnce(z) /\ Used(z) \subseteq K
  <2>1. EachOnce(z)
    BY <1>7, <1>8, <1>9, OnceByDays
  <2>2. Used(z) = UNION {ToSet(z.spots[e]) : e \in 1..n}
    BY <1>7, OnceByDays
  <2> QED
    BY <1>8, <2>1, <2>2
<1> QED
  BY <1>1, <1>7, <1>10 DEF PlansLike, z

\* The batch repair of opening hours.
LEMMA HoursRepairType ==
    ASSUME NEW n \in Nat, NEW w, NEW K, NEW u \in PlansLike(w, n, K)
    PROVE  HoursRepair(u, Approximate(u)) \subseteq PlansLike(w, n, K)
<1> DEFINE P == PlansLike(w, n, K)
           b == Approximate(u)
           C == HoursConflicts(b)
<1>0. u \in TripsOf(n)
  BY DEF PlansLike
<1>1. /\ IsFiniteSet(C) /\ C \subseteq IssuesOf(n)
      /\ \A x \in C : x.code = "hours" /\ x.spot \in DOMAIN u.spots[x.day]
  BY <1>0, ConflictsType
<1>2. ReorderedForHours(u, C) \in P
  <2> HIDE DEF C
  <2> QED
    BY <1>1, ReorderedPlan
<1>3. \A v, r, a : RepairedIf(v, r, a) \subseteq {v}
  BY DEF RepairedIf
<1>4. ASSUME NEW v \in P, NEW r PROVE RepairAfterMoves(v, r, b) \subseteq P
  <2>1. RemovedForHours(v, HoursConflicts(r)) \in P
    BY RemovedPlan
  <2> HIDE DEF P, b, C
  <2> QED
    BY <1>3, <2>1 DEF RepairAfterMoves
<1> HIDE DEF P, b
<1> QED
  BY <1>2, <1>4 DEF HoursRepair, b, P

\* The moves for one issue.
LEMMA IssueMovesType ==
    ASSUME NEW n \in Nat, NEW w, NEW K, NEW u \in PlansLike(w, n, K), NEW x \in IssuesOf(n)
    PROVE  IssueMoves(u, x) \in Seq(MovesLike(w, n, K))
<1> DEFINE d == x.day
           m == Len(u.spots[d])
           i == IF x.spot \in 1..m THEN x.spot ELSE m
           within == [k \in 1..(m - 1) |-> IF k < i THEN k ELSE k + 1]
           first == [j \in DOMAIN within |-> [from |-> d, to |-> d, at |-> within[j],
                                              plan |-> MoveTo(u, d, i, d, within[j])]]
           S == MovesLike(w, n, K)
<1>0. u \in TripsOf(n) /\ d \in 1..n
  BY DEF PlansLike, IssuesOf
<1>1. m \in Nat
  BY <1>0, TripDays, LenProperties
<1>2. IssueMoves(u, x) = IF m = 0 THEN <<>> ELSE first \o CrossDayMoves(u, d, i)
  BY DEF IssueMoves
<1>3. CASE m = 0
  BY <1>2, <1>3, EmptySeq
<1>4. CASE m # 0
  <2>1. i \in 1..m
    BY <1>1, <1>4
  <2> HIDE DEF m, i, d
  <2>2. ASSUME NEW j \in 1..(m - 1) PROVE within[j] \in Nat \ {0} /\ within[j] <= m
    BY <1>1, <2>1
  <2>3. DOMAIN within = 1..(m - 1) /\ m - 1 \in Nat
    BY <1>1, <1>4
  <2> HIDE DEF within
  <2>4. ASSUME NEW j \in 1..(m - 1)
        PROVE  [from |-> d, to |-> d, at |-> within[j], plan |-> MoveTo(u, d, i, d, within[j])] \in S
    <3>1. PICK k \in Nat \ {0} : k = within[j] /\ k <= m
      BY <2>2
    <3>2. MoveTo(u, d, i, d, k) \in PlansLike(w, n, K)
      BY <1>0, <2>1, <3>1, SpotMoved DEF m
    <3> QED
      BY <1>0, <3>1, <3>2 DEF MovesLike
  <2> HIDE DEF S
  <2>5. first \in [1..(m - 1) -> S]
    BY <2>3, <2>4
  <2>6. first \in Seq(S)
    <3> HIDE DEF first
    <3> QED
      BY <2>3, <2>5
  <2>7. CrossDayMoves(u, d, i) \in Seq(S)
    BY <1>0, <2>1, CrossDayMovesType DEF S, m
  <2> HIDE DEF first
  <2>8. first \o CrossDayMoves(u, d, i) \in Seq(S)
    BY <2>6, <2>7, ConcatProperties
  <2> QED
    BY <1>2, <1>4, <2>8 DEF S
<1> QED
  BY <1>3, <1>4

\* The moves for all issues.
LEMMA ConstraintMovesType ==
    ASSUME NEW n \in Nat, NEW w, NEW K, NEW u \in PlansLike(w, n, K), NEW a \in Seq(IssuesOf(n))
    PROVE  \A c \in ConstraintMoves(u, a) : c.plan \in PlansLike(w, n, K)
<1> DEFINE S == MovesLike(w, n, K)
           P == PlansLike(w, n, K)
           lists == [i \in DOMAIN a |-> IssueMoves(u, a[i])]
           all == FlattenSeq(lists)
           new == {i \in DOMAIN all : \A j \in 1..(i - 1) : all[j].plan # all[i].plan}
           some == Selected(all, new)
           tried == Prefix(some, MaxCandidates)
<1>1. DOMAIN a = 1..Len(a) /\ Len(a) \in Nat /\ \A i \in 1..Len(a) : a[i] \in IssuesOf(n)
  BY LenProperties, ElementOfSeq
<1>2. lists \in [1..Len(a) -> Seq(S)]
  BY <1>1, IssueMovesType
<1>3. all \in Seq(S)
  <2> HIDE DEF lists, S
  <2>1. lists \in Seq(Seq(S))
    BY <1>1, <1>2
  <2> QED
    BY <2>1, FlattenedIn
<1>4. some \in Seq(S) /\ MaxCandidates \in Int
  <2> HIDE DEF all, new, S
  <2> QED
    BY <1>3, SelectedLists, OptimizerAssumption DEF CandidatesAccepted
<1>5. ToSet(tried) \subseteq S
  <2> HIDE DEF some, S
  <2>1. tried \in Seq(S)
    BY <1>4, PrefixIn
  <2> HIDE DEF tried
  <2> QED
    BY <2>1, ToSetIn
<1>6. ConstraintMoves(u, a) = {Weighed(m.plan, <<m.from, m.to, m.at>>) : m \in ToSet(tried)}
  BY DEF ConstraintMoves
<1>7. \A m \in S : m.plan \in P
  BY DEF MovesLike
<1>8. \A v, k : Weighed(v, k).plan = v
  BY DEF Weighed
<1> HIDE DEF tried, S, P
<1>9. ASSUME NEW c \in ConstraintMoves(u, a) PROVE c.plan \in P
  <2>1. PICK m \in ToSet(tried) : c = Weighed(m.plan, <<m.from, m.to, m.at>>)
    BY <1>6
  <2>2. c.plan = m.plan
    BY <1>8, <2>1
  <2> QED
    BY <1>5, <1>7, <2>2
<1> QED
  BY <1>9 DEF P

\* The plans with one attraction less.
LEMMA ConstraintRemovalsType ==
    ASSUME NEW n \in Nat, NEW w, NEW K, NEW u \in PlansLike(w, n, K), NEW a \in Seq(IssuesOf(n))
    PROVE  \A c \in ConstraintRemovals(u, a) : c.plan \in PlansLike(w, n, K)
<1> DEFINE S == {r \in (1..n) \X Nat : r[2] \in 1..Len(u.spots[r[1]])}
           P == PlansLike(w, n, K)
           first == {i \in DOMAIN a : \A j \in 1..(i - 1) : a[j].day # a[i].day}
           ofDay(d) == [i \in DOMAIN u.spots[d] |-> <<d, i>>]
           days == Selected(a, first)
           lists == [k \in DOMAIN days |-> ofDay(days[k].day)]
           all == FlattenSeq(lists)
           tried == Prefix(all, MaxCandidates)
<1>0. u \in TripsOf(n)
  BY DEF PlansLike
<1>1. ASSUME NEW d \in 1..n PROVE ofDay(d) \in Seq(S)
  <2>1. PICK m \in Nat : m = Len(u.spots[d]) /\ DOMAIN u.spots[d] = 1..m
    BY <1>0, TripDays, LenProperties
  <2>2. \A i \in 1..m : <<d, i>> \in S
    BY <2>1
  <2> HIDE DEF S
  <2>3. ofDay(d) \in [1..m -> S]
    BY <2>1, <2>2
  <2> HIDE DEF ofDay
  <2> QED
    BY <2>3
<1>2. days \in Seq(IssuesOf(n))
  <2> HIDE DEF first
  <2> QED
    BY SelectedLists
<1>c. ConstraintRemovals(u, a) = {Weighed(Without(u, r[1], r[2]), r) : r \in ToSet(tried)}
  BY DEF ConstraintRemovals
<1> HIDE DEF days, ofDay
<1>3. DOMAIN days = 1..Len(days) /\ Len(days) \in Nat /\ \A k \in 1..Len(days) : days[k].day \in 1..n
  <2>1. DOMAIN days = 1..Len(days) /\ Len(days) \in Nat /\ \A k \in 1..Len(days) : days[k] \in IssuesOf(n)
    BY <1>2, LenProperties, ElementOfSeq
  <2> QED
    BY <2>1 DEF IssuesOf
<1> HIDE DEF S
<1>4. lists \in [1..Len(days) -> Seq(S)]
  BY <1>1, <1>3
<1>5. all \in Seq(S)
  <2> HIDE DEF lists
  <2>1. lists \in Seq(Seq(S))
    BY <1>3, <1>4, SMTT(20)
  <2> QED
    BY <2>1, FlattenedIn
<1>6. ToSet(tried) \subseteq S
  <2> HIDE DEF all
  <2>0. MaxCandidates \in Int
    BY OptimizerAssumption DEF CandidatesAccepted
  <2>1. tried \in Seq(S)
    BY <1>5, <2>0, PrefixIn
  <2> HIDE DEF tried
  <2> QED
    BY <2>1, ToSetIn
<1>7. ASSUME NEW r \in S PROVE Without(u, r[1], r[2]) \in P
  <2>1. PICK d, i : d = r[1] /\ i = r[2]
    OBVIOUS
  <2>2. d \in 1..n /\ i \in 1..Len(u.spots[d])
    BY <2>1 DEF S
  <2>3. PICK z \in P : IsWithout(z, u, n, K, d, i)
    BY <2>2, SpotDropped
  <2>4. Without(u, d, i) \in P
    BY <2>3 DEF IsWithout
  <2> QED
    BY <2>1, <2>4
<1>8. \A v, k : Weighed(v, k).plan = v
  BY DEF Weighed
<1> HIDE DEF tried, P
<1>9. ASSUME NEW c \in ConstraintRemovals(u, a) PROVE c.plan \in P
  <2>1. PICK r \in ToSet(tried) : c = Weighed(Without(u, r[1], r[2]), r)
    BY <1>c
  <2>2. c.plan = Without(u, r[1], r[2])
    BY <1>8, <2>1
  <2> QED
    BY <1>6, <1>7, <2>2
<1> QED
  BY <1>9 DEF P

\* The repair, a move or a removal of the constraint optimizer.
LEMMA ConstraintCandidateType ==
    ASSUME NEW n \in Nat, NEW w, NEW K, NEW u \in PlansLike(w, n, K), NEW a \in Seq(IssuesOf(n))
    PROVE  ConstraintCandidate(u, a, Approximate(u)) \subseteq PlansLike(w, n, K)
<1> DEFINE P == PlansLike(w, n, K)
           b == Approximate(u)
           M == {c \in ConstraintMoves(u, a) : c.key[1] < CombinedCost(b)}
           R == {c \in ConstraintRemovals(u, a) : c.key[1] < CombinedCost(b)}
<1>1. HoursRepair(u, b) \subseteq P
  BY HoursRepairType
<1>2. \A c \in M : c.plan \in P
  BY ConstraintMovesType
<1>3. \A c \in R : c.plan \in P
  BY ConstraintRemovalsType
<1>4. ConstraintCandidate(u, a, b) = OrElse(HoursRepair(u, b), OrElse(BestPlan(M), BestPlan(R)))
  BY DEF ConstraintCandidate
<1> HIDE DEF P, b, M, R
<1>5. BestPlan(M) \subseteq P /\ BestPlan(R) \subseteq P
  BY <1>2, <1>3, BestPlanIn
<1> QED
  BY <1>1, <1>4, <1>5 DEF OrElse, P, b

-----------------------------------------------------------------------------
(* Replacements for long legs.                                             *)

\* The candidates of the pool that t does not use.
SourcesFor(t) == {c \in Candidates : c.place \notin Used(t)}

\* The sources that are neither in the plan nor excluded, in the order of the pool.
LEMMA FreshType ==
    ASSUME pool \in Seq(Candidates), NEW u, NEW out
    PROVE  Fresh(u, out) \in Seq(SourcesFor(u))
<1> DEFINE I == {i \in DOMAIN pool : pool[i].place \notin Used(u) \cup out}
           f == Selected(pool, I)
<1>0. Fresh(u, out) = f
  BY DEF Fresh
<1>1. DOMAIN pool = 1..Len(pool) /\ Len(pool) \in Nat /\ \A i \in 1..Len(pool) : pool[i] \in Candidates
  BY LenProperties, ElementOfSeq
<1>2. ASSUME NEW i \in I PROVE pool[i] \in SourcesFor(u)
  BY <1>1 DEF SourcesFor
<1> HIDE DEF I
<1>3. f \in Seq(Candidates) /\ \E m : IsSelection(f, pool, I, m)
  BY SelectedLists
<1> HIDE DEF f
<1>4. PICK m : IsSelection(f, pool, I, m)
  BY <1>3
<1>5. m \in Seq(I \cap 1..Len(pool)) /\ DOMAIN f = 1..Len(m) /\ \A k \in 1..Len(m) : f[k] = pool[m[k]]
  BY <1>4 DEF IsSelection
<1>6. Len(m) \in Nat /\ \A k \in 1..Len(m) : m[k] \in I
  BY <1>5, LenProperties, ElementOfSeq
<1>7. \A k \in 1..Len(m) : f[k] \in SourcesFor(u)
  BY <1>2, <1>5, <1>6
<1>8. f \in [1..Len(m) -> SourcesFor(u)]
  <2>1. f = [k \in DOMAIN f |-> f[k]]
    BY <1>3, LenProperties
  <2> QED
    BY <1>5, <1>7, <2>1
<1> QED
  BY <1>0, <1>6, <1>8

\* The time planned for an attraction, or the default.
StayOf(u, a) == IF u.stay[a] = 0 THEN DefaultStay ELSE u.stay[a]

\* An attraction in the place of another, for the same time.
LEMMA PlanWithReplacement ==
    ASSUME NEW n \in Nat, NEW w, NEW K, NEW u \in PlansLike(w, n, K), NEW d \in 1..n, NEW i \in 1..Len(u.spots[d]),
           NEW p \in Places \cap K, p \notin Used(u)
    PROVE  [WithDay(u, d, [u.spots[d] EXCEPT ![i] = p]) EXCEPT !.stay[p] = StayOf(u, u.spots[d][i])]
              \in PlansLike(w, n, K)
<1> DEFINE y == WithDay(u, d, [u.spots[d] EXCEPT ![i] = p])
<1>1. y \in PlansLike(w, n, K)
  BY SpotReplaced
<1>2. PICK m \in Nat : m = StayOf(u, u.spots[d][i])
  <2>1. u \in TripsOf(n)
    BY DEF PlansLike
  <2>2. u.stay \in [Places -> Nat] /\ u.spots[d] \in Seq(Places)
    BY <2>1, TripDays
  <2>3. u.spots[d][i] \in Places
    BY <2>2, ElementOfSeq
  <2>4. DefaultStay \in Nat
    BY OptimizerAssumption DEF CandidatesAccepted
  <2> QED
    BY <2>2, <2>3, <2>4 DEF StayOf
<1> HIDE DEF y
<1>3. StayAt(y, p, m) \in PlansLike(w, n, K)
  BY <1>1, StayChanged
<1>4. StayAt(y, p, StayOf(u, u.spots[d][i])) \in PlansLike(w, n, K)
  BY <1>2, <1>3
<1> QED
  BY <1>4 DEF StayAt, y

\* The issues name attractions of the plan.
TargetsExist(issues, u, n) == \A x \in issues : x.day \in 1..n /\ x.target \in 1..Len(u.spots[x.day])

\* The replacements for an attraction.
LEMMA ReplacementsType ==
    ASSUME NEW n \in Nat, NEW w, NEW u \in PlansLike(w, n, Places), pool \in Seq(Candidates),
           NEW x, x.day \in 1..n, x.target \in 1..Len(u.spots[x.day])
    PROVE  \A c \in Replacements(u, x) : c.plan \in PlansLike(w, n, Places) /\ c.place \in Places
<1> DEFINE P == PlansLike(w, n, Places)
           q == u.spots[x.day]
           fresh == Fresh(u, excluded.commute)
           sources == Prefix(fresh, MaxSources)
           put(p) == [WithDay(u, x.day, [q EXCEPT ![x.target] = p]) EXCEPT !.stay[p] = StayOf(u, q[x.target])]
<1>1. sources \in Seq(SourcesFor(u))
  <2>1. fresh \in Seq(SourcesFor(u)) /\ MaxSources \in Int
    BY FreshType, OptimizerAssumption
  <2> HIDE DEF fresh
  <2> QED
    BY <2>1, PrefixIn
<1>2. ASSUME NEW c \in Replacements(u, x)
      PROVE  \E i \in DOMAIN sources : c.place = sources[i].place /\ c.plan = put(sources[i].place)
  <2> DEFINE far(p) == FarFromAnchors(u, x.day, x.target, PlaceAt(p))
             key(i) == <<far(sources[i].place),
                         IF Spot[sources[i].place].kind = Spot[q[x.target]].kind THEN 0 ELSE 1,
                         IF Spot[sources[i].place].liked THEN -1 ELSE 0,
                         -sources[i].rating, i>>
             near == {i \in DOMAIN sources : far(sources[i].place) < far(q[x.target])}
  <2>1. Replacements(u, x) = {[key |-> key(i), place |-> sources[i].place, plan |-> put(sources[i].place)] : i \in near}
    BY DEF Replacements, StayOf
  <2>2. near \subseteq DOMAIN sources
    OBVIOUS
  <2> HIDE DEF key, near, sources, put, far
  <2>3. PICK i \in near : c = [key |-> key(i), place |-> sources[i].place, plan |-> put(sources[i].place)]
    BY <2>1
  <2> QED
    BY <2>2, <2>3
<1> HIDE DEF sources
<1>3. \A i \in DOMAIN sources : sources[i] \in SourcesFor(u)
  BY <1>1, LenProperties, ElementOfSeq
<1>4. ASSUME NEW p \in Places, p \notin Used(u) PROVE put(p) \in P
  <2>1. PICK d, i : d = x.day /\ i = x.target
    OBVIOUS
  <2>2. [WithDay(u, d, [u.spots[d] EXCEPT ![i] = p]) EXCEPT !.stay[p] = StayOf(u, u.spots[d][i])] \in P
    BY <1>4, <2>1, PlanWithReplacement
  <2> QED
    BY <2>1, <2>2
<1> HIDE DEF put, P
<1>5. ASSUME NEW c \in Replacements(u, x) PROVE c.plan \in P /\ c.place \in Places
  <2>1. PICK i \in DOMAIN sources : c.place = sources[i].place /\ c.plan = put(sources[i].place)
    BY <1>2
  <2>2. sources[i].place \in Places /\ sources[i].place \notin Used(u)
    BY <1>3 DEF SourcesFor, Candidates
  <2> QED
    BY <1>4, <2>1, <2>2
<1> QED
  BY <1>5 DEF P

\* The replacement that is offered.
LEMMA ReplacementCandidateType ==
    ASSUME NEW n \in Nat, NEW w, NEW u \in PlansLike(w, n, Places), pool \in Seq(Candidates),
           TargetsExist(report.commute, u, n)
    PROVE  \A c \in ReplacementCandidate(u) : c.plan \in PlansLike(w, n, Places) /\ c.place \in Places
<1> TAKE c \in ReplacementCandidate(u)
<1>1. PICK x \in report.commute : c \in Best(Replacements(u, x))
  BY DEF ReplacementCandidate, First
<1>2. c \in Replacements(u, x)
  BY <1>1 DEF Best
<1>3. x.day \in 1..n /\ x.target \in 1..Len(u.spots[x.day])
  BY DEF TargetsExist
<1> QED
  BY <1>2, <1>3, ReplacementsType

-----------------------------------------------------------------------------
(* Refills.                                                                *)

\* The rounds of the refill.
Refills(w, n) ==
    {r \in [plan : PlansLike(w, n, Places), added : SUBSET Places, considered : Int, failed : BOOLEAN,
            left : Seq(Candidates)] : r.left \in Seq(SourcesFor(r.plan))}

\* Where a source may go: source, day and position.
Slots(r, n) ==
    {x \in Nat \X (1..n) \X Nat : /\ x[1] \in DOMAIN r.left
                                  /\ x[3] \in 1..(Len(r.plan.spots[x[2]]) + 1)}

\* The placements of a refill, by candidate, day and place in the day.
LEMMA PlacementsType ==
    ASSUME NEW n \in Nat, NEW w, NEW r \in Refills(w, n)
    PROVE  Placements(r) \in Seq(Slots(r, n)) /\ Len(Placements(r)) \in Nat
<1> DEFINE S == Slots(r, n)
           places(m, d) == [k \in 1..(Len(r.plan.spots[d]) + 1) |-> <<m, d, k>>]
           days(m) == [d \in Days(r.plan) |-> places(m, d)]
           lists == [m \in DOMAIN r.left |-> FlattenSeq(days(m))]
           all == FlattenSeq(lists)
<1>0. r.plan \in TripsOf(n) /\ r.considered \in Int /\ r.left \in Seq(Candidates)
  BY DEF Refills, PlansLike
<1>1. DOMAIN r.left = 1..Len(r.left) /\ Len(r.left) \in Nat
  BY <1>0, LenProperties
<1>2. ASSUME NEW m \in 1..Len(r.left), NEW d \in 1..n PROVE places(m, d) \in Seq(S)
  <2>1. PICK a \in Nat : a = Len(r.plan.spots[d]) + 1
    <3>1. r.plan.spots[d] \in Seq(Places)
      BY <1>0, TripDays
    <3>2. Len(r.plan.spots[d]) \in Nat
      BY <3>1, LenProperties
    <3> QED
      BY <3>2
  <2>2. \A k \in 1..a : <<m, d, k>> \in S
    BY <1>1, <2>1 DEF Slots
  <2> HIDE DEF S
  <2>3. places(m, d) \in [1..a -> S]
    BY <2>1, <2>2
  <2> HIDE DEF places
  <2> QED
    BY <2>3
<1> HIDE DEF S
<1>3. ASSUME NEW m \in 1..Len(r.left) PROVE FlattenSeq(days(m)) \in Seq(S)
  <2>1. Days(r.plan) = 1..n
    BY <1>0, TripDays
  <2> HIDE DEF places
  <2>2. days(m) \in [1..n -> Seq(S)]
    BY <1>2, <2>1
  <2> HIDE DEF days
  <2>3. days(m) \in Seq(Seq(S))
    BY <2>2
  <2>4. PICK y \in Seq(Seq(S)) : y = days(m)
    BY <2>3
  <2>5. FlattenSeq(y) \in Seq(S)
    BY FlattenedIn
  <2> QED
    BY <2>4, <2>5
<1>p. Placements(r) = Prefix(all, MaxSources - r.considered)
  BY DEF Placements
<1> HIDE DEF days
<1>4. lists \in [1..Len(r.left) -> Seq(S)]
  BY <1>1, <1>3
<1>5. all \in Seq(S)
  <2> HIDE DEF lists
  <2>1. lists \in Seq(Seq(S))
    BY <1>1, <1>4
  <2> QED
    BY <2>1, FlattenedIn
<1> HIDE DEF all
<1>6. PICK b \in Int : b = MaxSources - r.considered
  BY <1>0, OptimizerAssumption
<1>7. Prefix(all, b) \in Seq(S)
  BY <1>5, PrefixIn
<1>8. Placements(r) \in Seq(S)
  BY <1>6, <1>7, <1>p
<1> QED
  BY <1>8, LenProperties DEF S

\* What a placed source makes of the plan.
IsPlaced(c, r, w, n) ==
    /\ c.plan \in PlansLike(w, n, Places) /\ c.place \in Places
    /\ Used(c.plan) = Used(r.plan) \cup {c.place}

\* A placement adds one source that the plan does not have.
LEMMA PlacedType ==
    ASSUME NEW n \in Nat, NEW w, NEW r \in Refills(w, n), NEW x \in Slots(r, n)
    PROVE  IsPlaced(Placed(r, x[1], x[2], x[3]), r, w, n)
<1>1. PICK m, d, k : m = x[1] /\ d = x[2] /\ k = x[3]
  OBVIOUS
<1>2. m \in DOMAIN r.left /\ d \in 1..n /\ k \in 1..(Len(r.plan.spots[d]) + 1)
  BY <1>1 DEF Slots
<1>3. PICK p : p = r.left[m].place
  OBVIOUS
<1>4. p \in Places /\ p \notin Used(r.plan) /\ r.plan \in PlansLike(w, n, Places)
  <2>1. r.left \in Seq(SourcesFor(r.plan)) /\ r.plan \in PlansLike(w, n, Places)
    BY DEF Refills
  <2>2. r.left[m] \in SourcesFor(r.plan)
    BY <1>2, <2>1, LenProperties, ElementOfSeq
  <2> QED
    BY <1>3, <2>1, <2>2 DEF SourcesFor, Candidates
<1> DEFINE y == WithDay(r.plan, d, InsertAt(r.plan.spots[d], k, p))
<1>5. y \in PlansLike(w, n, Places) /\ Used(y) = Used(r.plan) \cup {p}
  <2>1. PICK v : v = r.plan
    OBVIOUS
  <2>2. v \in PlansLike(w, n, Places) /\ k \in 1..(Len(v.spots[d]) + 1) /\ p \notin Used(v)
    BY <1>2, <1>4, <2>1
  <2>3. PICK z \in PlansLike(w, n, Places) :
           z = WithDay(v, d, InsertAt(v.spots[d], k, p)) /\ Used(z) = Used(v) \cup {p}
    BY <1>2, <1>4, <2>2, SpotAdded
  <2> QED
    BY <2>1, <2>3
<1> HIDE DEF y
<1>6. DefaultStay \in Nat
  BY OptimizerAssumption DEF CandidatesAccepted
<1>7. PICK z \in PlansLike(w, n, Places) : z = StayAt(y, p, DefaultStay) /\ z.spots = y.spots
  BY <1>4, <1>5, <1>6, StayChanged
<1>8. Used(z) = Used(r.plan) \cup {p}
  BY <1>5, <1>7 DEF Used, Days
<1>9. Placed(r, m, d, k).plan = StayAt(y, p, DefaultStay) /\ Placed(r, m, d, k).place = p
  BY <1>3 DEF Placed, StayAt, y
<1> QED
  BY <1>1, <1>4, <1>7, <1>8, <1>9 DEF IsPlaced

\* The sources that are left when one has been placed.
LEMMA SourcesLeft ==
    ASSUME NEW n \in Nat, NEW w, NEW r \in Refills(w, n), NEW c, IsPlaced(c, r, w, n)
    PROVE  Selected(r.left, {i \in DOMAIN r.left : r.left[i].place # c.place}) \in Seq(SourcesFor(c.plan))
<1> DEFINE q == r.left
           I == {i \in DOMAIN q : q[i].place # c.place}
           f == Selected(q, I)
<1>1. q \in Seq(SourcesFor(r.plan))
  BY DEF Refills
<1>2. DOMAIN q = 1..Len(q) /\ Len(q) \in Nat /\ \A i \in 1..Len(q) : q[i] \in SourcesFor(r.plan)
  BY <1>1, LenProperties, ElementOfSeq
<1>3. ASSUME NEW i \in I PROVE q[i] \in SourcesFor(c.plan)
  <2>1. q[i] \in SourcesFor(r.plan) /\ q[i].place # c.place
    BY <1>2
  <2> QED
    BY <2>1 DEF SourcesFor, IsPlaced
<1> HIDE DEF q, I
<1>4. f \in Seq(SourcesFor(r.plan)) /\ \E m : IsSelection(f, q, I, m)
  BY <1>1, SelectedLists
<1> HIDE DEF f
<1>5. PICK m : IsSelection(f, q, I, m)
  BY <1>4
<1>6. m \in Seq(I \cap 1..Len(q)) /\ DOMAIN f = 1..Len(m) /\ \A k \in 1..Len(m) : f[k] = q[m[k]]
  BY <1>5 DEF IsSelection
<1>7. Len(m) \in Nat /\ \A k \in 1..Len(m) : m[k] \in I
  BY <1>6, LenProperties, ElementOfSeq
<1>8. \A k \in 1..Len(m) : f[k] \in SourcesFor(c.plan)
  BY <1>3, <1>6, <1>7
<1>9. f \in [1..Len(m) -> SourcesFor(c.plan)]
  <2>1. f = [k \in DOMAIN f |-> f[k]]
    BY <1>4, LenProperties
  <2> QED
    BY <1>6, <1>8, <2>1
<1>10. f \in Seq(SourcesFor(c.plan))
  BY <1>7, <1>9
<1> QED
  BY <1>10 DEF f, q, I

\* One round of the refill.
LEMMA RefillOnceType ==
    ASSUME NEW n \in Nat, NEW w, NEW r \in Refills(w, n)
    PROVE  RefillOnce(r) \in Refills(w, n)
<1> DEFINE placed == {c \in {Placed(r, x[1], x[2], x[3]) : x \in ToSet(Placements(r))} : c.fits}
           best == Best(placed)
           tried == Len(Placements(r))
           z == TakePlacement(r, best, tried)
<1>0. /\ r.plan \in PlansLike(w, n, Places) /\ r.added \subseteq Places /\ r.considered \in Int
      /\ r.failed \in BOOLEAN /\ r.left \in Seq(Candidates) /\ r.left \in Seq(SourcesFor(r.plan))
      /\ r = [plan |-> r.plan, added |-> r.added, considered |-> r.considered, failed |-> r.failed,
              left |-> r.left]
  BY DEF Refills
<1>1. ToSet(Placements(r)) \subseteq Slots(r, n) /\ tried \in Nat
  <2>1. Placements(r) \in Seq(Slots(r, n)) /\ tried \in Nat
    BY PlacementsType
  <2> QED
    BY <2>1, ToSetIn
<1>2. \A c \in best : IsPlaced(c, r, w, n)
  <2>1. \A c \in placed : IsPlaced(c, r, w, n)
    BY <1>1, PlacedType
  <2>2. best \subseteq placed
    BY DEF Best
  <2> QED
    BY <2>1, <2>2
<1>e. RefillOnce(r) = r \/ RefillOnce(r) = z
  BY DEF RefillOnce
<1> HIDE DEF best, tried
<1>3. z \in Refills(w, n)
  <2>1. CASE best = {}
    <3>1. z = [r EXCEPT !.failed = TRUE]
      BY <2>1 DEF TakePlacement
    <3>2. z = [plan |-> r.plan, added |-> r.added, considered |-> r.considered, failed |-> TRUE,
               left |-> r.left]
      BY <1>0, <3>1
    <3> HIDE DEF z
    <3> QED
      BY <1>0, <3>2 DEF Refills
  <2>2. CASE best # {}
    <3>1. PICK y \in best : y = The(best)
      BY <2>2 DEF The
    <3>2. IsPlaced(y, r, w, n)
      BY <1>2
    <3> DEFINE left == Selected(r.left, {i \in DOMAIN r.left : r.left[i].place # y.place})
    <3>3. z = [r EXCEPT !.plan = y.plan, !.added = @ \cup {y.place}, !.considered = @ + tried,
                        !.left = left]
      BY <2>2, <3>1 DEF TakePlacement
    <3>4. left \in Seq(SourcesFor(y.plan))
      BY <3>2, SourcesLeft
    <3> HIDE DEF left
    <3>5. z = [plan |-> y.plan, added |-> r.added \cup {y.place}, considered |-> r.considered + tried,
               failed |-> r.failed, left |-> left]
      BY <1>0, <3>3
    <3>6. left \in Seq(Candidates)
      <4>1. SourcesFor(y.plan) \subseteq Candidates
        BY DEF SourcesFor
      <4> QED
        BY <3>4, <4>1, SeqMonotonic
    <3>7. y.plan \in PlansLike(w, n, Places) /\ r.added \cup {y.place} \subseteq Places
          /\ r.considered + tried \in Int
      BY <1>0, <1>1, <3>2 DEF IsPlaced
    <3> HIDE DEF z
    <3> QED
      BY <1>0, <3>4, <3>5, <3>6, <3>7 DEF Refills
  <2> QED
    BY <2>1, <2>2
<1> HIDE DEF z
<1> QED
  BY <1>3, <1>e

\* The rounds of the refill together.
LEMMA RefilledType ==
    ASSUME NEW n \in Nat, NEW w, NEW u \in PlansLike(w, n, Places), pool \in Seq(Candidates)
    PROVE  Refilled(u) \in Refills(w, n)
<1> DEFINE m == RequiredTotal(u)
           T == Refills(w, n)
           base == [plan |-> u, added |-> {}, considered |-> 0, failed |-> FALSE,
                    left |-> Fresh(u, excluded.refill)]
           step == [p \in T \X (1..m) |-> RefillOnce(p[1])]
           Solves(g) == g = [i \in 0..m |-> IF i = 0 THEN base ELSE RefillOnce(g[i - 1])]
<1>0. m \in Nat
  <2>1. Len(u.spots) = n
    BY TripDays DEF PlansLike
  <2> QED
    BY <2>1, OptimizerAssumption DEF RequiredTotal, Least, Most
<1>b. base \in T
  <2>1. Fresh(u, excluded.refill) \in Seq(SourcesFor(u))
    BY FreshType
  <2>2. SourcesFor(u) \subseteq Candidates
    BY DEF SourcesFor
  <2>3. Fresh(u, excluded.refill) \in Seq(Candidates)
    BY <2>1, <2>2, SeqMonotonic
  <2> QED
    BY <2>1, <2>3 DEF Refills
<1>c. \A t \in T : RefillOnce(t) \in T
  BY RefillOnceType
<1>s. Refilled(u) = (CHOOSE g : Solves(g))[m]
  BY DEF Refilled
<1> HIDE DEF T, base, m
<1>d. \A t \in T : \A i \in 1..m : step[<<t, i>>] = RefillOnce(t)
  OBVIOUS
<1>1. IsStep(m, T, step)
  <2> HIDE DEF step
  <2> QED
    BY <1>c, <1>d DEF IsStep
<1>2. PICK h \in RunsOf(m, T, base, step) : TRUE
  <2> HIDE DEF step
  <2>2. RunsOf(m, T, base, step) # {}
    BY <1>0, <1>1, <1>b, RecursionUpTo
  <2> QED
    BY <2>2
<1>3. h \in [0..m -> T] /\ h[0] = base /\ \A i \in 1..m : h[i] = RefillOnce(h[i - 1])
  <2> HIDE DEF step
  <2>1. /\ h \in [0..m -> T] /\ h[0] = base
        /\ \A i \in 1..m : h[i - 1] \in T /\ h[i] = step[<<h[i - 1], i>>]
    <3>1. h \in RunsOf(m, T, base, step) /\ m \in Nat
      BY <1>0, <1>2
    <3> QED
      BY <3>1, RunValues
  <2> QED
    BY <1>d, <2>1
<1>4. Solves(h)
  <2>1. \A i \in 0..m : h[i] = IF i = 0 THEN base ELSE RefillOnce(h[i - 1])
    BY <1>0, <1>3
  <2> QED
    BY <1>3, <2>1
<1>5. PICK g : g = (CHOOSE l : Solves(l)) /\ Solves(g)
  <2> HIDE DEF Solves
  <2> QED
    BY <1>4
<1>7. g[0] = base /\ \A i \in 1..m : g[i] = RefillOnce(g[i - 1])
  <2>1. \A i \in 0..m : g[i] = IF i = 0 THEN base ELSE RefillOnce(g[i - 1])
    BY <1>5
  <2> QED
    BY <1>0, <2>1
<1> DEFINE M == {i \in 0..m : g[i] \in T}
<1>6. Refilled(u) = g[m]
  BY <1>5, <1>s
<1> HIDE DEF Solves, step
<1>8. 0 \in M
  BY <1>0, <1>7, <1>b
<1>9. ASSUME NEW i \in 1..m, i - 1 \in M PROVE i \in M
  <2>1. g[i - 1] \in T /\ g[i] = RefillOnce(g[i - 1]) /\ i \in 0..m
    BY <1>0, <1>7, <1>9
  <2> QED
    BY <1>c, <2>1
<1>10. m \in M
  <2> HIDE DEF M
  <2>1. \A i \in 0..m : i \in M
    BY <1>0, <1>8, <1>9, InductionUpTo
  <2> QED
    BY <1>0, <2>1
<1> QED
  BY <1>6, <1>10 DEF T

-----------------------------------------------------------------------------
(* The pool of sources.                                                    *)

\* Pools name every place once; a pool keeps the first a places of another.
Pools == {q \in Seq(Candidates) : \A i, j \in 1..Len(q) : q[i].place = q[j].place => i = j}
KeepsFirst(z, q, a) == \A i \in 1..a : z[i].place = q[i].place /\ z[i].rating >= q[i].rating

\* A candidate joins the pool or improves its duplicate.
LEMMA CandidateAdded ==
    ASSUME NEW q \in Pools, NEW c \in Candidates
    PROVE  \E z \in Pools :
              /\ z = AddCandidate(q, c) /\ Len(z) >= Len(q) /\ KeepsFirst(z, q, Len(q))
              /\ (\A i \in 1..Len(q) : q[i].place # c.place) => Len(z) = Len(q) + 1 /\ z[Len(q) + 1] = c
<1> DEFINE n == Len(q)
           z == AddCandidate(q, c)
<1>1. /\ q \in Seq(Candidates) /\ DOMAIN q = 1..n /\ n \in Nat
      /\ \A i \in 1..n : q[i] \in Candidates /\ q[i].rating \in Int
      /\ \A i, j \in 1..n : q[i].place = q[j].place => i = j
  <2>1. q \in Seq(Candidates) /\ \A i, j \in 1..n : q[i].place = q[j].place => i = j
    BY DEF Pools
  <2>2. DOMAIN q = 1..n /\ n \in Nat /\ \A i \in 1..n : q[i] \in Candidates
    BY <2>1, LenProperties, ElementOfSeq
  <2> QED
    BY <2>1, <2>2 DEF Candidates
<1>2. CASE \E i \in DOMAIN q : q[i].place = c.place
  <2> DEFINE f == [i \in 1..n |-> IF q[i].place = c.place /\ c.rating > q[i].rating THEN c ELSE q[i]]
  <2>1. z = f
    BY <1>1, <1>2 DEF AddCandidate
  <2>2. ASSUME NEW i \in 1..n
        PROVE  f[i] \in Candidates /\ f[i].place = q[i].place /\ f[i].rating >= q[i].rating
    <3>1. q[i].rating \in Int /\ c.rating \in Int /\ q[i] \in Candidates
      BY <1>1 DEF Candidates
    <3>2. CASE q[i].place = c.place /\ c.rating > q[i].rating
      BY <3>1, <3>2
    <3>3. CASE ~(q[i].place = c.place /\ c.rating > q[i].rating)
      BY <3>1, <3>3
    <3> QED
      BY <3>2, <3>3
  <2>3. f \in [1..n -> Candidates]
    BY <2>2
  <2> HIDE DEF f, z, n
  <2>4. f \in Seq(Candidates) /\ Len(f) = n
    BY <1>1, <2>3
  <2>5. f \in Pools
    BY <1>1, <2>2, <2>4 DEF Pools
  <2>6. KeepsFirst(f, q, n)
    BY <2>2 DEF KeepsFirst
  <2>7. ~\A i \in 1..n : q[i].place # c.place
    BY <1>1, <1>2
  <2>8. Len(f) >= n
    BY <1>1, <2>4
  <2>9. /\ f \in Pools /\ f = AddCandidate(q, c) /\ Len(f) >= Len(q) /\ KeepsFirst(f, q, Len(q))
        /\ ~\A i \in 1..Len(q) : q[i].place # c.place
    BY <2>1, <2>5, <2>6, <2>7, <2>8 DEF z, n
  <2> QED
    BY <2>9, Zenon
<1>3. CASE ~\E i \in DOMAIN q : q[i].place = c.place
  <2>1. z = Append(q, c)
    BY <1>3 DEF AddCandidate
  <2> HIDE DEF z, n
  <2>2. z \in Seq(Candidates) /\ Len(z) = n + 1 /\ z[n + 1] = c /\ \A i \in 1..n : z[i] = q[i]
    BY <1>1, <2>1, AppendProperties DEF n
  <2>3. ASSUME NEW i \in 1..Len(z), NEW j \in 1..Len(z), z[i].place = z[j].place PROVE i = j
    <3>1. CASE i \in 1..n /\ j \in 1..n
      BY <1>1, <2>2, <2>3, <3>1
    <3>2. CASE i = n + 1 /\ j \in 1..n
      BY <1>1, <1>3, <2>2, <2>3, <3>2
    <3>3. CASE j = n + 1 /\ i \in 1..n
      BY <1>1, <1>3, <2>2, <2>3, <3>3
    <3> QED
      BY <1>1, <2>2, <3>1, <3>2, <3>3
  <2>4. z \in Pools
    BY <2>2, <2>3 DEF Pools
  <2>5. KeepsFirst(z, q, n)
    BY <1>1, <2>2 DEF KeepsFirst
  <2> QED
    BY <1>1, <2>2, <2>4, <2>5 DEF z, n
<1> QED
  BY <1>2, <1>3

\* The merged pool keeps what the old one held, up to its limit.
LEMMA MergedPool ==
    ASSUME NEW old \in Pools, NEW received \in Seq(Candidates)
    PROVE  \E z \in Pools :
              /\ z = Merge(old, received)
              /\ Least(Len(old), PoolMax) <= Len(z) /\ KeepsFirst(z, old, Least(Len(old), PoolMax))
<1> DEFINE all == old \o received
           m == Len(all)
           a == Len(old)
           T == Pools
           step == [p \in T \X (1..m) |-> AddCandidate(p[1], all[p[2]])]
           Solves(g) == g = [i \in 0..m |-> IF i = 0 THEN <<>> ELSE AddCandidate(g[i - 1], all[i])]
<1>o. old \in Seq(Candidates) /\ a \in Nat /\ \A i, j \in 1..a : old[i].place = old[j].place => i = j
  <2>1. old \in Seq(Candidates)
    BY DEF Pools
  <2> QED
    BY <2>1, LenProperties DEF Pools
<1>0. /\ all \in Seq(Candidates) /\ m \in Nat /\ a <= m /\ \A i \in 1..m : all[i] \in Candidates
      /\ \A i \in 1..a : all[i] = old[i]
  <2>1. all \in Seq(Candidates) /\ m = a + Len(received) /\ Len(received) \in Nat
        /\ \A i \in 1..a : all[i] = old[i]
    BY <1>o, ConcatProperties, LenProperties
  <2> HIDE DEF all
  <2>2. \A i \in 1..m : all[i] \in Candidates
    BY <2>1, ElementOfSeq
  <2> QED
    BY <1>o, <2>1, <2>2
<1>s. Merge(old, received) = Prefix((CHOOSE g : Solves(g))[m], PoolMax)
  BY DEF Merge
<1> HIDE DEF all, m, a
<1>b. <<>> \in T
  BY EmptySeq DEF Pools
<1>c. \A t \in T : \A i \in 1..m : AddCandidate(t, all[i]) \in T
  BY <1>0, CandidateAdded
<1> HIDE DEF T
<1>d. \A t \in T : \A i \in 1..m : step[<<t, i>>] = AddCandidate(t, all[i])
  OBVIOUS
<1>1. IsStep(m, T, step)
  <2> HIDE DEF step
  <2> QED
    BY <1>c, <1>d DEF IsStep
<1>2. PICK h \in RunsOf(m, T, <<>>, step) : TRUE
  <2> HIDE DEF step
  <2>2. RunsOf(m, T, <<>>, step) # {}
    BY <1>0, <1>1, <1>b, RecursionUpTo
  <2> QED
    BY <2>2
<1>3. h \in [0..m -> T] /\ h[0] = <<>> /\ \A i \in 1..m : h[i] = AddCandidate(h[i - 1], all[i])
  <2> HIDE DEF step
  <2>1. /\ h \in [0..m -> T] /\ h[0] = <<>>
        /\ \A i \in 1..m : h[i - 1] \in T /\ h[i] = step[<<h[i - 1], i>>]
    <3>1. h \in RunsOf(m, T, <<>>, step) /\ m \in Nat
      BY <1>0, <1>2
    <3> QED
      BY <3>1, RunValues
  <2> QED
    BY <1>d, <2>1
<1>4. Solves(h)
  <2>1. \A i \in 0..m : h[i] = IF i = 0 THEN <<>> ELSE AddCandidate(h[i - 1], all[i])
    BY <1>0, <1>3
  <2> QED
    BY <1>3, <2>1
<1>5. PICK g : g = (CHOOSE l : Solves(l)) /\ Solves(g)
  <2> HIDE DEF Solves
  <2> QED
    BY <1>4
<1>6. Merge(old, received) = Prefix(g[m], PoolMax)
  BY <1>5, <1>s
<1>7. g[0] = <<>> /\ \A i \in 1..m : g[i] = AddCandidate(g[i - 1], all[i])
  <2>1. \A i \in 0..m : g[i] = IF i = 0 THEN <<>> ELSE AddCandidate(g[i - 1], all[i])
    BY <1>5
  <2> QED
    BY <1>0, <2>1
<1> HIDE DEF Solves, step
<1> DEFINE Good(v, i) ==
              /\ v \in Pools
              /\ i <= a => Len(v) = i /\ KeepsFirst(v, old, i)
              /\ i > a => Len(v) >= a /\ KeepsFirst(v, old, a)
           M == {i \in 0..m : Good(g[i], i)}
<1>8. 0 \in M
  <2>1. KeepsFirst(<<>>, old, 0) /\ Len(<<>>) = 0 /\ <<>> \in Pools
    BY <1>b DEF KeepsFirst, T
  <2> QED
    BY <1>0, <1>7, <1>o, <2>1
<1>9. ASSUME NEW i \in 1..m, i - 1 \in M PROVE i \in M
  <2>1. PICK v : v = g[i - 1] /\ Good(v, i - 1)
    BY <1>9
  <2>2. PICK c \in Candidates : c = all[i]
    BY <1>0
  <2>3. PICK z \in Pools :
              /\ z = AddCandidate(v, c) /\ Len(z) >= Len(v) /\ KeepsFirst(z, v, Len(v))
              /\ (\A j \in 1..Len(v) : v[j].place # c.place) => Len(z) = Len(v) + 1 /\ z[Len(v) + 1] = c
    BY <2>1, CandidateAdded
  <2>4. g[i] = z /\ i \in 0..m /\ i - 1 \in Nat /\ i \in Nat
    BY <1>0, <1>7, <2>1, <2>2, <2>3
  <2>5. Len(v) \in Nat /\ Len(z) \in Nat /\ (\A j \in 1..Len(v) : v[j].rating \in Int)
        /\ \A j \in 1..Len(z) : z[j].rating \in Int
    <3>1. v \in Seq(Candidates) /\ z \in Seq(Candidates)
      BY <2>1 DEF Pools
    <3>2. \A j \in 1..Len(v) : v[j] \in Candidates
      BY <3>1, ElementOfSeq
    <3>3. \A j \in 1..Len(z) : z[j] \in Candidates
      BY <3>1, ElementOfSeq
    <3> QED
      BY <3>1, <3>2, <3>3, LenProperties DEF Candidates
  <2>r. \A j \in 1..a : old[j].rating \in Int
    <3>1. \A j \in 1..a : old[j] \in Candidates
      BY <1>o, ElementOfSeq DEF a
    <3> QED
      BY <3>1 DEF Candidates
  <2>6. CASE i <= a
    <3>1. Len(v) = i - 1 /\ KeepsFirst(v, old, i - 1)
      BY <1>o, <2>1, <2>4, <2>6
    <3>2. c = old[i]
      BY <1>0, <1>o, <2>2, <2>6
    <3>3. \A j \in 1..Len(v) : v[j].place # c.place
      <4> TAKE j \in 1..Len(v)
      <4>1. v[j].place = old[j].place /\ j \in 1..a /\ i \in 1..a /\ j # i
        BY <1>o, <2>4, <2>6, <3>1 DEF KeepsFirst
      <4> QED
        BY <1>o, <3>2, <4>1
    <3>4. Len(z) = i /\ z[i] = old[i]
      BY <2>3, <2>4, <3>1, <3>2, <3>3
    <3>5. KeepsFirst(z, old, i)
      <4> SUFFICES ASSUME NEW j \in 1..i PROVE z[j].place = old[j].place /\ z[j].rating >= old[j].rating
        BY DEF KeepsFirst
      <4>1. CASE j = i
        BY <1>o, <2>6, <2>r, <3>4, <4>1
      <4>2. CASE j \in 1..(i - 1)
        <5>1. z[j].place = v[j].place /\ z[j].rating >= v[j].rating
              /\ v[j].place = old[j].place /\ v[j].rating >= old[j].rating
          BY <2>3, <3>1, <4>2 DEF KeepsFirst
        <5>2. j \in 1..Len(z) /\ j \in 1..Len(v) /\ j \in 1..a
          BY <1>o, <2>4, <2>6, <3>1, <3>4, <4>2
        <5>3. z[j].rating \in Int /\ v[j].rating \in Int /\ old[j].rating \in Int
          BY <2>5, <2>r, <5>2
        <5> QED
          BY <5>1, <5>3
      <4> QED
        BY <2>4, <4>1, <4>2
    <3> QED
      BY <1>o, <2>4, <2>6, <3>4, <3>5
  <2>7. CASE i > a
    <3>1. Len(v) >= a /\ KeepsFirst(v, old, a)
      <4>1. CASE i - 1 <= a
        <5>1. i - 1 = a
          BY <1>o, <2>4, <2>7, <4>1
        <5> QED
          BY <1>o, <2>1, <4>1, <5>1
      <4>2. CASE i - 1 > a
        BY <2>1, <4>2
      <4> QED
        BY <1>o, <2>4, <4>1, <4>2
    <3>2. Len(z) >= a
      BY <1>o, <2>3, <2>5, <3>1
    <3>3. KeepsFirst(z, old, a)
      <4> SUFFICES ASSUME NEW j \in 1..a PROVE z[j].place = old[j].place /\ z[j].rating >= old[j].rating
        BY DEF KeepsFirst
      <4>1. j \in 1..Len(v) /\ j \in 1..Len(z)
        BY <1>o, <2>5, <3>1, <3>2
      <4>2. z[j].place = v[j].place /\ z[j].rating >= v[j].rating
            /\ v[j].place = old[j].place /\ v[j].rating >= old[j].rating
        BY <2>3, <3>1, <4>1 DEF KeepsFirst
      <4>3. z[j].rating \in Int /\ v[j].rating \in Int /\ old[j].rating \in Int
        BY <2>5, <2>r, <4>1
      <4> QED
        BY <4>2, <4>3
    <3> QED
      BY <1>o, <2>4, <2>7, <3>2, <3>3
  <2> QED
    BY <1>o, <2>4, <2>6, <2>7
<1>10. m \in M
  <2> HIDE DEF M
  <2>1. \A i \in 0..m : i \in M
    BY <1>0, <1>8, <1>9, InductionUpTo
  <2> QED
    BY <1>0, <2>1
<1>11. PICK v \in Pools : v = g[m] /\ Len(v) >= a /\ KeepsFirst(v, old, a)
  <2>1. CASE m <= a
    <3>1. m = a
      BY <1>0, <1>o, <2>1
    <3> QED
      BY <1>10, <1>0, <1>o, <3>1
  <2>2. CASE m > a
    BY <1>10, <2>2
  <2> QED
    BY <1>0, <1>o, <2>1, <2>2
<1>12. /\ v \in Seq(Candidates) /\ Len(v) \in Nat /\ PoolMax \in Nat
       /\ \A i, j \in 1..Len(v) : v[i].place = v[j].place => i = j
  BY LenProperties, OptimizerAssumption DEF Pools
<1>13. PICK k \in 0..Len(v) : k = (IF Len(v) < PoolMax THEN Len(v) ELSE PoolMax)
  BY <1>11, <1>12
<1> DEFINE b == Least(a, PoolMax)
<1>b2. b \in Nat /\ b <= k /\ b <= a
  BY <1>11, <1>12, <1>13, <1>o DEF Least
<1> DEFINE z == SubSeq(v, 1, k)
<1>14. Merge(old, received) = z
  BY <1>6, <1>11, <1>13 DEF Prefix
<1>15. z \in Seq(Candidates) /\ Len(z) = k /\ \A i \in 1..k : z[i] = v[i]
  BY <1>12, PrefixOfSeq
<1> HIDE DEF z
<1>16. z \in Pools
  BY <1>12, <1>13, <1>15 DEF Pools
<1> HIDE DEF b
<1>17. KeepsFirst(z, old, b)
  <2> SUFFICES ASSUME NEW i \in 1..b PROVE z[i].place = old[i].place /\ z[i].rating >= old[i].rating
    BY DEF KeepsFirst
  <2>1. i \in 1..k /\ i \in 1..a
    BY <1>b2, <1>13, <1>o
  <2>2. z[i] = v[i]
    BY <1>15, <2>1
  <2> QED
    BY <1>11, <2>1, <2>2 DEF KeepsFirst
<1> QED
  BY <1>b2, <1>13, <1>14, <1>15, <1>16, <1>17 DEF a, b

\* A pool offers as many attractions as it lists.
LEMMA PoolIsCounted ==
    ASSUME NEW q \in Pools
    PROVE  Cardinality({q[i].place : i \in DOMAIN q}) = Len(q)
<1> DEFINE f == [i \in 1..Len(q) |-> q[i].place]
<1>1. q \in Seq(Candidates) /\ Len(q) \in Nat /\ DOMAIN q = 1..Len(q)
  BY LenProperties DEF Pools
<1>2. \A i \in 1..Len(q) : q[i] \in Candidates
  BY <1>1, ElementOfSeq
<1>3. f \in [1..Len(q) -> Places] /\ \A i \in 1..Len(q) : f[i] = q[i].place
  BY <1>2 DEF Candidates
<1> HIDE DEF f
<1>4. f \in Seq(Places) /\ Len(f) = Len(q)
  BY <1>1, <1>3
<1>5. NoRepeat(f)
  BY <1>3, <1>4 DEF NoRepeat, Pools
<1>6. Cardinality(ToSet(f)) = Len(q)
  BY <1>4, <1>5, NoRepeatCounts
<1>7. ToSet(f) = {q[i].place : i \in DOMAIN q}
  <2>1. ToSet(f) = {f[i] : i \in 1..Len(q)}
    BY <1>4, ToSetIn
  <2> QED
    BY <1>1, <1>3, <2>1
<1> QED
  BY <1>6, <1>7

\* A plan without repetitions uses as many attractions as it lists.
LEMMA UsedAreCounted ==
    ASSUME NEW n \in Nat, NEW w \in TripsOf(n), EachOnce(w)
    PROVE  Cardinality(Used(w)) = CountAttractions(w)
<1> DEFINE f == [d \in 1..n |-> Len(w.spots[d])]
           U(k) == UNION {ToSet(w.spots[d]) : d \in 1..k}
<1>1. Days(w) = 1..n /\ \A d \in 1..n : w.spots[d] \in Seq(Places) /\ Len(w.spots[d]) \in Nat
  BY TripDays, LenProperties
<1>2. f \in [1..n -> Int]
  BY <1>1
<1>3. f \in Seq(Int) /\ Len(f) = n
  <2> HIDE DEF f
  <2> QED
    BY <1>2
<1>4. CountAttractions(w) = Total(f)
  BY <1>1 DEF CountAttractions
<1>5. PICK g : AreSums(g, f) /\ Total(f) = g[Len(f)]
  <2> HIDE DEF f
  <2> QED
    BY <1>3, TotalIsLastSum
<1>6. g[0] = 0 /\ \A k \in 1..n : g[k] = g[k - 1] + Len(w.spots[k])
  <2>1. \A k \in 1..n : f[k] = Len(w.spots[k])
    OBVIOUS
  <2> HIDE DEF f
  <2> QED
    BY <1>3, <1>5, <2>1 DEF AreSums
<1>7. /\ \A d \in 1..n : NoRepeat(w.spots[d])
      /\ \A d, e \in 1..n : d # e => ToSet(w.spots[d]) \cap ToSet(w.spots[e]) = {}
      /\ Used(w) = U(n)
  BY OnceByDays
<1> HIDE DEF f
<1> DEFINE Good(k) == IsFiniteSet(U(k)) /\ Cardinality(U(k)) = g[k]
           M == {k \in 0..n : Good(k)}
<1>8. 0 \in M
  <2>1. U(0) = {}
    OBVIOUS
  <2>2. Good(0)
    <3> HIDE DEF U
    <3> QED
      BY <1>6, <2>1, FS_EmptySet
  <2> HIDE DEF Good
  <2> QED
    BY <2>2
<1>9. ASSUME NEW k \in 1..n, k - 1 \in M PROVE k \in M
  <2> DEFINE A == U(k - 1)
             B == ToSet(w.spots[k])
  <2>1. U(k) = A \cup B
    <3>1. 1..k = (1..(k - 1)) \cup {k}
      OBVIOUS
    <3> QED
      BY <3>1
  <2>2. A \cap B = {}
    <3>1. \A d \in 1..(k - 1) : d \in 1..n /\ d # k
      OBVIOUS
    <3> QED
      BY <1>7, <3>1
  <2>3. IsFiniteSet(B) /\ Cardinality(B) = Len(w.spots[k])
    BY <1>1, <1>7, NoRepeatCounts
  <2>4. IsFiniteSet(A) /\ Cardinality(A) = g[k - 1]
    BY <1>9
  <2> HIDE DEF A, B, U
  <2>5. IsFiniteSet(A \cup B) /\ Cardinality(A \cup B) = Cardinality(A) + Cardinality(B) - Cardinality({})
    BY <2>2, <2>3, <2>4, FS_Union
  <2>6. Cardinality({}) = 0 /\ Cardinality(A) \in Nat /\ Cardinality(B) \in Nat
    BY <2>3, <2>4, FS_EmptySet, FS_CardinalityType
  <2>7. Cardinality(A \cup B) = g[k]
    BY <1>6, <2>3, <2>4, <2>5, <2>6
  <2>8. Good(k)
    BY <2>1, <2>5, <2>7
  <2> HIDE DEF Good
  <2> QED
    BY <2>8
<1>10. Good(n)
  <2> HIDE DEF M
  <2>1. \A i \in 0..n : i \in M
    BY <1>8, <1>9, InductionUpTo
  <2>2. n \in M
    BY <2>1
  <2> QED
    BY <2>2 DEF M
<1> HIDE DEF U
<1> QED
  BY <1>3, <1>4, <1>5, <1>7, <1>10

\* Restaurants are searched for the meals of the plan's days.
LEMMA SearchAnchorsType ==
    ASSUME NEW n \in Nat, NEW w \in TripsOf(n)
    PROVE  SearchAnchors(w) \subseteq (1..n) \X {"breakfast", "lunch", "dinner"}
<1> DEFINE S == (1..n) \X {"breakfast", "lunch", "dinner"}
           I == {d \in Days(w) : w.spots[d] # <<>> \/ HasStart(w, d)}
           placed == Selected(UpTo(Len(w.spots)), I)
           of(meal) == [i \in DOMAIN placed |-> <<placed[i], meal>>]
           rest == SubSeq(of("breakfast"), 2, Len(placed))
           all == of("lunch") \o Prefix(of("breakfast"), 1) \o of("dinner") \o rest
<1>0. SearchAnchors(w) = ToSet(Prefix(all, MaxAnchors))
  BY DEF SearchAnchors
<1>1. placed \in Seq(1..n)
  <2>1. Len(w.spots) = n
    BY TripDays
  <2>2. UpTo(n) \in Seq(1..n)
    BY DEF UpTo
  <2> HIDE DEF I
  <2> QED
    BY <2>1, <2>2, SelectedLists
<1> HIDE DEF placed
<1>2. DOMAIN placed = 1..Len(placed) /\ Len(placed) \in Nat /\ \A i \in 1..Len(placed) : placed[i] \in 1..n
  BY <1>1, LenProperties, ElementOfSeq
<1>3. ASSUME NEW meal \in {"breakfast", "lunch", "dinner"} PROVE of(meal) \in Seq(S) /\ Len(of(meal)) = Len(placed)
  <2>1. of(meal) \in [1..Len(placed) -> S]
    BY <1>2
  <2> HIDE DEF of, S
  <2> QED
    BY <1>2, <2>1
<1> HIDE DEF of, S
<1>4. of("lunch") \in Seq(S) /\ of("breakfast") \in Seq(S) /\ of("dinner") \in Seq(S)
      /\ Len(of("breakfast")) = Len(placed)
  BY <1>3
<1>5. PICK b \in Seq(S) : b = of("breakfast") /\ Len(b) = Len(placed)
  BY <1>4
<1>6. Prefix(b, 1) \in Seq(S)
  BY PrefixIn
<1>7. SubSeq(b, 2, Len(placed)) \in Seq(S)
  <2>1. DOMAIN b = 1..Len(b)
    BY LenProperties
  <2>2. \A i \in 1..Len(b) : b[i] \in S
    BY ElementOfSeq
  <2>3. \A i \in 2..Len(placed) : b[i] \in S
    BY <1>2, <1>5, <2>2
  <2> QED
    BY <1>2, <2>3, SubSeqProperties
<1>8. all \in Seq(S)
  <2>1. PICK x \in Seq(S), y \in Seq(S), c \in Seq(S), e \in Seq(S) :
           x = of("lunch") /\ y = Prefix(of("breakfast"), 1) /\ c = of("dinner") /\ e = rest
    BY <1>4, <1>5, <1>6, <1>7
  <2>2. x \o y \in Seq(S)
    BY ConcatProperties
  <2>3. (x \o y) \o c \in Seq(S)
    BY <2>2, ConcatProperties
  <2>4. ((x \o y) \o c) \o e \in Seq(S)
    BY <2>3, ConcatProperties
  <2> QED
    BY <2>1, <2>4
<1> HIDE DEF all
<1>9. Prefix(all, MaxAnchors) \in Seq(S)
  BY <1>8, PrefixIn, TimelineAssumption
<1>10. PICK q \in Seq(S) : q = Prefix(all, MaxAnchors)
  BY <1>9
<1>11. ToSet(q) \subseteq S
  BY ToSetIn
<1> QED
  BY <1>0, <1>10, <1>11 DEF S

\* What a search returns.
LEMMA AnswersType ==
    ASSUME NEW anchors, NEW k
    PROVE  Answers(anchors, k) \subseteq Seq(Candidates)
<1>1. \A c \in Nearby : c \in Candidates
  BY OptimizerAssumption
<1>2. \A c \in Candidates : <<c>> \in Seq(Candidates)
  OBVIOUS
<1>3. <<>> \in Seq(Candidates)
  BY EmptySeq
<1> QED
  BY <1>1, <1>2, <1>3 DEF Answers

-----------------------------------------------------------------------------
(* The steps.                                                              *)

\* The inductive invariant of the optimizers: the plan is one of Len(trip.spots)
\* days, repeats nothing and tells the truth about its meals; the pool has each
\* source once; and the reports are those of this plan with these roads and these
\* sources.
PlanIsSound ==
    /\ trip \in TripsOf(Len(trip.spots)) /\ Len(trip.spots) \in Nat
    /\ EachOnce(trip) /\ HonestMeals(trip)
PIInv ==
    /\ PlanIsSound /\ pool \in Pools /\ IsRoads(roads)
    /\ report = Evaluate(trip, roads, Known)
    /\ excluded \in [commute : SUBSET Places, refill : SUBSET Places]
    /\ searches \in [commute : 0..MaxSearches, refill : 0..MaxSearches]
    /\ searched \subseteq Days(trip) \X {"breakfast", "lunch", "dinner"}

\* The empty plan.
LEMMA NoTripType ==
    NoTrip \in TripsOf(0) /\ Len(NoTrip.spots) = 0 /\ EachOnce(NoTrip) /\ HonestMeals(NoTrip)
    /\ Used(NoTrip) = {} /\ Days(NoTrip) = {}
<1> DEFINE z == NoTrip
<1>1. z.spots = <<>> /\ z.hotel = <<>> /\ z.text = <<>> /\ z.meals = <<>>
  BY DEF NoTrip
<1>2. z \in TripsOf(0)
  <2>1. \A S : <<>> \in [1..0 -> S]
    <3> TAKE S
    <3>1. <<>> \in Seq(S) /\ Len(<<>>) = 0
      BY EmptySeq
    <3> QED
      BY <3>1, LenProperties
  <2>2. [p \in Places |-> 0] \in [Places -> Nat]
    OBVIOUS
  <2> QED
    BY <2>1, <2>2 DEF TripsOf, NoTrip
<1> HIDE DEF z
<1>3. Days(z) = {}
  BY <1>2, TripDays
<1>4. Len(z.spots) = 0
  BY <1>2, TripDays
<1>5. EachOnce(z) /\ HonestMeals(z) /\ Used(z) = {}
  BY <1>3 DEF EachOnce, HonestMeals, Used
<1> QED
  BY <1>2, <1>3, <1>4, <1>5 DEF z

\* The first state.
LEMMA PlanStarts == PlanInit => PIInv
<1> SUFFICES ASSUME PlanInit PROVE PIInv
  OBVIOUS
<1>1. /\ trip = NoTrip /\ roads = NoRoads /\ pool \in FirstPools /\ excluded = [commute |-> {}, refill |-> {}]
      /\ report = Evaluate(trip, roads, Known) /\ searched = {} /\ searches = [commute |-> 0, refill |-> 0]
  BY DEF PlanInit, Verified
<1>2. PlanIsSound
  BY <1>1, NoTripType DEF PlanIsSound
<1>3. pool \in Pools
  <2>1. pool \in Seq(Candidates) /\ \A i, j \in DOMAIN pool : pool[i].place = pool[j].place => i = j
    BY <1>1, OptimizerAssumption
  <2>2. DOMAIN pool = 1..Len(pool)
    BY <2>1, LenProperties
  <2> QED
    BY <2>1, <2>2 DEF Pools
<1>4. IsRoads(roads)
  BY <1>1, NoRoadsAreRoads
<1>5. MaxSearches \in Nat
  BY OptimizerAssumption
<1>6. excluded \in [commute : SUBSET Places, refill : SUBSET Places]
      /\ searches \in [commute : 0..MaxSearches, refill : 0..MaxSearches]
  BY <1>1, <1>5
<1> QED
  BY <1>1, <1>2, <1>3, <1>4, <1>6 DEF PIInv

\* A plan that differs from the stored one in its attractions only.
LEMMA LikeTheStored ==
    ASSUME PIInv, NEW n, n = Len(trip.spots)
    PROVE  n \in Nat /\ trip \in TripsOf(n) /\ trip \in PlansLike(trip, n, Places) /\ pool \in Seq(Candidates)
<1>1. n \in Nat /\ trip \in TripsOf(n) /\ EachOnce(trip) /\ pool \in Seq(Candidates)
  BY DEF PIInv, PlanIsSound, Pools
<1>2. Used(trip) \subseteq Places
  BY <1>1, OnceByDays
<1> QED
  BY <1>1, <1>2 DEF PlansLike

\* The verified candidate is stored, or the plan stays.
LEMMA SettleKeeps ==
    ASSUME PIInv, NEW u \in PlansLike(trip, Len(trip.spots), Places), NEW r, r = Verified(u), NEW accepted,
           Settle(u, r, accepted), UNCHANGED <<roads, pool, searched, searches>>,
           excluded' \in [commute : SUBSET Places, refill : SUBSET Places]
    PROVE  PIInv'
<1>1. PICK n \in Nat : n = Len(trip.spots) /\ trip \in PlansLike(trip, n, Places) /\ trip \in TripsOf(n)
  BY LikeTheStored
<1>2. \/ trip' = u /\ report' = Evaluate(u, roads, Known)
      \/ trip' = trip /\ report' = Evaluate(trip, roads, Known)
  BY DEF Settle, Verified, PIInv
<1>3. PICK z \in PlansLike(trip, n, Places) : trip' = z /\ report' = Evaluate(z, roads, Known)
  BY <1>1, <1>2
<1>4. z \in TripsOf(n) /\ EachOnce(z) /\ z.meals = trip.meals
  BY DEF PlansLike
<1>5. Len(z.spots) = n /\ Days(z) = Days(trip)
  BY <1>1, <1>4, TripDays
<1>6. HonestMeals(z)
  BY <1>4, <1>5 DEF HonestMeals, PIInv, PlanIsSound
<1>7. Known' = Known
  BY DEF Known
<1>8. PlanIsSound'
  BY <1>3, <1>4, <1>5, <1>6 DEF PlanIsSound
<1>9. pool' \in Pools
  BY DEF PIInv
<1>10. report' = Evaluate(trip', roads', Known')
  BY <1>3, <1>7
<1>11. searched' \subseteq Days(trip') \X {"breakfast", "lunch", "dinner"}
  BY <1>3, <1>5 DEF PIInv
<1> QED
  BY <1>8, <1>9, <1>10, <1>11 DEF PIInv

\* What every optimizer does: a candidate that differs in attractions is verified
\* and stored, unless more legs would be without a route.
Exchange(u, accepted) ==
    /\ u \in PlansLike(trip, Len(trip.spots), Places)
    /\ Settle(u, Verified(u), accepted)
    /\ accepted => Verified(u).quality.lost <= report.quality.lost
    /\ UNCHANGED <<roads, pool, searched, searches>>
    /\ excluded' \in [commute : SUBSET Places, refill : SUBSET Places]
Exchanged == \E u : \E accepted \in BOOLEAN : Exchange(u, accepted)

\* The route optimizer exchanges plans.
LEMMA OptimizeRoutesExchanges ==
    ASSUME PIInv, OptimizeRoutes
    PROVE  Exchanged
<1>1. PICK n \in Nat : n = Len(trip.spots) /\ trip \in PlansLike(trip, n, Places)
  BY LikeTheStored
<1>2. PICK u \in RouteCandidate(trip) : Settle(u, Verified(u), RouteAccepted(report, Verified(u)))
  BY DEF OptimizeRoutes
<1>3. u \in PlansLike(trip, n, Places)
  BY <1>1, RouteCandidateType
<1>4. excluded' \in [commute : SUBSET Places, refill : SUBSET Places]
      /\ UNCHANGED <<roads, pool, searched, searches>>
  BY DEF OptimizeRoutes, PIInv
<1>5. PICK a \in BOOLEAN : a <=> RouteAccepted(report, Verified(u))
  OBVIOUS
<1>6. Settle(u, Verified(u), a)
  BY <1>2, <1>5 DEF Settle
<1>7. a => Verified(u).quality.lost <= report.quality.lost
  BY <1>5 DEF RouteAccepted, RoutesSafe
<1>8. Exchange(u, a)
  BY <1>1, <1>3, <1>4, <1>6, <1>7 DEF Exchange
<1> QED
  BY <1>8 DEF Exchanged

\* The schedule optimizer exchanges plans.
LEMMA OptimizeScheduleExchanges ==
    ASSUME PIInv, OptimizeSchedule
    PROVE  Exchanged
<1>1. PICK n \in Nat : n = Len(trip.spots) /\ trip \in PlansLike(trip, n, Places) /\ trip \in TripsOf(n)
  BY LikeTheStored
<1> DEFINE worst == WorstDay(report.schedule.days)
<1>2. PICK u \in ScheduleCandidate(Costed(trip, <<>>), worst) :
         Settle(u, Verified(u), ScheduleAccepted(report, Verified(u)))
  BY DEF OptimizeSchedule
<1>3. worst \subseteq 1..n
  <2>1. report.schedule.days = Schedule(trip, roads)
    BY DEF PIInv, Evaluate, Report, ScheduleTotals
  <2>2. DOMAIN Schedule(trip, roads) = 1..n
    BY <1>1, TripDays DEF Schedule
  <2> QED
    BY <2>1, <2>2 DEF WorstDay
<1> HIDE DEF worst
<1>4. u \in PlansLike(trip, n, Places)
  BY <1>1, <1>3, <1>2, ScheduleCandidateType
<1>5. excluded' \in [commute : SUBSET Places, refill : SUBSET Places]
      /\ UNCHANGED <<roads, pool, searched, searches>>
  BY DEF OptimizeSchedule, PIInv
<1>6. PICK a \in BOOLEAN : a <=> ScheduleAccepted(report, Verified(u))
  OBVIOUS
<1>7. Settle(u, Verified(u), a)
  BY <1>2, <1>6 DEF Settle
<1>8. a => Verified(u).quality.lost <= report.quality.lost
  BY <1>6 DEF ScheduleAccepted, RoutesSafe
<1>9. Exchange(u, a)
  BY <1>1, <1>4, <1>5, <1>7, <1>8 DEF Exchange
<1> QED
  BY <1>9 DEF Exchanged

\* The constraint optimizer exchanges plans.
LEMMA OptimizeConstraintsExchanges ==
    ASSUME PIInv, OptimizeConstraints
    PROVE  Exchanged
<1>1. PICK n \in Nat : n = Len(trip.spots) /\ trip \in PlansLike(trip, n, Places) /\ trip \in TripsOf(n)
  BY LikeTheStored
<1> DEFINE S == report.constraints.all
           q == Actionable(S)
<1>2. PICK u \in ConstraintCandidate(trip, q, Approximate(trip)) :
         Settle(u, Verified(u), ConstraintsAccepted(report, Verified(u)))
  BY DEF OptimizeConstraints
<1>3. IsFiniteSet(S) /\ S \subseteq IssuesOf(n)
  <2>1. S = Issues(trip, Schedule(trip, roads), Known)
    BY DEF PIInv, Evaluate, Report, IssueTotals
  <2> QED
    BY <1>1, <2>1, IssuesType
<1> HIDE DEF S
<1>4. q \in Seq(S)
  BY <1>3, ActionableType
<1> HIDE DEF q
<1>5. q \in Seq(IssuesOf(n))
  BY <1>3, <1>4, SeqMonotonic
<1>6. u \in PlansLike(trip, n, Places)
  BY <1>1, <1>2, <1>5, ConstraintCandidateType
<1>7. excluded' \in [commute : SUBSET Places, refill : SUBSET Places]
      /\ UNCHANGED <<roads, pool, searched, searches>>
  BY DEF OptimizeConstraints, PIInv
<1>8. PICK a \in BOOLEAN : a <=> ConstraintsAccepted(report, Verified(u))
  OBVIOUS
<1>9. Settle(u, Verified(u), a)
  BY <1>2, <1>8 DEF Settle
<1>10. a => Verified(u).quality.lost <= report.quality.lost
  BY <1>8 DEF ConstraintsAccepted, RoutesSafe
<1>11. Exchange(u, a)
  BY <1>1, <1>6, <1>7, <1>9, <1>10 DEF Exchange
<1> QED
  BY <1>11 DEF Exchanged

\* The replacement of a remote attraction exchanges plans.
LEMMA ReplaceExchanges ==
    ASSUME PIInv, ReplaceRemoteAttraction
    PROVE  Exchanged
<1>1. PICK n \in Nat : /\ n = Len(trip.spots) /\ trip \in PlansLike(trip, n, Places) /\ trip \in TripsOf(n)
                       /\ pool \in Seq(Candidates)
  BY LikeTheStored
<1>2. PICK c \in ReplacementCandidate(trip) :
         /\ Settle(c.plan, Verified(c.plan), ReplacementAccepted(c, Verified(c.plan)))
         /\ excluded' = IF ReplacementAccepted(c, Verified(c.plan)) THEN excluded
                        ELSE [excluded EXCEPT !.commute = @ \cup {c.place}]
  BY DEF ReplaceRemoteAttraction
<1>3. TargetsExist(report.commute, trip, n)
  <2>1. report.commute = CommuteIssues(trip, roads)
    BY DEF PIInv, Evaluate, Report
  <2>2. \A x \in report.commute : x.day \in 1..n /\ x.target \in DOMAIN trip.spots[x.day]
    BY <1>1, <2>1, TargetsAreEnds
  <2>3. \A d \in 1..n : DOMAIN trip.spots[d] = 1..Len(trip.spots[d])
    BY <1>1, OnceByDays
  <2> QED
    BY <2>2, <2>3 DEF TargetsExist
<1>4. c.plan \in PlansLike(trip, n, Places) /\ c.place \in Places
  BY <1>1, <1>3, ReplacementCandidateType
<1>5. excluded' \in [commute : SUBSET Places, refill : SUBSET Places]
  <2>1. excluded \in [commute : SUBSET Places, refill : SUBSET Places]
    BY DEF PIInv
  <2>2. [excluded EXCEPT !.commute = @ \cup {c.place}] \in [commute : SUBSET Places, refill : SUBSET Places]
    BY <1>4, <2>1
  <2> QED
    BY <1>2, <2>1, <2>2
<1>6. UNCHANGED <<roads, pool, searched, searches>>
  BY DEF ReplaceRemoteAttraction
<1>u. PICK u : u = c.plan
  OBVIOUS
<1>7. PICK a \in BOOLEAN : a <=> ReplacementAccepted(c, Verified(u))
  OBVIOUS
<1>8. Settle(u, Verified(u), a)
  BY <1>2, <1>7, <1>u DEF Settle
<1>9. a => Verified(u).quality.lost <= report.quality.lost
  BY <1>7 DEF ReplacementAccepted
<1>10. Exchange(u, a)
  BY <1>1, <1>4, <1>5, <1>6, <1>7, <1>8, <1>9, <1>u DEF Exchange
<1> QED
  BY <1>10 DEF Exchanged

\* The refill exchanges plans.
LEMMA RefillExchanges ==
    ASSUME PIInv, RefillAttractions
    PROVE  Exchanged
<1>1. PICK n \in Nat : /\ n = Len(trip.spots) /\ trip \in PlansLike(trip, n, Places) /\ trip \in TripsOf(n)
                       /\ pool \in Seq(Candidates)
  BY LikeTheStored
<1>2. PICK c \in RefillCandidate(trip) :
         /\ Settle(c.plan, Verified(c.plan), RefillAccepted(c.plan, Verified(c.plan)))
         /\ excluded' = IF RefillAccepted(c.plan, Verified(c.plan)) THEN excluded
                        ELSE [excluded EXCEPT !.refill = @ \cup c.added]
  BY DEF RefillAttractions
<1>3. c = Refilled(trip)
  BY DEF RefillCandidate
<1>4. c.plan \in PlansLike(trip, n, Places) /\ c.added \subseteq Places
  <2>1. c \in Refills(trip, n)
    BY <1>1, <1>3, RefilledType
  <2> QED
    BY <2>1 DEF Refills
<1>5. excluded' \in [commute : SUBSET Places, refill : SUBSET Places]
  <2>1. excluded \in [commute : SUBSET Places, refill : SUBSET Places]
    BY DEF PIInv
  <2>2. [excluded EXCEPT !.refill = @ \cup c.added] \in [commute : SUBSET Places, refill : SUBSET Places]
    BY <1>4, <2>1
  <2> QED
    BY <1>2, <2>1, <2>2
<1>6. UNCHANGED <<roads, pool, searched, searches>>
  BY DEF RefillAttractions
<1>u. PICK u : u = c.plan
  OBVIOUS
<1>7. PICK a \in BOOLEAN : a <=> RefillAccepted(u, Verified(u))
  OBVIOUS
<1>8. Settle(u, Verified(u), a)
  BY <1>2, <1>7, <1>u DEF Settle
<1>9. a => Verified(u).quality.lost <= report.quality.lost
  BY <1>7 DEF RefillAccepted, RoutesSafe
<1>10. Exchange(u, a)
  BY <1>1, <1>4, <1>5, <1>6, <1>7, <1>8, <1>9, <1>u DEF Exchange
<1> QED
  BY <1>10 DEF Exchanged

\* The planner's plan becomes the plan.
LEMMA GeneratePlanKeeps ==
    ASSUME PIInv, GeneratePlan
    PROVE  PIInv'
<1>1. /\ trip = NoTrip /\ trip' \in FirstPlans /\ roads' \in Roads
      /\ report' = Evaluate(trip', roads', Known)
      /\ UNCHANGED <<pool, excluded, searched, searches>>
  BY DEF GeneratePlan
<1>2. PICK z \in FirstPlans : z = trip'
  BY <1>1
<1>3. /\ z \in TripsOf(Len(z.spots)) /\ EachOnce(z)
      /\ \A d \in Days(z) : \A k \in DOMAIN z.meals[d] : z.meals[d][k].status # "open"
  BY OptimizerAssumption
<1>4. Len(z.spots) \in Nat
  <2>1. z.spots \in Seq(Seq(Places))
    BY OptimizerAssumption
  <2> QED
    BY <2>1, LenProperties
<1>5. HonestMeals(z)
  BY <1>3 DEF HonestMeals, Honest
<1>6. Known' = Known
  BY <1>1 DEF Known
<1>7. PlanIsSound'
  BY <1>2, <1>3, <1>4, <1>5 DEF PlanIsSound
<1>8. pool' \in Pools
  BY <1>1 DEF PIInv
<1>9. IsRoads(roads')
  BY <1>1 DEF IsRoads
<1>10. searched = {}
  BY <1>1, NoTripType DEF PIInv
<1> QED
  BY <1>1, <1>6, <1>7, <1>8, <1>9, <1>10 DEF PIInv

\* A supplement search: what the pool gains and keeps.
LEMMA SupplementGrowsPool ==
    ASSUME PIInv, NEW anchors, NEW k, Supplement(anchors, k)
    PROVE  /\ pool' \in Pools /\ Least(Len(pool), PoolMax) <= Len(pool')
           /\ KeepsFirst(pool', pool, Least(Len(pool), PoolMax))
<1>1. PICK a \in Answers(anchors, k) : pool' = Merge(pool, a)
  BY DEF Supplement
<1>2. a \in Seq(Candidates)
  BY AnswersType
<1>3. pool \in Pools
  BY DEF PIInv
<1> QED
  BY <1>1, <1>2, <1>3, MergedPool

\* A supplement search keeps the invariant, but for its counter.
LEMMA SupplementKeeps ==
    ASSUME PIInv, NEW anchors, NEW k, Supplement(anchors, k),
           searches' \in [commute : 0..MaxSearches, refill : 0..MaxSearches]
    PROVE  PIInv'
<1>1. pool' \in Pools
  BY SupplementGrowsPool
<1>2. /\ report' = Evaluate(trip, roads, SourcesIn(pool'))
      /\ trip' = trip /\ roads' = roads /\ excluded' = excluded /\ searched' = searched
  BY DEF Supplement
<1>3. Known' = SourcesIn(pool')
  BY DEF Known
<1>4. PlanIsSound'
  BY <1>2 DEF PIInv, PlanIsSound
<1>5. report' = Evaluate(trip', roads', Known')
  BY <1>2, <1>3
<1> QED
  BY <1>1, <1>2, <1>4, <1>5 DEF PIInv

\* A search for the commute.
LEMMA SupplementForCommuteKeeps ==
    ASSUME PIInv, SupplementForCommute
    PROVE  PIInv'
<1>1. PICK a : Supplement(a, searches.commute)
  BY DEF SupplementForCommute
<1>2. searches' = [searches EXCEPT !.commute = @ + 1] /\ searches.commute < MaxSearches
      /\ searches \in [commute : 0..MaxSearches, refill : 0..MaxSearches] /\ MaxSearches \in Nat
  BY OptimizerAssumption DEF SupplementForCommute, PIInv
<1>3. searches' \in [commute : 0..MaxSearches, refill : 0..MaxSearches]
  <2>1. searches.commute + 1 \in 0..MaxSearches
    BY <1>2
  <2> QED
    BY <1>2, <2>1
<1> QED
  BY <1>1, <1>3, SupplementKeeps

\* A search for the refill.
LEMMA SupplementForRefillKeeps ==
    ASSUME PIInv, SupplementForRefill
    PROVE  PIInv'
<1>1. PICK a : Supplement(a, searches.refill)
  BY DEF SupplementForRefill
<1>2. searches' = [searches EXCEPT !.refill = @ + 1] /\ searches.refill < MaxSearches
      /\ searches \in [commute : 0..MaxSearches, refill : 0..MaxSearches] /\ MaxSearches \in Nat
  BY OptimizerAssumption DEF SupplementForRefill, PIInv
<1>3. searches' \in [commute : 0..MaxSearches, refill : 0..MaxSearches]
  <2>1. searches.refill + 1 \in 0..MaxSearches
    BY <1>2
  <2> QED
    BY <1>2, <2>1
<1> QED
  BY <1>1, <1>3, SupplementKeeps

\* Restaurants are searched.
LEMMA SearchMealsKeeps ==
    ASSUME PIInv, SearchMeals
    PROVE  PIInv'
<1>1. searched' = SearchAnchors(trip) /\ UNCHANGED <<trip, roads, report, pool, excluded, searches>>
  BY DEF SearchMeals
<1>2. PICK n \in Nat : n = Len(trip.spots) /\ trip \in TripsOf(n)
  BY LikeTheStored
<1>3. SearchAnchors(trip) \subseteq Days(trip) \X {"breakfast", "lunch", "dinner"}
  <2>1. Days(trip) = 1..n
    BY <1>2, TripDays
  <2> QED
    BY <1>2, <2>1, SearchAnchorsType
<1>4. PlanIsSound' /\ pool' \in Pools
  BY <1>1 DEF PIInv, PlanIsSound
<1>5. Known' = Known
  BY <1>1 DEF Known
<1> QED
  BY <1>1, <1>3, <1>4, <1>5 DEF PIInv

\* The rebuilt plan, or the one before it: the same attractions, and restaurants that are
\* open when called so.
LEMMA RebuiltFromReport ==
    ASSUME PIInv, RebuildPlan, NEW n \in Nat, n = Len(trip.spots)
    PROVE  \E z \in TripsOf(n) : /\ z.spots = trip.spots /\ z.hotel = trip.hotel /\ HonestMeals(z)
                                 /\ trip' = z /\ report' = Evaluate(z, roads, Known)
<1>1. trip \in TripsOf(n) /\ IsRoads(roads)
  BY LikeTheStored DEF PIInv
<1>2. PICK s : s = report.schedule.days
  OBVIOUS
<1>3. \A d \in 1..n : Sound(s[d])
  <2>1. s = Evaluate(trip, roads, Known).schedule.days
    BY <1>2 DEF PIInv
  <2>2. Days(trip) = 1..n
    BY <1>1, TripDays
  <2>3. \A d \in Days(trip) : \E t \in {Evaluate(trip, roads, Known).schedule.days[d]} : Sound(t)
    BY <1>1, ScheduleReported DEF AddsUp
  <2> QED
    BY <2>1, <2>2, <2>3
<1>4. PICK u \in TripsOf(n) :
         /\ u = Rebuilt(trip, roads, s, searched)
         /\ u.spots = trip.spots /\ u.hotel = trip.hotel /\ HonestMeals(u)
  BY <1>1, <1>3, RebuiltPlan
<1>5. \/ trip' = u /\ report' = Evaluate(u, roads, Known)
      \/ trip' = trip /\ report' = report
  BY <1>2, <1>4 DEF RebuildPlan, Settle, Verified
<1>6. HonestMeals(trip) /\ report = Evaluate(trip, roads, Known)
  BY DEF PIInv, PlanIsSound
<1> QED
  BY <1>1, <1>4, <1>5, <1>6

\* The plan is rebuilt.
LEMMA RebuildPlanKeeps ==
    ASSUME PIInv, RebuildPlan
    PROVE  PIInv'
<1>1. PICK n \in Nat : n = Len(trip.spots) /\ trip \in TripsOf(n)
  BY LikeTheStored
<1>2. PICK z \in TripsOf(n) : /\ z.spots = trip.spots /\ HonestMeals(z)
                              /\ trip' = z /\ report' = Evaluate(z, roads, Known)
  BY <1>1, RebuiltFromReport
<1>3. UNCHANGED <<roads, pool, excluded, searched, searches>>
  BY DEF RebuildPlan
<1>4. Known' = Known
  BY <1>3 DEF Known
<1>5. EachOnce(z) /\ Days(z) = Days(trip)
  BY <1>2 DEF PIInv, PlanIsSound, EachOnce, Days
<1>6. PlanIsSound'
  BY <1>1, <1>2, <1>5 DEF PlanIsSound
<1> QED
  BY <1>2, <1>3, <1>4, <1>5, <1>6 DEF PIInv

\* An exchange keeps the invariant.
LEMMA ExchangeKeeps ==
    ASSUME PIInv, Exchanged
    PROVE  PIInv'
<1>1. PICK u : \E accepted \in BOOLEAN : Exchange(u, accepted)
  BY DEF Exchanged
<1>2. PICK a \in BOOLEAN : Exchange(u, a)
  BY <1>1
<1> QED
  BY <1>2, SettleKeeps DEF Exchange

\* A step exchanges plans, or is one of the others.
LEMMA PlanStepKinds ==
    ASSUME PIInv, PlanNext
    PROVE  \/ Exchanged \/ GeneratePlan \/ SearchMeals \/ RebuildPlan
           \/ SupplementForCommute \/ SupplementForRefill
BY OptimizeRoutesExchanges, OptimizeScheduleExchanges, OptimizeConstraintsExchanges, ReplaceExchanges,
   RefillExchanges DEF PlanNext

\* Every step keeps the invariant.
LEMMA PlanStepKeeps ==
    ASSUME PIInv, [PlanNext]_planVars
    PROVE  PIInv'
<1>1. CASE PlanNext
  BY <1>1, PlanStepKinds, ExchangeKeeps, GeneratePlanKeeps, SearchMealsKeeps, RebuildPlanKeeps,
     SupplementForCommuteKeeps, SupplementForRefillKeeps
<1>2. CASE UNCHANGED planVars
  BY <1>2 DEF planVars, PIInv, PlanIsSound, Known
<1> QED
  BY <1>1, <1>2

-----------------------------------------------------------------------------
(* What the steps keep.                                                    *)

\* The invariant is strong enough.
LEMMA PlanInvImplied ==
    ASSUME PIInv
    PROVE  PlanInv
<1>1. PICK n \in Nat : /\ n = Len(trip.spots) /\ trip \in PlansLike(trip, n, Places) /\ trip \in TripsOf(n)
                       /\ pool \in Seq(Candidates)
  BY LikeTheStored
<1>2. Days(trip) = 1..n /\ \A d \in 1..n : trip.spots[d] \in Seq(Places) /\ trip.hotel[d] \in BOOLEAN
  BY <1>1, TripDays
<1>3. IsRoads(roads) /\ report = Evaluate(trip, roads, Known)
  BY DEF PIInv
<1>4. PlanTypeOK
  <2>2. ToSet(MealTypes) = {"breakfast", "lunch", "dinner"}
    <3>1. MealTypes \in Seq({"breakfast", "lunch", "dinner"})
      BY DEF MealTypes
    <3>2. ToSet(MealTypes) = {MealTypes[i] : i \in 1..Len(MealTypes)}
      BY <3>1, ToSetIn
    <3>3. Len(MealTypes) = 3 /\ MealTypes[1] = "breakfast" /\ MealTypes[2] = "lunch" /\ MealTypes[3] = "dinner"
      BY DEF MealTypes
    <3>4. 1..3 = {1, 2, 3}
      OBVIOUS
    <3> QED
      BY <3>2, <3>3, <3>4
  <2> QED
    BY <1>1, <1>2, <2>2 DEF PlanTypeOK, PIInv
<1>5. NoneTwice
  <2>1. Cardinality(Used(trip)) = CountAttractions(trip)
    BY <1>1, UsedAreCounted DEF PIInv, PlanIsSound
  <2>2. Cardinality({pool[i].place : i \in DOMAIN pool}) = Len(pool)
    BY PoolIsCounted DEF PIInv
  <2> QED
    BY <2>1, <2>2 DEF NoneTwice
<1>6. \A d \in Days(trip) : \E t \in {report.schedule.days[d]} :
         /\ t.required = t.now - DayStart
         /\ \A i \in 1..(Len(t.items) - 1) : t.items[i].to = t.items[i + 1].from
         /\ InTime => \A x \in ToSet(t.items) : x.type = "meal" => LunchFrom <= x.from /\ x.to <= LunchUntil
  <2>1. AddsUp(Evaluate(trip, roads, Known), trip)
    BY <1>1, <1>3, ScheduleReported
  <2>2. AddsUp(report, trip)
    BY <1>3, <2>1
  <2> QED
    BY <2>2 DEF AddsUp
<1>7. LunchInWindow
  <2> SUFFICES ASSUME InTime, NEW d \in Days(trip), NEW x \in ToSet(report.schedule.days[d].items), x.type = "meal"
               PROVE  LunchFrom <= x.from /\ x.to <= LunchUntil
    BY DEF LunchInWindow, InTime
  <2>1. PICK t \in {report.schedule.days[d]} :
           \A y \in ToSet(t.items) : y.type = "meal" => LunchFrom <= y.from /\ y.to <= LunchUntil
    BY <1>6
  <2>2. x \in ToSet(t.items)
    OBVIOUS
  <2> QED
    BY <2>1, <2>2
<1>8. TimelineAddsUp
  <2> SUFFICES ASSUME NEW d \in Days(trip)
               PROVE  \E t \in {report.schedule.days[d]} :
                         /\ t.required = t.now - DayStart
                         /\ \A i \in 1..(Len(t.items) - 1) : t.items[i].to = t.items[i + 1].from
    BY DEF TimelineAddsUp
  <2>1. PICK t \in {report.schedule.days[d]} :
           /\ t.required = t.now - DayStart
           /\ \A i \in 1..(Len(t.items) - 1) : t.items[i].to = t.items[i + 1].from
    BY <1>6
  <2> QED
    BY <2>1
<1>9. OpenMealsAreOpen
  <2> SUFFICES ASSUME NEW d \in Days(trip), NEW m \in ToSet(trip.meals[d]), m.status = "open"
               PROVE  \A x \in m.from..(m.to - 1) : OpenAt(Restaurant[m.who].hours, x)
    BY DEF OpenMealsAreOpen, OpenAt
  <2> QED
    BY <1>1, HonestMealsAreOpen DEF PIInv, PlanIsSound
<1>10. TargetIsAnEnd
  <2>1. report.commute = CommuteIssues(trip, roads)
    BY <1>3 DEF Evaluate, Report
  <2> QED
    BY <1>1, <2>1, TargetsAreEnds DEF TargetIsAnEnd
<1>11. ConflictsGoLast
  <2> DEFINE C == HoursConflicts(Approximate(trip))
  <2>1. /\ IsFiniteSet(C) /\ C \subseteq IssuesOf(n)
        /\ \A x \in C : x.code = "hours" /\ x.spot \in DOMAIN trip.spots[x.day]
    BY <1>1, ConflictsType
  <2> HIDE DEF C
  <2>2. PICK z \in PlansLike(trip, n, Places) :
           /\ z = ReorderedForHours(trip, C)
           /\ \A d \in 1..n : NamesDiffer(trip.spots[d]) => GoLast(z.spots[d], LateOn(trip, C, d))
    BY <1>1, <2>1, ReorderedPlan
  <2>3. \A d \in 1..n : DOMAIN z.spots[d] = 1..Len(z.spots[d])
    BY OnceByDays DEF PlansLike
  <2>4. ASSUME NEW d \in {e \in Days(trip) : \A i, j \in DOMAIN trip.spots[e] :
                             Spot[trip.spots[e][i]].name = Spot[trip.spots[e][j]].name => i = j}
        PROVE  LET late == {trip.spots[d][x.spot] : x \in {y \in C : y.day = d}}
               IN  \A i, j \in DOMAIN z.spots[d] : i < j /\ z.spots[d][i] \in late => z.spots[d][j] \in late
    <3> DEFINE late == {trip.spots[d][x.spot] : x \in {y \in C : y.day = d}}
    <3>0. NamesDiffer(trip.spots[d])
      <4>0. d \in 1..n
        BY <1>2
      <4>1. /\ DOMAIN trip.spots[d] = 1..Len(trip.spots[d])
            /\ ToSet(trip.spots[d]) = {trip.spots[d][i] : i \in 1..Len(trip.spots[d])}
        BY <1>1, <4>0, OnceByDays
      <4>2. \A i, j \in DOMAIN trip.spots[d] :
               Spot[trip.spots[d][i]].name = Spot[trip.spots[d][j]].name => i = j
        OBVIOUS
      <4>3. PICK q : q = trip.spots[d]
        OBVIOUS
      <4>4. ToSet(q) = {q[i] : i \in DOMAIN q}
        BY <4>1, <4>3
      <4>5. \A i, j \in DOMAIN q : Spot[q[i]].name = Spot[q[j]].name => i = j
        BY <4>2, <4>3
      <4>6. NamesDiffer(q)
        BY <4>4, <4>5 DEF NamesDiffer
      <4> QED
        BY <4>3, <4>6
    <3>1. GoLast(z.spots[d], late) /\ DOMAIN z.spots[d] = 1..Len(z.spots[d])
      BY <1>2, <2>2, <2>3, <3>0 DEF LateOn
    <3> HIDE DEF late
    <3>2. \A i, j \in DOMAIN z.spots[d] : i < j /\ z.spots[d][i] \in late => z.spots[d][j] \in late
      BY <3>1 DEF GoLast
    <3> QED
      BY <3>2 DEF late
  <2> QED
    BY <2>2, <2>4 DEF ConflictsGoLast, C
<1> QED
  BY <1>4, <1>5, <1>7, <1>8, <1>9, <1>10, <1>11 DEF PlanInv

\* However the moves, removals, replacements, refills, supplement searches and
\* rebuilds of the optimizers follow each other, for every written plan, pool and
\* road network: no attraction_identity is planned twice, lunch lies in its window
\* when the day starts early enough for it, the minutes of timeline.py add up,
\* restaurants that are called open are open during the whole meal, and repairs aim
\* at the attraction at fault, on days whose attractions have different names.
THEOREM PlanInvariant == PlanSpec => []PlanInv
<1>1. PlanInit => PIInv
  BY PlanStarts
<1>2. PIInv /\ [PlanNext]_planVars => PIInv'
  BY PlanStepKeeps
<1>3. PIInv => PlanInv
  BY PlanInvImplied
<1> QED
  BY <1>1, <1>2, <1>3, PTL DEF PlanSpec

\* The number of legs without a route.
LEMMA LostReported ==
    ASSUME NEW n \in Nat, NEW w \in TripsOf(n), NEW rd, NEW K
    PROVE  Evaluate(w, rd, K).quality.lost = RouteQuality(w, rd).lost /\ RouteQuality(w, rd).lost \in Int
<1>1. Evaluate(w, rd, K).quality = RouteQuality(w, rd)
  BY DEF Evaluate, Report
<1> QED
  BY <1>1, LostType

\* No step trades a leg with a route for one without.
LEMMA StepLosesNoRoute ==
    ASSUME PIInv, PlanNext, trip # NoTrip
    PROVE  report'.quality.lost <= report.quality.lost
<1>1. PICK n \in Nat : n = Len(trip.spots) /\ trip \in TripsOf(n)
  BY LikeTheStored
<1>2. PICK old \in Int : old = RouteQuality(trip, roads).lost /\ report.quality.lost = old
  BY <1>1, LostReported DEF PIInv
<1>3. CASE Exchanged
  <2>1. PICK u : \E accepted \in BOOLEAN : Exchange(u, accepted)
    BY <1>3 DEF Exchanged
  <2>2. PICK a \in BOOLEAN : Exchange(u, a)
    BY <2>1
  <2>3. CASE a
    <3>1. report' = Verified(u)
      BY <2>2, <2>3 DEF Exchange, Settle
    <3> QED
      BY <2>2, <2>3, <3>1 DEF Exchange
  <2>4. CASE ~a
    <3>1. report' = report
      BY <2>2, <2>4 DEF Exchange, Settle
    <3> QED
      BY <1>2, <3>1
  <2> QED
    BY <2>3, <2>4
<1>4. CASE GeneratePlan
  BY <1>4 DEF GeneratePlan
<1>5. CASE SearchMeals
  <2>1. report' = report
    BY <1>5 DEF SearchMeals
  <2> QED
    BY <1>2, <2>1
<1>6. CASE RebuildPlan
  <2>4. PICK z \in TripsOf(n) : /\ z.spots = trip.spots /\ z.hotel = trip.hotel
                                /\ report' = Evaluate(z, roads, Known)
    BY <1>1, <1>6, RebuiltFromReport
  <2>5. RouteQuality(z, roads).lost = RouteQuality(trip, roads).lost
    BY <1>1, <2>4, RoutesOfPlaces
  <2>6. Evaluate(z, roads, Known).quality.lost = old
    BY <1>2, <2>4, <2>5, LostReported
  <2> QED
    BY <1>2, <2>4, <2>6
<1>7. ASSUME NEW anchors, NEW k, Supplement(anchors, k) PROVE report'.quality.lost <= report.quality.lost
  <2>1. PICK K : report' = Evaluate(trip, roads, K)
    BY <1>7 DEF Supplement
  <2>2. Evaluate(trip, roads, K).quality.lost = old
    BY <1>1, <1>2, LostReported
  <2> QED
    BY <1>2, <2>1, <2>2
<1>8. CASE SupplementForCommute
  BY <1>7, <1>8 DEF SupplementForCommute
<1>9. CASE SupplementForRefill
  BY <1>7, <1>9 DEF SupplementForRefill
<1> QED
  BY <1>3, <1>4, <1>5, <1>6, <1>8, <1>9, PlanStepKinds

\* No step drops, reorders or lowers what the pool holds up to its limit.
LEMMA StepKeepsPool ==
    ASSUME PIInv, PlanNext
    PROVE  \A i \in DOMAIN pool : i <= PoolMax =>
              i \in DOMAIN pool' /\ pool'[i].place = pool[i].place /\ pool'[i].rating >= pool[i].rating
<1>1. pool \in Pools /\ DOMAIN pool = 1..Len(pool) /\ Len(pool) \in Nat
      /\ \A i \in 1..Len(pool) : pool[i].rating \in Int
  <2>1. pool \in Seq(Candidates) /\ pool \in Pools
    BY DEF PIInv, Pools
  <2>2. \A i \in 1..Len(pool) : pool[i] \in Candidates
    BY <2>1, ElementOfSeq
  <2> QED
    BY <2>1, <2>2, LenProperties DEF Candidates
<1>2. CASE pool' = pool
  BY <1>1, <1>2
<1>3. ASSUME NEW anchors, NEW k, Supplement(anchors, k)
      PROVE  \A i \in DOMAIN pool : i <= PoolMax =>
                i \in DOMAIN pool' /\ pool'[i].place = pool[i].place /\ pool'[i].rating >= pool[i].rating
  <2>1. /\ pool' \in Pools /\ Least(Len(pool), PoolMax) <= Len(pool')
        /\ KeepsFirst(pool', pool, Least(Len(pool), PoolMax))
    BY <1>3, SupplementGrowsPool
  <2>2. PICK z \in Seq(Candidates) : z = pool' /\ DOMAIN z = 1..Len(z) /\ Len(z) \in Nat
    BY <2>1, LenProperties DEF Pools
  <2>3. ASSUME NEW i \in DOMAIN pool, i <= PoolMax PROVE i \in 1..Least(Len(pool), PoolMax)
    BY <1>1, <2>3, OptimizerAssumption DEF Least
  <2>4. Least(Len(pool), PoolMax) \in Nat
    BY <1>1, OptimizerAssumption DEF Least
  <2> QED
    BY <1>1, <2>1, <2>2, <2>3, <2>4 DEF KeepsFirst
<1>4. CASE Exchanged
  BY <1>2, <1>4 DEF Exchanged, Exchange
<1>5. CASE GeneratePlan \/ SearchMeals \/ RebuildPlan
  BY <1>2, <1>5 DEF GeneratePlan, SearchMeals, RebuildPlan
<1>6. CASE SupplementForCommute
  BY <1>3, <1>6 DEF SupplementForCommute
<1>7. CASE SupplementForRefill
  BY <1>3, <1>7 DEF SupplementForRefill
<1> QED
  BY <1>4, <1>5, <1>6, <1>7, PlanStepKinds

\* No step of the optimizers loses what the plan had: a candidate that is accepted
\* has no more legs without a route, and a supplement search keeps the sources of the
\* pool in their order, up to the limit that supplement.py crops it to.
THEOREM NothingIsLost == PlanSpec => OptimizersLoseNothing
<1> DEFINE Routes == trip # NoTrip => report'.quality.lost <= report.quality.lost
           Sources == \A i \in DOMAIN pool : i <= PoolMax =>
                         i \in DOMAIN pool' /\ pool'[i].place = pool[i].place
                         /\ pool'[i].rating >= pool[i].rating
<1>1. PlanInit => PIInv
  BY PlanStarts
<1>2. PIInv /\ [PlanNext]_planVars => PIInv'
  BY PlanStepKeeps
<1>3. PIInv /\ [PlanNext]_planVars => [Routes]_planVars
  BY StepLosesNoRoute
<1>4. PIInv /\ [PlanNext]_planVars => [Sources]_planVars
  BY StepKeepsPool
<1>5. PlanSpec => [][Routes]_planVars
  BY <1>1, <1>2, <1>3, PTL DEF PlanSpec
<1>6. PlanSpec => [][Sources]_planVars
  BY <1>1, <1>2, <1>4, PTL DEF PlanSpec
<1> QED
  BY <1>5, <1>6, PTL DEF OptimizersLoseNothing, RoutesNotLost, PoolKeepsOld

=============================================================================
