-------------------------- MODULE ThresholdsProofs --------------------------
(***************************************************************************)
(* Proofs about Thresholds, for any values, targets, units, severities and *)
(* length of the window.  The properties rest on what recursive functions  *)
(* compute for every window; the induction is over sets of natural numbers *)
(* (SetInduction), from the well-foundedness of <.                         *)
(***************************************************************************)
EXTENDS Thresholds, SequenceTheorems, WellFoundedInduction, FiniteSetTheorems, TLAPS

\* Induction over the natural numbers, for a set.
LEMMA SetInduction ==
    ASSUME NEW S, S \subseteq Nat, 0 \in S, \A n \in S : n + 1 \in S
    PROVE  S = Nat
<1> SUFFICES ASSUME Nat \ S # {} PROVE FALSE
    OBVIOUS
<1> DEFINE R == OpToRel(<, Nat)
<1>1. IsWellFoundedOn(R, Nat)
    BY NatLessThanWellFounded
<1>2. \A i, j \in Nat : i < j => <<i, j>> \in R
    BY DEF OpToRel
<1> HIDE DEF R
<1>3. \A T : T \subseteq Nat /\ T # {} => \E x \in T : \A y \in T : ~(<<y, x>> \in R)
    BY <1>1, WFMin
<1>4. PICK x \in Nat \ S : \A y \in Nat \ S : <<y, x>> \notin R
    BY <1>3
<1>5. x # 0 /\ x - 1 \in Nat
    BY <1>4
<1>6. <<x - 1, x>> \in R
    BY <1>2, <1>4, <1>5
<1>7. x - 1 \in S
    BY <1>4, <1>5, <1>6
<1> QED
    BY <1>4, <1>5, <1>7

(***************************************************************************)
(* A recursive function over 0 .. n exists: for any start and any steps.   *)
(***************************************************************************)
LEMMA Recursion ==
    ASSUME NEW A, NEW base \in A, NEW n \in Nat, NEW step \in [1 .. n -> [A -> A]]
    PROVE  \E g \in [0 .. n -> A] : /\ g[0] = base
                                    /\ \A i \in 1 .. n : g[i] = step[i][g[i - 1]]
<1> DEFINE Upto(m) == \E g \in [0 .. m -> A] : /\ g[0] = base
                                               /\ \A i \in 1 .. m : g[i] = step[i][g[i - 1]]
           S == {m \in Nat : m <= n => Upto(m)}
<1>1. 0 \in S
  <2>1. [i \in 0 .. 0 |-> base] \in [0 .. 0 -> A] /\ 0 \in 0 .. 0 /\ 1 .. 0 = {}
    OBVIOUS
  <2> QED
    BY <2>1
<1>2. ASSUME NEW m \in S PROVE m + 1 \in S
  <2> SUFFICES ASSUME m + 1 <= n PROVE Upto(m + 1)
    <3> HIDE DEF Upto
    <3> QED OBVIOUS
  <2>1. PICK g \in [0 .. m -> A] : /\ g[0] = base
                                   /\ \A i \in 1 .. m : g[i] = step[i][g[i - 1]]
    OBVIOUS
  <2> DEFINE h == [i \in 0 .. (m + 1) |-> IF i = m + 1 THEN step[m + 1][g[m]] ELSE g[i]]
  <2>2. m + 1 \in 1 .. n /\ m \in 0 .. m
    OBVIOUS
  <2>3. step[m + 1][g[m]] \in A
    BY <2>2
  <2>4. h \in [0 .. (m + 1) -> A]
    BY <2>3
  <2>5. h[0] = base
    BY <2>1
  <2>6. \A i \in 1 .. (m + 1) : h[i] = step[i][h[i - 1]]
    BY <2>1
  <2> HIDE DEF h
  <2> QED
    BY <2>4, <2>5, <2>6
<1> HIDE DEF Upto
<1>3. S = Nat
    BY <1>1, <1>2, SetInduction
<1>4. Upto(n)
    BY <1>3
<1> QED
    BY <1>4 DEF Upto

----------------------------------------------------------------------------
(* SumOf *)

\* The partial sums of v.
Sums(v, p) ==
    /\ p \in [0 .. Len(v) -> Int] /\ p[0] = 0
    /\ \A i \in 1 .. Len(v) : p[i] = p[i - 1] + v[i]

LEMMA SumFacts ==
    ASSUME NEW v \in Seq(Int)
    PROVE  \E p : Sums(v, p) /\ SumOf(v) = p[Len(v)] /\ SumOf(v) \in Int
<1> DEFINE n == Len(v)
           sum == CHOOSE f : f = [i \in 0 .. n |-> IF i = 0 THEN 0 ELSE f[i - 1] + v[i]]
           step == [i \in 1 .. n |-> [a \in Int |-> a + v[i]]]
<1>0. n \in Nat
    BY LenProperties
<1>1. \A i \in 1 .. n : v[i] \in Int
    BY ElementOfSeq
<1>2. step \in [1 .. n -> [Int -> Int]]
    BY <1>1
<1>3. PICK g \in [0 .. n -> Int] : /\ g[0] = 0
                                   /\ \A i \in 1 .. n : g[i] = step[i][g[i - 1]]
  <2> DEFINE A == Int
             base == 0
  <2>1. base \in A /\ step \in [1 .. n -> [A -> A]]
    BY <1>2
  <2> HIDE DEF step, n, A, base
  <2>2. \E g \in [0 .. n -> A] : g[0] = base /\ \A i \in 1 .. n : g[i] = step[i][g[i - 1]]
    BY <1>0, <2>1, Recursion
  <2> QED
    BY <2>2 DEF A, base
<1>4. g = [i \in 0 .. n |-> IF i = 0 THEN 0 ELSE g[i - 1] + v[i]]
  <2>1. ASSUME NEW i \in 1 .. n PROVE g[i] = g[i - 1] + v[i]
    <3>1. step[i] = [a \in Int |-> a + v[i]]
      OBVIOUS
    <3> HIDE DEF step, n
    <3>2. g[i - 1] \in Int /\ g[i] = step[i][g[i - 1]]
      BY <1>0, <1>3
    <3> QED
      BY <3>1, <3>2
  <2> HIDE DEF n
  <2> QED
    BY <1>0, <1>3, <2>1
<1>5. sum = [i \in 0 .. n |-> IF i = 0 THEN 0 ELSE sum[i - 1] + v[i]]
  <2> HIDE DEF n
  <2> QED
    BY <1>4
<1>6. SumOf(v) = sum[n]
    BY DEF SumOf
<1> HIDE DEF sum, n, step
<1> DEFINE S == {i \in Nat : i <= n => sum[i] \in Int}
<1>7. 0 \in S
    BY <1>0, <1>1, <1>5
<1>8. ASSUME NEW i \in S PROVE i + 1 \in S
    BY <1>0, <1>1, <1>5
<1>9. S = Nat
    BY <1>7, <1>8, SetInduction
<1>10. \A i \in 0 .. n : sum[i] \in Int
    BY <1>9, <1>0
<1>11. sum \in [0 .. n -> Int] /\ sum[0] = 0 /\ \A i \in 1 .. n : sum[i] = sum[i - 1] + v[i]
    BY <1>0, <1>1, <1>5, <1>10
<1>12. Sums(v, sum) /\ sum[n] \in Int
    BY <1>11, <1>1 DEF Sums, n
<1> QED
    BY <1>6, <1>12 DEF n

LEMMA SumEmpty == SumOf(<<>>) = 0
<1>1. <<>> \in Seq(Int) /\ Len(<<>>) = 0
    BY EmptySeq
<1>2. PICK p : Sums(<<>>, p) /\ SumOf(<<>>) = p[Len(<<>>)]
    BY <1>1, SumFacts
<1> QED
    BY <1>1, <1>2 DEF Sums

LEMMA SumAppend ==
    ASSUME NEW v \in Seq(Int), NEW x \in Int
    PROVE  SumOf(Append(v, x)) = SumOf(v) + x
<1> DEFINE n == Len(v)
           u == Append(v, x)
<1>1. n \in Nat
    BY LenProperties
<1>2. /\ u \in Seq(Int) /\ Len(u) = n + 1 /\ u[n + 1] = x
      /\ \A i \in 1 .. n : u[i] = v[i]
    BY AppendProperties
<1>3. PICK p : Sums(v, p) /\ SumOf(v) = p[n]
    BY SumFacts
<1> HIDE DEF u
<1>4. PICK q : Sums(u, q) /\ SumOf(u) = q[n + 1]
    BY <1>2, SumFacts
<1>5. /\ p[0] = 0 /\ \A i \in 1 .. n : p[i] = p[i - 1] + v[i]
      /\ q[0] = 0 /\ \A i \in 1 .. (n + 1) : q[i] = q[i - 1] + u[i]
    BY <1>2, <1>3, <1>4 DEF Sums
<1> HIDE DEF n
<1> DEFINE S == {i \in Nat : i <= n => p[i] = q[i]}
<1>6. 0 \in S
    BY <1>5
<1>7. ASSUME NEW i \in S PROVE i + 1 \in S
    BY <1>1, <1>2, <1>5
<1>8. S = Nat
    BY <1>6, <1>7, SetInduction
<1>9. p[n] = q[n]
    BY <1>1, <1>8
<1>10. q[n + 1] = q[n] + x
    BY <1>1, <1>2, <1>5
<1> QED
    BY <1>3, <1>4, <1>9, <1>10 DEF u

\* Changing one element changes the sum by as much.
LEMMA SumChange ==
    ASSUME NEW v \in Seq(Int), NEW u \in Seq(Int), Len(u) = Len(v),
           NEW x \in 1 .. Len(v), NEW d \in Int, u[x] = v[x] + d,
           \A i \in 1 .. Len(v) : i # x => u[i] = v[i]
    PROVE  SumOf(u) = SumOf(v) + d
<1> DEFINE n == Len(v)
<1>1. n \in Nat /\ x \in 1 .. n
    BY LenProperties
<1>2. \A i \in 1 .. n : v[i] \in Int
    BY ElementOfSeq
<1>3. PICK p : Sums(v, p) /\ SumOf(v) = p[n]
    BY SumFacts
<1>4. PICK q : Sums(u, q) /\ SumOf(u) = q[n]
    BY SumFacts
<1>5. /\ p[0] = 0 /\ p \in [0 .. n -> Int] /\ \A i \in 1 .. n : p[i] = p[i - 1] + v[i]
      /\ q[0] = 0 /\ q \in [0 .. n -> Int] /\ \A i \in 1 .. n : q[i] = q[i - 1] + u[i]
      /\ \A i \in 1 .. n : i # x => u[i] = v[i]
    BY <1>3, <1>4 DEF Sums
<1> HIDE DEF n
<1> DEFINE S == {i \in Nat : i <= n => q[i] = p[i] + (IF x <= i THEN d ELSE 0)}
<1>6. 0 \in S
    BY <1>1, <1>5
<1>7. ASSUME NEW i \in S PROVE i + 1 \in S
  <2> SUFFICES ASSUME i + 1 <= n PROVE q[i + 1] = p[i + 1] + (IF x <= i + 1 THEN d ELSE 0)
    OBVIOUS
  <2>1. /\ i \in Nat /\ i + 1 \in 1 .. n /\ (i + 1) - 1 = i
        /\ q[i] = p[i] + (IF x <= i THEN d ELSE 0)
    BY <1>1
  <2>2. q[i + 1] = q[i] + u[i + 1] /\ p[i + 1] = p[i] + v[i + 1]
    BY <1>5, <2>1
  <2>3. p[i] \in Int /\ q[i] \in Int /\ i \in 0 .. n
    BY <1>1, <1>5, <2>1
  <2>4. v[i + 1] \in Int
    BY <1>2, <2>1
  <2>5. CASE i + 1 = x
    <3>1. u[i + 1] = v[i + 1] + d /\ ~(x <= i) /\ x <= i + 1
      BY <2>1, <2>5
    <3>2. q[i] = p[i]
      BY <2>1, <2>3, <3>1
    <3> QED
      BY <2>2, <2>3, <2>4, <3>1, <3>2
  <2>6. CASE i + 1 # x
    <3>0. u[i + 1] = v[i + 1]
      BY <1>5, <2>1, <2>6
    <3>1. u[i + 1] = v[i + 1] /\ (x <= i <=> x <= i + 1)
      BY <1>1, <2>1, <2>6, <3>0
    <3>2. CASE x <= i
      <4>1. q[i] = p[i] + d
        BY <2>1, <3>2
      <4> QED
        BY <2>2, <2>3, <2>4, <3>1, <3>2, <4>1
    <3>3. CASE ~(x <= i)
      <4>1. q[i] = p[i]
        BY <2>1, <2>3, <3>3
      <4> QED
        BY <2>2, <2>3, <2>4, <3>1, <3>3, <4>1
    <3> QED
      BY <3>2, <3>3
  <2> QED
    BY <2>5, <2>6
<1>8. S = Nat
  <2> HIDE DEF S
  <2>1. S \subseteq Nat
    BY DEF S
  <2> QED
    BY <1>6, <1>7, <2>1, SetInduction
<1>9. q[n] = p[n] + d
  <2>0. n \in S
    <3> HIDE DEF S
    <3> QED BY <1>1, <1>8
  <2>1. n \in S /\ x <= n
    BY <1>1, <2>0
  <2>2. n <= n => q[n] = p[n] + (IF x <= n THEN d ELSE 0)
    BY <2>1
  <2> QED
    BY <1>1, <2>1, <2>2
<1> QED
    BY <1>3, <1>4, <1>9 DEF n

----------------------------------------------------------------------------
(* The sum over a set of positions *)

\* w with the positions outside s at 0.
Mask(w, s) == [i \in 1 .. Len(w) |-> IF i \in s THEN w[i] ELSE 0]

LEMMA MaskFacts ==
    ASSUME NEW w, Len(w) \in Nat, NEW s, \A i \in s : i \in 1 .. Len(w) /\ w[i] \in Int
    PROVE  /\ Mask(w, s) \in Seq(Int) /\ Len(Mask(w, s)) = Len(w)
           /\ SumOf(Mask(w, s)) \in Int
           /\ s = {} => SumOf(Mask(w, s)) = 0
           /\ \A x \in s : SumOf(Mask(w, s)) = SumOf(Mask(w, s \ {x})) + w[x]
<1> DEFINE n == Len(w)
<1>1. \A r : r \subseteq s => Mask(w, r) \in [1 .. n -> Int]
    BY DEF Mask
<1>2. \A r : r \subseteq s => Mask(w, r) \in Seq(Int) /\ Len(Mask(w, r)) = n
  <2> SUFFICES ASSUME NEW r, r \subseteq s PROVE Mask(w, r) \in Seq(Int) /\ Len(Mask(w, r)) = n
    OBVIOUS
  <2>1. Mask(w, r) \in [1 .. n -> Int] /\ n \in Nat
    BY <1>1
  <2> HIDE DEF n
  <2> DEFINE m == Mask(w, r)
  <2>2. m \in [1 .. n -> Int]
    BY <2>1
  <2> HIDE DEF m
  <2> QED
    BY <2>1, <2>2, IsASeq, LenProperties DEF m
<1>3. SumOf(Mask(w, s)) \in Int
    BY <1>2, SumFacts
<1>4. ASSUME s = {} PROVE SumOf(Mask(w, s)) = 0
  <2> DEFINE m == Mask(w, s)
  <2>1. PICK p : Sums(m, p) /\ SumOf(m) = p[n]
    BY <1>2, SumFacts
  <2>2. m \in Seq(Int) /\ Len(m) = n /\ n \in Nat
    BY <1>2
  <2>3. \A i \in 1 .. n : m[i] = 0
    BY <1>4 DEF Mask
  <2> HIDE DEF m, n
  <2>4. p[0] = 0 /\ p \in [0 .. n -> Int] /\ \A i \in 1 .. n : p[i] = p[i - 1] + m[i]
    BY <2>1, <2>2 DEF Sums
  <2> DEFINE S == {i \in Nat : i <= n => p[i] = 0}
  <2>5. 0 \in S
    BY <2>4
  <2>6. ASSUME NEW i \in S PROVE i + 1 \in S
    BY <2>2, <2>3, <2>4
  <2>7. S = Nat
    BY <2>5, <2>6, SetInduction
  <2>8. p[n] = 0
    BY <2>2, <2>7
  <2> QED
    BY <2>1, <2>8 DEF m
<1>5. ASSUME NEW x \in s PROVE SumOf(Mask(w, s)) = SumOf(Mask(w, s \ {x})) + w[x]
  <2> DEFINE u == Mask(w, s)
             v == Mask(w, s \ {x})
  <2>1. /\ u \in Seq(Int) /\ v \in Seq(Int) /\ Len(u) = n /\ Len(v) = n
        /\ x \in 1 .. n /\ w[x] \in Int
    BY <1>2
  <2>2. u[x] = w[x] /\ v[x] = 0 /\ \A i \in 1 .. n : i # x => u[i] = v[i]
    BY <2>1 DEF Mask
  <2> HIDE DEF u, v, n
  <2>3. u[x] = v[x] + w[x] /\ Len(u) = Len(v) /\ x \in 1 .. Len(v)
    BY <2>1, <2>2
  <2>4. \A i \in 1 .. Len(v) : i # x => u[i] = v[i]
    BY <2>1, <2>2
  <2>5. SumOf(u) = SumOf(v) + w[x]
    BY <2>1, <2>3, <2>4, SumChange
  <2> QED
    BY <2>5 DEF u, v
<1> QED
    BY <1>2, <1>3, <1>4, <1>5

(***************************************************************************)
(* MapThenSumSet takes the positions in any order; that gives the sum.     *)
(***************************************************************************)
LEMMA SetSum ==
    ASSUME NEW w, Len(w) \in Nat, NEW D, \A i \in D : i \in 1 .. Len(w) /\ w[i] \in Int
    PROVE  MapThenSumSet(LAMBDA i : w[i], D) = SumOf(Mask(w, D))
<1> DEFINE pick(s) == CHOOSE x \in s : TRUE
           T(s) == SumOf(Mask(w, s))
           iter == CHOOSE f : f = [s \in SUBSET D |->
                                     IF s = {} THEN 0 ELSE w[pick(s)] + f[s \ {pick(s)}]]
<1>1. ASSUME NEW s \in SUBSET D, s # {}
      PROVE  /\ pick(s) \in s /\ s \ {pick(s)} \in SUBSET D /\ w[pick(s)] \in Int
             /\ T(s \ {pick(s)}) \in Int
             /\ T(s) = w[pick(s)] + T(s \ {pick(s)})
  <2>1. pick(s) \in s
    BY <1>1
  <2> HIDE DEF pick
  <2> DEFINE x == pick(s)
  <2>2. x \in s /\ s \ {x} \in SUBSET D /\ w[x] \in Int
    BY <2>1
  <2> HIDE DEF x
  <2>3. T(s \ {x}) \in Int
    BY <2>2, MaskFacts
  <2>4. T(s) = T(s \ {x}) + w[x]
    BY <2>2, MaskFacts
  <2> HIDE DEF T
  <2>5. T(s) = w[x] + T(s \ {x})
    BY <2>2, <2>3, <2>4
  <2> QED
    BY <2>2, <2>3, <2>5 DEF x
<1>2. T({}) = 0
    BY MaskFacts
<1>3. MapThenSumSet(LAMBDA i : w[i], D) = iter[D]
    BY DEF MapThenSumSet, MapThenFoldSet
<1> HIDE DEF T, pick
<1>4. iter = [s \in SUBSET D |-> IF s = {} THEN 0 ELSE w[pick(s)] + iter[s \ {pick(s)}]]
  <2> DEFINE g == [s \in SUBSET D |-> T(s)]
  <2>1. g = [s \in SUBSET D |-> IF s = {} THEN 0 ELSE w[pick(s)] + g[s \ {pick(s)}]]
    BY <1>1, <1>2
  <2> HIDE DEF g
  <2> QED
    BY <2>1
<1> HIDE DEF iter
<1>5. IsFiniteSet(D)
  <2>1. D \in SUBSET Nat /\ \A i \in D : i <= Len(w)
    OBVIOUS
  <2> QED
    BY <2>1, FS_BoundedSetOfNaturals
<1> DEFINE S == {n \in Nat : \A s \in SUBSET D : Cardinality(s) = n => iter[s] = T(s)}
<1>6. 0 \in S
    BY <1>2, <1>4, <1>5, FS_Subset, FS_EmptySet
<1>7. ASSUME NEW n \in S PROVE n + 1 \in S
  <2> SUFFICES ASSUME NEW s \in SUBSET D, Cardinality(s) = n + 1 PROVE iter[s] = T(s)
    OBVIOUS
  <2>1. IsFiniteSet(s)
    BY <1>5, FS_Subset
  <2>2. s # {}
    <3>1. Cardinality({}) = 0 /\ n + 1 # 0
      BY FS_EmptySet
    <3> QED
      BY <3>1
  <2>3. Cardinality(s \ {pick(s)}) = n
    <3> DEFINE x == pick(s)
    <3>1. x \in s
      BY <1>1, <2>2
    <3> HIDE DEF x
    <3>2. Cardinality(s \ {x}) = Cardinality(s) - 1
      BY <2>1, <3>1, FS_RemoveElement
    <3> QED
      BY <3>2 DEF x
  <2>4. iter[s \ {pick(s)}] = T(s \ {pick(s)})
    BY <1>1, <2>2, <2>3
  <2> QED
    BY <1>1, <1>4, <2>2, <2>4
<1>8. S = Nat
    BY <1>6, <1>7, SetInduction
<1>9. Cardinality(D) \in Nat
    BY <1>5, FS_CardinalityType
<1>10. iter[D] = T(D)
    BY <1>8, <1>9
<1> QED
    BY <1>3, <1>10 DEF T

----------------------------------------------------------------------------
(* Usable *)

\* What is kept of each prefix of w.
Keeps(A, w, k) ==
    /\ k \in [0 .. Len(w) -> Seq(A)] /\ k[0] = <<>>
    /\ \A i \in 1 .. Len(w) : k[i] = IF w[i] = NaN THEN k[i - 1] ELSE Append(k[i - 1], w[i])

LEMMA KeptFacts ==
    ASSUME NEW A, NEW w \in Seq(A \cup {NaN})
    PROVE  \E k : Keeps(A, w, k) /\ Usable(w) = k[Len(w)]
<1> DEFINE n == Len(w)
           B == Seq(A)
           nil == <<>>
           next(i, a) == IF w[i] = NaN THEN a ELSE Append(a, w[i])
           kept == CHOOSE f : f = [i \in 0 .. n |-> IF i = 0 THEN nil ELSE next(i, f[i - 1])]
           step == [i \in 1 .. n |-> [a \in B |-> next(i, a)]]
<1>1. n \in Nat
    BY LenProperties
<1>2. \A i \in 1 .. n : \A a \in B : next(i, a) \in B
  <2> SUFFICES ASSUME NEW i \in 1 .. n, NEW a \in B PROVE next(i, a) \in B
    OBVIOUS
  <2>1. w[i] \in A \cup {NaN}
    BY ElementOfSeq
  <2> QED
    BY <2>1, AppendProperties
<1>3. nil \in B
    BY EmptySeq
<1>4. Usable(w) = kept[n]
    BY DEF Usable
<1> HIDE DEF B, n, next, nil
<1>5. step \in [1 .. n -> [B -> B]]
    BY <1>2
<1>6. PICK g \in [0 .. n -> B] : g[0] = nil /\ \A i \in 1 .. n : g[i] = step[i][g[i - 1]]
  <2> HIDE DEF step
  <2> QED
    BY <1>1, <1>3, <1>5, Recursion
<1>7. g = [i \in 0 .. n |-> IF i = 0 THEN nil ELSE next(i, g[i - 1])]
  <2>1. ASSUME NEW i \in 1 .. n PROVE g[i] = next(i, g[i - 1])
    <3>1. step[i] = [a \in B |-> next(i, a)]
      OBVIOUS
    <3> HIDE DEF step
    <3>2. g[i - 1] \in B /\ g[i] = step[i][g[i - 1]]
      BY <1>1, <1>6
    <3> QED
      BY <3>1, <3>2
  <2> QED
    BY <1>1, <1>6, <2>1
<1>8. kept = [i \in 0 .. n |-> IF i = 0 THEN nil ELSE next(i, kept[i - 1])]
    BY <1>7
<1> HIDE DEF kept, step
<1> DEFINE S == {i \in Nat : i <= n => kept[i] \in B}
<1>9. 0 \in S
    BY <1>1, <1>3, <1>8
<1>10. ASSUME NEW i \in S PROVE i + 1 \in S
  <2> SUFFICES ASSUME i + 1 <= n PROVE kept[i + 1] \in B
    OBVIOUS
  <2>1. kept[i] \in B /\ i + 1 \in 1 .. n /\ i + 1 \in 0 .. n /\ i + 1 # 0 /\ (i + 1) - 1 = i
    BY <1>1
  <2>2. kept[i + 1] = next(i + 1, kept[i])
    BY <1>8, <2>1
  <2> QED
    BY <1>2, <2>1, <2>2
<1>11. S = Nat
    BY <1>9, <1>10, SetInduction
<1>12. \A i \in 0 .. n : kept[i] \in B
    BY <1>1, <1>11
<1>13. /\ kept \in [0 .. n -> B] /\ kept[0] = nil
       /\ \A i \in 1 .. n : kept[i] = next(i, kept[i - 1])
    BY <1>1, <1>8, <1>12
<1>14. Keeps(A, w, kept)
    BY <1>13 DEF Keeps, n, B, nil, next
<1> QED
    BY <1>4, <1>14 DEF n

\* The usable positions up to i.
UsedUpTo(w, i) == {m \in DOMAIN w : w[m] # NaN /\ m <= i}

\* pts holds the points of w at positions D, the last of them last.
Holds(pts, w, D) ==
    /\ IsFiniteSet(D) /\ Len(pts) = Cardinality(D)
    /\ \A j \in 1 .. Len(pts) : \E m \in D : pts[j] = w[m]
    /\ \A m \in D : \E j \in 1 .. Len(pts) : pts[j] = w[m]
    /\ pts # <<>> => \E m \in D : pts[Len(pts)] = w[m] /\ \A l \in D : l <= m

LEMMA HoldsMore ==
    ASSUME NEW A, NEW pts \in Seq(A), NEW w, NEW D, D \subseteq Nat, Holds(pts, w, D),
           NEW m \in Nat, \A l \in D : l < m, w[m] \in A
    PROVE  Holds(Append(pts, w[m]), w, D \cup {m})
<1> DEFINE E == D \cup {m}
           q == Append(pts, w[m])
           n == Len(pts)
<1>1. n \in Nat /\ m \notin D
    BY LenProperties
<1>2. /\ q \in Seq(A) /\ Len(q) = n + 1 /\ q[n + 1] = w[m] /\ q # <<>>
      /\ \A j \in 1 .. n : q[j] = pts[j]
    BY AppendProperties
<1>3. IsFiniteSet(E) /\ Cardinality(E) = Cardinality(D) + 1
    BY <1>1, FS_AddElement DEF Holds
<1>4. n = Cardinality(D)
    BY DEF Holds
<1> HIDE DEF q
<1>5. \A j \in 1 .. (n + 1) : \E l \in E : q[j] = w[l]
  <2> SUFFICES ASSUME NEW j \in 1 .. (n + 1) PROVE \E l \in E : q[j] = w[l]
    OBVIOUS
  <2>1. CASE j = n + 1
    BY <1>2, <2>1
  <2>2. CASE j \in 1 .. n
    <3>1. PICK l \in D : pts[j] = w[l]
      BY <2>2 DEF Holds
    <3> QED
      BY <1>2, <2>2, <3>1
  <2> QED
    BY <1>1, <2>1, <2>2
<1>6. \A l \in E : \E j \in 1 .. (n + 1) : q[j] = w[l]
  <2> SUFFICES ASSUME NEW l \in E PROVE \E j \in 1 .. (n + 1) : q[j] = w[l]
    OBVIOUS
  <2>1. CASE l = m
    BY <1>1, <1>2, <2>1
  <2>2. CASE l \in D
    <3>1. PICK j \in 1 .. n : pts[j] = w[l]
      BY <2>2 DEF Holds
    <3>2. j \in 1 .. (n + 1) /\ q[j] = w[l]
      BY <1>1, <1>2, <3>1
    <3> QED
      BY <3>2
  <2> QED
    BY <2>1, <2>2
<1>7. m \in E /\ q[n + 1] = w[m] /\ \A l \in E : l <= m
    BY <1>2
<1> HIDE DEF E, n
<1>8. Len(q) = Cardinality(E)
    BY <1>2, <1>3, <1>4
<1>9. \E l \in E : q[Len(q)] = w[l] /\ \A i \in E : i <= l
    BY <1>2, <1>7
<1>10. /\ \A j \in 1 .. Len(q) : \E l \in E : q[j] = w[l]
       /\ \A l \in E : \E j \in 1 .. Len(q) : q[j] = w[l]
    BY <1>2, <1>5, <1>6
<1>11. Holds(q, w, E)
    BY <1>3, <1>8, <1>9, <1>10, Zenon DEF Holds
<1> QED
    BY <1>11 DEF q, E

LEMMA UsableFacts ==
    ASSUME NEW A, NaN \notin A, NEW w \in Seq(A \cup {NaN})
    PROVE  Usable(w) \in Seq(A) /\ Holds(Usable(w), w, Used(w))
<1> DEFINE n == Len(w)
<1>1. n \in Nat /\ DOMAIN w = 1 .. n
    BY LenProperties
<1>2. PICK k : Keeps(A, w, k) /\ Usable(w) = k[n]
    BY KeptFacts
<1>3. /\ k[0] = <<>> /\ k \in [0 .. n -> Seq(A)]
      /\ \A i \in 1 .. n : k[i] = IF w[i] = NaN THEN k[i - 1] ELSE Append(k[i - 1], w[i])
    BY <1>2 DEF Keeps
<1>4. \A i \in 1 .. n : w[i] \in A \cup {NaN}
    BY ElementOfSeq
<1> HIDE DEF n
<1> DEFINE S == {i \in Nat : i <= n => Holds(k[i], w, UsedUpTo(w, i))}
<1>5. 0 \in S
  <2>1. UsedUpTo(w, 0) = {}
    BY <1>1 DEF UsedUpTo
  <2>2. Len(<<>>) = 0 /\ IsFiniteSet({}) /\ Cardinality({}) = 0 /\ 1 .. 0 = {}
    BY FS_EmptySet
  <2>3. Holds(<<>>, w, {})
    BY <2>2 DEF Holds
  <2> QED
    BY <1>3, <2>1, <2>3
<1>6. ASSUME NEW i \in S PROVE i + 1 \in S
  <2> SUFFICES ASSUME i + 1 <= n PROVE Holds(k[i + 1], w, UsedUpTo(w, i + 1))
    OBVIOUS
  <2>1. /\ Holds(k[i], w, UsedUpTo(w, i))
        /\ i \in Nat /\ i \in 0 .. n /\ i + 1 \in 1 .. n /\ (i + 1) - 1 = i
    BY <1>1
  <2>2. k[i + 1] = IF w[i + 1] = NaN THEN k[i] ELSE Append(k[i], w[i + 1])
    BY <1>3, <2>1
  <2>3. CASE w[i + 1] = NaN
    <3>1. UsedUpTo(w, i + 1) = UsedUpTo(w, i)
      BY <1>1, <2>1, <2>3 DEF UsedUpTo
    <3> QED
      BY <2>1, <2>2, <2>3, <3>1
  <2>4. CASE w[i + 1] # NaN
    <3> DEFINE m == i + 1
               D == UsedUpTo(w, i)
    <3>1. /\ UsedUpTo(w, i + 1) = D \cup {m} /\ D \subseteq Nat
          /\ m \in Nat /\ \A l \in D : l < m
      BY <1>1, <2>1, <2>4 DEF UsedUpTo
    <3>2. w[m] \in A /\ k[i] \in Seq(A)
      BY <1>3, <1>4, <2>1, <2>4
    <3> HIDE DEF m, D
    <3>3. Holds(Append(k[i], w[m]), w, D \cup {m})
      BY <2>1, <3>1, <3>2, HoldsMore DEF D
    <3> QED
      BY <2>2, <2>4, <3>1, <3>3 DEF m
  <2> QED
    BY <2>3, <2>4
<1>7. S = Nat
  <2> HIDE DEF S
  <2>1. S \subseteq Nat
    BY DEF S
  <2> QED
    BY <1>5, <1>6, <2>1, SetInduction
<1>8. Holds(k[n], w, UsedUpTo(w, n))
    BY <1>1, <1>7
<1>9. UsedUpTo(w, n) = Used(w)
    BY <1>1 DEF UsedUpTo, Used
<1>10. k[n] \in Seq(A)
    BY <1>1, <1>3
<1> QED
    BY <1>2, <1>8, <1>9, <1>10

\* The sum of the usable points is the sum over the usable positions.
LEMMA UsableSum ==
    ASSUME NEW A, A \subseteq Int, NaN \notin A, NEW w \in Seq(A \cup {NaN})
    PROVE  SumOf(Usable(w)) = SumOf(Mask(w, Used(w)))
<1> DEFINE n == Len(w)
           u == Mask(w, Used(w))
<1>1. n \in Nat /\ DOMAIN w = 1 .. n
    BY LenProperties
<1>2. PICK k : Keeps(A, w, k) /\ Usable(w) = k[n]
    BY KeptFacts
<1>3. /\ k[0] = <<>> /\ k \in [0 .. n -> Seq(A)]
      /\ \A i \in 1 .. n : k[i] = IF w[i] = NaN THEN k[i - 1] ELSE Append(k[i - 1], w[i])
    BY <1>2 DEF Keeps
<1>4. \A i \in 1 .. n : w[i] \in A \cup {NaN}
    BY ElementOfSeq
<1>5. u \in Seq(Int) /\ Len(u) = n
  <2>1. \A i \in Used(w) : i \in 1 .. Len(w) /\ w[i] \in Int
    BY <1>1, <1>4 DEF Used
  <2> QED
    BY <1>1, <2>1, MaskFacts
<1>6. \A i \in 1 .. n : u[i] = IF w[i] # NaN THEN w[i] ELSE 0
    BY <1>1 DEF Mask, Used
<1>7. PICK p : Sums(u, p) /\ SumOf(u) = p[n]
    BY <1>5, SumFacts
<1>8. p[0] = 0 /\ p \in [0 .. n -> Int] /\ \A i \in 1 .. n : p[i] = p[i - 1] + u[i]
    BY <1>5, <1>7 DEF Sums
<1> HIDE DEF n, u
<1> DEFINE S == {i \in Nat : i <= n => SumOf(k[i]) = p[i]}
<1>9. 0 \in S
    BY <1>3, <1>8, SumEmpty
<1>10. ASSUME NEW i \in S PROVE i + 1 \in S
  <2> SUFFICES ASSUME i + 1 <= n PROVE SumOf(k[i + 1]) = p[i + 1]
    OBVIOUS
  <2>1. /\ SumOf(k[i]) = p[i]
        /\ i \in Nat /\ i \in 0 .. n /\ i + 1 \in 1 .. n /\ (i + 1) - 1 = i
    BY <1>1
  <2>2. k[i + 1] = IF w[i + 1] = NaN THEN k[i] ELSE Append(k[i], w[i + 1])
    BY <1>3, <2>1
  <2>3. p[i + 1] = p[i] + u[i + 1] /\ p[i] \in Int
    BY <1>8, <2>1
  <2>4. u[i + 1] = IF w[i + 1] # NaN THEN w[i + 1] ELSE 0
    BY <1>6, <2>1
  <2>5. CASE w[i + 1] = NaN
    BY <2>1, <2>2, <2>3, <2>4, <2>5
  <2>6. CASE w[i + 1] # NaN
    <3>1. w[i + 1] \in Int /\ k[i] \in Seq(A)
      BY <1>3, <1>4, <2>1, <2>6
    <3>2. k[i] \in Seq(Int)
      BY <3>1, SeqMonotonic
    <3>3. SumOf(Append(k[i], w[i + 1])) = SumOf(k[i]) + w[i + 1]
      BY <3>1, <3>2, SumAppend
    <3> QED
      BY <2>1, <2>2, <2>3, <2>4, <2>6, <3>3
  <2> QED
    BY <2>5, <2>6
<1>11. S = Nat
  <2> HIDE DEF S
  <2>1. S \subseteq Nat
    BY DEF S
  <2> QED
    BY <1>9, <1>10, <2>1, SetInduction
<1>12. SumOf(k[n]) = p[n]
    BY <1>1, <1>11
<1> QED
    BY <1>2, <1>7, <1>12 DEF u, n

----------------------------------------------------------------------------
(* Decisions *)

TypeInv ==
    /\ cond \in Conditions
    /\ window \in Seq(Points(cond))
    /\ active \in [DOMAIN cond.thresholds -> {"absent", "open", "resolved"}]

LEMMA TotalFacts ==
    ASSUME NEW A, A \subseteq Int, NaN \notin A, NEW w \in Seq(A \cup {NaN})
    PROVE  TotalOf(w) = SumOf(Usable(w)) /\ SumOf(Usable(w)) \in Int
<1>1. Len(w) \in Nat /\ DOMAIN w = 1 .. Len(w)
    BY LenProperties
<1>2. \A i \in Used(w) : i \in 1 .. Len(w) /\ w[i] \in Int
    BY <1>1, ElementOfSeq DEF Used
<1> DEFINE D == Used(w)
<1> HIDE DEF D
<1>3. MapThenSumSet(LAMBDA i : w[i], D) = SumOf(Mask(w, D))
    BY <1>1, <1>2, SetSum DEF D
<1>4. TotalOf(w) = SumOf(Mask(w, D))
    BY <1>3 DEF TotalOf, D
<1>5. SumOf(Usable(w)) = SumOf(Mask(w, D))
    BY UsableSum DEF D
<1>6. SumOf(Mask(w, D)) \in Int
    BY <1>1, <1>2, MaskFacts DEF D
<1> QED
    BY <1>4, <1>5, <1>6

\* The latest usable position is the last usable point.
LEMMA LastUsed ==
    ASSUME NEW A, NEW pts \in Seq(A), NEW w, NEW D, D \subseteq Nat, Holds(pts, w, D), pts # <<>>
    PROVE  Last(pts) = w[Max(D)]
<1>1. PICK m \in D : pts[Len(pts)] = w[m] /\ \A l \in D : l <= m
    BY DEF Holds
<1>2. \A l \in D : (\A i \in D : l >= i) => l = m
    BY <1>1
<1>3. m \in D /\ \A i \in D : m >= i
    BY <1>1
<1>4. Max(D) = m
    BY <1>2, <1>3 DEF Max
<1> QED
    BY <1>1, <1>4 DEF Last

\* The operators with a test: what they test is what they say.
LEMMA OperatorFacts ==
    ASSUME NEW o \in DOMAIN CompareOp, NEW v \in Int, NEW t \in Int
    PROVE  /\ o \notin {"gte", "lte"} =>
                 /\ Meets(CompareOp[o], v, t) <=> Stated(o, v, t)
                 /\ Breaks(CompareOp[o], v, t) <=> ~Stated(o, v, t)
           /\ o \in {"gte", "lte"} => ~Meets(CompareOp[o], v, t) /\ ~Breaks(CompareOp[o], v, t)
<1>1. o \in {"eq", "neq", "gt", "gte", "lt", "lte"}
    BY DEF CompareOp
<1>2. /\ CompareOp["eq"] = "ValueIsEq" /\ CompareOp["neq"] = "ValueIsNotEq"
      /\ CompareOp["gt"] = "ValueIsAbove" /\ CompareOp["gte"] = "ValueAboveOrEq"
      /\ CompareOp["lt"] = "ValueIsBelow" /\ CompareOp["lte"] = "ValueBelowOrEq"
    BY DEF CompareOp
<1>3. CASE o = "eq"
    BY <1>2, <1>3 DEF Meets, Breaks, Stated
<1>4. CASE o = "neq"
    BY <1>2, <1>4 DEF Meets, Breaks, Stated
<1>5. CASE o = "gt"
    BY <1>2, <1>5 DEF Meets, Breaks, Stated
<1>6. CASE o = "lt"
    BY <1>2, <1>6 DEF Meets, Breaks, Stated
<1>7. CASE o \in {"gte", "lte"}
    BY <1>2, <1>7 DEF Meets, Breaks
<1> QED
    BY <1>1, <1>3, <1>4, <1>5, <1>6, <1>7

\* The branch of shouldAlertWithTarget for each reduction.
LEMMA Branches ==
    ASSUME NEW c, NEW w, NEW t, NEW op, op = CompareOp[c.operator]
    PROVE  /\ Usable(w) = <<>> => ShouldAlertWithTarget(c, w, t) = NotAlerting
           /\ Usable(w) # <<>> =>
                /\ c.reduction = "at_least_once" =>
                     ShouldAlertWithTarget(c, w, t) = AtleastOnce(op, Usable(w), t)
                /\ c.reduction = "all_the_time" =>
                     ShouldAlertWithTarget(c, w, t) = AllTheTimes(op, Usable(w), t)
                /\ c.reduction = "average" =>
                     ShouldAlertWithTarget(c, w, t) = OnAverage(op, Usable(w), t)
                /\ c.reduction = "total" =>
                     ShouldAlertWithTarget(c, w, t) = InTotal(op, Usable(w), t)
                /\ c.reduction = "last" =>
                     ShouldAlertWithTarget(c, w, t) = LastPoint(op, Usable(w), t)
<1> DEFINE match == MatchType[c.reduction]
<1>1. /\ c.reduction = "at_least_once" => match = "AtleastOnce"
      /\ c.reduction = "all_the_time" => match = "AllTheTimes"
      /\ c.reduction = "average" => match = "OnAverage"
      /\ c.reduction = "total" => match = "InTotal"
      /\ c.reduction = "last" => match = "Last"
    BY DEF MatchType
<1>2. ShouldAlertWithTarget(c, w, t) =
        IF Usable(w) = <<>> THEN NotAlerting
        ELSE CASE match = "AtleastOnce" -> AtleastOnce(op, Usable(w), t)
               [] match = "AllTheTimes" -> AllTheTimes(op, Usable(w), t)
               [] match = "OnAverage" -> OnAverage(op, Usable(w), t)
               [] match = "InTotal" -> InTotal(op, Usable(w), t)
               [] match = "Last" -> LastPoint(op, Usable(w), t)
    BY DEF ShouldAlertWithTarget
<1> HIDE DEF match
<1> QED
    BY <1>1, <1>2

\* When each of them alerts.
LEMMA AlertFacts ==
    ASSUME NEW op, NEW pts, NEW t
    PROVE  /\ ~NotAlerting.alert
           /\ AtleastOnce(op, pts, t).alert <=> \E i \in DOMAIN pts : Meets(op, pts[i], t)
           /\ AllTheTimes(op, pts, t).alert <=> ~\E i \in DOMAIN pts : Breaks(op, pts[i], t)
           /\ OnAverage(op, pts, t).alert <=> Meets(op, SumOf(pts), t * Len(pts))
           /\ InTotal(op, pts, t).alert <=> Meets(op, SumOf(pts), t)
           /\ LastPoint(op, pts, t).alert <=> Meets(op, Last(pts), t)
<1>1. \A a, b, d : Sample(a, b, d).alert = a
    BY DEF Sample
<1>2. AtleastOnce(op, pts, t).alert <=> \E i \in DOMAIN pts : Meets(op, pts[i], t)
  <2> DEFINE hits == {i \in DOMAIN pts : Meets(op, pts[i], t)}
  <2>1. hits = {} <=> ~\E i \in DOMAIN pts : Meets(op, pts[i], t)
    OBVIOUS
  <2>2. AtleastOnce(op, pts, t) = IF hits = {} THEN NotAlerting
                                  ELSE Sample(TRUE, pts[Min(hits)], 1)
    BY DEF AtleastOnce
  <2> HIDE DEF hits
  <2> QED
    BY <2>1, <2>2, <1>1 DEF NotAlerting
<1>3. AllTheTimes(op, pts, t).alert <=> ~\E i \in DOMAIN pts : Breaks(op, pts[i], t)
    BY <1>1 DEF AllTheTimes, NotAlerting
<1>4. /\ OnAverage(op, pts, t).alert <=> Meets(op, SumOf(pts), t * Len(pts))
      /\ InTotal(op, pts, t).alert <=> Meets(op, SumOf(pts), t)
      /\ LastPoint(op, pts, t).alert <=> Meets(op, Last(pts), t)
    BY <1>1 DEF OnAverage, InTotal, LastPoint
<1> QED
    BY <1>1, <1>2, <1>3, <1>4 DEF NotAlerting

\* What the reference definition says, for each reduction.
LEMMA StatedFacts ==
    ASSUME NEW c, NEW w, NEW t
    PROVE  /\ Used(w) = {} => ~StatedMatch(c, w, t)
           /\ Used(w) # {} =>
                /\ c.reduction = "at_least_once" =>
                     (StatedMatch(c, w, t) <=> \E i \in Used(w) : StatedOf(c, w[i], t))
                /\ c.reduction = "all_the_time" =>
                     (StatedMatch(c, w, t) <=> \A i \in Used(w) : StatedOf(c, w[i], t))
                /\ c.reduction = "average" =>
                     (StatedMatch(c, w, t) <=> StatedOf(c, TotalOf(w), t * Cardinality(Used(w))))
                /\ c.reduction = "total" =>
                     (StatedMatch(c, w, t) <=> StatedOf(c, TotalOf(w), t))
                /\ c.reduction = "last" =>
                     (StatedMatch(c, w, t) <=> StatedOf(c, w[Max(Used(w))], t))
  BY DEF StatedMatch

\* The points of a window and the usable ones among them.
LEMMA WindowFacts ==
    ASSUME NEW A, NaN \notin A, NEW w \in Seq(A \cup {NaN}), NEW pts, pts = Usable(w)
    PROVE  /\ pts \in Seq(A) /\ Holds(pts, w, Used(w)) /\ Used(w) \subseteq Nat
           /\ Len(pts) \in Nat /\ DOMAIN pts = 1 .. Len(pts)
           /\ Len(pts) = Cardinality(Used(w))
           /\ \A i \in DOMAIN pts : pts[i] \in A
           /\ pts = <<>> <=> Used(w) = {}
           /\ pts # <<>> => /\ Last(pts) \in A /\ Last(pts) = w[Max(Used(w))]
                            /\ 1 \in DOMAIN pts /\ Head(pts) = pts[1]
<1>1. pts \in Seq(A) /\ Holds(pts, w, Used(w))
    BY UsableFacts
<1>2. Used(w) \subseteq Nat
  <2>1. DOMAIN w = 1 .. Len(w) /\ Len(w) \in Nat
    BY LenProperties
  <2> QED
    BY <2>1 DEF Used
<1>3. Len(pts) \in Nat /\ DOMAIN pts = 1 .. Len(pts)
    BY <1>1, LenProperties
<1>4. \A i \in DOMAIN pts : pts[i] \in A
    BY <1>1, <1>3, ElementOfSeq
<1>5. /\ IsFiniteSet(Used(w)) /\ Len(pts) = Cardinality(Used(w))
      /\ \A j \in 1 .. Len(pts) : \E m \in Used(w) : pts[j] = w[m]
      /\ \A m \in Used(w) : \E j \in 1 .. Len(pts) : pts[j] = w[m]
    BY <1>1 DEF Holds
<1>6. pts = <<>> <=> Len(pts) = 0
    BY <1>1, EmptySeq
<1>7. pts = <<>> <=> Used(w) = {}
    BY <1>5, <1>6, FS_EmptySet
<1>8. ASSUME pts # <<>>
      PROVE  /\ Last(pts) \in A /\ Last(pts) = w[Max(Used(w))]
             /\ 1 \in DOMAIN pts /\ Head(pts) = pts[1]
  <2>1. Len(pts) \in DOMAIN pts /\ 1 \in DOMAIN pts
    BY <1>3, <1>6, <1>8
  <2>2. Last(pts) \in A
    BY <1>4, <2>1 DEF Last
  <2>3. Last(pts) = w[Max(Used(w))]
    BY <1>1, <1>2, <1>8, LastUsed
  <2>4. Head(pts) = pts[1]
    BY <1>1, <1>8, HeadTailProperties
  <2> QED
    BY <2>1, <2>2, <2>3, <2>4
<1> QED
    BY <1>1, <1>2, <1>3, <1>4, <1>5, <1>7, <1>8

\* A numeric threshold decides as stated.
LEMMA NumericAsStated ==
    ASSUME NEW c, c.kind = "numeric", c.reduction \in DOMAIN MatchType,
           c.operator \in DOMAIN CompareOp \ {"gte", "lte"},
           NEW A, A \subseteq Int, NaN \notin A, NEW w \in Seq(A \cup {NaN}), NEW t \in Int
    PROVE  ShouldAlertWithTarget(c, w, t).alert <=> StatedMatch(c, w, t)
<1> DEFINE pts == Usable(w)
           op == CompareOp[c.operator]
           D == Used(w)
<1>0. /\ pts \in Seq(A) /\ Holds(pts, w, D) /\ D \subseteq Nat
      /\ Len(pts) \in Nat /\ DOMAIN pts = 1 .. Len(pts) /\ Len(pts) = Cardinality(D)
      /\ \A i \in DOMAIN pts : pts[i] \in Int
      /\ pts = <<>> <=> D = {}
      /\ pts # <<>> => Last(pts) \in Int /\ Last(pts) = w[Max(D)]
  <2> HIDE DEF pts, D
  <2>1. /\ pts \in Seq(A) /\ Holds(pts, w, D) /\ D \subseteq Nat
        /\ Len(pts) \in Nat /\ DOMAIN pts = 1 .. Len(pts) /\ Len(pts) = Cardinality(D)
        /\ \A i \in DOMAIN pts : pts[i] \in A
        /\ pts = <<>> <=> D = {}
        /\ pts # <<>> => Last(pts) \in A /\ Last(pts) = w[Max(D)]
    BY WindowFacts DEF pts, D
  <2> QED
    BY <2>1
<1>1. TotalOf(w) = SumOf(pts) /\ SumOf(pts) \in Int
    BY TotalFacts
<1>2. \A v \in Int, x \in Int : /\ Meets(op, v, x) <=> StatedOf(c, v, x)
                                /\ Breaks(op, v, x) <=> ~StatedOf(c, v, x)
    BY OperatorFacts DEF StatedOf
<1>3. CASE pts = <<>>
    BY <1>0, <1>3, Branches, AlertFacts, StatedFacts
<1>4. CASE pts # <<>>
  <2> DEFINE r == ShouldAlertWithTarget(c, w, t)
  <2>1. D # {} /\ t * Len(pts) \in Int
    BY <1>0, <1>4
  <2>2. c.reduction \in {"at_least_once", "all_the_time", "average", "total", "last"}
    BY DEF MatchType
  <2>3. /\ \A j \in 1 .. Len(pts) : \E m \in D : pts[j] = w[m]
        /\ \A m \in D : \E j \in 1 .. Len(pts) : pts[j] = w[m]
    BY <1>0 DEF Holds
  <2>4. CASE c.reduction = "at_least_once"
    <3>1. r.alert <=> \E i \in DOMAIN pts : Meets(op, pts[i], t)
      BY <1>4, <2>4, Branches, AlertFacts
    <3>2. StatedMatch(c, w, t) <=> \E i \in D : StatedOf(c, w[i], t)
      BY <2>1, <2>4, StatedFacts
    <3> HIDE DEF pts, op, D, r
    <3>3. (\E i \in DOMAIN pts : Meets(op, pts[i], t)) <=> \E i \in DOMAIN pts : StatedOf(c, pts[i], t)
      BY <1>0, <1>2
    <3>4. (\E i \in DOMAIN pts : StatedOf(c, pts[i], t)) <=> \E i \in D : StatedOf(c, w[i], t)
      BY <1>0, <2>3
    <3> QED
      BY <3>1, <3>2, <3>3, <3>4 DEF r
  <2>5. CASE c.reduction = "all_the_time"
    <3>1. r.alert <=> ~\E i \in DOMAIN pts : Breaks(op, pts[i], t)
      BY <1>4, <2>5, Branches, AlertFacts
    <3>2. StatedMatch(c, w, t) <=> \A i \in D : StatedOf(c, w[i], t)
      BY <2>1, <2>5, StatedFacts
    <3> HIDE DEF pts, op, D, r
    <3>3. (\E i \in DOMAIN pts : Breaks(op, pts[i], t)) <=> \E i \in DOMAIN pts : ~StatedOf(c, pts[i], t)
      BY <1>0, <1>2
    <3>4. (\E i \in DOMAIN pts : ~StatedOf(c, pts[i], t)) <=> \E i \in D : ~StatedOf(c, w[i], t)
      BY <1>0, <2>3
    <3> QED
      BY <3>1, <3>2, <3>3, <3>4 DEF r
  <2>6. CASE c.reduction = "average"
    <3>1. r.alert <=> Meets(op, SumOf(pts), t * Len(pts))
      BY <1>4, <2>6, Branches, AlertFacts
    <3>2. StatedMatch(c, w, t) <=> StatedOf(c, TotalOf(w), t * Cardinality(D))
      BY <2>1, <2>6, StatedFacts
    <3> HIDE DEF pts, op, D, r
    <3> QED
      BY <1>0, <1>1, <1>2, <2>1, <3>1, <3>2 DEF r
  <2>7. CASE c.reduction = "total"
    <3>1. r.alert <=> Meets(op, SumOf(pts), t)
      BY <1>4, <2>7, Branches, AlertFacts
    <3>2. StatedMatch(c, w, t) <=> StatedOf(c, TotalOf(w), t)
      BY <2>1, <2>7, StatedFacts
    <3> HIDE DEF pts, op, D, r
    <3> QED
      BY <1>1, <1>2, <3>1, <3>2 DEF r
  <2>8. CASE c.reduction = "last"
    <3>1. r.alert <=> Meets(op, Last(pts), t)
      BY <1>4, <2>8, Branches, AlertFacts
    <3>2. StatedMatch(c, w, t) <=> StatedOf(c, w[Max(D)], t)
      BY <2>1, <2>8, StatedFacts
    <3> HIDE DEF pts, op, D, r
    <3> QED
      BY <1>0, <1>2, <1>4, <3>1, <3>2 DEF r
  <2> QED
    BY <2>2, <2>4, <2>5, <2>6, <2>7, <2>8
<1> QED
    BY <1>3, <1>4

\* A boolean policy decides as stated.
LEMMA BooleanAsStated ==
    ASSUME NEW c, c.kind = "boolean", c.reduction \in BooleanPolicies, NaN \notin BOOLEAN,
           NEW w \in Seq(BOOLEAN \cup {NaN})
    PROVE  BooleanMatched(c.reduction, Usable(w)) <=> StatedMatch(c, w, None)
<1> DEFINE pts == Usable(w)
           D == Used(w)
<1>0. /\ pts \in Seq(BOOLEAN) /\ Holds(pts, w, D)
      /\ DOMAIN pts = 1 .. Len(pts)
      /\ pts = <<>> <=> D = {}
      /\ pts # <<>> => Last(pts) = w[Max(D)]
    BY WindowFacts
<1>1. \A v : StatedOf(c, v, None) = v
    BY DEF StatedOf
<1>2. c.reduction \in {"at_least_once", "all_the_time", "last"}
    BY DEF BooleanPolicies
<1>3. CASE pts = <<>>
    BY <1>0, <1>3, StatedFacts DEF BooleanMatched
<1>4. CASE pts # <<>>
  <2>1. D # {}
    BY <1>0, <1>4
  <2>2. /\ \A j \in 1 .. Len(pts) : \E m \in D : pts[j] = w[m]
        /\ \A m \in D : \E j \in 1 .. Len(pts) : pts[j] = w[m]
    BY <1>0 DEF Holds
  <2>3. /\ c.reduction = "last" => (BooleanMatched(c.reduction, pts) <=> Last(pts))
        /\ c.reduction = "at_least_once" =>
             (BooleanMatched(c.reduction, pts) <=> \E i \in DOMAIN pts : pts[i])
        /\ c.reduction = "all_the_time" =>
             (BooleanMatched(c.reduction, pts) <=> ~\E i \in DOMAIN pts : ~pts[i])
    BY <1>4 DEF BooleanMatched
  <2>4. CASE c.reduction = "last"
    <3>1. StatedMatch(c, w, None) <=> StatedOf(c, w[Max(D)], None)
      BY <2>1, <2>4, StatedFacts
    <3> QED
      BY <1>0, <1>1, <1>4, <2>3, <2>4, <3>1
  <2>5. CASE c.reduction = "at_least_once"
    <3>1. StatedMatch(c, w, None) <=> \E i \in D : StatedOf(c, w[i], None)
      BY <2>1, <2>5, StatedFacts
    <3>2. (\E i \in D : StatedOf(c, w[i], None)) <=> \E i \in D : w[i]
      BY <1>1
    <3>3. (\E i \in D : w[i]) <=> \E i \in DOMAIN pts : pts[i]
      BY <1>0, <2>2
    <3> QED
      BY <2>3, <2>5, <3>1, <3>2, <3>3
  <2>6. CASE c.reduction = "all_the_time"
    <3>1. StatedMatch(c, w, None) <=> \A i \in D : StatedOf(c, w[i], None)
      BY <2>1, <2>6, StatedFacts
    <3>2. (\A i \in D : StatedOf(c, w[i], None)) <=> \A i \in D : w[i]
      BY <1>1
    <3>3. (\A i \in D : w[i]) <=> ~\E i \in DOMAIN pts : ~pts[i]
      BY <1>0, <2>2
    <3> QED
      BY <2>3, <2>6, <3>1, <3>2, <3>3
  <2> QED
    BY <1>2, <2>4, <2>5, <2>6
<1> QED
    BY <1>3, <1>4

----------------------------------------------------------------------------
(* The reported value *)

\* A set of natural numbers that is not empty has a least element.
LEMMA LeastNat ==
    ASSUME NEW H, H \subseteq Nat, H # {}
    PROVE  Min(H) \in H
<1> SUFFICES ASSUME ~\E x \in H : \A y \in H : x <= y PROVE FALSE
    BY DEF Min
<1> DEFINE S == {n \in Nat : \A i \in Nat : i <= n => i \notin H}
<1>1. 0 \in S
    OBVIOUS
<1>2. ASSUME NEW n \in S PROVE n + 1 \in S
  <2> SUFFICES ASSUME n + 1 \in H PROVE FALSE
    OBVIOUS
  <2>1. \A y \in H : n + 1 <= y
    OBVIOUS
  <2> QED
    BY <2>1
<1>3. S = Nat
    BY <1>1, <1>2, SetInduction
<1>4. PICK h \in H : h \in Nat
    OBVIOUS
<1>5. h \in S
  <2> HIDE DEF S
  <2> QED BY <1>3, <1>4
<1> QED
    BY <1>4, <1>5

\* A sequence of integers that is not empty has a least and a greatest element.
LEMMA Extremes ==
    ASSUME NEW v \in Seq(Int), v # <<>>
    PROVE  Min(ToSet(v)) \in ToSet(v) /\ Max(ToSet(v)) \in ToSet(v)
<1> DEFINE n == Len(v)
<1>1. n \in Nat \ {0} /\ DOMAIN v = 1 .. n
    BY LenProperties, EmptySeq
<1>2. \A i \in 1 .. n : v[i] \in Int
    BY ElementOfSeq
<1> HIDE DEF n
<1> DEFINE least(i, m) == i \in 1 .. m /\ \A j \in 1 .. m : v[i] <= v[j]
           most(i, m) == i \in 1 .. m /\ \A j \in 1 .. m : v[i] >= v[j]
           S == {m \in Nat : m + 1 <= n => \E i, j \in 1 .. n : least(i, m + 1) /\ most(j, m + 1)}
<1>3. 0 \in S
    BY <1>1, <1>2
<1>4. ASSUME NEW m \in S PROVE m + 1 \in S
  <2> SUFFICES ASSUME (m + 1) + 1 <= n
               PROVE  \E i, j \in 1 .. n : least(i, (m + 1) + 1) /\ most(j, (m + 1) + 1)
    <3> HIDE DEF least, most
    <3> QED
      OBVIOUS
  <2>1. m \in Nat /\ m + 1 <= n
    BY <1>1
  <2>2. PICK i, j \in 1 .. n : least(i, m + 1) /\ most(j, m + 1)
    <3> HIDE DEF least, most
    <3> QED
      BY <2>1
  <2> DEFINE x == m + 2
             k == IF v[i] <= v[x] THEN i ELSE x
             l == IF v[j] >= v[x] THEN j ELSE x
  <2>3. x \in 1 .. n /\ x = (m + 1) + 1 /\ \A y \in 1 .. x : y = x \/ y \in 1 .. (m + 1)
    BY <1>1, <2>1
  <2>4. v[x] \in Int /\ v[i] \in Int /\ v[j] \in Int
    BY <1>2, <2>3
  <2> HIDE DEF x
  <2>7. \A y \in 1 .. (m + 1) : y \in 1 .. x /\ y \in 1 .. n /\ v[y] \in Int
    BY <1>1, <1>2, <2>1, <2>3
  <2>8. x \in 1 .. x
    BY <2>1, <2>3
  <2>5. k \in 1 .. n /\ least(k, x)
    <3>1. k \in 1 .. n /\ k \in 1 .. x
      BY <2>2, <2>3, <2>7, <2>8
    <3>2. ASSUME NEW y \in 1 .. x PROVE v[k] <= v[y]
      <4>1. v[k] <= v[x] /\ v[k] <= v[i] /\ v[k] \in Int
        BY <2>4
      <4> HIDE DEF k
      <4>2. CASE y = x
        BY <4>1, <4>2
      <4>3. CASE y \in 1 .. (m + 1)
        <5>1. v[i] <= v[y] /\ v[y] \in Int
          BY <2>2, <2>7, <4>3
        <5> QED
          BY <2>4, <4>1, <5>1
      <4> QED
        BY <2>3, <4>2, <4>3
    <3> QED
      BY <3>1, <3>2
  <2>6. l \in 1 .. n /\ most(l, x)
    <3>1. l \in 1 .. n /\ l \in 1 .. x
      BY <2>2, <2>3, <2>7, <2>8
    <3>2. ASSUME NEW y \in 1 .. x PROVE v[l] >= v[y]
      <4>1. v[l] >= v[x] /\ v[l] >= v[j] /\ v[l] \in Int
        BY <2>4
      <4> HIDE DEF l
      <4>2. CASE y = x
        BY <4>1, <4>2
      <4>3. CASE y \in 1 .. (m + 1)
        <5>1. v[j] >= v[y] /\ v[y] \in Int
          BY <2>2, <2>7, <4>3
        <5> QED
          BY <2>4, <4>1, <5>1
      <4> QED
        BY <2>3, <4>2, <4>3
    <3> QED
      BY <3>1, <3>2
  <2> HIDE DEF k, l, least, most
  <2> QED
    BY <2>3, <2>5, <2>6
<1>5. S = Nat
  <2> HIDE DEF S
  <2>1. S \subseteq Nat
    BY DEF S
  <2> QED
    BY <1>3, <1>4, <2>1, SetInduction
<1>6. PICK i, j \in 1 .. n : least(i, n) /\ most(j, n)
  <2> HIDE DEF least, most
  <2>1. n - 1 \in Nat /\ (n - 1) + 1 = n
    BY <1>1
  <2> QED
    BY <1>5, <2>1
<1>7. /\ v[i] \in ToSet(v) /\ \A y \in ToSet(v) : v[i] <= y
      /\ v[j] \in ToSet(v) /\ \A y \in ToSet(v) : v[j] >= y
    BY <1>1, <1>6 DEF ToSet
<1> QED
    BY <1>7 DEF Min, Max

LEMMA ReportFacts ==
    ASSUME NEW c, c.reduction \in DOMAIN MatchType, c.operator \in DOMAIN CompareOp,
           NEW A, A \subseteq Int, NaN \notin A, NEW w \in Seq(A \cup {NaN}), NEW t \in Int,
           NEW r, r = ShouldAlertWithTarget(c, w, t), r.alert
    PROVE  Stated(c.operator, r.num, t * r.den)
<1> DEFINE pts == Usable(w)
           op == CompareOp[c.operator]
<1>0. /\ pts \in Seq(Int)
      /\ Len(pts) \in Nat /\ DOMAIN pts = 1 .. Len(pts)
      /\ \A i \in DOMAIN pts : pts[i] \in Int
      /\ pts # <<>> => Last(pts) \in Int /\ 1 \in DOMAIN pts /\ Head(pts) = pts[1]
  <2> HIDE DEF pts
  <2>1. /\ pts \in Seq(A)
        /\ Len(pts) \in Nat /\ DOMAIN pts = 1 .. Len(pts)
        /\ \A i \in DOMAIN pts : pts[i] \in A
        /\ pts # <<>> => Last(pts) \in A /\ 1 \in DOMAIN pts /\ Head(pts) = pts[1]
    BY WindowFacts DEF pts
  <2>2. pts \in Seq(Int)
    BY <2>1, SeqMonotonic
  <2> QED
    BY <2>1, <2>2
<1>1. SumOf(pts) \in Int /\ t * Len(pts) \in Int /\ t * 1 = t
  <2>1. SumOf(pts) \in Int
    BY <1>0, SumFacts
  <2>2. t * Len(pts) \in Int
    BY <1>0
  <2> QED
    BY <2>1, <2>2
<1>2. \A v \in Int, x \in Int :
        /\ Meets(op, v, x) => Stated(c.operator, v, x)
        /\ c.operator \notin {"gte", "lte"} /\ ~Breaks(op, v, x) => Stated(c.operator, v, x)
    BY OperatorFacts
<1>3. pts # <<>>
    BY Branches, AlertFacts
<1>4. \A a, b, d : Sample(a, b, d).num = b /\ Sample(a, b, d).den = d /\ Sample(a, b, d).alert = a
    BY DEF Sample
<1>5. c.reduction \in {"at_least_once", "all_the_time", "average", "total", "last"}
    BY DEF MatchType
<1>6. CASE c.reduction = "at_least_once"
  <2> DEFINE hits == {i \in DOMAIN pts : Meets(op, pts[i], t)}
  <2>1. r = AtleastOnce(op, pts, t)
    BY <1>3, <1>6, Branches
  <2>2. r = IF hits = {} THEN NotAlerting ELSE Sample(TRUE, pts[Min(hits)], 1)
    BY <2>1 DEF AtleastOnce
  <2>3. hits # {} /\ r = Sample(TRUE, pts[Min(hits)], 1)
    <3> HIDE DEF hits
    <3> QED
      BY <2>2, AlertFacts
  <2>4. Min(hits) \in hits
    <3>1. hits \subseteq Nat
      BY <1>0
    <3> HIDE DEF hits
    <3> QED
      BY <2>3, <3>1, LeastNat
  <2> DEFINE i == Min(hits)
  <2>5. i \in DOMAIN pts /\ Meets(op, pts[i], t) /\ r = Sample(TRUE, pts[i], 1)
    BY <2>3, <2>4
  <2> HIDE DEF i, hits, pts, op
  <2>6. r.num = pts[i] /\ r.den = 1
    BY <2>5 DEF Sample
  <2>7. pts[i] \in Int /\ Stated(c.operator, pts[i], t)
    BY <1>0, <1>2, <2>5
  <2> QED
    BY <1>1, <2>6, <2>7
<1>7. CASE c.reduction = "all_the_time"
  <2>1. r = AllTheTimes(op, pts, t)
    BY <1>3, <1>7, Branches
  <2>2. ~\E i \in DOMAIN pts : Breaks(op, pts[i], t)
    BY <2>1, AlertFacts
  <2>3. r = Sample(TRUE, CASE op = "ValueIsAbove" -> Min(ToSet(pts))
                           [] op = "ValueIsBelow" -> Max(ToSet(pts))
                           [] op = "ValueIsNotEq" -> Head(pts)
                           [] OTHER -> t, 1)
    BY <2>1, <2>2 DEF AllTheTimes
  <2>4. Min(ToSet(pts)) \in ToSet(pts) /\ Max(ToSet(pts)) \in ToSet(pts)
    BY <1>0, <1>3, Extremes
  <2>5. \A x \in ToSet(pts) : x \in Int /\ ~Breaks(op, x, t)
    BY <1>0, <2>2 DEF ToSet
  <2>6. Head(pts) \in ToSet(pts)
    BY <1>0, <1>3 DEF ToSet
  <2>7. /\ op = "ValueIsAbove" <=> c.operator = "gt"
        /\ op = "ValueIsBelow" <=> c.operator = "lt"
        /\ op = "ValueIsNotEq" <=> c.operator = "neq"
        /\ c.operator \in {"eq", "neq", "gt", "gte", "lt", "lte"}
    BY DEF CompareOp
  <2> HIDE DEF pts, op
  <2>8. CASE c.operator \in {"gt", "lt", "neq"}
    <3>1. PICK x \in ToSet(pts) : r = Sample(TRUE, x, 1)
      BY <2>3, <2>4, <2>6, <2>7, <2>8
    <3>2. r.num = x /\ r.den = 1
      BY <3>1 DEF Sample
    <3>3. x \in Int /\ Stated(c.operator, x, t)
      BY <1>2, <2>5, <2>8
    <3> QED
      BY <1>1, <3>2, <3>3
  <2>9. CASE c.operator \in {"eq", "gte", "lte"}
    <3>1. r = Sample(TRUE, t, 1)
      BY <2>3, <2>7, <2>9
    <3>2. r.num = t /\ r.den = 1
      BY <3>1 DEF Sample
    <3>3. Stated(c.operator, t, t)
      <4>1. t = t /\ t >= t /\ t <= t
        OBVIOUS
      <4>2. CASE c.operator = "eq"
        BY <4>1, <4>2 DEF Stated
      <4>3. CASE c.operator = "gte"
        BY <4>1, <4>3 DEF Stated
      <4>4. CASE c.operator = "lte"
        BY <4>1, <4>4 DEF Stated
      <4> QED
        BY <2>9, <4>2, <4>3, <4>4
    <3> QED
      BY <1>1, <3>2, <3>3
  <2> QED
    BY <2>7, <2>8, <2>9
<1>8. CASE c.reduction = "average"
  <2>1. r = Sample(Meets(op, SumOf(pts), t * Len(pts)), SumOf(pts), Len(pts))
    BY <1>3, <1>8, Branches DEF OnAverage
  <2> HIDE DEF pts, op
  <2> QED
    BY <1>1, <1>2, <1>4, <2>1
<1>9. CASE c.reduction = "total"
  <2>1. r = Sample(Meets(op, SumOf(pts), t), SumOf(pts), 1)
    BY <1>3, <1>9, Branches DEF InTotal
  <2> HIDE DEF pts, op
  <2> QED
    BY <1>1, <1>2, <1>4, <2>1
<1>10. CASE c.reduction = "last"
  <2>1. r = Sample(Meets(op, Last(pts), t), Last(pts), 1)
    BY <1>3, <1>10, Branches DEF LastPoint
  <2> HIDE DEF pts, op
  <2> QED
    BY <1>0, <1>1, <1>2, <1>3, <1>4, <2>1
<1> QED
    BY <1>5, <1>6, <1>7, <1>8, <1>9, <1>10

----------------------------------------------------------------------------
(* Severities *)

\* A looser target is met by whatever meets a stricter one.
LEMMA LooserAlerts ==
    ASSUME NEW c, c.reduction \in DOMAIN MatchType,
           NEW A, A \subseteq Int, NaN \notin A, NEW w \in Seq(A \cup {NaN}),
           NEW x \in Int, NEW y \in Int, Looser(c.operator, x, y),
           ShouldAlertWithTarget(c, w, y).alert
    PROVE  ShouldAlertWithTarget(c, w, x).alert
<1> DEFINE pts == Usable(w)
           op == CompareOp[c.operator]
<1>0. /\ Len(pts) \in Nat
      /\ \A i \in DOMAIN pts : pts[i] \in Int
      /\ pts # <<>> => Last(pts) \in Int
  <2> HIDE DEF pts
  <2>1. /\ Len(pts) \in Nat
        /\ \A i \in DOMAIN pts : pts[i] \in A
        /\ pts # <<>> => Last(pts) \in A
    BY WindowFacts DEF pts
  <2> QED
    BY <2>1
<1>1. SumOf(pts) \in Int
    BY TotalFacts
<1>2. \/ op = "ValueIsAbove" /\ x <= y
      \/ op = "ValueIsBelow" /\ x >= y
    BY DEF Looser, CompareOp
<1>3. \A v \in Int : /\ Meets(op, v, y) => Meets(op, v, x)
                     /\ Breaks(op, v, x) => Breaks(op, v, y)
  <2> HIDE DEF op
  <2> QED
    BY <1>2 DEF Meets, Breaks
<1>4. pts # <<>>
    BY Branches, AlertFacts
<1>5. c.reduction \in {"at_least_once", "all_the_time", "average", "total", "last"}
    BY DEF MatchType
<1> DEFINE alerts(t) == ShouldAlertWithTarget(c, w, t).alert
<1>6. \A t : /\ c.reduction = "at_least_once" =>
                  (alerts(t) <=> \E i \in DOMAIN pts : Meets(op, pts[i], t))
             /\ c.reduction = "all_the_time" =>
                  (alerts(t) <=> ~\E i \in DOMAIN pts : Breaks(op, pts[i], t))
             /\ c.reduction = "average" => (alerts(t) <=> Meets(op, SumOf(pts), t * Len(pts)))
             /\ c.reduction = "total" => (alerts(t) <=> Meets(op, SumOf(pts), t))
             /\ c.reduction = "last" => (alerts(t) <=> Meets(op, Last(pts), t))
    BY <1>4, Branches, AlertFacts
<1>7. alerts(y)
    OBVIOUS
<1> HIDE DEF alerts, pts, op
<1>8. CASE c.reduction = "at_least_once"
    BY <1>0, <1>3, <1>6, <1>7, <1>8 DEF alerts
<1>9. CASE c.reduction = "all_the_time"
    BY <1>0, <1>3, <1>6, <1>7, <1>9 DEF alerts
<1>10. CASE c.reduction = "average"
  <2> DEFINE n == Len(pts)
  <2>1. /\ x * n \in Int /\ y * n \in Int
        /\ x <= y => x * n <= y * n
        /\ x >= y => x * n >= y * n
    BY <1>0
  <2> HIDE DEF n
  <2>2. Meets(op, SumOf(pts), y * n) => Meets(op, SumOf(pts), x * n)
    BY <1>1, <1>2, <2>1 DEF Meets
  <2> QED
    BY <1>6, <1>7, <1>10, <2>2 DEF alerts, n
<1>11. CASE c.reduction = "total"
    BY <1>1, <1>3, <1>6, <1>7, <1>11 DEF alerts
<1>12. CASE c.reduction = "last"
    BY <1>0, <1>3, <1>4, <1>6, <1>7, <1>12 DEF alerts
<1> QED
    BY <1>5, <1>8, <1>9, <1>10, <1>11, <1>12

----------------------------------------------------------------------------
(* The theorems *)

\* What a condition that passes validation is made of.
LEMMA ConditionFacts ==
    ASSUME TypeInv
    PROVE  /\ cond.kind \in {"numeric", "boolean"}
           /\ cond.kind = "numeric" =>
                /\ cond.reduction \in DOMAIN MatchType /\ cond.operator \in Operators
                /\ cond.operator \in DOMAIN CompareOp
                /\ window \in Seq(Values \cup {NaN})
                /\ \A s \in DOMAIN cond.thresholds :
                     LET t == cond.thresholds[s]
                     IN  /\ TargetOf(t) \in Int /\ TargetOf(t) = t.target * t.unit
                         /\ t.recovery # None => /\ RecoveryOf(t) \in Int
                                                 /\ RecoveryOf(t) = t.recovery * t.unit
           /\ cond.kind = "boolean" =>
                /\ cond.reduction \in BooleanPolicies
                /\ window \in Seq(BOOLEAN \cup {NaN})
<1>1. cond \in Conditions /\ window \in Seq(Points(cond))
    BY DEF TypeInv
<1>2. CASE cond \in NumericConditions
  <2>1. /\ cond.kind = "numeric" /\ cond.reduction \in DOMAIN MatchType
        /\ cond.operator \in Operators
        /\ cond.thresholds \in UNION {[S -> Threshold] : S \in SUBSET Severities \ {{}}}
    BY <1>2 DEF NumericConditions
  <2>2. window \in Seq(Values \cup {NaN})
    BY <1>1, <2>1 DEF Points
  <2>3. ASSUME NEW s \in DOMAIN cond.thresholds
        PROVE  LET t == cond.thresholds[s]
               IN  /\ TargetOf(t) \in Int /\ TargetOf(t) = t.target * t.unit
                   /\ t.recovery # None => /\ RecoveryOf(t) \in Int
                                           /\ RecoveryOf(t) = t.recovery * t.unit
    <3> DEFINE t == cond.thresholds[s]
    <3>1. t \in Threshold
      BY <2>1
    <3> HIDE DEF t
    <3>2. t.target \in Int /\ t.unit \in Int /\ (t.recovery # None => t.recovery \in Int)
      <4>1. t.target \in Targets /\ t.unit \in Units /\ t.recovery \in Targets \cup {None}
        BY <3>1 DEF Threshold
      <4>2. Targets \subseteq Int /\ Units \subseteq Int
        BY ConstantsAssumption
      <4> QED
        BY <4>1, <4>2
    <3>3. /\ TargetOf(t) \in Int /\ TargetOf(t) = t.target * t.unit
          /\ t.recovery # None => RecoveryOf(t) \in Int /\ RecoveryOf(t) = t.recovery * t.unit
      BY <3>2 DEF TargetOf, RecoveryOf, ConvertToRuleUnit
    <3> QED
      BY <3>3 DEF t
  <2>4. cond.operator \in DOMAIN CompareOp
    BY <2>1, ConstantsAssumption
  <2> QED
    BY <2>1, <2>2, <2>3, <2>4
<1>3. CASE cond \in BooleanConditions
  <2>1. cond.kind = "boolean" /\ cond.reduction \in BooleanPolicies
    BY <1>3 DEF BooleanConditions
  <2>2. window \in Seq(BOOLEAN \cup {NaN})
    BY <1>1, <2>1 DEF Points
  <2> QED
    BY <2>1, <2>2
<1> QED
    BY <1>1, <1>2, <1>3 DEF Conditions

LEMMA ThresholdsInit == ASSUME Init PROVE TypeInv
<1>1. <<>> \in Seq(Points(cond))
    BY EmptySeq
<1> QED
    BY <1>1 DEF Init, TypeInv

LEMMA ThresholdsNext == ASSUME TypeInv, [Next]_vars PROVE TypeInv'
<1>1. CASE UNCHANGED vars
    BY <1>1 DEF vars, TypeInv
<1>2. ASSUME NEW v \in Points(cond), Arrive(v) PROVE TypeInv'
  <2>1. Append(window, v) \in Seq(Points(cond))
    BY AppendProperties DEF TypeInv
  <2> QED
    BY <1>2, <2>1 DEF Arrive, TypeInv
<1>3. CASE Expire
  <2>1. Tail(window) \in Seq(Points(cond))
    BY <1>3, HeadTailProperties DEF TypeInv, Expire
  <2> QED
    BY <1>3, <2>1 DEF Expire, TypeInv
<1>4. ASSUME NEW forgotten, Evaluate(forgotten) PROVE TypeInv'
    BY <1>4 DEF Evaluate, TypeInv
<1> QED
    BY <1>1, <1>2, <1>3, <1>4 DEF Next

LEMMA ThresholdsTyped == Spec => []TypeInv
<1> QED
    BY ThresholdsInit, ThresholdsNext, PTL DEF Spec

\* The operators with "or equal", which no reduction tests, are not in use.
NoOrEqual == Operators \cap {"gte", "lte"} = {}

(***************************************************************************)
(* A threshold alerts exactly when its condition holds of the usable       *)
(* points, for any values, targets, units and length of the window, unless *)
(* the operator is one of the two shouldAlertWithTarget does not test.     *)
(***************************************************************************)
THEOREM AlertsStated ==
    ASSUME NoOrEqual
    PROVE  Spec => []AlertsAsStated
<1>1. ASSUME TypeInv PROVE AlertsAsStated
  <2> SUFFICES ASSUME NEW s \in DOMAIN cond.thresholds
               PROVE  LET t == cond.thresholds[s]
                          agree(x) == ShouldAlertWithTarget(cond, window, x).alert
                                        <=> StatedMatch(cond, window, x)
                      IN  IF cond.kind = "boolean"
                          THEN BooleanMatched(cond.reduction, Usable(window))
                                 <=> StatedMatch(cond, window, None)
                          ELSE agree(TargetOf(t)) /\ (t.recovery # None => agree(RecoveryOf(t)))
    BY DEF AlertsAsStated
  <2>1. CASE cond.kind = "boolean"
    <3>1. cond.reduction \in BooleanPolicies /\ window \in Seq(BOOLEAN \cup {NaN})
      BY <1>1, <2>1, ConditionFacts
    <3>2. BooleanMatched(cond.reduction, Usable(window)) <=> StatedMatch(cond, window, None)
      BY <2>1, <3>1, ConstantsAssumption, BooleanAsStated
    <3> QED
      BY <2>1, <3>2
  <2>2. CASE cond.kind = "numeric"
    <3> DEFINE t == cond.thresholds[s]
    <3>1. /\ cond.reduction \in DOMAIN MatchType
          /\ cond.operator \in DOMAIN CompareOp \ {"gte", "lte"}
          /\ window \in Seq(Values \cup {NaN})
          /\ TargetOf(t) \in Int /\ (t.recovery # None => RecoveryOf(t) \in Int)
      BY <1>1, <2>2, ConditionFacts DEF NoOrEqual
    <3>2. \A x \in Int : ShouldAlertWithTarget(cond, window, x).alert
                           <=> StatedMatch(cond, window, x)
      BY <2>2, <3>1, ConstantsAssumption, NumericAsStated
    <3> QED
      BY <2>2, <3>1, <3>2
  <2> QED
    BY <1>1, <2>1, <2>2, ConditionFacts
<1> QED
    BY <1>1, ThresholdsTyped, PTL

(***************************************************************************)
(* The value a notification shows meets the target, whatever the reduction *)
(* and the operator, those with "or equal" included.                       *)
(***************************************************************************)
THEOREM ReportedMeetsTarget == Spec => []ReportedValueMeetsTarget
<1>1. ASSUME TypeInv PROVE ReportedValueMeetsTarget
  <2> SUFFICES ASSUME cond.kind = "numeric", NEW s \in DOMAIN cond.thresholds,
                      NEW t, t = TargetOf(cond.thresholds[s]),
                      NEW r, r = ShouldAlertWithTarget(cond, window, t), r.alert
               PROVE  Stated(cond.operator, r.num, t * r.den)
    BY DEF ReportedValueMeetsTarget
  <2>1. /\ cond.reduction \in DOMAIN MatchType /\ cond.operator \in DOMAIN CompareOp
        /\ window \in Seq(Values \cup {NaN}) /\ t \in Int
    BY <1>1, ConditionFacts
  <2> QED
    BY <2>1, ConstantsAssumption, ReportFacts
<1> QED
    BY <1>1, ThresholdsTyped, PTL

\* What the grade of a severity says.
LEMMA GradeFacts ==
    ASSUME NEW c, c.kind = "numeric", NEW s, NEW w, NEW t, t = c.thresholds[s]
    PROVE  /\ Grade(c, s, w) = "target" <=>
                ShouldEval(c, w) /\ ShouldAlertWithTarget(c, w, TargetOf(t)).alert
           /\ Grade(c, s, w) = "recovery" =>
                /\ ShouldEval(c, w) /\ t.recovery # None
                /\ ShouldAlertWithTarget(c, w, RecoveryOf(t)).alert
  BY DEF Grade

LEMMA EvaluateNests ==
    ASSUME TypeInv, NEW forgotten, Evaluate(forgotten)
    PROVE  SeveritiesNest'
<1>0. cond' = cond /\ window' = window
    BY DEF Evaluate
<1> SUFFICES ASSUME cond.kind = "numeric",
                    NEW s \in DOMAIN cond.thresholds, NEW l \in DOMAIN cond.thresholds,
                    NEW strict, strict = cond.thresholds[s],
                    NEW loose, loose = cond.thresholds[l],
                    active'[s] = "open",
                    Looser(cond.operator, loose.target * loose.unit, strict.target * strict.unit),
                    strict.recovery # None =>
                      Looser(cond.operator, loose.target * loose.unit, strict.recovery * strict.unit)
             PROVE  active'[l] = "open"
    BY <1>0 DEF SeveritiesNest
<1>1. DOMAIN active = DOMAIN cond.thresholds
    BY DEF TypeInv
<1>2. InVector(s)
    BY <1>1 DEF Evaluate
<1>3. /\ cond.reduction \in DOMAIN MatchType /\ window \in Seq(Values \cup {NaN})
      /\ TargetOf(loose) \in Int /\ TargetOf(loose) = loose.target * loose.unit
      /\ TargetOf(strict) \in Int /\ TargetOf(strict) = strict.target * strict.unit
      /\ strict.recovery # None => /\ RecoveryOf(strict) \in Int
                                   /\ RecoveryOf(strict) = strict.recovery * strict.unit
    BY ConditionFacts
<1>4. ShouldEval(cond, window) /\ ShouldAlertWithTarget(cond, window, TargetOf(loose)).alert
  <2>1. CASE Grade(cond, s, window) = "target"
    <3>1. ShouldEval(cond, window) /\ ShouldAlertWithTarget(cond, window, TargetOf(strict)).alert
      BY <2>1, GradeFacts
    <3> QED
      BY <1>3, <3>1, ConstantsAssumption, LooserAlerts
  <2>2. CASE Grade(cond, s, window) = "recovery"
    <3>1. /\ ShouldEval(cond, window) /\ strict.recovery # None
          /\ ShouldAlertWithTarget(cond, window, RecoveryOf(strict)).alert
      BY <2>2, GradeFacts
    <3> QED
      BY <1>3, <3>1, ConstantsAssumption, LooserAlerts
  <2> QED
    BY <1>2, <2>1, <2>2 DEF InVector
<1>5. Grade(cond, l, window) = "target"
    BY <1>4, GradeFacts
<1>6. InVector(l)
    BY <1>5 DEF InVector
<1> QED
    BY <1>1, <1>6 DEF Evaluate

(***************************************************************************)
(* While a severity is open, so is every severity it implies, for any set  *)
(* of severities, mixed units and recovery targets, however the window     *)
(* moves between evaluations.                                              *)
(***************************************************************************)
THEOREM NestedSeverities == Spec => []SeveritiesNest
<1>1. ASSUME Init PROVE SeveritiesNest
    BY <1>1 DEF Init, SeveritiesNest
<1>2. ASSUME TypeInv, SeveritiesNest, [Next]_vars PROVE SeveritiesNest'
  <2>1. CASE UNCHANGED <<cond, active>>
    BY <1>2, <2>1 DEF SeveritiesNest
  <2>2. CASE \E forgotten \in SUBSET DOMAIN active : Evaluate(forgotten)
    BY <1>2, <2>2, EvaluateNests
  <2>3. \/ UNCHANGED <<cond, active>>
        \/ \E forgotten \in SUBSET DOMAIN active : Evaluate(forgotten)
    BY <1>2 DEF Next, Arrive, Expire, vars
  <2> QED
    BY <2>1, <2>2, <2>3
<1> QED
    BY <1>1, <1>2, ThresholdsTyped, PTL DEF Spec
=============================================================================
