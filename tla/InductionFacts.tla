--------------------------- MODULE InductionFacts ---------------------------
(***************************************************************************)
(* Induction over the natural numbers, powers of two and sequences, for    *)
(* the proofs about this plotter.  The theorems of NaturalsInduction have  *)
(* an operator as a parameter; here the induction hypothesis is a set      *)
(* (Induction), and a recursive definition is given by a function for      *)
(* every step (Recursion).                                                 *)
(***************************************************************************)
EXTENDS Integers, SequencesExt, FiniteSetTheorems, TLAPS

-----------------------------------------------------------------------------
(* Induction *)

LEMMA NoInfiniteDescent == \A f \in [Nat -> Nat] : \E n \in Nat : ~(f[n + 1] < f[n])
BY NatLessThanWellFounded DEF IsWellFoundedOn, OpToRel

LEMMA LeastElement ==
    ASSUME NEW S \in SUBSET Nat, S # {}
    PROVE  \E n \in S : \A m \in S : n <= m
<1> DEFINE R == {p \in Nat \X Nat : p[1] < p[2]}
<1>1. IsWellFoundedOn(R, Nat)
  <2> SUFFICES ASSUME NEW f \in [Nat -> Nat], \A n \in Nat : <<f[n + 1], f[n]>> \in R
               PROVE  FALSE
    BY DEF IsWellFoundedOn
  <2>1. \A n \in Nat : f[n + 1] < f[n]
    OBVIOUS
  <2>2. QED
    BY <2>1, NoInfiniteDescent
<1>2. \A m, n \in Nat : m < n => <<m, n>> \in R
  OBVIOUS
<1> HIDE DEF R
<1>3. PICK n \in S : \A m \in S : <<m, n>> \notin R
  BY <1>1, WFMin
<1>4. ASSUME NEW m \in S PROVE n <= m
  <2>1. m \in Nat /\ n \in Nat
    OBVIOUS
  <2>2. ~(m < n)
    BY <2>1, <1>2, <1>3
  <2>3. QED
    BY <2>1, <2>2
<1>5. QED
  BY <1>4

\* A set with 0 in it that every step from i - 1 to i stays in holds all of 0 .. n.
LEMMA Induction ==
    ASSUME NEW n \in Nat, NEW S, 0 \in S, \A i \in 1 .. n : i - 1 \in S => i \in S
    PROVE  \A i \in 0 .. n : i \in S
<1> SUFFICES ASSUME NEW k \in 0 .. n, k \notin S PROVE FALSE
  OBVIOUS
<1> DEFINE Missing == {i \in 0 .. n : i \notin S}
<1>1. Missing \in SUBSET Nat /\ Missing # {}
  OBVIOUS
<1>2. PICK least \in Missing : \A m \in Missing : least <= m
  BY <1>1, LeastElement
<1>3. least \in 1 .. n /\ least - 1 \notin Missing
  BY <1>2
<1>4. QED
  BY <1>3

\* f is the solution of the recursive definition in which step[i] takes the value
\* for i - 1 to that for i.
Solves(f, base, step, n) == f[0] = base /\ \A i \in 1 .. n : f[i] = step[i][f[i - 1]]

LEMMA Recursion ==
    ASSUME NEW V, NEW base \in V, NEW n \in Nat, NEW step \in [1 .. n -> [V -> V]]
    PROVE  \E f \in [0 .. n -> V] : Solves(f, base, step, n)
<1> DEFINE Solved == {k \in 0 .. n : \E f \in [0 .. k -> V] : Solves(f, base, step, k)}
<1>1. 0 \in Solved
  <2> DEFINE g == [i \in 0 .. 0 |-> base]
  <2>1. g \in [0 .. 0 -> V] /\ Solves(g, base, step, 0)
    BY DEF Solves
  <2> HIDE DEF g
  <2>2. QED
    BY <2>1
<1>2. ASSUME NEW k \in 1 .. n, k - 1 \in Solved PROVE k \in Solved
  <2>1. PICK f \in [0 .. k - 1 -> V] : Solves(f, base, step, k - 1)
    BY <1>2
  <2> DEFINE g == [i \in 0 .. k |-> IF i = k THEN step[k][f[k - 1]] ELSE f[i]]
  <2>2. step[k][f[k - 1]] \in V
    <3>1. k - 1 \in 0 .. k - 1 /\ f[k - 1] \in V
      OBVIOUS
    <3>2. QED
      BY <3>1
  <2>3. g \in [0 .. k -> V]
    BY <2>2
  <2>4. /\ g[k] = step[k][f[k - 1]]
        /\ \A i \in 0 .. k - 1 : g[i] = f[i]
    OBVIOUS
  <2> HIDE DEF g
  <2>5. g[0] = base
    BY <2>1, <2>4 DEF Solves
  <2>6. ASSUME NEW i \in 1 .. k PROVE g[i] = step[i][g[i - 1]]
    <3>1. g[i - 1] = f[i - 1]
      BY <2>4
    <3>2. CASE i = k
      BY <3>1, <3>2, <2>4
    <3>3. CASE i # k
      <4>1. i \in 1 .. k - 1
        BY <3>3
      <4>2. QED
        BY <4>1, <3>1, <2>1, <2>4 DEF Solves
    <3>4. QED
      BY <3>2, <3>3
  <2>7. Solves(g, base, step, k)
    BY <2>5, <2>6 DEF Solves
  <2>8. QED
    BY <2>3, <2>7
<1>3. n \in Solved
  <2> HIDE DEF Solved
  <2>1. \A i \in 0 .. n : i \in Solved
    BY <1>1, <1>2, Induction
  <2>2. QED
    BY <2>1
<1>4. QED
  BY <1>3

LEMMA PowerOfTwo == ASSUME NEW n \in Nat PROVE 2^n \in Nat \ {0}
<1>1. IsFiniteSet(1 .. n) /\ Cardinality(1 .. n) = n
  BY FS_Interval
<1>2. IsFiniteSet(SUBSET (1 .. n)) /\ Cardinality(SUBSET (1 .. n)) = 2^n
  BY <1>1, FS_SUBSET
<1>3. SUBSET (1 .. n) # {}
  OBVIOUS
<1>4. 2^n # 0
  BY <1>2, <1>3, FS_EmptySet
<1>5. 2^n \in Nat
  BY <1>2, FS_CardinalityType
<1>6. QED
  BY <1>4, <1>5

-----------------------------------------------------------------------------
(* Powers and division *)

LEMMA PowerDoubles == ASSUME NEW n \in Nat PROVE 2^(n + 1) = 2 * 2^n
<1> DEFINE S == SUBSET (1 .. n)
           T == SUBSET (1 .. n + 1)
           P == S \X (0 .. 1)
           f == [p \in P |-> IF p[2] = 0 THEN p[1] ELSE p[1] \cup {n + 1}]
<1>1. IsFiniteSet(S) /\ Cardinality(S) = 2^n
  <2>1. IsFiniteSet(1 .. n) /\ Cardinality(1 .. n) = n
    BY FS_Interval
  <2>2. QED
    BY <2>1, FS_SUBSET
<1>2. IsFiniteSet(T) /\ Cardinality(T) = 2^(n + 1)
  <2>1. IsFiniteSet(1 .. n + 1) /\ Cardinality(1 .. n + 1) = n + 1
    BY FS_Interval
  <2>2. QED
    BY <2>1, FS_SUBSET
<1>3. IsFiniteSet(P) /\ Cardinality(P) = Cardinality(S) * 2
  <2>1. IsFiniteSet(0 .. 1) /\ Cardinality(0 .. 1) = 2
    <3>1. IsFiniteSet({0}) /\ Cardinality({0}) = 1
      BY FS_Singleton
    <3>2. IsFiniteSet({0} \cup {1}) /\ Cardinality({0} \cup {1}) = 1 + 1
      BY <3>1, FS_AddElement
    <3>3. 0 .. 1 = {0} \cup {1}
      OBVIOUS
    <3>4. QED
      BY <3>2, <3>3
  <2>2. IsFiniteSet(P) /\ Cardinality(P) = Cardinality(S) * Cardinality(0 .. 1)
    BY <1>1, <2>1, FS_Product
  <2>3. QED
    BY <2>1, <2>2
<1>4. f \in [P -> T]
  OBVIOUS
<1>5. ASSUME NEW p \in P, NEW q \in P, f[p] = f[q] PROVE p = q
  <2>1. n + 1 \notin p[1] /\ n + 1 \notin q[1]
    OBVIOUS
  <2>2. p[1] = f[p] \ {n + 1} /\ q[1] = f[q] \ {n + 1}
    BY <2>1
  <2>3. (p[2] = 0 <=> n + 1 \notin f[p]) /\ (q[2] = 0 <=> n + 1 \notin f[q])
    BY <2>1
  <2>4. p[2] \in 0 .. 1 /\ q[2] \in 0 .. 1 /\ p = <<p[1], p[2]>> /\ q = <<q[1], q[2]>>
    OBVIOUS
  <2> HIDE DEF f
  <2>5. p[1] = q[1]
    BY <1>5, <2>2
  <2>6. p[2] = q[2]
    BY <1>5, <2>3, <2>4
  <2>7. QED
    BY <2>4, <2>5, <2>6
<1>6. ASSUME NEW t \in T PROVE \E p \in P : f[p] = t
  <2>1. CASE n + 1 \in t
    <3>1. t \ {n + 1} \in S
      OBVIOUS
    <3>2. <<t \ {n + 1}, 1>> \in P
      <4> HIDE DEF S
      <4>1. QED
        BY <3>1
    <3>3. f[<<t \ {n + 1}, 1>>] = t
      BY <2>1, <3>2
    <3> HIDE DEF f
    <3>4. QED
      BY <3>2, <3>3
  <2>2. CASE n + 1 \notin t
    <3>1. <<t, 0>> \in P
      <4>1. t \in S
        BY <2>2
      <4> HIDE DEF S
      <4>2. QED
        BY <4>1
    <3>2. f[<<t, 0>>] = t
      BY <3>1
    <3> HIDE DEF f
    <3>3. QED
      BY <3>1, <3>2
  <2>3. QED
    BY <2>1, <2>2
<1> HIDE DEF f, P, T, S
<1>7. f \in Bijection(P, T)
  BY <1>4, <1>5, <1>6 DEF Bijection, Injection, Surjection, IsInjective
<1>8. ExistsBijection(P, T)
  BY <1>7 DEF ExistsBijection
<1>9. Cardinality(T) = Cardinality(P)
  BY <1>3, <1>8, FS_Bijection
<1>10. Cardinality(S) \in Nat
  BY <1>1, FS_CardinalityType
<1>11. QED
  BY <1>1, <1>2, <1>3, <1>9, <1>10

LEMMA PowerSum == ASSUME NEW m \in Nat, NEW n \in Nat PROVE 2^(m + n) = 2^m * 2^n
<1> DEFINE S == {i \in 0 .. n : 2^(m + i) = 2^m * 2^i}
<1>1. 0 \in S
  <2>1. 2^0 = 1
    <3>1. IsFiniteSet(1 .. 0) /\ Cardinality(1 .. 0) = 0 /\ 1 .. 0 = {}
      BY FS_Interval
    <3>2. Cardinality(SUBSET {}) = 2^0
      BY <3>1, FS_SUBSET
    <3>3. SUBSET {} = {{}}
      OBVIOUS
    <3>4. QED
      BY <3>2, <3>3, FS_Singleton
  <2>2. 2^m \in Nat
    BY PowerOfTwo
  <2>3. m + 0 = m
    OBVIOUS
  <2>4. 2^(m + 0) = 2^m * 2^0
    BY <2>1, <2>2, <2>3
  <2>5. QED
    BY <2>4
<1>2. ASSUME NEW i \in 1 .. n, i - 1 \in S PROVE i \in S
  <2> DEFINE j == i - 1
  <2>1. j \in Nat /\ i = j + 1 /\ 2^(m + j) = 2^m * 2^j
    BY <1>2
  <2> HIDE DEF j
  <2>2. 2^(j + 1) = 2 * 2^j /\ 2^((m + j) + 1) = 2 * 2^(m + j)
    BY <2>1, PowerDoubles
  <2>3. 2^m \in Nat /\ 2^j \in Nat
    BY <2>1, PowerOfTwo
  <2>4. (m + j) + 1 = m + i
    BY <2>1
  <2>5. 2^(m + i) = 2 * (2^m * 2^j) /\ 2^i = 2 * 2^j
    BY <2>1, <2>2, <2>4
  <2>6. \A a, b \in Nat : 2 * (a * b) = a * (2 * b)
    OBVIOUS
  <2>7. 2^(m + i) = 2^m * 2^i
    BY <2>3, <2>5, <2>6
  <2>8. QED
    BY <2>7
<1>3. n \in S
  <2> HIDE DEF S
  <2>1. \A i \in 0 .. n : i \in S
    BY <1>1, <1>2, Induction
  <2>2. QED
    BY <2>1
<1>4. QED
  BY <1>3

LEMMA Division ==
    ASSUME NEW c \in Nat \ {0}, NEW d \in Nat \ {0}, NEW x \in Nat, NEW y \in Nat
    PROVE  /\ x \div d \in Nat
           /\ x <= y => x \div d <= y \div d
           /\ (x \div d) \div c = x \div (d * c)
<1>1. x \div d \in Nat
  OBVIOUS
<1>2. x <= y => x \div d <= y \div d
  OBVIOUS
<1>3. (x \div d) \div c = x \div (d * c)
  OBVIOUS
<1>4. QED
  BY <1>1, <1>2, <1>3

-----------------------------------------------------------------------------
(* Sequences and the sets of their elements *)

LEMMA FirstElement ==
    ASSUME NEW V, NEW s \in Seq(V), s # <<>>
    PROVE  s[1] \in ToSet(s) /\ s[1] \in V
BY DEF ToSet

LEMMA Elements == ASSUME NEW V, NEW s \in Seq(V) PROVE ToSet(s) \subseteq V
BY DEF ToSet

LEMMA EmptySequence == ToSet(<<>>) = {} /\ IsInjective(<<>>)
BY DEF ToSet, IsInjective

LEMMA FiniteElements == ASSUME NEW V, NEW s \in Seq(V) PROVE IsFiniteSet(ToSet(s))
<1>1. s \in [1 .. Len(s) -> ToSet(s)] /\ Len(s) \in Nat
  BY DEF ToSet
<1>2. s \in Surjection(1 .. Len(s), ToSet(s))
  BY <1>1 DEF Surjection, ToSet
<1>3. ExistsSurjection(1 .. Len(s), ToSet(s))
  BY <1>2 DEF ExistsSurjection
<1>4. QED
  BY <1>1, <1>3, FS_NatSurjection

LEMMA AppendedElement ==
    ASSUME NEW V, NEW s \in Seq(V), NEW e \in V
    PROVE  /\ Append(s, e) \in Seq(V) /\ Len(Append(s, e)) = Len(s) + 1 /\ Len(s) \in Nat
           /\ DOMAIN s = 1 .. Len(s) /\ DOMAIN Append(s, e) = 1 .. Len(s) + 1
           /\ \A i \in 1 .. Len(s) : Append(s, e)[i] = s[i] /\ s[i] \in V
           /\ Append(s, e)[Len(s) + 1] = e
OBVIOUS

LEMMA TailElements ==
    ASSUME NEW V, NEW s \in Seq(V), s # <<>>
    PROVE  /\ Len(s) \in Nat \ {0} /\ DOMAIN s = 1 .. Len(s) /\ s[1] = Head(s) /\ s[1] \in V
           /\ Tail(s) \in Seq(V) /\ Len(Tail(s)) = Len(s) - 1 /\ DOMAIN Tail(s) = 1 .. Len(s) - 1
           /\ \A i \in 1 .. Len(s) - 1 : Tail(s)[i] = s[i + 1]
OBVIOUS

LEMMA LongerSequence ==
    ASSUME NEW V, NEW s \in Seq(V), NEW t \in Seq(V), t # <<>>
    PROVE  IsStrictPrefix(s, s \o t)
<1>1. Len(s) \in Nat /\ Len(t) \in Nat \ {0} /\ s \o t \in Seq(V) /\ Len(s \o t) = Len(s) + Len(t)
  OBVIOUS
<1>2. \A i \in 1 .. Len(s) : (s \o t)[i] = s[i]
  OBVIOUS
<1>3. SubSeq(s, 1, Len(s)) = SubSeq(s \o t, 1, Len(s))
  <2> DEFINE u == s \o t
             m == Len(s)
  <2> HIDE DEF u
  <2>1. SubSeq(s, 1, m) = [i \in 1 .. m |-> s[i]]
    BY <1>1
  <2>2. SubSeq(u, 1, m) = [i \in 1 .. m |-> u[i]]
    BY <1>1 DEF u
  <2>3. QED
    BY <2>1, <2>2, <1>2 DEF u
<1>4. QED
  BY <1>1, <1>3 DEF IsStrictPrefix, IsPrefix

-----------------------------------------------------------------------------
(* Sequences joined and divided *)

\* FlattenSeq() joins one sequence after the other.
Joins(f, ss, n) == f[1] = ss[1] /\ \A i \in 2 .. n : f[i] = f[i - 1] \o ss[i]

LEMMA FlattenSteps ==
    ASSUME NEW V, NEW n \in Nat \ {0}, NEW ss \in [1 .. n -> Seq(V)]
    PROVE  \E f \in [1 .. n -> Seq(V)] : FlattenSeq(ss) = f[n] /\ Joins(f, ss, n)
<1> DEFINE Flattens(f) == f = [i \in 1 .. n |-> IF i = 1 THEN ss[i] ELSE f[i - 1] \o ss[i]]
           step == [i \in 1 .. n |-> [v \in Seq(V) |-> v \o ss[i]]]
           flatten == CHOOSE f : Flattens(f)
<1>1. \E f : Flattens(f)
  <2> DEFINE W == Seq(V)
             none == <<>>
  <2>1. step \in [1 .. n -> [W -> W]]
    OBVIOUS
  <2>2. \A i \in 1 .. n, v \in W : step[i][v] = v \o ss[i]
    OBVIOUS
  <2>3. none \in W
    OBVIOUS
  <2> HIDE DEF step, W, none
  <2>12. n \in Nat
    OBVIOUS
  <2>4. PICK g \in [0 .. n -> W] : Solves(g, none, step, n)
    BY <2>12, <2>1, <2>3, Recursion
  <2>5. ASSUME NEW i \in 1 .. n PROVE g[i] = g[i - 1] \o ss[i]
    <3>1. i - 1 \in 0 .. n
      OBVIOUS
    <3>2. g[i - 1] \in W
      BY <3>1
    <3>3. QED
      BY <3>2, <2>2, <2>4 DEF Solves
  <2>6. g[1] = ss[1]
    <3>1. g[1] = g[0] \o ss[1]
      BY <2>5
    <3>2. \A s \in Seq(V) : <<>> \o s = s
      OBVIOUS
    <3>3. QED
      BY <3>1, <3>2, <2>4 DEF none, W, Solves
  <2> DEFINE f == [i \in 1 .. n |-> g[i]]
  <2>7. ASSUME NEW i \in 1 .. n PROVE f[i] = IF i = 1 THEN ss[i] ELSE f[i - 1] \o ss[i]
    <3>1. CASE i = 1
      BY <3>1, <2>6
    <3>2. CASE i # 1
      <4>1. i - 1 \in 1 .. n
        BY <3>2
      <4>2. f[i - 1] = g[i - 1] /\ f[i] = g[i]
        BY <4>1
      <4> HIDE DEF f
      <4>3. g[i] = g[i - 1] \o ss[i]
        BY ONLY <2>5, Zenon
      <4>4. f[i] = f[i - 1] \o ss[i]
        BY ONLY <4>2, <4>3
      <4>5. QED
        BY ONLY <3>2, <4>4
    <3>3. QED
      BY <3>1, <3>2
  <2>8. Flattens(f)
    BY <2>7
  <2>9. QED
    BY <2>8
<1>2. Flattens(flatten)
  BY <1>1, Zenon
<1>3. FlattenSeq(ss) = flatten[n]
  <2>1. Len(ss) = n
    OBVIOUS
  <2>2. QED
    BY <2>1 DEF FlattenSeq
<1> HIDE DEF flatten
<1>4. /\ DOMAIN flatten = 1 .. n
      /\ flatten = [i \in DOMAIN flatten |-> flatten[i]]
      /\ flatten[1] = ss[1]
      /\ \A i \in 2 .. n : flatten[i] = flatten[i - 1] \o ss[i]
  <2> DEFINE h == [i \in 1 .. n |-> IF i = 1 THEN ss[i] ELSE flatten[i - 1] \o ss[i]]
  <2>1. flatten = h
    BY <1>2
  <2>2. DOMAIN h = 1 .. n /\ h = [i \in DOMAIN h |-> h[i]]
    OBVIOUS
  <2>3. \A i \in 1 .. n : h[i] = IF i = 1 THEN ss[i] ELSE flatten[i - 1] \o ss[i]
    BY Zenon
  <2> HIDE DEF h
  <2>4. h[1] = ss[1]
    BY <2>3
  <2>5. ASSUME NEW i \in 2 .. n PROVE h[i] = flatten[i - 1] \o ss[i]
    <3>1. i \in 1 .. n /\ i # 1
      OBVIOUS
    <3>2. QED
      BY <2>3, <3>1
  <2>6. QED
    BY <2>1, <2>2, <2>4, <2>5
<1>5. flatten \in [1 .. n -> Seq(V)]
  <2> DEFINE S == {i \in 0 .. n : i = 0 \/ flatten[i] \in Seq(V)}
  <2>1. 0 \in S
    OBVIOUS
  <2>2. ASSUME NEW i \in 1 .. n, i - 1 \in S PROVE i \in S
    <3>1. CASE i = 1
      BY <3>1, <1>4
    <3>2. CASE i # 1
      <4>8. i \in 2 .. n /\ i - 1 # 0
        BY <3>2
      <4>1. flatten[i - 1] \in Seq(V) /\ ss[i] \in Seq(V) /\ flatten[i] = flatten[i - 1] \o ss[i]
        BY <2>2, <4>8, <1>4
      <4>2. flatten[i] \in Seq(V)
        BY <4>1
      <4>3. QED
        BY <4>2
    <3>3. QED
      BY <3>1, <3>2
  <2> HIDE DEF S
  <2>3. \A i \in 0 .. n : i \in S
    BY <2>1, <2>2, Induction
  <2>4. \A i \in 1 .. n : flatten[i] \in Seq(V)
    BY <2>3 DEF S
  <2>5. QED
    BY <2>4, <1>4
<1>6. QED
  BY <1>3, <1>4, <1>5 DEF Joins

LEMMA FlattenEmpty == ASSUME NEW V, NEW ss \in [1 .. 0 -> Seq(V)] PROVE FlattenSeq(ss) = <<>>
BY DEF FlattenSeq

LEMMA FlattenAppend ==
    ASSUME NEW V, NEW n \in Nat, NEW ss \in [1 .. n -> Seq(V)], NEW tt \in [1 .. n + 1 -> Seq(V)],
           \A i \in 1 .. n : tt[i] = ss[i]
    PROVE  /\ FlattenSeq(ss) \in Seq(V)
           /\ FlattenSeq(tt) = FlattenSeq(ss) \o tt[n + 1]
<1>1. PICK g \in [1 .. n + 1 -> Seq(V)] : FlattenSeq(tt) = g[n + 1] /\ Joins(g, tt, n + 1)
  <2> DEFINE m == n + 1
  <2>1. m \in Nat \ {0} /\ tt \in [1 .. m -> Seq(V)]
    OBVIOUS
  <2> HIDE DEF m
  <2>2. \E g \in [1 .. m -> Seq(V)] : FlattenSeq(tt) = g[m] /\ Joins(g, tt, m)
    BY <2>1, FlattenSteps
  <2>3. QED
    BY <2>2 DEF m
<1>2. CASE n = 0
  <2>1. FlattenSeq(ss) = <<>>
    BY <1>2, FlattenEmpty
  <2>2. tt[n + 1] \in Seq(V)
    OBVIOUS
  <2>3. \A s \in Seq(V) : <<>> \o s = s
    OBVIOUS
  <2>4. FlattenSeq(tt) = tt[n + 1]
    BY <1>1, <1>2 DEF Joins
  <2>5. QED
    BY <2>1, <2>2, <2>3, <2>4
<1>3. CASE n # 0
  <2>1. PICK f \in [1 .. n -> Seq(V)] : FlattenSeq(ss) = f[n] /\ Joins(f, ss, n)
    <3>1. n \in Nat \ {0}
      BY <1>3
    <3>2. QED
      BY <3>1, FlattenSteps
  <2> DEFINE S == {i \in 0 .. n : i = 0 \/ g[i] = f[i]}
  <2>2. 0 \in S
    OBVIOUS
  <2>3. ASSUME NEW i \in 1 .. n, i - 1 \in S PROVE i \in S
    <3>1. CASE i = 1
      BY <3>1, <1>1, <2>1 DEF Joins
    <3>2. CASE i # 1
      <4>1. i \in 2 .. n /\ i - 1 # 0
        BY <3>2
      <4>2. g[i - 1] = f[i - 1]
        BY <2>3, <4>1
      <4>3. f[i] = f[i - 1] \o ss[i]
        BY <4>1, <2>1 DEF Joins
      <4>6. i \in 2 .. n + 1 /\ tt[i] = ss[i]
        BY <4>1
      <4>7. g[i] = g[i - 1] \o tt[i]
        BY <4>6, <1>1 DEF Joins
      <4>4. g[i] = f[i]
        BY <4>2, <4>3, <4>6, <4>7
      <4>5. QED
        BY <4>4
    <3>3. QED
      BY <3>1, <3>2
  <2> HIDE DEF S
  <2>4. \A i \in 0 .. n : i \in S
    BY <2>2, <2>3, Induction
  <2>5. g[n] = f[n]
    BY <2>4, <1>3 DEF S
  <2>6. g[n + 1] = g[n] \o tt[n + 1]
    <3>1. n + 1 \in 2 .. n + 1 /\ (n + 1) - 1 = n
      BY <1>3
    <3>2. g[n + 1] = g[(n + 1) - 1] \o tt[n + 1]
      BY <3>1, <1>1 DEF Joins
    <3>3. QED
      BY <3>1, <3>2
  <2>7. f[n] \in Seq(V)
    BY <1>3
  <2>8. QED
    BY <1>1, <2>1, <2>5, <2>6, <2>7
<1>4. QED
  BY <1>2, <1>3

\* Distinct elements stay distinct.
LEMMA InjectiveAppend ==
    ASSUME NEW V, NEW s \in Seq(V), NEW e \in V, IsInjective(s), e \notin ToSet(s)
    PROVE  IsInjective(Append(s, e))
<1>1. ASSUME NEW i \in 1 .. Len(s) + 1, NEW j \in 1 .. Len(s) + 1, Append(s, e)[i] = Append(s, e)[j]
      PROVE  i = j
  <2>1. \A k \in 1 .. Len(s) : Append(s, e)[k] = s[k] /\ s[k] # e
    BY DEF ToSet
  <2>2. Append(s, e)[Len(s) + 1] = e
    OBVIOUS
  <2>3. QED
    BY <1>1, <2>1, <2>2 DEF IsInjective
<1>2. DOMAIN Append(s, e) = 1 .. Len(s) + 1
  OBVIOUS
<1>3. QED
  BY <1>1, <1>2 DEF IsInjective

LEMMA InjectiveConcat ==
    ASSUME NEW V, NEW s \in Seq(V), NEW t \in Seq(V), IsInjective(s), IsInjective(t),
           ToSet(s) \cap ToSet(t) = {}
    PROVE  IsInjective(s \o t)
<1>1. DOMAIN (s \o t) = 1 .. Len(s) + Len(t)
  OBVIOUS
<1>2. \A i \in 1 .. Len(s) : (s \o t)[i] = s[i] /\ s[i] \in ToSet(s)
  BY DEF ToSet
<1>3. \A i \in Len(s) + 1 .. Len(s) + Len(t) : (s \o t)[i] = t[i - Len(s)] /\ t[i - Len(s)] \in ToSet(t)
  BY DEF ToSet
<1>4. ASSUME NEW i \in 1 .. Len(s) + Len(t), NEW j \in 1 .. Len(s) + Len(t), (s \o t)[i] = (s \o t)[j]
      PROVE  i = j
  <2>1. CASE i \in 1 .. Len(s) /\ j \in 1 .. Len(s)
    BY <1>4, <2>1, <1>2 DEF IsInjective
  <2>2. CASE i \notin 1 .. Len(s) /\ j \notin 1 .. Len(s)
    <3>1. i - Len(s) \in DOMAIN t /\ j - Len(s) \in DOMAIN t /\ t[i - Len(s)] = t[j - Len(s)]
      BY <1>4, <2>2, <1>3
    <3>2. i - Len(s) = j - Len(s)
      BY <3>1 DEF IsInjective
    <3>3. QED
      BY <3>2
  <2>3. CASE ~(i \in 1 .. Len(s) <=> j \in 1 .. Len(s))
    BY <1>4, <2>3, <1>2, <1>3
  <2>4. QED
    BY <2>1, <2>2, <2>3
<1>5. QED
  BY <1>1, <1>4 DEF IsInjective

LEMMA InjectiveTail ==
    ASSUME NEW V, NEW s \in Seq(V), s # <<>>, IsInjective(s)
    PROVE  IsInjective(Tail(s)) /\ Head(s) \notin ToSet(Tail(s))
<1>1. /\ DOMAIN Tail(s) = 1 .. Len(s) - 1
      /\ \A i \in 1 .. Len(s) - 1 : i + 1 \in DOMAIN s /\ Tail(s)[i] = s[i + 1]
      /\ 1 \in DOMAIN s /\ Head(s) = s[1]
  OBVIOUS
<1>2. IsInjective(Tail(s))
  BY <1>1 DEF IsInjective
<1>3. \A i \in 1 .. Len(s) - 1 : Tail(s)[i] # Head(s)
  BY <1>1 DEF IsInjective
<1>4. QED
  BY <1>1, <1>2, <1>3 DEF ToSet

LEMMA InjectiveLength ==
    ASSUME NEW V, NEW s \in Seq(V), IsInjective(s)
    PROVE  IsFiniteSet(ToSet(s)) /\ Cardinality(ToSet(s)) = Len(s)
<1>1. s \in [1 .. Len(s) -> ToSet(s)]
  BY DEF ToSet
<1>2. s \in Bijection(1 .. Len(s), ToSet(s))
  BY <1>1 DEF Bijection, Injection, Surjection, IsInjective, ToSet
<1>3. ExistsBijection(1 .. Len(s), ToSet(s))
  BY <1>2 DEF ExistsBijection
<1>4. Len(s) \in Nat
  OBVIOUS
<1>5. QED
  BY <1>3, <1>4, FS_NatBijection, FS_CountingElements

-----------------------------------------------------------------------------
(* Sequences of sequences, and the elements of sequences *)

\* The first n of the sequences in one
Joined(ss, n) == FlattenSeq(SubSeq(ss, 1, n))

LEMMA JoinedStep ==
    ASSUME NEW V, NEW ss \in Seq(Seq(V)), NEW n \in 0 .. Len(ss) - 1
    PROVE  /\ Joined(ss, n) \in Seq(V) /\ ss[n + 1] \in Seq(V)
           /\ Joined(ss, n + 1) = Joined(ss, n) \o ss[n + 1]
<1> DEFINE W == Seq(V)
           s == SubSeq(ss, 1, n)
           t == SubSeq(ss, 1, n + 1)
<1>1. ss \in Seq(W) /\ Len(ss) \in Nat /\ n \in Nat /\ n + 1 <= Len(ss) /\ n + 1 \in 1 .. Len(ss)
  OBVIOUS
<1> HIDE DEF W
<1>2. s \in [1 .. n -> W] /\ t \in [1 .. n + 1 -> W] /\ t[n + 1] = ss[n + 1] /\ ss[n + 1] \in W
  <2>1. n + 1 \in Nat /\ \A i \in 1 .. n + 1 : ss[i] \in W
    BY <1>1
  <2>2. s = [i \in 1 .. n |-> ss[i]] /\ t = [i \in 1 .. n + 1 |-> ss[i]]
    BY <1>1, <2>1
  <2> HIDE DEF s, t
  <2>3. QED
    BY <1>1, <2>1, <2>2
<1>3. \A i \in 1 .. n : t[i] = s[i]
  BY <1>1
<1> HIDE DEF s, t
<1>4. FlattenSeq(s) \in Seq(V) /\ FlattenSeq(t) = FlattenSeq(s) \o t[n + 1]
  <2>1. s \in [1 .. n -> Seq(V)] /\ t \in [1 .. n + 1 -> Seq(V)]
    BY <1>2 DEF W
  <2>2. QED
    BY ONLY <1>1, <1>3, <2>1, FlattenAppend
<1>5. QED
  BY <1>2, <1>4 DEF Joined, s, t, W

\* No sequences joined, and all of them
LEMMA JoinedEnds ==
    ASSUME NEW V, NEW ss \in Seq(Seq(V))
    PROVE  /\ Joined(ss, 0) = <<>> /\ Joined(ss, Len(ss)) = FlattenSeq(ss) /\ FlattenSeq(ss) \in Seq(V)
<1> DEFINE W == Seq(V)
           n == Len(ss)
<1>1. ss \in Seq(W) /\ n \in Nat
  OBVIOUS
<1>2. SubSeq(ss, 1, 0) = <<>> /\ SubSeq(ss, 1, n) = ss
  <2> HIDE DEF W
  <2>1. QED
    BY <1>1
<1>3. <<>> \in [1 .. 0 -> Seq(V)]
  OBVIOUS
<1>4. Joined(ss, 0) = <<>>
  BY <1>2, <1>3, FlattenEmpty DEF Joined
<1>5. Joined(ss, n) = FlattenSeq(ss)
  BY <1>2 DEF Joined
<1>6. FlattenSeq(ss) \in Seq(V)
  <2>1. CASE n = 0
    <3>1. FlattenSeq(ss) = <<>>
      BY <1>4, <1>5, <2>1
    <3>2. <<>> \in Seq(V)
      OBVIOUS
    <3>3. QED
      BY <3>1, <3>2
  <2>2. CASE n > 0
    <3>1. n - 1 \in 0 .. Len(ss) - 1 /\ (n - 1) + 1 = n
      BY <1>1, <2>2
    <3>2. /\ Joined(ss, n - 1) \in Seq(V) /\ ss[n] \in Seq(V)
          /\ Joined(ss, n) = Joined(ss, n - 1) \o ss[n]
      BY <3>1, JoinedStep
    <3> HIDE DEF n, W
    <3>3. Joined(ss, n - 1) \o ss[n] \in Seq(V)
      BY <3>2
    <3>4. QED
      BY <1>5, <3>2, <3>3
  <2>3. QED
    BY <1>1, <2>1, <2>2
<1>7. QED
  BY <1>4, <1>5, <1>6

\* What is joined first is where the whole begins.
LEMMA JoinedPrefix ==
    ASSUME NEW V, NEW ss \in Seq(Seq(V)), NEW n \in 0 .. Len(ss)
    PROVE  /\ Joined(ss, n) \in Seq(V) /\ Len(Joined(ss, n)) <= Len(FlattenSeq(ss))
           /\ Len(Joined(ss, n)) \in Nat /\ Len(FlattenSeq(ss)) \in Nat
           /\ \A i \in 1 .. Len(Joined(ss, n)) : FlattenSeq(ss)[i] = Joined(ss, n)[i]
<1> DEFINE l == Len(ss)
           f == FlattenSeq(ss)
           Begins(j) == /\ j \in Seq(V) /\ Len(j) <= Len(f)
                        /\ \A i \in 1 .. Len(j) : f[i] = j[i]
           S == {k \in 0 .. l : Begins(Joined(ss, l - k))}
<1>1. l \in Nat /\ n \in Nat /\ n <= l /\ f \in Seq(V) /\ Joined(ss, l) = f /\ Len(f) \in Nat
  BY JoinedEnds
<1> HIDE DEF f
<1>2. 0 \in S
  <2>1. l - 0 = l /\ 0 \in 0 .. l
    BY <1>1
  <2>2. Begins(f)
    BY <1>1
  <2>3. QED
    BY <1>1, <2>1, <2>2
<1>3. ASSUME NEW k \in 1 .. l, k - 1 \in S PROVE k \in S
  <2> DEFINE g == l - k
             s == Joined(ss, g)
             t == Joined(ss, g + 1)
             u == ss[g + 1]
  <2>1. g \in 0 .. l - 1 /\ l - (k - 1) = g + 1 /\ k \in 0 .. l
    BY <1>1
  <2>2. Begins(t)
    BY <1>3, <2>1
  <2>3. s \in Seq(V) /\ u \in Seq(V) /\ t = s \o u
    BY <2>1, JoinedStep
  <2> HIDE DEF s, t, u, g
  <2>4. Len(s) \in Nat /\ Len(t) = Len(s) + Len(u) /\ Len(u) \in Nat /\ \A i \in 1 .. Len(s) : t[i] = s[i]
    BY <2>3
  <2>5. \A i \in 1 .. Len(s) : i \in 1 .. Len(t)
    BY <2>4
  <2>6. Begins(s)
    BY <1>1, <2>2, <2>3, <2>4, <2>5
  <2> HIDE DEF Begins
  <2>7. QED
    BY <2>1, <2>6 DEF s, g
<1> HIDE DEF S, l
<1>4. \A k \in 0 .. l : k \in S
  BY <1>1, <1>2, <1>3, Induction
<1>5. l - n \in S
  <2>1. l - n \in 0 .. l
    BY <1>1 DEF l
  <2>2. QED
    BY <1>4, <2>1
<1>6. l - (l - n) = n
  BY <1>1
<1>7. Begins(Joined(ss, n))
  <2> HIDE DEF Begins
  <2>1. QED
    BY <1>5, <1>6 DEF S
<1>8. QED
  BY <1>1, <1>7 DEF f

LEMMA SequenceSize ==
    ASSUME NEW V, NEW s \in Seq(V)
    PROVE  IsFiniteSet(ToSet(s)) /\ Cardinality(ToSet(s)) \in Nat /\ Cardinality(ToSet(s)) <= Len(s) /\ Len(s) \in Nat
<1>1. Len(s) \in Nat /\ s \in [1 .. Len(s) -> V]
  OBVIOUS
<1>2. IsFiniteSet(1 .. Len(s)) /\ Cardinality(1 .. Len(s)) = Len(s)
  <2>1. \A l \in Nat : IsFiniteSet(1 .. l) /\ Cardinality(1 .. l) = l
    BY FS_Interval
  <2>2. QED
    BY <1>1, <2>1
<1>3. s \in Surjection(1 .. Len(s), ToSet(s))
  BY <1>1 DEF Surjection, ToSet
<1>4. IsFiniteSet(ToSet(s)) /\ Cardinality(ToSet(s)) <= Len(s)
  BY ONLY <1>1, <1>2, <1>3, FS_Surjection
<1>5. QED
  BY <1>1, <1>4, FS_CardinalityType

LEMMA SetOf == ASSUME NEW V, NEW s \in Seq(V) PROVE ToSet(s) = {s[i] : i \in 1 .. Len(s)}
<1>1. DOMAIN s = 1 .. Len(s)
  OBVIOUS
<1>2. QED
  BY <1>1 DEF ToSet

LEMMA ConcatIs ==
    ASSUME NEW V, NEW s \in Seq(V), NEW t \in Seq(V)
    PROVE  /\ s \o t \in Seq(V) /\ Len(s \o t) = Len(s) + Len(t)
           /\ \A i \in 1 .. Len(s) : (s \o t)[i] = s[i]
           /\ \A i \in 1 .. Len(t) : (s \o t)[Len(s) + i] = t[i]
OBVIOUS


\* The places of the elements of one of the sequences
LEMMA JoinedPlaces ==
    ASSUME NEW V, NEW ss \in Seq(Seq(V)), NEW n \in 1 .. Len(ss)
    PROVE  /\ ss[n] \in Seq(V) /\ Len(ss[n]) \in Nat
           /\ Len(Joined(ss, n - 1)) \in Nat /\ Len(FlattenSeq(ss)) \in Nat /\ FlattenSeq(ss) \in Seq(V)
           /\ Len(Joined(ss, n)) = Len(Joined(ss, n - 1)) + Len(ss[n])
           /\ Len(Joined(ss, n)) <= Len(FlattenSeq(ss))
           /\ \A i \in 1 .. Len(ss[n]) : FlattenSeq(ss)[Len(Joined(ss, n - 1)) + i] = ss[n][i]
<1> DEFINE s == Joined(ss, n - 1)
           t == Joined(ss, n)
           u == ss[n]
           f == FlattenSeq(ss)
<1>1. n - 1 \in 0 .. Len(ss) - 1 /\ n \in 0 .. Len(ss) /\ (n - 1) + 1 = n /\ Len(ss) \in Nat
  OBVIOUS
<1>2. s \in Seq(V) /\ u \in Seq(V) /\ t = s \o u
  BY <1>1, JoinedStep
<1>3. t \in Seq(V) /\ Len(t) <= Len(f) /\ Len(f) \in Nat /\ \A i \in 1 .. Len(t) : f[i] = t[i]
  BY <1>1, JoinedPrefix
<1>4. f \in Seq(V)
  BY JoinedEnds
<1> HIDE DEF s, t, u, f
<1>5. Len(s) \in Nat /\ Len(u) \in Nat /\ Len(t) = Len(s) + Len(u)
  BY <1>2
<1>6. ASSUME NEW i \in 1 .. Len(u) PROVE f[Len(s) + i] = u[i]
  <2>1. Len(s) + i \in 1 .. Len(t) /\ (s \o u)[Len(s) + i] = u[i]
    BY <1>2, <1>5
  <2>2. QED
    BY <2>1, <1>2, <1>3
<1>7. QED
  BY <1>2, <1>3, <1>4, <1>5, <1>6 DEF s, t, u, f

\* More of them joined are not shorter.
LEMMA JoinedGrows ==
    ASSUME NEW V, NEW ss \in Seq(Seq(V)), NEW m \in 0 .. Len(ss), NEW n \in m .. Len(ss)
    PROVE  Len(Joined(ss, m)) \in Nat /\ Len(Joined(ss, n)) \in Nat /\ Len(Joined(ss, m)) <= Len(Joined(ss, n))
<1> DEFINE d == n - m
           S == {i \in 0 .. d : Len(Joined(ss, m)) <= Len(Joined(ss, m + i))}
<1>1. d \in Nat /\ m + d = n /\ m \in Nat /\ m + 0 = m
  OBVIOUS
<1>2. \A i \in 0 .. Len(ss) : Len(Joined(ss, i)) \in Nat
  BY JoinedPrefix
<1>3. 0 \in S
  BY <1>1, <1>2
<1>4. ASSUME NEW i \in 1 .. d, i - 1 \in S PROVE i \in S
  <2>1. m + i \in 1 .. Len(ss) /\ (m + i) - 1 = m + (i - 1) /\ m + (i - 1) \in 0 .. Len(ss) /\ i \in 0 .. d
    OBVIOUS
  <2>2. Len(Joined(ss, m + i)) = Len(Joined(ss, (m + i) - 1)) + Len(ss[m + i]) /\ Len(ss[m + i]) \in Nat
    BY <2>1, JoinedPlaces
  <2>3. Len(Joined(ss, m)) <= Len(Joined(ss, m + (i - 1)))
    BY <1>4
  <2>4. Len(Joined(ss, m)) \in Nat /\ Len(Joined(ss, m + (i - 1))) \in Nat
    BY <1>1, <1>2, <2>1
  <2>5. Len(Joined(ss, m + i)) = Len(Joined(ss, m + (i - 1))) + Len(ss[m + i])
    BY <2>1, <2>2
  <2>6. Len(Joined(ss, m)) <= Len(Joined(ss, m + i))
    <3> DEFINE a == Len(Joined(ss, m))
               b == Len(Joined(ss, m + (i - 1)))
               c == Len(Joined(ss, m + i))
               e == Len(ss[m + i])
    <3>1. a \in Nat /\ b \in Nat /\ e \in Nat /\ a <= b /\ c = b + e
      BY <2>2, <2>3, <2>4, <2>5
    <3> HIDE DEF a, b, c, e
    <3>2. a <= c
      BY <3>1
    <3>3. QED
      BY <3>2 DEF a, c
  <2> HIDE DEF d
  <2>7. QED
    BY <2>1, <2>6
<1> HIDE DEF S, d
<1>5. \A i \in 0 .. d : i \in S
  BY <1>1, <1>3, <1>4, Induction
<1>6. d \in S
  BY <1>1, <1>5
<1>7. m + d = n /\ m \in 0 .. Len(ss) /\ n \in 0 .. Len(ss)
  BY DEF d
<1>8. Len(Joined(ss, m)) <= Len(Joined(ss, m + d))
  BY <1>6 DEF S
<1>9. QED
  BY <1>2, <1>7, <1>8

\* Every place of the whole is one of one of the sequences.
LEMMA JoinedFind ==
    ASSUME NEW V, NEW ss \in Seq(Seq(V)), NEW p \in 1 .. Len(FlattenSeq(ss))
    PROVE  \E n \in 1 .. Len(ss) : \E i \in 1 .. Len(ss[n]) : p = Len(Joined(ss, n - 1)) + i
<1> DEFINE J(n) == Len(Joined(ss, n))
           S == {n \in 0 .. Len(ss) : p > J(n) \/ \E m \in 1 .. n : J(m - 1) < p /\ p <= J(m)}
<1>1. Len(ss) \in Nat /\ p \in Nat
  <2>1. Len(FlattenSeq(ss)) \in Nat
    <3>1. FlattenSeq(ss) \in Seq(V)
      BY JoinedEnds
    <3>2. QED
      BY <3>1
  <2>2. QED
    BY <2>1
<1>2. J(0) = 0 /\ J(Len(ss)) = Len(FlattenSeq(ss))
  BY JoinedEnds
<1>3. \A i \in 0 .. Len(ss) : J(i) \in Nat
  BY JoinedPrefix
<1>4. 0 \in S
  BY <1>1, <1>2
<1>5. ASSUME NEW i \in 1 .. Len(ss), i - 1 \in S PROVE i \in S
  <2>1. J(i - 1) \in Nat /\ J(i) \in Nat
    BY <1>3
  <2> HIDE DEF J
  <2>2. QED
    BY <1>1, <1>5, <2>1
<1> HIDE DEF S
<1>6. \A n \in 0 .. Len(ss) : n \in S
  BY <1>1, <1>4, <1>5, Induction
<1>7. Len(ss) \in S
  BY <1>1, <1>6
<1>8. PICK n \in 1 .. Len(ss) : J(n - 1) < p /\ p <= J(n)
  <2> HIDE DEF J
  <2>1. QED
    BY <1>1, <1>2, <1>3, <1>7 DEF S
<1>9. J(n) = J(n - 1) + Len(ss[n]) /\ Len(ss[n]) \in Nat /\ J(n - 1) \in Nat
  BY JoinedPlaces
<1>10. p - J(n - 1) \in 1 .. Len(ss[n]) /\ p = J(n - 1) + (p - J(n - 1))
  <2> HIDE DEF J
  <2>1. QED
    BY SMTT(40), <1>1, <1>8, <1>9
<1>11. QED
  BY <1>10

\* What is in one of the sequences, and nothing else, is in the whole.
LEMMA FlattenElements ==
    ASSUME NEW V, NEW ss \in Seq(Seq(V))
    PROVE  \A e : e \in ToSet(FlattenSeq(ss)) <=> \E n \in 1 .. Len(ss) : e \in ToSet(ss[n])
<1> DEFINE f == FlattenSeq(ss)
<1>1. f \in Seq(V)
  BY JoinedEnds
<1>2. ASSUME NEW e \in ToSet(f) PROVE \E n \in 1 .. Len(ss) : e \in ToSet(ss[n])
  <2>1. PICK p \in 1 .. Len(f) : e = f[p]
    <3> HIDE DEF f
    <3>1. QED
      BY <1>1 DEF ToSet
  <2>2. PICK n \in 1 .. Len(ss) : \E i \in 1 .. Len(ss[n]) : p = Len(Joined(ss, n - 1)) + i
    BY JoinedFind
  <2>6. PICK i \in 1 .. Len(ss[n]) : p = Len(Joined(ss, n - 1)) + i
    BY <2>2
  <2>3. ss[n] \in Seq(V) /\ f[p] = ss[n][i]
    BY <2>6, JoinedPlaces
  <2>4. e = ss[n][i] /\ i \in DOMAIN ss[n]
    <3> HIDE DEF f
    <3>1. QED
      BY <2>1, <2>6, <2>3
  <2>5. QED
    BY <2>4 DEF ToSet
<1>3. ASSUME NEW e, NEW n \in 1 .. Len(ss), e \in ToSet(ss[n]) PROVE e \in ToSet(f)
  <2> DEFINE b == Len(Joined(ss, n - 1))
             l == Len(Joined(ss, n))
             t == ss[n]
  <2>1. /\ t \in Seq(V) /\ Len(t) \in Nat /\ b \in Nat /\ l = b + Len(t) /\ l <= Len(f) /\ Len(f) \in Nat
        /\ \A i \in 1 .. Len(t) : f[b + i] = t[i]
    BY JoinedPlaces
  <2> HIDE DEF f, b, l, t
  <2>2. PICK i \in 1 .. Len(t) : e = t[i]
    BY <1>3, <2>1 DEF ToSet, t
  <2>3. b + i \in 1 .. Len(f) /\ f[b + i] = e
    BY SMTT(40), <2>1, <2>2
  <2>4. QED
    BY <1>1, <2>3 DEF ToSet
<1>4. QED
  BY <1>2, <1>3

\* Sequences without repetitions that share nothing have none together.
LEMMA FlattenInjective ==
    ASSUME NEW V, NEW ss \in Seq(Seq(V)),
           \A n \in 1 .. Len(ss) : IsInjective(ss[n]),
           \A m, n \in 1 .. Len(ss) : m # n => ToSet(ss[m]) \cap ToSet(ss[n]) = {}
    PROVE  IsInjective(FlattenSeq(ss))
<1> DEFINE f == FlattenSeq(ss)
<1>1. f \in Seq(V)
  BY JoinedEnds
<1>5. ASSUME NEW n \in 1 .. Len(ss)
      PROVE  ss[n] \in Seq(V) /\ \A i \in 1 .. Len(ss[n]) : f[Len(Joined(ss, n - 1)) + i] = ss[n][i]
  <2>1. ss \in Seq(Seq(V)) /\ n \in 1 .. Len(ss)
    OBVIOUS
  <2>2. QED
    BY ONLY <2>1, JoinedPlaces, Zenon
<1>2. ASSUME NEW p \in 1 .. Len(f), NEW q \in 1 .. Len(f), f[p] = f[q] PROVE p = q
  <2>1. PICK m \in 1 .. Len(ss) : \E i \in 1 .. Len(ss[m]) : p = Len(Joined(ss, m - 1)) + i
    BY JoinedFind
  <2>2. PICK n \in 1 .. Len(ss) : \E j \in 1 .. Len(ss[n]) : q = Len(Joined(ss, n - 1)) + j
    BY JoinedFind
  <2>10. PICK i \in 1 .. Len(ss[m]) : p = Len(Joined(ss, m - 1)) + i
    BY <2>1
  <2>11. PICK j \in 1 .. Len(ss[n]) : q = Len(Joined(ss, n - 1)) + j
    BY <2>2
  <2>12. ss[m] \in Seq(V) /\ f[Len(Joined(ss, m - 1)) + i] = ss[m][i]
    BY <1>5
  <2>13. ss[n] \in Seq(V) /\ f[Len(Joined(ss, n - 1)) + j] = ss[n][j]
    BY <1>5
  <2>3. ss[m] \in Seq(V) /\ f[p] = ss[m][i]
    BY <2>10, <2>12
  <2>4. ss[n] \in Seq(V) /\ f[q] = ss[n][j]
    BY <2>11, <2>13
  <2>5. i \in DOMAIN ss[m] /\ j \in DOMAIN ss[n]
    BY SMTT(40), <2>3, <2>4
  <2> HIDE DEF f
  <2>6. ss[m][i] = ss[n][j] /\ ss[m][i] \in ToSet(ss[m]) /\ ss[n][j] \in ToSet(ss[n])
    BY <1>2, <2>3, <2>4, <2>5 DEF ToSet
  <2>7. m = n
    BY <2>6
  <2>8. i = j
    BY <2>5, <2>6, <2>7 DEF IsInjective
  <2>9. QED
    BY <2>10, <2>11, <2>7, <2>8
<1>3. DOMAIN f = 1 .. Len(f)
  <2> HIDE DEF f
  <2>1. QED
    BY <1>1
<1>4. QED
  BY <1>2, <1>3 DEF IsInjective

\* One sequence more
LEMMA FlattenLast ==
    ASSUME NEW V, NEW ss \in Seq(Seq(V)), NEW s \in Seq(V)
    PROVE  /\ FlattenSeq(ss) \in Seq(V) /\ Append(ss, s) \in Seq(Seq(V))
           /\ FlattenSeq(Append(ss, s)) = FlattenSeq(ss) \o s
<1> DEFINE W == Seq(V)
           tt == Append(ss, s)
           n == Len(ss)
<1>1. tt \in Seq(W) /\ n \in Nat /\ Len(tt) = n + 1 /\ tt[n + 1] = s /\ SubSeq(tt, 1, n) = ss
  <2> HIDE DEF W
  <2>1. ss \in Seq(W) /\ s \in W
    BY DEF W
  <2>2. QED
    BY <2>1
<1>2. Joined(tt, n + 1) = Joined(tt, n) \o tt[n + 1]
  <2>1. n \in 0 .. Len(tt) - 1
    BY <1>1
  <2>2. QED
    BY <1>1, <2>1, JoinedStep
<1>3. Joined(tt, Len(tt)) = FlattenSeq(tt)
  BY <1>1, JoinedEnds
<1>4. FlattenSeq(ss) \in Seq(V)
  BY JoinedEnds
<1>5. QED
  BY <1>1, <1>2, <1>3, <1>4 DEF Joined

LEMMA ConcatThree ==
    ASSUME NEW V, NEW s \in Seq(V), NEW t \in Seq(V), NEW u \in Seq(V)
    PROVE  (s \o t) \o u = s \o (t \o u)
OBVIOUS

\* The first sequence, and the others
LEMMA FlattenFirst ==
    ASSUME NEW V, NEW ss \in Seq(Seq(V)), ss # <<>>
    PROVE  /\ Head(ss) \in Seq(V) /\ Tail(ss) \in Seq(Seq(V)) /\ FlattenSeq(Tail(ss)) \in Seq(V)
           /\ FlattenSeq(ss) = Head(ss) \o FlattenSeq(Tail(ss))
<1> DEFINE W == Seq(V)
           h == Head(ss)
           t == Tail(ss)
           l == Len(ss) - 1
           S == {i \in 0 .. l : Joined(ss, i + 1) = h \o Joined(t, i)}
<1>1. /\ h \in W /\ t \in Seq(W) /\ l \in Nat /\ Len(t) = l /\ Len(ss) = l + 1 /\ ss[1] = h
      /\ \A i \in 1 .. l : t[i] = ss[i + 1]
  <2> HIDE DEF W
  <2>1. ss \in Seq(W)
    BY DEF W
  <2>2. QED
    BY <2>1
<1> HIDE DEF h, t, l
<1>2. t \in Seq(Seq(V)) /\ h \in Seq(V)
  BY <1>1
<1>3. 0 \in S
  <2>1. Joined(ss, 0) = <<>> /\ Joined(t, 0) = <<>>
    BY <1>2, JoinedEnds
  <2>2. Joined(ss, 0 + 1) = Joined(ss, 0) \o ss[0 + 1]
    <3>1. 0 \in 0 .. Len(ss) - 1
      BY <1>1
    <3>2. QED
      BY <3>1, JoinedStep
  <2>3. <<>> \o h = h /\ h \o <<>> = h
    BY <1>2
  <2>4. Joined(ss, 0 + 1) = h \o Joined(t, 0)
    BY <1>1, <2>1, <2>2, <2>3
  <2>5. 0 \in 0 .. l
    BY <1>1
  <2>6. QED
    BY <2>4, <2>5
<1>4. ASSUME NEW i \in 1 .. l, i - 1 \in S PROVE i \in S
  <2> DEFINE a == Joined(t, i - 1)
             b == t[i]
  <2>1. i \in 0 .. Len(ss) - 1 /\ i - 1 \in 0 .. Len(t) - 1 /\ (i - 1) + 1 = i /\ i \in 0 .. l
    BY <1>1
  <2>2. Joined(ss, i + 1) = Joined(ss, i) \o ss[i + 1]
    BY <2>1, JoinedStep
  <2>3. a \in Seq(V) /\ t[(i - 1) + 1] \in Seq(V) /\ Joined(t, (i - 1) + 1) = a \o t[(i - 1) + 1]
    BY <1>2, <2>1, JoinedStep
  <2>4. Joined(ss, i) = h \o a
    BY <1>4, <2>1
  <2>5. ss[i + 1] = b /\ b \in Seq(V) /\ Joined(t, i) = a \o b
    BY <1>1, <2>1, <2>3
  <2> HIDE DEF a, b
  <2>6. (h \o a) \o b = h \o (a \o b)
    <3>1. h \in Seq(V) /\ a \in Seq(V) /\ b \in Seq(V)
      BY <1>2, <2>3, <2>5
    <3>2. \A s, u, v \in Seq(V) : (s \o u) \o v = s \o (u \o v)
      OBVIOUS
    <3>3. QED
      BY ONLY <3>1, <3>2
  <2>7. Joined(ss, i + 1) = h \o Joined(t, i)
    BY <2>2, <2>4, <2>5, <2>6
  <2>8. QED
    BY <2>1, <2>7
<1> HIDE DEF S
<1>5. \A i \in 0 .. l : i \in S
  BY <1>1, <1>3, <1>4, Induction
<1>6. Joined(ss, l + 1) = h \o Joined(t, l)
  BY <1>1, <1>5 DEF S
<1>7. Joined(ss, Len(ss)) = FlattenSeq(ss)
  BY JoinedEnds
<1>8. Joined(t, Len(t)) = FlattenSeq(t) /\ FlattenSeq(t) \in Seq(V)
  BY <1>2, JoinedEnds
<1>9. QED
  BY <1>1, <1>2, <1>6, <1>7, <1>8 DEF h, t

\* One of the sequences shorter by d
LEMMA FlattenShorter ==
    ASSUME NEW V, NEW ss \in Seq(Seq(V)), NEW tt \in Seq(Seq(V)), NEW n \in 1 .. Len(ss), NEW d \in Nat,
           Len(tt) = Len(ss), Len(ss[n]) = Len(tt[n]) + d, \A i \in 1 .. Len(ss) : i # n => tt[i] = ss[i]
    PROVE  /\ Len(FlattenSeq(ss)) = Len(FlattenSeq(tt)) + d
           /\ Len(FlattenSeq(ss)) \in Nat /\ Len(FlattenSeq(tt)) \in Nat
<1> DEFINE l == Len(ss)
           A(i) == Len(Joined(ss, i))
           B(i) == Len(Joined(tt, i))
           S == {i \in 0 .. l : A(i) = B(i) + (IF i < n THEN 0 ELSE d)}
<1>1. l \in Nat /\ n \in 1 .. l /\ Len(tt) = l
  OBVIOUS
<1>2. A(0) = 0 /\ B(0) = 0 /\ A(l) = Len(FlattenSeq(ss)) /\ B(l) = Len(FlattenSeq(tt))
  BY <1>1, JoinedEnds
<1>3. \A i \in 0 .. l : A(i) \in Nat /\ B(i) \in Nat
  BY <1>1, JoinedPrefix
<1>4. ASSUME NEW i \in 1 .. l
      PROVE  /\ A(i) = A(i - 1) + Len(ss[i]) /\ B(i) = B(i - 1) + Len(tt[i])
             /\ Len(ss[i]) \in Nat /\ Len(tt[i]) \in Nat
             /\ A(i - 1) \in Nat /\ B(i - 1) \in Nat
  BY <1>1, JoinedPlaces
<1> HIDE DEF A, B
<1>5. 0 \in S
  BY <1>1, <1>2
<1>6. ASSUME NEW i \in 1 .. l, i - 1 \in S PROVE i \in S
  <2>1. A(i - 1) = B(i - 1) + (IF i - 1 < n THEN 0 ELSE d)
    BY <1>6
  <2>2. Len(ss[i]) = Len(tt[i]) + (IF i = n THEN d ELSE 0)
    <3>1. CASE i = n
      BY <3>1
    <3>2. CASE i # n
      <4>1. tt[i] = ss[i] /\ Len(ss[i]) \in Nat
        BY <1>4, <3>2
      <4>2. QED
        BY <3>2, <4>1
    <3>3. QED
      BY <3>1, <3>2
  <2>3. A(i) = B(i) + (IF i < n THEN 0 ELSE d)
    <3> DEFINE a == Len(ss[i])
               b == Len(tt[i])
    <3>1. /\ a \in Nat /\ b \in Nat /\ a = b + (IF i = n THEN d ELSE 0)
          /\ A(i) = A(i - 1) + a /\ B(i) = B(i - 1) + b /\ A(i - 1) \in Nat /\ B(i - 1) \in Nat
      BY <1>4, <2>2
    <3> HIDE DEF a, b, l
    <3>2. i \in Nat /\ n \in Nat
      BY <1>1
    <3>3. QED
      BY SMTT(40), <2>1, <3>1, <3>2
  <2>4. QED
    BY <2>3
<1> HIDE DEF S
<1>7. \A i \in 0 .. l : i \in S
  BY <1>1, <1>5, <1>6, Induction
<1>8. A(l) = B(l) + d
  <2>1. l \in S
    BY <1>1, <1>7
  <2> HIDE DEF l
  <2>2. QED
    BY <1>1, <2>1 DEF S
<1>9. QED
  BY <1>1, <1>2, <1>3, <1>8

\* A function of every element, of two sequences one behind the other
Image(s, g) == [n \in 1 .. Len(s) |-> g[s[n]]]

LEMMA ImageOf ==
    ASSUME NEW S, NEW T, NEW s \in Seq(S), NEW g \in [S -> T]
    PROVE  /\ Image(s, g) \in Seq(T) /\ Len(Image(s, g)) = Len(s) /\ Len(s) \in Nat
           /\ \A x : x \in ToSet(Image(s, g)) <=> \E y \in ToSet(s) : x = g[y]
           /\ (IsInjective(s) /\ \A x, y \in ToSet(s) : g[x] = g[y] => x = y) => IsInjective(Image(s, g))
<1> DEFINE r == Image(s, g)
           l == Len(s)
<1>1. l \in Nat /\ DOMAIN s = 1 .. l /\ \A n \in 1 .. l : s[n] \in S
  OBVIOUS
<1>2. r \in [1 .. l -> T] /\ DOMAIN r = 1 .. l /\ \A n \in 1 .. l : r[n] = g[s[n]]
  BY <1>1 DEF Image
<1> HIDE DEF l, r
<1>3. r \in Seq(T) /\ Len(r) = l
  BY <1>1, <1>2
<1>4. \A x : x \in ToSet(s) <=> \E n \in 1 .. l : x = s[n]
  BY <1>1 DEF ToSet
<1>5. \A x : x \in ToSet(r) <=> \E n \in 1 .. l : x = r[n]
  BY <1>2 DEF ToSet
<1>6. \A x : x \in ToSet(r) <=> \E y \in ToSet(s) : x = g[y]
  BY <1>2, <1>4, <1>5
<1>7. ASSUME IsInjective(s), \A x, y \in ToSet(s) : g[x] = g[y] => x = y PROVE IsInjective(r)
  <2> SUFFICES ASSUME NEW i \in 1 .. l, NEW j \in 1 .. l, r[i] = r[j] PROVE i = j
    BY <1>2 DEF IsInjective
  <2>1. s[i] \in ToSet(s) /\ s[j] \in ToSet(s) /\ g[s[i]] = g[s[j]]
    BY <1>2, <1>4
  <2>2. s[i] = s[j]
    BY <1>7, <2>1
  <2>3. QED
    BY <1>1, <1>7, <2>2 DEF IsInjective
<1>8. QED
  BY <1>1, <1>3, <1>6, <1>7 DEF l, r

ImageJoins(s, t, g) == Image(s \o t, g) = Image(s, g) \o Image(t, g)

LEMMA ImageConcat ==
    ASSUME NEW S, NEW T, NEW s \in Seq(S), NEW t \in Seq(S), NEW g \in [S -> T]
    PROVE  ImageJoins(s, t, g)
<1> DEFINE a == Image(s, g)
           b == Image(t, g)
           u == s \o t
           c == Image(u, g)
<1>1. u \in Seq(S) /\ Len(u) = Len(s) + Len(t) /\ (\A i \in 1 .. Len(s) : u[i] = s[i]) /\ (\A i \in 1 .. Len(t) : u[Len(s) + i] = t[i])
  BY ConcatIs
<1> HIDE DEF u
<1>2. ASSUME NEW v \in Seq(S)
      PROVE  Image(v, g) \in Seq(T) /\ Len(Image(v, g)) = Len(v) /\ Len(v) \in Nat /\ \A n \in 1 .. Len(v) : Image(v, g)[n] = g[v[n]]
  <2>1. Image(v, g) \in Seq(T) /\ Len(Image(v, g)) = Len(v) /\ Len(v) \in Nat
    BY ImageOf
  <2>2. QED
    BY <2>1 DEF Image
<1>3. /\ a \in Seq(T) /\ Len(a) = Len(s) /\ Len(s) \in Nat /\ (\A n \in 1 .. Len(s) : a[n] = g[s[n]])
      /\ b \in Seq(T) /\ Len(b) = Len(t) /\ Len(t) \in Nat /\ (\A n \in 1 .. Len(t) : b[n] = g[t[n]])
      /\ c \in Seq(T) /\ Len(c) = Len(u) /\ (\A n \in 1 .. Len(u) : c[n] = g[u[n]])
  BY <1>1, <1>2
<1> HIDE DEF a, b, c
<1>4. /\ a \o b \in Seq(T) /\ Len(a \o b) = Len(s) + Len(t) /\ (\A n \in 1 .. Len(s) : (a \o b)[n] = a[n])
      /\ (\A n \in 1 .. Len(t) : (a \o b)[Len(s) + n] = b[n])
  <2>1. a \in Seq(T) /\ b \in Seq(T)
    BY <1>3
  <2>2. /\ a \o b \in Seq(T) /\ Len(a \o b) = Len(a) + Len(b) /\ (\A n \in 1 .. Len(a) : (a \o b)[n] = a[n])
        /\ (\A n \in 1 .. Len(b) : (a \o b)[Len(a) + n] = b[n])
    BY ONLY <2>1, ConcatIs
  <2>3. QED
    BY <1>3, <2>2
<1>5. ASSUME NEW n \in 1 .. Len(s) + Len(t) PROVE c[n] = (a \o b)[n]
  <2>1. CASE n \in 1 .. Len(s)
    BY <1>1, <1>3, <1>4, <2>1
  <2>2. CASE n \notin 1 .. Len(s)
    <3>1. n - Len(s) \in 1 .. Len(t) /\ n = Len(s) + (n - Len(s))
      BY <1>3, <2>2
    <3> DEFINE m == n - Len(s)
    <3>2. m \in 1 .. Len(t) /\ u[n] = t[m] /\ (a \o b)[n] = b[m]
      BY <1>1, <1>4, <3>1
    <3>3. n \in 1 .. Len(u)
      BY <1>1
    <3> HIDE DEF m
    <3>4. QED
      BY <1>3, <3>2, <3>3
  <2>3. QED
    BY <2>1, <2>2
<1> DEFINE w == a \o b
           l == Len(s) + Len(t)
<1>6. c = [n \in 1 .. l |-> c[n]] /\ w = [n \in 1 .. l |-> w[n]]
  <2>1. c \in Seq(T) /\ Len(c) = l /\ w \in Seq(T) /\ Len(w) = l
    BY <1>1, <1>3, <1>4
  <2> HIDE DEF w, l
  <2>2. QED
    BY <2>1
<1>7. c = w
  <2> HIDE DEF w, l
  <2>1. \A n \in 1 .. l : c[n] = w[n]
    BY <1>5 DEF w, l
  <2>2. QED
    BY <1>6, <2>1
<1>8. QED
  BY <1>7 DEF a, b, c, u, w, ImageJoins

\* A finite set with a total order: there is one element for every number of smaller ones.
LEMMA Ranks ==
    ASSUME NEW S, IsFiniteSet(S), NEW R,
           \A a \in S : <<a, a>> \notin R,
           \A a, b, c \in S : <<a, b>> \in R /\ <<b, c>> \in R => <<a, c>> \in R,
           \A a, b \in S : a = b \/ <<a, b>> \in R \/ <<b, a>> \in R
    PROVE  LET rank(e) == Cardinality({d \in S : <<d, e>> \in R}) IN
           /\ Cardinality(S) \in Nat
           /\ \A e \in S : rank(e) \in 0 .. Cardinality(S) - 1
           /\ \A d, e \in S : <<d, e>> \in R => rank(d) < rank(e)
           /\ \A n \in 1 .. Cardinality(S) : \E e \in S : rank(e) = n - 1
<1> DEFINE below(e) == {d \in S : <<d, e>> \in R}
           N == Cardinality(S)
           rank == [e \in S |-> Cardinality(below(e))]
<1>1. N \in Nat
  BY FS_CardinalityType
<1>2. ASSUME NEW T \in SUBSET S, NEW U \in SUBSET T, T # U
      PROVE  Cardinality(U) < Cardinality(T) /\ Cardinality(U) \in Nat /\ Cardinality(T) \in Nat
  <2>1. IsFiniteSet(T)
    BY FS_Subset
  <2>2. IsFiniteSet(U) /\ Cardinality(U) <= Cardinality(T) /\ Cardinality(U) # Cardinality(T)
    BY <1>2, <2>1, FS_Subset
  <2>3. QED
    BY <2>1, <2>2, FS_CardinalityType
<1>3. ASSUME NEW e \in S PROVE rank[e] \in 0 .. N - 1
  <2>1. below(e) \in SUBSET S /\ S # below(e)
    OBVIOUS
  <2> HIDE DEF below
  <2>2. Cardinality(below(e)) < N /\ Cardinality(below(e)) \in Nat
    BY <1>2, <2>1
  <2>3. QED
    BY <1>1, <2>2
<1>4. ASSUME NEW d \in S, NEW e \in S, <<d, e>> \in R PROVE rank[d] < rank[e]
  <2>1. below(e) \in SUBSET S /\ below(d) \in SUBSET below(e) /\ below(e) # below(d)
    BY <1>4
  <2> HIDE DEF below
  <2>2. Cardinality(below(d)) < Cardinality(below(e))
    BY <1>2, <2>1
  <2>3. QED
    BY <2>2
<1>5. \A n \in 0 .. N - 1 : \E e \in S : rank[e] = n
  <2>1. rank \in [S -> 0 .. N - 1]
    BY <1>3
  <2>2. \A e \in S : rank[e] \in Int
    BY <1>1, <1>3
  <2>3. \A d, e \in S : rank[d] = rank[e] => d = e
    <3> SUFFICES ASSUME NEW d \in S, NEW e \in S, d # e PROVE rank[d] # rank[e]
      OBVIOUS
    <3> HIDE DEF rank
    <3>1. rank[d] < rank[e] \/ rank[e] < rank[d]
      BY <1>4
    <3>2. QED
      BY <2>2, <3>1
  <2> HIDE DEF rank
  <2>4. rank \in Injection(S, 0 .. N - 1)
    BY <2>1, <2>3 DEF Injection, IsInjective
  <2>5. IsFiniteSet(0 .. N - 1) /\ Cardinality(0 .. N - 1) = N
    <3> HIDE DEF N
    <3>1. \A a, b \in Int : IsFiniteSet(a .. b) /\ Cardinality(a .. b) = IF a > b THEN 0 ELSE b - a + 1
      BY FS_Interval
    <3>2. QED
      BY <1>1, <3>1
  <2>6. rank \in Surjection(S, 0 .. N - 1)
    BY <2>4, <2>5, FS_Injection
  <2>7. QED
    BY <2>6 DEF Surjection
<1>6. \A n \in 1 .. N : n - 1 \in 0 .. N - 1
  <2> HIDE DEF N
  <2>1. QED
    BY <1>1
<1> HIDE DEF N
<1>7. QED
  BY ZenonT(60), <1>1, <1>3, <1>4, <1>5, <1>6 DEF N

\* A finite set of numbers without gaps is an interval.
LEMMA WithoutGaps ==
    ASSUME NEW A \in SUBSET Nat, A # {}, NEW top \in Nat, \A a \in A : a <= top,
           \A a, b \in A, c \in Nat : a <= c /\ c <= b => c \in A
    PROVE  /\ Min(A) \in A /\ Cardinality(A) \in Nat \ {0}
           /\ A = Min(A) .. Min(A) + Cardinality(A) - 1
<1>1. PICK a \in A : \A m \in A : a <= m
  BY LeastElement
<1>2. Min(A) = a
  <2>1. \A b \in A : (\A m \in A : b <= m) => b = a
    BY <1>1
  <2>2. QED
    BY <1>1, <2>1 DEF Min
<1> DEFINE B == {top - m : m \in A}
<1>3. PICK z \in A : \A m \in A : m <= z
  <2>1. B \in SUBSET Nat /\ B # {}
    OBVIOUS
  <2> HIDE DEF B
  <2>2. PICK y \in B : \A m \in B : y <= m
    BY <2>1, LeastElement
  <2>3. PICK z \in A : y = top - z
    BY <2>2 DEF B
  <2>4. ASSUME NEW m \in A PROVE m <= z
    <3>1. y <= top - m
      BY <2>2 DEF B
    <3>2. QED
      BY <2>3, <3>1
  <2>5. QED
    BY <2>4
<1> HIDE DEF B
<1>4. A = a .. z
  <2>1. a \in Nat /\ z \in Nat
    OBVIOUS
  <2>2. \A c \in A : c \in a .. z
    BY <1>1, <1>3, <2>1
  <2>3. \A c \in a .. z : c \in A
    BY <2>1
  <2>4. QED
    BY <2>2, <2>3
<1>5. Cardinality(A) = z - a + 1
  <2>1. a \in Int /\ z \in Int /\ a <= z
    BY <1>1, <1>3
  <2>2. QED
    BY <1>4, <2>1, FS_Interval
<1>6. QED
  BY <1>1, <1>2, <1>3, <1>4, <1>5

LEMMA Divided ==
    ASSUME NEW n \in Nat, NEW d \in Nat \ {0}
    PROVE  n \div d \in Nat /\ n % d \in 0 .. d - 1 /\ n = d * (n \div d) + (n % d)
OBVIOUS

\* a quotient times the divisor stays below a product.
LEMMA BelowProduct ==
    ASSUME NEW a \in Nat, NEW b \in Nat, NEW c \in Nat \ {0}, a < b
    PROVE  a * c + c <= b * c /\ a * c \in Nat /\ b * c \in Nat
<1>1. PICK d \in Nat : b = a + 1 + d
  <2>1. b - a - 1 \in Nat /\ b = a + 1 + (b - a - 1)
    OBVIOUS
  <2>2. QED
    BY <2>1
<1>2. b * c = a * c + c + d * c /\ d * c \in Nat /\ a * c \in Nat
  BY <1>1
<1>3. QED
  BY <1>2

LEMMA QuotientIs ==
    ASSUME NEW q \in Nat, NEW d \in Nat \ {0}, NEW r \in 0 .. d - 1
    PROVE  (q * d + r) \div d = q /\ (q * d + r) % d = r /\ q * d \in Nat
<1> DEFINE n == q * d + r
           p == n \div d
           s == n % d
<1>1. n \in Nat /\ q * d \in Nat
  OBVIOUS
<1>2. p \in Nat /\ s \in 0 .. d - 1 /\ n = p * d + s
  <2> HIDE DEF n
  <2>1. p \in Nat /\ s \in 0 .. d - 1 /\ n = d * p + s
    BY <1>1, Divided
  <2> HIDE DEF p, s
  <2>2. d * p = p * d
    BY <2>1
  <2>3. QED
    BY <2>1, <2>2
<1>3. n = q * d + r
  OBVIOUS
<1> HIDE DEF n, p, s
<1>4. ~(p < q)
  <2>1. p < q => p * d + d <= q * d /\ p * d \in Nat
    BY <1>2, BelowProduct
  <2>2. QED
    BY <1>1, <1>2, <1>3, <2>1
<1>5. ~(q < p)
  <2>1. q < p => q * d + d <= p * d /\ p * d \in Nat
    BY <1>2, BelowProduct
  <2>2. QED
    BY <1>1, <1>2, <1>3, <2>1
<1>6. p = q
  BY <1>2, <1>4, <1>5
<1>7. s = r
  BY <1>1, <1>2, <1>3, <1>6
<1>8. QED
  BY <1>1, <1>6, <1>7 DEF p, s, n

\* A difference of two remainders, and what is added to the first
SameRest(n, b, a, x) == (b - a) % n = x % n <=> b = (a + x) % n

LEMMA Differences ==
    ASSUME NEW n \in Nat \ {0}, NEW b \in 0 .. n - 1, NEW a \in 0 .. n - 1, NEW x \in Nat
    PROVE  SameRest(n, b, a, x)
<1>1. ASSUME (b - a) % n = x % n PROVE b = (a + x) % n
  <2> DEFINE r == x % n
             q == x \div n
             p == (b - a) \div n
  <2>1. r \in 0 .. n - 1 /\ q \in Nat /\ x = n * q + r
    BY Divided
  <2>2. p \in Int /\ b - a = n * p + r
    <3>1. p \in Int /\ b - a = n * p + ((b - a) % n)
      OBVIOUS
    <3>2. QED
      BY <1>1, <3>1
  <2> HIDE DEF r, q, p
  <2>3. b = (a + x) - n * (q - p)
    BY <2>1, <2>2
  <2> DEFINE s == (a + x) % n
             t == (a + x) \div n
  <2>4. s \in 0 .. n - 1 /\ t \in Nat /\ a + x = n * t + s
    <3>1. a + x \in Nat
      OBVIOUS
    <3>2. QED
      BY <3>1, Divided
  <2>5. QED
    <3> HIDE DEF s, t
    <3>1. t \in Int /\ q \in Int /\ p \in Int /\ n * t \in Int /\ n * q \in Int /\ n * p \in Int
      BY <2>1, <2>2, <2>4
    <3> DEFINE v == t - (q - p)
    <3>2. v \in Int /\ n * v = n * t - n * (q - p)
      BY <3>1
    <3>3. n * v = b - s
      BY <2>3, <2>4, <3>1, <3>2
    <3> HIDE DEF v
    <3>4. v = 0
      BY <2>4, <3>2, <3>3
    <3>5. b = s
      BY <2>4, <3>3, <3>4
    <3>6. QED
      BY <3>5 DEF s
<1>2. ASSUME b = (a + x) % n PROVE (b - a) % n = x % n
  <2> DEFINE r == x % n
             q == x \div n
             p == (b - a) \div n
             s == (b - a) % n
             t == (a + x) \div n
  <2>1. r \in 0 .. n - 1 /\ q \in Nat /\ x = n * q + r
    BY Divided
  <2>2. p \in Int /\ s \in 0 .. n - 1 /\ b - a = n * p + s
    OBVIOUS
  <2>3. t \in Nat /\ a + x = n * t + b
    <3>1. a + x \in Nat
      OBVIOUS
    <3>2. QED
      BY <1>2, <3>1, Divided
  <2> HIDE DEF r, q, p, s, t
  <2> DEFINE v == (q - t) - p
  <2>4. v \in Int /\ n * v = (n * q - n * t) - n * p
    BY <2>1, <2>2, <2>3
  <2>5. n * v = s - r
    <3>1. n * q \in Int /\ n * t \in Int /\ n * p \in Int
      BY <2>1, <2>2, <2>3
    <3>2. QED
      BY <2>1, <2>2, <2>3, <2>4, <3>1
  <2> HIDE DEF v
  <2>6. v = 0
    BY <2>1, <2>2, <2>4, <2>5
  <2>7. s = r
    BY <2>1, <2>2, <2>5, <2>6
  <2>8. QED
    BY <2>7 DEF s, r
<1>3. QED
  BY <1>1, <1>2 DEF SameRest

LEMMA JoinedSame ==
    ASSUME NEW V, NEW ss \in Seq(Seq(V)), NEW tt \in Seq(Seq(V)), NEW n \in 0 .. Len(ss), n <= Len(tt),
           \A i \in 1 .. n : tt[i] = ss[i]
    PROVE  Joined(tt, n) = Joined(ss, n)
<1> DEFINE W == Seq(V)
<1>1. ss \in Seq(W) /\ tt \in Seq(W) /\ Len(ss) \in Nat /\ Len(tt) \in Nat /\ n \in Nat
  OBVIOUS
<1> HIDE DEF W
<1>2. SubSeq(ss, 1, n) = [i \in 1 .. n |-> ss[i]] /\ SubSeq(tt, 1, n) = [i \in 1 .. n |-> tt[i]]
  BY <1>1
<1>3. [i \in 1 .. n |-> ss[i]] = [i \in 1 .. n |-> tt[i]]
  BY SMTT(40)
<1>4. QED
  BY <1>2, <1>3 DEF Joined

\* One element more at the end of the last sequence
LEMMA FlattenGrown ==
    ASSUME NEW V, NEW ss \in Seq(Seq(V)), ss # <<>>, NEW e \in V
    PROVE  LET tt == [ss EXCEPT ![Len(ss)] = Append(@, e)] IN
           /\ tt \in Seq(Seq(V)) /\ Len(tt) = Len(ss) /\ Len(ss) \in Nat \ {0}
           /\ tt[Len(ss)] = Append(ss[Len(ss)], e) /\ ss[Len(ss)] \in Seq(V)
           /\ \A i \in 1 .. Len(ss) - 1 : tt[i] = ss[i]
           /\ FlattenSeq(ss) \in Seq(V) /\ FlattenSeq(tt) = Append(FlattenSeq(ss), e)
           /\ \A n \in 0 .. Len(ss) - 1 : Joined(tt, n) = Joined(ss, n)
<1> SUFFICES ASSUME NEW tt, tt = [ss EXCEPT ![Len(ss)] = Append(@, e)] PROVE
           /\ tt \in Seq(Seq(V)) /\ Len(tt) = Len(ss) /\ Len(ss) \in Nat \ {0}
           /\ tt[Len(ss)] = Append(ss[Len(ss)], e) /\ ss[Len(ss)] \in Seq(V)
           /\ \A i \in 1 .. Len(ss) - 1 : tt[i] = ss[i]
           /\ FlattenSeq(ss) \in Seq(V) /\ FlattenSeq(tt) = Append(FlattenSeq(ss), e)
           /\ \A n \in 0 .. Len(ss) - 1 : Joined(tt, n) = Joined(ss, n)
  OBVIOUS
<1> DEFINE W == Seq(V)
           l == Len(ss)
           u == Append(ss[l], e)
           a == Joined(ss, l - 1)
           b == ss[l]
<1>1. l \in Nat \ {0} /\ b \in W
  <2> HIDE DEF W
  <2>1. ss \in Seq(W)
    BY DEF W
  <2>2. QED
    BY <2>1
<1>2. u \in W
  BY <1>1
<1>3. tt \in Seq(W) /\ Len(tt) = l /\ tt[l] = u /\ \A i \in 1 .. l - 1 : tt[i] = ss[i]
  <2> HIDE DEF W
  <2>1. ss \in Seq(W) /\ tt = [ss EXCEPT ![l] = u]
    BY DEF W
  <2> HIDE DEF u
  <2>2. DOMAIN ss = 1 .. l /\ \A i \in 1 .. l : ss[i] \in W
    BY <1>1, <2>1
  <2>3. tt = [i \in 1 .. l |-> IF i = l THEN u ELSE ss[i]]
    BY <2>1, <2>2
  <2> HIDE DEF l
  <2>4. \A i \in 1 .. l : (IF i = l THEN u ELSE ss[i]) \in W
    BY <1>2, <2>2
  <2>5. tt \in Seq(W) /\ Len(tt) = l
    <3> DEFINE g(i) == IF i = l THEN u ELSE ss[i]
    <3>1. tt = [i \in 1 .. l |-> g(i)] /\ \A i \in 1 .. l : g(i) \in W
      BY <2>3, <2>4
    <3> HIDE DEF g
    <3>2. l \in Nat
      BY <1>1
    <3>3. QED
      BY ONLY <3>1, <3>2
  <2>6. l \in 1 .. l /\ \A i \in 1 .. l - 1 : i \in 1 .. l /\ i # l
    BY <1>1
  <2>7. QED
    BY <2>3, <2>5, <2>6
<1>4. \A n \in 0 .. l - 1 : Joined(tt, n) = Joined(ss, n)
  <2> SUFFICES ASSUME NEW n \in 0 .. l - 1 PROVE Joined(tt, n) = Joined(ss, n)
    OBVIOUS
  <2>1. n \in 0 .. Len(ss) /\ n <= Len(tt) /\ \A i \in 1 .. n : tt[i] = ss[i]
    <3> HIDE DEF u
    <3>1. n \in 0 .. l /\ n <= l /\ \A i \in 1 .. n : i \in 1 .. l - 1
      BY <1>1
    <3>2. QED
      BY <1>3, <3>1
  <2>2. QED
    BY <1>3, <2>1, JoinedSame
<1>5. l - 1 \in 0 .. l - 1 /\ (l - 1) + 1 = l
  BY <1>1
<1>6. a \in Seq(V) /\ b \in Seq(V) /\ Joined(ss, l) = a \o b
  BY <1>5, JoinedStep
<1>7. Joined(tt, l) = a \o Append(b, e)
  <2>1. Joined(tt, (l - 1) + 1) = Joined(tt, l - 1) \o tt[(l - 1) + 1]
    BY <1>3, <1>5, JoinedStep
  <2>2. QED
    BY <1>3, <1>4, <1>5, <2>1
<1>8. FlattenSeq(ss) = Joined(ss, l) /\ FlattenSeq(tt) = Joined(tt, l) /\ FlattenSeq(ss) \in Seq(V)
  BY <1>3, JoinedEnds
<1> HIDE DEF a, b
<1>9. a \o Append(b, e) = Append(a \o b, e)
  BY <1>6
<1>10. QED
  BY <1>1, <1>3, <1>4, <1>6, <1>7, <1>8, <1>9 DEF b

LEMMA AppendExcept ==
    ASSUME NEW W, NEW h \in Seq(W), NEW o \in W, NEW x \in W
    PROVE  [Append(h, o) EXCEPT ![Len(h) + 1] = x] = Append(h, x)
<1> DEFINE l == Len(h)
           p == Append(h, o)
           q == Append(h, x)
           r == [p EXCEPT ![l + 1] = x]
<1>1. p \in Seq(W) /\ DOMAIN p = 1 .. l + 1 /\ (\A i \in 1 .. l : p[i] = h[i]) /\ l \in Nat
  BY AppendedElement
<1>2. q \in Seq(W) /\ DOMAIN q = 1 .. l + 1 /\ (\A i \in 1 .. l : q[i] = h[i]) /\ q[l + 1] = x
  BY AppendedElement
<1>3. q = [i \in 1 .. l + 1 |-> q[i]]
  <2> HIDE DEF q
  <2>1. QED
    BY <1>2
<1>4. DOMAIN r = 1 .. l + 1 /\ r = [i \in 1 .. l + 1 |-> r[i]]
  BY <1>1
<1> HIDE DEF p, q, l
<1>5. ASSUME NEW i \in 1 .. l + 1 PROVE r[i] = q[i]
  <2>1. CASE i = l + 1
    <3>1. l + 1 \in DOMAIN p
      BY <1>1
    <3>2. QED
      BY <1>2, <2>1, <3>1
  <2>2. CASE i # l + 1
    <3>1. i \in 1 .. l /\ i \in DOMAIN p
      BY <1>1, <2>2
    <3>2. r[i] = p[i]
      BY <2>2, <3>1
    <3>3. QED
      BY <1>1, <1>2, <3>1, <3>2
  <2>3. QED
    BY <2>1, <2>2
<1> HIDE DEF r
<1>6. r = q
  BY <1>3, <1>4, <1>5
<1>7. QED
  BY <1>6 DEF r, p, q, l

LEMMA PrefixGrows ==
    ASSUME NEW V, NEW E \in Seq(V), NEW m \in 0 .. Len(E), m < Len(E)
    PROVE  /\ Append(SubSeq(E, 1, m), E[m + 1]) = SubSeq(E, 1, m + 1)
           /\ SubSeq(E, 1, m) \o <<E[m + 1]>> = SubSeq(E, 1, m + 1)
           /\ Len(SubSeq(E, 1, m)) = m
<1> DEFINE p == SubSeq(E, 1, m)
           q == SubSeq(E, 1, m + 1)
           r == Append(p, E[m + 1])
<1>1. m \in Nat /\ m + 1 \in 1 .. Len(E) /\ Len(E) \in Nat /\ E[m + 1] \in V
  OBVIOUS
<1>2. p \in Seq(V) /\ Len(p) = m /\ \A i \in 1 .. m : p[i] = E[i]
  BY <1>1
<1>3. q \in Seq(V) /\ Len(q) = m + 1 /\ \A i \in 1 .. m + 1 : q[i] = E[i]
  BY <1>1
<1>4. p \o <<E[m + 1]>> = r
  <2> HIDE DEF p
  <2>1. QED
    BY <1>1, <1>2
<1>5. r \in Seq(V) /\ Len(r) = m + 1 /\ r[m + 1] = E[m + 1] /\ \A i \in 1 .. m : r[i] = p[i]
  <2> HIDE DEF p
  <2>1. QED
    BY <1>1, <1>2, AppendedElement
<1> HIDE DEF p, q, r
<1>6. r = q
  <2>1. \A i \in 1 .. m + 1 : i = m + 1 \/ i \in 1 .. m
    BY <1>1
  <2>2. \A i \in 1 .. m + 1 : r[i] = q[i]
    BY <1>2, <1>3, <1>5, <2>1
  <2>3. r = [i \in 1 .. m + 1 |-> r[i]] /\ q = [i \in 1 .. m + 1 |-> q[i]]
    BY <1>1, <1>3, <1>5
  <2>4. QED
    BY <2>2, <2>3
<1>7. QED
  BY <1>2, <1>4, <1>6 DEF p, q, r

-----------------------------------------------------------------------------
(* What the pairs give *)

LEMMA FlattenConcat ==
    ASSUME NEW V, NEW ss \in Seq(Seq(V)), NEW tt \in Seq(Seq(V))
    PROVE  /\ ss \o tt \in Seq(Seq(V)) /\ FlattenSeq(ss) \in Seq(V) /\ FlattenSeq(tt) \in Seq(V)
           /\ FlattenSeq(ss \o tt) = FlattenSeq(ss) \o FlattenSeq(tt)
<1> DEFINE W == Seq(V)
           l == Len(ss)
           m == Len(tt)
           u == ss \o tt
<1>1. /\ ss \in Seq(W) /\ tt \in Seq(W) /\ l \in Nat /\ m \in Nat /\ u \in Seq(W) /\ Len(u) = l + m
      /\ (\A i \in 1 .. l : u[i] = ss[i]) /\ (\A i \in 1 .. m : u[l + i] = tt[i])
  <2>1. ss \in Seq(W) /\ tt \in Seq(W)
    OBVIOUS
  <2> HIDE DEF W
  <2>2. Len(ss) \in Nat /\ Len(tt) \in Nat /\ ss \o tt \in Seq(W) /\ Len(ss \o tt) = Len(ss) + Len(tt)
    BY <2>1
  <2>3. (\A i \in 1 .. Len(ss) : (ss \o tt)[i] = ss[i]) /\ (\A i \in 1 .. Len(tt) : (ss \o tt)[Len(ss) + i] = tt[i])
    BY <2>1, ConcatIs
  <2>4. QED
    BY <2>1, <2>2, <2>3
<1>2. u \in Seq(Seq(V)) /\ FlattenSeq(ss) \in Seq(V) /\ FlattenSeq(tt) \in Seq(V) /\ FlattenSeq(u) = Joined(u, l + m)
      /\ FlattenSeq(tt) = Joined(tt, m) /\ FlattenSeq(ss) = Joined(ss, l) /\ Joined(tt, 0) = <<>>
  <2>1. u \in Seq(Seq(V))
    BY <1>1
  <2>2. Joined(u, Len(u)) = FlattenSeq(u)
    BY <2>1, JoinedEnds
  <2>3. Len(u) = l + m
    BY <1>1
  <2> HIDE DEF u, l, m
  <2>4. FlattenSeq(u) = Joined(u, l + m)
    BY <2>2, <2>3
  <2>5. /\ FlattenSeq(ss) \in Seq(V) /\ FlattenSeq(tt) \in Seq(V)
        /\ FlattenSeq(tt) = Joined(tt, m) /\ FlattenSeq(ss) = Joined(ss, l) /\ Joined(tt, 0) = <<>>
    BY JoinedEnds DEF l, m
  <2>6. QED
    BY <2>1, <2>4, <2>5
<1> HIDE DEF u
<1> DEFINE S == {i \in 0 .. m : Joined(u, l + i) = Joined(ss, l) \o Joined(tt, i)}
<1>3. 0 \in S
  <2>1. Joined(u, l) = Joined(ss, l)
    <3>1. l \in 0 .. Len(ss) /\ l <= Len(u)
      BY <1>1
    <3>2. QED
      BY <1>1, <1>2, <3>1, JoinedSame
  <2>2. FlattenSeq(ss) \o <<>> = FlattenSeq(ss) /\ l + 0 = l /\ 0 \in 0 .. m
    BY <1>1, <1>2
  <2>3. QED
    BY <1>2, <2>1, <2>2
<1>4. ASSUME NEW i \in 1 .. m, i - 1 \in S PROVE i \in S
  <2> DEFINE a == Joined(ss, l)
             b == Joined(tt, i - 1)
             c == tt[i]
  <2>1. Joined(u, l + (i - 1)) = a \o b
    BY <1>4
  <2>2. Joined(u, l + i) = Joined(u, l + (i - 1)) \o c
    <3>1. l + (i - 1) \in 0 .. Len(u) - 1 /\ (l + (i - 1)) + 1 = l + i
      BY <1>1
    <3>2. Joined(u, (l + (i - 1)) + 1) = Joined(u, l + (i - 1)) \o u[(l + (i - 1)) + 1]
      BY <1>2, <3>1, JoinedStep
    <3>3. QED
      BY <1>1, <3>1, <3>2
  <2>3. Joined(tt, i) = b \o c /\ b \in Seq(V) /\ c \in Seq(V)
    <3>1. i - 1 \in 0 .. Len(tt) - 1 /\ (i - 1) + 1 = i
      BY SMTT(40), <1>1
    <3>2. Joined(tt, (i - 1) + 1) = Joined(tt, i - 1) \o tt[(i - 1) + 1] /\ Joined(tt, i - 1) \in Seq(V) /\ tt[(i - 1) + 1] \in Seq(V)
      BY <3>1, JoinedStep
    <3>3. QED
      BY <3>1, <3>2
  <2>4. a \in Seq(V)
    BY <1>2
  <2> HIDE DEF a, b, c
  <2>4a. b \in Seq(V) /\ c \in Seq(V)
    BY <2>3
  <2>5. (a \o b) \o c = a \o (b \o c)
    BY ONLY <2>4, <2>4a, SMTT(40)
  <2>6. Joined(u, l + i) = a \o Joined(tt, i)
    BY <2>1, <2>2, <2>3, <2>5
  <2>7. QED
    BY <2>6 DEF a
<1> HIDE DEF S
<1>5. \A i \in 0 .. m : i \in S
  BY <1>1, <1>3, <1>4, Induction
<1>6. Joined(u, l + m) = Joined(ss, l) \o Joined(tt, m)
  <2>1. m \in S
    BY <1>1, <1>5
  <2>2. QED
    BY <2>1 DEF S
<1>7. FlattenSeq(u) = FlattenSeq(ss) \o FlattenSeq(tt)
  BY <1>2, <1>6
<1>8. QED
  BY <1>2, <1>7 DEF u
=============================================================================
