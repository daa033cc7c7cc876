--------------------------- MODULE PlotFileProofs ---------------------------
(***************************************************************************)
(* Proofs about the end of a plot file, for any input that R_sort may      *)
(* emit, any sizes of parks and intervals, and any number of workers.      *)
(*                                                                         *)
(* The inductive invariant PlotInv says what there is of the file at any   *)
(* moment.  It fixes the entries e of table 6 and the sequence T of those  *)
(* that phase 4 has read, and counts: a parks of table 6, b parks of P7, c *)
(* entries of C1 and C2, d intervals of C3.  The first a, b, c and d       *)
(* writes of each kind (AllWrites) are then what is in the file, in the    *)
(* queues of the pools and of the writing thread, and in what the reading  *)
(* thread has still to give (Accounted); the pools only move writes along. *)
(* What the loops carry from block to block, however R_sort has cut the    *)
(* entries into blocks, is a function of the number of entries that were   *)
(* read (Cut, Carried), and the sizes of the tables, computed from         *)
(* num_written_final, are those of what will be written (Counted).         *)
(***************************************************************************)
EXTENDS PlotFile, InductionFacts

-----------------------------------------------------------------------------
(* Sums *)

\* SumTo() by any function that has its steps
LEMMA SumIs ==
    ASSUME NEW n \in Nat, NEW s, NEW f \in [0 .. n -> Int], f[0] = 0,
           \A j \in 1 .. n : f[j] = f[j - 1] + s[j]
    PROVE  SumTo(s, n) = f[n]
<1> DEFINE Sums(g) == g = [j \in 0 .. n |-> IF j = 0 THEN 0 ELSE g[j - 1] + s[j]]
           sum == CHOOSE g : Sums(g)
<1>1. SumTo(s, n) = sum[n]
  BY DEF SumTo
<1>2. \A g : Sums(g) <=> g = [j \in 0 .. n |-> IF j = 0 THEN 0 ELSE g[j - 1] + s[j]]
  BY Zenon
<1> HIDE DEF Sums
<1>3. Sums(f)
  <2> DEFINE h == [j \in 0 .. n |-> IF j = 0 THEN 0 ELSE f[j - 1] + s[j]]
  <2>1. \A j \in 0 .. n : h[j] = IF j = 0 THEN 0 ELSE f[j - 1] + s[j]
    BY Zenon
  <2>2. DOMAIN h = 0 .. n /\ h = [j \in DOMAIN h |-> h[j]]
    BY Zenon
  <2> HIDE DEF h
  <2>3. DOMAIN f = 0 .. n /\ f = [j \in DOMAIN f |-> f[j]]
    OBVIOUS
  <2>4. \A j \in 0 .. n : h[j] = f[j]
    BY <2>1
  <2>5. f = h
    BY <2>2, <2>3, <2>4
  <2>6. QED
    BY <2>5, <1>2, Zenon DEF h
<1>4. Sums(sum)
  BY <1>3, Zenon
<1> DEFINE h == [j \in 0 .. n |-> IF j = 0 THEN 0 ELSE sum[j - 1] + s[j]]
<1>5. sum = h
  <2> HIDE DEF sum
  <2>1. QED
    BY <1>4, <1>2, Zenon
<1>6. \A j \in 0 .. n : h[j] = IF j = 0 THEN 0 ELSE sum[j - 1] + s[j]
  <2> HIDE DEF sum
  <2>1. QED
    BY Zenon
<1> HIDE DEF sum, h
<1>7. sum[0] = 0 /\ \A j \in 1 .. n : sum[j] = sum[j - 1] + s[j]
  BY <1>5, <1>6
<1> DEFINE S == {j \in 0 .. n : sum[j] = f[j]}
<1>8. 0 \in S
  BY <1>7
<1>9. ASSUME NEW j \in 1 .. n, j - 1 \in S PROVE j \in S
  BY <1>7, <1>9
<1> HIDE DEF S
<1>10. \A j \in 0 .. n : j \in S
  BY <1>8, <1>9, Induction
<1>11. QED
  BY <1>1, <1>10 DEF S

\* A sum of n numbers is that of n - 1 and one more.
LEMMA SumSteps ==
    ASSUME NEW n \in Nat, NEW s, \A j \in 1 .. n : s[j] \in Int
    PROVE  /\ SumTo(s, 0) = 0
           /\ \A k \in 0 .. n : SumTo(s, k) \in Int
           /\ \A k \in 1 .. n : SumTo(s, k) = SumTo(s, k - 1) + s[k]
<1> DEFINE V == Int
           step == [i \in 1 .. n |-> [v \in V |-> v + s[i]]]
<1>1. step \in [1 .. n -> [V -> V]]
  OBVIOUS
<1>2. \A i \in 1 .. n, v \in V : step[i][v] = v + s[i]
  OBVIOUS
<1>3. 0 \in V
  OBVIOUS
<1> HIDE DEF step, V
<1>4. PICK f \in [0 .. n -> V] : Solves(f, 0, step, n)
  BY <1>1, <1>3, Recursion
<1>5. f[0] = 0 /\ \A i \in 1 .. n : f[i] = f[i - 1] + s[i]
  BY <1>4, <1>2 DEF Solves
<1>6. ASSUME NEW k \in 0 .. n PROVE SumTo(s, k) = f[k]
  <2> DEFINE g == [j \in 0 .. k |-> f[j]]
  <2>1. k \in Nat /\ g \in [0 .. k -> Int] /\ g[0] = 0 /\ g[k] = f[k]
    BY <1>5 DEF V
  <2>2. \A j \in 1 .. k : g[j] = g[j - 1] + s[j]
    BY <1>5
  <2> HIDE DEF g
  <2>3. QED
    BY <2>1, <2>2, SumIs
<1>7. 0 \in 0 .. n /\ \A k \in 1 .. n : k \in 0 .. n /\ k - 1 \in 0 .. n
  OBVIOUS
<1>8. QED
  BY <1>5, <1>6, <1>7 DEF V

\* A sum sees no more than its n numbers.
LEMMA SumSame ==
    ASSUME NEW n \in Nat, NEW s, NEW t, \A j \in 1 .. n : s[j] \in Int /\ t[j] = s[j]
    PROVE  SumTo(t, n) = SumTo(s, n)
<1> DEFINE S == {k \in 0 .. n : SumTo(t, k) = SumTo(s, k)}
<1>1. 0 \in S
  BY SumSteps
<1>2. ASSUME NEW k \in 1 .. n, k - 1 \in S PROVE k \in S
  BY <1>2, SumSteps
<1> HIDE DEF S
<1>3. \A k \in 0 .. n : k \in S
  BY <1>1, <1>2, Induction
<1>4. QED
  BY <1>3 DEF S

\* A sum of naturals
LEMMA SumNat ==
    ASSUME NEW n \in Nat, NEW s, \A j \in 1 .. n : s[j] \in Nat
    PROVE  SumTo(s, n) \in Nat
<1> DEFINE S == {k \in 0 .. n : SumTo(s, k) \in Nat}
<1>1. 0 \in S
  BY SumSteps
<1>2. ASSUME NEW k \in 1 .. n, k - 1 \in S PROVE k \in S
  BY <1>2, SumSteps
<1> HIDE DEF S
<1>3. \A k \in 0 .. n : k \in S
  BY <1>1, <1>2, Induction
<1>4. QED
  BY <1>3 DEF S

\* A sum begins with its first number.
LEMMA SumFirst ==
    ASSUME NEW n \in Nat, NEW s, NEW t, \A j \in 1 .. n + 1 : s[j] \in Int, \A j \in 1 .. n : t[j] = s[j + 1]
    PROVE  SumTo(s, n + 1) = s[1] + SumTo(t, n)
<1> DEFINE S == {k \in 0 .. n : SumTo(s, k + 1) = s[1] + SumTo(t, k)}
<1>1. /\ SumTo(s, 0) = 0 /\ \A k \in 1 .. n + 1 : SumTo(s, k) = SumTo(s, k - 1) + s[k]
  BY SumSteps
<1>2. /\ SumTo(t, 0) = 0 /\ \A k \in 1 .. n : SumTo(t, k) = SumTo(t, k - 1) + t[k]
      /\ \A k \in 0 .. n : SumTo(t, k) \in Int
  BY SumSteps
<1>3. 0 \in S
  <2>1. 1 \in 1 .. n + 1 /\ 0 + 1 = 1 /\ 1 - 1 = 0
    OBVIOUS
  <2>2. SumTo(s, 1) = SumTo(s, 0) + s[1]
    BY <1>1, <2>1
  <2>3. QED
    BY <1>1, <1>2, <2>1, <2>2
<1>4. ASSUME NEW k \in 1 .. n, k - 1 \in S PROVE k \in S
  <2>1. SumTo(s, k + 1) = SumTo(s, k) + s[k + 1]
    <3>1. k + 1 \in 1 .. n + 1 /\ (k + 1) - 1 = k
      OBVIOUS
    <3>2. QED
      BY <1>1, <3>1
  <2>2. SumTo(s, k) = s[1] + SumTo(t, k - 1) /\ k - 1 \in 0 .. n
    <3>1. (k - 1) + 1 = k
      OBVIOUS
    <3>2. QED
      BY <1>4, <3>1
  <2>3. SumTo(t, k) = SumTo(t, k - 1) + t[k] /\ t[k] = s[k + 1]
    BY <1>2
  <2>4. SumTo(t, k - 1) \in Int /\ s[1] \in Int /\ s[k + 1] \in Int
    BY <1>2, <2>2
  <2>5. SumTo(s, k + 1) = s[1] + SumTo(t, k)
    BY <2>1, <2>2, <2>3, <2>4
  <2>6. QED
    BY <2>5
<1> HIDE DEF S
<1>5. \A k \in 0 .. n : k \in S
  BY <1>3, <1>4, Induction
<1>6. QED
  BY <1>5 DEF S

-----------------------------------------------------------------------------
(* Bunches of writes *)

InAll(w) == UNION {ToSet(w[n]) : n \in 1 .. Len(w)}
Lengths(w) == [n \in 1 .. Len(w) |-> Len(w[n])]
NumAll(w) == SumTo(Lengths(w), Len(w))

\* No bunches, no writes
LEMMA BunchEmpty == InAll(<<>>) = {} /\ NumAll(<<>>) = 0
<1>1. Len(<<>>) = 0 /\ 1 .. 0 = {}
  OBVIOUS
<1>2. InAll(<<>>) = {}
  BY <1>1 DEF InAll
<1>3. QED
  BY <1>1, <1>2, SumSteps DEF NumAll

\* Bunches have lengths.
LEMMA BunchNat ==
    ASSUME NEW V, NEW w \in Seq(Seq(V))
    PROVE  /\ NumAll(w) \in Nat /\ Len(w) \in Nat
           /\ \A j \in 1 .. Len(w) : Lengths(w)[j] = Len(w[j]) /\ Lengths(w)[j] \in Nat /\ w[j] \in Seq(V)
<1>1. Len(w) \in Nat /\ \A j \in 1 .. Len(w) : w[j] \in Seq(V) /\ Len(w[j]) \in Nat
  OBVIOUS
<1>2. \A j \in 1 .. Len(w) : Lengths(w)[j] = Len(w[j])
  BY DEF Lengths
<1>3. QED
  BY <1>1, <1>2, SumNat DEF NumAll

\* One bunch of writes more
LEMMA BunchAppend ==
    ASSUME NEW V, NEW w \in Seq(Seq(V)), NEW x \in Seq(V)
    PROVE  InAll(Append(w, x)) = InAll(w) \cup ToSet(x) /\ NumAll(Append(w, x)) = NumAll(w) + Len(x)
<1> DEFINE u == Append(w, x)
           n == Len(w)
<1>1. /\ u \in Seq(Seq(V)) /\ Len(u) = n + 1 /\ n \in Nat
      /\ (\A i \in 1 .. n : u[i] = w[i]) /\ u[n + 1] = x /\ Len(x) \in Nat
  OBVIOUS
<1>2. /\ \A j \in 1 .. n : Lengths(w)[j] = Len(w[j]) /\ Lengths(w)[j] \in Nat
  BY BunchNat
<1>3. /\ \A j \in 1 .. Len(u) : Lengths(u)[j] = Len(u[j]) /\ Lengths(u)[j] \in Nat
  BY <1>1, BunchNat
<1> HIDE DEF u
<1>4. InAll(u) = InAll(w) \cup ToSet(x)
  <2>1. \A j \in 1 .. n + 1 : j = n + 1 \/ j \in 1 .. n
    BY <1>1
  <2>2. n + 1 \in 1 .. n + 1 /\ \A j \in 1 .. n : j \in 1 .. n + 1
    BY <1>1
  <2>3. QED
    BY <1>1, <2>1, <2>2 DEF InAll
<1>5. SumTo(Lengths(u), n) = SumTo(Lengths(w), n)
  <2>1. ASSUME NEW j \in 1 .. n PROVE Lengths(w)[j] \in Int /\ Lengths(u)[j] = Lengths(w)[j]
    <3>1. j \in 1 .. Len(u)
      BY <1>1
    <3>2. Lengths(u)[j] = Len(u[j]) /\ u[j] = w[j]
      BY <1>1, <1>3, <3>1
    <3>3. Lengths(w)[j] = Len(w[j]) /\ Lengths(w)[j] \in Nat
      BY <1>2
    <3>4. QED
      BY <3>2, <3>3
  <2>2. QED
    BY <1>1, <2>1, SumSame
<1>6. SumTo(Lengths(u), n + 1) = SumTo(Lengths(u), n) + Len(x)
  <2>1. n + 1 \in 1 .. n + 1 /\ (n + 1) - 1 = n /\ n + 1 \in Nat
    BY <1>1
  <2>2. \A j \in 1 .. n + 1 : Lengths(u)[j] \in Int
    BY <1>1, <1>3
  <2>3. SumTo(Lengths(u), n + 1) = SumTo(Lengths(u), n) + Lengths(u)[n + 1]
    BY <2>1, <2>2, SumSteps
  <2>4. QED
    BY <1>1, <1>3, <2>1, <2>3
<1>7. QED
  BY <1>1, <1>4, <1>5, <1>6 DEF NumAll, u

\* One bunch of writes less
LEMMA BunchTail ==
    ASSUME NEW V, NEW w \in Seq(Seq(V)), w # <<>>
    PROVE  InAll(w) = ToSet(Head(w)) \cup InAll(Tail(w)) /\ NumAll(w) = Len(Head(w)) + NumAll(Tail(w))
<1> DEFINE u == Tail(w)
           n == Len(u)
<1>1. /\ u \in Seq(Seq(V)) /\ Len(w) = n + 1 /\ n \in Nat
      /\ (\A i \in 1 .. n : u[i] = w[i + 1]) /\ w[1] = Head(w) /\ Len(Head(w)) \in Nat
  OBVIOUS
<1>2. /\ \A j \in 1 .. n + 1 : Lengths(w)[j] = Len(w[j]) /\ Lengths(w)[j] \in Nat
  BY <1>1, BunchNat
<1>3. /\ \A j \in 1 .. Len(u) : Lengths(u)[j] = Len(u[j]) /\ Lengths(u)[j] \in Nat
  BY <1>1, BunchNat
<1> HIDE DEF u
<1>4. InAll(w) = ToSet(Head(w)) \cup InAll(u)
  <2>1. ASSUME NEW j \in 1 .. n + 1 PROVE j = 1 \/ (j - 1 \in 1 .. n /\ w[j] = u[j - 1])
    <3>1. j = 1 \/ (j - 1 \in 1 .. n /\ (j - 1) + 1 = j)
      BY <1>1
    <3>2. QED
      BY <1>1, <3>1
  <2>2. \A j \in 1 .. n : j + 1 \in 1 .. n + 1
    BY <1>1
  <2>3. 1 \in 1 .. n + 1
    BY <1>1
  <2>4. QED
    BY ZenonT(60), <1>1, <2>1, <2>2, <2>3 DEF InAll
<1>5. SumTo(Lengths(w), n + 1) = Lengths(w)[1] + SumTo(Lengths(u), n)
  <2>1. \A j \in 1 .. n + 1 : Lengths(w)[j] \in Int
    BY <1>2
  <2>2. ASSUME NEW j \in 1 .. n PROVE Lengths(u)[j] = Lengths(w)[j + 1]
    <3>1. j + 1 \in 1 .. n + 1
      BY <1>1
    <3>2. QED
      BY <1>1, <1>2, <1>3, <3>1
  <2>3. QED
    BY <1>1, <2>1, <2>2, SumFirst
<1>6. Lengths(w)[1] = Len(Head(w))
  BY <1>1, <1>2
<1>7. QED
  BY <1>1, <1>4, <1>5, <1>6 DEF NumAll, u

\* A bunch of n writes is no more than n different ones.
LEMMA BunchSize ==
    ASSUME NEW V, NEW w \in Seq(Seq(V))
    PROVE  IsFiniteSet(InAll(w)) /\ Cardinality(InAll(w)) <= NumAll(w) /\ Cardinality(InAll(w)) \in Nat
<1> DEFINE n == Len(w)
           Some(k) == UNION {ToSet(w[j]) : j \in 1 .. k}
           S == {k \in 0 .. n : IsFiniteSet(Some(k)) /\ Cardinality(Some(k)) <= SumTo(Lengths(w), k)}
<1>1. /\ n \in Nat /\ \A j \in 1 .. n : Lengths(w)[j] = Len(w[j]) /\ Lengths(w)[j] \in Nat /\ w[j] \in Seq(V)
  BY BunchNat
<1>2. \A j \in 1 .. n : Lengths(w)[j] \in Int
  BY <1>1
<1>3. /\ SumTo(Lengths(w), 0) = 0 /\ \A k \in 1 .. n : SumTo(Lengths(w), k) = SumTo(Lengths(w), k - 1) + Lengths(w)[k]
      /\ \A k \in 0 .. n : SumTo(Lengths(w), k) \in Int
  <2> HIDE DEF n
  <2>1. QED
    BY <1>1, <1>2, SumSteps
<1>4. 0 \in S
  <2>1. Some(0) = {}
    OBVIOUS
  <2> HIDE DEF Some, n
  <2>2. IsFiniteSet(Some(0)) /\ Cardinality(Some(0)) = 0
    BY <2>1, FS_EmptySet
  <2>3. 0 \in 0 .. n
    BY <1>1
  <2>4. QED
    BY <1>3, <2>2, <2>3
<1>5. ASSUME NEW k \in 1 .. n, k - 1 \in S PROVE k \in S
  <2>1. Some(k) = Some(k - 1) \cup ToSet(w[k])
    <3>1. \A j \in 1 .. k : j = k \/ j \in 1 .. k - 1
      OBVIOUS
    <3>2. k \in 1 .. k /\ \A j \in 1 .. k - 1 : j \in 1 .. k
      OBVIOUS
    <3>3. QED
      BY <3>1, <3>2
  <2> HIDE DEF Some, n
  <2>2. IsFiniteSet(Some(k - 1)) /\ Cardinality(Some(k - 1)) <= SumTo(Lengths(w), k - 1) /\ k - 1 \in 0 .. n
    BY <1>5
  <2>3. IsFiniteSet(ToSet(w[k])) /\ Cardinality(ToSet(w[k])) <= Len(w[k]) /\ Len(w[k]) \in Nat
    <3>1. w[k] \in Seq(V)
      BY <1>1
    <3>2. Len(w[k]) \in Nat /\ w[k] \in [1 .. Len(w[k]) -> V]
      BY <3>1
    <3>3. IsFiniteSet(1 .. Len(w[k])) /\ Cardinality(1 .. Len(w[k])) = Len(w[k])
      <4>1. \A l \in Nat : IsFiniteSet(1 .. l) /\ Cardinality(1 .. l) = l
        BY FS_Interval
      <4>2. QED
        BY <3>2, <4>1
    <3>4. w[k] \in Surjection(1 .. Len(w[k]), ToSet(w[k]))
      BY <3>2 DEF Surjection, ToSet
    <3>5. QED
      BY ONLY <3>2, <3>3, <3>4, FS_Surjection
  <2>4. /\ IsFiniteSet(Some(k)) /\ Cardinality(Some(k)) <= Cardinality(Some(k - 1)) + Cardinality(ToSet(w[k]))
    <3>1. /\ IsFiniteSet(Some(k - 1) \cup ToSet(w[k]))
          /\ Cardinality(Some(k - 1) \cup ToSet(w[k])) =
                Cardinality(Some(k - 1)) + Cardinality(ToSet(w[k])) - Cardinality(Some(k - 1) \cap ToSet(w[k]))
      BY <2>2, <2>3, FS_Union
    <3>2. Cardinality(Some(k - 1) \cap ToSet(w[k])) \in Nat
      BY <2>2, FS_Intersection, FS_CardinalityType
    <3>3. Cardinality(Some(k - 1)) \in Nat /\ Cardinality(ToSet(w[k])) \in Nat
      BY <2>2, <2>3, FS_CardinalityType
    <3>4. QED
      BY <2>1, <3>1, <3>2, <3>3
  <2>5. Cardinality(Some(k - 1)) \in Nat /\ Cardinality(ToSet(w[k])) \in Nat /\ Cardinality(Some(k)) \in Nat
    BY <2>2, <2>3, <2>4, FS_CardinalityType
  <2>6. SumTo(Lengths(w), k) = SumTo(Lengths(w), k - 1) + Len(w[k]) /\ SumTo(Lengths(w), k - 1) \in Int
    BY <1>1, <1>3, <2>2
  <2>7. Cardinality(Some(k)) <= SumTo(Lengths(w), k)
    BY <2>2, <2>3, <2>4, <2>5, <2>6
  <2>8. k \in 0 .. n
    BY <1>1
  <2>9. QED
    BY <2>4, <2>7, <2>8
<1> HIDE DEF S
<1>6. \A k \in 0 .. n : k \in S
  <2> HIDE DEF n
  <2>1. QED
    BY <1>1, <1>4, <1>5, Induction
<1>7. InAll(w) = Some(n) /\ NumAll(w) = SumTo(Lengths(w), n)
  BY DEF InAll, NumAll
<1>8. n \in S
  BY <1>1, <1>6
<1>9. IsFiniteSet(InAll(w)) /\ Cardinality(InAll(w)) <= NumAll(w)
  <2> HIDE DEF Some, n
  <2>1. QED
    BY <1>7, <1>8 DEF S
<1>10. QED
  BY <1>9, FS_CardinalityType

-----------------------------------------------------------------------------
(* What is under way *)

\* The inputs that stages are given
Park == [index : Nat, points : Seq(Nat) \ {<<>>}]
Data == [first : Nat, deltas : Seq(Int)] \cup Seq(Nat) \cup Nat
Writes == [offset : Nat, size : Nat, data : Data]
InputsOf(q) ==
    CASE q = "park_threads" -> Seq(Park)
      [] q = "p7_threads" -> Seq([offset : Nat, array : Seq(Nat)])
      [] q = "delta_threads" -> [offset : Nat, deltas : Seq(Nat)]
      [] q = "plot_write" -> Seq(Writes)
      [] q = "L_add" -> [block : Seq([key : 0 .. 255, point : Nat]), offset : Nat]
Given == UNION {[to : {q}, what : InputsOf(q)] : q \in Stages}

\* The writes that an input of stage q leads to
Made(q, what) == IF q \in Pools THEN Packed(q, what) ELSE IF q = "plot_write" THEN what ELSE <<>>
Bunches(q, s) == [n \in 1 .. Len(s) |-> Made(q, s[n])]
Sent(s) == [n \in 1 .. Len(s) |-> Made(s[n].to, s[n].what)]

InQueues(qs) == UNION {InAll(Bunches(q, qs[q])) : q \in Stages}
NumQueue(q, qs) == NumAll(Bunches(q, qs[q]))
NumQueues(qs) ==
    NumQueue("park_threads", qs) + NumQueue("p7_threads", qs) + NumQueue("delta_threads", qs)
        + NumQueue("plot_write", qs) + NumQueue("L_add", qs)
InPipe == InAll(Sent(sends)) \cup InQueues(queue)
NumPipe == NumAll(Sent(sends)) + NumQueues(queue)

\* The entries in the parks that are under way
PointsOf(s) == [n \in 1 .. Len(s) |-> NumPoints(s[n])]
AllPoints(s) == SumTo(PointsOf(s), Len(s))
ToParks(s) == [n \in 1 .. Len(s) |-> IF s[n].to = "park_threads" THEN NumPoints(s[n].what) ELSE 0]
AllToParks(s) == SumTo(ToParks(s), Len(s))

\* The entries that are on their way to the second DiskSort
Fit(x) == {n \in 1 .. Len(x.block) : x.offset + n - 1 < MaxPos}
Added(x) == {[key |-> x.block[n].key, pos |-> x.offset + n - 1] : n \in Fit(x)}
Adds(q, x) == IF q = "L_add" THEN Added(x) ELSE {}
AddsIn(s) == UNION {Added(s[n]) : n \in 1 .. Len(s)}
AddsSent(s) == UNION {Adds(s[n].to, s[n].what) : n \in 1 .. Len(s)}
InAdds == AddsIn(queue["L_add"]) \cup AddsSent(sends)

AreQueues(qs) == DOMAIN qs = Stages /\ \A q \in Stages : qs[q] \in Seq(InputsOf(q))
Phase3 == stage \in {"stage2", "close2"}

Types ==
    /\ input \in Inputs
    /\ stage \in {"stage2", "close2", "phase4", "close4", "done"}
    /\ sends \in Seq(Given)
    /\ AreQueues(queue)
    /\ num_written_final \in Nat
    /\ ~Phase3 => /\ queue["park_threads"] = <<>> /\ queue["L_add"] = <<>>
                  /\ \A n \in 1 .. Len(sends) : sends[n].to \notin {"park_threads", "L_add"}
    /\ stage = "done" => sends = <<>> /\ \A q \in Stages : queue[q] = <<>>

\* The file and what is under way are the writes M, of which there were k; the parks
\* that were made have p entries, and the second DiskSort will be given A.
Accounted(M, k) ==
    /\ IsFiniteSet(file) /\ Cardinality(file) <= num_writes /\ num_writes \in Nat
    /\ file \cup InPipe = M
    /\ num_writes + NumPipe = k
Counted(p) == num_written_final + AllToParks(sends) + AllPoints(queue["park_threads"]) = p
Sorted(A) == L_sort \cup InAdds = A

-----------------------------------------------------------------------------
(* The types of what is under way *)

\* Sequences with the same elements are the same.
LEMMA SameSequence ==
    ASSUME NEW V, NEW c \in Seq(V), NEW d \in Seq(V), Len(c) = Len(d), \A n \in 1 .. Len(c) : c[n] = d[n]
    PROVE  c = d
OBVIOUS

\* The constants are positive.
LEMMA Bounds ==
    /\ kEntriesPerPark \in Nat \ {0} /\ kCheckpoint1Interval \in Nat \ {0}
    /\ kCheckpoint2Interval \in Nat \ {0} /\ MaxPos \in Nat \ {0} /\ ParkSize \in Nat \ {0}
    /\ P7Size \in Nat \ {0} /\ C1Size \in Nat \ {0} /\ C3Size \in Nat \ {0} /\ KeySpan \in Nat \ {0}
    /\ Workers \in Nat \ {0} /\ L_final_begin \in Nat
BY BoundsAssumption

\* The stages by name
LEMMA StageNames ==
    /\ Stages = {"park_threads", "p7_threads", "delta_threads", "L_add", "plot_write"}
    /\ Pools \subseteq Stages /\ "plot_write" \notin Pools /\ "L_add" \notin Pools
BY DEF Stages, Pools

\* Packing changes no delta of a park.
LEMMA SameDeltas == ASSUME NEW d PROVE ParkDeltas(d) = d
BY DEF ParkDeltas, Encoded

\* The deltas of a sequence of naturals
LEMMA DeltasType ==
    ASSUME NEW s \in Seq(Nat), s # <<>>
    PROVE  Deltas(s) \in Seq(Int) /\ Len(Deltas(s)) = Len(s) - 1 /\ \A j \in 1 .. Len(s) - 1 : Deltas(s)[j] = s[j + 1] - s[j]
<1>1. Len(s) - 1 \in Nat /\ \A j \in 1 .. Len(s) - 1 : s[j] \in Int /\ s[j + 1] \in Int
  OBVIOUS
<1>2. QED
  BY <1>1 DEF Deltas

\* What a stage makes of an input are writes.
LEMMA MadeType ==
    ASSUME NEW q \in Stages, NEW x \in InputsOf(q)
    PROVE  Made(q, x) \in Seq(Writes)
<1>1. CASE q = "park_threads"
  <2>1. x \in Seq(Park) /\ Made(q, x) = Packed(q, x)
    BY <1>1 DEF InputsOf, Made, Pools
  <2>2. Packed(q, x) =
          [n \in 1 .. Len(x) |->
                Write(L_final_begin + x[n].index * ParkSize, ParkSize,
                      [first |-> x[n].points[1], deltas |-> ParkDeltas(Deltas(x[n].points))])]
    BY <1>1 DEF Packed
  <2>3. ASSUME NEW n \in 1 .. Len(x)
        PROVE  Write(L_final_begin + x[n].index * ParkSize, ParkSize,
                      [first |-> x[n].points[1], deltas |-> ParkDeltas(Deltas(x[n].points))]) \in Writes
    <3>1. x[n] \in Park
      BY <2>1
    <3>2. x[n].index \in Nat /\ x[n].points \in Seq(Nat) /\ x[n].points # <<>>
      BY <3>1 DEF Park
    <3>3. x[n].points[1] \in Nat /\ ParkDeltas(Deltas(x[n].points)) \in Seq(Int)
      BY SMTT(40), <3>2, DeltasType, SameDeltas
    <3>4. x[n].index * ParkSize \in Nat
      BY <3>2, Bounds
    <3>5. L_final_begin + x[n].index * ParkSize \in Nat
      BY <3>4, Bounds
    <3>6. [first |-> x[n].points[1], deltas |-> ParkDeltas(Deltas(x[n].points))] \in Data
      BY <3>3 DEF Data
    <3>7. QED
      BY <3>5, <3>6, Bounds DEF Write, Writes
  <2>4. Len(x) \in Nat
    BY <2>1
  <2>5. QED
    BY <2>1, <2>2, <2>3, <2>4
<1>2. CASE q = "p7_threads"
  <2>1. x \in Seq([offset : Nat, array : Seq(Nat)]) /\ Made(q, x) = Packed(q, x)
    BY <1>2 DEF InputsOf, Made, Pools
  <2>2. Packed(q, x) = [n \in 1 .. Len(x) |-> Write(x[n].offset, P7Size, x[n].array)]
    BY <1>2 DEF Packed
  <2>3. ASSUME NEW n \in 1 .. Len(x) PROVE Write(x[n].offset, P7Size, x[n].array) \in Writes
    <3> DEFINE P == [offset : Nat, array : Seq(Nat)]
    <3>1. x[n] \in P
      <4>1. x \in Seq(P)
        BY <2>1
      <4> HIDE DEF P
      <4>2. QED
        BY <4>1
    <3>2. QED
      BY <3>1, Bounds DEF Write, Writes, Data
  <2>4. QED
    BY <2>1, <2>2, <2>3
<1>3. CASE q = "delta_threads"
  <2>1. x \in [offset : Nat, deltas : Seq(Nat)] /\ Made(q, x) = Packed(q, x)
    BY <1>3 DEF InputsOf, Made, Pools
  <2>2. Packed(q, x) = <<Write(x.offset, C3Size, Encoded(x.deltas))>>
    BY <1>3 DEF Packed
  <2>3. Encoded(x.deltas) \in Seq(Nat)
    BY <2>1 DEF Encoded
  <2>4. QED
    BY <2>1, <2>2, <2>3, Bounds DEF Write, Writes, Data
<1>4. CASE q = "plot_write"
  BY <1>4 DEF InputsOf, Made, Pools
<1>5. CASE q = "L_add"
  BY <1>5 DEF Made, Pools
<1>6. QED
  BY <1>1, <1>2, <1>3, <1>4, <1>5, StageNames

\* The bunches of the inputs in a queue
LEMMA BunchesType ==
    ASSUME NEW q \in Stages, NEW s \in Seq(InputsOf(q))
    PROVE  /\ Bunches(q, s) \in Seq(Seq(Writes)) /\ Len(Bunches(q, s)) = Len(s)
           /\ \A n \in 1 .. Len(s) : Bunches(q, s)[n] = Made(q, s[n])
<1>1. Len(s) \in Nat /\ \A n \in 1 .. Len(s) : Made(q, s[n]) \in Seq(Writes)
  BY MadeType
<1>2. QED
  BY <1>1 DEF Bunches

\* The bunches of what the reading thread has still to give
LEMMA SentType ==
    ASSUME NEW s \in Seq(Given)
    PROVE  /\ Sent(s) \in Seq(Seq(Writes)) /\ Len(Sent(s)) = Len(s)
           /\ \A n \in 1 .. Len(s) : Sent(s)[n] = Made(s[n].to, s[n].what)
<1>1. ASSUME NEW x \in Given PROVE x.to \in Stages /\ x.what \in InputsOf(x.to)
  BY DEF Given
<1>2. Len(s) \in Nat /\ \A n \in 1 .. Len(s) : s[n] \in Given
  OBVIOUS
<1>3. \A n \in 1 .. Len(s) : Made(s[n].to, s[n].what) \in Seq(Writes)
  BY <1>1, <1>2, MadeType
<1>4. QED
  BY <1>2, <1>3 DEF Sent

\* An input joins a queue.
LEMMA QueueAppend ==
    ASSUME NEW q \in Stages, NEW s \in Seq(InputsOf(q)), NEW x \in InputsOf(q)
    PROVE  /\ InAll(Bunches(q, Append(s, x))) = InAll(Bunches(q, s)) \cup ToSet(Made(q, x))
           /\ NumAll(Bunches(q, Append(s, x))) = NumAll(Bunches(q, s)) + Len(Made(q, x))
<1> DEFINE I == InputsOf(q)
           W == Writes
           t == Append(s, x)
           b == Bunches(q, s)
           c == Bunches(q, t)
           m == Made(q, x)
<1>1. /\ b \in Seq(Seq(W)) /\ Len(b) = Len(s)
      /\ \A n \in 1 .. Len(s) : b[n] = Made(q, s[n])
  BY BunchesType
<1>2. t \in Seq(I) /\ Len(t) = Len(s) + 1 /\ Len(s) \in Nat /\ t[Len(s) + 1] = x /\ \A n \in 1 .. Len(s) : t[n] = s[n]
  OBVIOUS
<1>3. /\ c \in Seq(Seq(W)) /\ Len(c) = Len(t)
      /\ \A n \in 1 .. Len(t) : c[n] = Made(q, t[n])
  <2> HIDE DEF t, c
  <2>1. QED
    BY <1>2, BunchesType DEF c
<1>4. m \in Seq(W)
  BY MadeType
<1> HIDE DEF b, c, m, t, W
<1>5. c = Append(b, m)
  <2>1. Append(b, m) \in Seq(Seq(W)) /\ Len(Append(b, m)) = Len(s) + 1 /\ Append(b, m)[Len(s) + 1] = m
        /\ \A n \in 1 .. Len(s) : Append(b, m)[n] = b[n]
    BY <1>1, <1>4
  <2>2. c[Len(s) + 1] = m
    <3>1. Len(s) + 1 \in 1 .. Len(t)
      BY <1>2
    <3>2. QED
      BY <1>2, <1>3, <3>1 DEF m
  <2>3. \A n \in 1 .. Len(s) : c[n] = b[n]
    <3>1. \A n \in 1 .. Len(s) : n \in 1 .. Len(t)
      BY <1>2
    <3>2. QED
      BY <1>1, <1>2, <1>3, <3>1
  <2> DEFINE d == Append(b, m)
  <2>4. \A n \in 1 .. Len(s) + 1 : n = Len(s) + 1 \/ n \in 1 .. Len(s)
    BY <1>2
  <2> HIDE DEF d
  <2>5. \A n \in 1 .. Len(s) + 1 : c[n] = d[n]
    BY <2>1, <2>2, <2>3, <2>4 DEF d
  <2>6. c \in Seq(Seq(W)) /\ d \in Seq(Seq(W)) /\ Len(c) = Len(s) + 1 /\ Len(d) = Len(s) + 1
    BY <1>2, <1>3, <2>1 DEF d
  <2>7. c = d
    BY <2>5, <2>6
  <2>8. QED
    BY <2>7 DEF d
<1>6. InAll(Append(b, m)) = InAll(b) \cup ToSet(m) /\ NumAll(Append(b, m)) = NumAll(b) + Len(m)
  BY ONLY <1>1, <1>4, BunchAppend
<1>7. QED
  BY <1>5, <1>6 DEF b, c, m, t

\* An input leaves a queue.
LEMMA QueueTail ==
    ASSUME NEW q \in Stages, NEW s \in Seq(InputsOf(q)), s # <<>>
    PROVE  /\ Head(s) \in InputsOf(q) /\ Tail(s) \in Seq(InputsOf(q))
           /\ InAll(Bunches(q, s)) = ToSet(Made(q, Head(s))) \cup InAll(Bunches(q, Tail(s)))
           /\ NumAll(Bunches(q, s)) = Len(Made(q, Head(s))) + NumAll(Bunches(q, Tail(s)))
<1> DEFINE I == InputsOf(q)
           W == Writes
           t == Tail(s)
           b == Bunches(q, s)
           c == Bunches(q, t)
           m == Made(q, Head(s))
<1>1. /\ b \in Seq(Seq(W)) /\ Len(b) = Len(s)
      /\ \A n \in 1 .. Len(s) : b[n] = Made(q, s[n])
  BY BunchesType
<1>2. /\ t \in Seq(I) /\ Len(t) = Len(s) - 1 /\ Len(s) \in Nat \ {0} /\ Head(s) = s[1] /\ Head(s) \in I
      /\ \A n \in 1 .. Len(s) - 1 : t[n] = s[n + 1]
  BY TailElements
<1>3. /\ c \in Seq(Seq(W)) /\ Len(c) = Len(t)
      /\ \A n \in 1 .. Len(t) : c[n] = Made(q, t[n])
  <2> HIDE DEF t, c
  <2>1. QED
    BY <1>2, BunchesType DEF c
<1>4. m \in Seq(W)
  BY <1>2, MadeType
<1> HIDE DEF b, c, m, t, W
<1>5. c = Tail(b) /\ m = Head(b) /\ b # <<>>
  <2>1. b # <<>>
    BY <1>1, <1>2
  <2>2. /\ Len(b) \in Nat \ {0} /\ b[1] = Head(b)
        /\ Tail(b) \in Seq(Seq(W)) /\ Len(Tail(b)) = Len(b) - 1
        /\ \A i \in 1 .. Len(b) - 1 : Tail(b)[i] = b[i + 1]
    BY ONLY <1>1, <2>1, TailElements
  <2>3. m = Head(b)
    <3>1. 1 \in 1 .. Len(s)
      BY <1>2
    <3>2. QED
      BY <1>1, <1>2, <2>2, <3>1 DEF m
  <2>4. ASSUME NEW n \in 1 .. Len(s) - 1 PROVE c[n] = Tail(b)[n]
    <3>1. n + 1 \in 1 .. Len(s) /\ n \in 1 .. Len(t)
      BY <1>2
    <3>2. c[n] = Made(q, t[n]) /\ t[n] = s[n + 1]
      BY <1>2, <1>3, <3>1
    <3>3. Tail(b)[n] = b[n + 1] /\ b[n + 1] = Made(q, s[n + 1])
      BY <1>1, <2>2, <3>1
    <3>4. QED
      BY <3>2, <3>3
  <2> DEFINE d == Tail(b)
  <2> HIDE DEF d
  <2>5. \A n \in 1 .. Len(s) - 1 : c[n] = d[n]
    BY <2>4 DEF d
  <2>6. c \in Seq(Seq(W)) /\ d \in Seq(Seq(W)) /\ Len(c) = Len(s) - 1 /\ Len(d) = Len(s) - 1
        /\ Len(s) - 1 \in Nat
    BY <1>1, <1>2, <1>3, <2>2 DEF d
  <2>7. c = d
    <3>1. Len(c) = Len(d) /\ \A n \in 1 .. Len(c) : c[n] = d[n]
      BY <2>5, <2>6
    <3>2. QED
      BY ONLY <2>6, <3>1, SameSequence
  <2>8. QED
    BY <2>1, <2>3, <2>7 DEF d
<1>6. InAll(b) = ToSet(Head(b)) \cup InAll(Tail(b)) /\ NumAll(b) = Len(Head(b)) + NumAll(Tail(b))
  BY ONLY <1>1, <1>5, BunchTail
<1>7. QED
  BY <1>2, <1>5, <1>6 DEF b, c, m, t

\* The reading thread gives the first of it.
LEMMA SentTail ==
    ASSUME NEW s \in Seq(Given), s # <<>>
    PROVE  /\ Head(s).to \in Stages /\ Head(s).what \in InputsOf(Head(s).to) /\ Tail(s) \in Seq(Given)
           /\ InAll(Sent(s)) = ToSet(Made(Head(s).to, Head(s).what)) \cup InAll(Sent(Tail(s)))
           /\ NumAll(Sent(s)) = Len(Made(Head(s).to, Head(s).what)) + NumAll(Sent(Tail(s)))
<1> DEFINE I == Given
           W == Writes
           t == Tail(s)
           b == Sent(s)
           c == Sent(t)
           m == Made(Head(s).to, Head(s).what)
<1>1. /\ b \in Seq(Seq(W)) /\ Len(b) = Len(s)
      /\ \A n \in 1 .. Len(s) : b[n] = Made(s[n].to, s[n].what)
  BY SentType
<1>2. /\ t \in Seq(I) /\ Len(t) = Len(s) - 1 /\ Len(s) \in Nat \ {0} /\ Head(s) = s[1] /\ Head(s) \in I
      /\ \A n \in 1 .. Len(s) - 1 : t[n] = s[n + 1]
  BY TailElements
<1>3. /\ c \in Seq(Seq(W)) /\ Len(c) = Len(t)
      /\ \A n \in 1 .. Len(t) : c[n] = Made(t[n].to, t[n].what)
  <2> HIDE DEF t, c
  <2>1. QED
    BY <1>2, SentType DEF c
<1>4. Head(s).to \in Stages /\ Head(s).what \in InputsOf(Head(s).to)
  BY <1>2 DEF Given
<1>5. m \in Seq(W)
  BY <1>4, MadeType
<1> HIDE DEF b, c, m, t, W, I
<1>6. c = Tail(b) /\ m = Head(b) /\ b # <<>>
  <2>1. b # <<>>
    BY <1>1, <1>2
  <2>2. /\ Len(b) \in Nat \ {0} /\ b[1] = Head(b)
        /\ Tail(b) \in Seq(Seq(W)) /\ Len(Tail(b)) = Len(b) - 1
        /\ \A i \in 1 .. Len(b) - 1 : Tail(b)[i] = b[i + 1]
    BY ONLY <1>1, <2>1, TailElements
  <2>3. m = Head(b)
    <3>1. 1 \in 1 .. Len(s)
      BY <1>2
    <3>2. QED
      BY <1>1, <1>2, <2>2, <3>1 DEF m
  <2>4. ASSUME NEW n \in 1 .. Len(s) - 1 PROVE c[n] = Tail(b)[n]
    <3>1. n + 1 \in 1 .. Len(s) /\ n \in 1 .. Len(t)
      BY <1>2
    <3>2. c[n] = Made(t[n].to, t[n].what) /\ t[n] = s[n + 1]
      BY <1>2, <1>3, <3>1
    <3>3. Tail(b)[n] = b[n + 1] /\ b[n + 1] = Made(s[n + 1].to, s[n + 1].what)
      BY <1>1, <2>2, <3>1
    <3>4. QED
      BY <3>2, <3>3
  <2> DEFINE d == Tail(b)
  <2> HIDE DEF d
  <2>5. \A n \in 1 .. Len(s) - 1 : c[n] = d[n]
    BY <2>4 DEF d
  <2>6. c \in Seq(Seq(W)) /\ d \in Seq(Seq(W)) /\ Len(c) = Len(s) - 1 /\ Len(d) = Len(s) - 1
        /\ Len(s) - 1 \in Nat
    BY <1>1, <1>2, <1>3, <2>2 DEF d
  <2>7. c = d
    <3>1. Len(c) = Len(d) /\ \A n \in 1 .. Len(c) : c[n] = d[n]
      BY <2>5, <2>6
    <3>2. QED
      BY ONLY <2>6, <3>1, SameSequence
  <2>8. QED
    BY <2>1, <2>3, <2>7 DEF d
<1>7. InAll(b) = ToSet(Head(b)) \cup InAll(Tail(b)) /\ NumAll(b) = Len(Head(b)) + NumAll(Tail(b))
  BY ONLY <1>1, <1>6, BunchTail
<1>8. QED
  BY <1>2, <1>4, <1>6, <1>7 DEF b, c, m, t, I

\* The writes of a queue can be counted.
LEMMA NumsAreNat ==
    ASSUME NEW q \in Stages, NEW s \in Seq(InputsOf(q))
    PROVE  NumAll(Bunches(q, s)) \in Nat
BY BunchesType, BunchNat

-----------------------------------------------------------------------------
(* Queues, element by element *)

\* An input joins one of the queues.
LEMMA QueuesAppend ==
    ASSUME NEW qs, AreQueues(qs), NEW qt, DOMAIN qt = Stages, NEW q \in Stages, NEW x \in InputsOf(q),
           qt[q] = Append(qs[q], x), \A r \in Stages \ {q} : qt[r] = qs[r]
    PROVE  /\ AreQueues(qt)
           /\ InQueues(qt) = InQueues(qs) \cup ToSet(Made(q, x))
           /\ NumQueues(qt) = NumQueues(qs) + Len(Made(q, x))
           /\ NumQueues(qs) \in Nat
<1>1. AreQueues(qt)
  <2>1. qt[q] \in Seq(InputsOf(q))
    BY DEF AreQueues
  <2>2. QED
    BY <2>1 DEF AreQueues
<1>2. /\ InAll(Bunches(q, qt[q])) = InAll(Bunches(q, qs[q])) \cup ToSet(Made(q, x))
      /\ NumQueue(q, qt) = NumQueue(q, qs) + Len(Made(q, x))
  BY QueueAppend DEF AreQueues, NumQueue
<1>3. \A r \in Stages \ {q} : InAll(Bunches(r, qt[r])) = InAll(Bunches(r, qs[r])) /\ NumQueue(r, qt) = NumQueue(r, qs)
  BY DEF NumQueue
<1>4. InQueues(qt) = InQueues(qs) \cup ToSet(Made(q, x))
  BY ZenonT(60), <1>2, <1>3 DEF InQueues
<1>5. \A r \in Stages : NumQueue(r, qs) \in Nat
  BY NumsAreNat DEF AreQueues, NumQueue
<1>6. Len(Made(q, x)) \in Nat
  BY MadeType
<1>7. NumQueues(qt) = NumQueues(qs) + Len(Made(q, x)) /\ NumQueues(qs) \in Nat
  <2> DEFINE a(r) == NumQueue(r, qs)
             b(r) == NumQueue(r, qt)
             m == Len(Made(q, x))
  <2>1. /\ a("park_threads") \in Nat /\ a("p7_threads") \in Nat /\ a("delta_threads") \in Nat
        /\ a("plot_write") \in Nat /\ a("L_add") \in Nat /\ m \in Nat
    BY <1>5, <1>6, StageNames
  <2>2. \A r \in Stages : b(r) = IF r = q THEN a(r) + m ELSE a(r)
    BY <1>2, <1>3
  <2>3. q \in Stages /\ Stages = {"park_threads", "p7_threads", "delta_threads", "L_add", "plot_write"}
    BY StageNames
  <2> HIDE DEF a, b, m
  <2>4. /\ b("park_threads") = IF q = "park_threads" THEN a("park_threads") + m ELSE a("park_threads")
        /\ b("p7_threads") = IF q = "p7_threads" THEN a("p7_threads") + m ELSE a("p7_threads")
        /\ b("delta_threads") = IF q = "delta_threads" THEN a("delta_threads") + m ELSE a("delta_threads")
        /\ b("plot_write") = IF q = "plot_write" THEN a("plot_write") + m ELSE a("plot_write")
        /\ b("L_add") = IF q = "L_add" THEN a("L_add") + m ELSE a("L_add")
    BY ONLY <2>2, <2>3
  <2>5. b("park_threads") + b("p7_threads") + b("delta_threads") + b("plot_write") + b("L_add") =
            a("park_threads") + a("p7_threads") + a("delta_threads") + a("plot_write") + a("L_add") + m
    BY ONLY <2>1, <2>3, <2>4
  <2>6. QED
    BY <2>1, <2>5 DEF NumQueues, a, b, m
<1>8. QED
  BY <1>1, <1>4, <1>7

\* An input leaves one of the queues.
LEMMA QueuesTail ==
    ASSUME NEW qs, AreQueues(qs), NEW qt, DOMAIN qt = Stages, NEW q \in Stages, qs[q] # <<>>,
           qt[q] = Tail(qs[q]), \A r \in Stages \ {q} : qt[r] = qs[r]
    PROVE  /\ AreQueues(qt) /\ Head(qs[q]) \in InputsOf(q)
           /\ InQueues(qs) = InQueues(qt) \cup ToSet(Made(q, Head(qs[q])))
           /\ NumQueues(qs) = NumQueues(qt) + Len(Made(q, Head(qs[q])))
           /\ NumQueues(qt) \in Nat
<1> DEFINE x == Head(qs[q])
<1>1. /\ qt[q] \in Seq(InputsOf(q)) /\ x \in InputsOf(q)
      /\ InAll(Bunches(q, qs[q])) = ToSet(Made(q, x)) \cup InAll(Bunches(q, qt[q]))
      /\ NumQueue(q, qs) = Len(Made(q, x)) + NumQueue(q, qt)
  BY QueueTail DEF AreQueues, NumQueue
<1> HIDE DEF x
<1>2. AreQueues(qt)
  BY <1>1 DEF AreQueues
<1>3. \A r \in Stages \ {q} : InAll(Bunches(r, qt[r])) = InAll(Bunches(r, qs[r])) /\ NumQueue(r, qt) = NumQueue(r, qs)
  BY DEF NumQueue
<1>4. InQueues(qs) = InQueues(qt) \cup ToSet(Made(q, x))
  BY ZenonT(60), <1>1, <1>3 DEF InQueues
<1>5. \A r \in Stages : NumQueue(r, qt) \in Nat
  BY <1>2, NumsAreNat DEF AreQueues, NumQueue
<1>6. Len(Made(q, x)) \in Nat
  BY <1>1, MadeType
<1>7. NumQueues(qs) = NumQueues(qt) + Len(Made(q, x)) /\ NumQueues(qt) \in Nat
  <2> DEFINE a(r) == NumQueue(r, qt)
             b(r) == NumQueue(r, qs)
             m == Len(Made(q, x))
  <2>1. /\ a("park_threads") \in Nat /\ a("p7_threads") \in Nat /\ a("delta_threads") \in Nat
        /\ a("plot_write") \in Nat /\ a("L_add") \in Nat /\ m \in Nat
    BY <1>5, <1>6, StageNames
  <2>2. \A r \in Stages : b(r) = IF r = q THEN a(r) + m ELSE a(r)
    BY <1>1, <1>3, <1>5, <1>6
  <2>3. q \in Stages /\ Stages = {"park_threads", "p7_threads", "delta_threads", "L_add", "plot_write"}
    BY StageNames
  <2> HIDE DEF a, b, m
  <2>4. /\ b("park_threads") = IF q = "park_threads" THEN a("park_threads") + m ELSE a("park_threads")
        /\ b("p7_threads") = IF q = "p7_threads" THEN a("p7_threads") + m ELSE a("p7_threads")
        /\ b("delta_threads") = IF q = "delta_threads" THEN a("delta_threads") + m ELSE a("delta_threads")
        /\ b("plot_write") = IF q = "plot_write" THEN a("plot_write") + m ELSE a("plot_write")
        /\ b("L_add") = IF q = "L_add" THEN a("L_add") + m ELSE a("L_add")
    BY ONLY <2>2, <2>3
  <2>5. b("park_threads") + b("p7_threads") + b("delta_threads") + b("plot_write") + b("L_add") =
            a("park_threads") + a("p7_threads") + a("delta_threads") + a("plot_write") + a("L_add") + m
    BY ONLY <2>1, <2>3, <2>4
  <2>6. QED
    BY <2>1, <2>5 DEF NumQueues, a, b, m
<1>8. QED
  BY <1>1, <1>2, <1>4, <1>7 DEF x

\* Empty queues hold no writes.
LEMMA QueuesEmpty ==
    ASSUME NEW qs, \A q \in Stages : qs[q] = <<>>
    PROVE  InQueues(qs) = {} /\ NumQueues(qs) = 0
<1>1. ASSUME NEW q \in Stages PROVE Bunches(q, qs[q]) = <<>>
  <2>1. Len(<<>>) = 0 /\ 1 .. 0 = {}
    OBVIOUS
  <2>2. Bunches(q, <<>>) = <<>>
    BY <2>1 DEF Bunches
  <2>3. QED
    BY <2>2
<1>2. InQueues(qs) = {}
  BY <1>1, BunchEmpty DEF InQueues
<1>3. \A q \in Stages : NumQueue(q, qs) = 0
  BY <1>1, BunchEmpty DEF NumQueue
<1>4. QED
  BY <1>2, <1>3, StageNames DEF NumQueues

\* Nothing to give, no writes
LEMMA SentEmpty == InAll(Sent(<<>>)) = {} /\ NumAll(Sent(<<>>)) = 0
<1>1. Len(<<>>) = 0 /\ 1 .. 0 = {}
  OBVIOUS
<1>2. Sent(<<>>) = <<>>
  BY <1>1 DEF Sent
<1>3. QED
  BY <1>2, BunchEmpty

-----------------------------------------------------------------------------
(* Counting the entries of parks *)

\* Parks have a number of points.
LEMMA PointsNat ==
    ASSUME NEW parks \in Seq(Park)
    PROVE  NumPoints(parks) \in Nat
<1>1. ASSUME NEW n \in 1 .. Len(parks) PROVE Len(parks[n].points) \in Nat
  <2>1. parks[n] \in Park
    OBVIOUS
  <2>2. parks[n].points \in Seq(Nat)
    BY <2>1 DEF Park
  <2>3. QED
    BY <2>2
<1>2. Len(parks) \in Nat
  OBVIOUS
<1> DEFINE f == [n \in 1 .. Len(parks) |-> Len(parks[n].points)]
<1>3. \A n \in 1 .. Len(parks) : f[n] \in Nat
  BY <1>1
<1> HIDE DEF f
<1>4. SumTo(f, Len(parks)) \in Nat
  BY <1>2, <1>3, SumNat
<1>5. QED
  BY <1>4 DEF NumPoints, f

\* So has each input with parks.
LEMMA PointsOfType ==
    ASSUME NEW s \in Seq(Seq(Park))
    PROVE  \A n \in 1 .. Len(s) : PointsOf(s)[n] = NumPoints(s[n]) /\ PointsOf(s)[n] \in Nat
<1>1. \A n \in 1 .. Len(s) : s[n] \in Seq(Park)
  OBVIOUS
<1>2. QED
  BY <1>1, PointsNat DEF PointsOf

\* One input with parks more
LEMMA PointsAppend ==
    ASSUME NEW s \in Seq(Seq(Park)), NEW x \in Seq(Park)
    PROVE  /\ AllPoints(Append(s, x)) = AllPoints(s) + NumPoints(x)
           /\ AllPoints(s) \in Nat /\ NumPoints(x) \in Nat
<1> DEFINE P == Seq(Park)
           t == Append(s, x)
           n == Len(s)
<1>1. t \in Seq(P) /\ Len(t) = n + 1 /\ n \in Nat /\ t[n + 1] = x /\ \A j \in 1 .. n : t[j] = s[j]
  OBVIOUS
<1> HIDE DEF t
<1>2. /\ \A j \in 1 .. n + 1 : PointsOf(t)[j] = NumPoints(t[j]) /\ PointsOf(t)[j] \in Nat
  BY <1>1, PointsOfType
<1>3. /\ \A j \in 1 .. n : PointsOf(s)[j] = NumPoints(s[j]) /\ PointsOf(s)[j] \in Nat
  BY PointsOfType
<1> HIDE DEF n
<1>4. ASSUME NEW j \in 1 .. n PROVE PointsOf(t)[j] = PointsOf(s)[j] /\ PointsOf(s)[j] \in Int
  <2>1. j \in 1 .. n + 1
    BY <1>1
  <2>2. QED
    BY <1>1, <1>2, <1>3, <2>1
<1>5. SumTo(PointsOf(t), n) = SumTo(PointsOf(s), n) /\ SumTo(PointsOf(s), n) \in Nat
  BY <1>1, <1>3, <1>4, SumSame, SumNat
<1>6. SumTo(PointsOf(t), n + 1) = SumTo(PointsOf(t), n) + NumPoints(x)
  <2>1. n + 1 \in 1 .. n + 1 /\ (n + 1) - 1 = n /\ n + 1 \in Nat
    BY <1>1
  <2>2. \A j \in 1 .. n + 1 : PointsOf(t)[j] \in Int
    BY <1>2
  <2>3. SumTo(PointsOf(t), n + 1) = SumTo(PointsOf(t), n) + PointsOf(t)[n + 1]
    BY <2>1, <2>2, SumSteps
  <2>4. QED
    BY <1>1, <1>2, <2>1, <2>3
<1>7. QED
  BY <1>1, <1>5, <1>6, PointsNat DEF AllPoints, t, n

\* One input with parks less
LEMMA PointsTail ==
    ASSUME NEW s \in Seq(Seq(Park)), s # <<>>
    PROVE  /\ AllPoints(s) = NumPoints(Head(s)) + AllPoints(Tail(s))
           /\ AllPoints(Tail(s)) \in Nat /\ NumPoints(Head(s)) \in Nat
<1> DEFINE P == Seq(Park)
           t == Tail(s)
           n == Len(t)
<1>1. /\ t \in Seq(P) /\ Len(s) = n + 1 /\ n \in Nat /\ s[1] = Head(s) /\ Head(s) \in P
      /\ \A j \in 1 .. n : t[j] = s[j + 1]
  OBVIOUS
<1> HIDE DEF t
<1>2. /\ \A j \in 1 .. n : PointsOf(t)[j] = NumPoints(t[j]) /\ PointsOf(t)[j] \in Nat
  BY <1>1, PointsOfType
<1>3. /\ \A j \in 1 .. n + 1 : PointsOf(s)[j] = NumPoints(s[j]) /\ PointsOf(s)[j] \in Nat
  BY <1>1, PointsOfType
<1> HIDE DEF n
<1>4. ASSUME NEW j \in 1 .. n PROVE PointsOf(t)[j] = PointsOf(s)[j + 1]
  <2>1. j + 1 \in 1 .. n + 1
    BY <1>1
  <2>2. QED
    BY <1>1, <1>2, <1>3, <2>1
<1>5. SumTo(PointsOf(s), n + 1) = PointsOf(s)[1] + SumTo(PointsOf(t), n)
  <2>1. \A j \in 1 .. n + 1 : PointsOf(s)[j] \in Int
    BY <1>3
  <2>2. QED
    BY <1>1, <1>4, <2>1, SumFirst
<1>6. PointsOf(s)[1] = NumPoints(Head(s)) /\ SumTo(PointsOf(t), n) \in Nat /\ NumPoints(Head(s)) \in Nat
  BY <1>1, <1>2, <1>3, SumNat, PointsNat
<1>7. QED
  BY <1>1, <1>5, <1>6 DEF AllPoints, t, n

PointsIn(x) == IF x.to = "park_threads" THEN NumPoints(x.what) ELSE 0

\* The points in what is to be given
LEMMA ToParksType ==
    ASSUME NEW s \in Seq(Given)
    PROVE  \A n \in 1 .. Len(s) : ToParks(s)[n] = PointsIn(s[n]) /\ ToParks(s)[n] \in Nat
<1>1. ASSUME NEW x \in Given PROVE PointsIn(x) \in Nat
  <2>1. x.to \in Stages /\ x.what \in InputsOf(x.to)
    BY DEF Given
  <2>2. CASE x.to = "park_threads"
    <3>1. x.what \in Seq(Park)
      BY <2>1, <2>2 DEF InputsOf
    <3>2. QED
      BY <2>2, <3>1, PointsNat DEF PointsIn
  <2>3. QED
    BY <2>2 DEF PointsIn
<1>2. \A n \in 1 .. Len(s) : s[n] \in Given
  OBVIOUS
<1>3. QED
  BY <1>1, <1>2 DEF ToParks, PointsIn

\* Less to give, fewer points
LEMMA ToParksTail ==
    ASSUME NEW s \in Seq(Given), s # <<>>
    PROVE  /\ AllToParks(s) = PointsIn(Head(s)) + AllToParks(Tail(s))
           /\ AllToParks(Tail(s)) \in Nat /\ PointsIn(Head(s)) \in Nat
<1> DEFINE P == Given
           t == Tail(s)
           n == Len(t)
<1>1. /\ t \in Seq(P) /\ Len(s) = n + 1 /\ n \in Nat /\ s[1] = Head(s) /\ Head(s) \in P
      /\ \A j \in 1 .. n : t[j] = s[j + 1]
  OBVIOUS
<1> HIDE DEF t
<1>2. /\ \A j \in 1 .. n : ToParks(t)[j] = PointsIn(t[j]) /\ ToParks(t)[j] \in Nat
  BY <1>1, ToParksType
<1>3. /\ \A j \in 1 .. n + 1 : ToParks(s)[j] = PointsIn(s[j]) /\ ToParks(s)[j] \in Nat
  BY <1>1, ToParksType
<1> HIDE DEF n
<1>4. ASSUME NEW j \in 1 .. n PROVE ToParks(t)[j] = ToParks(s)[j + 1]
  <2>1. j + 1 \in 1 .. n + 1
    BY <1>1
  <2>2. QED
    BY <1>1, <1>2, <1>3, <2>1
<1>5. SumTo(ToParks(s), n + 1) = ToParks(s)[1] + SumTo(ToParks(t), n)
  <2>1. \A j \in 1 .. n + 1 : ToParks(s)[j] \in Int
    BY <1>3
  <2>2. QED
    BY <1>1, <1>4, <2>1, SumFirst
<1>6. ToParks(s)[1] = PointsIn(Head(s)) /\ SumTo(ToParks(t), n) \in Nat /\ PointsIn(Head(s)) \in Nat
  <2>1. 1 \in 1 .. n + 1
    BY <1>1
  <2>2. ToParks(s)[1] = PointsIn(s[1]) /\ ToParks(s)[1] \in Nat
    BY <1>3, <2>1
  <2>3. SumTo(ToParks(t), n) \in Nat
    BY <1>1, <1>2, SumNat
  <2>4. QED
    BY <1>1, <2>2, <2>3
<1>7. QED
  BY <1>1, <1>5, <1>6 DEF AllToParks, t, n

-----------------------------------------------------------------------------
(* Entries on their way to the second DiskSort *)

\* One input more for the second DiskSort
LEMMA AddsAppend ==
    ASSUME NEW V, NEW s \in Seq(V), NEW x \in V
    PROVE  AddsIn(Append(s, x)) = AddsIn(s) \cup Added(x)
<1> DEFINE t == Append(s, x)
           n == Len(s)
<1>1. t \in Seq(V) /\ Len(t) = n + 1 /\ n \in Nat /\ t[n + 1] = x /\ \A j \in 1 .. n : t[j] = s[j]
  OBVIOUS
<1> HIDE DEF t
<1>2. (\A j \in 1 .. n + 1 : j = n + 1 \/ j \in 1 .. n) /\ n + 1 \in 1 .. n + 1 /\ \A j \in 1 .. n : j \in 1 .. n + 1
  BY <1>1
<1>3. AddsIn(t) = AddsIn(s) \cup Added(x)
  BY <1>1, <1>2 DEF AddsIn
<1>4. QED
  BY <1>3 DEF t

\* One input less for it
LEMMA AddsTail ==
    ASSUME NEW V, NEW s \in Seq(V), s # <<>>
    PROVE  /\ AddsIn(s) = Added(Head(s)) \cup AddsIn(Tail(s))
           /\ AddsSent(s) = Adds(Head(s).to, Head(s).what) \cup AddsSent(Tail(s))
<1> DEFINE t == Tail(s)
           n == Len(t)
<1>1. /\ t \in Seq(V) /\ Len(s) = n + 1 /\ n \in Nat /\ s[1] = Head(s)
      /\ \A j \in 1 .. n : t[j] = s[j + 1]
  OBVIOUS
<1> HIDE DEF t
<1>2. ASSUME NEW j \in 1 .. n + 1 PROVE j = 1 \/ (j - 1 \in 1 .. n /\ s[j] = t[j - 1])
  <2>1. j = 1 \/ (j - 1 \in 1 .. n /\ (j - 1) + 1 = j)
    BY <1>1
  <2>2. QED
    BY <1>1, <2>1
<1>3. 1 \in 1 .. n + 1 /\ \A j \in 1 .. n : j + 1 \in 1 .. n + 1
  BY <1>1
<1>4. AddsIn(s) = Added(Head(s)) \cup AddsIn(t)
  BY ZenonT(60), <1>1, <1>2, <1>3 DEF AddsIn
<1>5. AddsSent(s) = Adds(Head(s).to, Head(s).what) \cup AddsSent(t)
  BY ZenonT(60), <1>1, <1>2, <1>3 DEF AddsSent
<1>6. QED
  BY <1>4, <1>5 DEF t

\* Nothing to add
LEMMA AddsEmpty == AddsIn(<<>>) = {} /\ AddsSent(<<>>) = {}
<1>1. Len(<<>>) = 0 /\ 1 .. 0 = {}
  OBVIOUS
<1>2. QED
  BY <1>1 DEF AddsIn, AddsSent

-----------------------------------------------------------------------------
(* The steps of the pools and threads *)

\* A step of a pool or of a thread takes something from one place to the next.
Pipe(M, k, p, A) == Types /\ Accounted(M, k) /\ Counted(p) /\ Sorted(A)

\* What the steps of the pools and threads leave alone
loop == <<input, stage, given, park, index, park_data, park_deltas, prev_y, num_C1_entries, C2,
          final_file_writer_1, final_file_writer_3, pointers>>

\* The reading thread gives something to a pool: nothing is lost or made.
LEMMA SendStep ==
    ASSUME NEW M, NEW k, NEW p, NEW A, Pipe(M, k, p, A), Send
    PROVE  Pipe(M, k, p, A)' /\ UNCHANGED loop
<1> DEFINE q == Head(sends).to
           x == Head(sends).what
<1>1. /\ sends # <<>> /\ queue' = [queue EXCEPT ![q] = Append(@, x)] /\ sends' = Tail(sends)
      /\ UNCHANGED <<input, stage, phase3, L_sort, phase4, plot, pointers>>
  BY DEF Send
<1>2. Types /\ Accounted(M, k) /\ Counted(p) /\ Sorted(A) /\ AreQueues(queue) /\ sends \in Seq(Given)
  BY DEF Pipe, Types
<1>3. /\ q \in Stages /\ x \in InputsOf(q) /\ sends' \in Seq(Given)
      /\ InAll(Sent(sends)) = ToSet(Made(q, x)) \cup InAll(Sent(sends'))
      /\ NumAll(Sent(sends)) = Len(Made(q, x)) + NumAll(Sent(sends'))
  BY <1>1, <1>2, SentTail
<1>4. DOMAIN queue' = Stages /\ queue'[q] = Append(queue[q], x) /\ \A r \in Stages \ {q} : queue'[r] = queue[r]
  <2> HIDE DEF x
  <2>1. QED
    BY <1>1, <1>2, <1>3 DEF AreQueues
<1> HIDE DEF q, x
<1>5. /\ AreQueues(queue')
      /\ InQueues(queue') = InQueues(queue) \cup ToSet(Made(q, x))
      /\ NumQueues(queue') = NumQueues(queue) + Len(Made(q, x))
      /\ NumQueues(queue) \in Nat
  BY <1>2, <1>3, <1>4, QueuesAppend
<1>6. Len(Made(q, x)) \in Nat /\ NumAll(Sent(sends')) \in Nat /\ NumAll(Sent(sends)) \in Nat
  BY <1>2, <1>3, MadeType, SentType, BunchNat
<1>7. UNCHANGED loop /\ UNCHANGED <<file, num_writes, L_sort, num_written_final>>
  BY <1>1 DEF phase3, phase4, plot, loop
<1>8. Accounted(M, k)'
  <2>1. InPipe' = InPipe
    BY <1>3, <1>5 DEF InPipe
  <2>2. NumPipe' = NumPipe
    BY <1>3, <1>5, <1>6 DEF NumPipe
  <2>3. QED
    BY <1>2, <1>7, <2>1, <2>2 DEF Accounted
<1>9. Counted(p)'
  <2>1. /\ AllToParks(sends) = PointsIn(Head(sends)) + AllToParks(sends')
        /\ AllToParks(sends') \in Nat /\ PointsIn(Head(sends)) \in Nat
    BY <1>1, <1>2, ToParksTail
  <2>2. CASE q = "park_threads"
    <3>1. x \in Seq(Park) /\ queue["park_threads"] \in Seq(Seq(Park))
      BY <1>2, <1>3, <2>2, StageNames DEF AreQueues, InputsOf
    <3>2. /\ AllPoints(queue'["park_threads"]) = AllPoints(queue["park_threads"]) + NumPoints(x)
          /\ AllPoints(queue["park_threads"]) \in Nat /\ NumPoints(x) \in Nat
      BY <1>4, <2>2, <3>1, PointsAppend
    <3>3. PointsIn(Head(sends)) = NumPoints(x)
      BY <2>2 DEF PointsIn, q, x
    <3>4. num_written_final \in Nat
      BY <1>2 DEF Types
    <3>5. QED
      BY <1>2, <1>7, <2>1, <3>2, <3>3, <3>4 DEF Counted
  <2>3. CASE q # "park_threads"
    <3>1. PointsIn(Head(sends)) = 0
      BY <2>3 DEF PointsIn, q
    <3>2. queue'["park_threads"] = queue["park_threads"]
      BY <1>4, <2>3, StageNames
    <3>3. AllToParks(sends') = AllToParks(sends)
      BY <2>1, <3>1
    <3>4. QED
      BY <1>2, <1>7, <3>2, <3>3 DEF Counted
  <2>4. QED
    BY <2>2, <2>3
<1>10. Sorted(A)'
  <2>1. AddsSent(sends) = Adds(q, x) \cup AddsSent(sends')
    BY <1>1, <1>2, AddsTail DEF q, x
  <2>2. CASE q = "L_add"
    <3>1. queue["L_add"] \in Seq(InputsOf("L_add"))
      BY <1>2, StageNames DEF AreQueues
    <3>2. AddsIn(queue'["L_add"]) = AddsIn(queue["L_add"]) \cup Added(x)
      <4>1. x \in InputsOf("L_add") /\ queue'["L_add"] = Append(queue["L_add"], x)
        BY <1>3, <1>4, <2>2
      <4> DEFINE I == InputsOf("L_add")
                 s == queue["L_add"]
      <4>2. s \in Seq(I) /\ x \in I
        BY <3>1, <4>1
      <4> HIDE DEF I, s
      <4>3. AddsIn(Append(s, x)) = AddsIn(s) \cup Added(x)
        BY ONLY <4>2, AddsAppend
      <4>4. QED
        BY <4>1, <4>3 DEF s
    <3>3. Adds(q, x) = Added(x)
      BY <2>2 DEF Adds
    <3>4. QED
      BY <1>2, <1>7, <2>1, <3>2, <3>3 DEF Sorted, InAdds
  <2>3. CASE q # "L_add"
    <3>1. Adds(q, x) = {} /\ queue'["L_add"] = queue["L_add"]
      BY <1>4, <2>3, StageNames DEF Adds
    <3>2. QED
      BY <1>2, <1>7, <2>1, <3>1 DEF Sorted, InAdds
  <2>4. QED
    BY <2>2, <2>3
<1>11. Types'
  <2>1. ASSUME ~Phase3
        PROVE  /\ queue'["park_threads"] = <<>> /\ queue'["L_add"] = <<>>
               /\ \A n \in 1 .. Len(sends') : sends'[n].to \notin {"park_threads", "L_add"}
    <3>1. /\ queue["park_threads"] = <<>> /\ queue["L_add"] = <<>>
          /\ \A n \in 1 .. Len(sends) : sends[n].to \notin {"park_threads", "L_add"}
      BY <1>2, <2>1 DEF Types
    <3>2. /\ Len(sends) \in Nat \ {0} /\ Len(sends') = Len(sends) - 1 /\ sends[1] = Head(sends)
          /\ \A n \in 1 .. Len(sends) - 1 : sends'[n] = sends[n + 1]
      BY <1>1, <1>2, TailElements
    <3>3. \A n \in 1 .. Len(sends) - 1 : n + 1 \in 1 .. Len(sends)
      BY <3>2
    <3>4. 1 \in 1 .. Len(sends)
      BY <3>2
    <3>5. q \notin {"park_threads", "L_add"}
      BY <3>1, <3>2, <3>4 DEF q
    <3>6. queue'["park_threads"] = <<>> /\ queue'["L_add"] = <<>>
      BY <1>4, <3>1, <3>5, StageNames
    <3>7. \A n \in 1 .. Len(sends') : sends'[n].to \notin {"park_threads", "L_add"}
      BY <3>1, <3>2, <3>3
    <3>8. QED
      BY <3>6, <3>7
  <2>2. stage # "done"
    BY <1>1, <1>2 DEF Types
  <2>3. UNCHANGED <<input, stage, num_written_final>>
    BY <1>7 DEF loop
  <2>4. Phase3' = Phase3
    BY <2>3 DEF Phase3
  <2>5. QED
    BY <1>2, <1>3, <1>5, <2>1, <2>2, <2>3, <2>4 DEF Types
<1>12. QED
  BY <1>7, <1>8, <1>9, <1>10, <1>11 DEF Pipe

\* A pool gives a packed park to the writing thread.
LEMMA DeliverStep ==
    ASSUME NEW M, NEW k, NEW p, NEW A, Pipe(M, k, p, A), NEW q \in Pools, Deliver(q)
    PROVE  Pipe(M, k, p, A)' /\ UNCHANGED loop
<1> DEFINE x == Head(queue[q])
           w == Made(q, x)
           mid == [queue EXCEPT ![q] = Tail(@)]
<1>1. /\ queue[q] # <<>>
      /\ queue' = [queue EXCEPT !["plot_write"] = Append(@, Packed(q, x)), ![q] = Tail(@)]
      /\ num_written_final' = num_written_final + IF q = "park_threads" THEN NumPoints(x) ELSE 0
      /\ UNCHANGED <<input, stage, sends, given, park, L_sort, phase4, plot, pointers>>
  BY DEF Deliver
<1>2. Types /\ Accounted(M, k) /\ Counted(p) /\ Sorted(A) /\ AreQueues(queue) /\ sends \in Seq(Given)
  BY DEF Pipe, Types
<1>3. q \in Stages /\ q # "plot_write" /\ "plot_write" \in Stages /\ q # "L_add" /\ w = Packed(q, x)
  BY StageNames DEF Made
<1>4. DOMAIN mid = Stages /\ mid[q] = Tail(queue[q]) /\ \A r \in Stages \ {q} : mid[r] = queue[r]
  BY <1>2, <1>3 DEF AreQueues
<1> HIDE DEF mid
<1>5. /\ AreQueues(mid) /\ x \in InputsOf(q)
      /\ InQueues(queue) = InQueues(mid) \cup ToSet(w)
      /\ NumQueues(queue) = NumQueues(mid) + Len(w)
      /\ NumQueues(mid) \in Nat
  BY <1>1, <1>2, <1>3, <1>4, QueuesTail
<1>6. w \in InputsOf("plot_write") /\ Made("plot_write", w) = w /\ Len(w) \in Nat
  <2>1. w \in Seq(Writes)
    BY <1>3, <1>5, MadeType
  <2> HIDE DEF w
  <2>2. QED
    BY <2>1 DEF InputsOf, Made, Pools
<1>7. /\ DOMAIN queue' = Stages /\ queue'["plot_write"] = Append(mid["plot_write"], w)
      /\ \A r \in Stages \ {"plot_write"} : queue'[r] = mid[r]
  <2> HIDE DEF x
  <2>1. DOMAIN queue = Stages
    BY <1>2 DEF AreQueues
  <2>2. /\ DOMAIN queue' = Stages /\ queue'["plot_write"] = Append(queue["plot_write"], Packed(q, x))
        /\ queue'[q] = Tail(queue[q]) /\ \A r \in Stages \ {"plot_write", q} : queue'[r] = queue[r]
    BY <1>1, <1>3, <2>1
  <2>3. QED
    BY <1>3, <1>4, <2>2
<1> HIDE DEF w
<1>8. /\ AreQueues(queue')
      /\ InQueues(queue') = InQueues(mid) \cup ToSet(w)
      /\ NumQueues(queue') = NumQueues(mid) + Len(w)
  BY <1>3, <1>5, <1>6, <1>7, QueuesAppend
<1>9. UNCHANGED loop /\ UNCHANGED <<file, num_writes, L_sort, sends>>
  BY <1>1 DEF phase4, plot, loop
<1>10. Accounted(M, k)'
  <2>1. InPipe' = InPipe
    BY <1>5, <1>8, <1>9 DEF InPipe
  <2>2. NumPipe' = NumPipe
    BY <1>5, <1>8, <1>9 DEF NumPipe
  <2>3. QED
    BY <1>2, <1>9, <2>1, <2>2 DEF Accounted
<1>11. /\ q # "park_threads" => queue'["park_threads"] = queue["park_threads"]
       /\ q = "park_threads" => queue'["park_threads"] = Tail(queue["park_threads"])
       /\ queue'["L_add"] = queue["L_add"]
  BY <1>3, <1>4, <1>7, StageNames
<1>12. num_written_final \in Nat /\ num_written_final' \in Nat /\ Counted(p)'
  <2>0. num_written_final \in Nat
    BY <1>2 DEF Types
  <2>1. CASE q = "park_threads"
    <3>1. queue["park_threads"] \in Seq(Seq(Park)) /\ queue["park_threads"] # <<>>
      BY <1>1, <1>2, <2>1, StageNames DEF AreQueues, InputsOf
    <3>2. /\ AllPoints(queue["park_threads"]) = NumPoints(x) + AllPoints(queue'["park_threads"])
          /\ AllPoints(queue'["park_threads"]) \in Nat /\ NumPoints(x) \in Nat
      BY <1>11, <2>1, <3>1, PointsTail
    <3>3. num_written_final' = num_written_final + NumPoints(x)
      BY <1>1, <2>1
    <3>4. AllToParks(sends) \in Nat
      <4>1. \A n \in 1 .. Len(sends) : ToParks(sends)[n] \in Nat
        BY <1>2, ToParksType
      <4>2. Len(sends) \in Nat
        BY <1>2
      <4>3. QED
        BY <4>1, <4>2, SumNat DEF AllToParks
    <3> HIDE DEF x
    <3>5. QED
      BY <1>2, <1>9, <2>0, <3>2, <3>3, <3>4 DEF Counted
  <2>2. CASE q # "park_threads"
    <3>1. num_written_final' = num_written_final
      BY <1>1, <2>0, <2>2
    <3>2. QED
      BY <1>2, <1>9, <1>11, <2>0, <2>2, <3>1 DEF Counted
  <2>3. QED
    BY <2>1, <2>2
<1>13. Sorted(A)'
  BY <1>2, <1>9, <1>11 DEF Sorted, InAdds
<1>14. Types'
  <2>1. stage # "done"
    BY <1>1, <1>2, <1>3 DEF Types
  <2>2. UNCHANGED <<input, stage>>
    BY <1>9 DEF loop
  <2>3. Phase3' = Phase3
    BY <2>2 DEF Phase3
  <2>4. ~Phase3 => q # "park_threads"
    BY <1>1, <1>2 DEF Types
  <2>5. ~Phase3 => /\ queue'["park_threads"] = <<>> /\ queue'["L_add"] = <<>>
                   /\ \A n \in 1 .. Len(sends) : sends[n].to \notin {"park_threads", "L_add"}
    BY <1>2, <1>11, <2>4 DEF Types
  <2>6. QED
    BY <1>2, <1>8, <1>9, <1>12, <2>1, <2>2, <2>3, <2>5 DEF Types
<1>15. QED
  BY <1>9, <1>10, <1>12, <1>13, <1>14 DEF Pipe

\* The writing thread writes.
LEMMA PlotWriteStep ==
    ASSUME NEW M, NEW k, NEW p, NEW A, Pipe(M, k, p, A), PlotWrite
    PROVE  Pipe(M, k, p, A)' /\ UNCHANGED loop
<1> DEFINE q == "plot_write"
           x == Head(queue[q])
<1>1. /\ queue[q] # <<>> /\ file' = file \cup ToSet(x) /\ num_writes' = num_writes + Len(x)
      /\ queue' = [queue EXCEPT ![q] = Tail(@)]
      /\ UNCHANGED <<input, stage, sends, phase3, L_sort, phase4, pointers>>
  BY DEF PlotWrite, Put
<1>2. Types /\ Accounted(M, k) /\ Counted(p) /\ Sorted(A) /\ AreQueues(queue) /\ sends \in Seq(Given)
  BY DEF Pipe, Types
<1>3. q \in Stages
  BY StageNames
<1>4. DOMAIN queue' = Stages /\ queue'[q] = Tail(queue[q]) /\ \A r \in Stages \ {q} : queue'[r] = queue[r]
  BY <1>1, <1>2, <1>3 DEF AreQueues
<1>5. /\ AreQueues(queue') /\ x \in InputsOf(q)
      /\ InQueues(queue) = InQueues(queue') \cup ToSet(Made(q, x))
      /\ NumQueues(queue) = NumQueues(queue') + Len(Made(q, x))
      /\ NumQueues(queue') \in Nat
  BY ZenonT(60), <1>1, <1>2, <1>3, <1>4, QueuesTail
<1>6. x \in Seq(Writes) /\ Made(q, x) = x
  <2> HIDE DEF x
  <2>1. QED
    BY <1>5 DEF InputsOf, Made, Pools
<1> HIDE DEF x
<1>7. IsFiniteSet(ToSet(x)) /\ Cardinality(ToSet(x)) \in Nat /\ Cardinality(ToSet(x)) <= Len(x) /\ Len(x) \in Nat
  BY <1>6, SequenceSize
<1>8. UNCHANGED loop /\ UNCHANGED <<L_sort, sends, num_written_final>>
  BY <1>1 DEF phase3, phase4, loop
<1>9. Accounted(M, k)'
  <2>1. InPipe = InPipe' \cup ToSet(x)
    BY <1>5, <1>6, <1>8 DEF InPipe
  <2>2. NumPipe = NumPipe' + Len(x)
    <3>1. NumAll(Sent(sends)) \in Nat
      BY <1>2, SentType, BunchNat
    <3>2. QED
      BY <1>5, <1>6, <1>7, <1>8, <3>1 DEF NumPipe
  <2>3. NumPipe' \in Nat
    <3>1. NumAll(Sent(sends)) \in Nat
      BY <1>2, SentType, BunchNat
    <3>2. QED
      BY <1>5, <1>8, <3>1 DEF NumPipe
  <2>4. IsFiniteSet(file) /\ Cardinality(file) <= num_writes /\ num_writes \in Nat /\ Cardinality(file) \in Nat
    BY <1>2, FS_CardinalityType DEF Accounted
  <2>5. IsFiniteSet(file') /\ Cardinality(file') <= Cardinality(file) + Cardinality(ToSet(x)) /\ Cardinality(file') \in Nat
    <3>1. /\ IsFiniteSet(file \cup ToSet(x))
          /\ Cardinality(file \cup ToSet(x)) =
                Cardinality(file) + Cardinality(ToSet(x)) - Cardinality(file \cap ToSet(x))
      BY <1>7, <2>4, FS_Union
    <3>2. Cardinality(file \cap ToSet(x)) \in Nat
      BY <2>4, FS_Intersection, FS_CardinalityType
    <3>3. Cardinality(file \cup ToSet(x)) \in Nat
      BY <3>1, FS_CardinalityType
    <3>4. QED
      BY <1>1, <1>7, <2>4, <3>1, <3>2, <3>3
  <2>6. Cardinality(file') <= num_writes' /\ num_writes' \in Nat
    BY <1>1, <1>7, <2>4, <2>5
  <2>7. file' \cup InPipe' = file \cup InPipe
    BY <1>1, <2>1
  <2>8. num_writes' + NumPipe' = num_writes + NumPipe
    BY <1>1, <1>7, <2>2, <2>3, <2>4
  <2>9. QED
    BY <1>2, <2>5, <2>6, <2>7, <2>8 DEF Accounted
<1>10. queue'["park_threads"] = queue["park_threads"] /\ queue'["L_add"] = queue["L_add"]
  BY <1>4, StageNames
<1>11. Counted(p)' /\ Sorted(A)'
  BY <1>2, <1>8, <1>10 DEF Counted, Sorted, InAdds
<1>12. Types'
  <2>1. stage # "done"
    BY <1>1, <1>2, <1>3 DEF Types
  <2>2. UNCHANGED <<input, stage>>
    BY <1>8 DEF loop
  <2>3. Phase3' = Phase3
    BY <2>2 DEF Phase3
  <2>4. QED
    BY <1>2, <1>5, <1>8, <1>10, <2>1, <2>2, <2>3 DEF Types
<1>13. QED
  BY <1>8, <1>9, <1>11, <1>12 DEF Pipe

\* L_add fills the second DiskSort.
LEMMA AddStep ==
    ASSUME NEW M, NEW k, NEW p, NEW A, Pipe(M, k, p, A), Add
    PROVE  Pipe(M, k, p, A)' /\ UNCHANGED loop
<1> DEFINE q == "L_add"
           x == Head(queue[q])
<1>1. /\ queue[q] # <<>> /\ L_sort' = L_sort \cup Added(x)
      /\ queue' = [queue EXCEPT ![q] = Tail(@)]
      /\ UNCHANGED <<input, stage, sends, phase3, phase4, plot, pointers>>
  BY DEF Add, Added, Fit
<1>2. Types /\ Accounted(M, k) /\ Counted(p) /\ Sorted(A) /\ AreQueues(queue) /\ sends \in Seq(Given)
  BY DEF Pipe, Types
<1>3. q \in Stages
  BY StageNames
<1>4. DOMAIN queue' = Stages /\ queue'[q] = Tail(queue[q]) /\ \A r \in Stages \ {q} : queue'[r] = queue[r]
  BY <1>1, <1>2, <1>3 DEF AreQueues
<1>5. /\ AreQueues(queue') /\ x \in InputsOf(q)
      /\ InQueues(queue) = InQueues(queue') \cup ToSet(Made(q, x))
      /\ NumQueues(queue) = NumQueues(queue') + Len(Made(q, x))
      /\ NumQueues(queue') \in Nat
  BY ZenonT(60), <1>1, <1>2, <1>3, <1>4, QueuesTail
<1>6. Made(q, x) = <<>> /\ ToSet(<<>>) = {} /\ Len(<<>>) = 0
  BY EmptySequence DEF Made, Pools
<1>7. UNCHANGED loop /\ UNCHANGED <<file, num_writes, sends, num_written_final>>
  BY <1>1 DEF phase3, phase4, plot, loop
<1>8. InQueues(queue') = InQueues(queue) /\ NumQueues(queue') = NumQueues(queue)
  BY <1>5, <1>6
<1>9. Accounted(M, k)'
  BY <1>2, <1>7, <1>8 DEF Accounted, InPipe, NumPipe
<1>10. queue'["park_threads"] = queue["park_threads"]
  BY <1>4, StageNames
<1>11. Counted(p)'
  BY <1>2, <1>7, <1>10 DEF Counted
<1>12. Sorted(A)'
  <2>1. queue[q] \in Seq(InputsOf(q))
    BY <1>2, <1>3 DEF AreQueues
  <2>2. AddsIn(queue[q]) = Added(x) \cup AddsIn(queue'[q])
    BY <1>1, <1>4, <2>1, AddsTail
  <2> HIDE DEF x
  <2>3. QED
    BY <1>1, <1>2, <1>7, <2>2 DEF Sorted, InAdds
<1>13. Types'
  <2>1. stage # "done" /\ Phase3
    BY <1>1, <1>2, <1>3 DEF Types
  <2>2. UNCHANGED <<input, stage>>
    BY <1>7 DEF loop
  <2>3. Phase3' = Phase3
    BY <2>2 DEF Phase3
  <2>4. QED
    BY <1>2, <1>5, <1>7, <2>1, <2>2, <2>3 DEF Types
<1>14. QED
  BY <1>7, <1>9, <1>11, <1>12, <1>13 DEF Pipe

\* Whatever the threads do, the same writes, points and keys are accounted for.
LEMMA PipeSteps ==
    ASSUME NEW M, NEW k, NEW p, NEW A, Pipe(M, k, p, A), Send \/ DeliverSome \/ PlotWrite \/ Add
    PROVE  Pipe(M, k, p, A)' /\ UNCHANGED loop
BY SendStep, DeliverStep, PlotWriteStep, AddStep DEF DeliverSome

-----------------------------------------------------------------------------
(* Groups of entries: parks and intervals *)

\* How many groups n entries have begun, and how many of these are complete because
\* there is an entry behind them
Opened(n, size) == IF n = 0 THEN 0 ELSE (n - 1) \div size + 1
Closed(n, size) == IF n = 0 THEN 0 ELSE (n - 1) \div size

\* How many of n entries are in group i
InGroup(i, n, size) == IF (i + 1) * size <= n THEN size ELSE n - i * size

Slot(begin, i, size) == begin + i * size

\* Division by a slot and a place in it
LEMMA DivMod ==
    ASSUME NEW n \in Nat, NEW d \in Nat \ {0}
    PROVE  n \div d \in Nat /\ n % d \in 0 .. d - 1 /\ n = Slot(n % d, n \div d, d)
<1>1. n \div d \in Nat
  BY Division
<1>2. n % d \in 0 .. d - 1
  OBVIOUS
<1>3. n = d * (n \div d) + (n % d)
  OBVIOUS
<1>4. d * (n \div d) = (n \div d) * d
  BY <1>1
<1>5. QED
  BY <1>1, <1>2, <1>3, <1>4 DEF Slot

\* The slots of a table follow each other.
LEMMA Slots ==
    ASSUME NEW b \in Nat, NEW i \in Nat, NEW size \in Nat \ {0}
    PROVE  /\ Slot(b, i, size) \in Nat /\ b <= Slot(b, i, size) /\ Slot(b, 0, size) = b
           /\ Slot(b, i + 1, size) = Slot(b, i, size) + size
           /\ Slot(b, i, size) = b + i * size /\ i * size \in Nat
           /\ Slot(b, i, size) = b + Slot(0, i, size)
<1>1. i * size \in Nat /\ 0 * size = 0 /\ (i + 1) * size = i * size + size
  OBVIOUS
<1>2. QED
  BY <1>1 DEF Slot

\* Slots do not overlap.
LEMMA SlotOrder ==
    ASSUME NEW b \in Nat, NEW i \in Nat, NEW j \in Nat, NEW size \in Nat \ {0}
    PROVE  /\ i < j => Slot(b, i, size) + size <= Slot(b, j, size)
           /\ i <= j => Slot(b, i, size) <= Slot(b, j, size)
           /\ Slot(b, i + j, size) = Slot(b, i, size) + Slot(0, j, size)
<1>1. ASSUME i < j PROVE (i + 1) * size <= j * size
  <2>1. j - i - 1 \in Nat
    BY <1>1
  <2>2. (j - i - 1) * size \in Nat
    BY <2>1
  <2>3. j * size = (i + 1) * size + (j - i - 1) * size
    OBVIOUS
  <2>4. (i + 1) * size \in Nat /\ j * size \in Nat
    OBVIOUS
  <2>5. QED
    BY <2>2, <2>3, <2>4
<1>2. i * size \in Nat /\ j * size \in Nat /\ (i + 1) * size = i * size + size /\ (i + j) * size = i * size + j * size
  OBVIOUS
<1>3. i <= j => i < j \/ i = j
  OBVIOUS
<1>4. QED
  BY <1>1, <1>2, <1>3 DEF Slot

\* Division is what Slot() undoes.
LEMMA DivUnique ==
    ASSUME NEW q \in Nat, NEW d \in Nat \ {0}, NEW r \in 0 .. d - 1
    PROVE  Slot(r, q, d) \div d = q /\ Slot(r, q, d) % d = r
<1> DEFINE n == Slot(r, q, d)
           p == n \div d
           s == n % d
<1>1. n \in Nat /\ n = r + Slot(0, q, d)
  BY Slots
<1>2. p \in Nat /\ s \in 0 .. d - 1 /\ n = s + Slot(0, p, d)
  <2> HIDE DEF n
  <2>1. p \in Nat /\ s \in 0 .. d - 1 /\ n = Slot(s, p, d)
    BY <1>1, DivMod
  <2>2. s \in Nat
    BY <2>1
  <2>3. QED
    BY <2>1, <2>2, Slots
<1> HIDE DEF n, p, s
<1>3. Slot(0, p, d) \in Nat /\ Slot(0, q, d) \in Nat
  BY <1>2, Slots
<1>4. ~(p < q)
  <2>1. p < q => Slot(0, p, d) + d <= Slot(0, q, d)
    BY <1>2, SlotOrder
  <2>2. QED
    BY <1>1, <1>2, <1>3, <2>1
<1>5. ~(q < p)
  <2>1. q < p => Slot(0, q, d) + d <= Slot(0, p, d)
    BY <1>2, SlotOrder
  <2>2. QED
    BY <1>1, <1>2, <1>3, <2>1
<1>6. p = q
  BY <1>2, <1>4, <1>5
<1>7. s = r
  BY <1>1, <1>2, <1>3, <1>6
<1>8. QED
  BY <1>6, <1>7 DEF p, s, n

\* The first entry of an open group, and how many entries it has
LEMMA Groups ==
    ASSUME NEW n \in Nat, NEW size \in Nat \ {0}
    PROVE  /\ Closed(n, size) \in Nat /\ Opened(n, size) \in Nat
           /\ n = 0 => Closed(n, size) = 0 /\ Opened(n, size) = 0
           /\ n > 0 => /\ Opened(n, size) = Closed(n, size) + 1
                       /\ Slot(0, Closed(n, size), size) < n
                       /\ n <= Slot(0, Closed(n, size), size) + size
           /\ InGroup(Closed(n, size), n, size) = n - Slot(0, Closed(n, size), size)
           /\ InGroup(Closed(n, size), n, size) \in 0 .. size
           /\ Slot(0, Closed(n, size), size) \in Nat
<1> DEFINE c == Closed(n, size)
<1>1. CASE n = 0
  <2>1. c = 0 /\ Opened(n, size) = 0
    BY <1>1 DEF Closed, Opened
  <2>2. Slot(0, 0, size) = 0 /\ (0 + 1) * size = size /\ 0 * size = 0
    BY DEF Slot
  <2>3. InGroup(0, n, size) = 0
    BY <1>1, <2>2 DEF InGroup
  <2>4. QED
    BY <1>1, <2>1, <2>2, <2>3
<1>2. CASE n > 0
  <2>1. c = (n - 1) \div size /\ Opened(n, size) = (n - 1) \div size + 1 /\ n - 1 \in Nat
    BY <1>2 DEF Closed, Opened
  <2>2. c \in Nat /\ (n - 1) % size \in 0 .. size - 1 /\ n - 1 = Slot((n - 1) % size, c, size)
    BY <2>1, DivMod
  <2> HIDE DEF c
  <2>3. n - 1 = ((n - 1) % size) + Slot(0, c, size) /\ Slot(0, c, size) \in Nat
    <3> DEFINE r == (n - 1) % size
    <3>1. r \in Nat /\ n - 1 = Slot(r, c, size)
      BY <2>2
    <3> HIDE DEF r
    <3>2. Slot(r, c, size) = r + Slot(0, c, size) /\ Slot(0, c, size) \in Nat
      BY ZenonT(60), <2>2, <3>1, Slots
    <3>3. QED
      BY <3>1, <3>2 DEF r
  <2>4. Slot(0, c, size) = c * size /\ (c + 1) * size = c * size + size
    BY <2>2 DEF Slot
  <2>5. Slot(0, c, size) < n /\ n <= Slot(0, c, size) + size
    BY <2>2, <2>3
  <2>6. InGroup(c, n, size) = n - Slot(0, c, size)
    BY <2>3, <2>4, <2>5 DEF InGroup
  <2>7. QED
    BY <1>2, <2>1, <2>2, <2>3, <2>5, <2>6 DEF c
<1>3. QED
  BY <1>1, <1>2

\* A group before the last is full.
LEMMA FullGroup ==
    ASSUME NEW n \in Nat, NEW size \in Nat \ {0}, NEW i \in 0 .. Closed(n, size) - 1
    PROVE  InGroup(i, n, size) = size /\ Slot(0, i, size) + size < n /\ Slot(0, i, size) \in Nat
<1> DEFINE c == Closed(n, size)
<1>1. c \in Nat /\ (n = 0 => c = 0) /\ (n > 0 => Slot(0, c, size) < n) /\ Slot(0, c, size) \in Nat
  BY Groups
<1>2. i \in Nat /\ i < c /\ n > 0
  <2> HIDE DEF c
  <2>1. i \in 0 .. c - 1
    BY DEF c
  <2>2. QED
    BY <1>1, <2>1
<1> HIDE DEF c
<1>3. Slot(0, i, size) + size <= Slot(0, c, size) /\ Slot(0, i, size) \in Nat
  BY <1>1, <1>2, SlotOrder, Slots
<1>4. Slot(0, i, size) + size < n
  BY <1>1, <1>2, <1>3
<1>5. Slot(0, i, size) = i * size /\ (i + 1) * size = i * size + size
  BY <1>2 DEF Slot
<1>6. QED
  BY <1>3, <1>4, <1>5 DEF InGroup

\* One entry more
LEMMA GroupStep ==
    ASSUME NEW n \in Nat, NEW size \in Nat \ {0}
    PROVE  /\ n % size = 0 => /\ Opened(n + 1, size) = Opened(n, size) + 1
                              /\ Closed(n + 1, size) = Opened(n, size)
                              /\ Slot(0, Opened(n, size), size) = n
                              /\ InGroup(Opened(n, size), n + 1, size) = 1
                              /\ n > 0 => InGroup(Closed(n, size), n, size) = size
           /\ n % size # 0 => /\ Opened(n + 1, size) = Opened(n, size)
                              /\ Closed(n + 1, size) = Closed(n, size)
                              /\ InGroup(Closed(n, size), n + 1, size) = InGroup(Closed(n, size), n, size) + 1
                              /\ n > 0 /\ InGroup(Closed(n, size), n, size) < size
           /\ Opened(n + 1, size) = (n \div size) + 1 /\ Closed(n + 1, size) = n \div size
<1> DEFINE c == Closed(n, size)
           o == Opened(n, size)
           g == Slot(0, c, size)
<1>1. Closed(n + 1, size) = n \div size /\ Opened(n + 1, size) = n \div size + 1
  <2>1. (n + 1) - 1 = n /\ n + 1 # 0
    OBVIOUS
  <2>2. QED
    BY <2>1 DEF Closed, Opened
<1>2. /\ c \in Nat /\ o \in Nat /\ (n = 0 => c = 0 /\ o = 0)
      /\ (n > 0 => o = c + 1 /\ g < n /\ n <= g + size) /\ g \in Nat
      /\ InGroup(c, n, size) = n - g
  BY Groups
<1>3. g = Slot(0, c, size) /\ Slot(0, c + 1, size) = g + size
  BY <1>2, Slots
<1>4. InGroup(Closed(n + 1, size), n + 1, size) = (n + 1) - Slot(0, Closed(n + 1, size), size)
  BY Groups
<1> HIDE DEF c, o, g
<1>5. CASE n = 0
  <2>1. n % size = 0 /\ n \div size = 0
    <3>1. Slot(0, 0, size) = 0 /\ 0 \in 0 .. size - 1
      BY DEF Slot
    <3>2. QED
      BY <1>5, <3>1, DivUnique
  <2>2. Slot(0, 0, size) = 0
    BY DEF Slot
  <2>3. QED
    BY <1>1, <1>2, <1>4, <1>5, <2>1, <2>2 DEF c, o
<1>6. CASE n > 0 /\ n = g + size
  <2>1. n = Slot(0, o, size) /\ o \in Nat /\ 0 \in 0 .. size - 1
    BY <1>2, <1>3, <1>6
  <2>2. n \div size = o /\ n % size = 0
    BY <2>1, DivUnique
  <2>3. InGroup(c, n, size) = size
    BY <1>2, <1>6
  <2>4. InGroup(o, n + 1, size) = 1
    BY <1>1, <1>4, <2>1, <2>2
  <2>5. QED
    BY <1>1, <2>1, <2>2, <2>3, <2>4 DEF c, o
<1>7. CASE n > 0 /\ n # g + size
  <2>1. n - g \in 0 .. size - 1 /\ n - g \in Nat /\ n - g # 0
    BY <1>2, <1>7
  <2>2. n = Slot(n - g, c, size)
    <3>1. Slot(n - g, c, size) = (n - g) + Slot(0, c, size)
      BY <1>2, <2>1, Slots
    <3>2. QED
      BY <1>2, <1>3, <3>1
  <2>3. n \div size = c /\ n % size = n - g
    BY <1>2, <2>1, <2>2, DivUnique
  <2>4. InGroup(c, n + 1, size) = InGroup(c, n, size) + 1
    BY <1>1, <1>2, <1>3, <1>4, <2>3
  <2>5. QED
    BY <1>1, <1>2, <1>7, <2>1, <2>3, <2>4 DEF c, o
<1>8. QED
  BY <1>2, <1>5, <1>6, <1>7

\* Groups of groups: an entry begins a group of a * b entries just if it begins the
\* first of b groups of a.
LEMMA GroupsOfGroups ==
    ASSUME NEW n \in Nat, NEW a \in Nat \ {0}, NEW b \in Nat \ {0}, n % a = 0
    PROVE  n % (a * b) = 0 <=> Opened(n, a) % b = 0
<1> DEFINE o == Opened(n, a)
           q == o \div b
           r == o % b
<1>1. o \in Nat /\ n = Slot(0, o, a)
  BY Groups, GroupStep
<1> HIDE DEF o
<1>2. q \in Nat /\ r \in 0 .. b - 1 /\ o = Slot(r, q, b)
  BY <1>1, DivMod
<1> HIDE DEF q, r
<1>3. n = (r * a) + q * (a * b)
  <2>1. n = o * a /\ o = r + q * b /\ r \in Nat
    BY <1>1, <1>2 DEF Slot
  <2>2. (r + q * b) * a = (r * a) + q * (a * b)
    BY <1>2, <2>1
  <2>3. QED
    BY <2>1, <2>2
<1>4. r * a \in Nat /\ r * a <= (a * b) - 1 /\ a * b \in Nat \ {0}
  <2>1. r \in Nat /\ b - 1 - r \in Nat
    BY <1>2
  <2>2. (b - 1 - r) * a \in Nat /\ r * a \in Nat /\ a * b \in Nat
    BY <2>1
  <2>3. a * b = (b - 1 - r) * a + r * a + a
    BY <2>1
  <2>4. QED
    BY <2>2, <2>3
<1>5. n % (a * b) = r * a
  <2> DEFINE d == a * b
             s == r * a
  <2>1. d \in Nat \ {0} /\ s \in 0 .. d - 1 /\ n = Slot(s, q, d)
    BY <1>3, <1>4 DEF Slot
  <2> HIDE DEF d, s
  <2>2. n % d = s
    BY <1>2, <2>1, DivUnique
  <2>3. QED
    BY <2>2 DEF d, s
<1>6. r * a = 0 <=> r = 0
  <2>1. r \in Nat
    BY <1>2
  <2>2. QED
    BY <2>1
<1>7. QED
  BY <1>5, <1>6 DEF o, r

\* More entries are in more groups.
LEMMA GroupsMonotone ==
    ASSUME NEW m \in Nat, NEW n \in Nat, m <= n, NEW size \in Nat \ {0}
    PROVE  Opened(m, size) <= Opened(n, size) /\ Closed(m, size) <= Closed(n, size)
<1>1. CASE m = 0
  BY <1>1, Groups
<1>2. CASE m > 0
  <2>1. m - 1 \in Nat /\ n - 1 \in Nat /\ m - 1 <= n - 1 /\ n # 0 /\ m # 0
    BY <1>2
  <2>2. (m - 1) \div size <= (n - 1) \div size /\ (m - 1) \div size \in Nat /\ (n - 1) \div size \in Nat
    BY <2>1, Division
  <2>3. QED
    BY <2>1, <2>2 DEF Opened, Closed
<1>3. QED
  BY <1>1, <1>2

\* cdiv() counts the groups.
LEMMA CountsGroups ==
    ASSUME NEW n \in Nat, NEW size \in Nat \ {0}
    PROVE  cdiv(n, size) = Opened(n, size)
<1>1. CASE n = 0
  <2>1. (n + size) - 1 = Slot(size - 1, 0, size) /\ size - 1 \in 0 .. size - 1
    BY <1>1 DEF Slot
  <2>2. Slot(size - 1, 0, size) \div size = 0
    BY <2>1, DivUnique
  <2>3. QED
    BY <1>1, <2>1, <2>2 DEF cdiv, Opened
<1>2. CASE n > 0
  <2> DEFINE q == (n - 1) \div size
             r == (n - 1) % size
  <2>1. n - 1 \in Nat
    BY <1>2
  <2>2. q \in Nat /\ r \in 0 .. size - 1 /\ n - 1 = Slot(r, q, size)
    BY <2>1, DivMod
  <2>3. Opened(n, size) = q + 1
    BY <1>2 DEF Opened
  <2> HIDE DEF q, r
  <2>4. Slot(r, q + 1, size) = Slot(r, q, size) + size /\ q + 1 \in Nat
    BY <2>2, Slots
  <2>5. (n + size) - 1 = Slot(r, q + 1, size)
    BY <2>2, <2>4
  <2>6. Slot(r, q + 1, size) \div size = q + 1
    BY <2>2, <2>4, DivUnique
  <2>7. cdiv(n, size) = ((n + size) - 1) \div size
    BY DEF cdiv
  <2>8. QED
    BY <2>3, <2>5, <2>6, <2>7
<1>3. QED
  BY <1>1, <1>2

-----------------------------------------------------------------------------
(* What is written, for the entries e of table 6 and for the order T in which *)
(* phase 4 reads them *)

ParkOf(e, i, n) ==
    [index |-> i,
     points |-> [j \in 1 .. InGroup(i, n, kEntriesPerPark) |-> e[Slot(0, i, kEntriesPerPark) + j].point]]

\* Table 6 has AtMost() as many entries as there are points.
AtMost(n) == IF n < MaxPos THEN n ELSE MaxPos
Keyed(e, n) == {[key |-> e[p].key, pos |-> p - 1] : p \in 1 .. n}

Entry == [key : 0 .. 255, point : Nat]

-----------------------------------------------------------------------------
(* Parks of line points *)

\* A park is a sequence of line points with a number.
LEMMA ParkType ==
    ASSUME NEW e \in Seq(Entry), NEW n \in 1 .. Len(e), NEW i \in 0 .. Closed(n, kEntriesPerPark)
    PROVE  /\ ParkOf(e, i, n) \in Park
           /\ ParkOf(e, i, n).index = i /\ Len(ParkOf(e, i, n).points) = InGroup(i, n, kEntriesPerPark)
           /\ InGroup(i, n, kEntriesPerPark) \in 1 .. kEntriesPerPark
<1> DEFINE P == kEntriesPerPark
           c == Closed(n, P)
           l == InGroup(i, n, P)
           b == Slot(0, i, P)
<1>1. P \in Nat \ {0} /\ n \in Nat /\ n > 0 /\ n <= Len(e) /\ Len(e) \in Nat
  BY Bounds
<1>2. l \in 1 .. P /\ b \in Nat /\ b + l <= n /\ i \in Nat
  <2>1. c \in Nat /\ Slot(0, c, P) < n /\ n <= Slot(0, c, P) + P /\ InGroup(c, n, P) = n - Slot(0, c, P) /\ Slot(0, c, P) \in Nat
    BY <1>1, Groups
  <2>2. CASE i = c
    BY <1>1, <2>1, <2>2
  <2>3. CASE i # c
    <3>1. i \in 0 .. c - 1
      BY <2>1, <2>3
    <3>2. l = P /\ b + P < n /\ b \in Nat
      BY <1>1, <3>1, FullGroup
    <3>3. QED
      BY <1>1, <3>1, <3>2
  <2>4. QED
    BY <2>2, <2>3
<1> HIDE DEF l, b
<1>3. ASSUME NEW j \in 1 .. l PROVE e[b + j].point \in Nat
  <2>1. b + j \in 1 .. Len(e)
    BY <1>1, <1>2
  <2>2. e[b + j] \in Entry
    BY <2>1
  <2>3. QED
    BY <2>2 DEF Entry
<1> DEFINE s == [j \in 1 .. l |-> e[b + j].point]
<1>4. s \in Seq(Nat) /\ Len(s) = l /\ s # <<>>
  <2>1. l \in Nat /\ l # 0
    BY <1>2
  <2>2. s \in Seq(Nat) /\ Len(s) = l
    BY <1>3, <2>1
  <2>3. QED
    BY <2>1, <2>2
<1>5. ParkOf(e, i, n) = [index |-> i, points |-> s]
  BY DEF ParkOf, l, b
<1> HIDE DEF s
<1>6. ParkOf(e, i, n).index = i /\ Len(ParkOf(e, i, n).points) = l
  BY <1>4, <1>5
<1>7. ParkOf(e, i, n) \in Park
  BY <1>2, <1>4, <1>5 DEF Park
<1>8. QED
  BY <1>2, <1>6, <1>7 DEF l

\* A park that is complete stays as it is.
LEMMA ParkStays ==
    ASSUME NEW m \in Nat, NEW n \in Nat, m <= n, NEW e, NEW i \in 0 .. Closed(m, kEntriesPerPark) - 1
    PROVE  ParkOf(e, i, m) = ParkOf(e, i, n)
<1>1. kEntriesPerPark \in Nat \ {0}
  BY Bounds
<1>2. Closed(m, kEntriesPerPark) <= Closed(n, kEntriesPerPark) /\ Closed(m, kEntriesPerPark) \in Nat /\ Closed(n, kEntriesPerPark) \in Nat
  BY <1>1, GroupsMonotone, Groups
<1>3. i \in 0 .. Closed(n, kEntriesPerPark) - 1
  BY <1>2
<1>4. InGroup(i, m, kEntriesPerPark) = kEntriesPerPark /\ InGroup(i, n, kEntriesPerPark) = kEntriesPerPark
  BY <1>1, <1>3, FullGroup
<1>5. QED
  BY <1>4 DEF ParkOf

\* The entry behind n others opens a park or joins the last.
LEMMA ParkStep ==
    ASSUME NEW e \in Seq(Entry), NEW n \in 0 .. Len(e) - 1
    PROVE  /\ ParkBoundary(n) =>
                /\ Closed(n + 1, kEntriesPerPark) = Closed(n, kEntriesPerPark) + 1
                /\ ParkOf(e, Closed(n, kEntriesPerPark), n) = ParkOf(e, Closed(n, kEntriesPerPark), Len(e))
                /\ ParkOf(e, Closed(n + 1, kEntriesPerPark), n + 1) =
                        [index |-> Closed(n, kEntriesPerPark) + 1, points |-> <<e[n + 1].point>>]
           /\ ~ParkBoundary(n) =>
                /\ Closed(n + 1, kEntriesPerPark) = Closed(n, kEntriesPerPark)
                /\ ParkOf(e, Closed(n + 1, kEntriesPerPark), n + 1) =
                        [ParkOf(e, Closed(n, kEntriesPerPark), n) EXCEPT !.points = Append(@, e[n + 1].point)]
<1> DEFINE P == kEntriesPerPark
           c == Closed(n, P)
           d == Closed(n + 1, P)
           l == InGroup(c, n, P)
           b == Slot(0, c, P)
<1>1. P \in Nat \ {0} /\ n \in Nat /\ n + 1 \in Nat /\ n + 1 <= Len(e) /\ Len(e) \in Nat
  BY Bounds
<1>2. /\ c \in Nat /\ d \in Nat /\ l = n - b /\ l \in 0 .. P /\ b \in Nat
      /\ InGroup(d, n + 1, P) = (n + 1) - Slot(0, d, P)
  BY <1>1, Groups
<1>3. CASE ParkBoundary(n)
  <2>1. n % P = 0 /\ n > 0
    BY <1>3 DEF ParkBoundary
  <2>2. d = Opened(n, P) /\ Slot(0, d, P) = n /\ InGroup(d, n + 1, P) = 1 /\ l = P /\ Opened(n, P) = c + 1
    <3>1. n % P = 0 => /\ Opened(n + 1, P) = Opened(n, P) + 1 /\ d = Opened(n, P)
                       /\ Slot(0, Opened(n, P), P) = n /\ InGroup(Opened(n, P), n + 1, P) = 1
                       /\ n > 0 => l = P
      BY <1>1, GroupStep
    <3>2. n > 0 => Opened(n, P) = c + 1
      BY <1>1, Groups
    <3>3. QED
      BY <2>1, <3>1, <3>2
  <2>3. ParkOf(e, d, n + 1) = [index |-> d, points |-> [j \in 1 .. 1 |-> e[n + j].point]]
    BY <2>2 DEF ParkOf
  <2>4. [j \in 1 .. 1 |-> e[n + j].point] = <<e[n + 1].point>>
    OBVIOUS
  <2>5. InGroup(c, Len(e), P) = P
    <3>1. d <= Closed(Len(e), P) /\ Closed(Len(e), P) \in Nat
      BY <1>1, GroupsMonotone, Groups
    <3>2. c \in 0 .. Closed(Len(e), P) - 1
      BY <1>2, <2>2, <3>1
    <3>3. QED
      BY <1>1, <3>2, FullGroup
  <2>6. ParkOf(e, c, n) = ParkOf(e, c, Len(e))
    BY <2>2, <2>5 DEF ParkOf
  <2>7. QED
    BY <1>3, <2>2, <2>3, <2>4, <2>6
<1>4. CASE ~ParkBoundary(n)
  <2>1. n % P # 0 \/ n = 0
    BY <1>1, <1>4 DEF ParkBoundary
  <2>2. d = c /\ InGroup(d, n + 1, P) = l + 1
    <3>1. CASE n = 0
      <4>1. c = 0 /\ d = 0 /\ Slot(0, 0, P) = 0
        <5>1. c = 0
          BY <1>1, <3>1, Groups
        <5>2. d = n \div P
          BY <1>1, GroupStep
        <5>3. Slot(0, 0, P) \div P = 0 /\ Slot(0, 0, P) = 0
          <6>1. 0 \in Nat /\ 0 \in 0 .. P - 1
            BY <1>1
          <6>2. Slot(0, 0, P) \div P = 0
            BY ONLY <1>1, <6>1, DivUnique
          <6>3. Slot(0, 0, P) = 0
            BY ONLY <1>1, <6>1, Slots
          <6>4. QED
            BY <6>2, <6>3
        <5>4. QED
          BY <3>1, <5>1, <5>2, <5>3
      <4>2. l = 0
        BY <1>2, <3>1
      <4>3. InGroup(d, n + 1, P) = 1
        BY <1>2, <3>1, <4>1
      <4> HIDE DEF l, d, c
      <4>4. QED
        BY <4>1, <4>2, <4>3
    <3>2. CASE n % P # 0
      <4>1. n % P # 0 => d = c /\ InGroup(c, n + 1, P) = l + 1
        BY <1>1, GroupStep
      <4>2. QED
        BY <3>2, <4>1
    <3>3. QED
      BY <2>1, <3>1, <3>2
  <2>3. ASSUME NEW j \in 1 .. l + 1 PROVE e[b + j].point \in Nat
    <3>1. b + j \in 1 .. Len(e)
      BY <1>1, <1>2
    <3>2. e[b + j] \in Entry
      BY <3>1
    <3>3. QED
      BY <3>2 DEF Entry
  <2> DEFINE s == [j \in 1 .. l |-> e[b + j].point]
             t == [j \in 1 .. l + 1 |-> e[b + j].point]
  <2> HIDE DEF l, b
  <2>4. s \in Seq(Nat) /\ t \in Seq(Nat) /\ Len(s) = l /\ Len(t) = l + 1 /\ t[l + 1] = e[b + (l + 1)].point
        /\ \A j \in 1 .. l : s[j] = t[j]
    <3>1. l \in Nat /\ l + 1 \in Nat /\ l + 1 \in 1 .. l + 1 /\ \A j \in 1 .. l : j \in 1 .. l + 1
      BY <1>2
    <3>2. \A j \in 1 .. l : e[b + j].point \in Nat
      BY <2>3, <3>1
    <3>3. s \in Seq(Nat) /\ Len(s) = l
      BY <3>1, <3>2
    <3>4. t \in Seq(Nat) /\ Len(t) = l + 1
      BY <2>3, <3>1
    <3>5. QED
      BY <3>1, <3>3, <3>4
  <2>5. b + (l + 1) = n + 1
    BY <1>1, <1>2
  <2>6. t = Append(s, e[n + 1].point)
    <3>1. Append(s, e[n + 1].point) \in Seq(Nat) /\ Len(Append(s, e[n + 1].point)) = l + 1
          /\ Append(s, e[n + 1].point)[l + 1] = e[n + 1].point
          /\ \A j \in 1 .. l : Append(s, e[n + 1].point)[j] = s[j]
      <4>1. e[n + 1].point \in Nat
        <5>1. l + 1 \in 1 .. l + 1
          BY <1>2
        <5>2. QED
          BY <2>3, <2>5, <5>1
      <4> HIDE DEF s, t
      <4>2. QED
        BY <2>4, <4>1, AppendedElement
    <3> DEFINE u == Append(s, e[n + 1].point)
    <3> HIDE DEF u, s, t
    <3>2. \A j \in 1 .. l + 1 : j = l + 1 \/ j \in 1 .. l
      BY <1>2
    <3>3. \A j \in 1 .. Len(t) : t[j] = u[j]
      BY <2>4, <2>5, <3>1, <3>2 DEF u
    <3>4. t = u
      <4>1. t \in Seq(Nat) /\ u \in Seq(Nat) /\ Len(t) = Len(u)
        BY <2>4, <3>1 DEF u
      <4>2. QED
        BY ONLY <4>1, <3>3, SameSequence
    <3>5. QED
      BY <3>4 DEF u
  <2>7. ParkOf(e, c, n) = [index |-> c, points |-> s]
    BY DEF ParkOf, l, b
  <2>8. ParkOf(e, d, n + 1) = [index |-> c, points |-> t]
    BY <2>2 DEF ParkOf, b
  <2> HIDE DEF s, t
  <2>9. [ParkOf(e, c, n) EXCEPT !.points = Append(@, e[n + 1].point)] = [index |-> c, points |-> t]
    <3> DEFINE p == ParkOf(e, c, n)
    <3>1. p = [index |-> c, points |-> s]
      BY <2>7
    <3> HIDE DEF p
    <3>2. p.points = s
      BY <3>1
    <3>3. Append(p.points, e[n + 1].point) = t
      BY <2>6, <3>2
    <3>4. [p EXCEPT !.points = t] = [index |-> c, points |-> t]
      BY <3>1
    <3>5. QED
      BY <3>3, <3>4 DEF p
  <2>10. QED
    BY <1>4, <2>2, <2>8, <2>9
<1>5. QED
  BY <1>3, <1>4

-----------------------------------------------------------------------------
(* R_read slices a block *)

OpenPark == [index : Nat, points : Seq(Nat)]
Slices == [index : Nat, park : OpenPark, parks : Seq(OpenPark)]

\* R_read keeps the types of what it carries.
LEMMA SlicePointType ==
    ASSUME NEW s \in Slices, NEW x \in Entry
    PROVE  SlicePoint(s, x) \in Slices
<1>1. s.index \in Nat /\ s.park \in OpenPark /\ s.parks \in Seq(OpenPark) /\ x.point \in Nat
  BY DEF Slices, Entry
<1>2. s.park.index + 1 \in Nat /\ s.park.index \in Nat /\ s.park.points \in Seq(Nat)
  BY <1>1 DEF OpenPark
<1>3. Append(s.parks, s.park) \in Seq(OpenPark)
  BY <1>1
<1>4. <<x.point>> \in Seq(Nat) /\ Append(s.park.points, x.point) \in Seq(Nat)
  BY <1>1, <1>2
<1>5. [index |-> s.park.index + 1, points |-> <<x.point>>] \in OpenPark
  BY <1>2, <1>4 DEF OpenPark
<1>6. [s.park EXCEPT !.points = Append(@, x.point)] \in OpenPark
  <2> DEFINE p == s.park
             q == Append(s.park.points, x.point)
  <2>1. p \in OpenPark /\ q \in Seq(Nat)
    BY <1>1, <1>4
  <2>2. [s.park EXCEPT !.points = Append(@, x.point)] = [p EXCEPT !.points = q]
    OBVIOUS
  <2> HIDE DEF p, q
  <2>3. [p EXCEPT !.points = q] \in OpenPark
    BY <2>1 DEF OpenPark
  <2>4. QED
    BY <2>2, <2>3
<1>7. CASE s.index >= MaxPos
  BY <1>7 DEF SlicePoint
<1>8. CASE ~(s.index >= MaxPos)
  <2> DEFINE a == s.index + 1
             b == IF ParkBoundary(s.index) THEN Append(s.parks, s.park) ELSE s.parks
             c == IF ParkBoundary(s.index) THEN [index |-> s.park.index + 1, points |-> <<x.point>>]
                  ELSE [s.park EXCEPT !.points = Append(@, x.point)]
  <2>1. a \in Nat /\ b \in Seq(OpenPark)
    BY <1>1, <1>3
  <2>2. c \in OpenPark
    BY <1>5, <1>6
  <2>3. SlicePoint(s, x) = [index |-> a, parks |-> b, park |-> c]
    BY <1>8 DEF SlicePoint
  <2> HIDE DEF a, b, c
  <2>4. QED
    BY <2>1, <2>2, <2>3 DEF Slices
<1>9. QED
  BY <1>7, <1>8

\* Sliced() entry by entry
LEMMA SlicedSteps ==
    ASSUME NEW t \in Slices, NEW block \in Seq(Entry)
    PROVE  \E g \in [0 .. Len(block) -> Slices] :
                /\ Sliced(t, block) = g[Len(block)] /\ g[0] = t
                /\ \A x \in 1 .. Len(block) : g[x] = SlicePoint(g[x - 1], block[x])
<1> DEFINE W == Slices
           n == Len(block)
           step == [x \in 1 .. n |-> [v \in W |-> SlicePoint(v, block[x])]]
           Slicing(f) == f = [x \in 0 .. n |-> IF x = 0 THEN t ELSE SlicePoint(f[x - 1], block[x])]
           sliced == CHOOSE f : Slicing(f)
<1>1. n \in Nat /\ t \in W /\ \A x \in 1 .. n : block[x] \in Entry
  OBVIOUS
<1>2. ASSUME NEW x \in 1 .. n, NEW v \in W PROVE SlicePoint(v, block[x]) \in W
  BY <1>1, SlicePointType
<1>3. Sliced(t, block) = sliced[n]
  BY DEF Sliced
<1>4. \A f : Slicing(f) <=> f = [x \in 0 .. n |-> IF x = 0 THEN t ELSE SlicePoint(f[x - 1], block[x])]
  BY Zenon
<1> HIDE DEF Slicing
<1>5. \E f : Slicing(f) /\ f \in [0 .. n -> W]
  <2>1. step \in [1 .. n -> [W -> W]]
    BY <1>2
  <2>2. \A x \in 1 .. n, v \in W : step[x][v] = SlicePoint(v, block[x])
    OBVIOUS
  <2> HIDE DEF step, W, n
  <2>3. PICK g \in [0 .. n -> W] : Solves(g, t, step, n)
    BY <1>1, <2>1, Recursion
  <2>4. g[0] = t
    BY <2>3 DEF Solves
  <2>5. ASSUME NEW x \in 1 .. n PROVE g[x] = SlicePoint(g[x - 1], block[x])
    <3>1. x - 1 \in 0 .. n
      BY <1>1
    <3>2. g[x - 1] \in W
      BY <3>1
    <3>3. g[x] = step[x][g[x - 1]]
      BY <2>3 DEF Solves
    <3>4. QED
      BY <3>2, <3>3, <2>2
  <2> DEFINE h == [x \in 0 .. n |-> IF x = 0 THEN t ELSE SlicePoint(g[x - 1], block[x])]
  <2>6. \A x \in 0 .. n : g[x] = IF x = 0 THEN t ELSE SlicePoint(g[x - 1], block[x])
    <3>1. \A x \in 0 .. n : x = 0 \/ x \in 1 .. n
      BY <1>1
    <3>2. \A x \in 1 .. n : x # 0
      BY <1>1
    <3>3. QED
      BY <3>1, <3>2, <2>4, <2>5, Zenon
  <2>7. \A x \in 0 .. n : h[x] = g[x]
    BY <2>6, Zenon
  <2>8. g = h
    <3>1. DOMAIN h = 0 .. n /\ h = [x \in DOMAIN h |-> h[x]]
      BY Zenon
    <3> HIDE DEF h
    <3>2. DOMAIN g = 0 .. n /\ g = [x \in DOMAIN g |-> g[x]]
      OBVIOUS
    <3>3. QED
      BY <3>1, <3>2, <2>7
  <2>9. Slicing(g)
    BY <2>8, <1>4, Zenon
  <2>10. QED
    BY <2>9
<1>6. Slicing(sliced)
  BY <1>5
<1> DEFINE h == [x \in 0 .. n |-> IF x = 0 THEN t ELSE SlicePoint(sliced[x - 1], block[x])]
<1>7. sliced = h
  <2> HIDE DEF sliced
  <2>1. QED
    BY <1>4, <1>6, Zenon
<1>8. sliced[0] = t /\ \A x \in 1 .. n : sliced[x] = SlicePoint(sliced[x - 1], block[x])
  <2> HIDE DEF sliced
  <2>1. \A x \in 0 .. n : h[x] = IF x = 0 THEN t ELSE SlicePoint(sliced[x - 1], block[x])
    BY Zenon
  <2> HIDE DEF h, n
  <2>2. \A x \in 1 .. n : x \in 0 .. n /\ x # 0
    BY <1>1
  <2>3. 0 \in 0 .. n
    BY <1>1
  <2>4. QED
    BY <1>7, <2>1, <2>2, <2>3
<1>9. sliced \in [0 .. n -> W]
  <2> DEFINE S == {x \in 0 .. n : sliced[x] \in W}
  <2> HIDE DEF sliced, W
  <2>1. 0 \in S
    <3>1. 0 \in 0 .. n
      BY <1>1
    <3>2. QED
      BY <1>1, <1>8, <3>1
  <2>2. ASSUME NEW x \in 1 .. n, x - 1 \in S PROVE x \in S
    <3>1. x \in 0 .. n
      BY <1>1
    <3>2. sliced[x] = SlicePoint(sliced[x - 1], block[x]) /\ sliced[x - 1] \in W
      BY <1>8, <2>2
    <3>3. QED
      BY <1>2, <3>1, <3>2
  <2> HIDE DEF S, n
  <2>3. \A x \in 0 .. n : x \in S
    BY <1>1, <2>1, <2>2, Induction
  <2>4. \A x \in 0 .. n : sliced[x] \in W
    BY <2>3 DEF S
  <2>5. DOMAIN sliced = 0 .. n /\ sliced = [x \in DOMAIN sliced |-> sliced[x]]
    <3>1. DOMAIN h = 0 .. n /\ h = [x \in DOMAIN h |-> h[x]]
      BY Zenon
    <3> HIDE DEF h
    <3>2. QED
      BY <1>7, <3>1
  <2>6. QED
    BY <2>4, <2>5
<1>10. QED
  <2> HIDE DEF sliced, W
  <2>1. QED
    BY <1>3, <1>8, <1>9 DEF W

\* Slicing a block cuts its entries where the parks of the whole table end.
LEMMA SlicedParks ==
    ASSUME NEW e \in Seq(Entry), Len(e) <= MaxPos, NEW off \in Nat, AtMost(off) <= Len(e),
           NEW block \in Seq(Entry),
           \A k \in 1 .. Len(block) : off + k <= MaxPos => off + k <= Len(e) /\ e[off + k] = block[k],
           NEW m, m = AtMost(off), NEW m2, m2 = AtMost(off + Len(block)),
           NEW s, s = Sliced([index |-> off, park |-> ParkOf(e, Closed(m, kEntriesPerPark), m), parks |-> <<>>], block)
    PROVE  /\ m2 \in Nat /\ m <= m2 /\ m2 <= Len(e) /\ m \in Nat
           /\ s.park = ParkOf(e, Closed(m2, kEntriesPerPark), m2)
           /\ s.parks \in Seq(Park)
           /\ Len(s.parks) = Closed(m2, kEntriesPerPark) - Closed(m, kEntriesPerPark)
           /\ \A j \in 1 .. Len(s.parks) :
                s.parks[j] = ParkOf(e, (Closed(m, kEntriesPerPark) + j) - 1, Len(e))
<1> DEFINE P == kEntriesPerPark
           M(k) == AtMost(off + k)
           C(k) == Closed(M(k), P)
           l == Len(block)
           t == [index |-> off, park |-> ParkOf(e, Closed(m, P), m), parks |-> <<>>]
           Ok(u, k) == /\ off + k <= MaxPos => u.index = off + k
                       /\ off + k > MaxPos => u.index >= MaxPos
                       /\ u.park = ParkOf(e, C(k), M(k))
                       /\ Len(u.parks) = C(k) - C(0)
                       /\ \A j \in 1 .. C(k) - C(0) : u.parks[j] = ParkOf(e, (C(0) + j) - 1, Len(e))
<1>1. P \in Nat \ {0} /\ l \in Nat /\ Len(e) \in Nat /\ MaxPos \in Nat \ {0}
  BY Bounds
<1>2. ASSUME NEW k \in 0 .. l PROVE M(k) \in 0 .. Len(e) /\ C(k) \in Nat /\ C(0) <= C(k) /\ M(0) <= M(k)
  <2>1. M(0) \in Nat /\ M(k) \in Nat /\ M(0) <= M(k)
    BY <1>1 DEF AtMost
  <2>2. M(k) <= Len(e)
    <3>1. CASE k = 0
      BY <1>1, <3>1 DEF AtMost
    <3>2. CASE off + k <= MaxPos /\ k # 0
      <4>1. k \in 1 .. Len(block)
        BY <1>1, <3>2
      <4>2. QED
        BY <1>1, <3>2, <4>1 DEF AtMost
    <3>3. CASE off + k > MaxPos
      <4>1. CASE off >= MaxPos
        BY <1>1, <3>3, <4>1 DEF AtMost
      <4>2. CASE off < MaxPos
        <5>1. MaxPos - off \in 1 .. Len(block) /\ off + (MaxPos - off) = MaxPos
          BY <1>1, <3>3, <4>2
        <5>2. MaxPos <= Len(e)
          <6> DEFINE i == MaxPos - off
          <6>1. i \in 1 .. Len(block) /\ off + i = MaxPos
            BY <5>1
          <6> HIDE DEF i
          <6>2. QED
            BY <1>1, <6>1
        <5>3. QED
          BY <1>1, <3>3, <5>2 DEF AtMost
      <4>3. QED
        BY <1>1, <4>1, <4>2
    <3>4. QED
      BY <1>1, <3>1, <3>2, <3>3
  <2>3. C(k) \in Nat /\ C(0) \in Nat /\ C(0) <= C(k)
    <3> HIDE DEF M
    <3>1. QED
      BY <1>1, <2>1, Groups, GroupsMonotone
  <2>4. QED
    BY <1>1, <2>1, <2>2, <2>3
<1>3. 0 \in 0 .. l /\ M(0) = m /\ C(0) = Closed(m, P) /\ m2 = M(l) /\ l \in 0 .. l
  <2>1. off + 0 = off
    OBVIOUS
  <2>2. QED
    BY <1>1, <2>1
<1>4. ASSUME NEW n \in 0 .. Len(e) PROVE ParkOf(e, Closed(n, P), n) \in OpenPark
  <2>1. CASE n = 0
    <3>1. Closed(n, P) = 0 /\ InGroup(0, n, P) = 0
      <4>1. n \in Nat
        BY <2>1
      <4>2. Closed(n, P) = 0 /\ Slot(0, 0, P) = 0
        BY <1>1, <2>1, <4>1, Groups, Slots
      <4>3. InGroup(Closed(n, P), n, P) = n - Slot(0, Closed(n, P), P)
        BY <1>1, <4>1, Groups
      <4>4. QED
        BY <2>1, <4>2, <4>3
    <3>2. ParkOf(e, 0, n) = [index |-> 0, points |-> <<>>]
      BY <3>1 DEF ParkOf
    <3>3. <<>> \in Seq(Nat)
      OBVIOUS
    <3>4. [index |-> 0, points |-> <<>>] \in OpenPark
      BY <3>3 DEF OpenPark
    <3>5. QED
      BY <3>1, <3>2, <3>4
  <2>2. CASE n # 0
    <3>1. n \in 1 .. Len(e) /\ Closed(n, P) \in 0 .. Closed(n, P)
      BY <1>1, <2>2, Groups
    <3>2. ParkOf(e, Closed(n, P), n) \in Park
      BY <3>1, ParkType
    <3>3. QED
      BY <3>2 DEF Park, OpenPark
  <2>3. QED
    BY <2>1, <2>2
<1>5. t \in Slices
  <2>1. ParkOf(e, Closed(m, P), m) \in OpenPark
    <3>1. m \in 0 .. Len(e)
      BY <1>2, <1>3
    <3>2. QED
      BY <1>4, <3>1
  <2>2. <<>> \in Seq(OpenPark)
    OBVIOUS
  <2>3. QED
    BY <2>1, <2>2 DEF Slices
<1>6. PICK g \in [0 .. l -> Slices] :
            /\ s = g[l] /\ g[0] = t
            /\ \A x \in 1 .. l : g[x] = SlicePoint(g[x - 1], block[x])
  <2> HIDE DEF t
  <2>1. s = Sliced(t, block)
    BY DEF t
  <2>2. QED
    BY <1>5, <2>1, SlicedSteps
<1> DEFINE S == {k \in 0 .. l : Ok(g[k], k)}
<1>7. 0 \in S
  <2>1. g[0].index = off /\ g[0].park = ParkOf(e, Closed(m, P), m) /\ g[0].parks = <<>>
    BY <1>6
  <2>2. C(0) - C(0) = 0 /\ Len(<<>>) = 0
    BY <1>1, <1>2
  <2> HIDE DEF C, M
  <2>3. Ok(g[0], 0)
    BY <1>1, <1>3, <2>1, <2>2
  <2> HIDE DEF Ok
  <2>4. QED
    BY <1>3, <2>3
<1>8. ASSUME NEW k \in 1 .. l, k - 1 \in S PROVE k \in S
  <2> DEFINE u == g[k - 1]
             v == g[k]
             x == block[k]
  <2>1. k - 1 \in 0 .. l /\ k \in 0 .. l /\ Ok(u, k - 1)
    BY <1>8
  <2>2. v = SlicePoint(u, x) /\ u \in Slices /\ x \in Entry /\ v \in Slices
    BY <1>1, <1>6, <2>1
  <2>3. CASE off + k > MaxPos
    <3>1. u.index >= MaxPos
      BY <1>1, <2>1, <2>3
    <3>2. v = u
      BY <2>2, <3>1 DEF SlicePoint
    <3>3. M(k - 1) = M(k)
      BY <1>1, <2>1, <2>3 DEF AtMost
    <3>4. C(k - 1) = C(k)
      BY <3>3
    <3> HIDE DEF u, v, M, C
    <3>5. Ok(v, k)
      BY <1>1, <2>1, <2>3, <3>1, <3>2, <3>3, <3>4
    <3> HIDE DEF Ok
    <3>6. QED
      BY <2>1, <3>5 DEF v
  <2>4. CASE off + k <= MaxPos
    <3> DEFINE n == M(k - 1)
               c == C(k - 1)
    <3>1. u.index = n /\ n = (off + k) - 1 /\ M(k) = n + 1 /\ ~(u.index >= MaxPos) /\ v.index = n + 1
      <4>1. off + (k - 1) <= MaxPos /\ off + (k - 1) = (off + k) - 1 /\ (off + k) - 1 < MaxPos
        BY <1>1, <2>1, <2>4
      <4>2. u.index = off + (k - 1)
        BY <2>1, <4>1
      <4>3. n = (off + k) - 1 /\ M(k) = off + k
        BY <1>1, <2>4, <4>1 DEF AtMost
      <4>4. ~(u.index >= MaxPos)
        BY <1>1, <4>1, <4>2
      <4> HIDE DEF u, v, n
      <4>5. v.index = u.index + 1
        BY <2>2, <4>4 DEF SlicePoint
      <4>6. QED
        BY <1>1, <4>1, <4>2, <4>3, <4>4, <4>5
    <3>2. n \in 0 .. Len(e) - 1 /\ e[n + 1] = x
      <4>1. off + k <= Len(e) /\ e[off + k] = x
        BY <2>4
      <4>2. QED
        BY SMTT(40), <1>1, <3>1, <4>1
    <3>3. c \in Nat /\ C(0) <= c /\ C(0) \in Nat /\ n \in Nat
      BY SMTT(40), <1>2, <1>3, <2>1, <3>2
    <3>4. /\ u.park = ParkOf(e, c, n) /\ Len(u.parks) = c - C(0)
          /\ \A j \in 1 .. c - C(0) : u.parks[j] = ParkOf(e, (C(0) + j) - 1, Len(e))
      BY <2>1
    <3>5. u.park \in OpenPark /\ u.parks \in Seq(OpenPark)
      BY <2>2 DEF Slices
    <3>6. C(k) = Closed(n + 1, P) /\ c = Closed(n, P)
      BY <3>1
    <3> HIDE DEF u, v, x, n, c
    <3>7. CASE ParkBoundary(n)
      <4>1. /\ Closed(n + 1, P) = c + 1
            /\ ParkOf(e, c, n) = ParkOf(e, c, Len(e))
            /\ ParkOf(e, Closed(n + 1, P), n + 1) = [index |-> c + 1, points |-> <<x.point>>]
        BY <3>2, <3>6, <3>7, ParkStep
      <4>2. v.parks = Append(u.parks, u.park) /\ v.park = [index |-> u.park.index + 1, points |-> <<x.point>>]
        BY <2>2, <3>1, <3>7 DEF SlicePoint
      <4>3. u.park.index = c
        BY <3>4 DEF ParkOf
      <4>4. v.park = ParkOf(e, C(k), M(k))
        BY <3>1, <3>6, <4>1, <4>2, <4>3
      <4>5. /\ Len(v.parks) = Len(u.parks) + 1 /\ v.parks[Len(u.parks) + 1] = u.park
            /\ \A j \in 1 .. Len(u.parks) : v.parks[j] = u.parks[j]
        BY <3>5, <4>2, AppendedElement
      <4>6. ASSUME NEW j \in 1 .. (c + 1) - C(0) PROVE v.parks[j] = ParkOf(e, (C(0) + j) - 1, Len(e))
        <5>1. j \in 1 .. c - C(0) \/ (j = (c - C(0)) + 1 /\ (C(0) + j) - 1 = c)
          <6> DEFINE z == C(0)
          <6>1. z \in Nat /\ z <= c /\ c \in Nat /\ j \in 1 .. (c + 1) - z
            BY <3>3
          <6> HIDE DEF z
          <6>2. j \in 1 .. c - z \/ (j = (c - z) + 1 /\ (z + j) - 1 = c)
            BY <6>1
          <6>3. QED
            BY <6>2 DEF z
        <5>2. CASE j \in 1 .. c - C(0)
          BY <3>4, <4>5, <5>2
        <5>3. CASE j = (c - C(0)) + 1 /\ (C(0) + j) - 1 = c
          BY <3>4, <4>1, <4>5, <5>3
        <5>4. QED
          BY <5>1, <5>2, <5>3
      <4>7. C(k) - C(0) = (c + 1) - C(0) /\ Len(v.parks) = C(k) - C(0)
        BY <3>3, <3>4, <3>6, <4>1, <4>5
      <4>8. (off + k <= MaxPos => v.index = off + k) /\ (off + k > MaxPos => v.index >= MaxPos)
        BY <1>1, <2>4, <3>1
      <4> HIDE DEF C, M
      <4>9. Ok(v, k)
        BY <4>4, <4>6, <4>7, <4>8
      <4> HIDE DEF Ok
      <4>10. QED
        BY <2>1, <4>9 DEF v
    <3>8. CASE ~ParkBoundary(n)
      <4>1. /\ Closed(n + 1, P) = c
            /\ ParkOf(e, Closed(n + 1, P), n + 1) = [ParkOf(e, c, n) EXCEPT !.points = Append(@, x.point)]
        BY <3>2, <3>6, <3>8, ParkStep
      <4>2. v.parks = u.parks /\ v.park = [u.park EXCEPT !.points = Append(@, x.point)]
        BY <2>2, <3>1, <3>8 DEF SlicePoint
      <4>3. v.park = ParkOf(e, C(k), M(k))
        BY <3>1, <3>4, <3>6, <4>1, <4>2
      <4>4. C(k) - C(0) = c - C(0)
        BY <3>6, <4>1
      <4>5. (off + k <= MaxPos => v.index = off + k) /\ (off + k > MaxPos => v.index >= MaxPos)
        BY <1>1, <2>4, <3>1
      <4> HIDE DEF C, M
      <4>6. Ok(v, k)
        BY <3>4, <4>2, <4>3, <4>4, <4>5
      <4> HIDE DEF Ok
      <4>7. QED
        BY <2>1, <4>6 DEF v
    <3>9. QED
      BY <3>7, <3>8
  <2>5. QED
    BY <1>1, <2>3, <2>4
<1> HIDE DEF S
<1>9. \A k \in 0 .. l : k \in S
  <2> HIDE DEF l
  <2>1. QED
    BY <1>1, <1>7, <1>8, Induction
<1>10. Ok(s, l)
  <2>1. l \in S
    BY <1>3, <1>9
  <2> HIDE DEF Ok
  <2>2. QED
    BY <1>6, <2>1 DEF S
<1>11. M(l) \in 0 .. Len(e) /\ M(0) \in 0 .. Len(e) /\ M(0) <= M(l) /\ C(0) \in Nat /\ C(l) \in Nat /\ C(0) <= C(l)
  BY <1>2, <1>3
<1>12. s.parks \in Seq(Park)
  <2>1. s \in Slices
    BY <1>3, <1>6
  <2>2. s.parks \in Seq(OpenPark)
    BY <2>1 DEF Slices
  <2>3. Len(s.parks) = C(l) - C(0) /\ \A j \in 1 .. C(l) - C(0) : s.parks[j] = ParkOf(e, (C(0) + j) - 1, Len(e))
    BY <1>10
  <2>4. ASSUME NEW j \in 1 .. Len(s.parks) PROVE s.parks[j] \in Park
    <3> DEFINE i == (C(0) + j) - 1
    <3>1. i \in 0 .. C(l) - 1
      BY SMTT(40), <1>11, <2>3
    <3>2. Len(e) > 0 /\ C(l) <= Closed(Len(e), P) /\ Closed(Len(e), P) \in Nat
      <4> HIDE DEF M
      <4>1. C(l) <= Closed(Len(e), P) /\ Closed(Len(e), P) \in Nat
        <5> DEFINE n == M(l)
        <5>1. n \in Nat /\ n <= Len(e) /\ C(l) = Closed(n, P)
          BY <1>1, <1>11
        <5>2. Len(e) \in Nat /\ P \in Nat \ {0}
          BY <1>1
        <5> HIDE DEF n, C, P, l
        <5>3. Closed(n, P) <= Closed(Len(e), P)
          BY <5>1, <5>2, GroupsMonotone
        <5>4. Closed(Len(e), P) \in Nat
          BY <5>2, Groups
        <5>5. QED
          BY <5>1, <5>3, <5>4
      <4>2. Len(e) = 0 => Closed(Len(e), P) = 0
        BY <1>1, Groups
      <4>3. QED
        BY <1>1, <1>11, <3>1, <4>1, <4>2
    <3>3. Len(e) \in 1 .. Len(e) /\ i \in 0 .. Closed(Len(e), P)
      BY SMTT(40), <1>1, <1>11, <3>1, <3>2
    <3> HIDE DEF i, C, M
    <3>4. ParkOf(e, i, Len(e)) \in Park
      BY <3>3, ParkType
    <3>5. QED
      BY <2>3, <3>4 DEF i
  <2> DEFINE q == s.parks
  <2>5. q \in Seq(OpenPark) /\ \A j \in 1 .. Len(q) : q[j] \in Park
    BY <2>2, <2>4
  <2> HIDE DEF C, M, q
  <2>6. Len(q) \in Nat /\ q = [j \in 1 .. Len(q) |-> q[j]]
    BY <2>5
  <2>7. q \in Seq(Park)
    BY <2>5, <2>6
  <2>8. QED
    BY <2>7 DEF q
<1>13. QED
  <2>1. s.park = ParkOf(e, C(l), M(l)) /\ Len(s.parks) = C(l) - C(0)
        /\ \A j \in 1 .. C(l) - C(0) : s.parks[j] = ParkOf(e, (C(0) + j) - 1, Len(e))
    BY <1>10
  <2>2. C(l) = Closed(m2, P)
    BY <1>3
  <2> HIDE DEF C, M
  <2>3. QED
    BY <1>3, <1>11, <1>12, <2>1, <2>2

-----------------------------------------------------------------------------
(* What phase 4 makes of T *)

ArrayOf(T, i, n) ==
    [j \in 1 .. InGroup(i, n, kEntriesPerPark) |-> T[Slot(0, i, kEntriesPerPark) + j].pos]
DeltasOf(T, c, n) ==
    [j \in 1 .. InGroup(c, n, kCheckpoint1Interval) - 1 |->
        T[Slot(0, c, kCheckpoint1Interval) + (j + 1)].key - T[Slot(0, c, kCheckpoint1Interval) + j].key]

\* Where the tables begin, when there are n entries; C1 and C2 follow each other.
NumC1(n) == Opened(n, kCheckpoint1Interval)
NumC2(n) == Opened(NumC1(n), kCheckpoint2Interval)
NumC(n) == NumC1(n) + NumC2(n) + 2
Begin7(n) == Slot(L_final_begin, Opened(n, kEntriesPerPark), ParkSize)
BeginC(n) == Slot(Begin7(n), Closed(n, kEntriesPerPark) + 1, P7Size)
BeginC3(n) == Slot(BeginC(n), NumC(n), C1Size)
EndC3(n) == Slot(BeginC3(n), NumC1(n), C3Size)

\* The key that is checkpoint c, and entry i of C1 and C2
Checkpoint(T, c) == T[Slot(0, c, kCheckpoint1Interval) + 1].key
C2Of(T, m) == [c \in 1 .. m |-> Checkpoint(T, Slot(0, c - 1, kCheckpoint2Interval))]
EntryOfC(T, i, n) ==
    IF i < NumC1(n) THEN Checkpoint(T, i)
    ELSE IF NumC1(n) < i /\ i < NumC(n) - 1 THEN C2Of(T, NumC2(n))[i - NumC1(n)]
    ELSE 0

KeyPos == [key : 0 .. 255, pos : Nat]

\* The tables of phase 4 have sizes and places.
LEMMA SecondSizes ==
    ASSUME NEW n \in Nat
    PROVE  /\ NumC1(n) \in Nat /\ NumC2(n) \in Nat /\ NumC(n) \in Nat
           /\ Begin7(n) \in Nat /\ BeginC(n) \in Nat /\ BeginC3(n) \in Nat /\ EndC3(n) \in Nat
           /\ Closed(n, kEntriesPerPark) \in Nat /\ Opened(n, kEntriesPerPark) \in Nat
           /\ Closed(n, kCheckpoint1Interval) \in Nat
<1>1. /\ NumC1(n) \in Nat /\ Closed(n, kEntriesPerPark) \in Nat /\ Opened(n, kEntriesPerPark) \in Nat
      /\ Closed(n, kCheckpoint1Interval) \in Nat
  BY Bounds, Groups DEF NumC1
<1>2. NumC2(n) \in Nat
  BY <1>1, Bounds, Groups DEF NumC2
<1>3. NumC(n) \in Nat
  BY <1>1, <1>2 DEF NumC
<1>4. Begin7(n) \in Nat
  BY <1>1, Bounds, Slots DEF Begin7
<1>5. BeginC(n) \in Nat
  <2>1. Closed(n, kEntriesPerPark) + 1 \in Nat
    BY <1>1
  <2>2. QED
    BY <1>4, <2>1, Bounds, Slots DEF BeginC
<1>6. BeginC3(n) \in Nat
  BY <1>3, <1>5, Bounds, Slots DEF BeginC3
<1>7. EndC3(n) \in Nat
  BY <1>1, <1>6, Bounds, Slots DEF EndC3
<1>8. QED
  BY <1>1, <1>2, <1>3, <1>4, <1>5, <1>6, <1>7

\* A group is where the entries are.
LEMMA GroupPlace ==
    ASSUME NEW n \in Nat, NEW size \in Nat \ {0}, NEW i \in 0 .. Closed(n, size)
    PROVE  /\ i \in Nat /\ Slot(0, i, size) \in Nat /\ InGroup(i, n, size) \in 0 .. size
           /\ Slot(0, i, size) + InGroup(i, n, size) <= n
           /\ n > 0 => InGroup(i, n, size) > 0
<1> DEFINE c == Closed(n, size)
<1>1. /\ c \in Nat /\ InGroup(c, n, size) = n - Slot(0, c, size) /\ InGroup(c, n, size) \in 0 .. size
      /\ Slot(0, c, size) \in Nat /\ (n > 0 => Slot(0, c, size) < n)
  BY Groups
<1>2. i \in Nat
  BY <1>1
<1>3. CASE i = c
  BY <1>1, <1>2, <1>3
<1>4. CASE i # c
  <2>1. i \in 0 .. c - 1
    BY <1>1, <1>4
  <2>2. InGroup(i, n, size) = size /\ Slot(0, i, size) + size < n /\ Slot(0, i, size) \in Nat
    BY <2>1, FullGroup
  <2>3. QED
    BY <1>2, <2>2
<1>5. QED
  BY <1>3, <1>4

\* A park of P7 is a sequence of positions.
LEMMA ArrayType ==
    ASSUME NEW T \in Seq(KeyPos), NEW n \in 0 .. Len(T), NEW i \in 0 .. Closed(n, kEntriesPerPark)
    PROVE  /\ ArrayOf(T, i, n) \in Seq(Nat) /\ Len(ArrayOf(T, i, n)) = InGroup(i, n, kEntriesPerPark)
           /\ \A j \in 1 .. InGroup(i, n, kEntriesPerPark) :
                ArrayOf(T, i, n)[j] = T[Slot(0, i, kEntriesPerPark) + j].pos
<1> DEFINE l == InGroup(i, n, kEntriesPerPark)
           b == Slot(0, i, kEntriesPerPark)
<1>1. n \in Nat /\ l \in Nat /\ b \in Nat /\ b + l <= n /\ n <= Len(T) /\ Len(T) \in Nat
  BY Bounds, GroupPlace
<1> HIDE DEF l, b
<1>2. ASSUME NEW j \in 1 .. l PROVE T[b + j].pos \in Nat
  <2>1. b + j \in 1 .. Len(T)
    BY <1>1
  <2>2. T[b + j] \in KeyPos
    BY <2>1
  <2>3. QED
    BY <2>2 DEF KeyPos
<1> DEFINE s == [j \in 1 .. l |-> T[b + j].pos]
<1>3. s \in Seq(Nat) /\ Len(s) = l /\ \A j \in 1 .. l : s[j] = T[b + j].pos
  BY <1>1, <1>2
<1>4. ArrayOf(T, i, n) = s
  BY DEF ArrayOf, l, b
<1> HIDE DEF s
<1>5. QED
  BY <1>3, <1>4 DEF l, b

\* Sequences that grow by one element
LEMMA Grown ==
    ASSUME NEW V, NEW l \in Nat, NEW s \in Seq(V), NEW t \in Seq(V), Len(s) = l, Len(t) = l + 1,
           \A j \in 1 .. l : t[j] = s[j]
    PROVE  t = Append(s, t[l + 1])
<1> DEFINE x == t[l + 1]
           u == Append(s, x)
<1>1. x \in V
  <2>1. l + 1 \in 1 .. Len(t)
    OBVIOUS
  <2>2. QED
    BY <2>1
<1> HIDE DEF x
<1>2. u \in Seq(V) /\ Len(u) = l + 1 /\ u[l + 1] = x /\ \A j \in 1 .. l : u[j] = s[j]
  BY <1>1, AppendedElement
<1> HIDE DEF u
<1>3. \A j \in 1 .. l + 1 : j = l + 1 \/ j \in 1 .. l
  OBVIOUS
<1>4. \A j \in 1 .. Len(t) : t[j] = u[j]
  BY <1>2, <1>3 DEF x
<1>5. t = u
  BY ONLY <1>2, <1>4, SameSequence, t \in Seq(V), Len(t) = l + 1
<1>6. QED
  BY <1>5 DEF u, x

\* The position of the entry behind n others opens an array or joins the last.
LEMMA ArrayStep ==
    ASSUME NEW T \in Seq(KeyPos), NEW n \in 0 .. Len(T) - 1, NEW N \in Nat, Len(T) <= N
    PROVE  /\ ParkBoundary(n) =>
                /\ Closed(n + 1, kEntriesPerPark) = Closed(n, kEntriesPerPark) + 1
                /\ ArrayOf(T, Closed(n, kEntriesPerPark), n) = ArrayOf(T, Closed(n, kEntriesPerPark), N)
                /\ ArrayOf(T, Closed(n + 1, kEntriesPerPark), n + 1) = <<T[n + 1].pos>>
           /\ ~ParkBoundary(n) =>
                /\ Closed(n + 1, kEntriesPerPark) = Closed(n, kEntriesPerPark)
                /\ ArrayOf(T, Closed(n + 1, kEntriesPerPark), n + 1) =
                        Append(ArrayOf(T, Closed(n, kEntriesPerPark), n), T[n + 1].pos)
<1> DEFINE P == kEntriesPerPark
           c == Closed(n, P)
           d == Closed(n + 1, P)
           l == InGroup(c, n, P)
           b == Slot(0, c, P)
<1>1. P \in Nat \ {0} /\ n \in Nat /\ n + 1 \in Nat /\ n + 1 <= Len(T) /\ Len(T) \in Nat /\ n + 1 <= N
  BY Bounds
<1>2. /\ c \in Nat /\ d \in Nat /\ l = n - b /\ l \in 0 .. P /\ b \in Nat
      /\ InGroup(d, n + 1, P) = (n + 1) - Slot(0, d, P)
  BY <1>1, Groups
<1>3. CASE ParkBoundary(n)
  <2>1. n % P = 0 /\ n > 0
    BY <1>3 DEF ParkBoundary
  <2>2. d = Opened(n, P) /\ Slot(0, d, P) = n /\ InGroup(d, n + 1, P) = 1 /\ l = P /\ Opened(n, P) = c + 1
    <3>1. n % P = 0 => /\ Opened(n + 1, P) = Opened(n, P) + 1 /\ d = Opened(n, P)
                       /\ Slot(0, Opened(n, P), P) = n /\ InGroup(Opened(n, P), n + 1, P) = 1
                       /\ n > 0 => l = P
      BY <1>1, GroupStep
    <3>2. n > 0 => Opened(n, P) = c + 1
      BY <1>1, Groups
    <3>3. QED
      BY <2>1, <3>1, <3>2
  <2>3. ArrayOf(T, d, n + 1) = [j \in 1 .. 1 |-> T[n + j].pos]
    BY <2>2 DEF ArrayOf
  <2>4. [j \in 1 .. 1 |-> T[n + j].pos] = <<T[n + 1].pos>>
    OBVIOUS
  <2>5. InGroup(c, N, P) = P
    <3>1. d <= Closed(N, P) /\ Closed(N, P) \in Nat
      BY <1>1, GroupsMonotone, Groups
    <3>2. c \in 0 .. Closed(N, P) - 1
      BY <1>2, <2>2, <3>1
    <3>3. QED
      BY <1>1, <3>2, FullGroup
  <2>6. ArrayOf(T, c, n) = ArrayOf(T, c, N)
    BY <2>2, <2>5 DEF ArrayOf
  <2>7. QED
    BY <1>3, <2>2, <2>3, <2>4, <2>6
<1>4. CASE ~ParkBoundary(n)
  <2>1. n % P # 0 \/ n = 0
    BY <1>1, <1>4 DEF ParkBoundary
  <2>2. d = c /\ InGroup(d, n + 1, P) = l + 1
    <3>1. CASE n = 0
      <4>1. c = 0 /\ d = 0 /\ Slot(0, 0, P) = 0
        <5>1. c = 0
          BY <1>1, <3>1, Groups
        <5>2. d = n \div P
          BY <1>1, GroupStep
        <5>3. Slot(0, 0, P) \div P = 0 /\ Slot(0, 0, P) = 0
          <6>1. 0 \in Nat /\ 0 \in 0 .. P - 1
            BY <1>1
          <6>2. Slot(0, 0, P) \div P = 0
            BY ONLY <1>1, <6>1, DivUnique
          <6>3. Slot(0, 0, P) = 0
            BY ONLY <1>1, <6>1, Slots
          <6>4. QED
            BY <6>2, <6>3
        <5>4. QED
          BY <3>1, <5>1, <5>2, <5>3
      <4>2. l = 0
        BY <1>2, <3>1
      <4>3. InGroup(d, n + 1, P) = 1
        BY <1>2, <3>1, <4>1
      <4> HIDE DEF l, d, c
      <4>4. QED
        BY <4>1, <4>2, <4>3
    <3>2. CASE n % P # 0
      <4>1. n % P # 0 => d = c /\ InGroup(c, n + 1, P) = l + 1
        BY <1>1, GroupStep
      <4>2. QED
        BY <3>2, <4>1
    <3>3. QED
      BY <2>1, <3>1, <3>2
  <2> DEFINE s == ArrayOf(T, c, n)
             t == ArrayOf(T, d, n + 1)
  <2>3. s \in Seq(Nat) /\ Len(s) = l /\ \A j \in 1 .. l : s[j] = T[b + j].pos
    <3>1. n \in 0 .. Len(T) /\ c \in 0 .. Closed(n, P)
      BY <1>1, <1>2
    <3>2. QED
      BY <3>1, ArrayType
  <2>4. t \in Seq(Nat) /\ Len(t) = l + 1 /\ \A j \in 1 .. l + 1 : t[j] = T[b + j].pos
    <3>1. n + 1 \in 0 .. Len(T) /\ d \in 0 .. Closed(n + 1, P)
      BY <1>1, <1>2
    <3>2. t \in Seq(Nat) /\ Len(t) = InGroup(d, n + 1, P) /\ \A j \in 1 .. InGroup(d, n + 1, P) : t[j] = T[Slot(0, d, P) + j].pos
      BY <3>1, ArrayType
    <3>3. QED
      BY <2>2, <3>2
  <2> HIDE DEF s, t, l, b
  <2>5. t = Append(s, t[l + 1])
    <3>1. \A j \in 1 .. l : j \in 1 .. l + 1
      BY <1>2
    <3>2. l \in Nat /\ \A j \in 1 .. l : t[j] = s[j]
      BY <1>2, <2>3, <2>4, <3>1
    <3>3. QED
      BY <2>3, <2>4, <3>2, Grown
  <2>6. t[l + 1] = T[n + 1].pos
    <3>1. l + 1 \in 1 .. l + 1 /\ b + (l + 1) = n + 1
      BY <1>1, <1>2
    <3>2. QED
      BY <2>4, <3>1
  <2>7. QED
    BY <1>4, <2>2, <2>5, <2>6 DEF s, t
<1>5. QED
  BY <1>3, <1>4

SortedKeys(T) == \A a, b \in 1 .. Len(T) : a < b => T[a].key <= T[b].key

\* Sorted keys have natural deltas.
LEMMA DeltasOfType ==
    ASSUME NEW T \in Seq(KeyPos), SortedKeys(T), NEW n \in 0 .. Len(T), NEW i \in 0 .. Closed(n, kCheckpoint1Interval)
    PROVE  /\ DeltasOf(T, i, n) \in Seq(Nat)
           /\ Len(DeltasOf(T, i, n)) = IF n = 0 THEN 0 ELSE InGroup(i, n, kCheckpoint1Interval) - 1
           /\ \A j \in 1 .. InGroup(i, n, kCheckpoint1Interval) - 1 :
                DeltasOf(T, i, n)[j] =
                    T[Slot(0, i, kCheckpoint1Interval) + (j + 1)].key - T[Slot(0, i, kCheckpoint1Interval) + j].key
<1> DEFINE l == InGroup(i, n, kCheckpoint1Interval)
           b == Slot(0, i, kCheckpoint1Interval)
           v(j) == T[b + (j + 1)].key - T[b + j].key
           s == [j \in 1 .. l - 1 |-> v(j)]
<1>1. n \in Nat /\ l \in Nat /\ b \in Nat /\ b + l <= n /\ n <= Len(T) /\ Len(T) \in Nat /\ (n > 0 => l > 0)
  BY Bounds, GroupPlace
<1>2. DeltasOf(T, i, n) = s
  BY DEF DeltasOf
<1> HIDE DEF l, b
<1>3. ASSUME NEW j \in 1 .. l - 1 PROVE v(j) \in Nat
  <2>1. b + j \in 1 .. Len(T) /\ b + (j + 1) \in 1 .. Len(T) /\ b + j < b + (j + 1)
    BY <1>1
  <2>2. T[b + j] \in KeyPos /\ T[b + (j + 1)] \in KeyPos
    BY <2>1
  <2>3. T[b + j].key \in 0 .. 255 /\ T[b + (j + 1)].key \in 0 .. 255
    BY <2>2 DEF KeyPos
  <2>4. T[b + j].key <= T[b + (j + 1)].key
    BY <2>1 DEF SortedKeys
  <2> DEFINE x == T[b + j].key
             y == T[b + (j + 1)].key
  <2>5. x \in 0 .. 255 /\ y \in 0 .. 255 /\ x <= y /\ v(j) = y - x
    BY <2>3, <2>4
  <2> HIDE DEF x, y, v
  <2>6. QED
    BY <2>5
<1>4. CASE n = 0
  <2>1. l - 1 = -1
    BY <1>1, <1>4
  <2>2. 1 .. l - 1 = {}
    BY <2>1
  <2>3. s = <<>>
    BY <2>2
  <2> HIDE DEF s
  <2>4. QED
    BY <1>2, <1>4, <2>2, <2>3 DEF l
<1>5. CASE n > 0
  <2>1. l - 1 \in Nat
    BY <1>1, <1>5
  <2> HIDE DEF v
  <2>2. s \in Seq(Nat) /\ Len(s) = l - 1 /\ \A j \in 1 .. l - 1 : s[j] = v(j)
    BY <1>3, <2>1
  <2> HIDE DEF s
  <2>3. QED
    BY <1>2, <1>5, <2>2 DEF l, v, b
<1>6. QED
  BY <1>1, <1>4, <1>5

-----------------------------------------------------------------------------
(* One entry more for phase 4 *)

\* The entry behind n others is a checkpoint or has a delta.
LEMMA DeltasStep ==
    ASSUME NEW T \in Seq(KeyPos), SortedKeys(T), NEW n \in 0 .. Len(T) - 1, NEW N \in Nat, Len(T) <= N
    PROVE  /\ ~NotACheckpoint(n) =>
                /\ NumC1(n + 1) = NumC1(n) + 1 /\ Closed(n + 1, kCheckpoint1Interval) = NumC1(n)
                /\ DeltasOf(T, Closed(n + 1, kCheckpoint1Interval), n + 1) = <<>>
                /\ Checkpoint(T, NumC1(n)) = T[n + 1].key
                /\ NumC1(n) < NumC1(N)
                /\ n > 0 => /\ NumC1(n) = Closed(n, kCheckpoint1Interval) + 1
                            /\ DeltasOf(T, Closed(n, kCheckpoint1Interval), n) = DeltasOf(T, Closed(n, kCheckpoint1Interval), N)
           /\ NotACheckpoint(n) =>
                /\ NumC1(n + 1) = NumC1(n) /\ n > 0
                /\ Closed(n + 1, kCheckpoint1Interval) = Closed(n, kCheckpoint1Interval)
                /\ DeltasOf(T, Closed(n + 1, kCheckpoint1Interval), n + 1) =
                        Append(DeltasOf(T, Closed(n, kCheckpoint1Interval), n), T[n + 1].key - T[n].key)
<1> DEFINE P == kCheckpoint1Interval
           c == Closed(n, P)
           d == Closed(n + 1, P)
           l == InGroup(c, n, P)
           b == Slot(0, c, P)
<1>1. P \in Nat \ {0} /\ n \in Nat /\ n + 1 \in Nat /\ n + 1 <= Len(T) /\ Len(T) \in Nat /\ n + 1 <= N
  BY Bounds
<1>2. /\ c \in Nat /\ d \in Nat /\ l = n - b /\ l \in 0 .. P /\ b \in Nat
      /\ InGroup(d, n + 1, P) = (n + 1) - Slot(0, d, P)
  BY <1>1, Groups
<1>3. CASE ~NotACheckpoint(n)
  <2>1. n % P = 0
    BY <1>3 DEF NotACheckpoint
  <2>2. /\ Opened(n + 1, P) = Opened(n, P) + 1 /\ d = Opened(n, P)
        /\ Slot(0, Opened(n, P), P) = n /\ InGroup(Opened(n, P), n + 1, P) = 1
        /\ (n > 0 => l = P) /\ (n > 0 => Opened(n, P) = c + 1)
    <3>1. n % P = 0 => /\ Opened(n + 1, P) = Opened(n, P) + 1 /\ d = Opened(n, P)
                       /\ Slot(0, Opened(n, P), P) = n /\ InGroup(Opened(n, P), n + 1, P) = 1
                       /\ (n > 0 => l = P)
      BY <1>1, GroupStep
    <3>2. n > 0 => Opened(n, P) = c + 1
      BY <1>1, Groups
    <3>3. QED
      BY <2>1, <3>1, <3>2
  <2>3. DeltasOf(T, d, n + 1) = <<>>
    <3>1. InGroup(d, n + 1, P) - 1 = 0
      BY <2>2
    <3>2. DeltasOf(T, d, n + 1) = [j \in 1 .. 0 |-> T[Slot(0, d, P) + (j + 1)].key - T[Slot(0, d, P) + j].key]
      BY <3>1 DEF DeltasOf
    <3>3. QED
      BY <3>2
  <2>4. Checkpoint(T, NumC1(n)) = T[n + 1].key
    BY <2>2 DEF Checkpoint, NumC1
  <2>5. NumC1(n) < NumC1(N) /\ d <= Closed(N, P) /\ Closed(N, P) \in Nat
    <3>1. Opened(n + 1, P) <= Opened(N, P) /\ Opened(N, P) \in Nat /\ Opened(n, P) \in Nat
          /\ d <= Closed(N, P) /\ Closed(N, P) \in Nat
      BY <1>1, GroupsMonotone, Groups
    <3>2. QED
      BY <2>2, <3>1 DEF NumC1
  <2>6. ASSUME n > 0 PROVE DeltasOf(T, c, n) = DeltasOf(T, c, N)
    <3>1. c \in 0 .. Closed(N, P) - 1
      BY <1>2, <2>2, <2>5, <2>6
    <3>2. InGroup(c, N, P) = P
      BY <1>1, <3>1, FullGroup
    <3>3. l = P
      BY <2>2, <2>6
    <3>4. QED
      BY <3>2, <3>3 DEF DeltasOf
  <2>7. QED
    BY <1>3, <2>2, <2>3, <2>4, <2>5, <2>6 DEF NumC1
<1>4. CASE NotACheckpoint(n)
  <2>1. n % P # 0
    BY <1>4 DEF NotACheckpoint
  <2>2. d = c /\ InGroup(d, n + 1, P) = l + 1 /\ n > 0 /\ Opened(n + 1, P) = Opened(n, P)
    <3>1. n % P # 0 => d = c /\ InGroup(c, n + 1, P) = l + 1 /\ n > 0 /\ Opened(n + 1, P) = Opened(n, P)
      BY <1>1, GroupStep
    <3>2. QED
      BY <2>1, <3>1
  <2> DEFINE s == DeltasOf(T, c, n)
             t == DeltasOf(T, d, n + 1)
             v(j) == T[b + (j + 1)].key - T[b + j].key
  <2>3. s \in Seq(Nat) /\ Len(s) = l - 1 /\ \A j \in 1 .. l - 1 : s[j] = v(j)
    <3>1. n \in 0 .. Len(T) /\ c \in 0 .. Closed(n, P) /\ n # 0
      BY <1>1, <1>2, <2>2
    <3>2. QED
      BY <3>1, DeltasOfType
  <2>4. t \in Seq(Nat) /\ Len(t) = l /\ \A j \in 1 .. l : t[j] = v(j)
    <3>1. n + 1 \in 0 .. Len(T) /\ d \in 0 .. Closed(n + 1, P) /\ n + 1 # 0
      BY <1>1, <1>2
    <3>2. /\ t \in Seq(Nat) /\ Len(t) = InGroup(d, n + 1, P) - 1
          /\ \A j \in 1 .. InGroup(d, n + 1, P) - 1 :
                t[j] = T[Slot(0, d, P) + (j + 1)].key - T[Slot(0, d, P) + j].key
      BY <3>1, DeltasOfType
    <3>3. InGroup(d, n + 1, P) - 1 = l
      BY <1>2, <2>2
    <3>4. QED
      BY <2>2, <3>2, <3>3
  <2>5. l > 0 /\ l - 1 \in Nat /\ (l - 1) + 1 = l /\ l \in Nat
    <3>1. n > 0 => Slot(0, c, P) < n
      BY <1>1, Groups
    <3>2. QED
      BY <1>1, <1>2, <2>2, <3>1
  <2>6. v(l) = T[n + 1].key - T[n].key
    <3>1. b + l = n /\ b + (l + 1) = n + 1
      BY <1>1, <1>2
    <3>2. QED
      BY <3>1
  <2> HIDE DEF s, t, l, b, v
  <2>7. t = Append(s, t[(l - 1) + 1])
    <3> DEFINE k == l - 1
    <3>1. k \in Nat /\ Len(s) = k /\ Len(t) = k + 1
      BY <2>3, <2>4, <2>5
    <3>2. \A j \in 1 .. k : j \in 1 .. l
      BY <2>5
    <3>3. \A j \in 1 .. k : t[j] = s[j]
      BY <2>3, <2>4, <3>2
    <3> HIDE DEF k
    <3>4. t = Append(s, t[k + 1])
      BY <2>3, <2>4, <3>1, <3>3, Grown
    <3>5. QED
      BY <3>4 DEF k
  <2>8. t[(l - 1) + 1] = T[n + 1].key - T[n].key
    <3>1. l \in 1 .. l
      BY <2>5
    <3>2. QED
      BY <2>4, <2>5, <2>6, <3>1
  <2>9. QED
    BY <1>4, <2>2, <2>7, <2>8 DEF s, t, NumC1
<1>5. QED
  BY <1>3, <1>4

\* Every kCheckpoint2Interval-th checkpoint is in C2.
LEMMA C2Step ==
    ASSUME NEW T \in Seq(KeyPos), NEW n \in 0 .. Len(T) - 1, ~NotACheckpoint(n)
    PROVE  C2Of(T, NumC2(n + 1)) =
                IF n % (kCheckpoint1Interval * kCheckpoint2Interval) = 0
                THEN Append(C2Of(T, NumC2(n)), T[n + 1].key) ELSE C2Of(T, NumC2(n))
<1> DEFINE P == kCheckpoint1Interval
           Q == kCheckpoint2Interval
           c == NumC1(n)
           m == NumC2(n)
           q(j) == Checkpoint(T, Slot(0, j - 1, Q))
<1>1. P \in Nat \ {0} /\ Q \in Nat \ {0} /\ n \in Nat /\ n + 1 <= Len(T) /\ Len(T) \in Nat /\ n % P = 0
  BY Bounds DEF NotACheckpoint
<1>2. c \in Nat /\ m \in Nat /\ m = Opened(c, Q) /\ NumC1(n + 1) = c + 1 /\ Slot(0, c, P) = n
  <2>1. n % P = 0 => /\ Opened(n + 1, P) = Opened(n, P) + 1 /\ Slot(0, Opened(n, P), P) = n
    BY <1>1, GroupStep
  <2>2. QED
    BY <1>1, <2>1, SecondSizes DEF NumC1, NumC2
<1>3. n % (P * Q) = 0 <=> c % Q = 0
  BY <1>1, GroupsOfGroups DEF NumC1
<1>4. CASE c % Q = 0
  <2>1. NumC2(n + 1) = m + 1 /\ Slot(0, m, Q) = c
    <3>1. c % Q = 0 => /\ Opened(c + 1, Q) = Opened(c, Q) + 1 /\ Slot(0, Opened(c, Q), Q) = c
      BY <1>1, <1>2, GroupStep
    <3>2. QED
      BY <1>2, <1>4, <3>1 DEF NumC2
  <2>2. q(m + 1) = T[n + 1].key
    <3>1. (m + 1) - 1 = m
      BY <1>2
    <3>2. QED
      BY <1>2, <2>1, <3>1 DEF Checkpoint
  <2> DEFINE s == C2Of(T, m)
             t == C2Of(T, m + 1)
  <2>3. ASSUME NEW j \in 1 .. m + 1 PROVE q(j) \in Nat
    <3> DEFINE k == j - 1
    <3>1. k \in Nat /\ k <= m
      BY <1>2
    <3> HIDE DEF k
    <3>2. Slot(0, k, Q) \in Nat
      <4>1. 0 \in Nat
        OBVIOUS
      <4>2. QED
        BY ONLY <1>1, <3>1, <4>1, Slots
    <3>3. Slot(0, k, Q) <= Slot(0, m, Q)
      <4>1. 0 \in Nat /\ m \in Nat
        BY <1>2
      <4> HIDE DEF m
      <4>2. k <= m => Slot(0, k, Q) <= Slot(0, m, Q)
        BY ONLY <1>1, <3>1, <4>1, SlotOrder
      <4>3. QED
        BY <3>1, <4>2
    <3> DEFINE g == Slot(0, k, Q)
    <3>4. g \in Nat /\ g <= c
      BY <2>1, <3>2, <3>3
    <3> HIDE DEF g
    <3>5. Slot(0, g, P) \in Nat /\ Slot(0, g, P) <= n
      <4>1. 0 \in Nat /\ c \in Nat /\ Slot(0, c, P) = n
        BY <1>2
      <4> HIDE DEF c
      <4>2. Slot(0, g, P) \in Nat
        BY ONLY <1>1, <3>4, <4>1, Slots
      <4>3. g <= c => Slot(0, g, P) <= Slot(0, c, P)
        BY ONLY <1>1, <3>4, <4>1, SlotOrder
      <4>4. QED
        BY <3>4, <4>1, <4>2, <4>3
    <3> DEFINE p == Slot(0, g, P) + 1
    <3>6. p \in 1 .. Len(T)
      BY <1>1, <3>5
    <3>7. q(j) = T[p].key
      BY DEF Checkpoint, g, k
    <3> HIDE DEF p, q
    <3>8. T[p] \in KeyPos
      BY <3>6
    <3>9. T[p].key \in Nat
      <4> DEFINE x == T[p].key
      <4>1. x \in 0 .. 255
        BY <3>8 DEF KeyPos
      <4> HIDE DEF x
      <4>2. x \in Nat
        BY ONLY <4>1
      <4>3. QED
        BY <4>2 DEF x
    <3>10. QED
      BY <3>7, <3>9
  <2>4. /\ s = [j \in 1 .. m |-> q(j)] /\ t = [j \in 1 .. m + 1 |-> q(j)]
    BY DEF C2Of
  <2> HIDE DEF s, t, q, m
  <2>5. m + 1 \in Nat /\ m + 1 \in 1 .. m + 1 /\ \A j \in 1 .. m : j \in 1 .. m + 1
    BY <1>2
  <2>6. s \in Seq(Nat) /\ Len(s) = m /\ (\A j \in 1 .. m : s[j] = q(j))
    <3>1. \A j \in 1 .. m : q(j) \in Nat
      BY <2>3, <2>5
    <3>2. QED
      BY SMTT(40), <1>2, <2>4, <3>1
  <2>7. t \in Seq(Nat) /\ Len(t) = m + 1 /\ \A j \in 1 .. m + 1 : t[j] = q(j)
    BY <2>3, <2>4, <2>5
  <2>8. t = Append(s, t[m + 1])
    <3>1. \A j \in 1 .. m : t[j] = s[j]
      BY <2>5, <2>6, <2>7
    <3>2. QED
      BY <1>2, <2>6, <2>7, <3>1, Grown
  <2>9. t[m + 1] = T[n + 1].key
    BY <2>2, <2>5, <2>7
  <2>10. QED
    BY <1>3, <1>4, <2>1, <2>8, <2>9 DEF s, t, m
<1>5. CASE c % Q # 0
  <2>1. c % Q # 0 => Opened(c + 1, Q) = Opened(c, Q)
    BY <1>1, <1>2, GroupStep
  <2>2. NumC2(n + 1) = m
    BY <1>2, <1>5, <2>1 DEF NumC2
  <2>3. QED
    BY <1>3, <1>5, <2>2
<1>6. QED
  BY <1>4, <1>5

-----------------------------------------------------------------------------
(* One entry in the loop of phase 4 *)

PosPark == [offset : Nat, array : Seq(Nat)]
Reads == [index : Nat, array : Seq(Nat), deltas : Seq(Nat), prev_y : 0 .. 255, num_C1 : Nat,
          C2 : Seq(0 .. 255), writer_1 : Nat, writer_3 : Nat, parks : Seq(PosPark), sends : Seq(Given)]

\* The entry joins the park of P7, after a full one was given.
LEMMA P7StepIs ==
    ASSUME NEW s \in Reads, NEW x \in KeyPos
    PROVE  LET r == P7Step(s, x) IN
           /\ r \in Reads
           /\ r.index = s.index /\ r.deltas = s.deltas /\ r.prev_y = s.prev_y /\ r.num_C1 = s.num_C1
           /\ r.C2 = s.C2 /\ r.writer_1 = s.writer_1 /\ r.sends = s.sends
           /\ ParkBoundary(s.index) => /\ r.parks = Append(s.parks, [offset |-> s.writer_3, array |-> s.array])
                                       /\ r.writer_3 = s.writer_3 + P7Size /\ r.array = <<x.pos>>
           /\ ~ParkBoundary(s.index) => /\ r.parks = s.parks /\ r.writer_3 = s.writer_3
                                        /\ r.array = Append(s.array, x.pos)
<1> DEFINE y == [offset |-> s.writer_3, array |-> s.array]
           u == Append(s.parks, y)
           w == s.writer_3 + P7Size
           a == Append(s.array, x.pos)
<1>1. s.writer_3 \in Nat /\ s.array \in Seq(Nat) /\ s.parks \in Seq(PosPark) /\ x.pos \in Nat
  BY DEF Reads, KeyPos
<1>2. y \in PosPark
  BY <1>1 DEF PosPark
<1>3. u \in Seq(PosPark)
  <2> HIDE DEF y
  <2>1. QED
    BY <1>1, <1>2
<1>4. w \in Nat /\ a \in Seq(Nat) /\ <<x.pos>> \in Seq(Nat)
  BY <1>1, Bounds
<1>5. CASE ParkBoundary(s.index)
  <2>1. P7Step(s, x) = [s EXCEPT !.parks = u, !.writer_3 = w, !.array = <<x.pos>>]
    BY <1>5 DEF P7Step
  <2> DEFINE z == <<x.pos>>
  <2> HIDE DEF u, w, z
  <2>2. QED
    BY ZenonT(60), <1>3, <1>4, <1>5, <2>1 DEF Reads, u, w, z
<1>6. CASE ~ParkBoundary(s.index)
  <2>1. P7Step(s, x) = [s EXCEPT !.array = a]
    BY <1>6 DEF P7Step
  <2> HIDE DEF a
  <2>2. QED
    BY ZenonT(60), <1>4, <1>6, <2>1 DEF Reads, a
<1>7. QED
  BY <1>5, <1>6

-----------------------------------------------------------------------------
(* What phase 4 gives to the pools *)

ToPhase4(s) == \A n \in 1 .. Len(s) : s[n].to \notin {"park_threads", "L_add"}

\* The reading thread has one thing more to give.
LEMMA SentAppend ==
    ASSUME NEW s \in Seq(Given), NEW x \in Given
    PROVE  /\ Append(s, x) \in Seq(Given)
           /\ InAll(Sent(Append(s, x))) = InAll(Sent(s)) \cup ToSet(Made(x.to, x.what))
           /\ NumAll(Sent(Append(s, x))) = NumAll(Sent(s)) + Len(Made(x.to, x.what))
           /\ NumAll(Sent(s)) \in Nat /\ Len(Made(x.to, x.what)) \in Nat
           /\ ToPhase4(s) /\ x.to \notin {"park_threads", "L_add"} => ToPhase4(Append(s, x))
<1> DEFINE I == Given
           W == Writes
           t == Append(s, x)
           b == Sent(s)
           c == Sent(t)
           m == Made(x.to, x.what)
           n == Len(s)
<1>1. /\ b \in Seq(Seq(W)) /\ Len(b) = n
      /\ \A j \in 1 .. n : b[j] = Made(s[j].to, s[j].what)
  BY SentType
<1>2. t \in Seq(I) /\ Len(t) = n + 1 /\ n \in Nat /\ t[n + 1] = x /\ \A j \in 1 .. n : t[j] = s[j]
  OBVIOUS
<1>3. /\ c \in Seq(Seq(W)) /\ Len(c) = Len(t)
      /\ \A j \in 1 .. Len(t) : c[j] = Made(t[j].to, t[j].what)
  <2> HIDE DEF t, c
  <2>1. QED
    BY <1>2, SentType DEF c
<1>4. m \in Seq(W)
  <2>1. x.to \in Stages /\ x.what \in InputsOf(x.to)
    BY DEF Given
  <2>2. QED
    BY <2>1, MadeType
<1>5. n + 1 \in 1 .. n + 1 /\ \A j \in 1 .. n : j \in 1 .. n + 1
  BY <1>2
<1>6. \A j \in 1 .. n + 1 : j = n + 1 \/ j \in 1 .. n
  BY <1>2
<1> HIDE DEF b, c, m, t, W, I, n
<1>7. c = Append(b, m)
  <2>1. c[n + 1] = m
    BY <1>2, <1>3, <1>5 DEF m
  <2>2. \A j \in 1 .. n : c[j] = b[j]
    BY <1>1, <1>2, <1>3, <1>5
  <2>3. c = Append(b, c[n + 1])
    <3>1. c \in Seq(Seq(W)) /\ b \in Seq(Seq(W)) /\ Len(b) = n /\ Len(c) = n + 1 /\ n \in Nat
      BY <1>1, <1>2, <1>3
    <3>2. QED
      BY ONLY <3>1, <2>2, Grown
  <2>4. QED
    BY <2>1, <2>3
<1>8. InAll(Append(b, m)) = InAll(b) \cup ToSet(m) /\ NumAll(Append(b, m)) = NumAll(b) + Len(m)
  BY ONLY <1>1, <1>4, BunchAppend
<1>9. NumAll(b) \in Nat /\ Len(m) \in Nat
  BY <1>1, <1>4, BunchNat
<1>10. ASSUME ToPhase4(s), x.to \notin {"park_threads", "L_add"} PROVE ToPhase4(t)
  <2>1. \A j \in 1 .. n : t[j].to \notin {"park_threads", "L_add"}
    BY <1>2, <1>10 DEF ToPhase4, n
  <2>2. \A j \in 1 .. n + 1 : t[j].to \notin {"park_threads", "L_add"}
    BY <1>2, <1>6, <1>10, <2>1
  <2>3. QED
    BY <1>2, <2>2 DEF ToPhase4
<1>11. QED
  BY <1>2, <1>7, <1>8, <1>9, <1>10 DEF b, c, m, t, I

\* What leads to a write of the deltas, and what is given to plot_write itself
LEMMA SentWrites ==
    ASSUME NEW o \in Nat, NEW size \in Nat, NEW y \in Nat, NEW d \in Seq(Nat)
    PROVE  /\ [to |-> "plot_write", what |-> <<Write(o, size, y)>>] \in Given
           /\ Made("plot_write", <<Write(o, size, y)>>) = <<Write(o, size, y)>>
           /\ [to |-> "delta_threads", what |-> [offset |-> o, deltas |-> d]] \in Given
           /\ Made("delta_threads", [offset |-> o, deltas |-> d]) = <<Write(o, C3Size, Encoded(d))>>
<1>1. <<Write(o, size, y)>> \in InputsOf("plot_write")
  BY DEF InputsOf, Writes, Data, Write
<1>2. [offset |-> o, deltas |-> d] \in InputsOf("delta_threads")
  BY DEF InputsOf
<1>3. "plot_write" \in Stages /\ "delta_threads" \in Stages
  BY StageNames
<1>4. [to |-> "plot_write", what |-> <<Write(o, size, y)>>] \in [to : {"plot_write"}, what : InputsOf("plot_write")]
  BY <1>1
<1>5. [to |-> "delta_threads", what |-> [offset |-> o, deltas |-> d]] \in [to : {"delta_threads"}, what : InputsOf("delta_threads")]
  BY <1>2
<1>6. /\ [to |-> "plot_write", what |-> <<Write(o, size, y)>>] \in Given
      /\ [to |-> "delta_threads", what |-> [offset |-> o, deltas |-> d]] \in Given
  <2> DEFINE U(q) == [to : {q}, what : InputsOf(q)]
             v == [to |-> "plot_write", what |-> <<Write(o, size, y)>>]
             w == [to |-> "delta_threads", what |-> [offset |-> o, deltas |-> d]]
  <2>1. Given = UNION {U(q) : q \in Stages} /\ v \in U("plot_write") /\ w \in U("delta_threads")
    BY <1>4, <1>5 DEF Given
  <2> HIDE DEF U, v, w
  <2>2. v \in Given /\ w \in Given
    BY <1>3, <2>1
  <2>3. QED
    BY <2>2 DEF v, w
<1>7. Made("plot_write", <<Write(o, size, y)>>) = <<Write(o, size, y)>>
  BY DEF Made, Pools
<1>8. Made("delta_threads", [offset |-> o, deltas |-> d]) = <<Write(o, C3Size, Encoded(d))>>
  BY DEF Made, Pools, Packed
<1>9. QED
  BY <1>6, <1>7, <1>8

\* Every kCheckpoint1Interval-th entry is written to C1, and closes the interval of deltas before it.
LEMMA CheckpointStepIs ==
    ASSUME NEW s \in Reads, NEW x \in KeyPos, NEW g \in Nat, begin_byte_C3 = g,
           NotACheckpoint(s.index) => s.prev_y <= x.key
    PROVE  LET r == CheckpointStep(s, x)
               w == {Write(s.writer_1, C1Size, x.key)}
               v == IF s.num_C1 = 0 THEN {} ELSE {Write(Slot(g, s.num_C1 - 1, C3Size), C3Size, Encoded(s.deltas))}
           IN
           /\ r \in Reads
           /\ r.index = s.index /\ r.array = s.array /\ r.writer_3 = s.writer_3 /\ r.parks = s.parks
           /\ ToPhase4(s.sends) => ToPhase4(r.sends)
           /\ NotACheckpoint(s.index) =>
                /\ r.deltas = Append(s.deltas, x.key - s.prev_y)
                /\ r.C2 = s.C2 /\ r.num_C1 = s.num_C1 /\ r.writer_1 = s.writer_1 /\ r.sends = s.sends
           /\ ~NotACheckpoint(s.index) =>
                /\ r.deltas = <<>> /\ r.num_C1 = s.num_C1 + 1 /\ r.writer_1 = s.writer_1 + C1Size
                /\ r.C2 = IF s.index % (kCheckpoint1Interval * kCheckpoint2Interval) = 0
                          THEN Append(s.C2, x.key) ELSE s.C2
                /\ InAll(Sent(r.sends)) = InAll(Sent(s.sends)) \cup w \cup v
                /\ NumAll(Sent(r.sends)) = NumAll(Sent(s.sends)) + 1 + (IF s.num_C1 = 0 THEN 0 ELSE 1)
                /\ NumAll(Sent(s.sends)) \in Nat
<1>1. /\ s.deltas \in Seq(Nat) /\ s.prev_y \in 0 .. 255 /\ x.key \in 0 .. 255 /\ s.num_C1 \in Nat /\ s.C2 \in Seq(0 .. 255)
      /\ s.writer_1 \in Nat /\ s.sends \in Seq(Given)
  BY DEF Reads, KeyPos
<1>2. CASE NotACheckpoint(s.index)
  <2> DEFINE a == x.key
             b == s.prev_y
             d == Append(s.deltas, (a - b) % 256)
  <2>1. a \in 0 .. 255 /\ b \in 0 .. 255 /\ b <= a
    BY <1>1, <1>2
  <2>2. CheckpointStep(s, x) = [s EXCEPT !.deltas = d]
    BY <1>2 DEF CheckpointStep
  <2>3. (a - b) % 256 = a - b /\ a - b \in Nat
    <3> HIDE DEF a, b
    <3>1. QED
      BY <2>1
  <2>4. d \in Seq(Nat) /\ d = Append(s.deltas, a - b)
    <3> HIDE DEF a, b
    <3>1. QED
      BY <1>1, <2>3
  <2> HIDE DEF d
  <2>5. QED
    BY ZenonT(60), <1>2, <2>2, <2>4 DEF Reads
<1>3. CASE ~NotACheckpoint(s.index)
  <2> DEFINE u == Write(s.writer_1, C1Size, x.key)
             p == [to |-> "plot_write", what |-> <<u>>]
             o == g + (s.num_C1 - 1) * C3Size
             q == [to |-> "delta_threads", what |-> [offset |-> o, deltas |-> s.deltas]]
             one == Append(s.sends, p)
             two == Append(one, q)
             ss == IF s.num_C1 = 0 THEN one ELSE two
             c == IF s.index % (kCheckpoint1Interval * kCheckpoint2Interval) = 0 THEN Append(s.C2, x.key) ELSE s.C2
             r == [s EXCEPT !.sends = ss, !.writer_1 = @ + C1Size, !.C2 = c, !.deltas = <<>>, !.num_C1 = @ + 1]
  <2>1. /\ p \in Given /\ Made(p.to, p.what) = <<u>> /\ p.to \notin {"park_threads", "L_add"}
    <3>1. s.writer_1 \in Nat /\ C1Size \in Nat /\ x.key \in Nat
      <4> DEFINE k == x.key
      <4>1. k \in 0 .. 255
        BY <1>1
      <4> HIDE DEF k
      <4>2. k \in Nat
        BY ONLY <4>1
      <4>3. QED
        BY <1>1, <4>2, Bounds DEF k
    <3>2. p \in Given /\ Made("plot_write", <<u>>) = <<u>>
      BY ZenonT(60), <1>1, <3>1, SentWrites
    <3>3. p.to = "plot_write" /\ p.what = <<u>>
      OBVIOUS
    <3> HIDE DEF u, p
    <3>4. QED
      BY <3>2, <3>3
  <2>2. s.num_C1 # 0 => o \in Nat /\ o = Slot(g, s.num_C1 - 1, C3Size)
    <3> DEFINE n == s.num_C1
    <3>1. n # 0 => n - 1 \in Nat
      BY <1>1
    <3> HIDE DEF n
    <3>2. n # 0 => g + (n - 1) * C3Size \in Nat
      BY <3>1, Bounds
    <3>3. QED
      BY <3>2 DEF Slot, n
  <2>3. s.num_C1 # 0 =>
          /\ q \in Given /\ Made(q.to, q.what) = <<Write(o, C3Size, Encoded(s.deltas))>> /\ q.to \notin {"park_threads", "L_add"}
    <3> HIDE DEF o
    <3>1. QED
      BY ZenonT(60), <1>1, <2>2, Bounds, SentWrites
  <2>4. CheckpointStep(s, x) = r
    <3>1. (s.sends \o <<p>>) \o <<>> = one
      <4> HIDE DEF p
      <4>1. QED
        BY <1>1, <2>1
    <3>2. s.num_C1 # 0 => (s.sends \o <<p>>) \o <<q>> = two
      <4> HIDE DEF p, q
      <4>1. one \in Seq(Given) /\ s.sends \o <<p>> = one
        BY <1>1, <2>1
      <4> HIDE DEF one
      <4>2. s.num_C1 # 0 => one \o <<q>> = Append(one, q)
        BY <2>3, <4>1
      <4>3. QED
        BY ONLY <4>1, <4>2
    <3>3. DeltaPark(s.deltas, s.num_C1) = [offset |-> o, deltas |-> s.deltas]
      BY DEF DeltaPark
    <3>4. CheckpointStep(s, x) =
            [s EXCEPT
                !.sends = (@ \o <<p>>) \o (IF s.num_C1 = 0 THEN <<>> ELSE <<q>>),
                !.writer_1 = @ + C1Size, !.C2 = c, !.deltas = <<>>, !.num_C1 = @ + 1]
      BY <1>3, <3>3 DEF CheckpointStep
    <3>5. (s.sends \o <<p>>) \o (IF s.num_C1 = 0 THEN <<>> ELSE <<q>>) = ss
      BY <3>1, <3>2
    <3> HIDE DEF p, q, one, two, ss, c
    <3>6. QED
      BY <3>4, <3>5
  <2> HIDE DEF o
  <2> DEFINE w == {u}
             v == {Write(o, C3Size, Encoded(s.deltas))}
  <2>5. /\ one \in Seq(Given) /\ InAll(Sent(one)) = InAll(Sent(s.sends)) \cup w
        /\ NumAll(Sent(one)) = NumAll(Sent(s.sends)) + 1 /\ NumAll(Sent(s.sends)) \in Nat
        /\ ToPhase4(s.sends) => ToPhase4(one)
    <3>1. ToSet(<<u>>) = w /\ Len(<<u>>) = 1
      BY DEF ToSet
    <3> HIDE DEF u, p, w
    <3>2. QED
      BY <1>1, <2>1, <3>1, SentAppend
  <2>6. s.num_C1 # 0 =>
        /\ two \in Seq(Given) /\ InAll(Sent(two)) = InAll(Sent(one)) \cup v
        /\ NumAll(Sent(two)) = NumAll(Sent(one)) + 1
        /\ ToPhase4(one) => ToPhase4(two)
    <3> DEFINE y == Write(o, C3Size, Encoded(s.deltas))
    <3>1. ToSet(<<y>>) = v /\ Len(<<y>>) = 1
      BY DEF ToSet
    <3> HIDE DEF y, one, q, v
    <3>2. QED
      BY <2>3, <2>5, <3>1, SentAppend DEF y
  <2>7. c \in Seq(0 .. 255)
    BY <1>1
  <2>8. ss \in Seq(Given) /\ (ToPhase4(s.sends) => ToPhase4(ss))
    BY <2>5, <2>6
  <2>9. InAll(Sent(ss)) = InAll(Sent(s.sends)) \cup w \cup (IF s.num_C1 = 0 THEN {} ELSE v)
        /\ NumAll(Sent(ss)) = NumAll(Sent(s.sends)) + 1 + (IF s.num_C1 = 0 THEN 0 ELSE 1)
    <3> HIDE DEF one, two, w, v
    <3>1. QED
      BY <2>5, <2>6
  <2> HIDE DEF c, ss
  <2>10. /\ r \in Reads /\ r.sends = ss /\ r.C2 = c /\ r.deltas = <<>> /\ r.num_C1 = s.num_C1 + 1
         /\ r.writer_1 = s.writer_1 + C1Size
         /\ r.index = s.index /\ r.array = s.array /\ r.writer_3 = s.writer_3 /\ r.parks = s.parks
    <3> DEFINE n1 == s.num_C1 + 1
               n2 == s.writer_1 + C1Size
               n3 == <<>>
    <3>1. n1 \in Nat /\ n2 \in Nat /\ n3 \in Seq(Nat)
      BY <1>1, Bounds
    <3>2. r = [s EXCEPT !.sends = ss, !.writer_1 = n2, !.C2 = c, !.deltas = n3, !.num_C1 = n1]
      OBVIOUS
    <3> HIDE DEF n1, n2, n3, r
    <3>3. /\ r.sends = ss /\ r.C2 = c /\ r.deltas = n3 /\ r.num_C1 = n1 /\ r.writer_1 = n2
          /\ r.index = s.index /\ r.array = s.array /\ r.writer_3 = s.writer_3 /\ r.parks = s.parks
          /\ r \in Reads
      <4> DEFINE r1 == [s EXCEPT !.sends = ss, !.C2 = c]
                 r2 == [r1 EXCEPT !.deltas = n3, !.num_C1 = n1, !.writer_1 = n2]
      <4>1. /\ r1 \in Reads /\ r1.sends = ss /\ r1.C2 = c /\ r1.index = s.index /\ r1.array = s.array
            /\ r1.writer_3 = s.writer_3 /\ r1.parks = s.parks
        BY ZenonT(60), <2>7, <2>8 DEF Reads
      <4>2. r = r2
        BY <3>2 DEF Reads
      <4> HIDE DEF r1
      <4>3. /\ r2 \in Reads /\ r2.deltas = n3 /\ r2.num_C1 = n1 /\ r2.writer_1 = n2 /\ r2.sends = r1.sends /\ r2.C2 = r1.C2
            /\ r2.index = r1.index /\ r2.array = r1.array /\ r2.writer_3 = r1.writer_3 /\ r2.parks = r1.parks
        BY ZenonT(60), <3>1, <4>1 DEF Reads
      <4> HIDE DEF r2
      <4>4. QED
        BY <4>1, <4>2, <4>3
    <3>4. QED
      BY <3>3 DEF n1, n2, n3
  <2> HIDE DEF r
  <2>11. v = {Write(Slot(g, s.num_C1 - 1, C3Size), C3Size, Encoded(s.deltas))} \/ s.num_C1 = 0
    BY <2>2
  <2>12. QED
    BY <1>3, <2>4, <2>5, <2>8, <2>9, <2>10, <2>11 DEF c
<1>4. QED
  BY <1>2, <1>3

-----------------------------------------------------------------------------
(* The loop of phase 4 *)

P7Write(T, i, N) == Write(Slot(Begin7(N), i, P7Size), P7Size, ArrayOf(T, i, N))
CWrite(T, i, N) == Write(Slot(BeginC(N), i, C1Size), C1Size, EntryOfC(T, i, N))
C3Write(T, i, N) == Write(Slot(BeginC3(N), i, C3Size), C3Size, Encoded(DeltasOf(T, i, N)))

P7Writes(T, m, N) == {P7Write(T, i, N) : i \in 0 .. m - 1}
CWrites(T, m, N) == {CWrite(T, i, N) : i \in 0 .. m - 1}
C3Writes(T, m, N) == {C3Write(T, i, N) : i \in 0 .. m - 1}

\* What the loop carries after n entries of T, when it began behind a of them
Loop(T, N, a, n, s) ==
    /\ s \in Reads /\ s.index = n
    /\ s.array = ArrayOf(T, Closed(n, kEntriesPerPark), n)
    /\ s.deltas = DeltasOf(T, Closed(n, kCheckpoint1Interval), n)
    /\ n > 0 => s.prev_y = T[n].key
    /\ s.num_C1 = NumC1(n)
    /\ s.C2 = C2Of(T, NumC2(n))
    /\ s.writer_1 = Slot(BeginC(N), NumC1(n), C1Size)
    /\ s.writer_3 = Slot(Begin7(N), Closed(n, kEntriesPerPark), P7Size)
    /\ ToSet(Made("p7_threads", s.parks)) \cup P7Writes(T, Closed(a, kEntriesPerPark), N) =
            P7Writes(T, Closed(n, kEntriesPerPark), N)
    /\ Len(s.parks) + Closed(a, kEntriesPerPark) = Closed(n, kEntriesPerPark)
    /\ ToPhase4(s.sends)
    /\ InAll(Sent(s.sends)) \cup CWrites(T, NumC1(a), N) \cup C3Writes(T, Closed(a, kCheckpoint1Interval), N) =
            CWrites(T, NumC1(n), N) \cup C3Writes(T, Closed(n, kCheckpoint1Interval), N)
    /\ NumAll(Sent(s.sends)) + NumC1(a) + Closed(a, kCheckpoint1Interval) =
            NumC1(n) + Closed(n, kCheckpoint1Interval)

\* One write more of a kind
LEMMA OneMore ==
    ASSUME NEW T, NEW N, NEW m \in Nat
    PROVE  /\ P7Writes(T, m + 1, N) = P7Writes(T, m, N) \cup {P7Write(T, m, N)}
           /\ CWrites(T, m + 1, N) = CWrites(T, m, N) \cup {CWrite(T, m, N)}
           /\ C3Writes(T, m + 1, N) = C3Writes(T, m, N) \cup {C3Write(T, m, N)}
           /\ P7Writes(T, 0, N) = {} /\ CWrites(T, 0, N) = {} /\ C3Writes(T, 0, N) = {}
<1>1. 0 .. (m + 1) - 1 = (0 .. m - 1) \cup {m} /\ 0 .. 0 - 1 = {}
  OBVIOUS
<1>2. QED
  BY <1>1 DEF P7Writes, CWrites, C3Writes

\* One park of P7 more
LEMMA MadeArrays ==
    ASSUME NEW ps \in Seq(PosPark), NEW y \in PosPark
    PROVE  /\ ToSet(Made("p7_threads", Append(ps, y))) = ToSet(Made("p7_threads", ps)) \cup {Write(y.offset, P7Size, y.array)}
           /\ Append(ps, y) \in Seq(PosPark) /\ Len(Append(ps, y)) = Len(ps) + 1 /\ Len(ps) \in Nat
           /\ Len(Made("p7_threads", ps)) = Len(ps)
           /\ Made("p7_threads", ps) \in Seq(Writes)
           /\ [to |-> "p7_threads", what |-> ps] \in Given
<1> DEFINE n == Len(ps)
           t == Append(ps, y)
           m(i) == Write(ps[i].offset, P7Size, ps[i].array)
           w(i) == Write(t[i].offset, P7Size, t[i].array)
<1>1. t \in Seq(PosPark) /\ Len(t) = n + 1 /\ n \in Nat /\ t[n + 1] = y /\ \A j \in 1 .. n : t[j] = ps[j]
  BY AppendedElement
<1>2. Made("p7_threads", ps) = [i \in 1 .. n |-> m(i)]
  BY DEF Made, Pools, Packed
<1>3. Made("p7_threads", t) = [i \in 1 .. Len(t) |-> w(i)]
  BY DEF Made, Pools, Packed
<1>4. ps \in InputsOf("p7_threads") /\ "p7_threads" \in Stages
  BY StageNames DEF InputsOf, PosPark
<1>5. Made("p7_threads", ps) \in Seq(Writes)
  BY <1>4, MadeType
<1>6. [to |-> "p7_threads", what |-> ps] \in Given
  <2> DEFINE U(q) == [to : {q}, what : InputsOf(q)]
             v == [to |-> "p7_threads", what |-> ps]
  <2>1. Given = UNION {U(q) : q \in Stages} /\ v \in U("p7_threads")
    BY <1>4 DEF Given
  <2> HIDE DEF U, v
  <2>2. v \in Given
    BY <1>4, <2>1
  <2>3. QED
    BY <2>2 DEF v
<1>7. ToSet(Made("p7_threads", ps)) = {m(i) : i \in 1 .. n} /\ Len(Made("p7_threads", ps)) = n
  <2> DEFINE z == Made("p7_threads", ps)
  <2>1. z = [i \in 1 .. n |-> m(i)]
    BY <1>2
  <2> HIDE DEF z, m
  <2>2. z \in Seq(Writes)
    BY <1>5 DEF z
  <2>3. Len(z) = n /\ DOMAIN z = 1 .. n
    BY <1>1, <2>1, <2>2
  <2>4. ToSet(z) = {m(i) : i \in 1 .. n}
    BY <2>1, <2>3 DEF ToSet
  <2>5. QED
    BY <2>3, <2>4 DEF z
<1>8. ToSet(Made("p7_threads", t)) = {w(i) : i \in 1 .. n + 1}
  <2> HIDE DEF w
  <2>1. Made("p7_threads", t) = [i \in 1 .. n + 1 |-> w(i)]
    BY <1>1, <1>3
  <2>2. DOMAIN [i \in 1 .. n + 1 |-> w(i)] = 1 .. n + 1
    OBVIOUS
  <2>3. QED
    BY <2>1, <2>2 DEF ToSet
<1>9. w(n + 1) = Write(y.offset, P7Size, y.array) /\ \A j \in 1 .. n : w(j) = m(j)
  BY <1>1
<1> HIDE DEF w, m
<1>10. 1 .. n + 1 = (1 .. n) \cup {n + 1}
  BY <1>1
<1>11. {w(i) : i \in 1 .. n + 1} = {m(i) : i \in 1 .. n} \cup {w(n + 1)}
  BY <1>9, <1>10
<1>12. QED
  BY <1>1, <1>5, <1>6, <1>7, <1>8, <1>9, <1>11

\* What is left to do for an entry after both
LEMMA ReadEntryIs ==
    ASSUME NEW s \in Reads, NEW x \in KeyPos, NEW r \in Reads, r = CheckpointStep(P7Step(s, x), x)
    PROVE  LET t == ReadEntry(s, x) IN
           /\ t \in Reads /\ t.index = r.index + 1 /\ t.array = r.array /\ t.deltas = r.deltas
           /\ t.prev_y = x.key /\ t.num_C1 = r.num_C1 /\ t.C2 = r.C2 /\ t.writer_1 = r.writer_1
           /\ t.writer_3 = r.writer_3 /\ t.parks = r.parks /\ t.sends = r.sends
<1> DEFINE k == x.key
           i == r.index + 1
           t == [r EXCEPT !.prev_y = k, !.index = i]
<1>1. k \in 0 .. 255 /\ i \in Nat
  <2>1. x.key \in 0 .. 255
    BY DEF KeyPos
  <2>2. r.index \in Nat
    BY DEF Reads
  <2>3. QED
    BY <2>1, <2>2
<1>2. ReadEntry(s, x) = t
  BY DEF ReadEntry
<1> HIDE DEF k, i
<1>3. /\ t \in Reads /\ t.index = i /\ t.array = r.array /\ t.deltas = r.deltas
      /\ t.prev_y = k /\ t.num_C1 = r.num_C1 /\ t.C2 = r.C2 /\ t.writer_1 = r.writer_1
      /\ t.writer_3 = r.writer_3 /\ t.parks = r.parks /\ t.sends = r.sends
  <2>1. r \in Reads
    OBVIOUS
  <2>2. QED
    BY ONLY ZenonT(60), <1>1, <2>1 DEF Reads
<1> HIDE DEF t
<1>4. QED
  BY <1>2, <1>3 DEF k, i

\* An entry that phase 4 reads: what it carries and what it gives stays a function of the entries read.
LEMMA LoopStep ==
    ASSUME NEW T \in Seq(KeyPos), SortedKeys(T), NEW N \in Nat, Len(T) <= N,
           NEW n \in 0 .. Len(T) - 1, NEW a \in 0 .. n, begin_byte_C3 = BeginC3(N),
           NEW s, Loop(T, N, a, n, s)
    PROVE  Loop(T, N, a, n + 1, ReadEntry(s, T[n + 1]))
<1> DEFINE P == kEntriesPerPark
           I == kCheckpoint1Interval
           x == T[n + 1]
           u == P7Step(s, x)
           v == CheckpointStep(u, x)
           t == ReadEntry(s, x)
           g == BeginC3(N)
<1>1. n \in Nat /\ n + 1 \in 1 .. Len(T) /\ x \in KeyPos /\ s \in Reads /\ g \in Nat /\ n + 1 \in Nat /\ n + 1 > 0
  <2>1. n + 1 \in 1 .. Len(T) /\ n \in Nat
    OBVIOUS
  <2>2. x \in KeyPos /\ n + 1 \in Nat /\ n + 1 > 0
    BY <2>1
  <2>3. s \in Reads
    BY DEF Loop
  <2>4. QED
    BY <2>1, <2>2, <2>3, SecondSizes
<1>2. /\ u \in Reads
      /\ u.index = s.index /\ u.deltas = s.deltas /\ u.prev_y = s.prev_y /\ u.num_C1 = s.num_C1
      /\ u.C2 = s.C2 /\ u.writer_1 = s.writer_1 /\ u.sends = s.sends
      /\ ParkBoundary(s.index) => /\ u.parks = Append(s.parks, [offset |-> s.writer_3, array |-> s.array])
                                  /\ u.writer_3 = s.writer_3 + P7Size /\ u.array = <<x.pos>>
      /\ ~ParkBoundary(s.index) => /\ u.parks = s.parks /\ u.writer_3 = s.writer_3
                                   /\ u.array = Append(s.array, x.pos)
  <2> HIDE DEF x
  <2>1. QED
    BY <1>1, P7StepIs
<1>3. NotACheckpoint(u.index) => /\ u.prev_y <= x.key /\ u.prev_y = T[n].key
  <2>1. u.index = n /\ (n > 0 => u.prev_y = T[n].key)
    BY <1>2 DEF Loop
  <2>2. NotACheckpoint(n) => n > 0
    BY <1>1, DeltasStep
  <2>3. n > 0 => T[n].key <= T[n + 1].key
    <3>1. n > 0 => n \in 1 .. Len(T) /\ n < n + 1
      BY <1>1
    <3>2. QED
      BY <1>1, <3>1 DEF SortedKeys
  <2> HIDE DEF u
  <2>4. QED
    BY <2>1, <2>2, <2>3
<1>4. LET w == {Write(u.writer_1, C1Size, x.key)}
          c == IF u.num_C1 = 0 THEN {} ELSE {Write(Slot(g, u.num_C1 - 1, C3Size), C3Size, Encoded(u.deltas))}
      IN
      /\ v \in Reads
      /\ v.index = u.index /\ v.array = u.array /\ v.writer_3 = u.writer_3 /\ v.parks = u.parks
      /\ ToPhase4(u.sends) => ToPhase4(v.sends)
      /\ NotACheckpoint(u.index) =>
           /\ v.deltas = Append(u.deltas, x.key - u.prev_y)
           /\ v.C2 = u.C2 /\ v.num_C1 = u.num_C1 /\ v.writer_1 = u.writer_1 /\ v.sends = u.sends
      /\ ~NotACheckpoint(u.index) =>
           /\ v.deltas = <<>> /\ v.num_C1 = u.num_C1 + 1 /\ v.writer_1 = u.writer_1 + C1Size
           /\ v.C2 = IF u.index % (kCheckpoint1Interval * kCheckpoint2Interval) = 0
                     THEN Append(u.C2, x.key) ELSE u.C2
           /\ InAll(Sent(v.sends)) = InAll(Sent(u.sends)) \cup w \cup c
           /\ NumAll(Sent(v.sends)) = NumAll(Sent(u.sends)) + 1 + (IF u.num_C1 = 0 THEN 0 ELSE 1)
           /\ NumAll(Sent(u.sends)) \in Nat
  <2> HIDE DEF x, u, g
  <2>1. begin_byte_C3 = g /\ u \in Reads /\ x \in KeyPos /\ g \in Nat /\ (NotACheckpoint(u.index) => u.prev_y <= x.key)
    BY <1>1, <1>2, <1>3 DEF g
  <2>2. QED
    BY ONLY <2>1, CheckpointStepIs
<1>5. /\ t \in Reads /\ t.index = v.index + 1 /\ t.array = v.array /\ t.deltas = v.deltas
      /\ t.prev_y = x.key /\ t.num_C1 = v.num_C1 /\ t.C2 = v.C2 /\ t.writer_1 = v.writer_1
      /\ t.writer_3 = v.writer_3 /\ t.parks = v.parks /\ t.sends = v.sends
  <2>1. v \in Reads
    BY <1>4
  <2> HIDE DEF x, v
  <2>2. v = CheckpointStep(P7Step(s, x), x)
    BY DEF v
  <2>3. QED
    BY ONLY <1>1, <2>1, <2>2, ReadEntryIs
<1> HIDE DEF u, v, t
<1>6. u.index = n /\ v.index = n /\ s.index = n
  BY <1>2, <1>4 DEF Loop
<1>7. /\ t.array = ArrayOf(T, Closed(n + 1, P), n + 1)
      /\ t.writer_3 = Slot(Begin7(N), Closed(n + 1, P), P7Size)
      /\ ToSet(Made("p7_threads", t.parks)) \cup P7Writes(T, Closed(a, P), N) = P7Writes(T, Closed(n + 1, P), N)
      /\ Len(t.parks) + Closed(a, P) = Closed(n + 1, P)
  <2> DEFINE c == Closed(n, P)
             d == Closed(n + 1, P)
  <2>1. /\ s.array = ArrayOf(T, c, n) /\ s.writer_3 = Slot(Begin7(N), c, P7Size)
        /\ ToSet(Made("p7_threads", s.parks)) \cup P7Writes(T, Closed(a, P), N) = P7Writes(T, c, N)
        /\ Len(s.parks) + Closed(a, P) = c
    BY DEF Loop
  <2>2. c \in Nat /\ Closed(a, P) \in Nat /\ P \in Nat \ {0}
    <3>1. a \in Nat
      BY <1>1
    <3>2. QED
      BY <1>1, <3>1, Bounds, Groups
  <2>3. t.array = u.array /\ t.writer_3 = u.writer_3 /\ t.parks = u.parks
    BY <1>4, <1>5
  <2>4. CASE ParkBoundary(n)
    <3>1. d = c + 1 /\ s.array = ArrayOf(T, c, N) /\ ArrayOf(T, d, n + 1) = <<x.pos>>
      <4>1. ParkBoundary(n) => /\ d = c + 1 /\ ArrayOf(T, c, n) = ArrayOf(T, c, N) /\ ArrayOf(T, d, n + 1) = <<x.pos>>
        BY ArrayStep
      <4>2. QED
        BY <2>1, <2>4, <4>1
    <3> DEFINE y == [offset |-> s.writer_3, array |-> s.array]
    <3>2. t.parks = Append(s.parks, y) /\ t.writer_3 = s.writer_3 + P7Size /\ t.array = <<x.pos>>
      BY <1>2, <1>6, <2>3, <2>4
    <3>3. Begin7(N) \in Nat /\ P7Size \in Nat \ {0}
      BY SecondSizes, Bounds
    <3>4. Slot(Begin7(N), c + 1, P7Size) = Slot(Begin7(N), c, P7Size) + P7Size
      BY ZenonT(60), <2>2, <3>3, Slots
    <3>5. y \in PosPark /\ s.parks \in Seq(PosPark)
      BY <1>1 DEF PosPark, Reads
    <3>6. Write(y.offset, P7Size, y.array) = P7Write(T, c, N)
      BY <2>1, <3>1 DEF P7Write
    <3> HIDE DEF y, c, d
    <3>7. /\ ToSet(Made("p7_threads", t.parks)) = ToSet(Made("p7_threads", s.parks)) \cup {P7Write(T, c, N)}
          /\ Len(t.parks) = Len(s.parks) + 1 /\ Len(s.parks) \in Nat
      BY <3>2, <3>5, <3>6, MadeArrays
    <3>8. P7Writes(T, c + 1, N) = P7Writes(T, c, N) \cup {P7Write(T, c, N)}
      BY <2>2, OneMore
    <3>9. ToSet(Made("p7_threads", t.parks)) \cup P7Writes(T, Closed(a, P), N) = P7Writes(T, d, N)
      BY <2>1, <3>1, <3>7, <3>8
    <3>10. Len(t.parks) + Closed(a, P) = d
      BY <2>1, <2>2, <3>1, <3>7
    <3>11. QED
      BY <2>1, <3>1, <3>2, <3>4, <3>9, <3>10 DEF d
  <2>5. CASE ~ParkBoundary(n)
    <3>1. d = c /\ ArrayOf(T, d, n + 1) = Append(s.array, x.pos)
      <4>1. ~ParkBoundary(n) => d = c /\ ArrayOf(T, d, n + 1) = Append(ArrayOf(T, c, n), x.pos)
        BY ArrayStep
      <4>2. QED
        BY <2>1, <2>5, <4>1
    <3>2. t.parks = s.parks /\ t.writer_3 = s.writer_3 /\ t.array = Append(s.array, x.pos)
      BY <1>2, <1>6, <2>3, <2>5
    <3> HIDE DEF c, d, x
    <3>3. QED
      BY <2>1, <3>1, <3>2 DEF d
  <2>6. QED
    BY <2>4, <2>5
<1>8. /\ t.deltas = DeltasOf(T, Closed(n + 1, I), n + 1)
      /\ t.num_C1 = NumC1(n + 1)
      /\ t.C2 = C2Of(T, NumC2(n + 1))
      /\ t.writer_1 = Slot(BeginC(N), NumC1(n + 1), C1Size)
      /\ ToPhase4(t.sends)
      /\ InAll(Sent(t.sends)) \cup CWrites(T, NumC1(a), N) \cup C3Writes(T, Closed(a, I), N) =
            CWrites(T, NumC1(n + 1), N) \cup C3Writes(T, Closed(n + 1, I), N)
      /\ NumAll(Sent(t.sends)) + NumC1(a) + Closed(a, I) = NumC1(n + 1) + Closed(n + 1, I)
  <2> DEFINE c == Closed(n, I)
             d == Closed(n + 1, I)
             e == NumC1(n)
             f == NumC1(n + 1)
             cs == CWrites(T, NumC1(a), N) \cup C3Writes(T, Closed(a, I), N)
  <2>1. /\ s.deltas = DeltasOf(T, c, n) /\ s.num_C1 = e /\ s.C2 = C2Of(T, NumC2(n))
        /\ s.writer_1 = Slot(BeginC(N), e, C1Size) /\ ToPhase4(s.sends)
        /\ InAll(Sent(s.sends)) \cup cs = CWrites(T, e, N) \cup C3Writes(T, c, N)
        /\ NumAll(Sent(s.sends)) + NumC1(a) + Closed(a, I) = e + c
    BY DEF Loop
  <2>2. /\ c \in Nat /\ d \in Nat /\ e \in Nat /\ f \in Nat /\ NumC1(a) \in Nat /\ Closed(a, I) \in Nat
    BY <1>1, SecondSizes
  <2>3. ToPhase4(t.sends)
    BY <1>2, <1>4, <1>5, <2>1
  <2>4. CASE NotACheckpoint(n)
    <3>1. /\ f = e /\ d = c /\ DeltasOf(T, d, n + 1) = Append(s.deltas, x.key - T[n].key)
      <4>1. NotACheckpoint(n) => f = e /\ d = c /\ DeltasOf(T, d, n + 1) = Append(DeltasOf(T, c, n), x.key - T[n].key)
        BY DeltasStep
      <4>2. QED
        BY <2>1, <2>4, <4>1
    <3>2. t.deltas = Append(s.deltas, x.key - T[n].key) /\ t.num_C1 = s.num_C1 /\ t.C2 = s.C2
          /\ t.writer_1 = s.writer_1 /\ t.sends = s.sends
      BY <1>2, <1>3, <1>4, <1>5, <1>6, <2>4
    <3>3. NumC2(n + 1) = NumC2(n)
      BY <3>1 DEF NumC2
    <3> HIDE DEF c, d, e, f, cs, x
    <3>4. InAll(Sent(t.sends)) \cup cs = CWrites(T, f, N) \cup C3Writes(T, d, N)
      BY <2>1, <3>1, <3>2
    <3>5. QED
      BY <2>1, <2>3, <3>1, <3>2, <3>3, <3>4 DEF d, f, cs
  <2>5. CASE ~NotACheckpoint(n)
    <3>1. /\ f = e + 1 /\ d = e /\ DeltasOf(T, d, n + 1) = <<>> /\ Checkpoint(T, e) = x.key /\ e < NumC1(N)
          /\ n > 0 => e = c + 1 /\ s.deltas = DeltasOf(T, c, N)
      <4>1. ~NotACheckpoint(n) =>
              /\ f = e + 1 /\ d = e /\ DeltasOf(T, d, n + 1) = <<>> /\ Checkpoint(T, e) = x.key /\ e < NumC1(N)
              /\ n > 0 => e = c + 1 /\ DeltasOf(T, c, n) = DeltasOf(T, c, N)
        BY DeltasStep
      <4>2. QED
        BY <2>1, <2>5, <4>1
    <3>2. n = 0 => e = 0 /\ c = 0
      BY <1>1, Bounds, Groups DEF NumC1
    <3>3. t.C2 = C2Of(T, NumC2(n + 1))
      <4>1. C2Of(T, NumC2(n + 1)) =
                IF n % (kCheckpoint1Interval * kCheckpoint2Interval) = 0
                THEN Append(C2Of(T, NumC2(n)), T[n + 1].key) ELSE C2Of(T, NumC2(n))
        BY <2>5, C2Step
      <4>2. QED
        BY <1>2, <1>4, <1>5, <1>6, <2>1, <2>5, <4>1
    <3>4. t.deltas = <<>> /\ t.num_C1 = s.num_C1 + 1 /\ t.writer_1 = s.writer_1 + C1Size
      BY <1>2, <1>4, <1>5, <1>6, <2>5
    <3>5. Slot(BeginC(N), f, C1Size) = s.writer_1 + C1Size
      <4>1. BeginC(N) \in Nat /\ C1Size \in Nat \ {0}
        BY SecondSizes, Bounds
      <4> HIDE DEF e, f
      <4>2. Slot(BeginC(N), e + 1, C1Size) = Slot(BeginC(N), e, C1Size) + C1Size
        BY ZenonT(60), <2>2, <4>1, Slots
      <4>3. QED
        BY <2>1, <3>1, <4>2
    <3> DEFINE one == CWrite(T, e, N)
               two == IF e = 0 THEN {} ELSE {C3Write(T, c, N)}
    <3>6. Write(s.writer_1, C1Size, x.key) = one
      BY <2>1, <3>1 DEF CWrite, EntryOfC
    <3>7. (IF s.num_C1 = 0 THEN {} ELSE {Write(Slot(g, s.num_C1 - 1, C3Size), C3Size, Encoded(s.deltas))}) = two
      <4>1. e # 0 => n > 0 /\ e - 1 = c /\ s.deltas = DeltasOf(T, c, N)
        BY <1>1, <2>2, <3>1, <3>2
      <4>2. e # 0 => Write(Slot(g, s.num_C1 - 1, C3Size), C3Size, Encoded(s.deltas)) = C3Write(T, c, N)
        BY <2>1, <4>1 DEF C3Write
      <4> HIDE DEF e, c
      <4>3. QED
        BY <2>1, <4>2
    <3>8. /\ InAll(Sent(t.sends)) = InAll(Sent(s.sends)) \cup {one} \cup two
          /\ NumAll(Sent(t.sends)) = NumAll(Sent(s.sends)) + 1 + (IF e = 0 THEN 0 ELSE 1)
          /\ NumAll(Sent(s.sends)) \in Nat
      <4> DEFINE c1 == {Write(s.writer_1, C1Size, x.key)}
                 c2 == IF s.num_C1 = 0 THEN {} ELSE {Write(Slot(g, s.num_C1 - 1, C3Size), C3Size, Encoded(s.deltas))}
      <4>1. /\ InAll(Sent(v.sends)) = InAll(Sent(u.sends)) \cup c1 \cup c2
            /\ NumAll(Sent(v.sends)) = NumAll(Sent(u.sends)) + 1 + (IF u.num_C1 = 0 THEN 0 ELSE 1)
            /\ NumAll(Sent(u.sends)) \in Nat
        BY <1>2, <1>4, <1>6, <2>5
      <4>2. c1 = {one} /\ c2 = two
        BY <3>6, <3>7
      <4> HIDE DEF c1, c2, one, two, e
      <4>3. t.sends = v.sends /\ u.sends = s.sends /\ u.num_C1 = e
        BY <1>2, <1>5, <2>1
      <4>4. QED
        BY <4>1, <4>2, <4>3
    <3>9. CWrites(T, e + 1, N) = CWrites(T, e, N) \cup {one} /\ C3Writes(T, c + 1, N) = C3Writes(T, c, N) \cup {C3Write(T, c, N)}
      <4> HIDE DEF c, e
      <4>1. QED
        BY SMTT(40), <2>2, OneMore
    <3>10. C3Writes(T, d, N) = C3Writes(T, c, N) \cup two /\ d = c + (IF e = 0 THEN 0 ELSE 1)
      <4>1. CASE n = 0
        <5>1. e = 0 /\ c = 0 /\ d = 0
          BY <3>1, <3>2, <4>1
        <5>2. two = {}
          BY <5>1
        <5> HIDE DEF c, d, e, two
        <5>3. QED
          BY <5>1, <5>2
      <4>2. CASE n > 0
        <5>1. e = c + 1 /\ d = c + 1 /\ e # 0
          BY <2>2, <3>1, <4>2
        <5>2. two = {C3Write(T, c, N)}
          BY <5>1
        <5> HIDE DEF c, d, e, two
        <5>3. QED
          BY <3>9, <5>1, <5>2
      <4>3. QED
        BY <1>1, <4>1, <4>2
    <3> HIDE DEF one, two, c, d, e, f, cs, x
    <3>11. InAll(Sent(t.sends)) \cup cs = CWrites(T, f, N) \cup C3Writes(T, d, N)
      BY <2>1, <3>1, <3>8, <3>9, <3>10
    <3>12. NumAll(Sent(t.sends)) + NumC1(a) + Closed(a, I) = f + d
      <4> DEFINE h == IF e = 0 THEN 0 ELSE 1
                 o == NumAll(Sent(s.sends))
                 p == NumAll(Sent(t.sends))
                 y == NumC1(a)
                 z == Closed(a, I)
      <4>1. h \in Nat /\ o \in Nat /\ y \in Nat /\ z \in Nat /\ c \in Nat /\ e \in Nat
        BY <2>2, <3>8
      <4>2. o + y + z = e + c /\ p = o + 1 + h /\ f = e + 1 /\ d = c + h
        BY <2>1, <3>1, <3>8, <3>10
      <4> HIDE DEF h, o, p, y, z
      <4>3. p + y + z = f + d
        BY ONLY <4>1, <4>2
      <4>4. QED
        BY <4>3 DEF p, y, z
    <3>13. t.num_C1 = f /\ t.writer_1 = Slot(BeginC(N), f, C1Size)
      BY <2>1, <3>1, <3>4, <3>5
    <3>14. QED
      BY <2>3, <3>1, <3>3, <3>4, <3>11, <3>12, <3>13 DEF d, f, cs
  <2>6. QED
    BY <2>4, <2>5
<1>9. t \in Reads /\ t.index = n + 1 /\ t.prev_y = T[n + 1].key
  BY <1>5, <1>6
<1>10. Loop(T, N, a, n + 1, t)
  BY <1>7, <1>8, <1>9 DEF Loop
<1>11. QED
  BY <1>10 DEF t

-----------------------------------------------------------------------------
(* The whole of a block *)

\* Phase 4 keeps the types of what it carries.
LEMMA ReadEntryType ==
    ASSUME NEW s \in Reads, NEW x \in KeyPos, begin_byte_C3 \in Nat
    PROVE  ReadEntry(s, x) \in Reads
<1> DEFINE u == P7Step(s, x)
           v == CheckpointStep(u, x)
<1>1. u \in Reads
  BY P7StepIs
<1> HIDE DEF u
<1>2. v \in Reads
  <2>1. CASE NotACheckpoint(u.index)
    <3> DEFINE a == x.key
               b == u.prev_y
               d == Append(u.deltas, (a - b) % 256)
    <3>1. a \in 0 .. 255
      BY DEF KeyPos
    <3>2. b \in 0 .. 255 /\ u.deltas \in Seq(Nat)
      BY <1>1 DEF Reads
    <3>3. v = [u EXCEPT !.deltas = d]
      BY <2>1 DEF CheckpointStep
    <3> HIDE DEF a, b
    <3>4. (a - b) % 256 \in Nat
      BY <3>1, <3>2
    <3>5. d \in Seq(Nat)
      BY <3>2, <3>4
    <3> HIDE DEF d, v
    <3>6. QED
      BY ZenonT(60), <1>1, <3>3, <3>5 DEF Reads
  <2>2. CASE ~NotACheckpoint(u.index)
    <3> DEFINE g == begin_byte_C3
    <3>1. g \in Nat /\ begin_byte_C3 = g
      OBVIOUS
    <3> HIDE DEF g
    <3>2. QED
      BY <1>1, <2>2, <3>1, CheckpointStepIs
  <2>3. QED
    BY <2>1, <2>2
<1> HIDE DEF v
<1>3. v = CheckpointStep(P7Step(s, x), x)
  BY DEF v, u
<1>4. QED
  BY ONLY <1>2, <1>3, s \in Reads, x \in KeyPos, ReadEntryIs

\* ReadAll() entry by entry
LEMMA ReadAllSteps ==
    ASSUME NEW t \in Reads, NEW block \in Seq(KeyPos), begin_byte_C3 \in Nat
    PROVE  \E g \in [0 .. Len(block) -> Reads] :
                /\ ReadAll(t, block) = g[Len(block)] /\ g[0] = t
                /\ \A x \in 1 .. Len(block) : g[x] = ReadEntry(g[x - 1], block[x])
<1> DEFINE W == Reads
           n == Len(block)
           step == [x \in 1 .. n |-> [v \in W |-> ReadEntry(v, block[x])]]
           Reading(f) == f = [x \in 0 .. n |-> IF x = 0 THEN t ELSE ReadEntry(f[x - 1], block[x])]
           entries == CHOOSE f : Reading(f)
<1>1. n \in Nat /\ t \in W /\ \A x \in 1 .. n : block[x] \in KeyPos
  OBVIOUS
<1>2. ASSUME NEW x \in 1 .. n, NEW v \in W PROVE ReadEntry(v, block[x]) \in W
  BY <1>1, ReadEntryType
<1>3. ReadAll(t, block) = entries[n]
  BY DEF ReadAll
<1>4. \A f : Reading(f) <=> f = [x \in 0 .. n |-> IF x = 0 THEN t ELSE ReadEntry(f[x - 1], block[x])]
  BY Zenon
<1> HIDE DEF Reading
<1>5. \E f : Reading(f) /\ f \in [0 .. n -> W]
  <2>1. step \in [1 .. n -> [W -> W]]
    BY <1>2
  <2>2. \A x \in 1 .. n, v \in W : step[x][v] = ReadEntry(v, block[x])
    OBVIOUS
  <2> HIDE DEF step, W, n
  <2>3. PICK g \in [0 .. n -> W] : Solves(g, t, step, n)
    BY <1>1, <2>1, Recursion
  <2>4. g[0] = t
    BY <2>3 DEF Solves
  <2>5. ASSUME NEW x \in 1 .. n PROVE g[x] = ReadEntry(g[x - 1], block[x])
    <3>1. x - 1 \in 0 .. n
      BY <1>1
    <3>2. g[x - 1] \in W
      BY <3>1
    <3>3. g[x] = step[x][g[x - 1]]
      BY <2>3 DEF Solves
    <3>4. QED
      BY <3>2, <3>3, <2>2
  <2> DEFINE h == [x \in 0 .. n |-> IF x = 0 THEN t ELSE ReadEntry(g[x - 1], block[x])]
  <2>6. \A x \in 0 .. n : g[x] = IF x = 0 THEN t ELSE ReadEntry(g[x - 1], block[x])
    <3>1. \A x \in 0 .. n : x = 0 \/ x \in 1 .. n
      BY <1>1
    <3>2. \A x \in 1 .. n : x # 0
      BY <1>1
    <3>3. QED
      BY <3>1, <3>2, <2>4, <2>5, Zenon
  <2>7. \A x \in 0 .. n : h[x] = g[x]
    BY <2>6, Zenon
  <2>8. g = h
    <3>1. DOMAIN h = 0 .. n /\ h = [x \in DOMAIN h |-> h[x]]
      BY Zenon
    <3> HIDE DEF h
    <3>2. DOMAIN g = 0 .. n /\ g = [x \in DOMAIN g |-> g[x]]
      OBVIOUS
    <3>3. QED
      BY <3>1, <3>2, <2>7
  <2>9. Reading(g)
    BY <2>8, <1>4, Zenon
  <2>10. QED
    BY <2>9
<1>6. Reading(entries)
  BY <1>5
<1> DEFINE h == [x \in 0 .. n |-> IF x = 0 THEN t ELSE ReadEntry(entries[x - 1], block[x])]
<1>7. entries = h
  <2> HIDE DEF entries
  <2>1. QED
    BY <1>4, <1>6, Zenon
<1>8. entries[0] = t /\ \A x \in 1 .. n : entries[x] = ReadEntry(entries[x - 1], block[x])
  <2> HIDE DEF entries
  <2>1. \A x \in 0 .. n : h[x] = IF x = 0 THEN t ELSE ReadEntry(entries[x - 1], block[x])
    BY Zenon
  <2> HIDE DEF h, n
  <2>2. \A x \in 1 .. n : x \in 0 .. n /\ x # 0
    BY <1>1
  <2>3. 0 \in 0 .. n
    BY <1>1
  <2>4. QED
    BY <1>7, <2>1, <2>2, <2>3
<1>9. entries \in [0 .. n -> W]
  <2> DEFINE S == {x \in 0 .. n : entries[x] \in W}
  <2> HIDE DEF entries, W
  <2>1. 0 \in S
    <3>1. 0 \in 0 .. n
      BY <1>1
    <3>2. QED
      BY <1>1, <1>8, <3>1
  <2>2. ASSUME NEW x \in 1 .. n, x - 1 \in S PROVE x \in S
    <3>1. x \in 0 .. n
      BY <1>1
    <3>2. entries[x] = ReadEntry(entries[x - 1], block[x]) /\ entries[x - 1] \in W
      BY <1>8, <2>2
    <3>3. QED
      BY <1>2, <3>1, <3>2
  <2> HIDE DEF S, n
  <2>3. \A x \in 0 .. n : x \in S
    BY <1>1, <2>1, <2>2, Induction
  <2>4. \A x \in 0 .. n : entries[x] \in W
    BY <2>3 DEF S
  <2>5. DOMAIN entries = 0 .. n /\ entries = [x \in DOMAIN entries |-> entries[x]]
    <3>1. DOMAIN h = 0 .. n /\ h = [x \in DOMAIN h |-> h[x]]
      BY Zenon
    <3> HIDE DEF h
    <3>2. QED
      BY <1>7, <3>1
  <2>6. QED
    BY <2>4, <2>5
<1>10. QED
  <2> HIDE DEF entries
  <2>1. QED
    BY <1>3, <1>8, <1>9

\* Reading a block continues what was read before.
LEMMA ReadAllIs ==
    ASSUME NEW T \in Seq(KeyPos), SortedKeys(T), NEW N \in Nat, Len(T) <= N, begin_byte_C3 = BeginC3(N),
           NEW block \in Seq(KeyPos), NEW a \in Nat, Len(T) = a + Len(block),
           \A i \in 1 .. Len(block) : T[a + i] = block[i],
           NEW s, Loop(T, N, a, a, s)
    PROVE  Loop(T, N, a, Len(T), ReadAll(s, block))
<1> DEFINE l == Len(block)
           S(g) == {k \in 0 .. l : Loop(T, N, a, a + k, g[k])}
<1>1. s \in Reads /\ begin_byte_C3 \in Nat /\ l \in Nat /\ Len(T) \in Nat
  <2>1. s \in Reads
    BY DEF Loop
  <2>2. QED
    BY <2>1, SecondSizes
<1>2. PICK g \in [0 .. l -> Reads] :
        /\ ReadAll(s, block) = g[l] /\ g[0] = s
        /\ \A x \in 1 .. l : g[x] = ReadEntry(g[x - 1], block[x])
  BY <1>1, ReadAllSteps
<1>3. 0 \in S(g)
  <2>1. a + 0 = a /\ 0 \in 0 .. l
    BY <1>1
  <2>2. QED
    BY <1>2, <2>1
<1>4. ASSUME NEW k \in 1 .. l, k - 1 \in S(g) PROVE k \in S(g)
  <2> DEFINE n == a + (k - 1)
  <2>1. n \in 0 .. Len(T) - 1 /\ a \in 0 .. n /\ n + 1 = a + k /\ k \in 0 .. l /\ k \in 1 .. Len(block)
    BY <1>1
  <2>2. T[n + 1] = block[k]
    BY <2>1
  <2>3. g[k] = ReadEntry(g[k - 1], T[n + 1])
    BY <1>2, <2>2
  <2>4. Loop(T, N, a, n, g[k - 1])
    BY <1>4
  <2> HIDE DEF n
  <2>5. Loop(T, N, a, n + 1, g[k])
    BY <2>1, <2>3, <2>4, LoopStep
  <2>6. QED
    BY <2>1, <2>5
<1>5. l \in S(g)
  <2> DEFINE U == S(g)
  <2>1. 0 \in U /\ \A k \in 1 .. l : k - 1 \in U => k \in U
    BY <1>3, <1>4
  <2> HIDE DEF U, l
  <2>2. \A k \in 0 .. l : k \in U
    BY <1>1, <2>1, Induction
  <2>3. l \in 0 .. l
    BY <1>1
  <2>4. QED
    BY <2>2, <2>3 DEF U
<1>6. QED
  BY <1>2, <1>5

\* Where a block begins, nothing of it was given.
LEMMA LoopStart ==
    ASSUME NEW T \in Seq(KeyPos), SortedKeys(T), NEW N \in Nat, NEW n \in 0 .. Len(T),
           NEW a \in Seq(Nat), a = ArrayOf(T, Closed(n, kEntriesPerPark), n),
           NEW d \in Seq(Nat), d = DeltasOf(T, Closed(n, kCheckpoint1Interval), n),
           NEW y \in 0 .. 255, n > 0 => y = T[n].key,
           NEW c \in Seq(0 .. 255), c = C2Of(T, NumC2(n)),
           NEW w1 \in Nat, w1 = Slot(BeginC(N), NumC1(n), C1Size),
           NEW w3 \in Nat, w3 = Slot(Begin7(N), Closed(n, kEntriesPerPark), P7Size)
    PROVE  Loop(T, N, n, n,
                [index |-> n, array |-> a, deltas |-> d, prev_y |-> y, num_C1 |-> NumC1(n), C2 |-> c,
                 writer_1 |-> w1, writer_3 |-> w3, parks |-> <<>>, sends |-> <<>>])
<1> DEFINE s == [index |-> n, array |-> a, deltas |-> d, prev_y |-> y, num_C1 |-> NumC1(n), C2 |-> c,
                 writer_1 |-> w1, writer_3 |-> w3, parks |-> <<>>, sends |-> <<>>]
<1>1. n \in Nat /\ NumC1(n) \in Nat /\ Closed(n, kEntriesPerPark) \in Nat /\ Closed(n, kCheckpoint1Interval) \in Nat
  BY SecondSizes
<1>2. <<>> \in Seq(PosPark) /\ <<>> \in Seq(Given)
  OBVIOUS
<1>3. s \in Reads
  <2> DEFINE z == <<>>
             m == NumC1(n)
  <2>1. z \in Seq(PosPark) /\ z \in Seq(Given) /\ m \in Nat
    BY <1>1, <1>2
  <2> HIDE DEF z, m
  <2>2. [index |-> n, array |-> a, deltas |-> d, prev_y |-> y, num_C1 |-> m, C2 |-> c,
                 writer_1 |-> w1, writer_3 |-> w3, parks |-> z, sends |-> z] \in Reads
    BY <1>1, <2>1 DEF Reads
  <2>3. QED
    BY <2>2 DEF z, m
<1>4. /\ s.index = n /\ s.array = a /\ s.deltas = d /\ s.prev_y = y /\ s.num_C1 = NumC1(n) /\ s.C2 = c
      /\ s.writer_1 = w1 /\ s.writer_3 = w3 /\ s.parks = <<>> /\ s.sends = <<>>
  OBVIOUS
<1> HIDE DEF s
<1>5. ToSet(Made("p7_threads", <<>>)) = {} /\ Len(<<>>) = 0
  <2>1. 1 .. 0 = {} /\ Len(<<>>) = 0
    OBVIOUS
  <2>2. Made("p7_threads", <<>>) = <<>>
    BY <2>1 DEF Made, Pools, Packed
  <2>3. QED
    BY <2>1, <2>2, EmptySequence
<1>6. InAll(Sent(<<>>)) = {} /\ NumAll(Sent(<<>>)) = 0 /\ ToPhase4(<<>>)
  <2>1. 1 .. Len(<<>>) = {}
    OBVIOUS
  <2>2. QED
    BY <2>1, SentEmpty DEF ToPhase4
<1>7. ToSet(Made("p7_threads", s.parks)) = {} /\ Len(s.parks) = 0 /\ InAll(Sent(s.sends)) = {}
      /\ NumAll(Sent(s.sends)) = 0 /\ ToPhase4(s.sends)
  BY <1>4, <1>5, <1>6
<1>8. /\ Len(s.parks) + Closed(n, kEntriesPerPark) = Closed(n, kEntriesPerPark)
      /\ NumAll(Sent(s.sends)) + NumC1(n) + Closed(n, kCheckpoint1Interval) =
            NumC1(n) + Closed(n, kCheckpoint1Interval)
  BY <1>1, <1>7
<1>9. Loop(T, N, n, n, s)
  BY <1>3, <1>4, <1>7, <1>8 DEF Loop
<1>10. QED
  BY <1>9 DEF s

-----------------------------------------------------------------------------
(* What was written stays as it is *)

\* Where a checkpoint is, and which checkpoints are in C2
LEMMA CheckpointPlace ==
    ASSUME NEW n \in Nat, NEW i \in 0 .. NumC1(n) - 1
    PROVE  i \in Nat /\ i \in 0 .. Closed(n, kCheckpoint1Interval) /\ Slot(0, i, kCheckpoint1Interval) + 1 \in 1 .. n
<1> DEFINE P == kCheckpoint1Interval
           c == Closed(n, P)
<1>1. P \in Nat \ {0} /\ NumC1(n) \in Nat /\ i \in Nat /\ i < NumC1(n)
  BY Bounds, SecondSizes
<1>2. /\ c \in Nat /\ (n = 0 => NumC1(n) = 0) /\ (n > 0 => NumC1(n) = c + 1 /\ Slot(0, c, P) < n)
  BY <1>1, Groups DEF NumC1
<1>3. n > 0 /\ i <= c
  BY <1>1, <1>2
<1>4. Slot(0, i, P) \in Nat /\ Slot(0, i, P) <= Slot(0, c, P) /\ Slot(0, c, P) \in Nat
  <2> HIDE DEF c
  <2>1. i <= c => Slot(0, i, P) <= Slot(0, c, P)
    BY <1>1, <1>2, SlotOrder
  <2>2. QED
    BY <1>1, <1>2, <1>3, <2>1, Slots
<1> HIDE DEF c
<1>5. i \in 0 .. c /\ Slot(0, i, P) + 1 \in 1 .. n
  BY <1>1, <1>2, <1>3, <1>4
<1>6. QED
  BY <1>1, <1>5 DEF c

\* An entry of C2 is an entry of C1.
LEMMA C2Place ==
    ASSUME NEW n \in Nat, NEW j \in 1 .. NumC2(n)
    PROVE  Slot(0, j - 1, kCheckpoint2Interval) \in 0 .. NumC1(n) - 1
<1> DEFINE Q == kCheckpoint2Interval
           m == NumC1(n)
           c == Closed(m, Q)
           i == j - 1
<1>1. Q \in Nat \ {0} /\ m \in Nat /\ NumC2(n) \in Nat /\ NumC2(n) = Opened(m, Q) /\ i \in Nat /\ i < NumC2(n)
  BY Bounds, SecondSizes DEF NumC2
<1> HIDE DEF m, i
<1>2. c \in Nat /\ (m = 0 => Opened(m, Q) = 0) /\ (m > 0 => Opened(m, Q) = c + 1 /\ Slot(0, c, Q) < m)
  BY <1>1, Groups
<1>3. m > 0 /\ i <= c
  BY <1>1, <1>2
<1>4. Slot(0, i, Q) \in Nat /\ Slot(0, i, Q) <= Slot(0, c, Q) /\ Slot(0, c, Q) \in Nat
  <2> HIDE DEF c
  <2>1. i <= c => Slot(0, i, Q) <= Slot(0, c, Q)
    BY <1>1, <1>2, SlotOrder
  <2>2. QED
    BY <1>1, <1>2, <1>3, <2>1, Slots
<1> HIDE DEF c
<1>5. Slot(0, i, Q) \in 0 .. m - 1
  BY <1>1, <1>2, <1>3, <1>4
<1>6. QED
  BY <1>5 DEF m, i

\* C2 is a sequence of keys.
LEMMA C2Type ==
    ASSUME NEW T \in Seq(KeyPos), NEW n \in 0 .. Len(T)
    PROVE  /\ C2Of(T, NumC2(n)) \in Seq(0 .. 255) /\ Len(C2Of(T, NumC2(n))) = NumC2(n) /\ NumC2(n) \in Nat
           /\ \A j \in 1 .. NumC2(n) : C2Of(T, NumC2(n))[j] = Checkpoint(T, Slot(0, j - 1, kCheckpoint2Interval))
<1> DEFINE m == NumC2(n)
           q(j) == Checkpoint(T, Slot(0, j - 1, kCheckpoint2Interval))
<1>1. n \in Nat /\ Len(T) \in Nat /\ m \in Nat
  <2>1. n \in Nat
    OBVIOUS
  <2>2. QED
    BY <2>1, SecondSizes
<1>2. ASSUME NEW j \in 1 .. m PROVE q(j) \in 0 .. 255
  <2> DEFINE i == Slot(0, j - 1, kCheckpoint2Interval)
             k == Slot(0, i, kCheckpoint1Interval) + 1
  <2>1. i \in 0 .. NumC1(n) - 1
    BY <1>1, C2Place
  <2>2. q(j) = T[k].key
    BY DEF Checkpoint
  <2> HIDE DEF i
  <2>3. k \in 1 .. n
    BY <1>1, <2>1, CheckpointPlace
  <2> HIDE DEF k, q
  <2>4. T[k] \in KeyPos
    BY <1>1, <2>3
  <2>5. QED
    BY <2>2, <2>4 DEF KeyPos
<1>3. C2Of(T, m) = [j \in 1 .. m |-> q(j)]
  BY DEF C2Of
<1> HIDE DEF m, q
<1>4. C2Of(T, m) \in Seq(0 .. 255) /\ Len(C2Of(T, m)) = m /\ \A j \in 1 .. m : C2Of(T, m)[j] = q(j)
  BY <1>1, <1>2, <1>3
<1>5. QED
  BY <1>1, <1>4 DEF m, q

\* What was written of the first entries does not depend on those behind them.
LEMMA PrefixStable ==
    ASSUME NEW T \in Seq(KeyPos), NEW T2 \in Seq(KeyPos), NEW N \in Nat, NEW n \in Nat,
           n = Len(T), n <= Len(T2), n <= N, \A i \in 1 .. n : T2[i] = T[i]
    PROVE  /\ P7Writes(T, Closed(n, kEntriesPerPark), N) = P7Writes(T2, Closed(n, kEntriesPerPark), N)
           /\ CWrites(T, NumC1(n), N) = CWrites(T2, NumC1(n), N)
           /\ C3Writes(T, Closed(n, kCheckpoint1Interval), N) = C3Writes(T2, Closed(n, kCheckpoint1Interval), N)
           /\ ArrayOf(T, Closed(n, kEntriesPerPark), n) = ArrayOf(T2, Closed(n, kEntriesPerPark), n)
           /\ DeltasOf(T, Closed(n, kCheckpoint1Interval), n) = DeltasOf(T2, Closed(n, kCheckpoint1Interval), n)
           /\ C2Of(T, NumC2(n)) = C2Of(T2, NumC2(n))
<1> DEFINE P == kEntriesPerPark
           I == kCheckpoint1Interval
<1>1. P \in Nat \ {0} /\ I \in Nat \ {0} /\ NumC1(n) \in Nat /\ NumC1(N) \in Nat /\ NumC1(n) <= NumC1(N)
      /\ Closed(n, P) \in Nat /\ Closed(n, I) \in Nat
  BY Bounds, SecondSizes, GroupsMonotone DEF NumC1
<1>2. ASSUME NEW i \in 0 .. Closed(n, P), NEW M \in Nat, Slot(0, i, P) + InGroup(i, M, P) <= n, InGroup(i, M, P) \in Nat
      PROVE  ArrayOf(T, i, M) = ArrayOf(T2, i, M)
  <2> DEFINE b == Slot(0, i, P)
             l == InGroup(i, M, P)
  <2>1. b \in Nat /\ l \in Nat /\ b + l <= n
    <3>1. b \in Nat
      BY <1>1, Slots
    <3>2. QED
      BY <1>2, <3>1
  <2> HIDE DEF b, l
  <2>2. \A j \in 1 .. l : b + j \in 1 .. n
    BY <2>1
  <2>3. \A j \in 1 .. l : T[b + j].pos = T2[b + j].pos
    BY <2>2
  <2>4. ArrayOf(T, i, M) = [j \in 1 .. l |-> T[b + j].pos] /\ ArrayOf(T2, i, M) = [j \in 1 .. l |-> T2[b + j].pos]
    BY DEF ArrayOf, b, l
  <2>5. QED
    BY <2>3, <2>4
<1>3. ASSUME NEW i \in 0 .. Closed(n, I), NEW M \in Nat, Slot(0, i, I) + InGroup(i, M, I) <= n, InGroup(i, M, I) \in Nat
      PROVE  DeltasOf(T, i, M) = DeltasOf(T2, i, M)
  <2> DEFINE b == Slot(0, i, I)
             l == InGroup(i, M, I)
             v(j) == T[b + (j + 1)].key - T[b + j].key
             w(j) == T2[b + (j + 1)].key - T2[b + j].key
  <2>1. b \in Nat /\ l \in Nat /\ b + l <= n
    <3>1. b \in Nat
      BY <1>1, Slots
    <3>2. QED
      BY <1>3, <3>1
  <2>2. DeltasOf(T, i, M) = [j \in 1 .. l - 1 |-> v(j)] /\ DeltasOf(T2, i, M) = [j \in 1 .. l - 1 |-> w(j)]
    BY DEF DeltasOf
  <2> HIDE DEF b, l
  <2>3. \A j \in 1 .. l - 1 : b + j \in 1 .. n /\ b + (j + 1) \in 1 .. n
    BY <2>1
  <2>4. \A j \in 1 .. l - 1 : v(j) = w(j)
    BY <2>3
  <2> HIDE DEF v, w
  <2>5. QED
    BY <2>2, <2>4
<1>4. ASSUME NEW i \in 0 .. NumC1(n) - 1 PROVE Checkpoint(T, i) = Checkpoint(T2, i)
  <2>1. Slot(0, i, I) + 1 \in 1 .. n
    BY CheckpointPlace
  <2>2. QED
    BY <2>1 DEF Checkpoint
<1>5. P7Writes(T, Closed(n, P), N) = P7Writes(T2, Closed(n, P), N)
  <2>1. ASSUME NEW i \in 0 .. Closed(n, P) - 1 PROVE P7Write(T, i, N) = P7Write(T2, i, N)
    <3>1. /\ i \in 0 .. Closed(N, P) - 1 /\ i \in 0 .. Closed(n, P)
      <4>1. Closed(n, P) <= Closed(N, P) /\ Closed(N, P) \in Nat
        BY <1>1, GroupsMonotone, Groups
      <4>2. QED
        BY <1>1, <4>1
    <3>2. InGroup(i, N, P) = P /\ Slot(0, i, P) + P < n
      BY <1>1, <3>1, FullGroup
    <3>3. ArrayOf(T, i, N) = ArrayOf(T2, i, N)
      <4>1. i \in Nat /\ Slot(0, i, P) \in Nat
        BY <1>1, <3>1, Slots
      <4>2. Slot(0, i, P) + InGroup(i, N, P) <= n /\ InGroup(i, N, P) \in Nat
        BY <1>1, <3>2, <4>1
      <4>3. QED
        BY <1>2, <3>1, <4>2
    <3>4. QED
      BY <3>3 DEF P7Write
  <2>2. QED
    BY <2>1 DEF P7Writes
<1>6. CWrites(T, NumC1(n), N) = CWrites(T2, NumC1(n), N)
  <2>1. ASSUME NEW i \in 0 .. NumC1(n) - 1 PROVE CWrite(T, i, N) = CWrite(T2, i, N)
    <3>1. i < NumC1(N)
      BY <1>1
    <3>2. QED
      BY <1>4, <3>1 DEF CWrite, EntryOfC
  <2>2. QED
    BY <2>1 DEF CWrites
<1>7. C3Writes(T, Closed(n, I), N) = C3Writes(T2, Closed(n, I), N)
  <2>1. ASSUME NEW i \in 0 .. Closed(n, I) - 1 PROVE C3Write(T, i, N) = C3Write(T2, i, N)
    <3>1. /\ i \in 0 .. Closed(N, I) - 1 /\ i \in 0 .. Closed(n, I)
      <4>1. Closed(n, I) <= Closed(N, I) /\ Closed(N, I) \in Nat
        BY <1>1, GroupsMonotone, Groups
      <4>2. QED
        BY <1>1, <4>1
    <3>2. InGroup(i, N, I) = I /\ Slot(0, i, I) + I < n
      BY <1>1, <3>1, FullGroup
    <3>3. DeltasOf(T, i, N) = DeltasOf(T2, i, N)
      <4>1. i \in Nat /\ Slot(0, i, I) \in Nat
        BY <1>1, <3>1, Slots
      <4>2. Slot(0, i, I) + InGroup(i, N, I) <= n /\ InGroup(i, N, I) \in Nat
        BY <1>1, <3>2, <4>1
      <4>3. QED
        BY <1>3, <3>1, <4>2
    <3>4. QED
      BY <3>3 DEF C3Write
  <2>2. QED
    BY <2>1 DEF C3Writes
<1>8. ArrayOf(T, Closed(n, P), n) = ArrayOf(T2, Closed(n, P), n)
  <2> DEFINE c == Closed(n, P)
  <2>1. c \in 0 .. c /\ Slot(0, c, P) + InGroup(c, n, P) <= n /\ InGroup(c, n, P) \in Nat
    <3>1. c \in 0 .. c
      BY <1>1
    <3>2. QED
      BY <1>1, <3>1, GroupPlace
  <2>2. QED
    BY <1>2, <2>1
<1>9. DeltasOf(T, Closed(n, I), n) = DeltasOf(T2, Closed(n, I), n)
  <2> DEFINE c == Closed(n, I)
  <2>1. c \in 0 .. c /\ Slot(0, c, I) + InGroup(c, n, I) <= n /\ InGroup(c, n, I) \in Nat
    <3>1. c \in 0 .. c
      BY <1>1
    <3>2. QED
      BY <1>1, <3>1, GroupPlace
  <2>2. QED
    BY <1>3, <2>1
<1>10. C2Of(T, NumC2(n)) = C2Of(T2, NumC2(n))
  <2>1. ASSUME NEW j \in 1 .. NumC2(n)
        PROVE  Checkpoint(T, Slot(0, j - 1, kCheckpoint2Interval)) = Checkpoint(T2, Slot(0, j - 1, kCheckpoint2Interval))
    BY <1>4, C2Place
  <2>2. QED
    BY <2>1 DEF C2Of
<1>11. QED
  BY <1>5, <1>6, <1>7, <1>8, <1>9, <1>10

\* The order in which phase 4 reads goes on with a block.
LEMMA Continued ==
    ASSUME NEW T \in Seq(KeyPos), NEW t \in Seq(KeyPos), NEW u, u = T \o t
    PROVE  /\ u \in Seq(KeyPos) /\ Len(u) = Len(T) + Len(t) /\ Len(T) \in Nat /\ Len(t) \in Nat
           /\ \A i \in 1 .. Len(T) : u[i] = T[i]
           /\ \A i \in 1 .. Len(t) : u[Len(T) + i] = t[i]
           /\ ToSet(u) = ToSet(T) \cup ToSet(t)
<1>1. /\ u \in Seq(KeyPos) /\ Len(u) = Len(T) + Len(t) /\ Len(T) \in Nat /\ Len(t) \in Nat
      /\ \A i \in 1 .. Len(T) : u[i] = T[i]
      /\ \A i \in 1 .. Len(t) : u[Len(T) + i] = t[i]
  OBVIOUS
<1> HIDE DEF KeyPos
<1>2. ASSUME NEW i \in 1 .. Len(u) PROVE i \in 1 .. Len(T) \/ (i - Len(T) \in 1 .. Len(t) /\ u[i] = t[i - Len(T)])
  <2> DEFINE k == i - Len(T)
  <2>1. i \in 1 .. Len(T) \/ (k \in 1 .. Len(t) /\ Len(T) + k = i)
    BY <1>1
  <2> HIDE DEF k
  <2>2. QED
    BY <1>1, <2>1 DEF k
<1>3. \A i \in 1 .. Len(t) : Len(T) + i \in 1 .. Len(u)
  BY <1>1
<1>4. \A i \in 1 .. Len(T) : i \in 1 .. Len(u)
  BY <1>1
<1>5. /\ ToSet(u) = {u[i] : i \in 1 .. Len(u)} /\ ToSet(T) = {T[i] : i \in 1 .. Len(T)}
      /\ ToSet(t) = {t[i] : i \in 1 .. Len(t)}
  <2>1. T \in Seq(KeyPos) /\ t \in Seq(KeyPos)
    OBVIOUS
  <2>2. ToSet(u) = {u[i] : i \in 1 .. Len(u)}
    BY ONLY <1>1, SetOf
  <2>3. ToSet(T) = {T[i] : i \in 1 .. Len(T)}
    BY ONLY <2>1, SetOf
  <2>4. ToSet(t) = {t[i] : i \in 1 .. Len(t)}
    BY ONLY <2>1, SetOf
  <2>5. QED
    BY <2>2, <2>3, <2>4
<1>6. ToSet(u) \subseteq ToSet(T) \cup ToSet(t)
  BY <1>1, <1>2, <1>5
<1>7. ToSet(T) \subseteq ToSet(u) /\ ToSet(t) \subseteq ToSet(u)
  BY <1>1, <1>3, <1>4, <1>5
<1>8. QED
  BY <1>1, <1>6, <1>7

-----------------------------------------------------------------------------
(* The inputs, and what an action adds to the pipe *)

\* A sum of equal numbers is a product.
LEMMA SumConstant ==
    ASSUME NEW n \in Nat, NEW s, NEW c \in Nat, \A j \in 1 .. n : s[j] = c
    PROVE  SumTo(s, n) = n * c
<1> DEFINE S == {k \in 0 .. n : SumTo(s, k) = k * c}
<1>1. \A j \in 1 .. n : s[j] \in Int
  OBVIOUS
<1>2. /\ SumTo(s, 0) = 0 /\ \A k \in 1 .. n : SumTo(s, k) = SumTo(s, k - 1) + s[k]
  BY <1>1, SumSteps
<1>3. 0 \in S
  BY <1>2
<1>4. ASSUME NEW k \in 1 .. n, k - 1 \in S PROVE k \in S
  <2>1. SumTo(s, k) = (k - 1) * c + c
    BY <1>2, <1>4
  <2>2. (k - 1) * c + c = k * c
    OBVIOUS
  <2>3. QED
    BY <2>1, <2>2
<1> HIDE DEF S
<1>5. \A k \in 0 .. n : k \in S
  BY <1>3, <1>4, Induction
<1>6. QED
  BY <1>5 DEF S

\* Phase 4 gives nothing to what phase 3 has closed.
LEMMA Phase4Sends ==
    ASSUME NEW s \in Seq(Given), ToPhase4(s)
    PROVE  AllToParks(s) = 0 /\ AddsSent(s) = {}
<1>1. Len(s) \in Nat /\ \A n \in 1 .. Len(s) : ToParks(s)[n] = 0
  BY DEF ToPhase4, ToParks
<1>2. AllToParks(s) = Len(s) * 0
  BY <1>1, SumConstant DEF AllToParks
<1>3. \A n \in 1 .. Len(s) : Adds(s[n].to, s[n].what) = {}
  BY DEF ToPhase4, Adds
<1>4. AddsSent(s) = {}
  BY <1>3 DEF AddsSent
<1>5. QED
  BY <1>1, <1>2, <1>4

\* Nothing to give
LEMMA NoSends == AllToParks(<<>>) = 0 /\ AddsSent(<<>>) = {} /\ ToPhase4(<<>>) /\ <<>> \in Seq(Given)
<1>1. <<>> \in Seq(Given) /\ 1 .. Len(<<>>) = {}
  OBVIOUS
<1>2. ToPhase4(<<>>)
  BY <1>1 DEF ToPhase4
<1>3. QED
  BY <1>1, <1>2, Phase4Sends

\* One thing to give
LEMMA SendOne ==
    ASSUME NEW x \in Given
    PROVE  /\ <<x>> \in Seq(Given)
           /\ InAll(Sent(<<x>>)) = ToSet(Made(x.to, x.what)) /\ NumAll(Sent(<<x>>)) = Len(Made(x.to, x.what))
           /\ AllToParks(<<x>>) = PointsIn(x) /\ PointsIn(x) \in Nat
           /\ AddsSent(<<x>>) = Adds(x.to, x.what)
           /\ x.to \notin {"park_threads", "L_add"} => ToPhase4(<<x>>)
<1> DEFINE s == <<x>>
<1>1. s \in Seq(Given) /\ s # <<>> /\ Head(s) = x /\ Tail(s) = <<>>
  OBVIOUS
<1> HIDE DEF s
<1>2. /\ InAll(Sent(s)) = ToSet(Made(x.to, x.what)) \cup InAll(Sent(<<>>))
      /\ NumAll(Sent(s)) = Len(Made(x.to, x.what)) + NumAll(Sent(<<>>))
      /\ Made(x.to, x.what) \in Seq(Writes)
  BY <1>1, SentTail, MadeType
<1>3. AllToParks(s) = PointsIn(x) + AllToParks(<<>>) /\ PointsIn(x) \in Nat
  BY <1>1, ToParksTail
<1>4. AddsSent(s) = Adds(x.to, x.what) \cup AddsSent(<<>>)
  BY <1>1, AddsTail
<1>5. Len(Made(x.to, x.what)) \in Nat
  BY <1>2
<1>6. ASSUME x.to \notin {"park_threads", "L_add"} PROVE ToPhase4(<<x>>)
  BY <1>6 DEF ToPhase4
<1>7. /\ InAll(Sent(s)) = ToSet(Made(x.to, x.what)) /\ NumAll(Sent(s)) = Len(Made(x.to, x.what))
      /\ AllToParks(s) = PointsIn(x) /\ AddsSent(s) = Adds(x.to, x.what)
  BY <1>2, <1>3, <1>4, <1>5, NoSends, SentEmpty
<1>8. QED
  BY <1>1, <1>3, <1>6, <1>7 DEF s

\* Two things to give
LEMMA SendTwo ==
    ASSUME NEW x \in Given, NEW y \in Given
    PROVE  /\ <<x, y>> \in Seq(Given)
           /\ InAll(Sent(<<x, y>>)) = ToSet(Made(x.to, x.what)) \cup ToSet(Made(y.to, y.what))
           /\ NumAll(Sent(<<x, y>>)) = Len(Made(x.to, x.what)) + Len(Made(y.to, y.what))
           /\ AllToParks(<<x, y>>) = PointsIn(x) + PointsIn(y)
           /\ AddsSent(<<x, y>>) = Adds(x.to, x.what) \cup Adds(y.to, y.what)
           /\ x.to \notin {"park_threads", "L_add"} /\ y.to \notin {"park_threads", "L_add"} => ToPhase4(<<x, y>>)
<1> DEFINE s == <<x, y>>
           t == <<y>>
<1>1. s \in Seq(Given) /\ s # <<>> /\ Head(s) = x /\ Tail(s) = t
  OBVIOUS
<1>2. /\ InAll(Sent(t)) = ToSet(Made(y.to, y.what)) /\ NumAll(Sent(t)) = Len(Made(y.to, y.what))
      /\ AllToParks(t) = PointsIn(y) /\ AddsSent(t) = Adds(y.to, y.what)
  BY SendOne
<1> HIDE DEF s, t
<1>3. /\ InAll(Sent(s)) = ToSet(Made(x.to, x.what)) \cup InAll(Sent(t))
      /\ NumAll(Sent(s)) = Len(Made(x.to, x.what)) + NumAll(Sent(t))
  BY <1>1, SentTail
<1>4. AllToParks(s) = PointsIn(x) + AllToParks(t)
  BY <1>1, ToParksTail
<1>5. AddsSent(s) = Adds(x.to, x.what) \cup AddsSent(t)
  BY <1>1, AddsTail
<1>6. ASSUME x.to \notin {"park_threads", "L_add"}, y.to \notin {"park_threads", "L_add"} PROVE ToPhase4(<<x, y>>)
  <2>1. \A n \in 1 .. 2 : n = 1 \/ n = 2
    OBVIOUS
  <2>2. Len(<<x, y>>) = 2 /\ <<x, y>>[1] = x /\ <<x, y>>[2] = y
    OBVIOUS
  <2>3. QED
    BY <1>6, <2>1, <2>2 DEF ToPhase4
<1>7. QED
  BY <1>1, <1>2, <1>3, <1>4, <1>5, <1>6 DEF s

\* What the reading thread has to give goes in front of the pipe.
LEMMA Produced ==
    ASSUME NEW M, NEW k, NEW p, NEW A, Pipe(M, k, p, A), sends = <<>>,
           NEW t \in Seq(Given), sends' = t, UNCHANGED <<input, queue, file, num_writes, num_written_final>>,
           stage' \in {"stage2", "close2", "phase4", "close4"},
           ~Phase3' => queue["park_threads"] = <<>> /\ queue["L_add"] = <<>> /\ ToPhase4(t)
    PROVE  /\ Types' /\ Accounted(M \cup InAll(Sent(t)), k + NumAll(Sent(t)))' /\ Counted(p + AllToParks(t))'
           /\ InAdds' = InAdds \cup AddsSent(t)
<1>1. Types /\ Accounted(M, k) /\ Counted(p) /\ Sorted(A) /\ AreQueues(queue)
  BY DEF Pipe, Types
<1>2. Types'
  BY <1>1 DEF Types, ToPhase4
<1>3. InPipe' = InPipe \cup InAll(Sent(t))
  BY SentEmpty DEF InPipe
<1>4. NumPipe' = NumPipe + NumAll(Sent(t)) /\ NumPipe \in Nat /\ NumAll(Sent(t)) \in Nat
  <2>1. NumAll(Sent(t)) \in Nat
    BY SentType, BunchNat
  <2>2. NumQueues(queue) \in Nat
    <3>1. \A q \in Stages : NumQueue(q, queue) \in Nat
      BY <1>1, NumsAreNat DEF AreQueues, NumQueue
    <3>2. QED
      BY <3>1, StageNames DEF NumQueues
  <2>3. NumPipe = NumAll(Sent(<<>>)) + NumQueues(queue) /\ NumPipe' = NumAll(Sent(t)) + NumQueues(queue)
    BY DEF NumPipe
  <2>4. QED
    BY <2>1, <2>2, <2>3, SentEmpty
<1>5. Accounted(M \cup InAll(Sent(t)), k + NumAll(Sent(t)))'
  <2>1. file' \cup InPipe' = M \cup InAll(Sent(t))
    BY <1>1, <1>3 DEF Accounted
  <2>2. num_writes' + NumPipe' = k + NumAll(Sent(t))
    BY <1>1, <1>4 DEF Accounted
  <2>3. QED
    BY <1>1, <2>1, <2>2 DEF Accounted
<1>6. Counted(p + AllToParks(t))'
  <2>1. AllToParks(t) \in Nat /\ AllPoints(queue["park_threads"]) \in Nat /\ num_written_final \in Nat
    <3>1. \A n \in 1 .. Len(t) : ToParks(t)[n] \in Nat
      BY ToParksType
    <3>2. AllToParks(t) \in Nat
      BY <3>1, SumNat DEF AllToParks
    <3>3. queue["park_threads"] \in Seq(Seq(Park))
      BY <1>1, StageNames DEF AreQueues, InputsOf
    <3>4. AllPoints(queue["park_threads"]) \in Nat
      <4> DEFINE s == queue["park_threads"]
      <4>1. Len(s) \in Nat /\ \A n \in 1 .. Len(s) : PointsOf(s)[n] \in Nat
        BY <3>3, PointsOfType
      <4>2. QED
        BY <4>1, SumNat DEF AllPoints
    <3>5. QED
      BY <1>1, <3>2, <3>4 DEF Types
  <2>2. num_written_final + AllPoints(queue["park_threads"]) = p
    BY <1>1, <2>1, NoSends DEF Counted
  <2>3. QED
    BY <2>1, <2>2 DEF Counted
<1>7. InAdds' = InAdds \cup AddsSent(t)
  BY NoSends DEF InAdds
<1>8. QED
  BY <1>2, <1>5, <1>6, <1>7

-----------------------------------------------------------------------------
(* Parks of line points, packed *)

PackedPark(p) ==
    Write(L_final_begin + p.index * ParkSize, ParkSize,
          [first |-> p.points[1], deltas |-> ParkDeltas(Deltas(p.points))])
ParkWrite(e, i) == PackedPark(ParkOf(e, i, Len(e)))
ParkWrites(e, m) == {ParkWrite(e, i) : i \in 0 .. m - 1}

\* Parks c .. c + Len(ps) - 1 are packed.
LEMMA MadeParks ==
    ASSUME NEW e \in Seq(Entry), NEW ps \in Seq(Park), NEW c \in Nat,
           \A j \in 1 .. Len(ps) : ps[j] = ParkOf(e, (c + j) - 1, Len(e))
    PROVE  /\ ToSet(Made("park_threads", ps)) \cup ParkWrites(e, c) = ParkWrites(e, c + Len(ps))
           /\ Len(Made("park_threads", ps)) = Len(ps) /\ Len(ps) \in Nat
           /\ [to |-> "park_threads", what |-> ps] \in Given
<1> DEFINE n == Len(ps)
           w(i) == PackedPark(ps[i])
           z == Made("park_threads", ps)
<1>1. n \in Nat
  OBVIOUS
<1>2. z = [i \in 1 .. n |-> w(i)]
  BY DEF Made, Pools, Packed, PackedPark
<1>3. ps \in InputsOf("park_threads") /\ "park_threads" \in Stages
  BY StageNames DEF InputsOf
<1>4. z \in Seq(Writes)
  BY <1>3, MadeType
<1>5. [to |-> "park_threads", what |-> ps] \in Given
  <2> DEFINE U(q) == [to : {q}, what : InputsOf(q)]
             v == [to |-> "park_threads", what |-> ps]
  <2>1. Given = UNION {U(q) : q \in Stages} /\ v \in U("park_threads")
    BY <1>3 DEF Given
  <2> HIDE DEF U, v
  <2>2. v \in Given
    BY <1>3, <2>1
  <2>3. QED
    BY <2>2 DEF v
<1> HIDE DEF z, w
<1>6. Len(z) = n /\ DOMAIN z = 1 .. n
  BY <1>1, <1>2, <1>4
<1>7. ToSet(z) = {w(i) : i \in 1 .. n}
  BY <1>2, <1>6 DEF ToSet
<1>8. \A i \in 1 .. n : w(i) = ParkWrite(e, (c + i) - 1)
  BY DEF w, ParkWrite
<1>9. {w(i) : i \in 1 .. n} = {ParkWrite(e, i) : i \in c .. (c + n) - 1}
  <2> HIDE DEF n
  <2>1. \A i \in 1 .. n : (c + i) - 1 \in c .. (c + n) - 1
    BY <1>1
  <2>2. \A i \in c .. (c + n) - 1 : (i - c) + 1 \in 1 .. n /\ (c + ((i - c) + 1)) - 1 = i
    BY <1>1
  <2>3. ASSUME NEW i \in c .. (c + n) - 1 PROVE ParkWrite(e, i) \in {w(j) : j \in 1 .. n}
    <3>1. w((i - c) + 1) = ParkWrite(e, (c + ((i - c) + 1)) - 1)
      BY <1>8, <2>2
    <3>2. QED
      BY <2>2, <3>1
  <2>4. QED
    BY <1>8, <2>1, <2>3
<1>10. 0 .. (c + n) - 1 = (0 .. c - 1) \cup (c .. (c + n) - 1)
  BY <1>1
<1>11. ToSet(z) \cup ParkWrites(e, c) = ParkWrites(e, c + n)
  BY <1>7, <1>9, <1>10 DEF ParkWrites
<1>12. QED
  BY <1>1, <1>5, <1>6, <1>11 DEF z

\* The entries of table 6 are what the first DiskSort emits, as many as have a position.
LEMMA EntriesAre ==
    ASSUME input \in Inputs, NEW e, e = Entries
    PROVE  /\ input \in Seq(Seq(Entry)) /\ e \in Seq(Entry)
           /\ Len(e) = AtMost(Offset(Len(input))) /\ Len(e) <= MaxPos
           /\ \A i, j \in 1 .. Len(e) : i < j => e[i] # e[j]
           /\ Offset(0) = 0
           /\ \A n \in 0 .. Len(input) - 1 :
                /\ input[n + 1] \in Seq(Entry) /\ Offset(n) \in Nat
                /\ Offset(n + 1) = Offset(n) + Len(input[n + 1])
                /\ AtMost(Offset(n)) <= Len(e)
                /\ \A k \in 1 .. Len(input[n + 1]) :
                    Offset(n) + k <= MaxPos => Offset(n) + k <= Len(e) /\ e[Offset(n) + k] = input[n + 1][k]
<1> DEFINE s == FlattenSeq(input)
           l == Len(s)
<1>1. input \in Seq(Seq(Entry)) /\ \A i, j \in 1 .. l : i < j => s[i] # s[j]
  BY InputAssumption DEF Entry
<1>2. MaxPos \in Nat \ {0}
  BY Bounds
<1>3. /\ Joined(input, 0) = <<>> /\ Joined(input, Len(input)) = s /\ s \in Seq(Entry)
  BY <1>1, JoinedEnds
<1>4. \A n : Offset(n) = Len(Joined(input, n))
  BY DEF Offset, Joined
<1>5. Offset(0) = 0 /\ Offset(Len(input)) = l /\ l \in Nat
  BY <1>3, <1>4
<1>6. e = SubSeq(s, 1, AtMost(l))
  BY DEF Entries, AtMost
<1> HIDE DEF s
<1>7. AtMost(l) \in 0 .. l /\ AtMost(l) <= MaxPos
  BY <1>2, <1>5 DEF AtMost
<1>8. e \in Seq(Entry) /\ Len(e) = AtMost(l) /\ \A i \in 1 .. AtMost(l) : e[i] = s[i]
  <2> DEFINE m == AtMost(l)
  <2>1. m \in 0 .. l
    BY <1>7
  <2> HIDE DEF m
  <2>2. SubSeq(s, 1, m) \in Seq(Entry) /\ Len(SubSeq(s, 1, m)) = m /\ \A i \in 1 .. m : SubSeq(s, 1, m)[i] = s[i]
    BY <1>3, <2>1
  <2>3. QED
    BY <1>6, <2>2 DEF m
<1>9. ASSUME NEW i \in 1 .. Len(e), NEW j \in 1 .. Len(e), i < j PROVE e[i] # e[j]
  <2>1. i \in 1 .. l /\ j \in 1 .. l /\ e[i] = s[i] /\ e[j] = s[j]
    <3> DEFINE m == AtMost(l)
    <3>1. m \in 0 .. l /\ Len(e) = m /\ \A x \in 1 .. m : e[x] = s[x]
      BY <1>7, <1>8
    <3> HIDE DEF m
    <3>2. QED
      BY <1>5, <3>1
  <2>2. QED
    BY <1>1, <1>9, <2>1
<1>10. ASSUME NEW n \in 0 .. Len(input) - 1
       PROVE  /\ input[n + 1] \in Seq(Entry) /\ Offset(n) \in Nat
              /\ Offset(n + 1) = Offset(n) + Len(input[n + 1])
              /\ AtMost(Offset(n)) <= Len(e)
              /\ \A k \in 1 .. Len(input[n + 1]) :
                    Offset(n) + k <= MaxPos => Offset(n) + k <= Len(e) /\ e[Offset(n) + k] = input[n + 1][k]
  <2> DEFINE b == input[n + 1]
             g == Joined(input, n)
             h == Joined(input, n + 1)
             o == Len(g)
  <2>1. g \in Seq(Entry) /\ b \in Seq(Entry) /\ h = g \o b
    BY <1>1, JoinedStep
  <2>2. n + 1 \in 0 .. Len(input) /\ n \in 0 .. Len(input)
    BY <1>1
  <2>3. /\ h \in Seq(Entry) /\ Len(h) <= l /\ Len(h) \in Nat /\ \A i \in 1 .. Len(h) : s[i] = h[i]
    <3> DEFINE n1 == n + 1
    <3>1. n1 \in 0 .. Len(input)
      BY <2>2
    <3> HIDE DEF n1
    <3>2. /\ Joined(input, n1) \in Seq(Entry) /\ Len(Joined(input, n1)) <= Len(FlattenSeq(input))
          /\ Len(Joined(input, n1)) \in Nat /\ \A i \in 1 .. Len(Joined(input, n1)) : FlattenSeq(input)[i] = Joined(input, n1)[i]
      BY <1>1, <3>1, JoinedPrefix
    <3>3. QED
      BY <3>2 DEF n1, s
  <2>4. o \in Nat /\ Len(b) \in Nat /\ Len(h) = o + Len(b) /\ \A k \in 1 .. Len(b) : h[o + k] = b[k]
    <3> HIDE DEF g, b, h
    <3>1. QED
      BY <2>1
  <2>5. Offset(n) = o /\ Offset(n + 1) = Len(h)
    BY <1>4
  <2> HIDE DEF g, b, h, o, l
  <2>6. AtMost(o) <= AtMost(l)
    BY <1>2, <1>5, <2>3, <2>4 DEF AtMost
  <2>7. ASSUME NEW k \in 1 .. Len(b), o + k <= MaxPos PROVE o + k <= Len(e) /\ e[o + k] = b[k]
    <3>1. o + k \in 1 .. Len(h) /\ o + k <= l
      <4>1. Len(h) <= l /\ Len(h) \in Nat /\ Len(h) = o + Len(b) /\ o \in Nat /\ Len(b) \in Nat
        BY <2>3, <2>4
      <4>2. QED
        BY <1>5, <4>1
    <3>2. o + k <= AtMost(l)
      BY <1>2, <1>5, <2>4, <2>7, <3>1 DEF AtMost
    <3>3. o + k \in 1 .. AtMost(l)
      BY <1>5, <1>7, <2>4, <3>2
    <3>4. QED
      BY <1>8, <2>3, <2>4, <3>1, <3>2, <3>3
  <2>8. QED
    BY <1>8, <2>1, <2>4, <2>5, <2>6, <2>7 DEF b
<1>11. Len(e) = AtMost(Offset(Len(input))) /\ Len(e) <= MaxPos
  BY <1>5, <1>7, <1>8
<1>12. QED
  BY <1>1, <1>5, <1>8, <1>9, <1>10, <1>11

-----------------------------------------------------------------------------
(* The inductive invariant *)

\* The first a parks, b parks of P7, c entries of C1 and C2 and d intervals
AllWrites(e, T, a, b, c, d) ==
    ParkWrites(e, a) \cup P7Writes(T, b, Len(e)) \cup CWrites(T, c, Len(e)) \cup C3Writes(T, d, Len(e))

Closing == stage \in {"close4", "done"}

\* Phase 3 has read the first m of the entries e, and made a parks, of p entries.
Cut(e, m, a, p) ==
    /\ e = Entries /\ given \in 0 .. Len(input) /\ m = AtMost(Offset(given))
    /\ stage = "stage2" => /\ park = ParkOf(e, Closed(m, kEntriesPerPark), m)
                           /\ a = Closed(m, kEntriesPerPark) /\ p = Slot(0, a, kEntriesPerPark)
    /\ stage # "stage2" => /\ given = Len(input)
                           /\ park.index = a /\ a = Opened(Len(e), kEntriesPerPark) /\ p = Len(e)

\* Phase 4 has read T, the smallest keys with their positions.
Read(e, m, T) ==
    /\ T \in Seq(KeyPos) /\ SortedKeys(T) /\ IsInjective(T) /\ ToSet(T) \subseteq Keyed(e, m)
    /\ \A x \in Keyed(e, m) \ ToSet(T), y \in ToSet(T) : y.key <= x.key
    /\ Phase3 => T = <<>>
    /\ Closing => ToSet(T) = Keyed(e, m)

\* What the loop of phase 4 carries
Carried(T, N, b, c) ==
    /\ index = Len(T)
    /\ park_data = ArrayOf(T, Closed(index, kEntriesPerPark), index)
    /\ park_deltas = DeltasOf(T, Closed(index, kCheckpoint1Interval), index)
    /\ prev_y \in 0 .. 255 /\ (index > 0 => prev_y = T[index].key)
    /\ num_C1_entries = NumC1(index)
    /\ C2 = C2Of(T, NumC2(index))
    /\ ~Phase3 => /\ final_file_writer_1 = Slot(BeginC(N), c, C1Size)
                  /\ final_file_writer_3 = Slot(Begin7(N), b, P7Size)

Counts(T, N, b, c, d) ==
    /\ b = IF Closing THEN Closed(N, kEntriesPerPark) + 1 ELSE Closed(Len(T), kEntriesPerPark)
    /\ c = IF stage = "done" THEN NumC(N) ELSE NumC1(Len(T))
    /\ d = Closed(Len(T), kCheckpoint1Interval) + (IF Closing /\ park_deltas # <<>> THEN 1 ELSE 0)

Pointers(N) ==
    /\ pointers \in [6 .. 10 -> Nat]
    /\ ~Phase3 => pointers[6] = L_final_begin /\ pointers[7] = Begin7(N)
    /\ stage = "done" => /\ pointers[8] = BeginC(N) /\ pointers[9] = Slot(BeginC(N), NumC1(N) + 1, C1Size)
                         /\ pointers[10] = BeginC3(N)

Progress(e, m, T, a, b, c, d, p) ==
    /\ Cut(e, m, a, p) /\ Read(e, m, T) /\ Carried(T, Len(e), b, c) /\ Counts(T, Len(e), b, c, d)
    /\ Pointers(Len(e))

Makes(e, m, T, a, b, c, d, p) ==
    /\ Progress(e, m, T, a, b, c, d, p)
    /\ Pipe(AllWrites(e, T, a, b, c, d), a + b + c + d, p, Keyed(e, m) \ ToSet(T))

PlotInv == \E e, m, T, a, b, c, d, p : Makes(e, m, T, a, b, c, d, p)

-----------------------------------------------------------------------------
(* What holds of every action of phase 3 *)

\* Nothing is read by phase 4 yet.
LEMMA NothingRead ==
    ASSUME NEW e, NEW N
    PROVE  /\ <<>> \in Seq(KeyPos) /\ SortedKeys(<<>>) /\ IsInjective(<<>>) /\ ToSet(<<>>) = {} /\ Len(<<>>) = 0
           /\ Closed(0, kEntriesPerPark) = 0 /\ Closed(0, kCheckpoint1Interval) = 0 /\ NumC1(0) = 0 /\ NumC2(0) = 0
           /\ ArrayOf(<<>>, 0, 0) = <<>> /\ DeltasOf(<<>>, 0, 0) = <<>> /\ C2Of(<<>>, 0) = <<>>
           /\ P7Writes(<<>>, 0, N) = {} /\ CWrites(<<>>, 0, N) = {} /\ C3Writes(<<>>, 0, N) = {}
           /\ Keyed(e, 0) = {} /\ ParkWrites(e, 0) = {}
<1>1. <<>> \in Seq(KeyPos) /\ Len(<<>>) = 0 /\ 1 .. 0 = {} /\ 0 .. 0 - 1 = {}
  OBVIOUS
<1>2. SortedKeys(<<>>)
  BY <1>1 DEF SortedKeys
<1>3. Closed(0, kEntriesPerPark) = 0 /\ Closed(0, kCheckpoint1Interval) = 0 /\ NumC1(0) = 0 /\ NumC2(0) = 0
  BY DEF Closed, NumC1, NumC2, Opened
<1>4. ArrayOf(<<>>, 0, 0) = <<>> /\ DeltasOf(<<>>, 0, 0) = <<>>
  <2>1. 0 \in 0 .. Len(<<>>) /\ 0 \in 0 .. Closed(0, kEntriesPerPark) /\ 0 \in 0 .. Closed(0, kCheckpoint1Interval)
    BY <1>1, <1>3
  <2> DEFINE z == <<>>
  <2>z. z = <<>> /\ z \in Seq(KeyPos) /\ 0 \in 0 .. Len(z) /\ SortedKeys(z)
    BY <1>1, <1>2, <2>1
  <2> HIDE DEF z
  <2>2. ArrayOf(<<>>, 0, 0) \in Seq(Nat) /\ Len(ArrayOf(<<>>, 0, 0)) = InGroup(0, 0, kEntriesPerPark)
    <3>1. ArrayOf(z, 0, 0) \in Seq(Nat) /\ Len(ArrayOf(z, 0, 0)) = InGroup(0, 0, kEntriesPerPark)
      BY <2>1, <2>z, ArrayType
    <3>2. QED
      BY <3>1, <2>z
  <2>3. DeltasOf(<<>>, 0, 0) \in Seq(Nat) /\ Len(DeltasOf(<<>>, 0, 0)) = 0
    <3>1. DeltasOf(z, 0, 0) \in Seq(Nat) /\ Len(DeltasOf(z, 0, 0)) = 0
      BY <2>1, <2>z, DeltasOfType
    <3>2. QED
      BY <3>1, <2>z
  <2>4. InGroup(0, 0, kEntriesPerPark) = 0
    <3>1. InGroup(Closed(0, kEntriesPerPark), 0, kEntriesPerPark) = 0 - Slot(0, Closed(0, kEntriesPerPark), kEntriesPerPark)
      BY Bounds, Groups
    <3>2. Slot(0, 0, kEntriesPerPark) = 0
      BY Bounds, Slots
    <3>3. QED
      BY <1>3, <3>1, <3>2
  <2>5. \A s \in Seq(Nat) : Len(s) = 0 => s = <<>>
    OBVIOUS
  <2>6. QED
    BY <2>2, <2>3, <2>4, <2>5
<1>5. C2Of(<<>>, 0) = <<>>
  BY <1>1 DEF C2Of
<1>6. QED
  BY <1>1, <1>2, <1>3, <1>4, <1>5, EmptySequence, OneMore DEF Keyed, ParkWrites

\* Nothing is written at the start.
LEMMA PlotStart == Init => PlotInv
<1> SUFFICES ASSUME Init PROVE PlotInv
  OBVIOUS
<1>1. PICK e : e = Entries
  OBVIOUS
<1>2. input \in Inputs
  BY DEF Init
<1>3. /\ e \in Seq(Entry) /\ Offset(0) = 0 /\ input \in Seq(Seq(Entry))
  BY <1>1, <1>2, EntriesAre
<1>4. AtMost(0) = 0 /\ Len(input) \in Nat
  BY <1>3, Bounds DEF AtMost
<1>5. /\ <<>> \in Seq(KeyPos) /\ SortedKeys(<<>>) /\ IsInjective(<<>>) /\ ToSet(<<>>) = {} /\ Len(<<>>) = 0
      /\ Closed(0, kEntriesPerPark) = 0 /\ Closed(0, kCheckpoint1Interval) = 0 /\ NumC1(0) = 0 /\ NumC2(0) = 0
      /\ ArrayOf(<<>>, 0, 0) = <<>> /\ DeltasOf(<<>>, 0, 0) = <<>> /\ C2Of(<<>>, 0) = <<>>
      /\ P7Writes(<<>>, 0, Len(e)) = {} /\ CWrites(<<>>, 0, Len(e)) = {} /\ C3Writes(<<>>, 0, Len(e)) = {}
      /\ Keyed(e, 0) = {} /\ ParkWrites(e, 0) = {}
  BY NothingRead
<1>6. ParkOf(e, 0, 0) = [index |-> 0, points |-> <<>>] /\ Slot(0, 0, kEntriesPerPark) = 0
  <2>1. Slot(0, 0, kEntriesPerPark) = 0
    BY Bounds, Slots
  <2>2. InGroup(0, 0, kEntriesPerPark) = 0
    <3>1. InGroup(Closed(0, kEntriesPerPark), 0, kEntriesPerPark) = 0 - Slot(0, Closed(0, kEntriesPerPark), kEntriesPerPark)
      BY Bounds, Groups
    <3>2. QED
      BY <1>5, <2>1, <3>1
  <2>3. QED
    BY <2>1, <2>2 DEF ParkOf
<1>7. Phase3 /\ ~Closing /\ stage = "stage2"
  BY DEF Init, Phase3, Closing
<1>8. Cut(e, 0, 0, 0)
  BY <1>1, <1>3, <1>4, <1>5, <1>6, <1>7 DEF Cut, Init
<1>9. Read(e, 0, <<>>)
  BY <1>5, <1>7 DEF Read
<1>10. Carried(<<>>, Len(e), 0, 0)
  BY <1>5, <1>7 DEF Carried, Init
<1>11. Counts(<<>>, Len(e), 0, 0, 0)
  BY <1>5, <1>7 DEF Counts
<1>12. Pointers(Len(e))
  <2>1. pointers \in [6 .. 10 -> Nat]
    BY DEF Init
  <2>2. QED
    BY <1>7, <2>1 DEF Pointers
<1>13. AllWrites(e, <<>>, 0, 0, 0, 0) = {}
  BY <1>5 DEF AllWrites
<1>14. AreQueues(queue) /\ \A q \in Stages : queue[q] = <<>>
  <2>1. queue = [q \in Stages |-> <<>>]
    BY DEF Init
  <2>2. \A q \in Stages : <<>> \in Seq(InputsOf(q))
    OBVIOUS
  <2>3. QED
    BY <2>1, <2>2 DEF AreQueues
<1>15. Types
  BY <1>2, <1>7, <1>14, NoSends DEF Types, Init
<1>16. Accounted({}, 0)
  <2>1. InPipe = {} /\ NumPipe = 0
    BY <1>14, SentEmpty, QueuesEmpty DEF Init, InPipe, NumPipe
  <2>2. IsFiniteSet({}) /\ Cardinality({}) = 0
    BY FS_EmptySet
  <2>3. QED
    BY <2>1, <2>2 DEF Accounted, Init
<1>17. Counted(0)
  <2>1. AllPoints(<<>>) = 0
    BY SumSteps DEF AllPoints
  <2>2. "park_threads" \in Stages
    BY StageNames
  <2>3. QED
    BY <1>14, <2>1, <2>2, NoSends DEF Counted, Init
<1>18. Sorted({})
  <2>1. "L_add" \in Stages
    BY StageNames
  <2>2. QED
    BY <1>14, <2>1, AddsEmpty DEF Sorted, InAdds, Init
<1>19. Makes(e, 0, <<>>, 0, 0, 0, 0, 0)
  <2>1. 0 + 0 + 0 + 0 = 0 /\ {} \ {} = {}
    OBVIOUS
  <2>2. Keyed(e, 0) \ ToSet(<<>>) = {}
    BY <1>5
  <2>3. Pipe({}, 0, 0, {})
    BY <1>15, <1>16, <1>17, <1>18 DEF Pipe
  <2>4. Progress(e, 0, <<>>, 0, 0, 0, 0, 0)
    BY <1>8, <1>9, <1>10, <1>11, <1>12 DEF Progress
  <2>5. QED
    BY <1>13, <2>1, <2>2, <2>3, <2>4 DEF Makes
<1>20. QED
  BY <1>19 DEF PlotInv

\* The threads and pools leave the loops alone.
LEMMA PlotPipe ==
    ASSUME NEW e, NEW m, NEW T, NEW a, NEW b, NEW c, NEW d, NEW p, Makes(e, m, T, a, b, c, d, p),
           Send \/ DeliverSome \/ PlotWrite \/ Add
    PROVE  Makes(e, m, T, a, b, c, d, p)'
<1> DEFINE M == AllWrites(e, T, a, b, c, d)
           k == a + b + c + d
           A == Keyed(e, m) \ ToSet(T)
<1>1. Pipe(M, k, p, A) /\ Progress(e, m, T, a, b, c, d, p)
  BY DEF Makes
<1> HIDE DEF M, k, A
<1>2. PICK M1, k1, A1 : M1 = M /\ k1 = k /\ A1 = A
  OBVIOUS
<1>3. Pipe(M1, k1, p, A1)
  BY <1>1, <1>2
<1>4. Pipe(M1, k1, p, A1)' /\ UNCHANGED loop
  BY <1>3, PipeSteps
<1>5. Progress(e, m, T, a, b, c, d, p)'
  <2>1. UNCHANGED <<input, stage, given, park, index, park_data, park_deltas, prev_y, num_C1_entries, C2,
          final_file_writer_1, final_file_writer_3, pointers>>
    BY <1>4 DEF loop
  <2>2. Phase3' = Phase3 /\ Closing' = Closing /\ Entries' = Entries /\ Offset(given)' = Offset(given)
    BY <2>1 DEF Phase3, Closing, Entries, Offset
  <2>3. Cut(e, m, a, p)'
    BY <1>1, <2>1, <2>2 DEF Progress, Cut
  <2>4. Read(e, m, T)'
    BY <1>1, <2>1, <2>2 DEF Progress, Read
  <2>5. Carried(T, Len(e), b, c)' /\ Counts(T, Len(e), b, c, d)' /\ Pointers(Len(e))'
    BY <1>1, <2>1, <2>2 DEF Progress, Carried, Counts, Pointers
  <2>6. QED
    BY <2>3, <2>4, <2>5 DEF Progress
<1>6. M1 = AllWrites(e, T, a, b, c, d) /\ k1 = a + b + c + d /\ A1 = Keyed(e, m) \ ToSet(T)
  BY <1>2 DEF M, k, A
<1>7. QED
  BY <1>4, <1>5, <1>6 DEF Makes

\* A step that changes nothing
LEMMA PlotSame ==
    ASSUME NEW e, NEW m, NEW T, NEW a, NEW b, NEW c, NEW d, NEW p, Makes(e, m, T, a, b, c, d, p),
           UNCHANGED vars
    PROVE  Makes(e, m, T, a, b, c, d, p)'
<1>1. UNCHANGED <<input, stage, sends, queue, given, park, num_written_final, L_sort, index, park_data, park_deltas,
          prev_y, num_C1_entries, C2, final_file_writer_1, final_file_writer_3, file, num_writes, pointers>>
  BY DEF vars, phase3, phase4, plot
<1>2. Phase3' = Phase3 /\ Closing' = Closing /\ Entries' = Entries /\ Offset(given)' = Offset(given)
  BY <1>1 DEF Phase3, Closing, Entries, Offset
<1>3. Progress(e, m, T, a, b, c, d, p) /\ Pipe(AllWrites(e, T, a, b, c, d), a + b + c + d, p, Keyed(e, m) \ ToSet(T))
  BY DEF Makes
<1>4. Progress(e, m, T, a, b, c, d, p)'
  <2>1. Cut(e, m, a, p)'
    BY <1>1, <1>2, <1>3 DEF Progress, Cut
  <2>2. Read(e, m, T)'
    BY <1>1, <1>2, <1>3 DEF Progress, Read
  <2>3. Carried(T, Len(e), b, c)' /\ Counts(T, Len(e), b, c, d)' /\ Pointers(Len(e))'
    BY <1>1, <1>2, <1>3 DEF Progress, Carried, Counts, Pointers
  <2>4. QED
    BY <2>1, <2>2, <2>3 DEF Progress
<1>5. PICK M1, k1, A1 : M1 = AllWrites(e, T, a, b, c, d) /\ k1 = a + b + c + d /\ A1 = Keyed(e, m) \ ToSet(T)
  OBVIOUS
<1>6. Pipe(M1, k1, p, A1)
  BY <1>3, <1>5
<1>7. Pipe(M1, k1, p, A1)'
  BY <1>1, <1>2, <1>6 DEF Pipe, Types, AreQueues, Accounted, Counted, Sorted, InPipe, NumPipe, InAdds
<1>8. QED
  BY <1>4, <1>5, <1>7 DEF Makes

-----------------------------------------------------------------------------
(* Steps of phase 3 *)

\* In phase 3 nothing is read of the second DiskSort.
LEMMA Phase3Is ==
    ASSUME NEW e, NEW m, NEW T, NEW a, NEW b, NEW c, NEW d, NEW p, Makes(e, m, T, a, b, c, d, p), Phase3
    PROVE  /\ T = <<>> /\ b = 0 /\ c = 0 /\ d = 0 /\ a + b + c + d = a + 0 + 0 + 0
           /\ AllWrites(e, T, a, b, c, d) = ParkWrites(e, a)
           /\ Keyed(e, m) \ ToSet(T) = Keyed(e, m)
<1>1. T = <<>>
  BY DEF Makes, Progress, Read
<1>2. stage # "done" /\ ~Closing
  BY DEF Phase3, Closing
<1>3. /\ Len(<<>>) = 0 /\ Closed(0, kEntriesPerPark) = 0 /\ Closed(0, kCheckpoint1Interval) = 0 /\ NumC1(0) = 0
      /\ P7Writes(<<>>, 0, Len(e)) = {} /\ CWrites(<<>>, 0, Len(e)) = {} /\ C3Writes(<<>>, 0, Len(e)) = {}
      /\ ToSet(<<>>) = {}
  BY NothingRead
<1>4. b = 0 /\ c = 0 /\ d = 0 + 0
  BY <1>1, <1>2, <1>3 DEF Makes, Progress, Counts
<1>5. AllWrites(e, <<>>, a, 0, 0, 0) = ParkWrites(e, a)
  BY <1>3 DEF AllWrites
<1>6. QED
  BY <1>1, <1>3, <1>4, <1>5

\* A step of phase 3 changes only parks and their positions.
LEMMA Phase3Stays ==
    ASSUME NEW e, NEW m, NEW a, NEW p, Progress(e, m, <<>>, a, 0, 0, 0, p), Phase3, Phase3',
           UNCHANGED <<phase4, pointers>>,
           NEW m2, NEW a2 \in Nat, NEW p2, Cut(e, m2, a2, p2)', Pipe(ParkWrites(e, a2), a2, p2, Keyed(e, m2))'
    PROVE  PlotInv'
<1>1. ~Closing' /\ ~Closing /\ stage # "done" /\ stage' # "done"
  BY DEF Phase3, Closing
<1>2. UNCHANGED <<index, park_data, park_deltas, prev_y, num_C1_entries, C2, final_file_writer_1,
          final_file_writer_3, pointers>>
  BY DEF phase4
<1>3. /\ <<>> \in Seq(KeyPos) /\ SortedKeys(<<>>) /\ IsInjective(<<>>) /\ ToSet(<<>>) = {} /\ Len(<<>>) = 0
      /\ P7Writes(<<>>, 0, Len(e)) = {} /\ CWrites(<<>>, 0, Len(e)) = {} /\ C3Writes(<<>>, 0, Len(e)) = {}
  BY NothingRead
<1>4. Read(e, m2, <<>>)'
  BY <1>1, <1>3 DEF Read
<1>5. Carried(<<>>, Len(e), 0, 0)'
  BY <1>1, <1>2 DEF Progress, Carried
<1>6. Counts(<<>>, Len(e), 0, 0, 0)'
  BY <1>1, <1>2 DEF Progress, Counts
<1>7. Pointers(Len(e))'
  BY <1>1, <1>2 DEF Progress, Pointers
<1>8. Progress(e, m2, <<>>, a2, 0, 0, 0, p2)'
  BY <1>4, <1>5, <1>6, <1>7 DEF Progress
<1>9. AllWrites(e, <<>>, a2, 0, 0, 0) = ParkWrites(e, a2) /\ a2 + 0 + 0 + 0 = a2 /\ Keyed(e, m2) \ ToSet(<<>>) = Keyed(e, m2)
  BY <1>3 DEF AllWrites
<1>10. Makes(e, m2, <<>>, a2, 0, 0, 0, p2)'
  BY <1>8, <1>9 DEF Makes
<1>11. QED
  BY <1>10 DEF PlotInv

\* Parks before the last are full.
LEMMA FullParks ==
    ASSUME NEW e \in Seq(Entry), NEW ps \in Seq(Park), NEW c \in Nat, c + Len(ps) <= Closed(Len(e), kEntriesPerPark),
           \A j \in 1 .. Len(ps) : ps[j] = ParkOf(e, (c + j) - 1, Len(e))
    PROVE  Slot(0, c, kEntriesPerPark) + NumPoints(ps) = Slot(0, c + Len(ps), kEntriesPerPark)
<1> DEFINE N == Len(e)
           n == Len(ps)
           s == [j \in 1 .. Len(ps) |-> Len(ps[j].points)]
           C == Closed(N, kEntriesPerPark)
<1>1. N \in Nat /\ n \in Nat /\ C \in Nat /\ c + n <= C
  <2>1. N \in Nat /\ n \in Nat /\ c + n <= C
    OBVIOUS
  <2>2. C \in Nat
    BY <2>1, Bounds, Groups
  <2>3. QED
    BY <2>1, <2>2
<1>2. ASSUME NEW j \in 1 .. n PROVE s[j] = kEntriesPerPark
  <2>1. (c + j) - 1 \in 0 .. C - 1 /\ (c + j) - 1 \in 0 .. C
    <3> HIDE DEF n, N, C
    <3>1. QED
      BY <1>1
  <2>2. N \in 1 .. Len(e)
    <3>1. N # 0
      BY <1>1, <2>1 DEF Closed
    <3>2. QED
      BY <1>1, <3>1
  <2>3. InGroup((c + j) - 1, N, kEntriesPerPark) = kEntriesPerPark
    BY <1>1, <2>1, Bounds, FullGroup
  <2>4. Len(ParkOf(e, (c + j) - 1, N).points) = InGroup((c + j) - 1, N, kEntriesPerPark)
    BY <2>1, <2>2, ParkType
  <2>5. QED
    BY <2>3, <2>4
<1>3. SumTo(s, n) = n * kEntriesPerPark
  <2> HIDE DEF s, n
  <2>1. kEntriesPerPark \in Nat
    BY Bounds
  <2>2. QED
    BY <1>1, <1>2, <2>1, SumConstant
<1>4. NumPoints(ps) = n * kEntriesPerPark
  BY <1>3 DEF NumPoints
<1>5. Slot(0, n, kEntriesPerPark) = n * kEntriesPerPark
  <2>1. Slot(0, n, kEntriesPerPark) = 0 + n * kEntriesPerPark /\ n * kEntriesPerPark \in Nat
    BY <1>1, Bounds, Slots
  <2> DEFINE x == n * kEntriesPerPark
  <2>2. Slot(0, n, kEntriesPerPark) = 0 + x /\ x \in Nat
    BY <2>1
  <2> HIDE DEF x
  <2>3. Slot(0, n, kEntriesPerPark) = x
    BY <2>2
  <2>4. QED
    BY <2>3 DEF x
<1>6. Slot(0, c + n, kEntriesPerPark) = Slot(0, c, kEntriesPerPark) + Slot(0, n, kEntriesPerPark)
  BY <1>1, Bounds, SlotOrder
<1>7. QED
  BY <1>4, <1>5, <1>6

\* L_add adds the entries of a block with the positions they have in table 6.
LEMMA AddedKeys ==
    ASSUME NEW e \in Seq(Entry), Len(e) <= MaxPos, NEW off \in Nat, AtMost(off) <= Len(e),
           NEW block \in Seq(Entry),
           \A k \in 1 .. Len(block) : off + k <= MaxPos => off + k <= Len(e) /\ e[off + k] = block[k]
    PROVE  Keyed(e, AtMost(off + Len(block))) = Keyed(e, AtMost(off)) \cup Added([block |-> block, offset |-> off])
<1> DEFINE x == [block |-> block, offset |-> off]
           l == Len(block)
           m == AtMost(off)
           m2 == AtMost(off + l)
           key(q) == [key |-> e[q].key, pos |-> q - 1]
<1>1. l \in Nat /\ MaxPos \in Nat \ {0} /\ Len(e) \in Nat /\ m \in Nat /\ m2 \in Nat /\ m <= m2 /\ m <= off
      /\ (m # off => m = MaxPos /\ m2 = MaxPos)
      /\ m2 <= MaxPos /\ m2 <= off + l /\ (m2 # off + l => m2 = MaxPos)
  BY Bounds DEF AtMost
<1>2. Added(x) = {[key |-> block[n].key, pos |-> off + n - 1] : n \in {n \in 1 .. l : off + n - 1 < MaxPos}}
  BY DEF Added, Fit
<1> HIDE DEF x, l, m, m2
<1>3. ASSUME NEW z \in Keyed(e, m2), z \notin Keyed(e, m) PROVE z \in Added(x)
  <2>1. PICK q \in 1 .. m2 : z = key(q)
    BY DEF Keyed
  <2>2. q \notin 1 .. m
    BY <1>3, <2>1 DEF Keyed
  <2>3. q - off \in 1 .. l /\ off + (q - off) - 1 < MaxPos /\ off + (q - off) <= MaxPos /\ q = off + (q - off)
        /\ off + (q - off) - 1 = q - 1
    BY <1>1, <2>2
  <2>4. PICK n \in Int : n = q - off
    BY <1>1
  <2>5. n \in 1 .. l /\ off + n - 1 < MaxPos /\ off + n <= MaxPos /\ q = off + n /\ off + n - 1 = q - 1
    BY <2>3, <2>4
  <2>6. e[off + n] = block[n]
    BY <2>5 DEF l
  <2>7. z = [key |-> block[n].key, pos |-> off + n - 1]
    BY <2>1, <2>5, <2>6
  <2>8. QED
    BY <1>2, <2>5, <2>7
<1>4. ASSUME NEW z \in Added(x) PROVE z \in Keyed(e, m2)
  <2>1. PICK n \in 1 .. l : off + n - 1 < MaxPos /\ z = [key |-> block[n].key, pos |-> off + n - 1]
    BY <1>2
  <2>2. off + n <= MaxPos /\ off + n \in 1 .. m2 /\ off + n - 1 = (off + n) - 1
    BY <1>1, <2>1
  <2>3. e[off + n] = block[n]
    BY <2>2 DEF l
  <2>4. z = key(off + n)
    BY <2>1, <2>2, <2>3
  <2>5. QED
    BY <2>2, <2>4 DEF Keyed
<1>5. Keyed(e, m) \subseteq Keyed(e, m2)
  <2>1. 1 .. m \subseteq 1 .. m2
    BY <1>1
  <2>2. QED
    BY <2>1 DEF Keyed
<1>6. Keyed(e, m2) = Keyed(e, m) \cup Added(x)
  BY <1>3, <1>4, <1>5
<1>7. QED
  BY <1>6 DEF x, l, m, m2

-----------------------------------------------------------------------------
(* The step of R_read *)

\* A sliced block: its complete parks go to park_threads, its entries to L_add.
LEMMA SliceBlockStep ==
    ASSUME NEW e, NEW m, NEW T, NEW a, NEW b, NEW c, NEW d, NEW p, Makes(e, m, T, a, b, c, d, p), SliceBlock
    PROVE  PlotInv'
<1>1. stage = "stage2" /\ sends = <<>> /\ given < Len(input) /\ Phase3 /\ Phase3'
      /\ UNCHANGED <<input, stage, queue, num_written_final, L_sort, phase4, file, num_writes, pointers>>
      /\ given' = given + 1
  BY DEF SliceBlock, Phase3, plot
<1>2. /\ T = <<>> /\ b = 0 /\ c = 0 /\ d = 0 /\ a + b + c + d = a + 0 + 0 + 0
      /\ AllWrites(e, T, a, b, c, d) = ParkWrites(e, a) /\ Keyed(e, m) \ ToSet(T) = Keyed(e, m)
  BY <1>1, Phase3Is
<1>3. /\ Progress(e, m, <<>>, a, 0, 0, 0, p) /\ Types
      /\ e = Entries /\ given \in 0 .. Len(input) /\ m = AtMost(Offset(given))
      /\ park = ParkOf(e, Closed(m, kEntriesPerPark), m)
      /\ a = Closed(m, kEntriesPerPark) /\ p = Slot(0, a, kEntriesPerPark)
  BY <1>1, <1>2 DEF Makes, Progress, Cut, Pipe
<1>4. /\ input \in Seq(Seq(Entry)) /\ e \in Seq(Entry) /\ Len(e) <= MaxPos
      /\ given \in 0 .. Len(input) - 1
  <2>1. input \in Inputs
    BY <1>3 DEF Types
  <2>2. input \in Seq(Seq(Entry)) /\ e \in Seq(Entry) /\ Len(e) <= MaxPos
    BY <1>3, <2>1, EntriesAre
  <2>3. given \in 0 .. Len(input) - 1
    BY <1>1, <1>3, <2>2
  <2>4. QED
    BY <2>2, <2>3
<1>5. PICK bl, of : bl = input[given + 1] /\ of = Offset(given)
  OBVIOUS
<1>6. /\ bl \in Seq(Entry) /\ of \in Nat /\ Offset(given + 1) = of + Len(bl) /\ AtMost(of) <= Len(e)
      /\ \A k \in 1 .. Len(bl) : of + k <= MaxPos => of + k <= Len(e) /\ e[of + k] = bl[k]
  BY <1>3, <1>4, <1>5, EntriesAre DEF Types
<1>7. PICK s : s = Sliced([index |-> of, park |-> park, parks |-> <<>>], bl)
  OBVIOUS
<1>8. PICK m2 : m2 = AtMost(of + Len(bl))
  OBVIOUS
<1>9. /\ m2 \in Nat /\ m <= m2 /\ m2 <= Len(e) /\ m \in Nat
      /\ s.park = ParkOf(e, Closed(m2, kEntriesPerPark), m2)
      /\ s.parks \in Seq(Park)
      /\ Len(s.parks) = Closed(m2, kEntriesPerPark) - Closed(m, kEntriesPerPark)
      /\ \A j \in 1 .. Len(s.parks) :
            s.parks[j] = ParkOf(e, (Closed(m, kEntriesPerPark) + j) - 1, Len(e))
  <2>1. s = Sliced([index |-> of, park |-> ParkOf(e, Closed(m, kEntriesPerPark), m), parks |-> <<>>], bl)
    BY <1>3, <1>7
  <2>2. m = AtMost(of)
    BY <1>3, <1>5
  <2>3. QED
    <3>1. e \in Seq(Entry) /\ Len(e) <= MaxPos /\ of \in Nat /\ AtMost(of) <= Len(e) /\ bl \in Seq(Entry)
      BY <1>4, <1>6
    <3>2. \A k \in 1 .. Len(bl) : of + k <= MaxPos => of + k <= Len(e) /\ e[of + k] = bl[k]
      BY <1>6
    <3>3. PICK mm, mm2, ss : mm = m /\ mm2 = m2 /\ ss = s
      OBVIOUS
    <3>4. mm = AtMost(of) /\ mm2 = AtMost(of + Len(bl))
      BY <1>8, <2>2, <3>3
    <3>5. ss = Sliced([index |-> of, park |-> ParkOf(e, Closed(mm, kEntriesPerPark), mm), parks |-> <<>>], bl)
      BY <2>1, <3>3
    <3>6. /\ mm2 \in Nat /\ mm <= mm2 /\ mm2 <= Len(e) /\ mm \in Nat
          /\ ss.park = ParkOf(e, Closed(mm2, kEntriesPerPark), mm2)
          /\ ss.parks \in Seq(Park)
          /\ Len(ss.parks) = Closed(mm2, kEntriesPerPark) - Closed(mm, kEntriesPerPark)
          /\ \A j \in 1 .. Len(ss.parks) :
                ss.parks[j] = ParkOf(e, (Closed(mm, kEntriesPerPark) + j) - 1, Len(e))
      BY ONLY SMTT(40), <3>1, <3>2, <3>4, <3>5, SlicedParks
    <3>7. QED
      BY <3>3, <3>6
<1>10. PICK ps : ps = s.parks
  OBVIOUS
<1>11. PICK x, y : x = [to |-> "park_threads", what |-> ps] /\ y = [to |-> "L_add", what |-> [block |-> bl, offset |-> of]]
  OBVIOUS
<1>12. park' = s.park /\ sends' = <<x, y>>
  BY <1>5, <1>7, <1>10, <1>11 DEF SliceBlock
<1>13. PICK a2 : a2 = Closed(m2, kEntriesPerPark)
  OBVIOUS
<1>14. a \in Nat /\ a2 \in Nat /\ Len(ps) = a2 - a /\ a + Len(ps) = a2 /\ a2 <= Closed(Len(e), kEntriesPerPark)
  <2>1. Closed(m, kEntriesPerPark) \in Nat /\ Closed(m2, kEntriesPerPark) \in Nat
    BY <1>9, Bounds, Groups
  <2>2. Len(e) \in Nat
    BY <1>4
  <2>3. Closed(m2, kEntriesPerPark) <= Closed(Len(e), kEntriesPerPark)
    BY <1>9, <2>2, Bounds, GroupsMonotone
  <2>4. a \in Nat /\ a2 \in Nat /\ Len(ps) = a2 - a
    BY <1>3, <1>9, <1>10, <1>13, <2>1
  <2>5. QED
    BY <1>13, <2>3, <2>4
<1>15. \A j \in 1 .. Len(ps) : ps[j] = ParkOf(e, (a + j) - 1, Len(e))
  BY <1>3, <1>9, <1>10
<1>16. ps \in Seq(Park)
  BY <1>9, <1>10
<1>17. /\ ToSet(Made("park_threads", ps)) \cup ParkWrites(e, a) = ParkWrites(e, a2)
       /\ Len(Made("park_threads", ps)) = Len(ps) /\ Len(ps) \in Nat /\ x \in Given
  <2>1. /\ ToSet(Made("park_threads", ps)) \cup ParkWrites(e, a) = ParkWrites(e, a + Len(ps))
        /\ Len(Made("park_threads", ps)) = Len(ps) /\ Len(ps) \in Nat
        /\ [to |-> "park_threads", what |-> ps] \in Given
    BY <1>4, <1>14, <1>15, <1>16, MadeParks
  <2>2. QED
    BY <1>11, <1>14, <2>1
<1>18. p + NumPoints(ps) = Slot(0, a2, kEntriesPerPark)
  <2>1. Slot(0, a, kEntriesPerPark) + NumPoints(ps) = Slot(0, a + Len(ps), kEntriesPerPark)
    BY <1>4, <1>14, <1>15, <1>16, FullParks
  <2>2. QED
    BY <1>3, <1>14, <2>1
<1>19. y \in Given /\ Made("L_add", y.what) = <<>>
  <2> DEFINE U(q) == [to : {q}, what : InputsOf(q)]
             w == [block |-> bl, offset |-> of]
  <2>1. w \in InputsOf("L_add")
    BY <1>6 DEF InputsOf, Entry
  <2>2. "L_add" \in Stages /\ "L_add" \notin Pools
    BY StageNames
  <2> HIDE DEF w
  <2>3. [to |-> "L_add", what |-> w] \in U("L_add")
    BY <2>1
  <2>4. [to |-> "L_add", what |-> w] \in Given
    BY <2>2, <2>3 DEF Given
  <2>5. Made("L_add", w) = <<>>
    BY <2>2 DEF Made
  <2>6. y = [to |-> "L_add", what |-> w]
    BY <1>11 DEF w
  <2>7. y.what = w
    BY <2>6
  <2>8. QED
    BY <2>4, <2>5, <2>6, <2>7
<1>20. /\ x.to = "park_threads" /\ x.what = ps /\ y.to = "L_add" /\ y.what = [block |-> bl, offset |-> of]
  BY <1>11
<1>21. PICK t : t = <<x, y>>
  OBVIOUS
<1>22. /\ t \in Seq(Given)
       /\ InAll(Sent(t)) = ToSet(Made("park_threads", ps)) \cup ToSet(Made("L_add", y.what))
       /\ NumAll(Sent(t)) = Len(Made("park_threads", ps)) + Len(Made("L_add", y.what))
       /\ AllToParks(t) = PointsIn(x) + PointsIn(y)
       /\ AddsSent(t) = Adds("park_threads", ps) \cup Adds("L_add", y.what)
  BY <1>17, <1>19, <1>20, <1>21, SendTwo
<1>23. ToSet(<<>>) = {} /\ Len(<<>>) = 0
  BY EmptySequence
<1>24. InAll(Sent(t)) = ToSet(Made("park_threads", ps)) /\ NumAll(Sent(t)) = Len(ps)
  BY <1>17, <1>19, <1>22, <1>23
<1>25. AllToParks(t) = NumPoints(ps) /\ AddsSent(t) = Added([block |-> bl, offset |-> of])
  <2>1. PointsIn(x) = NumPoints(ps) /\ PointsIn(y) = 0
    BY <1>20 DEF PointsIn
  <2>2. NumPoints(ps) \in Nat
    BY <1>16, PointsNat
  <2>3. Adds("park_threads", ps) = {} /\ Adds("L_add", y.what) = Added(y.what)
    BY DEF Adds
  <2>4. QED
    BY <1>20, <1>22, <2>1, <2>2, <2>3
<1>26. Pipe(ParkWrites(e, a), a, p, Keyed(e, m))
  BY SMTT(40), <1>2, <1>14 DEF Makes
<1>27. /\ Types' /\ Accounted(ParkWrites(e, a) \cup InAll(Sent(t)), a + NumAll(Sent(t)))'
       /\ Counted(p + AllToParks(t))' /\ InAdds' = InAdds \cup AddsSent(t)
  <2>1. sends' = t /\ stage' \in {"stage2", "close2", "phase4", "close4"}
    BY <1>1, <1>12, <1>21
  <2>2. PICK M0, A0 : M0 = ParkWrites(e, a) /\ A0 = Keyed(e, m)
    OBVIOUS
  <2>3. Pipe(M0, a, p, A0)
    BY <1>26, <2>2
  <2>4. /\ Types' /\ Accounted(M0 \cup InAll(Sent(t)), a + NumAll(Sent(t)))'
        /\ Counted(p + AllToParks(t))' /\ InAdds' = InAdds \cup AddsSent(t)
    BY <1>1, <1>22, <2>1, <2>3, Produced
  <2>5. QED
    BY <2>2, <2>4
<1>28. Pipe(ParkWrites(e, a2), a2, p + NumPoints(ps), Keyed(e, m2))'
  <2>1. ParkWrites(e, a) \cup InAll(Sent(t)) = ParkWrites(e, a2) /\ a + NumAll(Sent(t)) = a2
    BY <1>14, <1>17, <1>24
  <2>2. PICK M2 : M2 = ParkWrites(e, a2)
    OBVIOUS
  <2>3. Accounted(M2, a2)'
    BY <1>27, <2>1, <2>2
  <2>4. Keyed(e, m2) = Keyed(e, m) \cup Added([block |-> bl, offset |-> of])
    <3>1. m = AtMost(of)
      BY <1>3, <1>5
    <3>2. QED
      BY <1>4, <1>6, <1>8, <3>1, AddedKeys
  <2>5. PICK A1, A2 : A1 = Keyed(e, m) /\ A2 = Keyed(e, m2)
    OBVIOUS
  <2>6. Sorted(A1)
    BY <1>26, <2>5 DEF Pipe
  <2>7. Sorted(A2)'
    BY <1>1, <1>25, <1>27, <2>4, <2>5, <2>6 DEF Sorted
  <2>8. PICK p2 : p2 = p + NumPoints(ps)
    OBVIOUS
  <2>9. Counted(p2)'
    BY <1>25, <1>27, <2>8
  <2>10. Pipe(M2, a2, p2, A2)'
    BY <1>27, <2>3, <2>7, <2>9 DEF Pipe
  <2>11. QED
    BY <2>2, <2>5, <2>8, <2>10
<1>29. Cut(e, m2, a2, p + NumPoints(ps))'
  <2>1. Entries' = Entries /\ Offset(given)' = Offset(given + 1)
    BY <1>1 DEF Entries, Offset
  <2>2. given' \in 0 .. Len(input')
    BY <1>1, <1>4
  <2>3. stage' = "stage2"
    BY <1>1
  <2>4. e = Entries' /\ m2 = AtMost(Offset(given)')
    BY <1>3, <1>6, <1>8, <2>1
  <2>5. park' = ParkOf(e, Closed(m2, kEntriesPerPark), m2)
    BY <1>9, <1>12
  <2>6. QED
    BY <1>13, <1>18, <2>2, <2>3, <2>4, <2>5 DEF Cut
<1>30. QED
  BY <1>1, <1>3, <1>14, <1>28, <1>29, Phase3Stays

-----------------------------------------------------------------------------
(* The end of the input *)

\* Behind the last block, all entries are read.
LEMMA AllGiven ==
    ASSUME NEW e, NEW m, NEW a, NEW p, Cut(e, m, a, p), Types, given = Len(input)
    PROVE  m = Len(e) /\ e \in Seq(Entry) /\ Len(e) \in Nat /\ Len(e) <= MaxPos
<1>1. e = Entries /\ m = AtMost(Offset(given)) /\ input \in Inputs
  BY DEF Cut, Types
<1>2. e \in Seq(Entry) /\ Len(e) = AtMost(Offset(Len(input))) /\ Len(e) <= MaxPos
  BY <1>1, EntriesAre
<1>3. QED
  BY <1>1, <1>2

\* A sequence of one element
LEMMA OneElement ==
    ASSUME NEW V, NEW x \in V
    PROVE  <<x>> \in Seq(V) /\ Len(<<x>>) = 1 /\ \A j \in 1 .. Len(<<x>>) : j = 1 /\ <<x>>[j] = x
OBVIOUS

\* A park on its own
LEMMA OnePark ==
    ASSUME NEW x \in Park
    PROVE  <<x>> \in Seq(Park) /\ NumPoints(<<x>>) = Len(x.points)
<1>1. <<x>> \in Seq(Park) /\ Len(<<x>>) = 1 /\ <<x>>[1] = x
  BY OneElement
<1> DEFINE z == <<x>>
<1>2. z \in Seq(Park) /\ Len(z) = 1 /\ z[1] = x
  BY <1>1
<1> HIDE DEF z
<1> DEFINE s == [j \in 1 .. Len(z) |-> Len(z[j].points)]
<1>3. \A j \in 1 .. 1 : s[j] = Len(x.points)
  BY <1>2
<1>4. Len(x.points) \in Nat
  BY DEF Park
<1>5. NumPoints(z) = SumTo(s, 1)
  BY <1>2 DEF NumPoints
<1> HIDE DEF s
<1>6. SumTo(s, 1) = 1 * Len(x.points)
  BY <1>3, <1>4, SumConstant
<1>7. NumPoints(z) = Len(x.points)
  BY <1>4, <1>5, <1>6
<1>8. QED
  BY <1>1, <1>7 DEF z

\* The last park, full or not, is given.
LEMMA LastParkStep ==
    ASSUME NEW e, NEW m, NEW T, NEW a, NEW b, NEW c, NEW d, NEW p, Makes(e, m, T, a, b, c, d, p), LastPark
    PROVE  PlotInv'
<1>1. stage = "stage2" /\ stage' = "close2" /\ sends = <<>> /\ given = Len(input) /\ Phase3 /\ Phase3'
      /\ UNCHANGED <<input, queue, num_written_final, L_sort, phase4, file, num_writes, pointers, given>>
  BY DEF LastPark, Phase3, plot
<1>2. /\ T = <<>> /\ b = 0 /\ c = 0 /\ d = 0 /\ a + b + c + d = a + 0 + 0 + 0
      /\ AllWrites(e, T, a, b, c, d) = ParkWrites(e, a) /\ Keyed(e, m) \ ToSet(T) = Keyed(e, m)
  BY <1>1, Phase3Is
<1>3. /\ Progress(e, m, <<>>, a, 0, 0, 0, p) /\ Types /\ Cut(e, m, a, p)
      /\ e = Entries /\ m = AtMost(Offset(given))
      /\ park = ParkOf(e, Closed(m, kEntriesPerPark), m)
      /\ a = Closed(m, kEntriesPerPark) /\ p = Slot(0, a, kEntriesPerPark)
  BY <1>1, <1>2 DEF Makes, Progress, Cut, Pipe
<1>4. m = Len(e) /\ e \in Seq(Entry) /\ Len(e) \in Nat /\ Len(e) <= MaxPos
  BY <1>1, <1>3, AllGiven
<1>5. PICK N : N = Len(e)
  OBVIOUS
<1>6. /\ N \in Nat /\ a \in Nat /\ m = N /\ a = Closed(N, kEntriesPerPark) /\ p \in Nat
      /\ park = ParkOf(e, a, N) /\ p + InGroup(a, N, kEntriesPerPark) = N
      /\ (N = 0 => a = 0 /\ Opened(N, kEntriesPerPark) = 0) /\ (N > 0 => Opened(N, kEntriesPerPark) = a + 1)
  <2>1. N \in Nat /\ m = N /\ a = Closed(N, kEntriesPerPark) /\ park = ParkOf(e, a, N)
    BY <1>3, <1>4, <1>5
  <2>2. /\ Closed(N, kEntriesPerPark) \in Nat
        /\ N = 0 => Closed(N, kEntriesPerPark) = 0 /\ Opened(N, kEntriesPerPark) = 0
        /\ N > 0 => Opened(N, kEntriesPerPark) = Closed(N, kEntriesPerPark) + 1
        /\ InGroup(Closed(N, kEntriesPerPark), N, kEntriesPerPark) = N - Slot(0, Closed(N, kEntriesPerPark), kEntriesPerPark)
        /\ Slot(0, Closed(N, kEntriesPerPark), kEntriesPerPark) \in Nat
    BY <2>1, Bounds, Groups
  <2>3. p \in Nat /\ InGroup(a, N, kEntriesPerPark) = N - p
    BY <1>3, <2>1, <2>2
  <2>4. QED
    BY <2>1, <2>2, <2>3
<1>7. Pipe(ParkWrites(e, a), a, p, Keyed(e, m))
  <2>1. a + b + c + d = a
    BY <1>2, <1>6
  <2>2. Pipe(AllWrites(e, T, a, b, c, d), a + b + c + d, p, Keyed(e, m) \ ToSet(T))
    BY DEF Makes
  <2>3. QED
    BY <1>2, <2>1, <2>2
<1>8. Entries' = Entries /\ Offset(given)' = Offset(given) /\ given' = Len(input') /\ given' \in 0 .. Len(input')
  BY <1>1, <1>3 DEF Cut, Entries, Offset
<1>9. PICK M0, A0 : M0 = ParkWrites(e, a) /\ A0 = Keyed(e, m)
  OBVIOUS
<1>10. Pipe(M0, a, p, A0)
  BY <1>7, <1>9
<1>11. CASE N = 0
  <2>1. InGroup(0, 0, kEntriesPerPark) = 0
    BY <1>6, <1>11, Bounds, Groups
  <2>2. park = [index |-> 0, points |-> <<>>]
    <3>1. park = ParkOf(e, 0, 0)
      BY <1>6, <1>11
    <3>2. QED
      BY <2>1, <3>1 DEF ParkOf
  <2>3. sends' = <<>> /\ park' = park
    BY <1>1, <2>2 DEF LastPark
  <2>4. PICK t : t = <<>>
    OBVIOUS
  <2>5. t \in Seq(Given) /\ AllToParks(t) = 0 /\ AddsSent(t) = {} /\ InAll(Sent(t)) = {} /\ NumAll(Sent(t)) = 0
    BY <2>4, NoSends, SentEmpty
  <2>6. /\ Types' /\ Accounted(M0 \cup InAll(Sent(t)), a + NumAll(Sent(t)))'
        /\ Counted(p + AllToParks(t))' /\ InAdds' = InAdds \cup AddsSent(t)
    <3>1. sends' = t /\ stage' \in {"stage2", "close2", "phase4", "close4"}
      BY <1>1, <2>3, <2>4
    <3>2. QED
      BY <1>1, <1>10, <2>5, <3>1, Produced
  <2>7. M0 \cup InAll(Sent(t)) = M0 /\ a + NumAll(Sent(t)) = a /\ p + AllToParks(t) = p /\ InAdds \cup AddsSent(t) = InAdds
    BY <1>6, <2>5
  <2>8. Pipe(M0, a, p, A0)'
    BY <1>1, <1>10, <2>6, <2>7 DEF Pipe, Sorted
  <2>9. Pipe(ParkWrites(e, a), a, p, Keyed(e, m))'
    BY <1>9, <2>8
  <2>10. p = Len(e) /\ a = Opened(Len(e), kEntriesPerPark) /\ park.index = a
    BY <1>5, <1>6, <1>11, <2>1, <2>2
  <2>11. Cut(e, m, a, p)'
    BY <1>1, <1>3, <1>8, <2>3, <2>10 DEF Cut
  <2>12. QED
    BY <1>1, <1>3, <1>6, <2>9, <2>11, Phase3Stays
<1>12. CASE N > 0
  <2>1. park \in Park /\ park.index = a /\ Len(park.points) = InGroup(a, N, kEntriesPerPark)
        /\ InGroup(a, N, kEntriesPerPark) \in 1 .. kEntriesPerPark
    <3>1. N \in 1 .. Len(e) /\ a \in 0 .. Closed(N, kEntriesPerPark)
      BY <1>5, <1>6, <1>12
    <3>2. QED
      BY <1>4, <1>6, <3>1, ParkType
  <2>2. PICK pk : pk = park
    OBVIOUS
  <2>3. pk \in Park /\ pk.index = a /\ Len(pk.points) = InGroup(a, N, kEntriesPerPark) /\ Len(pk.points) \in Nat
        /\ pk = ParkOf(e, a, N)
    BY <1>6, <2>1, <2>2
  <2>4. PICK x, ps : ps = <<pk>> /\ x = [to |-> "park_threads", what |-> ps]
    OBVIOUS
  <2>5. sends' = <<x>> /\ park' = [pk EXCEPT !.index = @ + 1]
    <3>1. park.points # <<>>
      BY <2>1 DEF Park
    <3>2. QED
      BY <3>1, <2>2, <2>4 DEF LastPark
  <2>6. park'.index = a + 1
    BY <2>3, <2>5 DEF Park
  <2>7. ps \in Seq(Park) /\ Len(ps) = 1 /\ NumPoints(ps) = Len(pk.points)
        /\ \A j \in 1 .. Len(ps) : ps[j] = ParkOf(e, (a + j) - 1, Len(e))
    <3>1. ps \in Seq(Park) /\ NumPoints(ps) = Len(pk.points)
      BY <2>3, <2>4, OnePark
    <3>2. Len(ps) = 1 /\ \A j \in 1 .. Len(ps) : j = 1 /\ ps[j] = pk
      BY <2>3, <2>4, OneElement
    <3>3. (a + 1) - 1 = a
      BY <1>6
    <3>4. QED
      BY <1>5, <2>3, <3>1, <3>2, <3>3
  <2>8. /\ ToSet(Made("park_threads", ps)) \cup ParkWrites(e, a) = ParkWrites(e, a + 1)
        /\ Len(Made("park_threads", ps)) = 1 /\ x \in Given
    <3>1. /\ ToSet(Made("park_threads", ps)) \cup ParkWrites(e, a) = ParkWrites(e, a + Len(ps))
          /\ Len(Made("park_threads", ps)) = Len(ps)
          /\ [to |-> "park_threads", what |-> ps] \in Given
      BY <1>4, <1>6, <2>7, MadeParks
    <3>2. QED
      BY <2>4, <2>7, <3>1
  <2>9. x.to = "park_threads" /\ x.what = ps
    BY <2>4
  <2>10. PICK t : t = <<x>>
    OBVIOUS
  <2>11. /\ t \in Seq(Given)
         /\ InAll(Sent(t)) = ToSet(Made("park_threads", ps)) /\ NumAll(Sent(t)) = 1
         /\ AllToParks(t) = Len(pk.points) /\ AddsSent(t) = {}
    <3>1. /\ t \in Seq(Given)
          /\ InAll(Sent(t)) = ToSet(Made("park_threads", ps)) /\ NumAll(Sent(t)) = Len(Made("park_threads", ps))
          /\ AllToParks(t) = PointsIn(x) /\ AddsSent(t) = Adds("park_threads", ps)
      BY <2>8, <2>9, <2>10, SendOne
    <3>2. PointsIn(x) = NumPoints(ps) /\ Adds("park_threads", ps) = {}
      BY <2>9 DEF PointsIn, Adds
    <3>3. QED
      BY <2>7, <2>8, <3>1, <3>2
  <2>12. /\ Types' /\ Accounted(M0 \cup InAll(Sent(t)), a + NumAll(Sent(t)))'
         /\ Counted(p + AllToParks(t))' /\ InAdds' = InAdds \cup AddsSent(t)
    <3>1. sends' = t /\ stage' \in {"stage2", "close2", "phase4", "close4"}
      BY <1>1, <2>5, <2>10
    <3>2. QED
      BY <1>1, <1>10, <2>11, <3>1, Produced
  <2>13. PICK a2, M2 : a2 = a + 1 /\ M2 = ParkWrites(e, a + 1)
    OBVIOUS
  <2>14. M0 \cup InAll(Sent(t)) = M2 /\ a + NumAll(Sent(t)) = a2 /\ p + AllToParks(t) = N /\ InAdds \cup AddsSent(t) = InAdds
    BY <1>6, <1>9, <2>3, <2>8, <2>11, <2>13
  <2>15. Pipe(M2, a2, N, A0)'
    BY <1>1, <1>10, <2>12, <2>14 DEF Pipe, Sorted
  <2>16. Pipe(ParkWrites(e, a2), a2, N, Keyed(e, m))'
    BY <1>9, <2>13, <2>15
  <2>17. a2 \in Nat /\ a2 = Opened(Len(e), kEntriesPerPark) /\ park'.index = a2
    BY <1>5, <1>6, <1>12, <2>6, <2>13
  <2>18. Cut(e, m, a2, N)'
    BY <1>1, <1>3, <1>5, <1>8, <2>17 DEF Cut
  <2>19. QED
    BY <1>1, <1>3, <2>16, <2>17, <2>18, Phase3Stays
<1>13. QED
  BY <1>6, <1>11, <1>12

-----------------------------------------------------------------------------
(* Between the phases *)

\* What phase 4 computes from the number of entries are the places of its tables.
LEMMA TablePlaces ==
    ASSUME NEW N \in Nat, pointers[7] = Begin7(N), num_written_final = N
    PROVE  /\ P7Parks(N) = Closed(N, kEntriesPerPark) + 1
           /\ begin_byte_C1 = BeginC(N)
           /\ begin_byte_C2 = Slot(BeginC(N), NumC1(N) + 1, C1Size)
           /\ begin_byte_C3 = BeginC3(N)
           /\ end_byte = EndC3(N)
<1>1. /\ NumC1(N) \in Nat /\ NumC2(N) \in Nat /\ Begin7(N) \in Nat /\ BeginC(N) \in Nat /\ BeginC3(N) \in Nat
      /\ Closed(N, kEntriesPerPark) \in Nat
  BY SecondSizes
<1>2. P7Parks(N) = Closed(N, kEntriesPerPark) + 1
  <2>1. 0 \div kEntriesPerPark = 0
    BY Bounds
  <2>2. QED
    BY <2>1 DEF P7Parks, Closed
<1>3. begin_byte_C1 = BeginC(N)
  BY <1>2 DEF begin_byte_C1, BeginC, Slot
<1>4. total_C1_entries = NumC1(N) /\ total_C2_entries = NumC2(N)
  <2>1. total_C1_entries = NumC1(N)
    BY Bounds, CountsGroups DEF total_C1_entries, NumC1
  <2>2. total_C2_entries = NumC2(N)
    BY <1>1, <2>1, Bounds, CountsGroups DEF total_C2_entries, NumC2
  <2>3. QED
    BY <2>1, <2>2
<1>5. begin_byte_C2 = Slot(BeginC(N), NumC1(N) + 1, C1Size)
  BY <1>3, <1>4 DEF begin_byte_C2, Slot
<1>6. begin_byte_C3 = BeginC3(N)
  <2>1. begin_byte_C3 = Slot(begin_byte_C2, NumC2(N) + 1, C1Size)
    BY <1>4 DEF begin_byte_C3, Slot
  <2> DEFINE x == NumC1(N) + 1
             y == NumC2(N) + 1
             bg == BeginC(N)
  <2>3. x \in Nat /\ y \in Nat /\ bg \in Nat
    BY <1>1
  <2> HIDE DEF x, y, bg
  <2>4. Slot(bg, x, C1Size) \in Nat
    BY <2>3, Bounds, Slots
  <2>5. Slot(Slot(bg, x, C1Size), y, C1Size) = Slot(bg, x, C1Size) + Slot(0, y, C1Size)
    BY <2>3, <2>4, Bounds, Slots
  <2>6. Slot(bg, x + y, C1Size) = Slot(bg, x, C1Size) + Slot(0, y, C1Size)
    BY <2>3, Bounds, SlotOrder
  <2>7. x + y = NumC(N)
    BY <1>1 DEF x, y, NumC
  <2>8. begin_byte_C3 = Slot(Slot(bg, x, C1Size), y, C1Size)
    BY <1>5, <2>1 DEF x, y, bg
  <2>9. BeginC3(N) = Slot(bg, NumC(N), C1Size)
    BY DEF BeginC3, bg
  <2>10. QED
    BY <2>5, <2>6, <2>7, <2>8, <2>9
<1>7. end_byte = EndC3(N)
  BY <1>4, <1>6 DEF end_byte, EndC3, Slot
<1>8. QED
  BY <1>2, <1>3, <1>5, <1>6, <1>7

\* When everything is given on, the counts are complete.
LEMMA CountsComplete ==
    ASSUME NEW p \in Nat, Counted(p), Types, AllToParks(sends) = 0, queue["park_threads"] = <<>>
    PROVE  num_written_final = p
<1>1. AllPoints(<<>>) = 0
  BY SumSteps DEF AllPoints
<1>2. num_written_final \in Nat
  BY DEF Types
<1>3. QED
  BY <1>1, <1>2 DEF Counted

\* Phase 4 knows the number of entries and where its tables are.
LEMMA Phase4Is ==
    ASSUME NEW e, NEW m, NEW T, NEW a, NEW b, NEW c, NEW d, NEW p, Makes(e, m, T, a, b, c, d, p), ~Phase3
    PROVE  /\ e \in Seq(Entry) /\ Len(e) \in Nat /\ m = Len(e) /\ e = Entries /\ p = Len(e)
           /\ a = Opened(Len(e), kEntriesPerPark) /\ given = Len(input)
           /\ num_written_final = Len(e) /\ pointers[7] = Begin7(Len(e)) /\ pointers[6] = L_final_begin
           /\ P7Parks(Len(e)) = Closed(Len(e), kEntriesPerPark) + 1
           /\ begin_byte_C1 = BeginC(Len(e))
           /\ begin_byte_C2 = Slot(BeginC(Len(e)), NumC1(Len(e)) + 1, C1Size)
           /\ begin_byte_C3 = BeginC3(Len(e))
           /\ end_byte = EndC3(Len(e))
           /\ InAdds = {} /\ L_sort = Keyed(e, Len(e)) \ ToSet(T)
<1>1. stage # "stage2"
  BY DEF Phase3
<1>2. /\ Cut(e, m, a, p) /\ Types /\ Counted(p) /\ Sorted(Keyed(e, m) \ ToSet(T)) /\ Pointers(Len(e))
  BY DEF Makes, Progress, Pipe
<1>3. given = Len(input) /\ a = Opened(Len(e), kEntriesPerPark) /\ p = Len(e) /\ e = Entries
  BY <1>1, <1>2 DEF Cut
<1>4. m = Len(e) /\ e \in Seq(Entry) /\ Len(e) \in Nat
  BY <1>2, <1>3, AllGiven
<1>5. sends \in Seq(Given) /\ ToPhase4(sends) /\ queue["park_threads"] = <<>> /\ queue["L_add"] = <<>>
  BY <1>2 DEF Types, ToPhase4
<1>6. AllToParks(sends) = 0 /\ AddsSent(sends) = {}
  BY <1>5, Phase4Sends
<1>7. num_written_final = Len(e)
  BY <1>2, <1>3, <1>4, <1>5, <1>6, CountsComplete
<1>8. pointers[7] = Begin7(Len(e)) /\ pointers[6] = L_final_begin
  BY <1>2 DEF Pointers
<1>9. InAdds = {}
  BY <1>5, <1>6, AddsEmpty DEF InAdds
<1>10. L_sort = Keyed(e, Len(e)) \ ToSet(T)
  BY <1>2, <1>4, <1>9 DEF Sorted
<1>11. PICK N : N = Len(e)
  OBVIOUS
<1>12. /\ P7Parks(N) = Closed(N, kEntriesPerPark) + 1
       /\ begin_byte_C1 = BeginC(N)
       /\ begin_byte_C2 = Slot(BeginC(N), NumC1(N) + 1, C1Size)
       /\ begin_byte_C3 = BeginC3(N)
       /\ end_byte = EndC3(N)
  <2>1. N \in Nat /\ pointers[7] = Begin7(N) /\ num_written_final = N
    BY <1>4, <1>7, <1>8, <1>11
  <2>2. QED
    BY <2>1, TablePlaces
<1>13. QED
  BY <1>3, <1>4, <1>7, <1>8, <1>9, <1>10, <1>11, <1>12

\* All of phase 3 is written when phase 4 computes its tables from what phase 3 counted.
LEMMA BeginPhase4Step ==
    ASSUME NEW e, NEW m, NEW T, NEW a, NEW b, NEW c, NEW d, NEW p, Makes(e, m, T, a, b, c, d, p), BeginPhase4
    PROVE  PlotInv'
<1>1. /\ stage = "close2" /\ stage' = "phase4" /\ sends = <<>> /\ \A q \in Stages : queue[q] = <<>>
      /\ Phase3 /\ ~Phase3' /\ ~Closing /\ ~Closing'
      /\ UNCHANGED <<input, sends, queue, given, park, num_written_final, L_sort, file, num_writes>>
      /\ UNCHANGED <<index, park_data, park_deltas, prev_y, num_C1_entries, C2>>
  BY DEF BeginPhase4, AllClosed, Phase3, Closing, phase3, plot
<1>2. /\ T = <<>> /\ b = 0 /\ c = 0 /\ d = 0
  BY <1>1, Phase3Is
<1>3. /\ Progress(e, m, <<>>, a, 0, 0, 0, p) /\ Types /\ Cut(e, m, a, p) /\ Counted(p) /\ given = Len(input)
      /\ park.index = a /\ a = Opened(Len(e), kEntriesPerPark) /\ p = Len(e)
  BY <1>1, <1>2 DEF Makes, Progress, Cut, Pipe
<1>4. m = Len(e) /\ e \in Seq(Entry) /\ Len(e) \in Nat
  BY <1>3, AllGiven
<1>5. PICK N : N = Len(e)
  OBVIOUS
<1>6. num_written_final = N
  <2>1. AllToParks(sends) = 0
    BY <1>1, NoSends
  <2>2. queue["park_threads"] = <<>> /\ p \in Nat
    BY <1>1, <1>3, <1>4, StageNames
  <2>3. QED
    BY <1>3, <1>5, <2>1, <2>2, CountsComplete
<1>7. pointers \in [6 .. 10 -> Nat] /\ a \in Nat /\ Begin7(N) = L_final_begin + a * ParkSize /\ Begin7(N) \in Nat
  <2>1. pointers \in [6 .. 10 -> Nat]
    BY <1>3 DEF Progress, Pointers
  <2>2. a \in Nat /\ Begin7(N) \in Nat
    BY <1>3, <1>4, <1>5, SecondSizes
  <2>3. QED
    BY <1>3, <1>5, <2>1, <2>2 DEF Begin7, Slot
<1>8. pointers' = [pointers EXCEPT ![6] = L_final_begin, ![7] = Begin7(N)]
  BY <1>3, <1>7 DEF BeginPhase4
<1>9. pointers'[6] = L_final_begin /\ pointers'[7] = Begin7(N) /\ pointers' \in [6 .. 10 -> Nat]
  <2>1. PICK g : g = Begin7(N)
    OBVIOUS
  <2>2. g \in Nat /\ L_final_begin \in Nat
    BY <1>7, <2>1, Bounds
  <2>3. pointers' = [pointers EXCEPT ![6] = L_final_begin, ![7] = g]
    BY <1>8, <2>1
  <2>4. pointers'[6] = L_final_begin /\ pointers'[7] = g /\ pointers' \in [6 .. 10 -> Nat]
    BY <1>7, <2>2, <2>3
  <2>5. QED
    BY <2>1, <2>4
<1>10. P7Parks(N) = Closed(N, kEntriesPerPark) + 1
  <2>1. 0 \div kEntriesPerPark = 0
    BY Bounds
  <2>2. QED
    BY <2>1 DEF P7Parks, Closed
<1>11. final_file_writer_3' = Begin7(N) /\ final_file_writer_1' = BeginC(N)
  <2>1. final_file_writer_3' = pointers'[7] /\ final_file_writer_1' = pointers'[7] + P7Parks(num_written_final) * P7Size
    BY DEF BeginPhase4
  <2>2. BeginC(N) = Begin7(N) + (Closed(N, kEntriesPerPark) + 1) * P7Size
    BY DEF BeginC, Slot
  <2>3. QED
    BY <1>6, <1>9, <1>10, <2>1, <2>2
<1>12. Cut(e, m, a, p)'
  <2>1. Entries' = Entries /\ Offset(given)' = Offset(given)
    BY <1>1 DEF Entries, Offset
  <2>2. QED
    BY <1>1, <1>3, <2>1 DEF Cut
<1>13. Read(e, m, <<>>)'
  <2>1. /\ <<>> \in Seq(KeyPos) /\ SortedKeys(<<>>) /\ IsInjective(<<>>) /\ ToSet(<<>>) = {}
    BY NothingRead
  <2>2. QED
    BY <1>1, <2>1 DEF Read
<1>14. Carried(<<>>, Len(e), 0, 0)'
  <2>1. Slot(BeginC(N), 0, C1Size) = BeginC(N) /\ Slot(Begin7(N), 0, P7Size) = Begin7(N)
    BY <1>4, <1>5, SecondSizes, Bounds, Slots
  <2>2. final_file_writer_1' = Slot(BeginC(Len(e)), 0, C1Size) /\ final_file_writer_3' = Slot(Begin7(Len(e)), 0, P7Size)
    BY <1>5, <1>11, <2>1
  <2>3. QED
    BY <1>1, <1>3, <2>2 DEF Progress, Carried
<1>15. Counts(<<>>, Len(e), 0, 0, 0)'
  BY <1>1, <1>3 DEF Progress, Counts
<1>16. Pointers(Len(e))'
  BY <1>1, <1>5, <1>9 DEF Pointers
<1>17. Progress(e, m, <<>>, a, 0, 0, 0, p)'
  BY <1>12, <1>13, <1>14, <1>15, <1>16 DEF Progress
<1>18. PICK M0, A0, k0 : M0 = AllWrites(e, <<>>, a, 0, 0, 0) /\ A0 = Keyed(e, m) \ ToSet(<<>>) /\ k0 = a + 0 + 0 + 0
  OBVIOUS
<1>19. Pipe(M0, k0, p, A0)
  BY <1>2, <1>18 DEF Makes
<1>20. Pipe(M0, k0, p, A0)'
  <2>1. Accounted(M0, k0)' /\ Counted(p)' /\ Sorted(A0)'
    BY <1>1, <1>19 DEF Pipe, Accounted, Counted, Sorted, InPipe, NumPipe, InAdds
  <2>2. Types'
    <3>1. queue["park_threads"] = <<>> /\ queue["L_add"] = <<>>
      BY <1>1, StageNames
    <3>2. ToPhase4(sends)
      BY <1>1, NoSends
    <3>3. QED
      BY <1>1, <1>3, <3>1, <3>2 DEF Types, ToPhase4, AreQueues
  <2>3. QED
    BY <2>1, <2>2 DEF Pipe
<1>21. Makes(e, m, <<>>, a, 0, 0, 0, p)'
  BY <1>17, <1>18, <1>20 DEF Makes
<1>22. QED
  BY <1>21 DEF PlotInv

-----------------------------------------------------------------------------
(* The second DiskSort *)

\* The second DiskSort is given as many different entries as table 6 has.
KeysOf(e, n) == [i \in 1 .. n |-> [key |-> e[i].key, pos |-> i - 1]]

\* Entries of table 6 are different keys with positions.
LEMMA KeyedIs ==
    ASSUME NEW e \in Seq(Entry), NEW n \in 0 .. Len(e)
    PROVE  /\ Keyed(e, n) \subseteq KeyPos /\ IsFiniteSet(Keyed(e, n)) /\ Cardinality(Keyed(e, n)) = n
           /\ \A x \in Keyed(e, n) : x.pos \in 0 .. n - 1 /\ e[x.pos + 1].key = x.key
<1> DEFINE s == KeysOf(e, n)
           key(i) == [key |-> e[i].key, pos |-> i - 1]
<1>1. n \in Nat /\ n <= Len(e)
  OBVIOUS
<1>2. ASSUME NEW i \in 1 .. n PROVE key(i) \in KeyPos /\ key(i).pos = i - 1 /\ key(i).key = e[i].key
  <2>1. e[i] \in Entry /\ i - 1 \in Nat
    BY <1>1
  <2>2. e[i].key \in 0 .. 255
    BY <2>1 DEF Entry
  <2>3. QED
    BY <2>1, <2>2 DEF KeyPos
<1>3. s \in Seq(KeyPos) /\ Len(s) = n /\ DOMAIN s = 1 .. n /\ \A i \in 1 .. n : s[i] = key(i)
  <2>1. s = [i \in 1 .. n |-> key(i)]
    BY DEF KeysOf
  <2> HIDE DEF s, key
  <2>2. \A i \in 1 .. n : key(i) \in KeyPos
    BY <1>2 DEF key
  <2>3. QED
    BY <1>1, <2>1, <2>2
<1> HIDE DEF s
<1>4. IsInjective(s)
  <2>1. ASSUME NEW i \in 1 .. n, NEW j \in 1 .. n, s[i] = s[j] PROVE i = j
    <3>1. i - 1 = j - 1
      BY <1>2, <1>3, <2>1
    <3>2. QED
      BY <3>1
  <2>2. QED
    BY <1>3, <2>1 DEF IsInjective
<1>5. ToSet(s) = Keyed(e, n)
  BY <1>3 DEF ToSet, Keyed
<1>6. Keyed(e, n) \subseteq KeyPos /\ IsFiniteSet(Keyed(e, n)) /\ Cardinality(Keyed(e, n)) = n
  BY <1>3, <1>4, <1>5, InjectiveLength, Elements
<1>7. ASSUME NEW x \in Keyed(e, n) PROVE x.pos \in 0 .. n - 1 /\ e[x.pos + 1].key = x.key
  <2>1. PICK i \in 1 .. n : x = key(i)
    BY <1>5 DEF Keyed
  <2>2. x.pos = i - 1 /\ x.key = e[i].key
    BY <1>2, <2>1
  <2>3. (i - 1) + 1 = i /\ i - 1 \in 0 .. n - 1
    BY <1>1
  <2>4. QED
    BY <2>2, <2>3
<1>8. QED
  BY <1>6, <1>7

\* A block of the second DiskSort: the entries whose keys are in the smallest span
LEMMA NextBlock ==
    ASSUME NEW L, L = L_sort, L \subseteq KeyPos, IsFiniteSet(L), L # {}, NEW t \in NextBlocks
    PROVE  /\ t \in Seq(KeyPos) /\ SortedKeys(t) /\ IsInjective(t) /\ ToSet(t) \subseteq L
           /\ \A x \in L \ ToSet(t), y \in ToSet(t) : y.key <= x.key
<1> DEFINE spans == {x.key \div KeySpan : x \in L}
           S == {x \in L : x.key \div KeySpan = NextSpan}
<1>1. \A x \in L : x.key \in Nat
  BY DEF KeyPos
<1>2. \A x, y \in L : /\ x.key \div KeySpan \in Nat
                      /\ x.key <= y.key => x.key \div KeySpan <= y.key \div KeySpan
  <2>1. ASSUME NEW i \in Nat, NEW j \in Nat
        PROVE  i \div KeySpan \in Nat /\ (i <= j => i \div KeySpan <= j \div KeySpan)
    BY Bounds, Division
  <2>2. QED
    BY <1>1, <2>1
<1>3. NextSpan \in spans /\ \A z \in spans : NextSpan <= z
  <2>1. spans \in SUBSET Nat /\ spans # {}
    BY <1>2
  <2>2. \E z \in spans : \A w \in spans : z <= w
    <3> HIDE DEF spans
    <3>1. QED
      BY <2>1, LeastElement
  <2>3. NextSpan = CHOOSE z \in spans : \A w \in spans : z <= w
    BY DEF NextSpan, Min
  <2>4. QED
    <3> HIDE DEF spans
    <3>1. QED
      BY <2>2, <2>3
<1>4. NextSpan \in Nat
  BY <1>2, <1>3
<1>5. t \in SetToSeqs(S) /\ \A i, j \in 1 .. Len(t) : i < j => t[i].key <= t[j].key
  BY DEF NextBlocks
<1>6. S \subseteq L /\ IsFiniteSet(S)
  <2>1. S \in SUBSET L
    OBVIOUS
  <2>2. QED
    BY <2>1, FS_Subset
<1>7. PICK R : R = S
  OBVIOUS
<1>8. /\ t \in [1 .. Cardinality(R) -> R] /\ \A i, j \in 1 .. Cardinality(R) : i # j => t[i] # t[j]
  BY <1>5, <1>7 DEF SetToSeqs
<1>9. R \subseteq L /\ IsFiniteSet(R) /\ \A x \in L : x \in R <=> x.key \div KeySpan = NextSpan
  BY <1>6, <1>7
<1> HIDE DEF spans, S
<1>10. Cardinality(R) \in Nat
  BY <1>9, FS_CardinalityType
<1>11. t \in Seq(R) /\ Len(t) = Cardinality(R) /\ IsInjective(t)
  <2>1. t \in Seq(R) /\ Len(t) = Cardinality(R) /\ DOMAIN t = 1 .. Cardinality(R)
    BY <1>8, <1>10
  <2>2. IsInjective(t)
    BY <1>8, <2>1 DEF IsInjective
  <2>3. QED
    BY <2>1, <2>2
<1>12. ToSet(t) = R
  <2>1. ToSet(t) \subseteq R
    BY <1>11, Elements
  <2>2. Cardinality(ToSet(t)) = Cardinality(R)
    BY <1>11, InjectiveLength
  <2>3. QED
    BY <1>9, <2>1, <2>2, FS_Subset
<1>13. t \in Seq(KeyPos)
  <2>1. R \subseteq KeyPos
    BY <1>9
  <2>2. QED
    BY <1>11, <2>1
<1>14. ASSUME NEW x \in L \ ToSet(t), NEW y \in ToSet(t) PROVE y.key <= x.key
  <2>1. x \in L /\ y \in L /\ y.key \div KeySpan = NextSpan /\ x.key \div KeySpan # NextSpan
    BY <1>9, <1>12
  <2>2. NextSpan <= x.key \div KeySpan
    BY <1>3, <2>1 DEF spans
  <2>3. ~(x.key \div KeySpan <= y.key \div KeySpan)
    BY <1>2, <1>4, <2>1, <2>2
  <2>4. ~(x.key <= y.key)
    BY <1>2, <2>1, <2>3
  <2>5. QED
    BY <1>1, <2>1, <2>4
<1>15. QED
  BY <1>5, <1>9, <1>11, <1>12, <1>13, <1>14 DEF SortedKeys

\* What was read, and a block of what is left
LEMMA ReadOn ==
    ASSUME NEW T \in Seq(KeyPos), SortedKeys(T), IsInjective(T), NEW K, K \subseteq KeyPos, ToSet(T) \subseteq K,
           \A x \in K \ ToSet(T), y \in ToSet(T) : y.key <= x.key,
           NEW t \in Seq(KeyPos), SortedKeys(t), IsInjective(t), ToSet(t) \subseteq K \ ToSet(T),
           \A x \in (K \ ToSet(T)) \ ToSet(t), y \in ToSet(t) : y.key <= x.key,
           NEW u, u = T \o t
    PROVE  /\ SortedKeys(u) /\ IsInjective(u) /\ ToSet(u) \subseteq K
           /\ \A x \in K \ ToSet(u), y \in ToSet(u) : y.key <= x.key
           /\ (K \ ToSet(T)) \ ToSet(t) = K \ ToSet(u)
<1>1. /\ u \in Seq(KeyPos) /\ Len(u) = Len(T) + Len(t) /\ Len(T) \in Nat /\ Len(t) \in Nat
      /\ \A i \in 1 .. Len(T) : u[i] = T[i]
      /\ \A i \in 1 .. Len(t) : u[Len(T) + i] = t[i]
      /\ ToSet(u) = ToSet(T) \cup ToSet(t)
  <2>1. T \in Seq(KeyPos) /\ t \in Seq(KeyPos) /\ u = T \o t
    OBVIOUS
  <2>2. ToSet(u) = ToSet(T) \cup ToSet(t)
    BY ONLY <2>1, Continued
  <2>3. /\ u \in Seq(KeyPos) /\ Len(u) = Len(T) + Len(t) /\ Len(T) \in Nat /\ Len(t) \in Nat
        /\ \A i \in 1 .. Len(T) : u[i] = T[i]
        /\ \A i \in 1 .. Len(t) : u[Len(T) + i] = t[i]
    BY ONLY <2>1, Continued
  <2>4. QED
    BY <2>2, <2>3
<1>2. ToSet(T) = {T[i] : i \in 1 .. Len(T)} /\ ToSet(t) = {t[i] : i \in 1 .. Len(t)}
  BY SetOf
<1>3. ASSUME NEW i \in 1 .. Len(u), NEW j \in 1 .. Len(u), i < j PROVE u[i].key <= u[j].key
  <2>1. CASE j <= Len(T)
    <3>1. i \in 1 .. Len(T) /\ j \in 1 .. Len(T)
      BY <1>1, <1>3, <2>1
    <3>2. QED
      BY <1>1, <1>3, <3>1 DEF SortedKeys
  <2>2. CASE i <= Len(T) /\ ~(j <= Len(T))
    <3>1. i \in 1 .. Len(T) /\ j - Len(T) \in 1 .. Len(t) /\ Len(T) + (j - Len(T)) = j
      BY <1>1, <2>2
    <3>2. u[i] \in ToSet(T) /\ u[j] \in ToSet(t)
      BY <1>1, <1>2, <3>1
    <3>3. QED
      BY <3>2
  <2>3. CASE ~(i <= Len(T))
    <3>1. PICK i1, j1 : i1 = i - Len(T) /\ j1 = j - Len(T)
      OBVIOUS
    <3>2. i1 \in 1 .. Len(t) /\ j1 \in 1 .. Len(t) /\ i1 < j1 /\ Len(T) + i1 = i /\ Len(T) + j1 = j
      BY <1>1, <1>3, <2>3, <3>1
    <3>3. u[i] = t[i1] /\ u[j] = t[j1]
      BY <1>1, <3>2
    <3>4. QED
      BY <3>2, <3>3 DEF SortedKeys
  <2>4. QED
    BY <1>1, <2>1, <2>2, <2>3
<1>4. SortedKeys(u)
  BY <1>3 DEF SortedKeys
<1>5. IsInjective(u)
  BY InjectiveConcat
<1>6. QED
  BY <1>1, <1>4, <1>5

-----------------------------------------------------------------------------
(* A block of phase 4 *)

\* What phase 4 has read is no more than there is.
LEMMA ReadSize ==
    ASSUME NEW e \in Seq(Entry), NEW T \in Seq(KeyPos), IsInjective(T), ToSet(T) \subseteq Keyed(e, Len(e))
    PROVE  Len(T) <= Len(e) /\ Len(T) \in Nat /\ Len(e) \in Nat /\ (ToSet(T) = Keyed(e, Len(e)) => Len(T) = Len(e))
<1>1. Len(e) \in Nat /\ Len(e) \in 0 .. Len(e) /\ Len(T) \in Nat
  OBVIOUS
<1>2. IsFiniteSet(Keyed(e, Len(e))) /\ Cardinality(Keyed(e, Len(e))) = Len(e)
  BY <1>1, KeyedIs
<1>3. Cardinality(ToSet(T)) = Len(T)
  BY InjectiveLength
<1>4. PICK K : K = Keyed(e, Len(e))
  OBVIOUS
<1>5. ToSet(T) \in SUBSET K /\ IsFiniteSet(K) /\ Cardinality(K) = Len(e)
  BY <1>2, <1>4
<1>6. Cardinality(ToSet(T)) <= Cardinality(K)
  BY <1>5, FS_Subset
<1>7. QED
  BY <1>1, <1>2, <1>3, <1>5, <1>6

\* Phase 4 reads a block.
LEMMA ReadBlockStep ==
    ASSUME NEW e, NEW m, NEW T, NEW a, NEW b, NEW c, NEW d, NEW p, Makes(e, m, T, a, b, c, d, p), a \in Nat, ReadBlock
    PROVE  PlotInv'
<1>1. /\ stage = "phase4" /\ stage' = "phase4" /\ sends = <<>> /\ L_sort # {}
      /\ ~Phase3 /\ ~Phase3' /\ ~Closing /\ ~Closing'
      /\ UNCHANGED <<input, queue, given, park, num_written_final, pointers, file, num_writes>>
  BY DEF ReadBlock, Phase3, Closing, phase3, plot
<1>2. PICK N, K, n : N = Len(e) /\ K = Keyed(e, N) /\ n = Len(T)
  OBVIOUS
<1>3. /\ e \in Seq(Entry) /\ N \in Nat /\ m = N /\ begin_byte_C3 = BeginC3(N)
      /\ InAdds = {} /\ L_sort = K \ ToSet(T)
  BY <1>1, <1>2, Phase4Is
<1>4. /\ Cut(e, m, a, p) /\ Read(e, m, T) /\ Carried(T, N, b, c) /\ Counts(T, N, b, c, d) /\ Pointers(N)
  BY <1>2 DEF Makes, Progress
<1>5. /\ T \in Seq(KeyPos) /\ SortedKeys(T) /\ IsInjective(T) /\ ToSet(T) \subseteq K
      /\ \A x \in K \ ToSet(T), y \in ToSet(T) : y.key <= x.key
  BY <1>2, <1>3, <1>4 DEF Read
<1>6. K \subseteq KeyPos /\ IsFiniteSet(K)
  <2>1. N \in 0 .. Len(e)
    BY <1>2, <1>3
  <2>2. QED
    BY <1>2, <1>3, <2>1, KeyedIs
<1>7. PICK L : L = L_sort
  OBVIOUS
<1>8. L = K \ ToSet(T) /\ L \subseteq KeyPos /\ IsFiniteSet(L) /\ L # {}
  <2>1. L \in SUBSET K
    BY <1>3, <1>7
  <2>2. QED
    BY <1>1, <1>3, <1>6, <1>7, <2>1, FS_Subset
<1>9. PICK s0 : s0 = [index |-> index, array |-> park_data, deltas |-> park_deltas,
                      prev_y |-> prev_y, num_C1 |-> num_C1_entries, C2 |-> C2,
                      writer_1 |-> final_file_writer_1, writer_3 |-> final_file_writer_3,
                      parks |-> <<>>, sends |-> <<>>]
  OBVIOUS
<1>10. PICK t \in NextBlocks :
        LET s == ReadAll(s0, t)
        IN  /\ index' = s.index
            /\ park_data' = s.array /\ park_deltas' = s.deltas
            /\ prev_y' = s.prev_y /\ num_C1_entries' = s.num_C1 /\ C2' = s.C2
            /\ final_file_writer_1' = s.writer_1 /\ final_file_writer_3' = s.writer_3
            /\ sends' = Append(s.sends, [to |-> "p7_threads", what |-> s.parks])
            /\ L_sort' = L_sort \ ToSet(t)
  BY <1>9 DEF ReadBlock
<1>11. /\ t \in Seq(KeyPos) /\ SortedKeys(t) /\ IsInjective(t) /\ ToSet(t) \subseteq L
       /\ \A x \in L \ ToSet(t), y \in ToSet(t) : y.key <= x.key
  BY <1>7, <1>8, NextBlock
<1>12. PICK u : u = T \o t
  OBVIOUS
<1>13. /\ SortedKeys(u) /\ IsInjective(u) /\ ToSet(u) \subseteq K
       /\ \A x \in K \ ToSet(u), y \in ToSet(u) : y.key <= x.key
       /\ L \ ToSet(t) = K \ ToSet(u)
  <2>1. /\ T \in Seq(KeyPos) /\ SortedKeys(T) /\ IsInjective(T) /\ K \subseteq KeyPos /\ ToSet(T) \subseteq K
        /\ t \in Seq(KeyPos) /\ SortedKeys(t) /\ IsInjective(t) /\ u = T \o t
    BY <1>5, <1>6, <1>11, <1>12
  <2>2. \A x \in K \ ToSet(T), y \in ToSet(T) : y.key <= x.key
    BY <1>5
  <2>3. ToSet(t) \subseteq K \ ToSet(T) /\ \A x \in (K \ ToSet(T)) \ ToSet(t), y \in ToSet(t) : y.key <= x.key
    BY <1>8, <1>11
  <2>4. SortedKeys(u) /\ IsInjective(u) /\ ToSet(u) \subseteq K
    BY ONLY ZenonT(60), <2>1, <2>2, <2>3, ReadOn
  <2>5. \A x \in K \ ToSet(u), y \in ToSet(u) : y.key <= x.key
    BY ONLY ZenonT(60), <2>1, <2>2, <2>3, ReadOn
  <2>6. (K \ ToSet(T)) \ ToSet(t) = K \ ToSet(u)
    <3>1. ToSet(u) = ToSet(T) \cup ToSet(t)
      BY ONLY <2>1, Continued
    <3>2. QED
      BY <3>1
  <2>7. QED
    BY <1>8, <2>4, <2>5, <2>6
<1>14. /\ u \in Seq(KeyPos) /\ Len(u) = n + Len(t) /\ n \in Nat /\ Len(t) \in Nat
       /\ \A i \in 1 .. n : u[i] = T[i]
       /\ \A i \in 1 .. Len(t) : u[n + i] = t[i]
  BY ONLY <1>2, <1>5, <1>11, <1>12, Continued
<1>15. n <= N /\ Len(u) <= N /\ Len(u) \in Nat /\ n <= Len(u)
  <2>1. Len(T) <= Len(e) /\ Len(u) <= Len(e)
    BY <1>2, <1>3, <1>5, <1>13, <1>14, ReadSize
  <2>2. QED
    BY <1>2, <1>14, <2>1
<1>16. /\ P7Writes(T, Closed(n, kEntriesPerPark), N) = P7Writes(u, Closed(n, kEntriesPerPark), N)
       /\ CWrites(T, NumC1(n), N) = CWrites(u, NumC1(n), N)
       /\ C3Writes(T, Closed(n, kCheckpoint1Interval), N) = C3Writes(u, Closed(n, kCheckpoint1Interval), N)
       /\ ArrayOf(T, Closed(n, kEntriesPerPark), n) = ArrayOf(u, Closed(n, kEntriesPerPark), n)
       /\ DeltasOf(T, Closed(n, kCheckpoint1Interval), n) = DeltasOf(u, Closed(n, kCheckpoint1Interval), n)
       /\ C2Of(T, NumC2(n)) = C2Of(u, NumC2(n))
  <2>1. /\ T \in Seq(KeyPos) /\ u \in Seq(KeyPos) /\ N \in Nat /\ n \in Nat /\ n = Len(T) /\ n <= Len(u) /\ n <= N
        /\ \A i \in 1 .. n : u[i] = T[i]
    BY <1>2, <1>3, <1>5, <1>14, <1>15
  <2>2. /\ P7Writes(T, Closed(n, kEntriesPerPark), N) = P7Writes(u, Closed(n, kEntriesPerPark), N)
        /\ CWrites(T, NumC1(n), N) = CWrites(u, NumC1(n), N)
        /\ C3Writes(T, Closed(n, kCheckpoint1Interval), N) = C3Writes(u, Closed(n, kCheckpoint1Interval), N)
    BY ONLY <2>1, PrefixStable
  <2>3. /\ ArrayOf(T, Closed(n, kEntriesPerPark), n) = ArrayOf(u, Closed(n, kEntriesPerPark), n)
        /\ DeltasOf(T, Closed(n, kCheckpoint1Interval), n) = DeltasOf(u, Closed(n, kCheckpoint1Interval), n)
        /\ C2Of(T, NumC2(n)) = C2Of(u, NumC2(n))
    BY ONLY <2>1, PrefixStable
  <2>4. QED
    BY <2>2, <2>3
<1>17. b = Closed(n, kEntriesPerPark) /\ c = NumC1(n) /\ d = Closed(n, kCheckpoint1Interval)
  <2>1. stage # "done" /\ Closed(n, kCheckpoint1Interval) \in Nat
    BY <1>1, <1>14, SecondSizes
  <2>2. QED
    BY <1>1, <1>2, <1>4, <2>1 DEF Counts
<1>18. /\ index = n /\ park_data = ArrayOf(u, Closed(n, kEntriesPerPark), n)
       /\ park_deltas = DeltasOf(u, Closed(n, kCheckpoint1Interval), n)
       /\ prev_y \in 0 .. 255 /\ (n > 0 => prev_y = u[n].key)
       /\ num_C1_entries = NumC1(n) /\ C2 = C2Of(u, NumC2(n))
       /\ final_file_writer_1 = Slot(BeginC(N), NumC1(n), C1Size)
       /\ final_file_writer_3 = Slot(Begin7(N), Closed(n, kEntriesPerPark), P7Size)
  <2>1. /\ index = n /\ park_data = ArrayOf(T, Closed(n, kEntriesPerPark), n)
        /\ park_deltas = DeltasOf(T, Closed(n, kCheckpoint1Interval), n)
        /\ prev_y \in 0 .. 255 /\ (n > 0 => prev_y = T[n].key)
        /\ num_C1_entries = NumC1(n) /\ C2 = C2Of(T, NumC2(n))
        /\ final_file_writer_1 = Slot(BeginC(N), NumC1(n), C1Size)
        /\ final_file_writer_3 = Slot(Begin7(N), Closed(n, kEntriesPerPark), P7Size)
    BY <1>1, <1>2, <1>4, <1>17 DEF Carried
  <2>2. n > 0 => u[n] = T[n]
    <3>1. n > 0 => n \in 1 .. n
      BY <1>14
    <3>2. QED
      BY <1>14, <3>1
  <2>3. QED
    BY <1>16, <2>1, <2>2
<1>19. /\ park_data \in Seq(Nat) /\ park_deltas \in Seq(Nat) /\ C2 \in Seq(0 .. 255)
       /\ final_file_writer_1 \in Nat /\ final_file_writer_3 \in Nat
  <2>1. n \in 0 .. Len(u) /\ Closed(n, kEntriesPerPark) \in 0 .. Closed(n, kEntriesPerPark)
        /\ Closed(n, kCheckpoint1Interval) \in 0 .. Closed(n, kCheckpoint1Interval)
    <3>1. \A x \in Nat : x \in 0 .. x
      OBVIOUS
    <3>2. Closed(n, kEntriesPerPark) \in Nat /\ Closed(n, kCheckpoint1Interval) \in Nat
      BY <1>14, SecondSizes
    <3>3. n \in 0 .. Len(u)
      BY <1>14, <1>15
    <3>4. QED
      BY ONLY <3>1, <3>2, <3>3
  <2>2. park_data \in Seq(Nat)
    BY <1>14, <1>18, <2>1, ArrayType
  <2>3. park_deltas \in Seq(Nat)
    BY <1>13, <1>14, <1>18, <2>1, DeltasOfType
  <2>4. C2 \in Seq(0 .. 255)
    BY <1>14, <1>18, <2>1, C2Type
  <2>5. NumC1(n) \in Nat /\ Closed(n, kEntriesPerPark) \in Nat /\ BeginC(N) \in Nat /\ Begin7(N) \in Nat
    BY <1>3, <1>14, SecondSizes
  <2>6. Slot(BeginC(N), NumC1(n), C1Size) \in Nat /\ Slot(Begin7(N), Closed(n, kEntriesPerPark), P7Size) \in Nat
    <3> DEFINE g == BeginC(N)
               h == Begin7(N)
               x == NumC1(n)
               y == Closed(n, kEntriesPerPark)
    <3>1. g \in Nat /\ h \in Nat /\ x \in Nat /\ y \in Nat
      BY <2>5
    <3> HIDE DEF g, h, x, y
    <3>2. Slot(g, x, C1Size) \in Nat /\ Slot(h, y, P7Size) \in Nat
      BY <3>1, Bounds, Slots
    <3>3. QED
      BY <3>2 DEF g, h, x, y
  <2>7. QED
    BY <1>18, <2>2, <2>3, <2>4, <2>6
<1>20. Loop(u, N, n, n, s0)
  <2>1. PICK ar, de, y, cc, w1, w3 : /\ ar = park_data /\ de = park_deltas /\ y = prev_y /\ cc = C2
                                     /\ w1 = final_file_writer_1 /\ w3 = final_file_writer_3
    OBVIOUS
  <2>2. /\ ar \in Seq(Nat) /\ ar = ArrayOf(u, Closed(n, kEntriesPerPark), n)
        /\ de \in Seq(Nat) /\ de = DeltasOf(u, Closed(n, kCheckpoint1Interval), n)
        /\ y \in 0 .. 255 /\ (n > 0 => y = u[n].key)
        /\ cc \in Seq(0 .. 255) /\ cc = C2Of(u, NumC2(n))
        /\ w1 \in Nat /\ w1 = Slot(BeginC(N), NumC1(n), C1Size)
        /\ w3 \in Nat /\ w3 = Slot(Begin7(N), Closed(n, kEntriesPerPark), P7Size)
    BY <1>18, <1>19, <2>1
  <2>3. s0 = [index |-> n, array |-> ar, deltas |-> de, prev_y |-> y, num_C1 |-> NumC1(n), C2 |-> cc,
              writer_1 |-> w1, writer_3 |-> w3, parks |-> <<>>, sends |-> <<>>]
    BY <1>9, <1>18, <2>1
  <2>4. u \in Seq(KeyPos) /\ SortedKeys(u) /\ N \in Nat /\ n \in 0 .. Len(u)
    BY <1>3, <1>13, <1>14, <1>15
  <2>5. QED
    BY ONLY ZenonT(60), <2>2, <2>3, <2>4, LoopStart
<1>21. PICK s : s = ReadAll(s0, t)
  OBVIOUS
<1>22. PICK n2 : n2 = Len(u)
  OBVIOUS
<1>23. Loop(u, N, n, n2, s)
  <2>1. Loop(u, N, n, Len(u), ReadAll(s0, t))
    BY ONLY <1>3, <1>11, <1>13, <1>14, <1>15, <1>20, ReadAllIs
  <2>2. QED
    BY <1>21, <1>22, <2>1
<1>24. /\ s \in Reads /\ s.index = n2
       /\ s.array = ArrayOf(u, Closed(n2, kEntriesPerPark), n2)
       /\ s.deltas = DeltasOf(u, Closed(n2, kCheckpoint1Interval), n2)
       /\ (n2 > 0 => s.prev_y = u[n2].key)
       /\ s.num_C1 = NumC1(n2) /\ s.C2 = C2Of(u, NumC2(n2))
       /\ s.writer_1 = Slot(BeginC(N), NumC1(n2), C1Size)
       /\ s.writer_3 = Slot(Begin7(N), Closed(n2, kEntriesPerPark), P7Size)
       /\ ToPhase4(s.sends)
  BY <1>23 DEF Loop
<1>25. s.sends \in Seq(Given) /\ s.parks \in Seq(PosPark) /\ s.prev_y \in 0 .. 255
  BY <1>24 DEF Reads
<1>26. PICK ss, ps, y : ss = s.sends /\ ps = s.parks /\ y = [to |-> "p7_threads", what |-> ps]
  OBVIOUS
<1>27. /\ y \in Given /\ y.to = "p7_threads" /\ y.what = ps
       /\ Len(Made("p7_threads", ps)) = Len(ps) /\ Len(ps) \in Nat
  <2>1. 1 \in Nat /\ ps \in Seq(PosPark)
    BY <1>25, <1>26
  <2>2. [offset |-> 0, array |-> <<>>] \in PosPark
    BY DEF PosPark
  <2>3. /\ [to |-> "p7_threads", what |-> ps] \in Given
        /\ Len(Made("p7_threads", ps)) = Len(ps) /\ Len(ps) \in Nat
    BY <2>1, <2>2, MadeArrays
  <2>4. QED
    BY <1>26, <2>3
<1>28. PICK z : z = Append(ss, y)
  OBVIOUS
<1>29. /\ z \in Seq(Given) /\ ToPhase4(z)
       /\ InAll(Sent(z)) = InAll(Sent(ss)) \cup ToSet(Made("p7_threads", ps))
       /\ NumAll(Sent(z)) = NumAll(Sent(ss)) + Len(ps) /\ NumAll(Sent(ss)) \in Nat
  <2>1. ss \in Seq(Given) /\ ToPhase4(ss)
    BY <1>24, <1>25, <1>26
  <2>2. /\ z \in Seq(Given) /\ ToPhase4(z)
        /\ InAll(Sent(z)) = InAll(Sent(ss)) \cup ToSet(Made(y.to, y.what))
        /\ NumAll(Sent(z)) = NumAll(Sent(ss)) + Len(Made(y.to, y.what)) /\ NumAll(Sent(ss)) \in Nat
    BY <1>27, <1>28, <2>1, SentAppend
  <2>3. QED
    BY <1>27, <2>2
<1>30. /\ index' = n2 /\ park_data' = s.array /\ park_deltas' = s.deltas
       /\ prev_y' = s.prev_y /\ num_C1_entries' = s.num_C1 /\ C2' = s.C2
       /\ final_file_writer_1' = s.writer_1 /\ final_file_writer_3' = s.writer_3
       /\ sends' = z /\ L_sort' = K \ ToSet(u)
  BY <1>7, <1>10, <1>13, <1>21, <1>24, <1>26, <1>28
<1>31. PICK b2, c2, d2 : b2 = Closed(n2, kEntriesPerPark) /\ c2 = NumC1(n2) /\ d2 = Closed(n2, kCheckpoint1Interval)
  OBVIOUS
<1>32. /\ ToSet(Made("p7_threads", ps)) \cup P7Writes(u, b, N) = P7Writes(u, b2, N)
       /\ Len(ps) + b = b2
       /\ InAll(Sent(ss)) \cup CWrites(u, c, N) \cup C3Writes(u, d, N) = CWrites(u, c2, N) \cup C3Writes(u, d2, N)
       /\ NumAll(Sent(ss)) + c + d = c2 + d2
  BY <1>17, <1>23, <1>26, <1>31 DEF Loop
<1>33. b \in Nat /\ c \in Nat /\ d \in Nat /\ b2 \in Nat /\ c2 \in Nat /\ d2 \in Nat
  BY <1>14, <1>15, <1>17, <1>22, <1>31, SecondSizes
<1>34. PICK M1, k1, A1 : M1 = AllWrites(e, T, a, b, c, d) /\ k1 = a + b + c + d /\ A1 = Keyed(e, m) \ ToSet(T)
  OBVIOUS
<1>35. Pipe(M1, k1, p, A1)
  BY <1>34 DEF Makes
<1>36. /\ Types' /\ Accounted(M1 \cup InAll(Sent(z)), k1 + NumAll(Sent(z)))'
       /\ Counted(p + AllToParks(z))' /\ InAdds' = InAdds \cup AddsSent(z)
  <2>1. queue["park_threads"] = <<>> /\ queue["L_add"] = <<>>
    BY <1>1, <1>35 DEF Pipe, Types
  <2>2. sends' = z /\ stage' \in {"stage2", "close2", "phase4", "close4"}
    BY <1>1, <1>30
  <2>3. QED
    BY <1>1, <1>29, <1>35, <2>1, <2>2, Produced
<1>37. AllToParks(z) = 0 /\ AddsSent(z) = {}
  BY <1>29, Phase4Sends
<1>38. M1 \cup InAll(Sent(z)) = AllWrites(e, u, a, b2, c2, d2) /\ k1 + NumAll(Sent(z)) = a + b2 + c2 + d2
  <2>1. AllWrites(e, T, a, b, c, d) = ParkWrites(e, a) \cup P7Writes(u, b, N) \cup CWrites(u, c, N) \cup C3Writes(u, d, N)
    BY <1>2, <1>16, <1>17 DEF AllWrites
  <2>2. AllWrites(e, u, a, b2, c2, d2) = ParkWrites(e, a) \cup P7Writes(u, b2, N) \cup CWrites(u, c2, N) \cup C3Writes(u, d2, N)
    BY <1>2 DEF AllWrites
  <2>3. M1 \cup InAll(Sent(z)) = AllWrites(e, u, a, b2, c2, d2)
    BY <1>29, <1>32, <1>34, <2>1, <2>2
  <2>4. k1 + NumAll(Sent(z)) = a + b2 + c2 + d2
    <3>1. k1 = a + b + c + d /\ NumAll(Sent(z)) = NumAll(Sent(ss)) + Len(ps) /\ NumAll(Sent(ss)) \in Nat /\ Len(ps) \in Nat
          /\ Len(ps) + b = b2 /\ NumAll(Sent(ss)) + c + d = c2 + d2
      BY <1>27, <1>29, <1>32, <1>34
    <3>2. QED
      BY SMTT(40), <1>33, <3>1
  <2>5. QED
    BY <2>3, <2>4
<1>39. Pipe(AllWrites(e, u, a, b2, c2, d2), a + b2 + c2 + d2, p, Keyed(e, m) \ ToSet(u))'
  <2>1. PICK M2, k2, A2 : /\ M2 = AllWrites(e, u, a, b2, c2, d2) /\ k2 = a + b2 + c2 + d2
                          /\ A2 = Keyed(e, m) \ ToSet(u)
    OBVIOUS
  <2>2. Accounted(M2, k2)'
    BY <1>36, <1>38, <2>1
  <2>3. Counted(p)'
    <3>1. p = N
      BY <1>1, <1>2, Phase4Is
    <3>2. p + AllToParks(z) = p
      BY <1>3, <1>37, <3>1
    <3>3. QED
      BY <1>36, <3>2
  <2>4. Sorted(A2)'
    BY <1>2, <1>3, <1>30, <1>36, <1>37, <2>1 DEF Sorted
  <2>5. Pipe(M2, k2, p, A2)'
    BY <1>36, <2>2, <2>3, <2>4 DEF Pipe
  <2>6. QED
    BY <2>1, <2>5
<1>40. Cut(e, m, a, p)'
  <2>1. Entries' = Entries /\ Offset(given)' = Offset(given)
    BY <1>1 DEF Entries, Offset
  <2>2. QED
    BY <1>1, <1>4, <2>1 DEF Cut
<1>41. Read(e, m, u)'
  <2>1. Keyed(e, m) = K
    BY <1>2, <1>3
  <2>2. QED
    BY <1>1, <1>13, <1>14, <2>1 DEF Read
<1>42. Carried(u, N, b2, c2)'
  BY <1>22, <1>24, <1>25, <1>30, <1>31 DEF Carried
<1>43. Counts(u, N, b2, c2, d2)'
  <2>1. stage' # "done" /\ d2 = Closed(Len(u), kCheckpoint1Interval) + 0
    BY <1>1, <1>22, <1>31, <1>33
  <2>2. QED
    BY <1>1, <1>22, <1>31, <2>1 DEF Counts
<1>44. Pointers(N)'
  BY <1>1, <1>4 DEF Pointers
<1>45. Makes(e, m, u, a, b2, c2, d2, p)'
  <2>1. Progress(e, m, u, a, b2, c2, d2, p)'
    BY <1>2, <1>40, <1>41, <1>42, <1>43, <1>44 DEF Progress
  <2>2. QED
    BY <1>39, <2>1 DEF Makes
<1>46. QED
  BY <1>45 DEF PlotInv

-----------------------------------------------------------------------------
(* The end of phase 4 *)

\* One array to pack
LEMMA OneArray ==
    ASSUME NEW y \in PosPark
    PROVE  /\ [to |-> "p7_threads", what |-> <<y>>] \in Given
           /\ ToSet(Made("p7_threads", <<y>>)) = {Write(y.offset, P7Size, y.array)} /\ Len(Made("p7_threads", <<y>>)) = 1
<1> DEFINE z == <<>>
           s == Append(z, y)
<1>1. z \in Seq(PosPark) /\ Len(z) = 0
  OBVIOUS
<1>2. ToSet(Made("p7_threads", z)) = {}
  <2>1. "p7_threads" \in Pools
    BY DEF Pools
  <2>2. DOMAIN Made("p7_threads", z) = {}
    BY <1>1, <2>1 DEF Made, Packed
  <2>3. QED
    BY <2>2 DEF ToSet
<1>3. s = <<y>>
  OBVIOUS
<1> HIDE DEF z, s
<1>4. /\ ToSet(Made("p7_threads", Append(z, y))) = ToSet(Made("p7_threads", z)) \cup {Write(y.offset, P7Size, y.array)}
      /\ Append(z, y) \in Seq(PosPark) /\ Len(Append(z, y)) = Len(z) + 1
  BY <1>1, MadeArrays
<1>5. s \in Seq(PosPark) /\ Len(s) = 1 /\ ToSet(Made("p7_threads", s)) = {Write(y.offset, P7Size, y.array)}
  BY <1>1, <1>2, <1>4 DEF s
<1>6. Len(Made("p7_threads", s)) = Len(s) /\ [to |-> "p7_threads", what |-> s] \in Given
  BY <1>5, MadeArrays
<1>7. QED
  BY <1>3, <1>5, <1>6

\* A sequence of two
LEMMA Pair == ASSUME NEW V, NEW x \in V, NEW y \in V PROVE <<x>> \o <<y>> = <<x, y>>
<1> DEFINE s == <<x>> \o <<y>>
           t == <<x, y>>
<1>1. s \in Seq(V) /\ Len(s) = 2 /\ s[1] = x /\ s[2] = y
  OBVIOUS
<1>2. t \in Seq(V) /\ Len(t) = 2 /\ t[1] = x /\ t[2] = y
  OBVIOUS
<1> HIDE DEF s, t
<1>3. \A n \in 1 .. 2 : s[n] = t[n]
  BY <1>1, <1>2
<1>4. s = t
  BY ONLY <1>1, <1>2, <1>3, SameSequence
<1>5. QED
  BY <1>4 DEF s, t

\* When all is read, T is in some order what the second DiskSort was given.
LEMMA AllRead ==
    ASSUME NEW e, NEW m, NEW T, NEW a, NEW b, NEW c, NEW d, NEW p, Makes(e, m, T, a, b, c, d, p), ~Phase3,
           L_sort = {} \/ Closing
    PROVE  /\ T \in Seq(KeyPos) /\ SortedKeys(T) /\ IsInjective(T) /\ ToSet(T) = Keyed(e, m) /\ m = Len(e) /\ Len(T) = Len(e)
           /\ e \in Seq(Entry) /\ Len(e) \in Nat
<1>1. e \in Seq(Entry) /\ Len(e) \in Nat /\ m = Len(e) /\ L_sort = Keyed(e, Len(e)) \ ToSet(T)
  BY Phase4Is
<1>2. T \in Seq(KeyPos) /\ SortedKeys(T) /\ IsInjective(T) /\ ToSet(T) \subseteq Keyed(e, Len(e))
      /\ (Closing => ToSet(T) = Keyed(e, Len(e)))
  BY <1>1 DEF Makes, Progress, Read
<1>3. ToSet(T) = Keyed(e, Len(e))
  BY <1>1, <1>2
<1>4. Len(T) = Len(e)
  BY <1>1, <1>2, <1>3, ReadSize
<1>5. QED
  BY <1>1, <1>2, <1>3, <1>4

\* The last park of P7 and the last interval of deltas are given.
LEMMA LastP7ParkStep ==
    ASSUME NEW e, NEW m, NEW T, NEW a, NEW b, NEW c, NEW d, NEW p, Makes(e, m, T, a, b, c, d, p), a \in Nat, LastP7Park
    PROVE  PlotInv'
<1>1. /\ stage = "phase4" /\ stage' = "close4" /\ sends = <<>> /\ L_sort = {}
      /\ ~Phase3 /\ ~Phase3' /\ ~Closing /\ Closing'
      /\ UNCHANGED <<input, queue, given, park, num_written_final, L_sort, pointers, file, num_writes>>
      /\ UNCHANGED <<index, park_data, park_deltas, prev_y, num_C1_entries, C2, final_file_writer_1>>
  BY DEF LastP7Park, Phase3, Closing, phase3, plot
<1>2. PICK N, K : N = Len(e) /\ K = Keyed(e, N)
  OBVIOUS
<1>3. /\ e \in Seq(Entry) /\ N \in Nat /\ m = N /\ begin_byte_C3 = BeginC3(N) /\ p = N
      /\ InAdds = {} /\ L_sort = K \ ToSet(T)
  BY <1>1, <1>2, Phase4Is
<1>4. /\ Cut(e, m, a, p) /\ Read(e, m, T) /\ Carried(T, N, b, c) /\ Counts(T, N, b, c, d) /\ Pointers(N)
  BY <1>2 DEF Makes, Progress
<1>5. T \in Seq(KeyPos) /\ SortedKeys(T) /\ IsInjective(T) /\ ToSet(T) = K /\ Len(T) = N
  BY <1>1, <1>2, AllRead
<1>6. /\ Closed(N, kEntriesPerPark) \in Nat /\ Closed(N, kCheckpoint1Interval) \in Nat /\ NumC1(N) \in Nat
      /\ Begin7(N) \in Nat /\ BeginC3(N) \in Nat
  BY <1>3, SecondSizes
<1>7. b = Closed(N, kEntriesPerPark) /\ c = NumC1(N) /\ d = Closed(N, kCheckpoint1Interval)
  <2>1. stage # "done"
    BY <1>1
  <2>2. QED
    BY <1>1, <1>4, <1>5, <1>6, <2>1 DEF Counts
<1>8. /\ index = N /\ park_data = ArrayOf(T, b, N) /\ park_deltas = DeltasOf(T, d, N)
      /\ num_C1_entries = c
      /\ final_file_writer_3 = Slot(Begin7(N), b, P7Size)
  BY <1>1, <1>4, <1>5, <1>7 DEF Carried
<1>9. b \in Nat /\ c \in Nat /\ d \in Nat
  BY <1>6, <1>7
<1>10. park_data \in Seq(Nat) /\ park_deltas \in Seq(Nat) /\ (park_deltas # <<>> => c = d + 1)
  <2>1. N \in 0 .. Len(T) /\ b \in 0 .. Closed(N, kEntriesPerPark) /\ d \in 0 .. Closed(N, kCheckpoint1Interval)
    BY <1>3, <1>5, <1>7, <1>9
  <2>2. park_data \in Seq(Nat)
    BY <1>5, <1>8, <2>1, ArrayType
  <2>3. park_deltas \in Seq(Nat) /\ (N = 0 => Len(park_deltas) = 0)
    BY <1>5, <1>8, <2>1, DeltasOfType
  <2>4. N > 0 => c = d + 1
    BY <1>3, <1>7, Bounds, Groups DEF NumC1
  <2>5. QED
    BY <1>3, <2>2, <2>3, <2>4
<1>11. PICK v, x : v = [offset |-> final_file_writer_3, array |-> park_data] /\ x = [to |-> "p7_threads", what |-> <<v>>]
  OBVIOUS
<1>12. v \in PosPark /\ v.offset = final_file_writer_3 /\ v.array = park_data /\ final_file_writer_3 \in Nat
       /\ final_file_writer_3 + P7Size = Slot(Begin7(N), b + 1, P7Size)
  <2> DEFINE g == Begin7(N)
  <2>0. g \in Nat /\ final_file_writer_3 = Slot(g, b, P7Size)
    BY <1>6, <1>8
  <2> HIDE DEF g
  <2>a. Slot(g, b, P7Size) \in Nat /\ Slot(g, b + 1, P7Size) = Slot(g, b, P7Size) + P7Size
    BY <1>9, <2>0, Bounds, Slots
  <2>1. final_file_writer_3 \in Nat /\ final_file_writer_3 + P7Size = Slot(Begin7(N), b + 1, P7Size)
    BY <2>0, <2>a DEF g
  <2>2. QED
    BY <1>10, <1>11, <2>1 DEF PosPark
<1>13. /\ x \in Given /\ x.to = "p7_threads" /\ x.what = <<v>>
       /\ ToSet(Made("p7_threads", x.what)) = {P7Write(T, b, N)} /\ Len(Made("p7_threads", x.what)) = 1
  <2>1. /\ [to |-> "p7_threads", what |-> <<v>>] \in Given
        /\ ToSet(Made("p7_threads", <<v>>)) = {Write(v.offset, P7Size, v.array)} /\ Len(Made("p7_threads", <<v>>)) = 1
    BY <1>12, OneArray
  <2>2. Write(v.offset, P7Size, v.array) = P7Write(T, b, N)
    BY <1>8, <1>12 DEF P7Write
  <2>3. x.to = "p7_threads" /\ x.what = <<v>>
    BY <1>11
  <2>4. QED
    BY <1>11, <2>1, <2>2, <2>3
<1>14. PICK D : D = IF park_deltas # <<>> THEN 1 ELSE 0
  OBVIOUS
<1>15. D \in Nat
  BY <1>14
<1>16. \E z \in Seq(Given) :
          /\ sends' = z /\ ToPhase4(z)
          /\ InAll(Sent(z)) \cup C3Writes(T, d, N) = {P7Write(T, b, N)} \cup C3Writes(T, d + D, N)
          /\ NumAll(Sent(z)) = 1 + D
  <2>1. CASE park_deltas = <<>>
    <3>1. sends' = <<x>>
      <4>1. sends' = <<x>> \o <<>>
        BY <1>11, <2>1 DEF LastP7Park, LastDeltas
      <4>2. <<x>> \o <<>> = <<x>>
        OBVIOUS
      <4>3. QED
        BY <4>1, <4>2
    <3>2. /\ <<x>> \in Seq(Given) /\ InAll(Sent(<<x>>)) = {P7Write(T, b, N)} /\ NumAll(Sent(<<x>>)) = 1 /\ ToPhase4(<<x>>)
      <4>1. /\ <<x>> \in Seq(Given)
            /\ InAll(Sent(<<x>>)) = ToSet(Made(x.to, x.what)) /\ NumAll(Sent(<<x>>)) = Len(Made(x.to, x.what))
            /\ ToPhase4(<<x>>)
        BY <1>13, SendOne
      <4>2. QED
        BY <1>13, <4>1
    <3>3. d + D = d /\ 1 + D = 1
      BY <1>9, <1>14, <2>1
    <3>4. QED
      BY <3>1, <3>2, <3>3
  <2>2. CASE park_deltas # <<>>
    <3>1. PICK o : o = Slot(BeginC3(N), d, C3Size)
      OBVIOUS
    <3>2. o \in Nat
      BY <1>6, <1>9, <3>1, Bounds, Slots
    <3>3. DeltaPark(park_deltas, num_C1_entries) = [offset |-> o, deltas |-> park_deltas]
      <4>1. num_C1_entries - 1 = d
        BY <1>8, <1>9, <1>10, <2>2
      <4>2. QED
        BY <1>3, <3>1, <4>1 DEF DeltaPark, Slot
    <3>4. PICK ds, y : ds = park_deltas /\ y = [to |-> "delta_threads", what |-> [offset |-> o, deltas |-> ds]]
      OBVIOUS
    <3>5. /\ y \in Given /\ y.to = "delta_threads" /\ y.what = [offset |-> o, deltas |-> ds]
          /\ Made("delta_threads", y.what) = <<Write(o, C3Size, Encoded(ds))>>
      <4>1. ds \in Seq(Nat) /\ o \in Nat /\ 0 \in Nat
        BY <1>10, <3>2, <3>4
      <4>2. /\ [to |-> "delta_threads", what |-> [offset |-> o, deltas |-> ds]] \in Given
            /\ Made("delta_threads", [offset |-> o, deltas |-> ds]) = <<Write(o, C3Size, Encoded(ds))>>
        BY <4>1, SentWrites
      <4>3. y.to = "delta_threads" /\ y.what = [offset |-> o, deltas |-> ds]
        BY <3>4
      <4>4. QED
        BY <3>4, <4>2, <4>3
    <3>6. Write(o, C3Size, Encoded(ds)) = C3Write(T, d, N)
      BY <1>8, <3>1, <3>4 DEF C3Write
    <3>7. sends' = <<x, y>>
      <4>1. sends' = <<x>> \o <<y>>
        BY <1>11, <2>2, <3>3, <3>4 DEF LastP7Park, LastDeltas
      <4>2. <<x>> \o <<y>> = <<x, y>>
        BY <1>13, <3>5, Pair
      <4>3. QED
        BY <4>1, <4>2
    <3>8. PICK w : w = Write(o, C3Size, Encoded(ds))
      OBVIOUS
    <3>9. ToSet(<<w>>) = {w} /\ Len(<<w>>) = 1
      BY DEF ToSet
    <3>10. /\ <<x, y>> \in Seq(Given)
           /\ InAll(Sent(<<x, y>>)) = {P7Write(T, b, N)} \cup {C3Write(T, d, N)}
           /\ NumAll(Sent(<<x, y>>)) = 1 + 1 /\ ToPhase4(<<x, y>>)
      <4>1. /\ <<x, y>> \in Seq(Given)
            /\ InAll(Sent(<<x, y>>)) = ToSet(Made(x.to, x.what)) \cup ToSet(Made(y.to, y.what))
            /\ NumAll(Sent(<<x, y>>)) = Len(Made(x.to, x.what)) + Len(Made(y.to, y.what))
            /\ ToPhase4(<<x, y>>)
        BY <1>13, <3>5, SendTwo
      <4>2. Made(y.to, y.what) = <<w>> /\ w = C3Write(T, d, N)
        BY <3>5, <3>6, <3>8
      <4>3. QED
        BY <1>13, <3>9, <4>1, <4>2
    <3>11. C3Writes(T, d + 1, N) = C3Writes(T, d, N) \cup {C3Write(T, d, N)} /\ d + D = d + 1 /\ 1 + D = 1 + 1
      BY <1>9, <1>14, <2>2, OneMore
    <3>12. InAll(Sent(<<x, y>>)) \cup C3Writes(T, d, N) = {P7Write(T, b, N)} \cup C3Writes(T, d + D, N)
           /\ NumAll(Sent(<<x, y>>)) = 1 + D
      BY <3>10, <3>11
    <3>13. QED
      BY <3>7, <3>10, <3>12
  <2>3. QED
    BY <2>1, <2>2
<1>17. PICK z \in Seq(Given) :
          /\ sends' = z /\ ToPhase4(z)
          /\ InAll(Sent(z)) \cup C3Writes(T, d, N) = {P7Write(T, b, N)} \cup C3Writes(T, d + D, N)
          /\ NumAll(Sent(z)) = 1 + D
  BY <1>16
<1>18. PICK b2, d2 : b2 = b + 1 /\ d2 = d + D
  OBVIOUS
<1>19. PICK M1, k1, A1 : M1 = AllWrites(e, T, a, b, c, d) /\ k1 = a + b + c + d /\ A1 = Keyed(e, m) \ ToSet(T)
  OBVIOUS
<1>20. Pipe(M1, k1, p, A1)
  BY <1>19 DEF Makes
<1>21. /\ Types' /\ Accounted(M1 \cup InAll(Sent(z)), k1 + NumAll(Sent(z)))'
       /\ Counted(p + AllToParks(z))' /\ InAdds' = InAdds \cup AddsSent(z)
  <2>1. queue["park_threads"] = <<>> /\ queue["L_add"] = <<>>
    BY <1>1, <1>20 DEF Pipe, Types
  <2>2. sends' = z /\ stage' \in {"stage2", "close2", "phase4", "close4"}
    BY <1>1, <1>17
  <2>3. QED
    BY <1>1, <1>17, <1>20, <2>1, <2>2, Produced
<1>22. AllToParks(z) = 0 /\ AddsSent(z) = {}
  BY <1>17, Phase4Sends
<1>23. M1 \cup InAll(Sent(z)) = AllWrites(e, T, a, b2, c, d2) /\ k1 + NumAll(Sent(z)) = a + b2 + c + d2
  <2>1. P7Writes(T, b2, N) = P7Writes(T, b, N) \cup {P7Write(T, b, N)}
    BY <1>9, <1>18, OneMore
  <2>2. M1 \cup InAll(Sent(z)) = AllWrites(e, T, a, b2, c, d2)
    BY <1>2, <1>17, <1>18, <1>19, <2>1 DEF AllWrites
  <2>3. k1 + NumAll(Sent(z)) = a + b2 + c + d2
    BY <1>9, <1>15, <1>17, <1>18, <1>19
  <2>4. QED
    BY <2>2, <2>3
<1>24. Pipe(AllWrites(e, T, a, b2, c, d2), a + b2 + c + d2, p, Keyed(e, m) \ ToSet(T))'
  <2>1. PICK M2, k2 : M2 = AllWrites(e, T, a, b2, c, d2) /\ k2 = a + b2 + c + d2
    OBVIOUS
  <2>2. Accounted(M2, k2)'
    BY <1>21, <1>23, <2>1
  <2>3. Counted(p)'
    <3>1. p + AllToParks(z) = p
      BY <1>3, <1>22
    <3>2. QED
      BY <1>21, <3>1
  <2>4. Sorted(A1)'
    BY <1>1, <1>20, <1>21, <1>22 DEF Pipe, Sorted
  <2>5. Pipe(M2, k2, p, A1)'
    BY <1>21, <2>2, <2>3, <2>4 DEF Pipe
  <2>6. QED
    BY <1>19, <2>1, <2>5
<1>25. Cut(e, m, a, p)'
  <2>1. Entries' = Entries /\ Offset(given)' = Offset(given)
    BY <1>1 DEF Entries, Offset
  <2>2. QED
    BY <1>1, <1>4, <2>1 DEF Cut
<1>26. Read(e, m, T)'
  BY <1>1, <1>2, <1>3, <1>4, <1>5 DEF Read
<1>27. Carried(T, N, b2, c)'
  <2>1. final_file_writer_3' = Slot(Begin7(N), b2, P7Size)
    BY <1>12, <1>18 DEF LastP7Park
  <2>2. QED
    BY <1>1, <1>4, <2>1 DEF Carried
<1>28. Counts(T, N, b2, c, d2)'
  <2>1. stage' # "done" /\ c = NumC1(Len(T)) /\ b2 = Closed(N, kEntriesPerPark) + 1
    BY <1>1, <1>5, <1>7, <1>18
  <2>2. d2 = Closed(Len(T), kCheckpoint1Interval) + (IF Closing' /\ park_deltas' # <<>> THEN 1 ELSE 0)
    BY <1>1, <1>5, <1>7, <1>14, <1>18
  <2>3. QED
    BY <1>1, <2>1, <2>2 DEF Counts
<1>29. Pointers(N)'
  BY <1>1, <1>4 DEF Pointers
<1>30. Makes(e, m, T, a, b2, c, d2, p)'
  <2>1. Progress(e, m, T, a, b2, c, d2, p)'
    BY <1>2, <1>25, <1>26, <1>27, <1>28, <1>29 DEF Progress
  <2>2. QED
    BY <1>24, <2>1 DEF Makes
<1>31. QED
  BY <1>30 DEF PlotInv

-----------------------------------------------------------------------------
(* The end of C1, and C2 *)

\* The zero behind C1, C2, and the zero behind C2
Tail0(C) == <<0>> \o Append(C, 0)

\* The zero behind C1, then C2 and its zero
LEMMA TailIs ==
    ASSUME NEW C \in Seq(0 .. 255), NEW l, l = Len(C)
    PROVE  /\ Tail0(C) \in Seq(0 .. 255) /\ Len(Tail0(C)) = l + 2 /\ l \in Nat
           /\ Tail0(C)[1] = 0 /\ Tail0(C)[l + 2] = 0
           /\ \A j \in 1 .. l : Tail0(C)[j + 1] = C[j]
<1> DEFINE A == Append(C, 0)
           z == <<0>>
<1>1. A \in Seq(0 .. 255) /\ Len(A) = l + 1 /\ l \in Nat /\ A[l + 1] = 0 /\ \A j \in 1 .. l : A[j] = C[j]
  OBVIOUS
<1>2. z \in Seq(0 .. 255) /\ Len(z) = 1 /\ z[1] = 0
  OBVIOUS
<1>3. Tail0(C) = z \o A
  BY DEF Tail0
<1> HIDE DEF A, z
<1>4. Tail0(C) \in Seq(0 .. 255) /\ Len(Tail0(C)) = l + 2 /\ Tail0(C)[1] = 0
      /\ \A i \in 2 .. l + 2 : Tail0(C)[i] = A[i - 1]
  <2>1. /\ Tail0(C) \in Seq(0 .. 255) /\ Len(Tail0(C)) = 1 + (l + 1)
        /\ \A i \in 1 .. 1 : Tail0(C)[i] = z[i]
        /\ \A i \in 1 .. l + 1 : Tail0(C)[1 + i] = A[i]
    <3>0. PICK V : V = 0 .. 255
      OBVIOUS
    <3>a. z \in Seq(V) /\ A \in Seq(V)
      BY <1>1, <1>2, <3>0
    <3>b. z \o A \in Seq(V) /\ Len(z \o A) = Len(z) + Len(A)
      BY ONLY <3>a, ConcatIs
    <3>c. \A i \in 1 .. Len(z) : (z \o A)[i] = z[i]
      BY ONLY <3>a, ConcatIs
    <3>d. \A i \in 1 .. Len(A) : (z \o A)[Len(z) + i] = A[i]
      BY ONLY <3>a, ConcatIs
    <3>1. /\ z \o A \in Seq(0 .. 255) /\ Len(z \o A) = Len(z) + Len(A)
          /\ \A i \in 1 .. Len(z) : (z \o A)[i] = z[i]
          /\ \A i \in 1 .. Len(A) : (z \o A)[Len(z) + i] = A[i]
      BY <3>0, <3>b, <3>c, <3>d
    <3>2. Len(z) = 1 /\ Len(A) = l + 1
      BY <1>1, <1>2
    <3>3. QED
      BY <1>3, <3>1, <3>2
  <2>2. ASSUME NEW i \in 2 .. l + 2 PROVE Tail0(C)[i] = A[i - 1]
    <3>1. i - 1 \in 1 .. l + 1 /\ 1 + (i - 1) = i
      BY <1>1
    <3>2. QED
      BY <2>1, <3>1
  <2>3. QED
    BY <1>1, <1>2, <2>1, <2>2
<1>5. Tail0(C)[l + 2] = 0
  <2>1. l + 2 \in 2 .. l + 2 /\ (l + 2) - 1 = l + 1
    BY <1>1
  <2>2. QED
    BY <1>1, <1>4, <2>1
<1>6. ASSUME NEW j \in 1 .. l PROVE Tail0(C)[j + 1] = C[j]
  <2>1. j + 1 \in 2 .. l + 2 /\ (j + 1) - 1 = j
    BY <1>1
  <2>2. QED
    BY <1>1, <1>4, <2>1
<1>7. QED
  BY <1>1, <1>4, <1>5, <1>6

\* The last entries of C1 and C2 go behind those that were given to plot_write.
LEMMA TailWrites ==
    ASSUME NEW T \in Seq(KeyPos), NEW N \in Nat, Len(T) = N, NEW C \in Seq(0 .. 255), C = C2Of(T, NumC2(N)),
           NEW o \in Nat, o = Slot(BeginC(N), NumC1(N), C1Size),
           NEW ws, ws = [n \in 1 .. Len(Tail0(C)) |-> Write(o + (n - 1) * C1Size, C1Size, Tail0(C)[n])]
    PROVE  /\ CWrites(T, NumC1(N), N) \cup ToSet(ws) = CWrites(T, NumC(N), N)
           /\ Len(ws) = Len(Tail0(C)) /\ Len(ws) \in Nat /\ NumC1(N) + Len(ws) = NumC(N)
           /\ o + Len(Tail0(C)) * C1Size = Slot(BeginC(N), NumC(N), C1Size)
           /\ IsFiniteSet(ToSet(ws)) /\ Cardinality(ToSet(ws)) \in Nat /\ Cardinality(ToSet(ws)) <= Len(ws)
<1> DEFINE c == NumC1(N)
           l == NumC2(N)
           g == BeginC(N)
           L == l + 2
           tail == Tail0(C)
           W(n) == CWrite(T, c + (n - 1), N)
<1>1. c \in Nat /\ l \in Nat /\ g \in Nat /\ NumC(N) = c + L
  <2>1. c \in Nat /\ l \in Nat /\ g \in Nat
    BY SecondSizes
  <2>2. NumC(N) = c + l + 2
    BY DEF NumC
  <2> HIDE DEF c, l, g
  <2>3. QED
    BY <2>1, <2>2
<1>2. Len(C) = l /\ \A j \in 1 .. l : C[j] = C2Of(T, l)[j]
  <2>1. N \in 0 .. Len(T)
    OBVIOUS
  <2>2. QED
    BY <2>1, C2Type
<1>3. /\ Len(tail) = L /\ tail[1] = 0 /\ tail[L] = 0 /\ \A j \in 1 .. l : tail[j + 1] = C[j]
  BY SMTT(40), <1>2, TailIs
<1>4. \A i \in Nat : EntryOfC(T, i, N) = IF i < c THEN Checkpoint(T, i)
                                         ELSE IF c < i /\ i < (c + L) - 1 THEN C2Of(T, l)[i - c] ELSE 0
  BY <1>1 DEF EntryOfC
<1>5. \A n \in Nat : o + n * C1Size = Slot(g, c + n, C1Size)
  <2> SUFFICES ASSUME NEW n \in Nat PROVE o + n * C1Size = Slot(g, c + n, C1Size)
    OBVIOUS
  <2>1. o = Slot(g, c, C1Size)
    OBVIOUS
  <2> HIDE DEF g, c
  <2>2. Slot(g, c + n, C1Size) = Slot(g, c, C1Size) + Slot(0, n, C1Size)
    BY <1>1, Bounds, SlotOrder
  <2>3. Slot(o, n, C1Size) = o + Slot(0, n, C1Size) /\ Slot(o, n, C1Size) = o + n * C1Size
    <3>1. Slot(o, n, C1Size) = o + Slot(0, n, C1Size)
      BY Bounds, Slots
    <3>2. Slot(o, n, C1Size) = o + n * C1Size
      BY DEF Slot
    <3>3. QED
      BY <3>1, <3>2
  <2>4. QED
    BY <2>1, <2>2, <2>3
<1> HIDE DEF c, l, g, L, tail
<1>6. L \in Nat /\ L = l + 2
  BY <1>1 DEF L
<1>7. ASSUME NEW n \in 1 .. L PROVE tail[n] = EntryOfC(T, c + (n - 1), N)
  <2>1. c + (n - 1) \in Nat /\ ~(c + (n - 1) < c)
    BY <1>1, <1>6
  <2>2. CASE n = 1
    <3>1. ~(c < c + (n - 1))
      BY <1>1, <2>2
    <3>2. QED
      BY <1>3, <1>4, <2>1, <2>2, <3>1
  <2>3. CASE n = L
    <3>1. ~(c + (n - 1) < (c + L) - 1)
      BY <1>1, <1>6, <2>3
    <3>2. QED
      BY <1>3, <1>4, <2>1, <2>3, <3>1
  <2>4. CASE n # 1 /\ n # L
    <3>1. PICK j : j = n - 1
      OBVIOUS
    <3>2. j \in 1 .. l /\ n = j + 1 /\ c + (n - 1) = c + j /\ c < c + j /\ c + j < (c + L) - 1 /\ (c + j) - c = j
      BY <1>1, <1>6, <2>4, <3>1
    <3>3. tail[n] = C[j]
      BY <1>3, <3>2
    <3>4. ~(c + j < c) /\ c + j \in Nat
      BY <1>1, <3>2
    <3>5. EntryOfC(T, c + j, N) = C2Of(T, l)[(c + j) - c]
      BY <1>4, <3>2, <3>4
    <3>6. EntryOfC(T, c + j, N) = C2Of(T, l)[j]
      BY <3>2, <3>5
    <3>7. C[j] = C2Of(T, l)[j]
      BY <1>2, <3>2
    <3>8. QED
      BY <3>2, <3>3, <3>6, <3>7
  <2>5. QED
    BY <2>2, <2>3, <2>4
<1>8. ws = [n \in 1 .. L |-> W(n)]
  <2>1. ASSUME NEW n \in 1 .. L PROVE Write(o + (n - 1) * C1Size, C1Size, tail[n]) = W(n)
    <3>1. n - 1 \in Nat
      BY <1>6
    <3>2. o + (n - 1) * C1Size = Slot(g, c + (n - 1), C1Size)
      BY <1>5, <3>1
    <3>3. W(n) = Write(Slot(g, c + (n - 1), C1Size), C1Size, EntryOfC(T, c + (n - 1), N))
      BY DEF CWrite, g
    <3>4. QED
      BY <1>7, <3>2, <3>3
  <2>2. ws = [n \in 1 .. L |-> Write(o + (n - 1) * C1Size, C1Size, tail[n])]
    BY <1>3 DEF tail
  <2>3. QED
    BY <2>1, <2>2
<1>9. PICK V : V = {W(n) : n \in 1 .. L}
  OBVIOUS
<1>10. ws \in Seq(V) /\ Len(ws) = L /\ DOMAIN ws = 1 .. L /\ \A n \in 1 .. L : ws[n] = W(n)
  <2>1. \A n \in 1 .. L : W(n) \in V
    BY <1>9
  <2> HIDE DEF W
  <2>2. QED
    BY <1>6, <1>8, <2>1
<1>11. ToSet(ws) = V
  <2> HIDE DEF W
  <2>1. ToSet(ws) = {ws[n] : n \in 1 .. L}
    BY <1>10 DEF ToSet
  <2>2. ASSUME NEW n \in 1 .. L PROVE ws[n] \in V
    <3>1. ws[n] = W(n)
      BY <1>10
    <3>2. PICK x : x = W(n)
      OBVIOUS
    <3>3. x \in V
      BY <1>9, <3>2
    <3>4. QED
      BY <3>1, <3>2, <3>3
  <2>3. ASSUME NEW x \in V PROVE x \in {ws[n] : n \in 1 .. L}
    <3>1. PICK n \in 1 .. L : x = W(n)
      BY <1>9
    <3>2. x = ws[n]
      BY <1>10, <3>1
    <3>3. QED
      BY <3>2
  <2>4. QED
    BY ZenonT(60), <2>1, <2>2, <2>3
<1>12. CWrites(T, c, N) \cup V = CWrites(T, c + L, N)
  <2>1. ASSUME NEW i \in 0 .. (c + L) - 1, ~(i < c) PROVE CWrite(T, i, N) \in V
    <3>1. (i - c) + 1 \in 1 .. L /\ c + (((i - c) + 1) - 1) = i
      BY <1>1, <1>6, <2>1
    <3>2. QED
      BY <1>9, <3>1
  <2>2. ASSUME NEW n \in 1 .. L PROVE c + (n - 1) \in 0 .. (c + L) - 1
    BY <1>1, <1>6
  <2>3. V \subseteq CWrites(T, c + L, N)
    BY <1>9, <2>2 DEF CWrites
  <2>4. \A i \in 0 .. (c + L) - 1 : i < c <=> i \in 0 .. c - 1
    BY <1>1, <1>6
  <2>5. 0 .. c - 1 \subseteq 0 .. (c + L) - 1
    BY <1>1, <1>6
  <2>6. CWrites(T, c, N) \subseteq CWrites(T, c + L, N)
    BY <2>5 DEF CWrites
  <2>7. CWrites(T, c + L, N) \subseteq CWrites(T, c, N) \cup V
    BY <2>1, <2>4 DEF CWrites
  <2>8. QED
    BY <2>3, <2>6, <2>7
<1>13. IsFiniteSet(ToSet(ws)) /\ Cardinality(ToSet(ws)) \in Nat /\ Cardinality(ToSet(ws)) <= Len(ws)
  BY <1>10, SequenceSize
<1>14. NumC(N) = c + L /\ Len(ws) = Len(tail) /\ Len(ws) \in Nat /\ Len(tail) = L
  BY <1>1, <1>3, <1>6, <1>10
<1>15. o + Len(tail) * C1Size = Slot(g, c + L, C1Size)
  BY <1>5, <1>6, <1>14
<1>16. QED
  BY <1>10, <1>11, <1>12, <1>13, <1>14, <1>15 DEF c, g, tail

\* The end of C1, and C2 with its end, are written behind the rest.
LEMMA FinishStep ==
    ASSUME NEW e, NEW m, NEW T, NEW a, NEW b, NEW c, NEW d, NEW p, Makes(e, m, T, a, b, c, d, p), a \in Nat, Finish
    PROVE  PlotInv'
<1>1. /\ stage = "close4" /\ stage' = "done" /\ sends = <<>> /\ \A q \in Stages : queue[q] = <<>>
      /\ ~Phase3 /\ ~Phase3' /\ Closing /\ Closing'
      /\ UNCHANGED <<input, sends, queue, given, park, num_written_final, L_sort>>
      /\ UNCHANGED <<index, park_data, park_deltas, prev_y, num_C1_entries, C2, final_file_writer_3>>
  BY DEF Finish, AllClosed, Phase3, Closing, phase3
<1>2. PICK N : N = Len(e)
  OBVIOUS
<1>3. /\ e \in Seq(Entry) /\ N \in Nat /\ m = N
      /\ begin_byte_C1 = BeginC(N) /\ begin_byte_C2 = Slot(BeginC(N), NumC1(N) + 1, C1Size) /\ begin_byte_C3 = BeginC3(N)
      /\ pointers[6] = L_final_begin /\ pointers[7] = Begin7(N)
  BY <1>1, <1>2, Phase4Is
<1>4. /\ Cut(e, m, a, p) /\ Read(e, m, T) /\ Carried(T, N, b, c) /\ Counts(T, N, b, c, d) /\ Pointers(N)
  BY <1>2 DEF Makes, Progress
<1>5. T \in Seq(KeyPos) /\ SortedKeys(T) /\ IsInjective(T) /\ ToSet(T) = Keyed(e, m) /\ Len(T) = N
  BY <1>1, <1>2, AllRead
<1>6. NumC1(N) \in Nat /\ NumC(N) \in Nat /\ BeginC(N) \in Nat /\ Closed(N, kEntriesPerPark) \in Nat
      /\ Closed(N, kCheckpoint1Interval) \in Nat /\ BeginC3(N) \in Nat
  BY <1>3, SecondSizes
<1>7. c = NumC1(N) /\ b \in Nat /\ c \in Nat /\ d \in Nat /\ index = N
  <2>1. stage # "done"
    BY <1>1
  <2>2. b = Closed(N, kEntriesPerPark) + 1 /\ c = NumC1(N) /\ index = N
        /\ d = Closed(N, kCheckpoint1Interval) + (IF Closing /\ park_deltas # <<>> THEN 1 ELSE 0)
    BY <1>1, <1>4, <1>5, <2>1 DEF Counts, Carried
  <2>3. PICK D : D = IF Closing /\ park_deltas # <<>> THEN 1 ELSE 0
    OBVIOUS
  <2>4. D \in Nat
    BY <2>3
  <2>5. QED
    BY <1>6, <2>2, <2>3, <2>4
<1>8. PICK C, o : C = C2 /\ o = final_file_writer_1
  OBVIOUS
<1>9. C = C2Of(T, NumC2(N)) /\ o = Slot(BeginC(N), NumC1(N), C1Size)
  BY <1>1, <1>4, <1>7, <1>8 DEF Carried
<1>10. C \in Seq(0 .. 255) /\ o \in Nat
  <2>1. N \in 0 .. Len(T)
    BY <1>3, <1>5
  <2>2. C \in Seq(0 .. 255)
    BY <1>5, <1>9, <2>1, C2Type
  <2> DEFINE g == BeginC(N)
             x == NumC1(N)
  <2>3. g \in Nat /\ x \in Nat /\ o = Slot(g, x, C1Size)
    BY <1>6, <1>9
  <2> HIDE DEF g, x
  <2>4. o \in Nat
    BY <2>3, Bounds, Slots
  <2>5. QED
    BY <2>2, <2>4
<1>11. PICK ws : ws = [n \in 1 .. Len(Tail0(C)) |-> Write(o + (n - 1) * C1Size, C1Size, Tail0(C)[n])]
  OBVIOUS
<1>12. /\ CWrites(T, NumC1(N), N) \cup ToSet(ws) = CWrites(T, NumC(N), N)
       /\ Len(ws) = Len(Tail0(C)) /\ Len(ws) \in Nat /\ NumC1(N) + Len(ws) = NumC(N)
       /\ o + Len(Tail0(C)) * C1Size = Slot(BeginC(N), NumC(N), C1Size)
       /\ IsFiniteSet(ToSet(ws)) /\ Cardinality(ToSet(ws)) \in Nat /\ Cardinality(ToSet(ws)) <= Len(ws)
  <2>1. /\ T \in Seq(KeyPos) /\ N \in Nat /\ Len(T) = N /\ C \in Seq(0 .. 255) /\ C = C2Of(T, NumC2(N))
        /\ o \in Nat /\ o = Slot(BeginC(N), NumC1(N), C1Size)
        /\ ws = [n \in 1 .. Len(Tail0(C)) |-> Write(o + (n - 1) * C1Size, C1Size, Tail0(C)[n])]
    BY <1>3, <1>5, <1>9, <1>10, <1>11
  <2>2. CWrites(T, NumC1(N), N) \cup ToSet(ws) = CWrites(T, NumC(N), N)
    BY ONLY <2>1, TailWrites
  <2>3. Len(ws) = Len(Tail0(C)) /\ Len(ws) \in Nat /\ NumC1(N) + Len(ws) = NumC(N)
    BY ONLY <2>1, TailWrites
  <2>4. o + Len(Tail0(C)) * C1Size = Slot(BeginC(N), NumC(N), C1Size)
    BY ONLY <2>1, TailWrites
  <2>5. IsFiniteSet(ToSet(ws)) /\ Cardinality(ToSet(ws)) \in Nat /\ Cardinality(ToSet(ws)) <= Len(ws)
    BY ONLY <2>1, TailWrites
  <2>6. QED
    BY <2>2, <2>3, <2>4, <2>5
<1>13. /\ file' = file \cup ToSet(ws) /\ num_writes' = num_writes + Len(ws)
       /\ final_file_writer_1' = o + Len(Tail0(C)) * C1Size
       /\ pointers' = [pointers EXCEPT ![8] = begin_byte_C1, ![9] = begin_byte_C2, ![10] = begin_byte_C3]
  BY <1>8, <1>11 DEF Finish, C2Table, Put, Tail0
<1>14. PICK M1, k1, A1 : M1 = AllWrites(e, T, a, b, c, d) /\ k1 = a + b + c + d /\ A1 = Keyed(e, m) \ ToSet(T)
  OBVIOUS
<1>15. Pipe(M1, k1, p, A1)
  BY <1>14 DEF Makes
<1>16. PICK c2 : c2 = NumC(N)
  OBVIOUS
<1>17. M1 \cup ToSet(ws) = AllWrites(e, T, a, b, c2, d) /\ k1 + Len(ws) = a + b + c2 + d
  <2>1. CWrites(T, c, N) \cup ToSet(ws) = CWrites(T, c2, N) /\ c + Len(ws) = c2
    BY <1>7, <1>12, <1>16
  <2>2. M1 \cup ToSet(ws) = AllWrites(e, T, a, b, c2, d)
    BY <1>2, <1>14, <2>1 DEF AllWrites
  <2>3. k1 + Len(ws) = a + b + c2 + d
    BY SMTT(40), <1>7, <1>12, <1>14, <2>1
  <2>4. QED
    BY <2>2, <2>3
<1>18. InPipe = {} /\ NumPipe = 0 /\ InPipe' = {} /\ NumPipe' = 0
  <2>1. InPipe = {} /\ NumPipe = 0
    BY <1>1, SentEmpty, QueuesEmpty DEF InPipe, NumPipe
  <2>2. QED
    BY <1>1, <2>1 DEF InPipe, NumPipe
<1>19. file = M1 /\ num_writes = k1 /\ IsFiniteSet(file) /\ Cardinality(file) <= num_writes /\ num_writes \in Nat
  BY <1>15, <1>18 DEF Pipe, Accounted
<1>20. Accounted(M1 \cup ToSet(ws), k1 + Len(ws))'
  <2>1. IsFiniteSet(file') /\ Cardinality(file') <= num_writes'
    <3>1. Cardinality(file) \in Nat /\ Cardinality(file \cap ToSet(ws)) \in Nat
      <4>1. file \cap ToSet(ws) \in SUBSET file
        OBVIOUS
      <4>2. IsFiniteSet(file \cap ToSet(ws))
        BY <1>19, <4>1, FS_Subset
      <4>3. QED
        BY <1>19, <4>2, FS_CardinalityType
    <3>2. /\ IsFiniteSet(file \cup ToSet(ws))
          /\ Cardinality(file \cup ToSet(ws)) = Cardinality(file) + Cardinality(ToSet(ws)) - Cardinality(file \cap ToSet(ws))
      BY <1>12, <1>19, FS_Union
    <3>3. QED
      BY <1>12, <1>13, <1>19, <3>1, <3>2
  <2>2. num_writes' \in Nat /\ num_writes' + NumPipe' = k1 + Len(ws) /\ file' \cup InPipe' = M1 \cup ToSet(ws)
    BY <1>12, <1>13, <1>18, <1>19
  <2>3. QED
    BY <2>1, <2>2 DEF Accounted
<1>21. Pipe(AllWrites(e, T, a, b, c2, d), a + b + c2 + d, p, Keyed(e, m) \ ToSet(T))'
  <2>1. PICK M2, k2 : M2 = AllWrites(e, T, a, b, c2, d) /\ k2 = a + b + c2 + d
    OBVIOUS
  <2>2. Accounted(M2, k2)'
    BY <1>17, <1>20, <2>1
  <2>3. Counted(p)' /\ Sorted(A1)'
    BY <1>1, <1>15 DEF Pipe, Counted, Sorted, InAdds
  <2>4. Types'
    <3>1. Types
      BY <1>15 DEF Pipe
    <3>2. QED
      BY <1>1, <3>1 DEF Types, AreQueues
  <2>5. Pipe(M2, k2, p, A1)'
    BY <2>2, <2>3, <2>4 DEF Pipe
  <2>6. QED
    BY <1>14, <2>1, <2>5
<1>22. Cut(e, m, a, p)'
  <2>1. Entries' = Entries /\ Offset(given)' = Offset(given)
    BY <1>1 DEF Entries, Offset
  <2>2. QED
    BY <1>1, <1>4, <2>1 DEF Cut
<1>23. Read(e, m, T)'
  BY <1>1, <1>4, <1>5 DEF Read
<1>24. Carried(T, N, b, c2)'
  <2>1. final_file_writer_1' = Slot(BeginC(N), c2, C1Size)
    BY <1>12, <1>13, <1>16
  <2>2. QED
    BY <1>1, <1>4, <2>1 DEF Carried
<1>25. Counts(T, N, b, c2, d)'
  BY <1>1, <1>4, <1>16 DEF Counts
<1>26. Pointers(N)'
  <2>1. PICK g1, g2, g3 : g1 = begin_byte_C1 /\ g2 = begin_byte_C2 /\ g3 = begin_byte_C3
    OBVIOUS
  <2>2. g1 \in Nat /\ g2 \in Nat /\ g3 \in Nat
    <3> DEFINE g == BeginC(N)
               x == NumC1(N) + 1
    <3>1. g \in Nat /\ x \in Nat
      BY <1>6
    <3>2. g1 = g /\ g2 = Slot(g, x, C1Size) /\ g3 \in Nat
      BY <1>3, <1>6, <2>1
    <3> HIDE DEF g, x
    <3>3. QED
      BY <3>1, <3>2, Bounds, Slots
  <2>3. pointers \in [6 .. 10 -> Nat]
    BY <1>4 DEF Pointers
  <2>4. PICK r1 : r1 = [pointers EXCEPT ![8] = g1]
    OBVIOUS
  <2>5. PICK r2 : r2 = [r1 EXCEPT ![9] = g2]
    OBVIOUS
  <2>6. pointers' = [r2 EXCEPT ![10] = g3]
    BY <1>13, <2>1, <2>4, <2>5
  <2>7. r1 \in [6 .. 10 -> Nat] /\ r1[8] = g1 /\ r1[6] = pointers[6] /\ r1[7] = pointers[7]
    BY <2>2, <2>3, <2>4
  <2>8. r2 \in [6 .. 10 -> Nat] /\ r2[8] = g1 /\ r2[9] = g2 /\ r2[6] = pointers[6] /\ r2[7] = pointers[7]
    BY <2>2, <2>5, <2>7
  <2>9. /\ pointers' \in [6 .. 10 -> Nat] /\ pointers'[8] = g1 /\ pointers'[9] = g2 /\ pointers'[10] = g3
        /\ pointers'[6] = pointers[6] /\ pointers'[7] = pointers[7]
    BY <2>2, <2>6, <2>8
  <2>10. QED
    BY <1>3, <2>1, <2>9 DEF Pointers
<1>27. Makes(e, m, T, a, b, c2, d, p)'
  <2>1. Progress(e, m, T, a, b, c2, d, p)'
    BY <1>2, <1>22, <1>23, <1>24, <1>25, <1>26 DEF Progress
  <2>2. QED
    BY <1>21, <2>1 DEF Makes
<1>28. QED
  BY <1>27 DEF PlotInv

\* At any moment of compute_stage2() and phase 4, what is in the file and under way to it are the first
\* parks, checkpoints and intervals of the entries read, each once and at its place.
THEOREM PlotInvariant == Spec => []PlotInv
<1>1. Init => PlotInv
  BY PlotStart
<1>2. ASSUME PlotInv, [Next]_vars PROVE PlotInv'
  <2>1. PICK e, m, T, a, b, c, d, p : Makes(e, m, T, a, b, c, d, p)
    BY <1>2 DEF PlotInv
  <2>2. ~Phase3 => a \in Nat
    <3>1. ~Phase3 => a = Opened(Len(e), kEntriesPerPark) /\ Len(e) \in Nat
      BY <2>1, Phase4Is
    <3>2. Len(e) \in Nat => Opened(Len(e), kEntriesPerPark) \in Nat
      BY SecondSizes
    <3>3. QED
      BY <3>1, <3>2
  <2>3. CASE SliceBlock
    BY <2>1, <2>3, SliceBlockStep
  <2>4. CASE LastPark
    BY <2>1, <2>4, LastParkStep
  <2>5. CASE BeginPhase4
    BY <2>1, <2>5, BeginPhase4Step
  <2>6. CASE ReadBlock
    <3>1. ~Phase3
      BY <2>6 DEF ReadBlock, Phase3
    <3>2. QED
      BY <2>1, <2>2, <2>6, <3>1, ReadBlockStep
  <2>7. CASE LastP7Park
    <3>1. ~Phase3
      BY <2>7 DEF LastP7Park, Phase3
    <3>2. QED
      BY <2>1, <2>2, <2>7, <3>1, LastP7ParkStep
  <2>8. CASE Finish
    <3>1. ~Phase3
      BY <2>8 DEF Finish, Phase3
    <3>2. QED
      BY <2>1, <2>2, <2>8, <3>1, FinishStep
  <2>9. CASE Send \/ DeliverSome \/ PlotWrite \/ Add
    <3>1. Makes(e, m, T, a, b, c, d, p)'
      BY <2>1, <2>9, PlotPipe
    <3>2. QED
      BY <3>1 DEF PlotInv
  <2>10. CASE UNCHANGED vars
    <3>1. Makes(e, m, T, a, b, c, d, p)'
      BY <2>1, <2>10, PlotSame
    <3>2. QED
      BY <3>1 DEF PlotInv
  <2>11. QED
    BY <1>2, <2>3, <2>4, <2>5, <2>6, <2>7, <2>8, <2>9, <2>10 DEF Next, Main
<1>3. QED
  BY <1>1, <1>2, PTL DEF Spec

-----------------------------------------------------------------------------
(* Where the writes go *)

Apart(v, w) == v.offset + v.size <= w.offset \/ w.offset + w.size <= v.offset

\* k writes between two offsets, none over another
Region(S, k, lo, hi) ==
    /\ IsFiniteSet(S) /\ Cardinality(S) = k /\ k \in Nat /\ lo \in Nat /\ hi \in Nat /\ lo <= hi
    /\ \A v, w \in S : v # w => Apart(v, w)
    /\ \A w \in S : w.offset \in Nat /\ w.size \in Nat \ {0} /\ lo <= w.offset /\ w.offset + w.size <= hi

\* The slots of a table
LEMMA RegionTable ==
    ASSUME NEW g \in Nat, NEW size \in Nat \ {0}, NEW k \in Nat, NEW V, NEW s \in Seq(V), Len(s) = k,
           \A n \in 1 .. k : s[n].offset = Slot(g, n - 1, size) /\ s[n].size = size
    PROVE  Region(ToSet(s), k, g, Slot(g, k, size))
<1>1. ASSUME NEW n \in 1 .. k
      PROVE  /\ s[n].offset \in Nat /\ s[n].size \in Nat \ {0} /\ g <= s[n].offset
             /\ s[n].offset + s[n].size <= Slot(g, k, size)
  <2>1. PICK i : i = n - 1
    OBVIOUS
  <2>2. i \in Nat /\ i < k
    BY <2>1
  <2>3. s[n].offset = Slot(g, i, size) /\ s[n].size = size
    BY <2>1
  <2>4. Slot(g, i, size) \in Nat /\ g <= Slot(g, i, size)
    BY <2>2, Slots
  <2>5. Slot(g, i, size) + size <= Slot(g, k, size)
    BY <2>2, SlotOrder
  <2>6. QED
    BY <2>3, <2>4, <2>5
<1>2. ASSUME NEW m \in 1 .. k, NEW n \in 1 .. k, m < n PROVE s[m].offset + s[m].size <= s[n].offset
  <2>1. PICK i, j : i = m - 1 /\ j = n - 1
    OBVIOUS
  <2>2. i \in Nat /\ j \in Nat /\ i < j
    BY <1>2, <2>1
  <2>3. s[m].offset = Slot(g, i, size) /\ s[m].size = size /\ s[n].offset = Slot(g, j, size)
    BY <2>1
  <2>4. Slot(g, i, size) + size <= Slot(g, j, size)
    BY <2>2, SlotOrder
  <2>5. QED
    BY <2>3, <2>4
<1>3. DOMAIN s = 1 .. k /\ ToSet(s) = {s[n] : n \in 1 .. k}
  <2>1. DOMAIN s = 1 .. k
    OBVIOUS
  <2>2. QED
    BY <2>1 DEF ToSet
<1>4. IsInjective(s)
  <2>1. ASSUME NEW m \in 1 .. k, NEW n \in 1 .. k, s[m] = s[n] PROVE m = n
    <3>1. ~(m < n)
      <4>1. SUFFICES ASSUME m < n PROVE FALSE
        OBVIOUS
      <4>2. s[m].offset + s[m].size <= s[n].offset
        BY <1>2, <4>1
      <4>3. QED
        BY <1>1, <2>1, <4>2
    <3>2. ~(n < m)
      <4>1. SUFFICES ASSUME n < m PROVE FALSE
        OBVIOUS
      <4>2. s[n].offset + s[n].size <= s[m].offset
        BY <1>2, <4>1
      <4>3. QED
        BY <1>1, <2>1, <4>2
    <3>3. QED
      BY <3>1, <3>2
  <2>2. QED
    BY <1>3, <2>1 DEF IsInjective
<1>5. IsFiniteSet(ToSet(s)) /\ Cardinality(ToSet(s)) = k
  BY <1>4, InjectiveLength
<1>6. ASSUME NEW v \in ToSet(s), NEW w \in ToSet(s), v # w PROVE Apart(v, w)
  <2>1. PICK m \in 1 .. k, n \in 1 .. k : v = s[m] /\ w = s[n]
    BY <1>3
  <2>2. m < n \/ n < m
    BY <1>6, <2>1
  <2>3. QED
    BY <1>2, <2>1, <2>2 DEF Apart
<1>7. \A w \in ToSet(s) : /\ w.offset \in Nat /\ w.size \in Nat \ {0} /\ g <= w.offset
                          /\ w.offset + w.size <= Slot(g, k, size)
  BY <1>1, <1>3
<1>8. Slot(g, k, size) \in Nat /\ g <= Slot(g, k, size)
  BY Slots
<1>9. QED
  BY <1>5, <1>6, <1>7, <1>8 DEF Region

\* A table behind another
LEMMA RegionUnion ==
    ASSUME NEW S, NEW R, NEW k, NEW j, NEW lo, NEW mid, NEW next, NEW hi,
           Region(S, k, lo, mid), Region(R, j, next, hi), mid <= next
    PROVE  Region(S \cup R, k + j, lo, hi)
<1>1. /\ IsFiniteSet(S) /\ Cardinality(S) = k /\ k \in Nat /\ lo \in Nat /\ mid \in Nat /\ lo <= mid
      /\ IsFiniteSet(R) /\ Cardinality(R) = j /\ j \in Nat /\ next \in Nat /\ hi \in Nat /\ next <= hi
      /\ \A w \in S : w.offset \in Nat /\ w.size \in Nat \ {0} /\ lo <= w.offset /\ w.offset + w.size <= mid
      /\ \A w \in R : w.offset \in Nat /\ w.size \in Nat \ {0} /\ next <= w.offset /\ w.offset + w.size <= hi
      /\ \A v, w \in S : v # w => Apart(v, w)
      /\ \A v, w \in R : v # w => Apart(v, w)
  BY DEF Region
<1>2. \A v \in S, w \in R : v.offset + v.size <= w.offset
  <2> SUFFICES ASSUME NEW v \in S, NEW w \in R PROVE v.offset + v.size <= w.offset
    OBVIOUS
  <2>1. PICK x, y, z : x = v.offset /\ y = v.size /\ z = w.offset
    OBVIOUS
  <2>2. x \in Nat /\ y \in Nat /\ z \in Nat /\ x + y <= mid /\ next <= z
    BY <1>1, <2>1
  <2>3. x + y <= z
    BY <1>1, <2>2
  <2>4. QED
    BY <2>1, <2>3
<1>3. S \cap R = {}
  <2>1. SUFFICES ASSUME NEW w \in S, w \in R PROVE FALSE
    OBVIOUS
  <2>2. PICK x, y : x = w.offset /\ y = w.size
    OBVIOUS
  <2>3. x \in Nat /\ y \in Nat \ {0} /\ x + y <= x
    BY <1>1, <1>2, <2>1, <2>2
  <2>4. QED
    BY <2>3
<1>4. IsFiniteSet(S \cup R) /\ Cardinality(S \cup R) = k + j
  <2>1. IsFiniteSet(S \cup R) /\ Cardinality(S \cup R) = Cardinality(S) + Cardinality(R) - Cardinality(S \cap R)
    BY <1>1, FS_Union
  <2>2. Cardinality({}) = 0
    BY FS_EmptySet
  <2>3. QED
    BY <1>1, <1>3, <2>1, <2>2
<1>5. ASSUME NEW w \in S \cup R
      PROVE  w.offset \in Nat /\ w.size \in Nat \ {0} /\ lo <= w.offset /\ w.offset + w.size <= hi
  <2>1. PICK x, y : x = w.offset /\ y = w.size
    OBVIOUS
  <2>2. x \in Nat /\ y \in Nat \ {0} /\ ((lo <= x /\ x + y <= mid) \/ (next <= x /\ x + y <= hi))
    BY <1>1, <2>1
  <2>3. lo <= x /\ x + y <= hi
    BY <1>1, <2>2
  <2>4. QED
    BY <2>1, <2>2, <2>3
<1>6. \A v, w \in S \cup R : v # w => Apart(v, w)
  BY <1>1, <1>2 DEF Apart
<1>7. k + j \in Nat /\ lo <= hi
  BY <1>1
<1>8. QED
  BY <1>1, <1>4, <1>5, <1>6, <1>7 DEF Region

-----------------------------------------------------------------------------
(* The tables are regions *)

\* A sequence of k writes that fill the slots 0 .. k - 1
LEMMA SlotWrites ==
    ASSUME NEW W, NEW g \in Nat, NEW size \in Nat \ {0}, NEW k \in Nat,
           NEW s, s = [n \in 1 .. k |-> W[n - 1]],
           \A i \in 0 .. k - 1 : W[i].offset = Slot(g, i, size) /\ W[i].size = size
    PROVE  Region({W[i] : i \in 0 .. k - 1}, k, g, Slot(g, k, size))
<1>1. PICK V : V = {W[i] : i \in 0 .. k - 1}
  OBVIOUS
<1>2. \A n \in 1 .. k : n - 1 \in 0 .. k - 1
  OBVIOUS
<1>3. \A n \in 1 .. k : s[n] = W[n - 1] /\ s[n] \in V
  BY <1>1, <1>2
<1>4. s \in Seq(V) /\ Len(s) = k /\ DOMAIN s = 1 .. k
  BY <1>3
<1>5. \A n \in 1 .. k : s[n].offset = Slot(g, n - 1, size) /\ s[n].size = size
  BY <1>2, <1>3
<1>6. Region(ToSet(s), k, g, Slot(g, k, size))
  BY <1>4, <1>5, RegionTable
<1>7. ToSet(s) = V
  <2>1. \A i \in 0 .. k - 1 : i + 1 \in 1 .. k /\ (i + 1) - 1 = i
    OBVIOUS
  <2>2. \A i \in 0 .. k - 1 : s[i + 1] = W[i]
    BY <1>3, <2>1
  <2>3. ToSet(s) = {s[n] : n \in 1 .. k}
    BY <1>4 DEF ToSet
  <2>4. ASSUME NEW x \in V PROVE x \in ToSet(s)
    <3>1. PICK i \in 0 .. k - 1 : x = W[i]
      BY <1>1
    <3>2. x = s[i + 1] /\ i + 1 \in 1 .. k
      BY <2>1, <2>2, <3>1
    <3>3. QED
      BY <2>3, <3>2
  <2>5. QED
    BY <1>3, <2>3, <2>4
<1>8. QED
  BY <1>1, <1>6, <1>7

\* Each table is in a region of its own.
LEMMA TableRegions ==
    ASSUME NEW e, NEW T, NEW N \in Nat, NEW a \in Nat, NEW b \in Nat, NEW c \in Nat, NEW d \in Nat
    PROVE  /\ Region(ParkWrites(e, a), a, L_final_begin, Slot(L_final_begin, a, ParkSize))
           /\ Region(P7Writes(T, b, N), b, Begin7(N), Slot(Begin7(N), b, P7Size))
           /\ Region(CWrites(T, c, N), c, BeginC(N), Slot(BeginC(N), c, C1Size))
           /\ Region(C3Writes(T, d, N), d, BeginC3(N), Slot(BeginC3(N), d, C3Size))
<1>1. L_final_begin \in Nat /\ Begin7(N) \in Nat /\ BeginC(N) \in Nat /\ BeginC3(N) \in Nat
  BY Bounds, SecondSizes
<1>2. PICK g7, gC, g3 : g7 = Begin7(N) /\ gC = BeginC(N) /\ g3 = BeginC3(N)
  OBVIOUS
<1>3. g7 \in Nat /\ gC \in Nat /\ g3 \in Nat
  BY <1>1, <1>2
<1>4. Region(ParkWrites(e, a), a, L_final_begin, Slot(L_final_begin, a, ParkSize))
  <2> DEFINE W == [i \in 0 .. a - 1 |-> ParkWrite(e, i)]
             s == [n \in 1 .. a |-> W[n - 1]]
  <2>1. \A i \in 0 .. a - 1 : W[i].offset = Slot(L_final_begin, i, ParkSize) /\ W[i].size = ParkSize
    BY DEF ParkWrite, PackedPark, ParkOf, Write, Slot
  <2>2. ParkWrites(e, a) = {W[i] : i \in 0 .. a - 1}
    BY DEF ParkWrites
  <2> HIDE DEF W
  <2>3. Region({W[i] : i \in 0 .. a - 1}, a, L_final_begin, Slot(L_final_begin, a, ParkSize))
    BY <2>1, Bounds, SlotWrites
  <2>4. QED
    BY <2>2, <2>3
<1>5. Region(P7Writes(T, b, N), b, g7, Slot(g7, b, P7Size))
  <2> DEFINE W == [i \in 0 .. b - 1 |-> P7Write(T, i, N)]
             s == [n \in 1 .. b |-> W[n - 1]]
  <2>1. \A i \in 0 .. b - 1 : W[i].offset = Slot(g7, i, P7Size) /\ W[i].size = P7Size
    BY <1>2 DEF P7Write, Write
  <2>2. P7Writes(T, b, N) = {W[i] : i \in 0 .. b - 1}
    BY DEF P7Writes
  <2> HIDE DEF W
  <2>3. Region({W[i] : i \in 0 .. b - 1}, b, g7, Slot(g7, b, P7Size))
    BY <1>3, <2>1, Bounds, SlotWrites
  <2>4. QED
    BY <2>2, <2>3
<1>6. Region(CWrites(T, c, N), c, gC, Slot(gC, c, C1Size))
  <2> DEFINE W == [i \in 0 .. c - 1 |-> CWrite(T, i, N)]
             s == [n \in 1 .. c |-> W[n - 1]]
  <2>1. \A i \in 0 .. c - 1 : W[i].offset = Slot(gC, i, C1Size) /\ W[i].size = C1Size
    BY <1>2 DEF CWrite, Write
  <2>2. CWrites(T, c, N) = {W[i] : i \in 0 .. c - 1}
    BY DEF CWrites
  <2> HIDE DEF W
  <2>3. Region({W[i] : i \in 0 .. c - 1}, c, gC, Slot(gC, c, C1Size))
    BY <1>3, <2>1, Bounds, SlotWrites
  <2>4. QED
    BY <2>2, <2>3
<1>7. Region(C3Writes(T, d, N), d, g3, Slot(g3, d, C3Size))
  <2> DEFINE W == [i \in 0 .. d - 1 |-> C3Write(T, i, N)]
             s == [n \in 1 .. d |-> W[n - 1]]
  <2>1. \A i \in 0 .. d - 1 : W[i].offset = Slot(g3, i, C3Size) /\ W[i].size = C3Size
    BY <1>2 DEF C3Write, Write
  <2>2. C3Writes(T, d, N) = {W[i] : i \in 0 .. d - 1}
    BY DEF C3Writes
  <2> HIDE DEF W
  <2>3. Region({W[i] : i \in 0 .. d - 1}, d, g3, Slot(g3, d, C3Size))
    BY <1>3, <2>1, Bounds, SlotWrites
  <2>4. QED
    BY <2>2, <2>3
<1>8. QED
  BY <1>2, <1>4, <1>5, <1>6, <1>7

\* No table is longer than the place that phase 4 has kept for it.
LEMMA AllRegions ==
    ASSUME NEW e, NEW T, NEW N \in Nat, N = Len(e), NEW a \in Nat, NEW b \in Nat, NEW c \in Nat, NEW d \in Nat,
           a <= Opened(N, kEntriesPerPark), b <= Closed(N, kEntriesPerPark) + 1, c <= NumC(N), d <= NumC1(N)
    PROVE  Region(AllWrites(e, T, a, b, c, d), a + b + c + d, L_final_begin, EndC3(N))
<1>1. /\ L_final_begin \in Nat /\ Begin7(N) \in Nat /\ BeginC(N) \in Nat /\ BeginC3(N) \in Nat
      /\ Opened(N, kEntriesPerPark) \in Nat /\ Closed(N, kEntriesPerPark) \in Nat /\ NumC(N) \in Nat /\ NumC1(N) \in Nat
  BY Bounds, SecondSizes
<1>2. PICK g7, gC, g3, g9 : g7 = Begin7(N) /\ gC = BeginC(N) /\ g3 = BeginC3(N) /\ g9 = EndC3(N)
  OBVIOUS
<1>3. PICK A, B, C, D : A = Opened(N, kEntriesPerPark) /\ B = Closed(N, kEntriesPerPark) + 1 /\ C = NumC(N) /\ D = NumC1(N)
  OBVIOUS
<1>4. /\ L_final_begin \in Nat /\ g7 \in Nat /\ gC \in Nat /\ g3 \in Nat
      /\ A \in Nat /\ B \in Nat /\ C \in Nat /\ D \in Nat /\ a <= A /\ b <= B /\ c <= C /\ d <= D
      /\ g7 = Slot(L_final_begin, A, ParkSize) /\ gC = Slot(g7, B, P7Size)
      /\ g3 = Slot(gC, C, C1Size) /\ g9 = Slot(g3, D, C3Size)
  BY SMTT(40), <1>1, <1>2, <1>3 DEF Begin7, BeginC, BeginC3, EndC3
<1>5. /\ Slot(L_final_begin, a, ParkSize) <= g7 /\ Slot(g7, b, P7Size) <= gC
      /\ Slot(gC, c, C1Size) <= g3 /\ Slot(g3, d, C3Size) <= g9 /\ g9 \in Nat
  BY <1>4, Bounds, SlotOrder, Slots
<1>6. PICK R1, R2, R3, R4 : R1 = ParkWrites(e, a) /\ R2 = P7Writes(T, b, N) /\ R3 = CWrites(T, c, N) /\ R4 = C3Writes(T, d, N)
  OBVIOUS
<1>7. /\ Region(R1, a, L_final_begin, Slot(L_final_begin, a, ParkSize))
      /\ Region(R2, b, g7, Slot(g7, b, P7Size))
      /\ Region(R3, c, gC, Slot(gC, c, C1Size))
      /\ Region(R4, d, g3, Slot(g3, d, C3Size))
  BY <1>2, <1>6, TableRegions
<1>8. Region(R1 \cup R2, a + b, L_final_begin, Slot(g7, b, P7Size))
  BY <1>5, <1>7, RegionUnion
<1>9. Region((R1 \cup R2) \cup R3, (a + b) + c, L_final_begin, Slot(gC, c, C1Size))
  BY <1>5, <1>7, <1>8, RegionUnion
<1>10. Region(((R1 \cup R2) \cup R3) \cup R4, ((a + b) + c) + d, L_final_begin, Slot(g3, d, C3Size))
  BY <1>5, <1>7, <1>9, RegionUnion
<1>11. PICK S, k, x : S = ((R1 \cup R2) \cup R3) \cup R4 /\ k = ((a + b) + c) + d /\ x = Slot(g3, d, C3Size)
  OBVIOUS
<1>12. Region(S, k, L_final_begin, g9)
  <2>1. Region(S, k, L_final_begin, x) /\ x <= g9 /\ g9 \in Nat
    BY <1>5, <1>10, <1>11
  <2>2. x \in Nat /\ L_final_begin <= x
    BY <2>1 DEF Region
  <2>3. ASSUME NEW w \in S PROVE w.offset + w.size <= g9
    <3>1. PICK y, z : y = w.offset /\ z = w.size
      OBVIOUS
    <3>2. y \in Nat /\ z \in Nat /\ y + z <= x
      BY <2>1, <3>1 DEF Region
    <3>3. y + z <= g9
      BY <2>1, <2>2, <3>2
    <3>4. QED
      BY <3>1, <3>3
  <2>4. L_final_begin <= g9
    BY <1>4, <2>1, <2>2
  <2>5. QED
    BY <2>1, <2>3, <2>4 DEF Region
<1>13. S = AllWrites(e, T, a, b, c, d) /\ k = a + b + c + d
  BY <1>6, <1>11 DEF AllWrites
<1>14. QED
  BY <1>2, <1>12, <1>13

-----------------------------------------------------------------------------
(* No two writes overlap *)

\* There are no more writes than places for them.
LEMMA CountsFit ==
    ASSUME NEW e, NEW m, NEW T, NEW a, NEW b, NEW c, NEW d, NEW p, Makes(e, m, T, a, b, c, d, p),
           NEW N, N = Len(e)
    PROVE  /\ e = Entries /\ e \in Seq(Entry) /\ N \in Nat /\ a \in Nat /\ b \in Nat /\ c \in Nat /\ d \in Nat
           /\ a <= Opened(N, kEntriesPerPark) /\ b <= Closed(N, kEntriesPerPark) + 1 /\ c <= NumC(N) /\ d <= NumC1(N)
<1>1. /\ Cut(e, m, a, p) /\ Read(e, m, T) /\ Carried(T, N, b, c) /\ Counts(T, N, b, c, d) /\ Types
  BY DEF Makes, Progress, Pipe
<1>2. e = Entries /\ given \in 0 .. Len(input) /\ m = AtMost(Offset(given)) /\ input \in Inputs
  BY <1>1 DEF Cut, Types
<1>3. /\ e \in Seq(Entry) /\ N \in Nat /\ Len(e) = AtMost(Offset(Len(input))) /\ input \in Seq(Seq(Entry))
      /\ \A n \in 0 .. Len(input) - 1 : AtMost(Offset(n)) <= Len(e) /\ Offset(n) \in Nat
  BY <1>2, EntriesAre
<1>4. m <= N /\ m \in Nat
  <2>1. given = Len(input) \/ given \in 0 .. Len(input) - 1
    BY <1>2, <1>3
  <2>2. CASE given = Len(input)
    BY <1>2, <1>3, <2>2
  <2>3. CASE given \in 0 .. Len(input) - 1
    <3>1. Offset(given) \in Nat /\ AtMost(Offset(given)) <= N
      BY <1>3, <2>3
    <3>2. QED
      BY <1>2, <3>1, Bounds DEF AtMost
  <2>4. QED
    BY <2>1, <2>2, <2>3
<1>5. a \in Nat /\ a <= Opened(N, kEntriesPerPark)
  <2>1. /\ Opened(N, kEntriesPerPark) \in Nat /\ Closed(N, kEntriesPerPark) \in Nat
        /\ Closed(m, kEntriesPerPark) \in Nat /\ Closed(m, kEntriesPerPark) <= Closed(N, kEntriesPerPark)
    BY <1>3, <1>4, Bounds, Groups, GroupsMonotone
  <2>2. Closed(N, kEntriesPerPark) <= Opened(N, kEntriesPerPark)
    <3>1. N > 0 => Opened(N, kEntriesPerPark) = Closed(N, kEntriesPerPark) + 1
      BY <1>3, Bounds, Groups
    <3>2. N = 0 => Closed(N, kEntriesPerPark) = 0
      BY NothingRead
    <3>3. PICK x, y : x = Closed(N, kEntriesPerPark) /\ y = Opened(N, kEntriesPerPark)
      OBVIOUS
    <3>4. x \in Nat /\ y \in Nat /\ (N > 0 => y = x + 1) /\ (N = 0 => x = 0)
      BY <2>1, <3>1, <3>2, <3>3
    <3>5. x <= y
      BY <1>3, <3>4
    <3>6. QED
      BY <3>3, <3>5
  <2>3. a = Closed(m, kEntriesPerPark) \/ a = Opened(N, kEntriesPerPark)
    BY <1>1 DEF Cut
  <2>4. QED
    BY <2>1, <2>2, <2>3
<1>6. PICK n : n = Len(T)
  OBVIOUS
<1>7. n \in Nat /\ n <= N /\ T \in Seq(KeyPos) /\ SortedKeys(T)
  <2>1. T \in Seq(KeyPos) /\ SortedKeys(T) /\ IsInjective(T)
    BY <1>1 DEF Read
  <2>2. CASE Phase3
    <3>1. T = <<>>
      BY <1>1, <2>2 DEF Read
    <3>2. QED
      BY <1>3, <1>6, <2>1, <3>1
  <2>3. CASE ~Phase3
    <3>1. m = Len(e)
      BY <2>3, Phase4Is
    <3>2. ToSet(T) \subseteq Keyed(e, Len(e))
      BY <1>1, <3>1 DEF Read
    <3>3. QED
      BY <1>3, <1>6, <2>1, <3>2, ReadSize
  <2>4. QED
    BY <2>2, <2>3
<1>8. /\ b = IF Closing THEN Closed(N, kEntriesPerPark) + 1 ELSE Closed(n, kEntriesPerPark)
      /\ c = IF stage = "done" THEN NumC(N) ELSE NumC1(n)
      /\ d = Closed(n, kCheckpoint1Interval) + (IF Closing /\ park_deltas # <<>> THEN 1 ELSE 0)
      /\ park_deltas = DeltasOf(T, Closed(n, kCheckpoint1Interval), n)
  BY <1>1, <1>6 DEF Counts, Carried
<1>9. /\ Closed(n, kEntriesPerPark) \in Nat /\ Closed(N, kEntriesPerPark) \in Nat
      /\ Closed(n, kEntriesPerPark) <= Closed(N, kEntriesPerPark)
      /\ Closed(n, kCheckpoint1Interval) \in Nat /\ Closed(N, kCheckpoint1Interval) \in Nat
      /\ Closed(n, kCheckpoint1Interval) <= Closed(N, kCheckpoint1Interval)
      /\ NumC1(n) \in Nat /\ NumC1(N) \in Nat /\ NumC1(n) <= NumC1(N)
      /\ NumC(N) \in Nat /\ NumC1(N) <= NumC(N)
  <2>1. /\ Closed(n, kEntriesPerPark) \in Nat /\ Closed(N, kEntriesPerPark) \in Nat
        /\ Closed(n, kCheckpoint1Interval) \in Nat /\ Closed(N, kCheckpoint1Interval) \in Nat
        /\ NumC1(n) \in Nat /\ NumC1(N) \in Nat /\ NumC(N) \in Nat /\ NumC2(N) \in Nat
    BY <1>3, <1>7, SecondSizes
  <2>2. Closed(n, kEntriesPerPark) <= Closed(N, kEntriesPerPark)
    BY <1>3, <1>7, Bounds, GroupsMonotone
  <2>3. Closed(n, kCheckpoint1Interval) <= Closed(N, kCheckpoint1Interval) /\ NumC1(n) <= NumC1(N)
    BY <1>3, <1>7, Bounds, GroupsMonotone DEF NumC1
  <2>4. NumC1(N) <= NumC(N)
    <3>1. PICK x, y : x = NumC1(N) /\ y = NumC2(N)
      OBVIOUS
    <3>2. NumC(N) = x + y + 2 /\ x \in Nat /\ y \in Nat
      BY <2>1, <3>1 DEF NumC
    <3>3. QED
      BY <3>1, <3>2
  <2>5. QED
    BY <2>1, <2>2, <2>3, <2>4
<1>10. b \in Nat /\ b <= Closed(N, kEntriesPerPark) + 1 /\ c \in Nat /\ c <= NumC(N)
  BY <1>8, <1>9
<1>11. d \in Nat /\ d <= NumC1(N)
  <2>1. N > 0 => NumC1(N) = Closed(N, kCheckpoint1Interval) + 1
    BY <1>3, Bounds, Groups DEF NumC1
  <2>2. n = 0 => park_deltas = <<>>
    <3>1. n \in 0 .. Len(T) /\ Closed(n, kCheckpoint1Interval) \in 0 .. Closed(n, kCheckpoint1Interval)
      BY <1>6, <1>7, <1>9
    <3>2. park_deltas \in Seq(Nat) /\ (n = 0 => Len(park_deltas) = 0)
      BY <1>7, <1>8, <3>1, DeltasOfType
    <3>3. QED
      BY <3>2
  <2>3. Closed(0, kCheckpoint1Interval) = 0
    BY NothingRead
  <2>4. CASE N = 0
    <3>1. n = 0
      BY <1>7, <2>4
    <3>2. d = 0 + 0
      BY <1>8, <2>2, <2>3, <3>1
    <3>3. QED
      BY <1>9, <3>2
  <2>5. CASE N > 0
    BY <1>8, <1>9, <2>1, <2>5
  <2>6. QED
    BY <1>3, <2>4, <2>5
<1>12. QED
  BY <1>2, <1>3, <1>5, <1>10, <1>11

\* Two sets have no more elements than both counts.
LEMMA Subadditive ==
    ASSUME NEW A, NEW B, NEW x \in Nat, NEW y \in Nat, IsFiniteSet(A), IsFiniteSet(B),
           Cardinality(A) <= x, Cardinality(B) <= y
    PROVE  IsFiniteSet(A \cup B) /\ Cardinality(A \cup B) <= x + y /\ x + y \in Nat
<1>1. Cardinality(A) \in Nat /\ Cardinality(B) \in Nat
  BY FS_CardinalityType
<1>2. IsFiniteSet(A \cap B)
  <2>1. A \cap B \in SUBSET A
    OBVIOUS
  <2>2. QED
    BY <2>1, FS_Subset
<1>3. Cardinality(A \cap B) \in Nat
  BY <1>2, FS_CardinalityType
<1>4. IsFiniteSet(A \cup B) /\ Cardinality(A \cup B) = Cardinality(A) + Cardinality(B) - Cardinality(A \cap B)
  BY FS_Union
<1>5. QED
  BY <1>1, <1>3, <1>4

\* What is under way is no more than it counts.
LEMMA PipeSize ==
    ASSUME Types
    PROVE  IsFiniteSet(InPipe) /\ Cardinality(InPipe) <= NumPipe /\ NumPipe \in Nat /\ Cardinality(InPipe) \in Nat
<1>1. sends \in Seq(Given) /\ \A q \in Stages : queue[q] \in Seq(InputsOf(q))
  BY DEF Types, AreQueues
<1> DEFINE B(q) == InAll(Bunches(q, queue[q]))
           n(q) == NumQueue(q, queue)
<1>2. ASSUME NEW q \in Stages
      PROVE  IsFiniteSet(B(q)) /\ Cardinality(B(q)) <= n(q) /\ n(q) \in Nat
  <2>1. Bunches(q, queue[q]) \in Seq(Seq(Writes))
    BY <1>1, BunchesType
  <2>2. QED
    BY <2>1, BunchSize, BunchNat DEF NumQueue
<1>3. PICK S, k : S = InAll(Sent(sends)) /\ k = NumAll(Sent(sends))
  OBVIOUS
<1>4. IsFiniteSet(S) /\ Cardinality(S) <= k /\ k \in Nat
  <2>1. Sent(sends) \in Seq(Seq(Writes))
    BY <1>1, SentType
  <2>2. QED
    BY <1>3, <2>1, BunchSize, BunchNat
<1>5. PICK B1, B2, B3, B4, B5 : /\ B1 = B("park_threads") /\ B2 = B("p7_threads") /\ B3 = B("delta_threads")
                                /\ B4 = B("plot_write") /\ B5 = B("L_add")
  OBVIOUS
<1>6. PICK n1, n2, n3, n4, n5 : /\ n1 = n("park_threads") /\ n2 = n("p7_threads") /\ n3 = n("delta_threads")
                                /\ n4 = n("plot_write") /\ n5 = n("L_add")
  OBVIOUS
<1>7. /\ IsFiniteSet(B1) /\ Cardinality(B1) <= n1 /\ n1 \in Nat
      /\ IsFiniteSet(B2) /\ Cardinality(B2) <= n2 /\ n2 \in Nat
      /\ IsFiniteSet(B3) /\ Cardinality(B3) <= n3 /\ n3 \in Nat
      /\ IsFiniteSet(B4) /\ Cardinality(B4) <= n4 /\ n4 \in Nat
      /\ IsFiniteSet(B5) /\ Cardinality(B5) <= n5 /\ n5 \in Nat
  BY <1>2, <1>5, <1>6, StageNames
<1>8. InPipe = S \cup ((((B1 \cup B2) \cup B3) \cup B4) \cup B5)
  <2>1. InQueues(queue) = UNION {B(q) : q \in Stages}
    BY DEF InQueues
  <2>2. UNION {B(q) : q \in Stages} = (((B("park_threads") \cup B("p7_threads")) \cup B("delta_threads")) \cup B("plot_write")) \cup B("L_add")
    <3> HIDE DEF B
    <3>1. QED
      BY StageNames
  <2>3. QED
    BY <1>3, <1>5, <2>1, <2>2 DEF InPipe
<1>9. NumPipe = k + ((((n1 + n2) + n3) + n4) + n5)
  BY <1>3, <1>6 DEF NumPipe, NumQueues
<1> HIDE DEF B, n
<1>10. IsFiniteSet(B1 \cup B2) /\ Cardinality(B1 \cup B2) <= n1 + n2 /\ n1 + n2 \in Nat
  BY <1>7, Subadditive
<1>11. PICK C1, m1 : C1 = B1 \cup B2 /\ m1 = n1 + n2
  OBVIOUS
<1>12. IsFiniteSet(C1 \cup B3) /\ Cardinality(C1 \cup B3) <= m1 + n3 /\ m1 + n3 \in Nat
  BY <1>7, <1>10, <1>11, Subadditive
<1>13. PICK D2, m2 : D2 = C1 \cup B3 /\ m2 = m1 + n3
  OBVIOUS
<1>14. IsFiniteSet(D2 \cup B4) /\ Cardinality(D2 \cup B4) <= m2 + n4 /\ m2 + n4 \in Nat
  BY ZenonT(60), <1>7, <1>12, <1>13, Subadditive
<1>15. PICK C3, m3 : C3 = D2 \cup B4 /\ m3 = m2 + n4
  OBVIOUS
<1>16. IsFiniteSet(C3 \cup B5) /\ Cardinality(C3 \cup B5) <= m3 + n5 /\ m3 + n5 \in Nat
  BY ZenonT(60), <1>7, <1>14, <1>15, Subadditive
<1>17. PICK C4, m4 : C4 = C3 \cup B5 /\ m4 = m3 + n5
  OBVIOUS
<1>18. IsFiniteSet(S \cup C4) /\ Cardinality(S \cup C4) <= k + m4 /\ k + m4 \in Nat
  BY <1>4, <1>16, <1>17, Subadditive
<1>19. InPipe = S \cup C4 /\ NumPipe = k + m4
  BY <1>8, <1>9, <1>11, <1>13, <1>15, <1>17
<1>20. QED
  BY <1>18, <1>19, FS_CardinalityType

\* Whatever the threads do, everything written is in one place, once.
LEMMA FileRegion ==
    ASSUME NEW e, NEW m, NEW T, NEW a, NEW b, NEW c, NEW d, NEW p, Makes(e, m, T, a, b, c, d, p),
           NEW N, N = Len(e), NEW M, M = AllWrites(e, T, a, b, c, d)
    PROVE  Region(M, a + b + c + d, L_final_begin, EndC3(N)) /\ file \subseteq M /\ Cardinality(file) = num_writes
<1>1. /\ e \in Seq(Entry) /\ N \in Nat /\ a \in Nat /\ b \in Nat /\ c \in Nat /\ d \in Nat
      /\ a <= Opened(N, kEntriesPerPark) /\ b <= Closed(N, kEntriesPerPark) + 1 /\ c <= NumC(N) /\ d <= NumC1(N)
  BY CountsFit
<1>2. PICK k : k = a + b + c + d
  OBVIOUS
<1>3. Region(M, k, L_final_begin, EndC3(N))
  BY <1>1, <1>2, AllRegions
<1>4. Types /\ Accounted(M, k)
  BY <1>2 DEF Makes, Pipe
<1>5. /\ IsFiniteSet(file) /\ Cardinality(file) <= num_writes /\ num_writes \in Nat
      /\ file \cup InPipe = M /\ num_writes + NumPipe = k
  BY <1>4 DEF Accounted
<1>6. IsFiniteSet(InPipe) /\ Cardinality(InPipe) <= NumPipe /\ NumPipe \in Nat /\ Cardinality(InPipe) \in Nat
  BY <1>4, PipeSize
<1>7. Cardinality(file) \in Nat /\ Cardinality(file) <= Cardinality(file)
  BY <1>5, FS_CardinalityType
<1>8. Cardinality(file \cup InPipe) <= Cardinality(file) + NumPipe
  BY <1>5, <1>6, <1>7, Subadditive
<1>9. Cardinality(M) = k /\ k \in Nat
  BY <1>3 DEF Region
<1>10. Cardinality(file) = num_writes
  <2>1. PICK x, y, z : x = Cardinality(file) /\ y = num_writes /\ z = NumPipe
    OBVIOUS
  <2>2. k <= x + z
    <3>1. Cardinality(file \cup InPipe) = k
      BY <1>5, <1>9
    <3>2. QED
      BY <1>8, <2>1, <3>1
  <2>3. x \in Nat /\ y \in Nat /\ z \in Nat /\ x <= y /\ y + z = k
    BY <1>5, <1>6, <1>7, <2>1
  <2>4. x = y
    BY <2>2, <2>3
  <2>5. QED
    BY <2>1, <2>4
<1>11. QED
  BY <1>2, <1>3, <1>5, <1>10

\* Whatever the order in which the pools and the reading thread get to the writing thread, no byte of a
\* table is written twice, and none outside of them: the offsets computed from num_written_final fit.
THEOREM WritesDisjoint == Spec => []WritesAreDisjoint
<1>1. PlotInv => WritesAreDisjoint
  <2> SUFFICES ASSUME PlotInv PROVE WritesAreDisjoint
    OBVIOUS
  <2>1. PICK e, m, T, a, b, c, d, p : Makes(e, m, T, a, b, c, d, p)
    BY DEF PlotInv
  <2>2. PICK N, M : N = Len(e) /\ M = AllWrites(e, T, a, b, c, d)
    OBVIOUS
  <2>3. Region(M, a + b + c + d, L_final_begin, EndC3(N)) /\ file \subseteq M /\ Cardinality(file) = num_writes
    BY <2>1, <2>2, FileRegion
  <2>4. \A v, w \in file : v # w => v.offset + v.size <= w.offset \/ w.offset + w.size <= v.offset
    BY <2>3 DEF Region, Apart
  <2>5. \A w \in file : L_final_begin <= w.offset /\ w.offset + w.size <= EndC3(N)
    BY <2>3 DEF Region
  <2>6. stage \in {"phase4", "close4", "done"} => end_byte = EndC3(N)
    <3>1. stage \in {"phase4", "close4", "done"} => ~Phase3
      BY DEF Phase3
    <3>2. QED
      BY <2>1, <2>2, <3>1, Phase4Is
  <2>7. QED
    BY <2>3, <2>4, <2>5, <2>6 DEF WritesAreDisjoint
<1>2. QED
  BY <1>1, PlotInvariant, PTL

-----------------------------------------------------------------------------
(* What a reader finds *)

ReadsAs(offset, data) == Readable(offset) /\ At(offset) = data

\* A finished plot of the N entries e, in the order T of their keys
Finished(e, T, N) ==
    /\ e = Entries /\ e \in Seq(Entry) /\ N = Len(e) /\ N \in Nat
    /\ \A i, j \in 1 .. N : i < j => e[i] # e[j]
    /\ T \in Seq(KeyPos) /\ Len(T) = N /\ SortedKeys(T) /\ IsInjective(T) /\ ToSet(T) = Keyed(e, N)
    /\ pointers[6] = L_final_begin /\ pointers[7] = Begin7(N) /\ pointers[8] = BeginC(N)
    /\ pointers[9] = Slot(BeginC(N), NumC1(N) + 1, C1Size) /\ pointers[10] = BeginC3(N)
    /\ \A i \in 0 .. Opened(N, kEntriesPerPark) - 1 :
        ReadsAs(Slot(L_final_begin, i, ParkSize), ParkWrite(e, i).data)
    /\ \A i \in 0 .. Closed(N, kEntriesPerPark) : ReadsAs(Slot(Begin7(N), i, P7Size), ArrayOf(T, i, N))
    /\ \A i \in 0 .. NumC(N) - 1 : ReadsAs(Slot(BeginC(N), i, C1Size), EntryOfC(T, i, N))
    /\ \A i \in 0 .. Closed(N, kCheckpoint1Interval) :
        i < Closed(N, kCheckpoint1Interval) \/ DeltasOf(T, i, N) # <<>> =>
            ReadsAs(Slot(BeginC3(N), i, C3Size), Encoded(DeltasOf(T, i, N)))

\* In a region, an offset has one write.
LEMMA ReadBack ==
    ASSUME NEW k, NEW lo, NEW hi, Region(file, k, lo, hi), NEW w \in file
    PROVE  ReadsAs(w.offset, w.data)
<1>1. \A v \in file : v.offset = w.offset => v = w
  <2> SUFFICES ASSUME NEW v \in file, v.offset = w.offset, v # w PROVE FALSE
    OBVIOUS
  <2>1. Apart(v, w)
    BY DEF Region
  <2>2. PICK x, y, z : x = w.offset /\ y = v.size /\ z = w.size
    OBVIOUS
  <2>3. x \in Nat /\ y \in Nat \ {0} /\ z \in Nat \ {0}
    BY <2>2 DEF Region
  <2>4. x + y <= x \/ x + z <= x
    BY <2>1, <2>2 DEF Apart
  <2>5. QED
    BY <2>3, <2>4
<1>2. PICK o : o = w.offset
  OBVIOUS
<1>3. (CHOOSE v \in file : v.offset = o) = w
  BY <1>1, <1>2
<1>4. QED
  BY <1>2, <1>3 DEF ReadsAs, Readable, At

\* Nothing is under way any more.
LEMMA PipeEmpty == ASSUME Types, stage = "done" PROVE InPipe = {}
<1>1. sends = <<>> /\ \A q \in Stages : queue[q] = <<>>
  BY DEF Types
<1>2. InAll(Sent(sends)) = {}
  BY <1>1, SentEmpty
<1>3. InQueues(queue) = {}
  BY <1>1, QueuesEmpty
<1>4. QED
  BY <1>2, <1>3 DEF InPipe

\* When phase 4 is done, the file is a finished plot of all entries.
LEMMA FinishedFile == ASSUME PlotInv, stage = "done" PROVE \E e, T, N : Finished(e, T, N)
<1>1. PICK e, m, T, a, b, c, d, p : Makes(e, m, T, a, b, c, d, p)
  BY DEF PlotInv
<1>2. PICK N, M : N = Len(e) /\ M = AllWrites(e, T, a, b, c, d)
  OBVIOUS
<1>3. ~Phase3 /\ Closing
  BY DEF Phase3, Closing
<1>4. /\ e \in Seq(Entry) /\ N \in Nat /\ e = Entries /\ a = Opened(N, kEntriesPerPark)
      /\ pointers[7] = Begin7(N) /\ pointers[6] = L_final_begin
  BY <1>1, <1>2, <1>3, Phase4Is
<1>5. T \in Seq(KeyPos) /\ SortedKeys(T) /\ IsInjective(T) /\ ToSet(T) = Keyed(e, N) /\ Len(T) = N
  BY <1>1, <1>2, <1>3, AllRead
<1>6. /\ Cut(e, m, a, p) /\ Carried(T, N, b, c) /\ Counts(T, N, b, c, d) /\ Pointers(N) /\ Types
      /\ Accounted(M, a + b + c + d)
  BY <1>1, <1>2 DEF Makes, Progress, Pipe
<1>7. Region(M, a + b + c + d, L_final_begin, EndC3(N))
  BY <1>1, <1>2, FileRegion
<1>8. file = M
  <2>1. InPipe = {}
    BY <1>6, PipeEmpty
  <2>2. QED
    BY <1>6, <2>1 DEF Accounted
<1>9. /\ b = Closed(N, kEntriesPerPark) + 1 /\ c = NumC(N)
      /\ d = Closed(N, kCheckpoint1Interval) + (IF park_deltas # <<>> THEN 1 ELSE 0)
      /\ park_deltas = DeltasOf(T, Closed(N, kCheckpoint1Interval), N)
  BY <1>3, <1>5, <1>6 DEF Counts, Carried
<1>10. /\ Closed(N, kEntriesPerPark) \in Nat /\ Closed(N, kCheckpoint1Interval) \in Nat
  BY <1>4, SecondSizes
<1>11. pointers[8] = BeginC(N) /\ pointers[9] = Slot(BeginC(N), NumC1(N) + 1, C1Size) /\ pointers[10] = BeginC3(N)
  BY <1>6 DEF Pointers
<1>12. \A i, j \in 1 .. N : i < j => e[i] # e[j]
  <2>1. input \in Inputs
    BY <1>6 DEF Types
  <2>2. \A i, j \in 1 .. Len(e) : i < j => e[i] # e[j]
    BY <1>4, <2>1, EntriesAre
  <2>3. QED
    BY <1>2, <2>2
<1>13. \A w \in M : ReadsAs(w.offset, w.data)
  BY <1>7, <1>8, ReadBack
<1>14. ASSUME NEW i \in 0 .. Opened(N, kEntriesPerPark) - 1
       PROVE  ReadsAs(Slot(L_final_begin, i, ParkSize), ParkWrite(e, i).data)
  <2>1. PICK w : w = ParkWrite(e, i)
    OBVIOUS
  <2>2. w \in M
    BY <1>2, <1>4, <2>1 DEF AllWrites, ParkWrites
  <2>3. w.offset = Slot(L_final_begin, i, ParkSize)
    BY <2>1 DEF ParkWrite, PackedPark, ParkOf, Write, Slot
  <2>4. QED
    BY <1>13, <2>1, <2>2, <2>3
<1>15. ASSUME NEW i \in 0 .. Closed(N, kEntriesPerPark)
       PROVE  ReadsAs(Slot(Begin7(N), i, P7Size), ArrayOf(T, i, N))
  <2>1. PICK w : w = P7Write(T, i, N)
    OBVIOUS
  <2>2. w \in M
    <3>1. i \in 0 .. b - 1
      BY <1>9, <1>10
    <3>2. QED
      BY <1>2, <2>1, <3>1 DEF AllWrites, P7Writes
  <2>3. w.offset = Slot(Begin7(N), i, P7Size) /\ w.data = ArrayOf(T, i, N)
    BY <2>1 DEF P7Write, Write
  <2>4. QED
    BY <1>13, <2>2, <2>3
<1>16. ASSUME NEW i \in 0 .. NumC(N) - 1
       PROVE  ReadsAs(Slot(BeginC(N), i, C1Size), EntryOfC(T, i, N))
  <2>1. PICK w : w = CWrite(T, i, N)
    OBVIOUS
  <2>2. w \in M
    BY <1>2, <1>9, <2>1 DEF AllWrites, CWrites
  <2>3. w.offset = Slot(BeginC(N), i, C1Size) /\ w.data = EntryOfC(T, i, N)
    BY <2>1 DEF CWrite, Write
  <2>4. QED
    BY <1>13, <2>2, <2>3
<1>17. ASSUME NEW i \in 0 .. Closed(N, kCheckpoint1Interval),
              i < Closed(N, kCheckpoint1Interval) \/ DeltasOf(T, i, N) # <<>>
       PROVE  ReadsAs(Slot(BeginC3(N), i, C3Size), Encoded(DeltasOf(T, i, N)))
  <2>1. PICK w : w = C3Write(T, i, N)
    OBVIOUS
  <2>2. w \in M
    <3>1. PICK z : z = Closed(N, kCheckpoint1Interval)
      OBVIOUS
    <3>2. z \in Nat /\ i \in 0 .. z /\ (i < z \/ (i = z /\ park_deltas # <<>>)) /\ d = z + (IF park_deltas # <<>> THEN 1 ELSE 0)
      BY <1>9, <1>10, <1>17, <3>1
    <3>3. i \in 0 .. d - 1
      BY <3>2
    <3>4. QED
      BY <1>2, <2>1, <3>3 DEF AllWrites, C3Writes
  <2>3. w.offset = Slot(BeginC3(N), i, C3Size) /\ w.data = Encoded(DeltasOf(T, i, N))
    BY <2>1 DEF C3Write, Write
  <2>4. QED
    BY <1>13, <2>2, <2>3
<1>18. Finished(e, T, N)
  BY <1>2, <1>4, <1>5, <1>11, <1>12, <1>14, <1>15, <1>16, <1>17 DEF Finished
<1>19. QED
  BY <1>18

\* An offset in the part of a table that begins behind j of its slots
LEMMA SlotsBehind ==
    ASSUME NEW g \in Nat, NEW i \in Nat, NEW j \in Nat, NEW size \in Nat \ {0}
    PROVE  /\ Slot(g, j, size) + i * size = Slot(g, j + i, size)
           /\ (Slot(g, j + i, size) - Slot(g, j, size)) \div size = i
<1>1. Slot(g, j + i, size) = Slot(g, j, size) + Slot(0, i, size) /\ Slot(g, j, size) \in Nat
  BY SlotOrder, Slots
<1>2. Slot(0, i, size) = i * size /\ i * size \in Nat
  BY Slots DEF Slot
<1>3. Slot(0, i, size) \div size = i
  <2>1. 0 \in 0 .. size - 1
    OBVIOUS
  <2>2. QED
    BY <2>1, DivUnique
<1>4. PICK x, y, z : x = Slot(g, j + i, size) /\ y = Slot(g, j, size) /\ z = Slot(0, i, size)
  OBVIOUS
<1>5. x - y = z
  BY <1>1, <1>2, <1>4
<1>6. QED
  BY <1>1, <1>2, <1>3, <1>4, <1>5

\* The tables C1 and C2 of a finished plot are full between the pointers that phase 4 has written, end with
\* a zero, and C2 has every kCheckpoint2Interval-th entry of C1.
THEOREM CheckpointsAreComplete == Spec => []CheckpointsComplete
<1>1. PlotInv => CheckpointsComplete
  <2> SUFFICES ASSUME PlotInv, stage = "done" PROVE CheckpointsComplete
    BY DEF CheckpointsComplete
  <2>1. PICK e, T, N : Finished(e, T, N)
    BY FinishedFile
  <2>2. PICK g, n1, n2, x : g = BeginC(N) /\ n1 = NumC1(N) /\ n2 = NumC2(N) /\ x = NumC(N)
    OBVIOUS
  <2>3. N \in Nat /\ g \in Nat /\ n1 \in Nat /\ n2 \in Nat /\ x = n1 + n2 + 2
    BY <2>1, <2>2, SecondSizes DEF Finished, NumC
  <2>4. pointers[8] = g /\ pointers[9] = Slot(g, n1 + 1, C1Size) /\ pointers[10] = Slot(g, x, C1Size)
    BY <2>1, <2>2 DEF Finished, BeginC3
  <2> DEFINE E(i) == EntryOfC(T, i, N)
  <2>5. \A i \in 0 .. x - 1 : ReadsAs(Slot(g, i, C1Size), E(i))
    BY <2>1, <2>2 DEF Finished
  <2>6. E(n1) = 0 /\ E(n1 + (n2 + 1)) = 0
    <3>1. n1 + (n2 + 1) = x - 1 /\ ~(n1 < n1) /\ ~(x - 1 < n1) /\ ~(x - 1 < x - 1)
      BY <2>3
    <3>2. QED
      BY <2>2, <3>1 DEF EntryOfC
  <2>7. n2 = cdiv(n1, kCheckpoint2Interval)
    BY <2>2, <2>3, Bounds, CountsGroups DEF NumC2
  <2>8. ASSUME NEW j \in 0 .. n2 - 1
        PROVE  /\ j * kCheckpoint2Interval \in 0 .. n1 - 1
               /\ E(n1 + (j + 1)) = E(j * kCheckpoint2Interval)
    <3>1. j + 1 \in 1 .. NumC2(N) /\ (j + 1) - 1 = j
      BY <2>2, <2>3
    <3>2. PICK i : i = j + 1
      OBVIOUS
    <3>3. i \in 1 .. NumC2(N) /\ i - 1 = j /\ N \in 0 .. Len(T) /\ T \in Seq(KeyPos)
      BY <2>1, <2>3, <3>1, <3>2 DEF Finished
    <3>4. Slot(0, j, kCheckpoint2Interval) \in 0 .. n1 - 1
      BY <2>2, <2>3, <3>3, C2Place
    <3>5. C2Of(T, NumC2(N))[i] = Checkpoint(T, Slot(0, j, kCheckpoint2Interval))
      BY <3>3, C2Type
    <3>6. Slot(0, j, kCheckpoint2Interval) = j * kCheckpoint2Interval
      BY Bounds DEF Slot
    <3>7. PICK y : y = n1 + i
      OBVIOUS
    <3>8. ~(y < n1) /\ n1 < y /\ y < x - 1 /\ y - n1 = i
      <4>1. i \in Nat /\ i >= 1 /\ i <= n2
        BY <2>3, <3>2
      <4>2. QED
        BY ONLY <2>3, <3>7, <4>1
    <3>9. E(y) = Checkpoint(T, Slot(0, j, kCheckpoint2Interval))
      BY <2>2, <3>5, <3>8 DEF EntryOfC
    <3>10. PICK z : z = j * kCheckpoint2Interval
      OBVIOUS
    <3>11. z \in 0 .. n1 - 1 /\ z < n1
      BY <2>3, <3>4, <3>6, <3>10
    <3>12. E(z) = Checkpoint(T, z)
      BY <2>2, <3>11 DEF EntryOfC
    <3>13. QED
      BY <3>2, <3>6, <3>7, <3>9, <3>10, <3>11, <3>12
  <2> HIDE DEF E
  <2> DEFINE entries(from, to) == (to - from) \div C1Size
             m == entries(pointers[8], pointers[9]) - 1
             l == entries(pointers[9], pointers[10]) - 1
  <2>9. m = n1
    <3>1. Slot(g, 0, C1Size) = g /\ 0 + (n1 + 1) = n1 + 1 /\ n1 + 1 \in Nat /\ 0 \in Nat /\ C1Size \in Nat \ {0}
      BY <2>3, Bounds, Slots
    <3>2. PICK i : i = n1 + 1
      OBVIOUS
    <3>3. (Slot(g, 0 + i, C1Size) - Slot(g, 0, C1Size)) \div C1Size = i
      BY <2>3, <3>1, <3>2, SlotsBehind
    <3>4. entries(pointers[8], pointers[9]) = i
      BY <2>4, <3>1, <3>2, <3>3
    <3>5. QED
      BY <2>3, <3>2, <3>4
  <2>10. l = n2
    <3>1. PICK i, j : i = n2 + 1 /\ j = n1 + 1
      OBVIOUS
    <3>2. i \in Nat /\ j \in Nat /\ j + i = x
      BY <2>3, <3>1
    <3>3. (Slot(g, j + i, C1Size) - Slot(g, j, C1Size)) \div C1Size = i
      BY <2>3, <3>2, Bounds, SlotsBehind
    <3>4. entries(pointers[9], pointers[10]) = i
      BY <2>4, <3>1, <3>2, <3>3
    <3>5. QED
      BY <2>3, <3>1, <3>4
  <2>11. ASSUME NEW i \in 0 .. n1 PROVE ReadsAs(pointers[8] + i * C1Size, E(i))
    <3>1. i \in 0 .. x - 1 /\ i \in Nat
      BY <2>3
    <3>2. Slot(g, i, C1Size) = g + i * C1Size
      BY DEF Slot
    <3>3. QED
      BY <2>4, <2>5, <3>1, <3>2
  <2>12. ASSUME NEW j \in 0 .. n2 PROVE ReadsAs(pointers[9] + j * C1Size, E(n1 + (j + 1)))
    <3>1. PICK h : h = n1 + 1
      OBVIOUS
    <3>2. h \in Nat /\ j \in Nat /\ h + j \in 0 .. x - 1 /\ h + j = n1 + (j + 1)
      BY <2>3, <3>1
    <3>3. Slot(g, h, C1Size) + j * C1Size = Slot(g, h + j, C1Size)
      <4>1. g \in Nat /\ h \in Nat /\ j \in Nat /\ C1Size \in Nat \ {0}
        BY <2>3, <3>2, Bounds
      <4>2. QED
        BY ONLY <4>1, SlotsBehind
    <3>4. QED
      BY <2>4, <2>5, <3>1, <3>2, <3>3
  <2> HIDE DEF m, l, entries
  <2>13. \A i \in 0 .. m : Readable(pointers[8] + i * C1Size)
    BY <2>9, <2>11 DEF ReadsAs
  <2>14. \A i \in 0 .. l : Readable(pointers[9] + i * C1Size)
    BY <2>10, <2>12 DEF ReadsAs
  <2>15. At(pointers[8] + m * C1Size) = 0 /\ At(pointers[9] + l * C1Size) = 0
    <3>1. n1 \in 0 .. n1 /\ n2 \in 0 .. n2
      BY <2>3
    <3>2. QED
      BY <2>6, <2>9, <2>10, <2>11, <2>12, <3>1 DEF ReadsAs
  <2>16. l = cdiv(m, kCheckpoint2Interval)
    BY <2>7, <2>9, <2>10
  <2>17. ASSUME NEW i \in 0 .. l - 1
         PROVE  At(pointers[9] + i * C1Size) = At(pointers[8] + i * kCheckpoint2Interval * C1Size)
    <3>1. i \in 0 .. n2 - 1 /\ i \in 0 .. n2
      BY <2>3, <2>10
    <3>2. PICK z : z = i * kCheckpoint2Interval
      OBVIOUS
    <3>3. z \in 0 .. n1 /\ E(n1 + (i + 1)) = E(z)
      BY <2>3, <2>8, <3>1, <3>2
    <3>4. At(pointers[9] + i * C1Size) = E(n1 + (i + 1))
      BY <2>12, <3>1 DEF ReadsAs
    <3>5. At(pointers[8] + z * C1Size) = E(z)
      BY <2>11, <3>3 DEF ReadsAs
    <3>6. QED
      BY <3>2, <3>3, <3>4, <3>5
  <2>18. QED
    BY <2>13, <2>14, <2>15, <2>16, <2>17 DEF CheckpointsComplete, m, l, entries
<1>2. QED
  BY <1>1, PlotInvariant, PTL

-----------------------------------------------------------------------------
(* From an f7 to its line point *)

\* The place of entry n in its group
LEMMA EntryPlace ==
    ASSUME NEW N \in Nat, NEW n \in 0 .. N - 1, NEW size \in Nat \ {0}
    PROVE  /\ n \div size \in 0 .. Closed(N, size) /\ n \div size \in 0 .. Opened(N, size) - 1
           /\ n % size \in 0 .. size - 1
           /\ (n % size) + 1 \in 1 .. InGroup(n \div size, N, size)
           /\ Slot(0, n \div size, size) + ((n % size) + 1) = n + 1
           /\ InGroup(n \div size, N, size) \in Nat
<1> DEFINE i == n \div size
           r == n % size
           c == Closed(N, size)
           g == Slot(0, i, size)
           l == InGroup(i, N, size)
<1>1. n \in Nat /\ n + 1 \in Nat /\ n + 1 <= N /\ N > 0
  OBVIOUS
<1>2. i \in Nat /\ r \in 0 .. size - 1 /\ n = Slot(r, i, size)
  BY <1>1, DivMod
<1>3. i = Closed(n + 1, size) /\ c \in Nat /\ Opened(N, size) = c + 1
  BY <1>1, Groups, GroupStep
<1>4. i <= c
  BY <1>1, <1>3, GroupsMonotone
<1> HIDE DEF i, r, c, l
<1>5. n = r + g /\ g \in Nat
  <2>1. r \in Nat
    BY <1>2
  <2>2. Slot(r, i, size) = r + Slot(0, i, size) /\ Slot(0, i, size) \in Nat
    BY <1>2, <2>1, Slots
  <2>3. QED
    BY <1>2, <2>2
<1> HIDE DEF g
<1>6. i < c => l = size
  <2> SUFFICES ASSUME i < c PROVE l = size
    OBVIOUS
  <2>1. i \in 0 .. c - 1
    BY <1>2, <1>3
  <2>2. \A j \in 0 .. Closed(N, size) - 1 : InGroup(j, N, size) = size
    BY FullGroup
  <2>3. QED
    BY <2>1, <2>2 DEF c, l
<1>7. i = c => l = N - g
  <2> SUFFICES ASSUME i = c PROVE l = N - g
    OBVIOUS
  <2>1. InGroup(Closed(N, size), N, size) = N - Slot(0, Closed(N, size), size)
    BY Groups
  <2>2. QED
    BY <2>1 DEF c, l, g
<1>8. r + 1 \in 1 .. l /\ l \in Nat
  <2>1. i < c \/ i = c
    BY <1>2, <1>3, <1>4
  <2>2. QED
    BY <1>1, <1>2, <1>5, <1>6, <1>7, <2>1
<1>9. i \in 0 .. c /\ i \in 0 .. Opened(N, size) - 1 /\ g + (r + 1) = n + 1
  BY <1>2, <1>3, <1>4, <1>5
<1>10. QED
  BY <1>2, <1>8, <1>9 DEF i, r, c, g, l

\* The sum of differences is a difference.
LEMMA Telescope ==
    ASSUME NEW n \in Nat, NEW v, NEW s, \A j \in 1 .. n + 1 : v[j] \in Int, \A j \in 1 .. n : s[j] = v[j + 1] - v[j]
    PROVE  SumTo(s, n) = v[n + 1] - v[1]
<1> DEFINE f == [j \in 0 .. n |-> v[j + 1] - v[1]]
<1>1. \A j \in 0 .. n : j + 1 \in 1 .. n + 1 /\ 1 \in 1 .. n + 1
  OBVIOUS
<1>2. \A j \in 0 .. n : v[j + 1] \in Int /\ v[1] \in Int /\ v[j + 1] - v[1] \in Int
  BY <1>1
<1>3. f \in [0 .. n -> Int] /\ \A j \in 0 .. n : f[j] = v[j + 1] - v[1]
  BY <1>2
<1> HIDE DEF f
<1>4. f[0] = 0
  <2>1. 0 \in 0 .. n /\ 0 + 1 = 1
    OBVIOUS
  <2>2. f[0] = v[1] - v[1] /\ v[1] \in Int
    BY <1>2, <1>3, <2>1
  <2>3. QED
    BY <2>2
<1>5. ASSUME NEW j \in 1 .. n PROVE f[j] = f[j - 1] + s[j]
  <2>1. j \in 0 .. n /\ j - 1 \in 0 .. n /\ (j - 1) + 1 = j
    OBVIOUS
  <2>2. f[j] = v[j + 1] - v[1] /\ f[j - 1] = v[j] - v[1] /\ v[j + 1] \in Int /\ v[1] \in Int /\ v[j] \in Int
    BY <1>2, <1>3, <2>1
  <2>3. s[j] = v[j + 1] - v[j]
    OBVIOUS
  <2>4. PICK x, y, z : x = v[j + 1] /\ y = v[j] /\ z = v[1]
    OBVIOUS
  <2>5. QED
    BY <2>2, <2>3, <2>4
<1>6. SumTo(s, n) = f[n]
  BY <1>3, <1>4, <1>5, SumIs
<1>7. n \in 0 .. n
  OBVIOUS
<1>8. QED
  BY <1>3, <1>6, <1>7

\* What a reader finds in P7 is the position that phase 4 has read.
LEMMA PositionIs ==
    ASSUME NEW e, NEW T, NEW N, Finished(e, T, N), NEW n \in 0 .. N - 1
    PROVE  Position(n) = T[n + 1].pos
<1> DEFINE i == n \div kEntriesPerPark
           r == n % kEntriesPerPark
           l == InGroup(i, N, kEntriesPerPark)
           g == Slot(0, i, kEntriesPerPark)
<1>1. N \in Nat /\ T \in Seq(KeyPos) /\ Len(T) = N /\ pointers[7] = Begin7(N)
  BY DEF Finished
<1>2. /\ i \in 0 .. Closed(N, kEntriesPerPark) /\ r + 1 \in 1 .. l /\ g + (r + 1) = n + 1
  BY <1>1, Bounds, EntryPlace
<1>3. ReadsAs(Slot(Begin7(N), i, P7Size), ArrayOf(T, i, N))
  BY <1>2 DEF Finished
<1>4. ArrayOf(T, i, N)[r + 1] = T[g + (r + 1)].pos
  <2>1. N \in 0 .. Len(T)
    BY <1>1
  <2>2. \A j \in 1 .. InGroup(i, N, kEntriesPerPark) : ArrayOf(T, i, N)[j] = T[Slot(0, i, kEntriesPerPark) + j].pos
    <3> HIDE DEF i, r, l, g
    <3>1. QED
      BY <1>1, <1>2, <2>1, ArrayType
  <2>3. QED
    BY <1>2, <2>2
<1>5. At(pointers[7] + i * P7Size) = ArrayOf(T, i, N)
  BY <1>1, <1>3 DEF ReadsAs, Slot
<1>6. Position(n) = At(pointers[7] + i * P7Size)[r + 1]
  BY DEF Position
<1> HIDE DEF i, r, l, g
<1>7. QED
  BY <1>2, <1>4, <1>5, <1>6

\* What a reader finds in table 6 is the line point at this position.
LEMMA LinePointIs ==
    ASSUME NEW e, NEW T, NEW N, Finished(e, T, N), NEW n \in 0 .. N - 1
    PROVE  LinePoint(n) = e[n + 1].point
<1> DEFINE i == n \div kEntriesPerPark
           r == n % kEntriesPerPark
           l == InGroup(i, N, kEntriesPerPark)
           g == Slot(0, i, kEntriesPerPark)
           s == ParkOf(e, i, N).points
<1>1. N \in Nat /\ e \in Seq(Entry) /\ N = Len(e) /\ pointers[6] = L_final_begin
  BY DEF Finished
<1>2. /\ i \in 0 .. Closed(N, kEntriesPerPark) /\ i \in 0 .. Opened(N, kEntriesPerPark) - 1
      /\ r + 1 \in 1 .. l /\ g + (r + 1) = n + 1 /\ l \in Nat /\ r \in 0 .. kEntriesPerPark - 1
  BY <1>1, Bounds, EntryPlace
<1>3. ReadsAs(Slot(L_final_begin, i, ParkSize), ParkWrite(e, i).data)
  BY <1>2 DEF Finished
<1>4. ParkWrite(e, i).data = [first |-> s[1], deltas |-> Deltas(s)]
  BY <1>1, SameDeltas DEF ParkWrite, PackedPark, Write
<1>5. s \in Seq(Nat) \ {<<>>} /\ Len(s) = l
  <2>1. N \in 1 .. Len(e)
    BY <1>1
  <2>2. ParkOf(e, i, N) \in Park /\ Len(ParkOf(e, i, N).points) = InGroup(i, N, kEntriesPerPark)
    <3> HIDE DEF i
    <3>1. QED
      BY <1>1, <1>2, <2>1, ParkType
  <2>3. QED
    BY <2>2 DEF Park
<1>6. s[r + 1] = e[g + (r + 1)].point
  <2>1. s = [j \in 1 .. l |-> e[g + j].point]
    BY DEF ParkOf
  <2> HIDE DEF s, l, g, r
  <2>2. QED
    BY <1>2, <2>1
<1>7. LinePoint(n) = At(pointers[6] + i * ParkSize).first + SumTo(At(pointers[6] + i * ParkSize).deltas, r)
  BY DEF LinePoint
<1>8. At(pointers[6] + i * ParkSize) = [first |-> s[1], deltas |-> Deltas(s)]
  BY <1>1, <1>3, <1>4 DEF ReadsAs, Slot
<1> HIDE DEF i, l, g, s
<1>9. r \in Nat /\ r + 1 <= l /\ \A j \in 1 .. r + 1 : s[j] \in Int
  <2>1. r \in Nat /\ r + 1 <= l
    <3> HIDE DEF r
    <3>1. QED
      BY <1>2
  <2> HIDE DEF r
  <2>2. QED
    BY <1>5, <2>1
<1> HIDE DEF r
<1>10. \A j \in 1 .. r : Deltas(s)[j] = s[j + 1] - s[j]
  <2>1. \A j \in 1 .. Len(s) - 1 : Deltas(s)[j] = s[j + 1] - s[j]
    BY <1>5, DeltasType
  <2>2. \A j \in 1 .. r : j \in 1 .. Len(s) - 1
    BY <1>2, <1>5, <1>9
  <2>3. QED
    BY <2>1, <2>2
<1>11. SumTo(Deltas(s), r) = s[r + 1] - s[1]
  BY <1>9, <1>10, Telescope
<1>12. s[1] + (s[r + 1] - s[1]) = s[r + 1]
  <2>1. 1 \in 1 .. r + 1 /\ r + 1 \in 1 .. r + 1
    BY <1>9
  <2>2. PICK x, y : x = s[1] /\ y = s[r + 1]
    OBVIOUS
  <2>3. x \in Int /\ y \in Int
    BY <1>9, <2>1, <2>2
  <2>4. x + (y - x) = y
    BY <2>3
  <2>5. QED
    BY <2>2, <2>4
<1>13. QED
  BY <1>2, <1>6, <1>7, <1>8, <1>11, <1>12

\* The entries of an interval are as many as InGroup() says.
LEMMA IntervalIs ==
    ASSUME NEW N \in Nat, N = Len(Entries), NEW c \in 0 .. Closed(N, kCheckpoint1Interval), N > 0
    PROVE  Cardinality(Interval(c)) = InGroup(c, N, kCheckpoint1Interval)
<1> DEFINE P == kCheckpoint1Interval
           l == InGroup(c, N, P)
           g == Slot(0, c, P)
<1>1. P \in Nat \ {0} /\ c \in Nat /\ g \in Nat /\ l \in 0 .. P /\ g + l <= N /\ l > 0
  BY Bounds, GroupPlace
<1>2. Interval(c) = {a \in 0 .. N - 1 : a \div P = c}
  BY DEF Interval
<1>3. ASSUME NEW a \in 0 .. N - 1, a \div P = c PROVE a \in g .. (g + l) - 1
  <2>1. (a % P) + 1 \in 1 .. InGroup(a \div P, N, P) /\ Slot(0, a \div P, P) + ((a % P) + 1) = a + 1
    BY <1>1, EntryPlace
  <2>2. PICK r : r = a % P
    OBVIOUS
  <2>3. r + 1 \in 1 .. l /\ g + (r + 1) = a + 1 /\ r \in Nat
    <3>1. r \in Nat
      BY <1>1, <2>2
    <3>2. QED
      BY <1>3, <2>1, <2>2, <3>1
  <2> HIDE DEF g, l
  <2>4. QED
    BY <1>1, <2>3
<1>4. ASSUME NEW a \in g .. (g + l) - 1 PROVE a \in 0 .. N - 1 /\ a \div P = c
  <2> HIDE DEF l, g
  <2>1. PICK r : r = a - g
    OBVIOUS
  <2>2. r \in 0 .. P - 1 /\ r \in Nat /\ a = r + g /\ a \in 0 .. N - 1
    BY <1>1, <2>1
  <2>3. Slot(r, c, P) = r + Slot(0, c, P)
    BY <1>1, <2>2, Slots
  <2>4. Slot(r, c, P) \div P = c
    BY <1>1, <2>2, DivUnique
  <2>5. QED
    BY <2>2, <2>3, <2>4 DEF g
<1> HIDE DEF l, g
<1>5. Interval(c) = g .. (g + l) - 1
  <2>1. \A a \in g .. (g + l) - 1 : a \in Interval(c)
    BY <1>2, <1>4
  <2>2. QED
    BY <1>2, <1>3, <2>1
<1>6. Cardinality(g .. (g + l) - 1) = l
  <2>1. g \in Int /\ (g + l) - 1 \in Int /\ ~(g > (g + l) - 1) /\ ((g + l) - 1) - g + 1 = l
    BY <1>1
  <2>2. QED
    BY <2>1, FS_Interval
<1>7. QED
  BY <1>5, <1>6 DEF l

\* What a reader finds of an interval
LEMMA CheckpointIs ==
    ASSUME NEW e, NEW T, NEW N, Finished(e, T, N), NEW c \in 0 .. Opened(N, kCheckpoint1Interval) - 1
    PROVE  /\ Readable(pointers[8] + c * C1Size)
           /\ At(pointers[8] + c * C1Size) = T[Slot(0, c, kCheckpoint1Interval) + 1].key
           /\ c \in 0 .. Closed(N, kCheckpoint1Interval) /\ N > 0
<1>1. N \in Nat /\ pointers[8] = BeginC(N)
  BY DEF Finished
<1>2. PICK n1, n2, x : n1 = NumC1(N) /\ n2 = NumC2(N) /\ x = NumC(N)
  OBVIOUS
<1>3. n1 \in Nat /\ n2 \in Nat /\ x = n1 + n2 + 2 /\ n1 = Opened(N, kCheckpoint1Interval)
  BY <1>1, <1>2, SecondSizes DEF NumC, NumC1
<1>4. c \in 0 .. n1 - 1
  BY <1>3
<1>5. c \in Nat /\ c < n1 /\ c \in 0 .. x - 1
  BY <1>3, <1>4
<1>6. ReadsAs(Slot(BeginC(N), c, C1Size), EntryOfC(T, c, N))
  BY <1>2, <1>5 DEF Finished
<1>7. EntryOfC(T, c, N) = T[Slot(0, c, kCheckpoint1Interval) + 1].key
  BY <1>2, <1>5 DEF EntryOfC, Checkpoint
<1>8. c \in 0 .. Closed(N, kCheckpoint1Interval)
  <2>1. c \in 0 .. NumC1(N) - 1
    BY <1>2, <1>4
  <2>2. QED
    BY <1>1, <2>1, CheckpointPlace
<1>9. N > 0
  <2>1. N = 0 => n1 = 0
    BY <1>1, <1>3, Bounds, Groups
  <2>2. QED
    BY <1>1, <1>5, <2>1
<1>10. QED
  BY <1>1, <1>6, <1>7, <1>8, <1>9 DEF ReadsAs, Slot

\* An interval of more than one entry has a park of deltas; of more than three, one that can be read.
LEMMA DeltaParkIs ==
    ASSUME NEW e, NEW T, NEW N, Finished(e, T, N), NEW c \in 0 .. Closed(N, kCheckpoint1Interval), N > 0
    PROVE  /\ InGroup(c, N, kCheckpoint1Interval) > 1 => Readable(pointers[10] + c * C3Size)
           /\ InGroup(c, N, kCheckpoint1Interval) > 3 => At(pointers[10] + c * C3Size) = DeltasOf(T, c, N)
<1> DEFINE l == InGroup(c, N, kCheckpoint1Interval)
           s == DeltasOf(T, c, N)
<1>1. N \in Nat /\ N \in 0 .. Len(T) /\ T \in Seq(KeyPos) /\ SortedKeys(T) /\ pointers[10] = BeginC3(N)
  BY DEF Finished
<1>2. s \in Seq(Nat) /\ Len(s) = l - 1
  BY <1>1, DeltasOfType
<1>3. l \in Nat
  BY <1>1, Bounds, GroupPlace
<1>4. l > 1 => ReadsAs(Slot(BeginC3(N), c, C3Size), Encoded(s))
  <2> SUFFICES ASSUME l > 1 PROVE ReadsAs(Slot(BeginC3(N), c, C3Size), Encoded(s))
    OBVIOUS
  <2>1. s # <<>>
    <3> HIDE DEF s, l
    <3>1. Len(s) > 0
      BY <1>2, <1>3
    <3>2. QED
      BY <3>1
  <2>2. QED
    BY <2>1 DEF Finished
<1> HIDE DEF s, l
<1>5. l > 3 => l > 1 /\ Encoded(s) = s
  BY <1>2, <1>3 DEF Encoded, Compressible
<1>6. Slot(BeginC3(N), c, C3Size) = pointers[10] + c * C3Size
  BY <1>1 DEF Slot
<1>7. QED
  BY <1>4, <1>5, <1>6 DEF ReadsAs, s, l

\* What a reader computes from a checkpoint and the deltas behind it is the key that phase 4 has read.
LEMMA ValueIs ==
    ASSUME NEW e, NEW T, NEW N, Finished(e, T, N), NEW n \in Kept
    PROVE  Value(n) = T[n + 1].key /\ n \in 0 .. N - 1
<1> DEFINE P == kCheckpoint1Interval
           c == n \div P
           r == n % P
           l == InGroup(c, N, P)
           g == Slot(0, c, P)
<1>1. /\ N \in Nat /\ T \in Seq(KeyPos) /\ Len(T) = N /\ SortedKeys(T) /\ N = Len(Entries) /\ P \in Nat \ {0}
      /\ n \in 0 .. N - 1 /\ ~Dropped(n)
  BY Bounds DEF Finished, Kept
<1>2. /\ c \in 0 .. Closed(N, P) /\ c \in 0 .. Opened(N, P) - 1
      /\ r + 1 \in 1 .. l /\ g + (r + 1) = n + 1 /\ l \in Nat /\ r \in 0 .. P - 1
  BY <1>1, EntryPlace
<1>3. Value(n) = At(pointers[8] + c * C1Size) + IF r = 0 THEN 0 ELSE SumTo(At(pointers[10] + c * C3Size), r)
  BY DEF Value
<1>4. r # 0 => l > 3
  <2> SUFFICES ASSUME r # 0 PROVE l > 3
    OBVIOUS
  <2>1. ~(Cardinality(Interval(c)) <= 3)
    BY <1>1 DEF Dropped
  <2>2. Cardinality(Interval(c)) = l
    <3> HIDE DEF c, r, l, g
    <3>1. N > 0
      BY <1>1
    <3>2. Cardinality(Interval(c)) = InGroup(c, N, P)
      BY <1>1, <1>2, <3>1, IntervalIs
    <3>3. QED
      BY <3>2 DEF l
  <2> HIDE DEF c, r, l, g
  <2>3. QED
    BY <1>2, <2>1, <2>2
<1> HIDE DEF c, r
<1>5. At(pointers[8] + c * C1Size) = T[g + 1].key
  BY <1>2, CheckpointIs
<1>6. r # 0 => At(pointers[10] + c * C3Size) = DeltasOf(T, c, N)
  <2>1. N > 0
    BY <1>1
  <2>2. QED
    BY <1>2, <1>4, <2>1, DeltaParkIs
<1> DEFINE v(j) == T[g + j].key
           V == [j \in 1 .. l |-> v(j)]
           s == DeltasOf(T, c, N)
<1>7. r \in Nat /\ r + 1 <= l /\ g \in Nat /\ g + l <= N
  <2>1. g \in Nat /\ g + l <= N
    BY <1>1, <1>2, GroupPlace
  <2> HIDE DEF l, g
  <2>2. QED
    BY <1>2, <2>1
<1>8. \A j \in 1 .. l - 1 : s[j] = T[g + (j + 1)].key - T[g + j].key
  BY DEF DeltasOf
<1> HIDE DEF l, g, s
<1>9. \A j \in 1 .. r + 1 : V[j] = v(j) /\ v(j) \in 0 .. 255
  <2> SUFFICES ASSUME NEW j \in 1 .. r + 1 PROVE V[j] = v(j) /\ v(j) \in 0 .. 255
    OBVIOUS
  <2>1. j \in 1 .. l /\ g + j \in 1 .. Len(T)
    BY <1>1, <1>2, <1>7
  <2>2. T[g + j] \in KeyPos
    BY <1>1, <2>1
  <2>3. v(j) \in 0 .. 255
    BY <2>2 DEF KeyPos
  <2> HIDE DEF v
  <2>4. QED
    BY <2>1, <2>3
<1>10. \A j \in 1 .. r : s[j] = V[j + 1] - V[j]
  <2> SUFFICES ASSUME NEW j \in 1 .. r PROVE s[j] = V[j + 1] - V[j]
    OBVIOUS
  <2>1. j \in 1 .. l - 1 /\ j + 1 \in 1 .. r + 1 /\ j \in 1 .. r + 1
    BY <1>2, <1>7
  <2>2. V[j + 1] = v(j + 1) /\ V[j] = v(j)
    BY <1>9, <2>1
  <2> HIDE DEF V
  <2>3. QED
    BY <1>8, <2>1, <2>2
<1>11. 1 \in 1 .. r + 1 /\ r + 1 \in 1 .. r + 1
  BY <1>7
<1>12. V[1] = T[g + 1].key /\ V[r + 1] = T[n + 1].key /\ V[1] \in 0 .. 255 /\ V[r + 1] \in 0 .. 255
  <2>1. V[1] = v(1) /\ V[r + 1] = v(r + 1) /\ v(1) \in 0 .. 255 /\ v(r + 1) \in 0 .. 255
    BY ZenonT(60), <1>9, <1>11
  <2> HIDE DEF V
  <2>2. QED
    BY <1>2, <2>1
<1>13. \A j \in 1 .. r + 1 : V[j] \in Int
  <2>1. \A j \in 1 .. r + 1 : V[j] \in 0 .. 255
    <3>1. SUFFICES ASSUME NEW j \in 1 .. r + 1 PROVE V[j] \in 0 .. 255
      OBVIOUS
    <3>2. V[j] = v(j) /\ v(j) \in 0 .. 255
      BY <1>9
    <3> HIDE DEF V, v
    <3>3. QED
      BY <3>2
  <2> HIDE DEF V
  <2>2. QED
    BY SMTT(40), <2>1
<1> HIDE DEF V, v
<1>14. PICK x, y : x = V[1] /\ y = V[r + 1]
  OBVIOUS
<1>15. x \in Int /\ y \in Int /\ y = T[n + 1].key
  BY <1>12, <1>14
<1>16. CASE r = 0
  <2>1. Value(n) = x + 0 /\ r + 1 = 1
    BY <1>3, <1>5, <1>12, <1>14, <1>16
  <2>2. x = y
    BY <1>14, <2>1
  <2>3. Value(n) = y
    BY <1>15, <2>1, <2>2
  <2>4. QED
    BY <1>1, <1>15, <2>3
<1>17. CASE r # 0
  <2>1. SumTo(s, r) = y - x
    BY <1>7, <1>10, <1>13, <1>14, Telescope
  <2>2. Value(n) = x + (y - x)
    BY <1>3, <1>5, <1>6, <1>12, <1>14, <1>17, <2>1 DEF s
  <2>3. Value(n) = y
    BY <1>15, <2>2
  <2>4. QED
    BY <1>1, <1>15, <2>3
<1>18. QED
  BY <1>16, <1>17

-----------------------------------------------------------------------------
(* Every proof is found *)

\* An image of a finite set is as large as the set when no two elements have the same.
LEMMA ImageSize ==
    ASSUME NEW S, IsFiniteSet(S), NEW f, DOMAIN f = S, \A x, y \in S : f[x] = f[y] => x = y
    PROVE  Cardinality({f[x] : x \in S}) = Cardinality(S)
<1> DEFINE R == {f[x] : x \in S}
<1>1. \A x \in S : f[x] \in R
  OBVIOUS
<1>2. \A y \in R : \E x \in S : f[x] = y
  OBVIOUS
<1> HIDE DEF R
<1> DEFINE g == [x \in S |-> f[x]]
<1>3. g \in [S -> R] /\ DOMAIN g = S /\ \A x \in S : g[x] = f[x]
  BY <1>1
<1> HIDE DEF g
<1>4. g \in Injection(S, R) /\ g \in Surjection(S, R)
  BY <1>2, <1>3 DEF Injection, Surjection, IsInjective
<1>5. ExistsBijection(S, R)
  BY <1>4 DEF ExistsBijection, Bijection
<1>6. QED
  BY <1>5, FS_Bijection DEF R

\* What phase 4 has read as entry n
LEMMA ReadPlace ==
    ASSUME NEW e, NEW T, NEW N, Finished(e, T, N), NEW n \in 0 .. N - 1
    PROVE  /\ T[n + 1] \in KeyPos /\ T[n + 1].pos \in 0 .. N - 1 /\ T[n + 1].key \in 0 .. 255
           /\ T[n + 1].pos + 1 \in 1 .. N
           /\ e[T[n + 1].pos + 1].key = T[n + 1].key /\ e[T[n + 1].pos + 1] \in Entry
           /\ e[T[n + 1].pos + 1] \in ToSet(e)
<1>1. /\ N \in Nat /\ e \in Seq(Entry) /\ N = Len(e) /\ T \in Seq(KeyPos) /\ Len(T) = N /\ ToSet(T) = Keyed(e, N)
  BY DEF Finished
<1>2. PICK x : x = T[n + 1]
  OBVIOUS
<1>3. n + 1 \in 1 .. Len(T)
  BY <1>1
<1>4. x \in KeyPos /\ x \in ToSet(T)
  <2>1. DOMAIN T = 1 .. Len(T)
    BY <1>1
  <2>2. QED
    BY <1>1, <1>2, <1>3, <2>1 DEF ToSet
<1>5. x.pos \in 0 .. N - 1 /\ e[x.pos + 1].key = x.key
  <2>1. N \in 0 .. Len(e)
    BY <1>1
  <2>2. QED
    BY <1>1, <1>4, <2>1, KeyedIs
<1>6. PICK q : q = x.pos + 1
  OBVIOUS
<1>7. q \in 1 .. N
  BY <1>1, <1>5, <1>6
<1>8. e[q] \in Entry /\ e[q] \in ToSet(e)
  <2>1. DOMAIN e = 1 .. N
    BY <1>1
  <2>2. QED
    BY <1>1, <1>7, <2>1 DEF ToSet
<1>9. x.key \in 0 .. 255
  BY <1>4 DEF KeyPos
<1>10. QED
  BY <1>2, <1>4, <1>5, <1>6, <1>7, <1>8, <1>9

\* Phase 4 reads no position twice.
LEMMA PositionsDiffer ==
    ASSUME NEW e, NEW T, NEW N, Finished(e, T, N), NEW n \in 0 .. N - 1, NEW k \in 0 .. N - 1,
           T[n + 1].pos = T[k + 1].pos
    PROVE  n = k
<1>1. N \in Nat /\ T \in Seq(KeyPos) /\ Len(T) = N /\ IsInjective(T)
  BY DEF Finished
<1>2. T[n + 1] \in KeyPos /\ T[k + 1] \in KeyPos /\ T[n + 1].key = T[k + 1].key
  BY ReadPlace
<1>3. T[n + 1] = T[k + 1]
  <2>1. \A x, y \in KeyPos : x.key = y.key /\ x.pos = y.pos => x = y
    BY DEF KeyPos
  <2>2. QED
    BY <1>2, <2>1
<1>4. n + 1 = k + 1
  <2>1. n + 1 \in DOMAIN T /\ k + 1 \in DOMAIN T
    BY <1>1
  <2>2. QED
    BY <1>1, <1>3, <2>1 DEF IsInjective
<1>5. QED
  BY <1>4

\* A proof that a reader finds is an entry.
LEMMA ProofIs ==
    ASSUME NEW e, NEW T, NEW N, Finished(e, T, N), NEW n \in Kept
    PROVE  Proof(n) = e[T[n + 1].pos + 1] /\ n \in 0 .. N - 1
<1>1. Value(n) = T[n + 1].key /\ n \in 0 .. N - 1
  BY ValueIs
<1>2. Position(n) = T[n + 1].pos
  BY <1>1, PositionIs
<1>3. PICK q : q = T[n + 1].pos
  OBVIOUS
<1>4. q \in 0 .. N - 1 /\ e[q + 1].key = T[n + 1].key /\ e[q + 1] \in Entry
  BY <1>1, <1>3, ReadPlace
<1>5. LinePoint(q) = e[q + 1].point
  BY <1>4, LinePointIs
<1>6. Proof(n) = [key |-> e[q + 1].key, point |-> e[q + 1].point]
  BY <1>1, <1>2, <1>3, <1>4, <1>5 DEF Proof
<1>7. \A x \in Entry : x = [key |-> x.key, point |-> x.point]
  BY DEF Entry
<1>8. QED
  BY <1>1, <1>3, <1>4, <1>6, <1>7

\* Every park can be read.
LEMMA AllParksWritten == ASSUME NEW e, NEW T, NEW N, Finished(e, T, N) PROVE ParksWritten(N)
<1>1. N \in Nat /\ pointers[6] = L_final_begin /\ pointers[7] = Begin7(N)
  BY DEF Finished
<1>2. cdiv(N, kCheckpoint1Interval) = Opened(N, kCheckpoint1Interval) /\ cdiv(N, kEntriesPerPark) = Opened(N, kEntriesPerPark)
  BY <1>1, Bounds, CountsGroups
<1>3. ASSUME NEW c \in 0 .. Opened(N, kCheckpoint1Interval) - 1
      PROVE  /\ Readable(pointers[8] + c * C1Size)
             /\ N - c * kCheckpoint1Interval > 1 => Readable(pointers[10] + c * C3Size)
  <2>1. Readable(pointers[8] + c * C1Size) /\ c \in 0 .. Closed(N, kCheckpoint1Interval) /\ N > 0
    BY CheckpointIs
  <2> DEFINE l == InGroup(c, N, kCheckpoint1Interval)
             z == Closed(N, kCheckpoint1Interval)
  <2>2. l > 1 => Readable(pointers[10] + c * C3Size)
    BY <2>1, DeltaParkIs
  <2>3. N - c * kCheckpoint1Interval > 1 => l > 1 \/ (c < z /\ l = kCheckpoint1Interval) \/ (c + 1) * kCheckpoint1Interval <= N
    BY DEF InGroup
  <2>4. c < z => ReadsAs(Slot(BeginC3(N), c, C3Size), Encoded(DeltasOf(T, c, N)))
    BY <2>1 DEF Finished
  <2>5. c < z => Readable(pointers[10] + c * C3Size)
    <3>1. pointers[10] = BeginC3(N)
      BY DEF Finished
    <3>2. QED
      BY <2>4, <3>1 DEF ReadsAs, Slot
  <2>6. c = z => l = N - c * kCheckpoint1Interval
    <3>1. InGroup(Closed(N, kCheckpoint1Interval), N, kCheckpoint1Interval) = N - Slot(0, Closed(N, kCheckpoint1Interval), kCheckpoint1Interval)
      BY <1>1, Bounds, Groups
    <3>2. Slot(0, c, kCheckpoint1Interval) = c * kCheckpoint1Interval
      <4>1. c \in Nat
        OBVIOUS
      <4>2. QED
        BY <4>1, Bounds, Slots DEF Slot
    <3>3. QED
      BY <3>1, <3>2
  <2>7. c < z \/ c = z
    <3>1. z \in Nat
      BY <1>1, SecondSizes
    <3> HIDE DEF z
    <3>2. c \in 0 .. z
      BY <2>1 DEF z
    <3>3. QED
      BY <3>1, <3>2
  <2> HIDE DEF l, z
  <2>8. QED
    BY <2>1, <2>2, <2>5, <2>6, <2>7
<1>4. ASSUME NEW c \in 0 .. Opened(N, kEntriesPerPark) - 1
      PROVE  Readable(pointers[7] + c * P7Size) /\ Readable(pointers[6] + c * ParkSize)
  <2>1. c \in 0 .. Closed(N, kEntriesPerPark)
    <3>1. PICK x, y : x = Opened(N, kEntriesPerPark) /\ y = Closed(N, kEntriesPerPark)
      OBVIOUS
    <3>2. x \in Nat /\ y \in Nat /\ (N = 0 => x = 0) /\ (N > 0 => x = y + 1)
      BY <1>1, <3>1, Bounds, Groups
    <3>3. c \in 0 .. x - 1
      BY <3>1
    <3>4. c \in 0 .. y
      BY <1>1, <3>2, <3>3
    <3>5. QED
      BY <3>1, <3>4
  <2>2. ReadsAs(Slot(Begin7(N), c, P7Size), ArrayOf(T, c, N)) /\ ReadsAs(Slot(L_final_begin, c, ParkSize), ParkWrite(e, c).data)
    BY <2>1 DEF Finished
  <2>3. QED
    BY <1>1, <2>2 DEF ReadsAs, Slot
<1>5. QED
  BY <1>2, <1>3, <1>4 DEF ParksWritten

\* In a finished plot every f7, read by the table pointers, leads to its own line point.
THEOREM FoundProofs == Spec => []ProofsAreFound
<1>1. PlotInv => ProofsAreFound
  <2> SUFFICES ASSUME PlotInv, stage = "done" PROVE ProofsAreFound
    BY DEF ProofsAreFound
  <2>1. PICK e, T, N : Finished(e, T, N)
    BY FinishedFile
  <2>2. /\ e = Entries /\ N = Len(Entries) /\ N \in Nat /\ e \in Seq(Entry) /\ N = Len(e)
        /\ T \in Seq(KeyPos) /\ Len(T) = N /\ SortedKeys(T) /\ ToSet(T) = Keyed(e, N)
        /\ \A i, j \in 1 .. N : i < j => e[i] # e[j]
    BY <2>1 DEF Finished
  <2> DEFINE q(a) == T[a + 1].pos + 1
  <2>3. \A a \in 0 .. N - 1 : q(a) \in 1 .. N /\ e[q(a)] \in ToSet(e) /\ T[a + 1].pos \in 0 .. N - 1
    BY <2>1, ReadPlace
  <2>4. \A a \in Kept : Value(a) = T[a + 1].key /\ a \in 0 .. N - 1 /\ Proof(a) = e[q(a)]
    BY <2>1, ValueIs, ProofIs
  <2>5. \A a \in 0 .. N - 1 : Position(a) = T[a + 1].pos
    BY <2>1, PositionIs
  <2>6. ParksWritten(N)
    BY <2>1, AllParksWritten
  <2>7. ASSUME NEW a \in Kept, NEW b \in Kept, a < b PROVE Value(a) <= Value(b)
    <3>1. a \in 0 .. N - 1 /\ b \in 0 .. N - 1
      BY <2>4
    <3>2. a + 1 \in 1 .. Len(T) /\ b + 1 \in 1 .. Len(T) /\ a + 1 < b + 1
      BY <2>2, <2>7, <3>1
    <3>3. T[a + 1].key <= T[b + 1].key
      BY <2>2, <3>2 DEF SortedKeys
    <3>4. QED
      BY <2>4, <3>3
  <2>8. ASSUME NEW a \in 0 .. N - 1, NEW b \in 0 .. N - 1, a < b PROVE Position(a) # Position(b)
    <3>1. a # b
      BY <2>8
    <3>2. T[a + 1].pos # T[b + 1].pos
      BY <2>1, <3>1, PositionsDiffer
    <3>3. QED
      BY <2>5, <3>2
  <2>9. {Proof(a) : a \in Kept} \subseteq ToSet(e)
    BY <2>3, <2>4
  <2>10. ASSUME NEW a \in Kept, NEW b \in Kept, Proof(a) = Proof(b) PROVE a = b
    <3>1. a \in 0 .. N - 1 /\ b \in 0 .. N - 1 /\ e[q(a)] = e[q(b)]
      BY <2>4, <2>10
    <3>2. q(a) \in 1 .. N /\ q(b) \in 1 .. N /\ T[a + 1].pos \in 0 .. N - 1 /\ T[b + 1].pos \in 0 .. N - 1
      BY <2>3, <3>1
    <3>3. q(a) = q(b)
      <4>1. PICK x, y : x = q(a) /\ y = q(b)
        OBVIOUS
      <4>2. x \in 1 .. N /\ y \in 1 .. N /\ e[x] = e[y]
        BY <3>1, <3>2, <4>1
      <4>3. ~(x < y) /\ ~(y < x)
        BY <2>2, <4>2
      <4>4. QED
        BY <4>1, <4>2, <4>3
    <3>4. T[a + 1].pos = T[b + 1].pos
      <4>1. PICK x, y : x = T[a + 1].pos /\ y = T[b + 1].pos
        OBVIOUS
      <4>2. x \in Nat /\ y \in Nat /\ x + 1 = y + 1
        BY <3>2, <3>3, <4>1
      <4>3. QED
        BY <4>1, <4>2
    <3>5. QED
      BY <2>1, <3>1, <3>4, PositionsDiffer
  <2>11. Cardinality({Proof(a) : a \in Kept}) = Cardinality(Kept)
    <3>1. IsFiniteSet(Kept)
      <4>1. IsFiniteSet(0 .. N - 1)
        <5>1. 0 \in Int /\ N - 1 \in Int
          BY <2>2
        <5>2. QED
          BY <5>1, FS_Interval
      <4>2. Kept \in SUBSET (0 .. N - 1)
        BY <2>4
      <4>3. QED
        BY <4>1, <4>2, FS_Subset
    <3>2. PICK f : f = [a \in Kept |-> Proof(a)]
      OBVIOUS
    <3>3. DOMAIN f = Kept /\ \A a \in Kept : f[a] = Proof(a)
      BY <3>2
    <3>4. \A a, b \in Kept : f[a] = f[b] => a = b
      BY <2>10, <3>3
    <3>5. Cardinality({f[a] : a \in Kept}) = Cardinality(Kept)
      BY ONLY <3>1, <3>3, <3>4, ImageSize
    <3>6. {f[a] : a \in Kept} = {Proof(a) : a \in Kept}
      BY <3>3
    <3>7. QED
      BY <3>5, <3>6
  <2>12. {LinePoint(Position(a)) : a \in 0 .. N - 1} = {x.point : x \in ToSet(e)}
    <3>1. \A a \in 0 .. N - 1 : LinePoint(Position(a)) = e[q(a)].point
      <4> SUFFICES ASSUME NEW a \in 0 .. N - 1 PROVE LinePoint(Position(a)) = e[q(a)].point
        OBVIOUS
      <4>1. PICK x : x = T[a + 1].pos
        OBVIOUS
      <4>2. x \in 0 .. N - 1 /\ Position(a) = x
        BY <2>3, <2>5, <4>1
      <4>3. LinePoint(x) = e[x + 1].point
        BY <2>1, <4>2, LinePointIs
      <4>4. QED
        BY <4>1, <4>2, <4>3
    <3>2. ASSUME NEW x \in ToSet(e) PROVE \E a \in 0 .. N - 1 : LinePoint(Position(a)) = x.point
      <4>1. PICK p \in 1 .. N : x = e[p]
        <5>1. DOMAIN e = 1 .. N
          BY <2>2
        <5>2. QED
          BY <5>1 DEF ToSet
      <4>2. PICK y : y = [key |-> e[p].key, pos |-> p - 1]
        OBVIOUS
      <4>3. y \in Keyed(e, N) /\ y.pos = p - 1
        BY <4>2 DEF Keyed
      <4>4. PICK n \in 1 .. N : T[n] = y
        <5>1. DOMAIN T = 1 .. N
          BY <2>2
        <5>2. y \in ToSet(T)
          BY <2>2, <4>3
        <5>3. QED
          BY <5>1, <5>2 DEF ToSet
      <4>5. PICK a : a = n - 1
        OBVIOUS
      <4>6. a \in 0 .. N - 1 /\ a + 1 = n /\ (p - 1) + 1 = p
        BY <2>2, <4>5
      <4>7. q(a) = p
        BY <4>3, <4>4, <4>6
      <4>8. QED
        BY <3>1, <4>1, <4>6, <4>7
    <3>3. \A a \in 0 .. N - 1 : e[q(a)].point \in {x.point : x \in ToSet(e)}
      BY <2>3
    <3> HIDE DEF q
    <3>4. {LinePoint(Position(a)) : a \in 0 .. N - 1} \subseteq {x.point : x \in ToSet(e)}
      BY <3>1, <3>3
    <3>5. {x.point : x \in ToSet(e)} \subseteq {LinePoint(Position(a)) : a \in 0 .. N - 1}
      BY <3>2
    <3>6. QED
      BY <3>4, <3>5
  <2>13. QED
    BY <2>2, <2>6, <2>7, <2>8, <2>9, <2>11, <2>12 DEF ProofsAreFound
<1>2. QED
  BY <1>1, PlotInvariant, PTL
=============================================================================
