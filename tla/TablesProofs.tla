---------------------------- MODULE TablesProofs ----------------------------
(***************************************************************************)
(* What forward propagation and backpropagation do to the tables, for      *)
(* tables of every size, blocks of every length and any number of workers. *)
(*                                                                         *)
(* Phase 2 comes first.  The entries that are marked are those that are    *)
(* needed (MarksTellWhatIsNeeded), and every position of a rewritten table *)
(* leads to what it led to before (PointersArePreserved).  Backpropagating *)
(* is the inductive invariant.  Its parts follow an entry through          *)
(* compute_table(): Stages says which variables are in use, Marks that an  *)
(* entry's two positions are marked, or still given to a worker, or in a   *)
(* block not given yet, IndexRight that the index counts the needed        *)
(* entries before each bucket, Pipeline that the blocks are in order and   *)
(* remapped to ranks, Sorted and Filing that what is written, or about to  *)
(* be, are exactly the entries counted.  A rank is the number of needed    *)
(* entries of a table before a place; the index and the counter of R_count *)
(* both have to arrive at it.                                              *)
(*                                                                         *)
(* Then phase 1, whose operators are those with F!.  Every match that is   *)
(* found is one (FoundMatchesAreReal), and every one is found once         *)
(* (EveryMatchIsFound).  Propagating is the inductive invariant.  Turns    *)
(* says that between two tables nothing is left of the one before; Slicing *)
(* that the heap holds the entries of the blocks sliced, one vector for    *)
(* every bucket, and read_thread's indices and offsets are those of the    *)
(* last two; Storing and Files what L_write has written and has still to   *)
(* write; Pairing that what was delivered, and what the jobs of match_pool *)
(* have found and have still to find, are together the matches of all      *)
(* complete pairs of buckets, in order; Making that the entries delivered  *)
(* and those in eval_pool are the values of these matches.  What find_     *)
(* matches() makes of two buckets is Hits(), without the counts an         *)
(* FxMatcher keeps from pair to pair.                                      *)
(*                                                                         *)
(* Last, both together: what phase 1 hands over is linked, so the steps of *)
(* the two phases are steps of phase 2 by itself (TablesAreHandedOver),    *)
(* and what holds of phase 2 holds for the tables of phase 1.              *)
(***************************************************************************)
EXTENDS Tables, InductionFacts

-----------------------------------------------------------------------------
(* What becomes of the entries of a plot's tables *)

\* How many of the entries of table i before place p are needed
Rank(tables, i, p) == Cardinality({q \in NeededOf(tables)[i] : q < p})

\* Entry p of table i: as it is read, as it is remapped, and as it is written
Plain(tables, i, p) == [at |-> p, pos |-> tables[i][p + 1].pos, off |-> tables[i][p + 1].off]
Right(tables, i, p) ==
    LET first == Rank(tables, i - 1, tables[i][p + 1].pos)
        second == Rank(tables, i - 1, tables[i][p + 1].pos + tables[i][p + 1].off)
    IN  [at |-> p, pos |-> first, off |-> second - first]
Final(tables, i, p) ==
    LET e == Right(tables, i, p) IN
    IF i = LastTable THEN e ELSE [key |-> Rank(tables, i, p), at |-> p, pos |-> e.pos, off |-> e.off]

Plains(tables, i) == {Plain(tables, i, p) : p \in 0 .. Len(tables[i]) - 1}
Rights(tables, i) == {Right(tables, i, p) : p \in NeededOf(tables)[i]}

\* Where block n of table i begins
Begin(tables, i, n) ==
    IF n * BlockSize <= Len(tables[i]) THEN n * BlockSize ELSE Len(tables[i])

\* s are the needed entries of block n of table i, remapped, in order.
Ranked(tables, i, s, n) ==
    /\ s \in Seq(Rights(tables, i))
    /\ Rank(tables, i, Begin(tables, i, n)) + Len(s) = Rank(tables, i, Begin(tables, i, n + 1))
    /\ \A x \in 1 .. Len(s) : Rank(tables, i, s[x].at) = Rank(tables, i, Begin(tables, i, n)) + x - 1

Started == stage # "waiting"

Stages ==
    /\ R_index \in 2 .. LastTable /\ given \in Nat
    /\ stage \in {"waiting", "mark", "rewrite", "done"}
    /\ DOMAIN marking = Worker
    /\ ~Started => /\ R_index = LastTable /\ given = 0 /\ num_written = 0 /\ next_bitfield = {}
                   /\ table_7 = [cache |-> <<>>, file |-> <<>>, num_entries |-> 0]
                   /\ marking \in [Worker -> {<<>>}]
    /\ Started => Linked(input) /\ given <= NumBlocks
    /\ stage # "mark" => \A w \in Worker : marking[w] = <<>>
    /\ stage # "rewrite" => mapping = <<>> /\ counting = <<>> /\ writing = <<>>
    /\ stage = "mark" => num_written = 0
    /\ stage = "done" => R_index = 2

\* The bitfield of this table has the needed entries.  That of the table before has
\* those that a needed entry of the blocks given leads to, or is about to lead to.
Leads(tables, i, p) == {tables[i][p + 1].pos, tables[i][p + 1].pos + tables[i][p + 1].off}
Marks ==
    Started =>
    /\ R_index < LastTable => curr_bitfield = NeededOf(input)[R_index]
    /\ marking \in [Worker -> Seq(Plains(input, R_index))]
    /\ next_bitfield \subseteq NeededOf(input)[R_index - 1]
    /\ \A p \in NeededOf(input)[R_index] :
        \/ stage = "mark" /\ p >= Begin(input, R_index, given)
        \/ Leads(input, R_index, p) \subseteq next_bitfield
        \/ \E w \in Worker : \E j \in 1 .. Len(marking[w]) : marking[w][j].at = p

IndexRight ==
    stage = "rewrite" =>
        \A n \in 0 .. IndexSize - 1 : index[n] = Rank(input, R_index - 1, n * kIndexBucket)

\* The blocks that were counted
Counted == given - Len(mapping) - Len(counting)

\* The blocks are in order in the pipeline, as they were or without the entries that
\* are not needed.
Pipeline ==
    stage = "rewrite" =>
    /\ mapping \in Seq([mapped : BOOLEAN, entries : Seq(Plains(input, R_index)) \cup Seq(Rights(input, R_index))])
    /\ counting \in Seq(Seq(Rights(input, R_index)))
    /\ Counted \in Nat
    /\ \A n \in 1 .. Len(mapping) : LET b == Counted + Len(counting) + n - 1 IN
        IF mapping[n].mapped THEN Ranked(input, R_index, mapping[n].entries, b)
        ELSE mapping[n].entries = Block(b)
    /\ \A n \in 1 .. Len(counting) : Ranked(input, R_index, counting[n], Counted + n - 1)
    /\ num_written = Rank(input, R_index, Begin(input, R_index, Counted))

\* What was counted is about to be written, or it is written.
Finals(tables, i, n) == {Final(tables, i, p) : p \in {q \in NeededOf(tables)[i] : Rank(tables, i, q) < n}}
InBlocks(w) == UNION {ToSet(w[n]) : n \in 1 .. Len(w)}
Sorted ==
    /\ DOMAIN sort = 2 .. LastTable - 1
    /\ \A i \in 2 .. LastTable - 1 :
        /\ Started /\ i > R_index => sort[i] = Finals(input, i, Rank(input, i, Len(input[i])))
        /\ Started /\ i = R_index => sort[i] \cup InBlocks(writing) = Finals(input, i, num_written)
        /\ ~Started \/ i < R_index => sort[i] = {}
    /\ stage = "done" => num_written = Rank(input, 2, Len(input[2]))
    /\ stage = "rewrite" => writing \in Seq(Seq(Finals(input, R_index, num_written)))

\* The last table is written in order, through the cache.
SizeOf(t) == Len(t.file) + Len(t.cache)
Size7 == SizeOf(table_7)
FileOf(V) == [cache : Seq(V), file : Seq(V), num_entries : Nat]
Filed(t, tables) ==
    /\ t \in FileOf(Rights(tables, LastTable))
    /\ t.num_entries = Len(t.file)
    /\ \A n \in 1 .. Len(t.file) : t.file[n] = Right(tables, LastTable, n - 1)
    /\ \A n \in 1 .. Len(t.cache) : t.cache[n] = Right(tables, LastTable, Len(t.file) + n - 1)
Filing ==
    /\ Started => Filed(table_7, input)
    /\ Started /\ (R_index < LastTable \/ stage = "done") =>
        table_7.cache = <<>> /\ Size7 = Len(input[LastTable])
    /\ R_index = LastTable /\ stage = "rewrite" =>
        /\ Len(writing) <= Counted
        /\ \A n \in 1 .. Len(writing) : Ranked(input, LastTable, writing[n], Counted - Len(writing) + n - 1)
        /\ Size7 = Begin(input, LastTable, Counted - Len(writing))
    /\ R_index = LastTable /\ stage = "mark" => Size7 = 0

-----------------------------------------------------------------------------
(* The needed entries *)

\* What each step of NeededOf's recursion gives
NeededNext(t, f) ==
    /\ f[LastTable] = 0 .. Len(t[LastTable]) - 1
    /\ \A i \in 1 .. LastTable - 1 : f[i] = UNION {Leads(t, i + 1, p) : p \in f[i + 1]}

LEMMA LinkedFacts ==
    ASSUME NEW t, Linked(t), NEW i \in 2 .. LastTable, NEW p \in 0 .. Len(t[i]) - 1
    PROVE  /\ Len(t[i]) \in Nat /\ Len(t[i - 1]) \in Nat
           /\ t[i][p + 1].pos \in Nat /\ t[i][p + 1].off \in Nat
           /\ t[i][p + 1].pos + t[i][p + 1].off \in Nat
           /\ t[i][p + 1].pos + t[i][p + 1].off < Len(t[i - 1])
           /\ Leads(t, i, p) \subseteq 0 .. Len(t[i - 1]) - 1
<1>1. LastTable \in Nat /\ i \in 1 .. LastTable /\ i - 1 \in 1 .. LastTable
  BY BoundsAssumption
<1>2. Len(t[i]) \in Nat /\ Len(t[i - 1]) \in Nat
  BY <1>1 DEF Linked
<1>3. p + 1 \in 1 .. Len(t[i])
  BY <1>2
<1> DEFINE e == t[i][p + 1]
<1>4. e.pos \in Nat /\ e.off \in Nat /\ e.pos + e.off < Len(t[i - 1])
  BY <1>3 DEF Linked
<1>5. Leads(t, i, p) = {e.pos, e.pos + e.off}
  BY DEF Leads
<1> HIDE DEF e
<1>6. {e.pos, e.pos + e.off} \subseteq 0 .. Len(t[i - 1]) - 1 /\ e.pos + e.off \in Nat
  BY <1>2, <1>4
<1>7. QED
  BY <1>2, <1>4, <1>5, <1>6 DEF e

LEMMA NeededSteps ==
    ASSUME NEW t, Linked(t)
    PROVE  NeededNext(t, NeededOf(t))
<1> DEFINE V == SUBSET Nat
           last == 0 .. Len(t[LastTable]) - 1
           n == LastTable - 1
           Into(i, v) == UNION {Leads(t, i + 1, p) : p \in v}
           Within(i, v) == v \cap (0 .. Len(t[i]) - 1)
           step == [x \in 1 .. n |-> [v \in V |-> Into(LastTable - x, Within(LastTable - x + 1, v))]]
           Finds(f) == f = [i \in 1 .. LastTable |-> IF i = LastTable THEN 0 .. Len(t[i]) - 1
                                ELSE UNION {{t[i + 1][p + 1].pos, t[i + 1][p + 1].pos + t[i + 1][p + 1].off} : p \in f[i + 1]}]
           found == CHOOSE f : Finds(f)
<1>1. LastTable \in Nat /\ LastTable >= 2 /\ n \in Nat /\ n = LastTable - 1
  BY BoundsAssumption
<1>2. Len(t[LastTable]) \in Nat
  <2>1. LastTable \in 1 .. LastTable
    BY <1>1
  <2>2. QED
    BY <2>1 DEF Linked
<1>3. last \in V
  BY <1>2
<1> HIDE DEF n
<1>4. ASSUME NEW x \in 1 .. n, NEW v \in V
      PROVE  /\ Into(LastTable - x, Within(LastTable - x + 1, v)) \subseteq 0 .. Len(t[LastTable - x]) - 1
             /\ 0 .. Len(t[LastTable - x]) - 1 \in V
  <2> DEFINE i == LastTable - x + 1
  <2>1. i \in 2 .. LastTable /\ i - 1 = LastTable - x
    BY <1>1
  <2>2. \A p \in 0 .. Len(t[i]) - 1 : Leads(t, i, p) \subseteq 0 .. Len(t[i - 1]) - 1
    BY <2>1, LinkedFacts
  <2>3. Len(t[i - 1]) \in Nat
    <3>1. i - 1 \in 1 .. LastTable
      BY <1>1, <2>1
    <3>2. QED
      BY <3>1 DEF Linked
  <2> HIDE DEF i
  <2>4. LastTable - x + 1 = i
    BY DEF i
  <2>5. UNION {Leads(t, i, p) : p \in v \cap (0 .. Len(t[i]) - 1)} \subseteq 0 .. Len(t[i - 1]) - 1
    BY <2>2
  <2>6. QED
    BY <2>1, <2>3, <2>4, <2>5
<1>5. \E f : Finds(f)
  <2>1. step \in [1 .. n -> [V -> V]]
    BY <1>4
  <2>2. \A x \in 1 .. n, v \in V : step[x][v] = Into(LastTable - x, Within(LastTable - x + 1, v))
    OBVIOUS
  <2> HIDE DEF step, V, last
  <2>3. PICK g \in [0 .. n -> V] : Solves(g, last, step, n)
    BY <1>1, <1>3, <2>1, Recursion
  <2>4. g[0] = last
    BY <2>3 DEF Solves
  <2>5. ASSUME NEW x \in 1 .. n
        PROVE  /\ g[x] = Into(LastTable - x, Within(LastTable - x + 1, g[x - 1]))
               /\ g[x] \subseteq 0 .. Len(t[LastTable - x]) - 1
    <3>1. x - 1 \in 0 .. n
      BY <1>1
    <3>2. g[x - 1] \in V
      BY <3>1
    <3>3. g[x] = step[x][g[x - 1]]
      BY <2>3 DEF Solves
    <3>4. g[x] = Into(LastTable - x, Within(LastTable - x + 1, g[x - 1]))
      BY <3>2, <3>3, <2>2
    <3>5. QED
      BY <3>2, <3>4, <1>4
  <2> DEFINE h == [i \in 1 .. LastTable |-> g[LastTable - i]]
             T(i, v) == IF i = LastTable THEN 0 .. Len(t[i]) - 1
                        ELSE UNION {{t[i + 1][p + 1].pos, t[i + 1][p + 1].pos + t[i + 1][p + 1].off} : p \in v}
             j == [i \in 1 .. LastTable |-> T(i, h[i + 1])]
  <2>6. ASSUME NEW i \in 1 .. LastTable PROVE h[i] = T(i, h[i + 1])
    <3>1. CASE i = LastTable
      <4>1. h[i] = g[0]
        BY <1>1, <3>1
      <4>2. QED
        BY <2>4, <3>1, <4>1 DEF last
    <3>2. CASE i # LastTable
      <4> DEFINE x == LastTable - i
      <4>1. /\ x \in 1 .. n /\ i + 1 \in 1 .. LastTable /\ LastTable - (i + 1) = x - 1
            /\ LastTable - x = i /\ LastTable - x + 1 = i + 1 /\ x - 1 \in 0 .. n
        BY <1>1, <3>2
      <4> HIDE DEF x
      <4>2. h[i] = g[x] /\ h[i + 1] = g[x - 1]
        BY <4>1 DEF x
      <4>3. g[x - 1] \subseteq 0 .. Len(t[i + 1]) - 1
        <5>1. CASE x = 1
          <6>1. x - 1 = 0 /\ i + 1 = LastTable
            BY <1>1, <4>1, <5>1
          <6>2. QED
            BY <2>4, <6>1 DEF last
        <5>2. CASE x # 1
          <6>1. x - 1 \in 1 .. n /\ LastTable - (x - 1) = i + 1
            BY <1>1, <4>1, <5>2
          <6>2. QED
            BY <2>5, <6>1
        <5>3. QED
          BY <5>1, <5>2
      <4>4. g[x] = Into(i, Within(i + 1, g[x - 1]))
        BY <2>5, <4>1
      <4>5. Within(i + 1, g[x - 1]) = g[x - 1]
        BY <4>3
      <4>6. g[x] = UNION {Leads(t, i + 1, p) : p \in g[x - 1]}
        BY <4>4, <4>5
      <4>7. QED
        BY <3>2, <4>2, <4>6 DEF Leads
    <3>3. QED
      BY <3>1, <3>2
  <2> HIDE DEF T
  <2>7. h = j
    <3>1. \A i \in 1 .. LastTable : h[i] = j[i]
      <4> HIDE DEF h
      <4>1. QED
        BY <2>6
    <3>2. DOMAIN h = 1 .. LastTable /\ h = [x \in DOMAIN h |-> h[x]]
      BY Zenon
    <3>3. DOMAIN j = 1 .. LastTable /\ j = [x \in DOMAIN j |-> j[x]]
      <4> HIDE DEF h
      <4>1. QED
        BY Zenon
    <3> HIDE DEF h, j
    <3>4. QED
      BY <3>1, <3>2, <3>3
  <2>8. Finds(h)
    <3> HIDE DEF h
    <3>1. QED
      BY <2>7, Zenon DEF T
  <2> HIDE DEF Finds
  <2>9. QED
    BY <2>8
<1> HIDE DEF Finds
<1>6. Finds(found)
  BY <1>5
<1>7. found[LastTable] = last /\ \A i \in 1 .. LastTable - 1 : found[i] = Into(i, found[i + 1])
  <2> DEFINE T(i, v) == IF i = LastTable THEN 0 .. Len(t[i]) - 1
                        ELSE UNION {{t[i + 1][p + 1].pos, t[i + 1][p + 1].pos + t[i + 1][p + 1].off} : p \in v}
             j == [i \in 1 .. LastTable |-> T(i, found[i + 1])]
  <2> HIDE DEF found
  <2>1. found = j
    BY <1>6, Zenon DEF Finds
  <2>2. \A i \in 1 .. LastTable : j[i] = T(i, found[i + 1])
    BY Zenon
  <2> HIDE DEF j
  <2>3. \A i \in 1 .. LastTable - 1 : i \in 1 .. LastTable /\ i # LastTable
    BY <1>1
  <2>4. LastTable \in 1 .. LastTable
    BY <1>1
  <2>5. QED
    BY <2>1, <2>2, <2>3, <2>4 DEF Leads
<1>8. NeededOf(t) = found
  BY DEF NeededOf, Finds
<1> HIDE DEF found
<1>9. QED
  BY <1>7, <1>8 DEF NeededNext

LEMMA NeededFacts ==
    ASSUME NEW t, Linked(t)
    PROVE  /\ NeededOf(t)[LastTable] = 0 .. Len(t[LastTable]) - 1
           /\ \A i \in 1 .. LastTable : Len(t[i]) \in Nat /\ NeededOf(t)[i] \subseteq 0 .. Len(t[i]) - 1
           /\ \A i \in 2 .. LastTable : NeededOf(t)[i - 1] = UNION {Leads(t, i, p) : p \in NeededOf(t)[i]}
<1> DEFINE N == NeededOf(t)
<1>1. NeededNext(t, N)
  BY NeededSteps
<1>2. LastTable \in Nat /\ LastTable >= 2
  BY BoundsAssumption
<1>3. \A i \in 1 .. LastTable : Len(t[i]) \in Nat
  BY DEF Linked
<1> HIDE DEF N
<1>4. ASSUME NEW i \in 2 .. LastTable PROVE N[i - 1] = UNION {Leads(t, i, p) : p \in N[i]}
  <2>1. i - 1 \in 1 .. LastTable - 1 /\ (i - 1) + 1 = i
    BY <1>2
  <2>2. QED
    BY <1>1, <2>1 DEF NeededNext
<1> DEFINE n == LastTable - 1
           S == {x \in 0 .. n : N[LastTable - x] \subseteq 0 .. Len(t[LastTable - x]) - 1}
<1>5. n \in Nat /\ n = LastTable - 1
  BY <1>2
<1> HIDE DEF n
<1>6. 0 \in S
  <2>1. LastTable - 0 = LastTable /\ 0 \in 0 .. n
    BY <1>2, <1>5
  <2>2. QED
    BY <1>1, <2>1 DEF NeededNext
<1>7. ASSUME NEW x \in 1 .. n, x - 1 \in S PROVE x \in S
  <2> DEFINE i == LastTable - x + 1
  <2>1. i \in 2 .. LastTable /\ i - 1 = LastTable - x /\ LastTable - (x - 1) = i /\ x \in 0 .. n
    BY <1>2, <1>5
  <2> HIDE DEF i
  <2>2. N[i] \subseteq 0 .. Len(t[i]) - 1
    BY <1>7, <2>1
  <2>3. \A p \in N[i] : Leads(t, i, p) \subseteq 0 .. Len(t[i - 1]) - 1
    BY <2>1, <2>2, LinkedFacts
  <2>4. N[i - 1] \subseteq 0 .. Len(t[i - 1]) - 1
    BY <1>4, <2>1, <2>3
  <2>5. QED
    BY <2>1, <2>4
<1>8. \A x \in 0 .. n : x \in S
  <2> HIDE DEF S
  <2>1. QED
    BY <1>5, <1>6, <1>7, Induction
<1>9. ASSUME NEW i \in 1 .. LastTable PROVE N[i] \subseteq 0 .. Len(t[i]) - 1
  <2>1. LastTable - i \in 0 .. n /\ LastTable - (LastTable - i) = i
    BY <1>2, <1>5
  <2>2. QED
    BY <1>8, <2>1
<1>10. QED
  BY <1>1, <1>3, <1>4, <1>9 DEF N, NeededNext

-----------------------------------------------------------------------------
(* Ranks *)

Below(S, p) == Cardinality({q \in S : q < p})

LEMMA BelowType ==
    ASSUME NEW S \in SUBSET Nat, NEW p \in Nat
    PROVE  IsFiniteSet({q \in S : q < p}) /\ Below(S, p) \in Nat
<1> DEFINE A == {q \in S : q < p}
<1>1. \A q \in A : q \in Nat /\ q < p
  OBVIOUS
<1>2. Below(S, p) = Cardinality(A)
  BY DEF Below
<1> HIDE DEF A
<1>3. A \in SUBSET Nat /\ \A s \in A : s <= p
  BY <1>1
<1>4. IsFiniteSet(A)
  BY <1>3, FS_BoundedSetOfNaturals
<1>5. QED
  BY <1>2, <1>4, FS_CardinalityType DEF A

LEMMA BelowNext ==
    ASSUME NEW S \in SUBSET Nat, NEW p \in Nat
    PROVE  Below(S, p + 1) = IF p \in S THEN Below(S, p) + 1 ELSE Below(S, p)
<1>1. IsFiniteSet({q \in S : q < p}) /\ p \notin {q \in S : q < p}
  BY BelowType
<1>2. CASE p \in S
  <2>1. {q \in S : q < p + 1} = {q \in S : q < p} \cup {p}
    <3>1. ASSUME NEW q \in S PROVE q < p + 1 <=> q < p \/ q = p
      OBVIOUS
    <3>2. QED
      BY <1>2, <3>1, Zenon
  <2>2. QED
    BY <1>1, <1>2, <2>1, FS_AddElement DEF Below
<1>3. CASE p \notin S
  <2>1. {q \in S : q < p + 1} = {q \in S : q < p}
    <3>1. ASSUME NEW q \in S PROVE q < p + 1 <=> q < p
      BY <1>3
    <3>2. QED
      BY <3>1, Zenon
  <2>2. QED
    BY <1>3, <2>1 DEF Below
<1>4. QED
  BY <1>2, <1>3

LEMMA BelowGrows ==
    ASSUME NEW S \in SUBSET Nat, NEW p \in Nat, NEW q \in Nat, p <= q
    PROVE  /\ Below(S, p) <= Below(S, q)
           /\ p \in S /\ p < q => Below(S, p) < Below(S, q)
<1>1. ASSUME NEW a \in Nat, NEW b \in Nat, a <= b PROVE Below(S, a) <= Below(S, b)
  <2>1. IsFiniteSet({x \in S : x < b}) /\ {x \in S : x < a} \in SUBSET {x \in S : x < b}
    <3>1. ASSUME NEW x \in S, x < a PROVE x < b
      BY <1>1, <3>1
    <3>2. {x \in S : x < a} \subseteq {x \in S : x < b}
      BY <3>1, Zenon
    <3>3. QED
      BY <3>2, BelowType, Zenon
  <2>2. QED
    BY <2>1, FS_Subset DEF Below
<1>2. ASSUME p \in S, p < q PROVE Below(S, p) < Below(S, q)
  <2>1. Below(S, p + 1) = Below(S, p) + 1
    BY <1>2, BelowNext
  <2>2. Below(S, p + 1) <= Below(S, q)
    BY <1>1, <1>2
  <2>3. Below(S, p) \in Nat /\ Below(S, q) \in Nat
    BY BelowType
  <2>4. QED
    BY <2>1, <2>2, <2>3
<1>3. QED
  BY <1>1, <1>2

LEMMA BelowInjective ==
    ASSUME NEW S \in SUBSET Nat, NEW p \in S, NEW q \in S, Below(S, p) = Below(S, q)
    PROVE  p = q
<1>1. p \in Nat /\ q \in Nat /\ Below(S, p) \in Nat /\ Below(S, q) \in Nat
  BY BelowType
<1>2. ~(p < q) /\ ~(q < p)
  BY <1>1, BelowGrows
<1>3. QED
  BY <1>1, <1>2

LEMMA BelowInterval ==
    ASSUME NEW n \in Nat, NEW p \in 0 .. n
    PROVE  Below(0 .. n - 1, p) = p
<1>1. {q \in 0 .. n - 1 : q < p} = 0 .. p - 1
  <2>1. ASSUME NEW q PROVE q \in 0 .. n - 1 /\ q < p <=> q \in 0 .. p - 1
    OBVIOUS
  <2>2. QED
    BY <2>1, Zenon
<1>2. Cardinality(0 .. p - 1) = IF 0 > p - 1 THEN 0 ELSE p - 1 - 0 + 1
  BY FS_Interval
<1>3. Cardinality(0 .. p - 1) = p
  BY <1>2
<1>4. QED
  BY <1>1, <1>3 DEF Below

\* A number of bits from one place to another
LEMMA CountBetween ==
    ASSUME NEW S \in SUBSET Nat, NEW p \in Nat, NEW q \in Nat, p <= q
    PROVE  Count(S, p, q) = Below(S, q) - Below(S, p)
<1> DEFINE A == {x \in S : x < p}
           B == {x \in S : p <= x /\ x < q}
           C == {x \in S : x < q}
<1>1. C = A \cup B /\ A \cap B = {} /\ B \in SUBSET C
  <2>1. ASSUME NEW x \in S PROVE (x < q <=> x < p \/ (p <= x /\ x < q)) /\ ~(x < p /\ p <= x)
    OBVIOUS
  <2>2. C = A \cup B
    BY <2>1, Zenon
  <2>3. A \cap B = {}
    BY <2>1, Zenon
  <2>4. B \in SUBSET C
    BY Zenon
  <2>5. QED
    BY <2>2, <2>3, <2>4
<1>2. IsFiniteSet(A) /\ IsFiniteSet(C) /\ Below(S, p) \in Nat /\ Below(S, q) \in Nat
  BY BelowType
<1>3. Count(S, p, q) = Cardinality(B) /\ Below(S, p) = Cardinality(A) /\ Below(S, q) = Cardinality(C)
  BY DEF Count, Below
<1> HIDE DEF A, B, C
<1>4. IsFiniteSet(B) /\ Cardinality(B) \in Nat
  BY <1>1, <1>2, FS_Subset, FS_CardinalityType
<1>5. Cardinality(A \cup B) = Cardinality(A) + Cardinality(B) - Cardinality(A \cap B)
  BY <1>2, <1>4, FS_Union
<1>6. Cardinality(A \cap B) = 0
  BY <1>1, FS_EmptySet
<1>7. QED
  BY <1>1, <1>2, <1>3, <1>4, <1>5, <1>6

LEMMA RankFacts ==
    ASSUME NEW t, Linked(t), NEW i \in 1 .. LastTable
    PROVE  /\ NeededOf(t)[i] \subseteq 0 .. Len(t[i]) - 1 /\ Len(t[i]) \in Nat
           /\ NeededOf(t)[i] \in SUBSET Nat
           /\ \A p \in Nat : Rank(t, i, p) = Below(NeededOf(t)[i], p) /\ Rank(t, i, p) \in Nat
           /\ Rank(t, i, 0) = 0
           /\ \A p, q \in Nat : p <= q => Rank(t, i, p) <= Rank(t, i, q)
           /\ \A p \in NeededOf(t)[i], q \in Nat : p < q => Rank(t, i, p) < Rank(t, i, q)
           /\ \A p, q \in NeededOf(t)[i] : Rank(t, i, p) = Rank(t, i, q) => p = q
           /\ \A p \in Nat : p \in NeededOf(t)[i] => Rank(t, i, p + 1) = Rank(t, i, p) + 1
           /\ \A p \in Nat : p \notin NeededOf(t)[i] => Rank(t, i, p + 1) = Rank(t, i, p)
<1> DEFINE N == NeededOf(t)[i]
           R(p) == Rank(t, i, p)
<1>1. N \subseteq 0 .. Len(t[i]) - 1 /\ Len(t[i]) \in Nat
  BY NeededFacts
<1>2. N \in SUBSET Nat
  BY <1>1
<1>3. \A p \in Nat : R(p) = Below(N, p)
  BY DEF Rank, Below
<1> HIDE DEF N
<1>4. \A p \in Nat : R(p) \in Nat
  BY <1>2, <1>3, BelowType
<1>5. R(0) = 0
  <2>1. {q \in N : q < 0} = {}
    <3>1. ASSUME NEW q \in N PROVE ~(q < 0)
      <4>1. q \in Nat
        BY <1>2
      <4>2. QED
        BY <4>1
    <3>2. QED
      BY <3>1, Zenon
  <2>2. QED
    BY <1>3, <2>1, FS_EmptySet DEF Below
<1>6. \A p, q \in Nat : p <= q => R(p) <= R(q)
  BY <1>2, <1>3, BelowGrows
<1>7. \A p \in N, q \in Nat : p < q => R(p) < R(q)
  <2> SUFFICES ASSUME NEW p \in N, NEW q \in Nat, p < q PROVE R(p) < R(q)
    OBVIOUS
  <2>1. p \in Nat /\ p <= q
    BY <1>2
  <2>2. Below(N, p) < Below(N, q)
    BY <1>2, <2>1, BelowGrows
  <2>3. QED
    BY <1>3, <2>1, <2>2
<1>8. \A p, q \in N : R(p) = R(q) => p = q
  BY <1>2, <1>3, BelowInjective
<1>9. ASSUME NEW p \in Nat PROVE R(p + 1) = IF p \in N THEN R(p) + 1 ELSE R(p)
  <2>1. Below(N, p + 1) = IF p \in N THEN Below(N, p) + 1 ELSE Below(N, p)
    BY <1>2, BelowNext
  <2>2. QED
    BY <1>3, <2>1
<1> HIDE DEF R
<1>10. QED
  BY <1>1, <1>2, <1>3, <1>4, <1>5, <1>6, <1>7, <1>8, <1>9 DEF N, R

LEMMA RankLast ==
    ASSUME NEW t, Linked(t), NEW p \in 0 .. Len(t[LastTable])
    PROVE  Rank(t, LastTable, p) = p
<1>1. LastTable \in 1 .. LastTable
  BY BoundsAssumption
<1>2. Len(t[LastTable]) \in Nat /\ p \in Nat
  <2>1. Len(t[LastTable]) \in Nat
    BY <1>1, RankFacts
  <2>2. QED
    BY <2>1
<1>3. Rank(t, LastTable, p) = Below(NeededOf(t)[LastTable], p)
  BY <1>1, <1>2, RankFacts
<1>4. NeededOf(t)[LastTable] = 0 .. Len(t[LastTable]) - 1
  BY NeededFacts
<1>5. QED
  BY <1>2, <1>3, <1>4, BelowInterval

-----------------------------------------------------------------------------
(* The blocks of a table *)

LEMMA BeginFacts ==
    ASSUME NEW t, Linked(t), NEW i \in 1 .. LastTable
    PROVE  /\ \A n \in Nat : Begin(t, i, n) \in 0 .. Len(t[i]) /\ Begin(t, i, n) <= Begin(t, i, n + 1)
           /\ Begin(t, i, 0) = 0
           /\ \A n \in Nat : n >= (Len(t[i]) + BlockSize - 1) \div BlockSize => Begin(t, i, n) = Len(t[i])
           /\ \A n \in Nat : n < (Len(t[i]) + BlockSize - 1) \div BlockSize =>
                /\ Begin(t, i, n) = n * BlockSize /\ n * BlockSize < Len(t[i])
                /\ Begin(t, i, n + 1) =
                     IF n * BlockSize + BlockSize <= Len(t[i]) THEN n * BlockSize + BlockSize ELSE Len(t[i])
           /\ (Len(t[i]) + BlockSize - 1) \div BlockSize \in Nat
<1> DEFINE l == Len(t[i])
           d == BlockSize
           c == (l + d - 1) \div d
<1>1. l \in Nat /\ d \in Nat \ {0}
  BY BoundsAssumption, RankFacts
<1> HIDE DEF l, d
<1>2. c \in Nat /\ c * d <= l + d - 1 /\ l + d - 1 < (c + 1) * d
  BY <1>1
<1> HIDE DEF c
<1>3. ASSUME NEW n \in Nat
      PROVE  /\ n * d \in Nat /\ (n + 1) * d = n * d + d
             /\ n >= c => n * d >= l
             /\ n < c => n * d < l
  <2>1. n * d \in Nat /\ (n + 1) * d = n * d + d /\ (c + 1) * d = c * d + d /\ c * d \in Nat
    BY <1>1, <1>2
  <2>2. n >= c => n * d >= c * d
    BY <1>1, <1>2
  <2>3. n < c => (n + 1) * d <= c * d
    <3>1. n + 1 \in Nat /\ (n < c => n + 1 <= c)
      BY <1>2
    <3>2. QED
      BY <1>1, <1>2, <3>1
  <2>4. QED
    BY <1>1, <1>2, <2>1, <2>2, <2>3
<1>4. \A n \in Nat : Begin(t, i, n) = IF n * d <= l THEN n * d ELSE l
  BY DEF Begin, l, d
<1>5. 0 * d = 0
  BY <1>1
<1>6. ASSUME NEW n \in Nat
      PROVE  /\ Begin(t, i, n) \in 0 .. l /\ Begin(t, i, n) <= Begin(t, i, n + 1)
             /\ n >= c => Begin(t, i, n) = l
             /\ n < c => /\ Begin(t, i, n) = n * d /\ n * d < l
                         /\ Begin(t, i, n + 1) = IF n * d + d <= l THEN n * d + d ELSE l
  <2> DEFINE m == n * d
             b == Begin(t, i, n)
             e == Begin(t, i, n + 1)
  <2>1. m \in Nat /\ (n >= c => m >= l) /\ (n < c => m < l)
    BY <1>3
  <2>2. b = (IF m <= l THEN m ELSE l) /\ e = (IF m + d <= l THEN m + d ELSE l)
    <3>1. n + 1 \in Nat /\ (n + 1) * d = m + d
      BY <1>3
    <3>2. e = IF (n + 1) * d <= l THEN (n + 1) * d ELSE l
      BY <1>4, <3>1
    <3>3. QED
      BY <1>4, <3>1, <3>2
  <2> HIDE DEF m, b, e
  <2>3. b \in 0 .. l /\ b <= e /\ (n >= c => b = l) /\ (n < c => b = m)
    BY <1>1, <1>2, <2>1, <2>2
  <2>4. QED
    BY <2>1, <2>2, <2>3 DEF m, b, e
<1>7. Begin(t, i, 0) = 0
  BY <1>1, <1>4, <1>5
<1>8. QED
  BY <1>2, <1>6, <1>7 DEF l, d, c

-----------------------------------------------------------------------------
(* The index *)

LEMMA LongestTable ==
    ASSUME Linked(input)
    PROVE  max_table_size \in Nat /\ \A i \in 1 .. LastTable : Len(input[i]) <= max_table_size
<1> DEFINE l(i) == Len(input[i])
           S == {n \in 0 .. LastTable : n = 0 \/ \E i \in 1 .. n : \A j \in 1 .. n : l(j) <= l(i)}
           Sizes == {l(i) : i \in 1 .. LastTable}
<1>1. LastTable \in Nat /\ LastTable >= 2
  BY BoundsAssumption
<1>2. DOMAIN input = 1 .. LastTable /\ \A i \in 1 .. LastTable : l(i) \in Nat
  BY DEF Linked
<1>3. max_table_size = CHOOSE x \in Sizes : \A y \in Sizes : x >= y
  BY <1>2 DEF max_table_size, Max
<1> HIDE DEF l
<1>4. 0 \in S
  BY <1>1
<1>5. ASSUME NEW n \in 1 .. LastTable, n - 1 \in S PROVE n \in S
  <2>1. n - 1 \in Nat /\ n \in Nat /\ 1 .. n = (1 .. n - 1) \cup {n}
    BY <1>1
  <2>2. CASE n - 1 = 0
    <3>1. \A j \in 1 .. n : j = n
      BY <2>1, <2>2
    <3>2. n \in 1 .. n /\ \A j \in 1 .. n : l(j) <= l(n)
      BY <2>1, <3>1, <1>2
    <3>3. QED
      BY <2>1, <3>2
  <2>3. CASE n - 1 # 0
    <3>1. PICK i \in 1 .. n - 1 : \A j \in 1 .. n - 1 : l(j) <= l(i)
      BY <1>5, <2>3
    <3>2. i \in 1 .. LastTable /\ i \in 1 .. n /\ n \in 1 .. n
      <4>1. n \in Nat /\ 1 <= n /\ n <= LastTable /\ i \in Nat /\ 1 <= i /\ i <= n - 1
        BY <1>1, <2>1
      <4>2. QED
        BY ONLY <1>1, <4>1
    <3>3. l(i) \in Nat /\ l(n) \in Nat
      BY <1>2, <3>2
    <3>4. \A j \in 1 .. n : l(j) \in Nat /\ (j = n \/ j \in 1 .. n - 1)
      BY <1>1, <1>2, <2>1
    <3>5. CASE l(i) <= l(n)
      <4>1. \A j \in 1 .. n : l(j) <= l(n)
        BY <3>1, <3>3, <3>4, <3>5
      <4>2. QED
        BY <2>1, <3>2, <4>1
    <3>6. CASE l(n) <= l(i)
      <4>1. \A j \in 1 .. n : l(j) <= l(i)
        BY <3>1, <3>3, <3>4, <3>6
      <4>2. QED
        BY <2>1, <3>2, <4>1
    <3>7. QED
      BY <3>3, <3>5, <3>6
  <2>4. QED
    BY <2>2, <2>3
<1>6. LastTable \in S
  <2> HIDE DEF S
  <2>1. \A n \in 0 .. LastTable : n \in S
    BY <1>1, <1>4, <1>5, Induction
  <2>2. QED
    BY <1>1, <2>1
<1>7. PICK i \in 1 .. LastTable : \A j \in 1 .. LastTable : l(j) <= l(i)
  BY <1>1, <1>6
<1>8. l(i) \in Sizes /\ \A y \in Sizes : l(i) >= y
  BY <1>2, <1>7
<1> HIDE DEF Sizes
<1>9. max_table_size \in Sizes /\ \A y \in Sizes : max_table_size >= y
  BY <1>3, <1>8
<1>10. max_table_size \in Nat
  BY <1>2, <1>9 DEF Sizes
<1>11. ASSUME NEW j \in 1 .. LastTable PROVE l(j) <= max_table_size
  <2>1. l(j) \in Sizes
    BY DEF Sizes
  <2>2. QED
    BY <1>2, <1>9, <1>10, <2>1
<1>12. QED
  BY <1>10, <1>11 DEF l

\* A place is in a bucket that the index has, behind the beginning of that bucket and
\* of its word.
LEMMA PlaceInIndex ==
    ASSUME Linked(input), NEW pos \in Nat, pos < max_table_size
    PROVE  /\ pos \div kIndexBucket \in 0 .. IndexSize - 1
           /\ (pos \div WordBits) * WordBits \in Nat /\ (pos \div WordBits) * WordBits <= pos
           /\ (pos \div kIndexBucket) * kIndexBucket \in Nat
           /\ (pos \div kIndexBucket) * kIndexBucket <= (pos \div WordBits) * WordBits
<1> DEFINE W == WordBits
           K == kIndexBucket
           m == max_table_size
           c == K \div W
           words == (m + W - 1) \div W
           T == words * W
           s == (T + K - 1) \div K
           a == pos \div W
           b == pos \div K
<1>1. W \in Nat \ {0} /\ K \in Nat \ {0} /\ K % W = 0
  BY BoundsAssumption
<1>2. m \in Nat
  BY LongestTable
<1>3. IndexSize = s
  BY DEF IndexSize
<1> HIDE DEF m
<1>4. c \in Nat \ {0} /\ K = W * c
  <2>1. c \in Nat /\ K = c * W + (K % W)
    BY <1>1
  <2>2. c # 0
    BY <1>1, <2>1
  <2>3. W * c = c * W
    BY <1>1, <2>1
  <2>4. QED
    BY <1>1, <2>1, <2>2, <2>3
<1>5. a \in Nat /\ a * W \in Nat /\ a * W <= pos
  BY <1>1
<1>6. b \in Nat /\ b * K \in Nat /\ b * K <= pos
  BY <1>1
<1>7. b * K <= a * W
  <2>1. b = a \div c
    <3>1. (pos \div W) \div c = pos \div (W * c)
      <4> HIDE DEF W, c
      <4>1. QED
        BY ZenonT(60), <1>1, <1>4, Division
    <3>2. QED
      BY <1>4, <3>1
  <2> HIDE DEF a, b, c, K, W
  <2>2. b * c <= a /\ b * c \in Nat
    BY <1>4, <1>5, <2>1
  <2>3. (b * c) * W <= a * W
    BY <1>1, <1>5, <2>2
  <2>4. (b * c) * W = b * K
    BY <1>1, <1>4, <1>6
  <2>5. QED
    BY <2>3, <2>4
<1>8. words \in Nat /\ T \in Nat /\ T >= m
  <2> DEFINE x == m + W - 1
  <2>1. x \in Nat /\ x = m + W - 1
    BY <1>1, <1>2
  <2>2. words = x \div W
    OBVIOUS
  <2> HIDE DEF x, words, W
  <2>3. words \in Nat /\ x < (words + 1) * W /\ (words + 1) * W = words * W + W /\ words * W \in Nat
    BY <1>1, <2>1, <2>2
  <2>4. QED
    BY <1>1, <1>2, <2>1, <2>3
<1> HIDE DEF words, T
<1>9. s \in Nat /\ s * K \in Nat /\ s * K >= T
  <2> DEFINE x == T + K - 1
  <2>1. x \in Nat /\ x = T + K - 1
    BY <1>1, <1>8
  <2>2. s = x \div K
    OBVIOUS
  <2> HIDE DEF x, s, K
  <2>3. s \in Nat /\ x < (s + 1) * K /\ (s + 1) * K = s * K + K /\ s * K \in Nat
    BY <1>1, <2>1, <2>2
  <2>4. QED
    BY <1>1, <1>8, <2>1, <2>3
<1>10. b <= s - 1
  <2> HIDE DEF s, b, K
  <2>1. ASSUME b >= s PROVE FALSE
    <3>1. b * K >= s * K
      BY <1>1, <1>6, <1>9, <2>1
    <3>2. QED
      BY <1>2, <1>6, <1>8, <1>9, <3>1 DEF m
  <2>2. QED
    BY <1>6, <1>9, <2>1
<1> HIDE DEF a, b, s
<1>11. b \in 0 .. s - 1
  BY <1>6, <1>9, <1>10
<1>12. QED
  BY <1>3, <1>5, <1>6, <1>7, <1>11 DEF a, b, K, W

\* The index of the marks gives ranks, and lookup() adds what is missing to one.
LEMMA IndexOfMarks ==
    ASSUME Linked(input), R_index \in 2 .. LastTable, NEW n \in 0 .. IndexSize - 1
    PROVE  Index(NeededOf(input)[R_index - 1])[n] = Rank(input, R_index - 1, n * kIndexBucket)
<1> DEFINE N == NeededOf(input)[R_index - 1]
           r == R_index - 1
<1>1. r \in 1 .. LastTable /\ r = R_index - 1
  BY BoundsAssumption
<1> HIDE DEF r
<1>2. NeededOf(input)[r] \in SUBSET Nat /\ \A p \in Nat : Rank(input, r, p) = Below(NeededOf(input)[r], p) /\ Rank(input, r, p) \in Nat
      /\ Rank(input, r, 0) = 0
  BY ZenonT(60), <1>1, RankFacts
<1>3. n * kIndexBucket \in Nat
  <2>1. n \in Nat /\ kIndexBucket \in Nat
    BY BoundsAssumption
  <2>2. QED
    BY <2>1
<1>4. Index(N)[n] = Count(N, 0, n * kIndexBucket)
  BY DEF Index
<1>5. Count(N, 0, n * kIndexBucket) = Below(N, n * kIndexBucket) - Below(N, 0)
  <2>1. N \in SUBSET Nat
    BY <1>1, <1>2
  <2> HIDE DEF N
  <2>2. QED
    BY <1>3, <2>1, CountBetween
<1>6. QED
  BY <1>1, <1>2, <1>3, <1>4, <1>5

LEMMA LookedUpRank ==
    ASSUME Linked(input), R_index \in 2 .. LastTable, NEW p \in 0 .. Len(R_table) - 1,
           next_bitfield = NeededOf(input)[R_index - 1],
           \A n \in 0 .. IndexSize - 1 : index[n] = Rank(input, R_index - 1, n * kIndexBucket)
    PROVE  Remapped(Plain(input, R_index, p)) = Right(input, R_index, p)
<1> DEFINE pos == R_table[p + 1].pos
           off == R_table[p + 1].off
           i == R_index - 1
           R(x) == Rank(input, i, x)
           N == next_bitfield
           bucket == pos \div kIndexBucket
           begin == bucket * kIndexBucket
           aligned == (pos \div WordBits) * WordBits
<1>1. /\ pos \in Nat /\ off \in Nat /\ pos + off \in Nat /\ pos + off < Len(input[i]) /\ Len(input[i]) \in Nat
  BY LinkedFacts DEF R_table
<1>2. i \in 1 .. LastTable
  BY BoundsAssumption
<1> HIDE DEF i
<1>3. N = NeededOf(input)[i]
  BY DEF i
<1>4. N \in SUBSET Nat /\ \A x \in Nat : R(x) = Below(N, x) /\ R(x) \in Nat
  <2>1. NeededOf(input)[i] \in SUBSET Nat
        /\ \A x \in Nat : Rank(input, i, x) = Below(NeededOf(input)[i], x) /\ Rank(input, i, x) \in Nat
    BY <1>2, RankFacts
  <2>2. QED
    BY <1>3, <2>1
<1>5. pos < max_table_size
  <2>1. Len(input[i]) <= max_table_size /\ max_table_size \in Nat
    BY <1>2, LongestTable
  <2>2. QED
    BY SMTT(40), <1>1, <2>1
<1>6. /\ bucket \in 0 .. IndexSize - 1 /\ aligned \in Nat /\ aligned <= pos
      /\ begin \in Nat /\ begin <= aligned
  BY <1>1, <1>5, PlaceInIndex
<1>7. index[bucket] = R(begin)
  BY <1>6 DEF i
<1> HIDE DEF pos, off, R, N
<1>8. /\ Lookup(pos, off).pos = index[bucket] + (Count(N, begin, aligned) + Count(N, aligned, pos))
      /\ Lookup(pos, off).off = (Count(N, begin, aligned) + Count(N, aligned, pos + off))
                                - (Count(N, begin, aligned) + Count(N, aligned, pos))
  BY DEF Lookup, N
<1> HIDE DEF bucket, begin, aligned
<1>9. /\ Count(N, begin, aligned) = R(aligned) - R(begin)
      /\ Count(N, aligned, pos) = R(pos) - R(aligned)
      /\ Count(N, aligned, pos + off) = R(pos + off) - R(aligned)
      /\ R(aligned) \in Nat /\ R(begin) \in Nat /\ R(pos) \in Nat /\ R(pos + off) \in Nat
  <2>1. aligned <= pos + off
    BY <1>1, <1>6
  <2>2. N \in SUBSET Nat /\ begin \in Nat /\ aligned \in Nat /\ pos \in Nat /\ pos + off \in Nat
    BY <1>1, <1>4, <1>6
  <2>3. Count(N, begin, aligned) = Below(N, aligned) - Below(N, begin)
    BY <1>6, <2>2, CountBetween
  <2>4. Count(N, aligned, pos) = Below(N, pos) - Below(N, aligned)
    BY <1>6, <2>2, CountBetween
  <2>5. Count(N, aligned, pos + off) = Below(N, pos + off) - Below(N, aligned)
    BY <2>1, <2>2, CountBetween
  <2>6. QED
    BY <1>4, <2>2, <2>3, <2>4, <2>5
<1>10. Lookup(pos, off).pos = R(pos) /\ Lookup(pos, off).off = R(pos + off) - R(pos)
  BY <1>7, <1>8, <1>9
<1>11. Remapped(Plain(input, R_index, p)) = [at |-> p, pos |-> Lookup(pos, off).pos, off |-> Lookup(pos, off).off]
  BY DEF Remapped, Plain, pos, off, R_table
<1>12. Right(input, R_index, p) = [at |-> p, pos |-> R(pos), off |-> R(pos + off) - R(pos)]
  BY DEF Right, pos, off, R, i, R_table
<1>13. QED
  BY <1>10, <1>11, <1>12

-----------------------------------------------------------------------------
(* Blocks, and what map_pool makes of them *)

LEMMA BlockFacts ==
    ASSUME Linked(input), R_index \in 2 .. LastTable, NEW n \in Nat, n < NumBlocks
    PROVE  /\ Block(n) \in Seq(Plains(input, R_index))
           /\ Begin(input, R_index, n) + Len(Block(n)) = Begin(input, R_index, n + 1)
           /\ \A j \in 1 .. Len(Block(n)) :
                Block(n)[j] = Plain(input, R_index, Begin(input, R_index, n) + j - 1)
<1> DEFINE l == Len(R_table)
           d == BlockSize
           begin == n * BlockSize
           end == Begin(input, R_index, n + 1)
           size == IF begin + d <= l THEN d ELSE l - begin
           E(j) == [at |-> begin + j - 1, pos |-> R_table[begin + j].pos, off |-> R_table[begin + j].off]
           s == [j \in 1 .. size |-> E(j)]
<1>1. R_index \in 1 .. LastTable
  BY BoundsAssumption
<1>2. l \in Nat /\ R_table = input[R_index]
  BY <1>1, RankFacts DEF R_table
<1>3. /\ Begin(input, R_index, n) = begin /\ begin < l
      /\ end = IF begin + d <= l THEN begin + d ELSE l
  BY <1>1, BeginFacts DEF NumBlocks, R_table
<1>4. begin \in Nat /\ d \in Nat \ {0}
  BY BoundsAssumption
<1>5. Block(n) = s
  BY DEF Block
<1> HIDE DEF l, d, begin, end
<1>6. size \in Nat /\ begin + size = end /\ begin + size <= l
  BY <1>2, <1>3, <1>4
<1> HIDE DEF size
<1>7. ASSUME NEW j \in 1 .. size
      PROVE  E(j) = Plain(input, R_index, begin + j - 1) /\ begin + j - 1 \in 0 .. l - 1
  <2>1. begin + j - 1 \in 0 .. l - 1 /\ (begin + j - 1) + 1 = begin + j
    BY <1>2, <1>4, <1>6
  <2>2. QED
    BY <1>2, <2>1 DEF Plain
<1> HIDE DEF E
<1>8. \A j \in 1 .. size : E(j) \in Plains(input, R_index)
  <2>1. \A p \in 0 .. l - 1 : Plain(input, R_index, p) \in Plains(input, R_index)
    BY <1>2 DEF Plains, l
  <2>2. QED
    BY <1>7, <2>1
<1>9. s \in Seq(Plains(input, R_index)) /\ Len(s) = size
  BY <1>6, <1>8
<1>10. \A j \in 1 .. size : s[j] = E(j)
  OBVIOUS
<1> HIDE DEF s
<1>11. QED
  BY <1>3, <1>5, <1>6, <1>7, <1>9, <1>10 DEF end

\* Mapped goes through the block from its first entry.
MappedNext(block, g) ==
    /\ g[0] = <<>>
    /\ \A x \in 1 .. Len(block) :
        g[x] = IF Used(block[x]) THEN Append(g[x - 1], Remapped(block[x])) ELSE g[x - 1]

LEMMA MappedSteps ==
    ASSUME NEW block, Len(block) \in Nat, NEW V,
           \A x \in 1 .. Len(block) : Used(block[x]) => Remapped(block[x]) \in V
    PROVE  \E g \in [0 .. Len(block) -> Seq(V)] : Mapped(block) = g[Len(block)] /\ MappedNext(block, g)
<1> DEFINE W == Seq(V)
           none == <<>>
           n == Len(block)
           T(x, v) == IF Used(block[x]) THEN Append(v, Remapped(block[x])) ELSE v
           step == [x \in 1 .. n |-> [v \in W |-> T(x, v)]]
           Keeps(t) == t = [x \in 0 .. n |-> IF x = 0 THEN <<>>
                                             ELSE IF Used(block[x]) THEN Append(t[x - 1], Remapped(block[x]))
                                             ELSE t[x - 1]]
           kept == CHOOSE t : Keeps(t)
<1>1. n \in Nat /\ none \in W
  OBVIOUS
<1>2. ASSUME NEW x \in 1 .. n, NEW v \in W PROVE T(x, v) \in W
  <2>1. Used(block[x]) => Append(v, Remapped(block[x])) \in W
    BY AppendedElement
  <2>2. QED
    BY <2>1
<1>3. Mapped(block) = kept[n]
  BY DEF Mapped
<1>4. \A t : Keeps(t) <=> t = [x \in 0 .. n |-> IF x = 0 THEN <<>> ELSE T(x, t[x - 1])]
  BY Zenon
<1> HIDE DEF T, Keeps
<1>5. \E t : Keeps(t) /\ t \in [0 .. n -> W]
  <2>1. step \in [1 .. n -> [W -> W]]
    BY <1>2
  <2>2. \A x \in 1 .. n, v \in W : step[x][v] = T(x, v)
    OBVIOUS
  <2> HIDE DEF step, W, none, n
  <2>3. PICK g \in [0 .. n -> W] : Solves(g, none, step, n)
    BY <1>1, <2>1, Recursion
  <2>4. g[0] = <<>>
    BY <2>3 DEF Solves, none
  <2>5. ASSUME NEW x \in 1 .. n PROVE g[x] = T(x, g[x - 1])
    <3>1. x - 1 \in 0 .. n
      BY <1>1
    <3>2. g[x - 1] \in W
      BY <3>1
    <3>3. g[x] = step[x][g[x - 1]]
      BY <2>3 DEF Solves
    <3>4. QED
      BY <3>2, <3>3, <2>2
  <2> DEFINE h == [x \in 0 .. n |-> IF x = 0 THEN <<>> ELSE T(x, g[x - 1])]
  <2>6. \A x \in 0 .. n : g[x] = IF x = 0 THEN <<>> ELSE T(x, g[x - 1])
    <3>1. \A x \in 0 .. n : x = 0 \/ x \in 1 .. n
      BY <1>1
    <3>2. \A x \in 1 .. n : x # 0
      BY <1>1
    <3>3. QED
      BY <3>1, <3>2, <2>4, <2>5, Zenon
  <2>7. \A x \in 0 .. n : h[x] = g[x]
    BY <2>6, Zenon
  <2>8. g = h
    <3>1. DOMAIN h = 0 .. n /\ h = [x \in DOMAIN h |-> h[x]]
      BY Zenon
    <3> HIDE DEF h
    <3>2. DOMAIN g = 0 .. n /\ g = [x \in DOMAIN g |-> g[x]]
      OBVIOUS
    <3>3. QED
      BY <3>1, <3>2, <2>7
  <2>9. Keeps(g)
    BY <2>8, <1>4, Zenon
  <2>10. QED
    BY <2>9
<1>6. Keeps(kept)
  BY <1>5
<1>7. kept[0] = <<>> /\ \A x \in 1 .. n : kept[x] = T(x, kept[x - 1])
  <2> DEFINE h == [x \in 0 .. n |-> IF x = 0 THEN <<>> ELSE T(x, kept[x - 1])]
  <2> HIDE DEF kept
  <2>1. kept = h
    BY <1>4, <1>6, Zenon
  <2>2. \A x \in 0 .. n : h[x] = IF x = 0 THEN <<>> ELSE T(x, kept[x - 1])
    BY Zenon
  <2> HIDE DEF h, n
  <2>3. \A x \in 1 .. n : x \in 0 .. n /\ x # 0
    BY <1>1
  <2>4. 0 \in 0 .. n
    BY <1>1
  <2>5. QED
    BY <2>1, <2>2, <2>3, <2>4
<1>8. kept \in [0 .. n -> W]
  <2> DEFINE h == [x \in 0 .. n |-> IF x = 0 THEN <<>> ELSE T(x, kept[x - 1])]
             S == {x \in 0 .. n : kept[x] \in W}
  <2> HIDE DEF kept, W
  <2>1. 0 \in S
    <3>1. 0 \in 0 .. n
      BY <1>1
    <3>2. QED
      BY <1>1, <1>7, <3>1
  <2>2. ASSUME NEW x \in 1 .. n, x - 1 \in S PROVE x \in S
    <3>1. x \in 0 .. n
      BY <1>1
    <3>2. kept[x] = T(x, kept[x - 1]) /\ kept[x - 1] \in W
      BY <1>7, <2>2
    <3>3. QED
      BY <1>2, <3>1, <3>2
  <2>3. \A x \in 0 .. n : x \in S
    <3> HIDE DEF S
    <3>1. QED
      BY <1>1, <2>1, <2>2, Induction
  <2>4. kept = h
    BY <1>4, <1>6, Zenon
  <2>5. DOMAIN h = 0 .. n /\ h = [x \in DOMAIN h |-> h[x]]
    BY Zenon
  <2>6. \A x \in 0 .. n : h[x] \in W
    BY <2>3, <2>4
  <2> HIDE DEF h
  <2>7. QED
    BY <2>4, <2>5, <2>6
<1> HIDE DEF kept
<1>9. MappedNext(block, kept)
  BY <1>7 DEF MappedNext, T
<1>10. QED
  BY <1>3, <1>8, <1>9

\* The entries of a block that are used are those that are needed, and are remapped
\* to their ranks.
LEMMA MappedRanked ==
    ASSUME Linked(input), R_index \in 2 .. LastTable, NEW n \in Nat, n < NumBlocks,
           R_index < LastTable => curr_bitfield = NeededOf(input)[R_index],
           next_bitfield = NeededOf(input)[R_index - 1],
           \A m \in 0 .. IndexSize - 1 : index[m] = Rank(input, R_index - 1, m * kIndexBucket)
    PROVE  Ranked(input, R_index, Mapped(Block(n)), n)
<1> DEFINE block == Block(n)
           l == Len(block)
           begin == Begin(input, R_index, n)
           end == Begin(input, R_index, n + 1)
           N == NeededOf(input)[R_index]
           R(p) == Rank(input, R_index, p)
           V == Rights(input, R_index)
           L == Len(input[R_index])
<1>1. /\ block \in Seq(Plains(input, R_index)) /\ begin + l = end
      /\ \A j \in 1 .. l : block[j] = Plain(input, R_index, begin + j - 1)
  BY BlockFacts
<1>2. R_index \in 1 .. LastTable
  BY BoundsAssumption
<1>3. L \in Nat /\ begin \in Nat /\ end \in Nat /\ end <= L /\ l \in Nat
  <2>1. Len(input[R_index]) \in Nat
    BY <1>2, RankFacts
  <2>2. begin \in 0 .. Len(input[R_index]) /\ end \in 0 .. Len(input[R_index])
    <3>1. n + 1 \in Nat
      OBVIOUS
    <3>2. QED
      BY <1>2, <3>1, BeginFacts
  <2>3. l \in Nat
    <3> HIDE DEF block
    <3>1. QED
      BY <1>1
  <2>4. QED
    BY <2>1, <2>2, <2>3
<1>4. \A p \in Nat : R(p) \in Nat /\ R(p + 1) = IF p \in N THEN R(p) + 1 ELSE R(p)
  BY <1>2, RankFacts
<1>5. R_index = LastTable => N = 0 .. L - 1
  BY NeededFacts
<1>6. \A p \in 0 .. L - 1 : Remapped(Plain(input, R_index, p)) = Right(input, R_index, p)
  BY LookedUpRank DEF R_table
<1>7. \A p : Plain(input, R_index, p).at = p /\ Right(input, R_index, p).at = p
  BY DEF Plain, Right
<1>8. \A p \in N : Right(input, R_index, p) \in V
  BY DEF Rights
<1>9. \A p \in 0 .. L - 1 : Used(Plain(input, R_index, p)) <=> p \in N
  <2>1. R_index = LastTable \/ R_index < LastTable
    BY BoundsAssumption
  <2>2. QED
    BY <1>5, <1>7, <2>1 DEF Used
<1> HIDE DEF block, l, begin, end, N, R, V, L
<1>10. ASSUME NEW x \in 1 .. l
       PROVE  /\ begin + x - 1 \in 0 .. L - 1 /\ begin + x - 1 \in Nat /\ block[x].at = begin + x - 1
              /\ Used(block[x]) <=> begin + x - 1 \in N
              /\ Remapped(block[x]) = Right(input, R_index, begin + x - 1)
              /\ Used(block[x]) => Remapped(block[x]) \in V /\ Remapped(block[x]).at = begin + x - 1
  <2>1. begin + x - 1 \in 0 .. L - 1 /\ begin + x - 1 \in Nat
    BY <1>1, <1>3
  <2>2. block[x] = Plain(input, R_index, begin + x - 1)
    BY <1>1
  <2>3. QED
    BY <1>6, <1>7, <1>8, <1>9, <2>1, <2>2
<1>11. Len(block) \in Nat /\ Len(block) = l
  BY <1>3 DEF l
<1>12. PICK g \in [0 .. l -> Seq(V)] : Mapped(block) = g[l] /\ MappedNext(block, g)
  <2>1. \A x \in 1 .. Len(block) : Used(block[x]) => Remapped(block[x]) \in V
    BY <1>10, <1>11
  <2>2. QED
    BY <1>11, <2>1, MappedSteps
<1> DEFINE Good(x) == /\ R(begin) + Len(g[x]) = R(begin + x)
                      /\ \A y \in 1 .. Len(g[x]) : R(g[x][y].at) = R(begin) + y - 1
           S == {x \in 0 .. l : Good(x)}
<1>13. 0 \in S
  <2>1. g[0] = <<>>
    BY <1>12 DEF MappedNext
  <2>2. 0 \in 0 .. l /\ begin + 0 = begin
    BY <1>3
  <2>3. R(begin) \in Nat
    BY <1>3, <1>4
  <2>4. QED
    BY <2>1, <2>2, <2>3
<1>14. ASSUME NEW x \in 1 .. l, x - 1 \in S PROVE x \in S
  <2> DEFINE s == g[x - 1]
             p == begin + x - 1
  <2>1. s \in Seq(V) /\ x \in 0 .. l
    BY <1>3
  <2>2. /\ p \in Nat /\ begin + (x - 1) = p /\ begin + x = p + 1 /\ R(p) \in Nat /\ R(begin) \in Nat
    <3>1. p \in Nat
      BY <1>10
    <3>2. begin + (x - 1) = p /\ begin + x = p + 1
      BY <1>3
    <3>3. QED
      BY <1>3, <1>4, <3>1, <3>2
  <2>3. R(begin) + Len(s) = R(p) /\ \A y \in 1 .. Len(s) : R(s[y].at) = R(begin) + y - 1
    BY <1>14, <2>2
  <2>4. g[x] = IF Used(block[x]) THEN Append(s, Remapped(block[x])) ELSE s
    BY <1>11, <1>12 DEF MappedNext
  <2>5. CASE ~Used(block[x])
    <3>1. p \notin N
      BY <1>10, <2>5
    <3>2. R(p + 1) = R(p)
      BY <1>4, <2>2, <3>1
    <3> HIDE DEF p, s
    <3>3. Good(x)
      BY <2>2, <2>3, <2>4, <2>5, <3>2
    <3>4. QED
      BY <2>1, <3>3
  <2>6. CASE Used(block[x])
    <3> DEFINE e == Remapped(block[x])
               u == Append(s, e)
    <3>1. p \in N /\ e \in V /\ e.at = p
      BY <1>10, <2>6
    <3>2. R(p + 1) = R(p) + 1
      BY <1>4, <2>2, <3>1
    <3> HIDE DEF p, s, e
    <3>3. /\ Len(u) = Len(s) + 1 /\ Len(s) \in Nat /\ u[Len(s) + 1] = e
          /\ \A y \in 1 .. Len(s) : u[y] = s[y]
      BY <2>1, <3>1, AppendedElement
    <3>4. g[x] = u
      BY <2>4, <2>6 DEF e
    <3> HIDE DEF u
    <3>5. R(begin) + Len(u) = R(begin + x)
      BY <2>2, <2>3, <3>2, <3>3
    <3>6. ASSUME NEW y \in 1 .. Len(u) PROVE R(u[y].at) = R(begin) + y - 1
      <4>1. CASE y \in 1 .. Len(s)
        BY <2>3, <3>3, <4>1
      <4>2. CASE y = Len(s) + 1
        <5>1. u[y].at = p
          BY <3>1, <3>3, <4>2
        <5>2. QED
          BY <2>2, <2>3, <3>3, <4>2, <5>1
      <4>3. QED
        BY <3>3, <4>1, <4>2
    <3>7. Good(x)
      BY <3>4, <3>5, <3>6
    <3>8. QED
      BY <2>1, <3>7
  <2>7. QED
    BY <2>5, <2>6
<1> HIDE DEF S
<1>15. l \in S
  <2>1. \A x \in 0 .. l : x \in S
    BY <1>3, <1>13, <1>14, Induction
  <2>2. QED
    BY <1>3, <2>1
<1>16. l \in 0 .. l /\ g[l] \in Seq(V)
  BY <1>3
<1> USE DEF S
<1>17. Good(l)
  BY <1>15
<1> HIDE DEF S
<1>18. begin + l = end
  BY <1>1
<1>19. QED
  BY <1>12, <1>16, <1>17, <1>18 DEF Ranked, R, V, begin, end, block

-----------------------------------------------------------------------------
(* The file of the last table *)

LEMMA WriteType ==
    ASSUME NEW V, NEW t \in FileOf(V), NEW e \in V
    PROVE  Flush(t) \in FileOf(V) /\ Write(t, e) \in FileOf(V)
<1>1. /\ t.cache \in Seq(V) /\ t.file \in Seq(V) /\ t.num_entries \in Nat
      /\ Len(t.cache) \in Nat /\ t.file \o t.cache \in Seq(V) /\ <<>> \in Seq(V)
  BY DEF FileOf
<1>2. t.num_entries + Len(t.cache) \in Nat
  BY <1>1
<1>3. Flush(t) \in FileOf(V)
  BY <1>1, <1>2 DEF Flush, FileOf
<1>4. ASSUME NEW u \in FileOf(V) PROVE [u EXCEPT !.cache = Append(@, e)] \in FileOf(V)
  <2>1. u.cache \in Seq(V)
    BY DEF FileOf
  <2>2. Append(u.cache, e) \in Seq(V)
    BY <2>1
  <2>3. QED
    BY <2>2 DEF FileOf
<1>5. Write(t, e) \in FileOf(V)
  BY <1>3, <1>4, Zenon DEF Write
<1>6. QED
  BY <1>3, <1>5

LEMMA JoinedTwo ==
    ASSUME NEW V, NEW s \in Seq(V), NEW t \in Seq(V)
    PROVE  /\ s \o t \in Seq(V) /\ Len(s \o t) = Len(s) + Len(t) /\ Len(s) \in Nat /\ Len(t) \in Nat
           /\ \A i \in 1 .. Len(s) : (s \o t)[i] = s[i]
           /\ \A i \in Len(s) + 1 .. Len(s) + Len(t) : (s \o t)[i] = t[i - Len(s)]
OBVIOUS

LEMMA FlushFiled ==
    ASSUME NEW tables, NEW t, Filed(t, tables)
    PROVE  Filed(Flush(t), tables) /\ SizeOf(Flush(t)) = SizeOf(t) /\ Flush(t).cache = <<>>
           /\ Len(Flush(t).file) = SizeOf(t)
<1> DEFINE V == Rights(tables, LastTable)
           a == t.file
           b == t.cache
           u == Flush(t)
           P(n) == Right(tables, LastTable, n - 1)
<1>1. /\ t \in FileOf(V) /\ t.num_entries = Len(a)
      /\ \A n \in 1 .. Len(a) : a[n] = P(n)
      /\ \A n \in 1 .. Len(b) : b[n] = P(Len(a) + n)
  BY DEF Filed
<1>2. a \in Seq(V) /\ b \in Seq(V)
  BY <1>1 DEF FileOf
<1>3. u.file = a \o b /\ u.cache = <<>> /\ u.num_entries = Len(a) + Len(b)
  BY <1>1 DEF Flush
<1>4. SizeOf(t) = Len(a) + Len(b)
  BY DEF SizeOf
<1>5. Rights(tables, LastTable) = V
  OBVIOUS
<1> HIDE DEF V
<1>6. u \in FileOf(V)
  <2>1. Flush(t) = [cache |-> <<>>, file |-> a \o b, num_entries |-> t.num_entries + Len(b)]
    BY DEF Flush
  <2>2. a \o b \in Seq(V) /\ <<>> \in Seq(V) /\ Len(b) \in Nat /\ t.num_entries \in Nat
    BY <1>1, <1>2 DEF FileOf
  <2>3. t.num_entries + Len(b) \in Nat
    BY <2>2
  <2>4. QED
    BY <2>1, <2>2, <2>3 DEF FileOf
<1> HIDE DEF a, b, u, P
<1>7. /\ Len(a \o b) = Len(a) + Len(b) /\ Len(a) \in Nat /\ Len(b) \in Nat
      /\ \A i \in 1 .. Len(a) : (a \o b)[i] = a[i]
      /\ \A i \in Len(a) + 1 .. Len(a) + Len(b) : (a \o b)[i] = b[i - Len(a)]
  BY <1>2, JoinedTwo
<1>8. ASSUME NEW n \in 1 .. Len(a \o b) PROVE (a \o b)[n] = P(n)
  <2>1. CASE n \in 1 .. Len(a)
    BY <1>1, <1>7, <2>1
  <2>2. CASE n \notin 1 .. Len(a)
    <3>1. n \in Len(a) + 1 .. Len(a) + Len(b) /\ n - Len(a) \in 1 .. Len(b) /\ Len(a) + (n - Len(a)) = n
      BY <1>7, <2>2
    <3>2. QED
      BY <1>1, <1>7, <3>1
  <2>3. QED
    BY <2>1, <2>2
<1>9. Len(<<>>) = 0
  OBVIOUS
<1>10. SizeOf(u) = SizeOf(t) /\ Len(u.file) = SizeOf(t) /\ u.num_entries = Len(u.file)
  <2>1. Len(u.cache) = 0 /\ Len(u.file) = Len(a) + Len(b)
    BY <1>3, <1>7, <1>9
  <2>2. SizeOf(u) = Len(u.file) + Len(u.cache)
    BY DEF SizeOf
  <2>3. QED
    BY <1>3, <1>4, <1>7, <2>1, <2>2
<1>11. \A n \in 1 .. Len(u.file) : u.file[n] = Right(tables, LastTable, n - 1)
  BY <1>3, <1>8 DEF P
<1>12. \A n \in 1 .. Len(u.cache) : u.cache[n] = Right(tables, LastTable, Len(u.file) + n - 1)
  <2>1. 1 .. Len(u.cache) = {}
    BY <1>3, <1>9
  <2>2. QED
    BY <2>1
<1>13. Filed(u, tables)
  BY <1>5, <1>6, <1>10, <1>11, <1>12 DEF Filed
<1>14. QED
  BY <1>3, <1>10, <1>13 DEF u

LEMMA WriteFiled ==
    ASSUME NEW tables, NEW t, Filed(t, tables), NEW e \in Rights(tables, LastTable),
           e = Right(tables, LastTable, SizeOf(t))
    PROVE  Filed(Write(t, e), tables) /\ SizeOf(Write(t, e)) = SizeOf(t) + 1
<1> DEFINE V == Rights(tables, LastTable)
           u == IF Len(t.cache) >= Capacity THEN Flush(t) ELSE t
           w == [u EXCEPT !.cache = Append(@, e)]
           P(n) == Right(tables, LastTable, n)
<1>1. Filed(u, tables) /\ SizeOf(u) = SizeOf(t)
  BY FlushFiled
<1>2. Write(t, e) = w
  BY DEF Write
<1> HIDE DEF u
<1>3. /\ u \in FileOf(V) /\ u.num_entries = Len(u.file)
      /\ \A n \in 1 .. Len(u.file) : u.file[n] = P(n - 1)
      /\ \A n \in 1 .. Len(u.cache) : u.cache[n] = P(Len(u.file) + n - 1)
  BY <1>1 DEF Filed
<1>4. u.cache \in Seq(V) /\ u.file \in Seq(V)
  BY <1>3 DEF FileOf
<1>5. w \in FileOf(V) /\ w.file = u.file /\ w.num_entries = u.num_entries /\ w.cache = Append(u.cache, e)
  <2>1. DOMAIN u = {"cache", "file", "num_entries"}
    BY <1>3 DEF FileOf
  <2>2. w.file = u.file /\ w.num_entries = u.num_entries /\ w.cache = Append(u.cache, e)
    BY <2>1
  <2>3. Append(u.cache, e) \in Seq(V)
    BY <1>4
  <2>4. QED
    BY <1>3, <2>2, <2>3 DEF FileOf
<1> DEFINE a == u.file
           b == u.cache
           c == Append(b, e)
<1>6. V = Rights(tables, LastTable)
  OBVIOUS
<1>7. SizeOf(u) = Len(a) + Len(b) /\ SizeOf(w) = Len(a) + Len(c)
  BY <1>5 DEF SizeOf
<1> HIDE DEF V, a, b, w
<1>8. /\ Len(c) = Len(b) + 1 /\ Len(b) \in Nat /\ c[Len(b) + 1] = e
      /\ \A i \in 1 .. Len(b) : c[i] = b[i]
  BY <1>4, <1>6, AppendedElement DEF b
<1> HIDE DEF c
<1>9. Len(a) \in Nat
  BY <1>4 DEF a
<1>10. e = P(Len(a) + Len(b))
  BY <1>1, <1>7
<1> HIDE DEF P
<1>11. ASSUME NEW n \in 1 .. Len(c) PROVE c[n] = P(Len(a) + n - 1)
  <2>1. CASE n \in 1 .. Len(b)
    BY <1>3, <1>8, <2>1 DEF a, b
  <2>2. CASE n = Len(b) + 1
    <3>1. Len(a) + n - 1 = Len(a) + Len(b)
      BY <1>8, <1>9, <2>2
    <3>2. QED
      BY <1>8, <1>10, <2>2, <3>1
  <2>3. QED
    BY <1>8, <2>1, <2>2
<1>12. SizeOf(w) = SizeOf(t) + 1
  BY <1>1, <1>7, <1>8, <1>9
<1>13. w.file = a /\ w.cache = c
  BY <1>5 DEF a, b, c
<1>14. \A n \in 1 .. Len(w.file) : w.file[n] = P(n - 1)
  BY <1>3, <1>13 DEF a
<1>15. \A n \in 1 .. Len(w.cache) : w.cache[n] = P(Len(w.file) + n - 1)
  BY <1>11, <1>13
<1>16. w.num_entries = Len(w.file)
  BY <1>3, <1>5
<1>17. Filed(w, tables)
  BY <1>5, <1>6, <1>14, <1>15, <1>16 DEF Filed, P
<1>18. QED
  BY <1>2, <1>12, <1>17

\* WriteAll goes through the block from its first entry.
LEMMA WriteAllSteps ==
    ASSUME NEW V, NEW t \in FileOf(V), NEW block \in Seq(V)
    PROVE  \E g \in [0 .. Len(block) -> FileOf(V)] :
                /\ WriteAll(t, block) = g[Len(block)] /\ g[0] = t
                /\ \A x \in 1 .. Len(block) : g[x] = Write(g[x - 1], block[x])
<1> DEFINE W == FileOf(V)
           n == Len(block)
           step == [x \in 1 .. n |-> [v \in W |-> Write(v, block[x])]]
           Writes(f) == f = [x \in 0 .. n |-> IF x = 0 THEN t ELSE Write(f[x - 1], block[x])]
           written == CHOOSE f : Writes(f)
<1>1. n \in Nat /\ t \in W /\ \A x \in 1 .. n : block[x] \in V
  OBVIOUS
<1>2. ASSUME NEW x \in 1 .. n, NEW v \in W PROVE Write(v, block[x]) \in W
  BY <1>1, WriteType
<1>3. WriteAll(t, block) = written[n]
  BY DEF WriteAll
<1>4. \A f : Writes(f) <=> f = [x \in 0 .. n |-> IF x = 0 THEN t ELSE Write(f[x - 1], block[x])]
  BY Zenon
<1> HIDE DEF Writes
<1>5. \E f : Writes(f) /\ f \in [0 .. n -> W]
  <2>1. step \in [1 .. n -> [W -> W]]
    BY <1>2
  <2>2. \A x \in 1 .. n, v \in W : step[x][v] = Write(v, block[x])
    OBVIOUS
  <2> HIDE DEF step, W, n
  <2>3. PICK g \in [0 .. n -> W] : Solves(g, t, step, n)
    BY <1>1, <2>1, Recursion
  <2>4. g[0] = t
    BY <2>3 DEF Solves
  <2>5. ASSUME NEW x \in 1 .. n PROVE g[x] = Write(g[x - 1], block[x])
    <3>1. x - 1 \in 0 .. n
      BY <1>1
    <3>2. g[x - 1] \in W
      BY <3>1
    <3>3. g[x] = step[x][g[x - 1]]
      BY <2>3 DEF Solves
    <3>4. QED
      BY <3>2, <3>3, <2>2
  <2> DEFINE h == [x \in 0 .. n |-> IF x = 0 THEN t ELSE Write(g[x - 1], block[x])]
  <2>6. \A x \in 0 .. n : g[x] = IF x = 0 THEN t ELSE Write(g[x - 1], block[x])
    <3>1. \A x \in 0 .. n : x = 0 \/ x \in 1 .. n
      BY <1>1
    <3>2. \A x \in 1 .. n : x # 0
      BY <1>1
    <3>3. QED
      BY <3>1, <3>2, <2>4, <2>5, Zenon
  <2>7. \A x \in 0 .. n : h[x] = g[x]
    BY <2>6, Zenon
  <2>8. g = h
    <3>1. DOMAIN h = 0 .. n /\ h = [x \in DOMAIN h |-> h[x]]
      BY Zenon
    <3> HIDE DEF h
    <3>2. DOMAIN g = 0 .. n /\ g = [x \in DOMAIN g |-> g[x]]
      OBVIOUS
    <3>3. QED
      BY <3>1, <3>2, <2>7
  <2>9. Writes(g)
    BY <2>8, <1>4, Zenon
  <2>10. QED
    BY <2>9
<1>6. Writes(written)
  BY <1>5
<1> DEFINE h == [x \in 0 .. n |-> IF x = 0 THEN t ELSE Write(written[x - 1], block[x])]
<1>7. written = h
  <2> HIDE DEF written
  <2>1. QED
    BY <1>4, <1>6, Zenon
<1>8. written[0] = t /\ \A x \in 1 .. n : written[x] = Write(written[x - 1], block[x])
  <2> HIDE DEF written
  <2>1. \A x \in 0 .. n : h[x] = IF x = 0 THEN t ELSE Write(written[x - 1], block[x])
    BY Zenon
  <2> HIDE DEF h, n
  <2>2. \A x \in 1 .. n : x \in 0 .. n /\ x # 0
    BY <1>1
  <2>3. 0 \in 0 .. n
    BY <1>1
  <2>4. QED
    BY <1>7, <2>1, <2>2, <2>3
<1>9. written \in [0 .. n -> W]
  <2> DEFINE S == {x \in 0 .. n : written[x] \in W}
  <2> HIDE DEF written, W
  <2>1. 0 \in S
    <3>1. 0 \in 0 .. n
      BY <1>1
    <3>2. QED
      BY <1>1, <1>8, <3>1
  <2>2. ASSUME NEW x \in 1 .. n, x - 1 \in S PROVE x \in S
    <3>1. x \in 0 .. n
      BY <1>1
    <3>2. written[x] = Write(written[x - 1], block[x]) /\ written[x - 1] \in W
      BY <1>8, <2>2
    <3>3. QED
      BY <1>2, <3>1, <3>2
  <2>3. \A x \in 0 .. n : x \in S
    <3> HIDE DEF S
    <3>1. QED
      BY <1>1, <2>1, <2>2, Induction
  <2>4. DOMAIN h = 0 .. n /\ h = [x \in DOMAIN h |-> h[x]]
    BY Zenon
  <2>5. \A x \in 0 .. n : h[x] \in W
    BY <1>7, <2>3
  <2> HIDE DEF h
  <2>6. QED
    BY <1>7, <2>4, <2>5
<1> HIDE DEF written, h
<1>10. QED
  BY <1>3, <1>8, <1>9

\* A block of the last table that comes next is written to its place.
LEMMA BlockFiled ==
    ASSUME NEW tables, Linked(tables), NEW n \in Nat, NEW block, Ranked(tables, LastTable, block, n),
           NEW t, Filed(t, tables), SizeOf(t) = Begin(tables, LastTable, n)
    PROVE  /\ Filed(WriteAll(t, block), tables)
           /\ SizeOf(WriteAll(t, block)) = Begin(tables, LastTable, n + 1)
<1> DEFINE V == Rights(tables, LastTable)
           l == Len(block)
           begin == Begin(tables, LastTable, n)
           end == Begin(tables, LastTable, n + 1)
           N == NeededOf(tables)[LastTable]
           R(p) == Rank(tables, LastTable, p)
           L == Len(tables[LastTable])
<1>1. LastTable \in 1 .. LastTable
  BY BoundsAssumption
<1>2. L \in Nat /\ begin \in 0 .. L /\ end \in 0 .. L
  <2>1. L \in Nat
    BY <1>1, RankFacts
  <2>2. n + 1 \in Nat
    OBVIOUS
  <2>3. QED
    BY <1>1, <2>1, <2>2, BeginFacts
<1>3. \A p \in 0 .. L : R(p) = p
  BY RankLast
<1>4. N = 0 .. L - 1
  BY NeededFacts
<1>5. block \in Seq(V) /\ R(begin) + l = R(end) /\ \A x \in 1 .. l : R(block[x].at) = R(begin) + x - 1
  BY DEF Ranked
<1>6. \A e \in V : e.at \in N /\ e = Right(tables, LastTable, e.at)
  BY DEF Right, Rights
<1>7. V = Rights(tables, LastTable)
  OBVIOUS
<1> HIDE DEF V, l, begin, end, N, R, L
<1>8. begin + l = end
  BY <1>2, <1>3, <1>5
<1>9. ASSUME NEW x \in 1 .. l PROVE block[x] \in V /\ block[x] = Right(tables, LastTable, begin + x - 1)
  <2>1. block[x] \in V
    BY <1>5 DEF l
  <2>2. block[x].at \in 0 .. L - 1
    BY <1>4, <1>6, <2>1
  <2>3. block[x].at \in 0 .. L
    BY <1>2, <2>2
  <2>4. block[x].at = begin + x - 1
    BY <1>2, <1>3, <1>5, <2>3
  <2>5. QED
    BY <1>6, <2>1, <2>4
<1>10. t \in FileOf(V)
  BY <1>7 DEF Filed
<1>11. l \in Nat /\ Len(block) = l
  BY <1>5 DEF l
<1>12. PICK g \in [0 .. l -> FileOf(V)] :
            /\ WriteAll(t, block) = g[l] /\ g[0] = t
            /\ \A x \in 1 .. l : g[x] = Write(g[x - 1], block[x])
  <2>1. block \in Seq(V)
    BY <1>5
  <2>2. \E g \in [0 .. Len(block) -> FileOf(V)] :
            /\ WriteAll(t, block) = g[Len(block)] /\ g[0] = t
            /\ \A x \in 1 .. Len(block) : g[x] = Write(g[x - 1], block[x])
    BY ONLY <1>10, <2>1, WriteAllSteps
  <2>3. QED
    BY ONLY <1>11, <2>2
<1> DEFINE S == {x \in 0 .. l : Filed(g[x], tables) /\ SizeOf(g[x]) = begin + x}
<1>13. 0 \in S
  <2>1. begin + 0 = begin /\ 0 \in 0 .. l
    BY <1>2, <1>11
  <2>2. SizeOf(t) = begin
    BY DEF begin
  <2>3. QED
    BY <1>12, <2>1, <2>2
<1>14. ASSUME NEW x \in 1 .. l, x - 1 \in S PROVE x \in S
  <2> DEFINE u == g[x - 1]
  <2>1. x \in 0 .. l /\ begin + (x - 1) = begin + x - 1 /\ (begin + x - 1) + 1 = begin + x
    BY <1>2, <1>11
  <2>2. Filed(u, tables) /\ SizeOf(u) = begin + x - 1
    BY <1>14, <2>1
  <2>3. g[x] = Write(u, block[x])
    BY <1>12
  <2> HIDE DEF u
  <2>4. Filed(Write(u, block[x]), tables) /\ SizeOf(Write(u, block[x])) = SizeOf(u) + 1
    <3>1. block[x] \in Rights(tables, LastTable) /\ block[x] = Right(tables, LastTable, SizeOf(u))
      BY <1>7, <1>9, <2>2
    <3>2. QED
      BY <2>2, <3>1, WriteFiled
  <2>5. SizeOf(g[x]) = begin + x
    BY <2>1, <2>2, <2>3, <2>4
  <2>6. QED
    BY <2>1, <2>3, <2>4, <2>5
<1>15. l \in S
  <2> HIDE DEF S
  <2>1. \A x \in 0 .. l : x \in S
    BY <1>11, <1>13, <1>14, Induction
  <2>2. QED
    BY <1>11, <2>1
<1>16. QED
  BY <1>8, <1>12, <1>15 DEF end

-----------------------------------------------------------------------------
(* The stages *)

LEMMA BlocksNumber ==
    ASSUME Linked(input), R_index \in 2 .. LastTable
    PROVE  /\ NumBlocks \in Nat /\ Len(R_table) \in Nat
           /\ Begin(input, R_index, NumBlocks) = Len(R_table)
<1>1. R_index \in 1 .. LastTable
  BY BoundsAssumption
<1>2. NumBlocks \in Nat /\ Len(R_table) \in Nat
  BY <1>1, BeginFacts, RankFacts DEF NumBlocks, R_table
<1>3. NumBlocks >= NumBlocks
  BY <1>2
<1>4. QED
  BY <1>1, <1>2, <1>3, BeginFacts DEF NumBlocks, R_table

LEMMA InitStages == Init => Stages
<1> SUFFICES ASSUME Init PROVE Stages
  OBVIOUS
<1>1. R_index \in 2 .. LastTable /\ given \in Nat /\ stage = "waiting"
  BY BoundsAssumption DEF Init
<1>2. DOMAIN marking = Worker /\ \A w \in Worker : marking[w] = <<>>
  BY DEF Init
<1>3. marking \in [Worker -> {<<>>}]
  BY DEF Init
<1>4. QED
  BY <1>1, <1>2, <1>3 DEF Init, Stages, Started

LEMMA NextStages == Stages /\ [Step]_vars => Stages'
<1> SUFFICES ASSUME Stages, [Step]_vars PROVE Stages'
  OBVIOUS
<1>1. /\ R_index \in 2 .. LastTable /\ given \in Nat
      /\ stage \in {"waiting", "mark", "rewrite", "done"}
      /\ DOMAIN marking = Worker
      /\ ~Started => /\ R_index = LastTable /\ given = 0 /\ num_written = 0 /\ next_bitfield = {}
                     /\ table_7 = [cache |-> <<>>, file |-> <<>>, num_entries |-> 0]
                     /\ marking \in [Worker -> {<<>>}]
      /\ Started => Linked(input) /\ given <= NumBlocks
      /\ stage # "mark" => \A w \in Worker : marking[w] = <<>>
      /\ stage # "rewrite" => mapping = <<>> /\ counting = <<>> /\ writing = <<>>
      /\ stage = "mark" => num_written = 0
      /\ stage = "done" => R_index = 2
  BY DEF Stages
<1>2. Started => NumBlocks \in Nat
  BY <1>1, BlocksNumber
<1>3. ASSUME UNCHANGED vars PROVE Stages'
  BY <1>1, <1>3 DEF Stages, Started, vars, pools, output, NumBlocks, R_table
<1>4. CASE GiveMark
  <2>1. given + 1 \in Nat /\ given + 1 <= NumBlocks /\ stage = "mark" /\ Started
    BY <1>1, <1>2, <1>4 DEF GiveMark, Started
  <2>2. DOMAIN marking' = Worker
    BY <1>1, <1>4 DEF GiveMark
  <2>3. QED
    BY <1>1, <1>4, <2>1, <2>2 DEF GiveMark, Stages, Started, output, NumBlocks, R_table
<1>5. ASSUME NEW w \in Worker, MarkEntry(w) PROVE Stages'
  <2>1. stage = "mark" /\ DOMAIN marking' = Worker
    BY <1>1, <1>5 DEF MarkEntry
  <2>2. QED
    BY <1>1, <1>5, <2>1 DEF MarkEntry, Stages, Started, output, NumBlocks, R_table
<1>6. CASE EndMark
  <2>1. Started /\ Started' /\ marking' = marking /\ \A w \in Worker : marking[w] = <<>>
    BY <1>6 DEF EndMark, Started, AllMarked, pools
  <2>2. 0 \in Nat /\ 0 <= NumBlocks /\ NumBlocks' = NumBlocks
    BY <1>2, <1>6, <2>1 DEF EndMark, NumBlocks, R_table
  <2>3. QED
    BY <1>1, <1>6, <2>1, <2>2 DEF EndMark, Stages, pools
<1>7. CASE GiveRewrite
  <2>1. given + 1 \in Nat /\ given + 1 <= NumBlocks /\ stage = "rewrite" /\ Started
    BY <1>1, <1>2, <1>7 DEF GiveRewrite, Started
  <2>2. QED
    BY <1>1, <1>7, <2>1 DEF GiveRewrite, Stages, Started, output, NumBlocks, R_table
<1>8. ASSUME NEW n \in 1 .. Workers, MapBlock(n) PROVE Stages'
  <2>1. stage = "rewrite"
    <3>1. DOMAIN mapping # {}
      BY <1>8 DEF MapBlock
    <3>2. mapping # <<>>
      BY <3>1
    <3>3. QED
      BY <1>1, <3>2
  <2>2. QED
    BY <1>1, <1>8, <2>1 DEF MapBlock, Stages, Started, output, NumBlocks, R_table
<1>9. CASE DeliverMapped
  <2>1. stage = "rewrite"
    <3>1. DOMAIN mapping # {}
      BY <1>9 DEF DeliverMapped, FirstMapped
    <3>2. mapping # <<>>
      BY <3>1
    <3>3. QED
      BY <1>1, <3>2
  <2>2. QED
    BY <1>1, <1>9, <2>1 DEF DeliverMapped, Stages, Started, output, NumBlocks, R_table
<1>10. CASE CountBlock
  <2>1. stage = "rewrite"
    BY <1>1, <1>10 DEF CountBlock
  <2>2. QED
    BY <1>1, <1>10, <2>1 DEF CountBlock, Stages, Started, output, NumBlocks, R_table
<1>11. ASSUME NEW n \in 1 .. Adders + 2, WriteBlock(n) PROVE Stages'
  <2>1. stage = "rewrite"
    <3>1. DOMAIN writing # {}
      BY <1>11 DEF WriteBlock
    <3>2. writing # <<>>
      BY <3>1
    <3>3. QED
      BY <1>1, <3>2
  <2>2. QED
    BY <1>1, <1>11, <2>1 DEF WriteBlock, Stages, Started, output, NumBlocks, R_table
<1>12. CASE NextTable
  <2>1. /\ stage = "rewrite" /\ Started /\ Linked(input) /\ input' = input
        /\ mapping' = <<>> /\ counting' = <<>> /\ writing' = <<>> /\ marking' = marking
        /\ \A w \in Worker : marking[w] = <<>>
    BY <1>1, <1>12 DEF NextTable, Rewritten, Started, pools
  <2>2. CASE R_index = 2
    <3>1. stage' = "done" /\ R_index' = R_index /\ given' = given /\ Started'
      BY <1>12, <2>2 DEF NextTable, Started
    <3>2. NumBlocks' = NumBlocks
      BY <2>1, <3>1 DEF NumBlocks, R_table
    <3>3. QED
      BY <1>1, <2>1, <2>2, <3>1, <3>2 DEF Stages
  <2>3. CASE R_index # 2
    <3>1. stage' = "mark" /\ R_index' = R_index - 1 /\ given' = 0 /\ num_written' = 0 /\ Started'
      BY <1>12, <2>3 DEF NextTable, Started
    <3>2. R_index' \in 2 .. LastTable
      BY <1>1, <2>3, <3>1, BoundsAssumption
    <3>3. NumBlocks' \in Nat /\ Linked(input')
      <4> DEFINE l == Len(input[R_index - 1])
      <4>1. NumBlocks' = (l + BlockSize - 1) \div BlockSize
        BY <2>1, <3>1 DEF NumBlocks, R_table
      <4>2. R_index - 1 \in 1 .. LastTable
        BY <1>1, BoundsAssumption
      <4>3. QED
        BY <2>1, <4>1, <4>2, BeginFacts
    <3>4. QED
      BY <1>1, <2>1, <3>1, <3>2, <3>3 DEF Stages
  <2>4. QED
    BY <2>2, <2>3
<1>13. ASSUME NEW tables, Linked(tables), Start(tables) PROVE Stages'
  <2>1. /\ stage = "waiting" /\ stage' = "mark" /\ Started' /\ input' = tables /\ R_index' = LastTable /\ given' = 0
        /\ R_index = LastTable
    BY <1>1, <1>13 DEF Start, Started
  <2>2. NumBlocks' \in Nat /\ Linked(input')
    <3>1. NumBlocks' = (Len(tables[LastTable]) + BlockSize - 1) \div BlockSize
      BY <2>1 DEF NumBlocks, R_table
    <3>2. LastTable \in 1 .. LastTable
      BY BoundsAssumption
    <3>3. QED
      BY <1>13, <2>1, <3>1, <3>2, BeginFacts
  <2>3. QED
    BY <1>1, <1>13, <2>1, <2>2 DEF Start, Stages, Started, pools
<1>14. QED
  BY <1>3, <1>4, <1>5, <1>6, <1>7, <1>8, <1>9, <1>10, <1>11, <1>12, <1>13
     DEF Step, Next, MarkSome, MapSome, WriteSome

-----------------------------------------------------------------------------
(* The marks *)

Covered(p) ==
    \/ stage = "mark" /\ p >= Begin(input, R_index, given)
    \/ Leads(input, R_index, p) \subseteq next_bitfield
    \/ \E w \in Worker : \E j \in 1 .. Len(marking[w]) : marking[w][j].at = p

LEMMA MarksParts ==
    Marks <=>
    (Started =>
     /\ R_index < LastTable => curr_bitfield = NeededOf(input)[R_index]
     /\ marking \in [Worker -> Seq(Plains(input, R_index))]
     /\ next_bitfield \subseteq NeededOf(input)[R_index - 1]
     /\ \A p \in NeededOf(input)[R_index] : Covered(p))
BY DEF Marks, Covered

\* When the marking is over, everything that is needed is marked, and nothing else.
LEMMA AllIsMarked ==
    ASSUME Stages, Marks, Started, stage # "mark" \/ AllMarked
    PROVE  next_bitfield = NeededOf(input)[R_index - 1]
<1> DEFINE N == NeededOf(input)[R_index]
           N1 == NeededOf(input)[R_index - 1]
<1>1. R_index \in 2 .. LastTable /\ Linked(input) /\ R_index \in 1 .. LastTable
  BY BoundsAssumption DEF Stages
<1>2. \A w \in Worker : marking[w] = <<>>
  BY DEF Stages, AllMarked
<1>3. N1 = UNION {Leads(input, R_index, p) : p \in N}
  BY <1>1, NeededFacts
<1>4. ASSUME NEW p \in N PROVE Leads(input, R_index, p) \subseteq next_bitfield
  <2>1. Covered(p)
    BY MarksParts
  <2>2. ~\E w \in Worker : \E j \in 1 .. Len(marking[w]) : marking[w][j].at = p
    BY <1>2
  <2>3. ~(stage = "mark" /\ p >= Begin(input, R_index, given))
    <3>1. CASE stage # "mark"
      BY <3>1
    <3>2. CASE AllMarked
      <4>1. Begin(input, R_index, given) = Len(input[R_index])
        BY <1>1, <3>2, BlocksNumber DEF AllMarked, R_table
      <4>2. p \in 0 .. Len(input[R_index]) - 1 /\ Len(input[R_index]) \in Nat
        BY <1>1, RankFacts
      <4>3. QED
        BY <4>1, <4>2
    <3>3. QED
      BY <3>1, <3>2
  <2>4. QED
    BY <2>1, <2>2, <2>3 DEF Covered
<1>5. next_bitfield \subseteq N1
  BY MarksParts
<1> HIDE DEF N, N1
<1>6. QED
  BY <1>3, <1>4, <1>5 DEF N1

LEMMA InitMarks == Init => Marks
BY DEF Init, Marks, Started

LEMMA MarksSteady ==
    ASSUME Marks, UNCHANGED <<input, R_index, stage, curr_bitfield, next_bitfield, marking>>,
           stage = "mark" => given' = given
    PROVE  Marks'
<1> SUFFICES ASSUME Started' PROVE Marks'
  BY DEF Marks
<1>1. Started /\ input' = input /\ R_index' = R_index /\ marking' = marking
  BY DEF Started
<1>2. \A p \in NeededOf(input)[R_index] : Covered(p)'
  <2>1. \A p \in NeededOf(input)[R_index] : Covered(p)
    BY <1>1, MarksParts
  <2>2. QED
    BY <1>1, <2>1 DEF Covered
<1>3. QED
  BY <1>1, <1>2, MarksParts DEF Marks, Covered

\* The worker that is given a block has to mark what its entries lead to.
LEMMA GivenMarks == Stages /\ Marks /\ GiveMark => Marks'
<1> SUFFICES ASSUME Stages, Marks, GiveMark PROVE Marks'
  OBVIOUS
<1> DEFINE v == given % Workers
           N == NeededOf(input)[R_index]
           V == Plains(input, R_index)
<1>1. /\ stage = "mark" /\ given < NumBlocks /\ marking[v] = <<>>
      /\ marking' = [marking EXCEPT ![v] = Block(given)] /\ given' = given + 1
      /\ UNCHANGED <<input, R_index, stage, curr_bitfield, next_bitfield>>
  BY DEF GiveMark
<1>2. Started /\ Started' /\ given \in Nat /\ R_index \in 2 .. LastTable /\ Linked(input)
  BY <1>1 DEF Stages, Started
<1>3. v \in Worker
  BY <1>2, BoundsAssumption DEF Worker
<1>4. /\ R_index < LastTable => curr_bitfield = NeededOf(input)[R_index]
      /\ marking \in [Worker -> Seq(V)]
      /\ next_bitfield \subseteq NeededOf(input)[R_index - 1]
      /\ \A p \in N : Covered(p)
  BY <1>2, MarksParts
<1>5. /\ Block(given) \in Seq(V)
      /\ Begin(input, R_index, given) + Len(Block(given)) = Begin(input, R_index, given + 1)
      /\ \A j \in 1 .. Len(Block(given)) :
            Block(given)[j] = Plain(input, R_index, Begin(input, R_index, given) + j - 1)
  BY <1>1, <1>2, BlockFacts
<1> HIDE DEF v
<1>6. /\ marking' \in [Worker -> Seq(V)] /\ marking'[v] = Block(given)
      /\ \A w \in Worker : w # v => marking'[w] = marking[w]
  <2> HIDE DEF V
  <2>1. QED
    BY <1>1, <1>3, <1>4, <1>5
<1>7. ASSUME NEW p \in N PROVE Covered(p)'
  <2>1. Covered(p)
    BY <1>4
  <2>2. CASE Leads(input, R_index, p) \subseteq next_bitfield
    BY <1>1, <2>2 DEF Covered
  <2>3. CASE \E w \in Worker : \E j \in 1 .. Len(marking[w]) : marking[w][j].at = p
    <3>1. PICK w \in Worker : \E j \in 1 .. Len(marking[w]) : marking[w][j].at = p
      BY <2>3
    <3>2. w # v
      <4>1. 1 .. Len(<<>>) = {}
        OBVIOUS
      <4>2. QED
        BY <1>1, <3>1, <4>1
    <3>3. marking'[w] = marking[w]
      BY <1>6, <3>2
    <3>4. QED
      BY <3>1, <3>3 DEF Covered
  <2>4. CASE p >= Begin(input, R_index, given)
    <3>1. CASE p >= Begin(input, R_index, given + 1)
      BY <1>1, <3>1 DEF Covered
    <3>2. CASE ~(p >= Begin(input, R_index, given + 1))
      <4> DEFINE b == Begin(input, R_index, given)
                 j == p - b + 1
                 s == Block(given)
      <4>1. p \in Nat /\ b \in Nat /\ Len(s) \in Nat
        <5>1. R_index \in 1 .. LastTable
          BY <1>2, BoundsAssumption
        <5>2. N \in SUBSET Nat
          BY <1>2, <5>1, RankFacts
        <5>3. b \in 0 .. Len(input[R_index])
          BY <1>2, <5>1, BeginFacts
        <5>4. Len(s) \in Nat
          <6> HIDE DEF s, V
          <6>1. QED
            BY <1>5 DEF s
        <5>5. b \in Nat
          BY <5>3
        <5>6. QED
          BY <5>2, <5>4, <5>5
      <4>2. b + Len(s) = Begin(input, R_index, given + 1)
        BY <1>5
      <4>3. p >= b /\ ~(p >= b + Len(s))
        BY <2>4, <3>2, <4>2
      <4> HIDE DEF b, s
      <4>4. j \in 1 .. Len(s) /\ b + j - 1 = p
        BY <4>1, <4>3
      <4> HIDE DEF j
      <4>5. s[j] = Plain(input, R_index, p)
        BY <1>5, <4>4 DEF b, s
      <4>6. marking'[v] = s
        BY <1>6 DEF s
      <4>7. marking'[v][j].at = p
        BY <4>5, <4>6 DEF Plain
      <4>8. QED
        BY <1>3, <4>4, <4>6, <4>7 DEF Covered
    <3>3. QED
      BY <3>1, <3>2
  <2>5. QED
    BY <2>1, <2>2, <2>3, <2>4 DEF Covered
<1>8. Started' => \A p \in NeededOf(input')[R_index'] : Covered(p)'
  BY <1>1, <1>7
<1>9. /\ R_index' < LastTable => curr_bitfield' = NeededOf(input')[R_index']
      /\ marking' \in [Worker -> Seq(Plains(input', R_index'))]
      /\ next_bitfield' \subseteq NeededOf(input')[R_index' - 1]
  BY <1>1, <1>4, <1>6
<1>10. QED
  BY <1>8, <1>9 DEF Marks, Covered

\* A worker marks what an entry leads to if that entry is needed.
LEMMA MarkedMarks == Stages /\ Marks /\ (\E w \in Worker : MarkEntry(w)) => Marks'
<1> SUFFICES ASSUME Stages, Marks, NEW v \in Worker, MarkEntry(v) PROVE Marks'
  OBVIOUS
<1> DEFINE N == NeededOf(input)[R_index]
           N1 == NeededOf(input)[R_index - 1]
           V == Plains(input, R_index)
           s == marking[v]
           e == Head(s)
           L == Len(input[R_index])
<1>1. /\ s # <<>> /\ next_bitfield' = next_bitfield \cup Mark(e)
      /\ marking' = [marking EXCEPT ![v] = Tail(s)]
      /\ UNCHANGED <<input, R_index, stage, curr_bitfield, given>>
  BY DEF MarkEntry
<1>2. stage = "mark" /\ Started /\ Started' /\ R_index \in 2 .. LastTable /\ Linked(input)
  BY <1>1 DEF Stages, Started
<1>3. /\ R_index < LastTable => curr_bitfield = N
      /\ marking \in [Worker -> Seq(V)]
      /\ next_bitfield \subseteq N1
      /\ \A p \in N : Covered(p)
  BY <1>2, MarksParts
<1>4. R_index \in 1 .. LastTable /\ R_index - 1 \in 1 .. LastTable /\ (R_index = LastTable \/ R_index < LastTable)
  BY <1>2, BoundsAssumption
<1>5. R_index = LastTable => N = 0 .. L - 1
  BY <1>2, NeededFacts
<1>6. N1 = UNION {Leads(input, R_index, p) : p \in N}
  BY <1>2, NeededFacts
<1>7. ASSUME NEW x \in V
      PROVE  /\ x.at \in 0 .. L - 1 /\ Leads(input, R_index, x.at) = {x.pos, x.pos + x.off}
  BY DEF Plains, Plain, Leads
<1>8. s \in Seq(V)
  BY <1>3
<1> HIDE DEF V, s
<1>9. /\ e \in V /\ s[1] = e /\ Tail(s) \in Seq(V) /\ Len(s) \in Nat \ {0} /\ Len(Tail(s)) = Len(s) - 1
      /\ \A j \in 1 .. Len(s) - 1 : Tail(s)[j] = s[j + 1]
  BY <1>1, <1>8, TailElements
<1> HIDE DEF e
<1>10. Used(e) <=> e.at \in N
  BY <1>3, <1>4, <1>5, <1>7, <1>9 DEF Used
<1>11. Mark(e) = IF e.at \in N THEN Leads(input, R_index, e.at) ELSE {}
  BY <1>7, <1>9, <1>10 DEF Mark
<1>12. Mark(e) \subseteq N1
  BY <1>6, <1>11
<1>13. /\ marking' \in [Worker -> Seq(V)] /\ marking'[v] = Tail(s)
       /\ \A w \in Worker : w # v => marking'[w] = marking[w]
  BY <1>1, <1>3, <1>9
<1>14. ASSUME NEW p \in N PROVE Covered(p)'
  <2>1. Covered(p)
    BY <1>3
  <2>2. CASE stage = "mark" /\ p >= Begin(input, R_index, given)
    BY <1>1, <2>2 DEF Covered
  <2>3. CASE Leads(input, R_index, p) \subseteq next_bitfield
    BY <1>1, <2>3 DEF Covered
  <2>4. CASE \E w \in Worker : \E j \in 1 .. Len(marking[w]) : marking[w][j].at = p
    <3>1. PICK w \in Worker : \E j \in 1 .. Len(marking[w]) : marking[w][j].at = p
      BY <2>4
    <3>2. PICK j \in 1 .. Len(marking[w]) : marking[w][j].at = p
      BY <3>1
    <3>3. CASE w # v
      BY <1>13, <3>2, <3>3 DEF Covered
    <3>4. CASE w = v /\ j = 1
      <4>1. e.at = p
        BY <1>9, <3>2, <3>4 DEF s
      <4>2. Leads(input, R_index, p) \subseteq next_bitfield'
        BY <1>1, <1>11, <4>1
      <4>3. QED
        BY <1>1, <4>2 DEF Covered
    <3>5. CASE w = v /\ j # 1
      <4>1. j - 1 \in 1 .. Len(s) - 1 /\ (j - 1) + 1 = j
        BY <1>9, <3>2, <3>5 DEF s
      <4>2. j - 1 \in 1 .. Len(marking'[v]) /\ marking'[v][j - 1].at = p
        BY <1>9, <1>13, <3>2, <3>5, <4>1 DEF s
      <4>3. QED
        BY <4>2 DEF Covered
    <3>6. QED
      BY <3>3, <3>4, <3>5
  <2>5. QED
    BY <2>1, <2>2, <2>3, <2>4 DEF Covered
<1>15. \A p \in NeededOf(input')[R_index'] : Covered(p)'
  BY <1>1, <1>14
<1>16. /\ R_index' < LastTable => curr_bitfield' = NeededOf(input')[R_index']
       /\ marking' \in [Worker -> Seq(Plains(input', R_index'))]
       /\ next_bitfield' \subseteq NeededOf(input')[R_index' - 1]
  BY <1>1, <1>3, <1>12, <1>13 DEF V
<1>17. QED
  BY <1>15, <1>16 DEF Marks, Covered

\* A table begins with everything still to be given, and with no marks.
LEMMA NewMarks ==
    ASSUME NEW r, Linked(input'), R_index' = r, r \in 2 .. LastTable, stage' = "mark", given' = 0,
           next_bitfield' = {}, marking' \in [Worker -> {<<>>}],
           r < LastTable => curr_bitfield' = NeededOf(input')[r]
    PROVE  Marks'
<1> DEFINE t == input'
<1>1. \A p \in NeededOf(input')[R_index'] : Covered(p)'
  <2>1. r \in 1 .. LastTable
    BY BoundsAssumption
  <2> HIDE DEF t
  <2>2. Linked(t)
    BY DEF t
  <2>3. NeededOf(t)[r] \in SUBSET Nat /\ Begin(t, r, 0) = 0
    BY <2>1, <2>2, RankFacts, BeginFacts
  <2>4. \A p \in NeededOf(t)[r] : p >= Begin(t, r, 0)
    BY <2>3
  <2>5. QED
    BY <2>4 DEF Covered, t
<1>2. marking' \in [Worker -> Seq(Plains(input', R_index'))]
  <2> DEFINE V == Plains(input', R_index')
  <2> HIDE DEF V
  <2>1. {<<>>} \subseteq Seq(V)
    OBVIOUS
  <2>2. marking' \in [Worker -> Seq(V)]
    BY <2>1
  <2>3. QED
    BY <2>2 DEF V
<1>3. QED
  BY <1>1, <1>2 DEF Marks, Covered

LEMMA NextMarks == Stages /\ Marks /\ [Step]_vars => Marks'
<1> SUFFICES ASSUME Stages, Marks, [Step]_vars PROVE Marks'
  OBVIOUS
<1>1. CASE UNCHANGED vars
  BY <1>1, MarksSteady DEF vars, pools
<1>2. CASE GiveMark
  BY <1>2, GivenMarks
<1>3. CASE MarkSome
  BY <1>3, MarkedMarks DEF MarkSome
<1>4. CASE EndMark
  <2>1. /\ stage = "mark" /\ AllMarked /\ stage' = "rewrite" /\ Started /\ Started'
        /\ UNCHANGED <<input, R_index, curr_bitfield, next_bitfield, marking>>
    BY <1>4 DEF EndMark, pools, Started
  <2>2. next_bitfield = NeededOf(input)[R_index - 1]
    BY <2>1, AllIsMarked
  <2>3. NeededOf(input)[R_index - 1] = UNION {Leads(input, R_index, p) : p \in NeededOf(input)[R_index]}
    BY <2>1, NeededFacts DEF Stages
  <2>4. \A p \in NeededOf(input)[R_index] : Leads(input, R_index, p) \subseteq next_bitfield
    BY <2>2, <2>3
  <2>5. \A p \in NeededOf(input')[R_index'] : Covered(p)'
    BY <2>1, <2>4 DEF Covered
  <2>6. /\ R_index < LastTable => curr_bitfield = NeededOf(input)[R_index]
        /\ marking \in [Worker -> Seq(Plains(input, R_index))]
        /\ next_bitfield \subseteq NeededOf(input)[R_index - 1]
    BY <2>1, MarksParts
  <2>7. /\ R_index' < LastTable => curr_bitfield' = NeededOf(input')[R_index']
        /\ marking' \in [Worker -> Seq(Plains(input', R_index'))]
        /\ next_bitfield' \subseteq NeededOf(input')[R_index' - 1]
    BY <2>1, <2>6
  <2>8. QED
    BY <2>5, <2>7 DEF Marks, Covered
<1>5. CASE GiveRewrite
  BY <1>5, MarksSteady DEF GiveRewrite
<1>6. CASE MapSome
  BY <1>6, MarksSteady DEF MapSome, MapBlock
<1>7. CASE DeliverMapped
  BY <1>7, MarksSteady DEF DeliverMapped
<1>8. CASE CountBlock
  BY <1>8, MarksSteady DEF CountBlock
<1>9. CASE WriteSome
  BY <1>9, MarksSteady DEF WriteSome, WriteBlock
<1>10. CASE NextTable
  <2>1. /\ stage = "rewrite" /\ Started /\ input' = input /\ marking' = marking
        /\ R_index \in 2 .. LastTable /\ Linked(input)
        /\ DOMAIN marking = Worker /\ \A w \in Worker : marking[w] = <<>>
    BY <1>10 DEF NextTable, pools, Started, Stages
  <2>2. next_bitfield = NeededOf(input)[R_index - 1] /\ marking \in [Worker -> {<<>>}]
    <3>1. marking \in [Worker -> Seq(Plains(input, R_index))]
      BY <2>1, MarksParts
    <3>2. QED
      BY <2>1, <3>1, AllIsMarked
  <2>3. CASE R_index = 2
    <3>1. /\ stage' = "done" /\ Started'
          /\ UNCHANGED <<input, R_index, curr_bitfield, next_bitfield, marking>>
      BY <1>10, <2>1, <2>3 DEF NextTable, Started
    <3>2. \A p \in NeededOf(input)[R_index] : Covered(p)
      BY <2>1, MarksParts
    <3>3. \A p \in NeededOf(input')[R_index'] : Covered(p)'
      BY <2>1, <3>1, <3>2 DEF Covered
    <3>4. /\ R_index < LastTable => curr_bitfield = NeededOf(input)[R_index]
          /\ marking \in [Worker -> Seq(Plains(input, R_index))]
          /\ next_bitfield \subseteq NeededOf(input)[R_index - 1]
      BY <2>1, MarksParts
    <3>5. QED
      BY <3>1, <3>3, <3>4 DEF Marks, Covered
  <2>4. CASE R_index # 2
    <3>1. /\ stage' = "mark" /\ R_index' = R_index - 1 /\ given' = 0
          /\ curr_bitfield' = next_bitfield /\ next_bitfield' = {}
      BY <1>10, <2>4 DEF NextTable, Cleared
    <3>2. R_index - 1 \in 2 .. LastTable
      BY <2>1, <2>4, BoundsAssumption
    <3>3. QED
      BY <2>1, <2>2, <3>1, <3>2, NewMarks
  <2>5. QED
    BY <2>3, <2>4
<1>11. ASSUME NEW tables, Linked(tables), Start(tables) PROVE Marks'
  <2>1. /\ stage = "waiting" /\ stage' = "mark" /\ ~Started /\ input' = tables /\ R_index' = R_index
        /\ given' = given /\ next_bitfield' = next_bitfield /\ marking' = marking
    BY <1>11 DEF Start, pools, Started
  <2>2. /\ R_index' = LastTable /\ given' = 0 /\ next_bitfield' = {}
        /\ marking' \in [Worker -> {<<>>}]
    BY <2>1 DEF Stages
  <2>3. LastTable \in 2 .. LastTable /\ ~(LastTable < LastTable)
    BY BoundsAssumption
  <2>4. QED
    BY <1>11, <2>1, <2>2, <2>3, NewMarks
<1>12. QED
  BY <1>1, <1>2, <1>3, <1>4, <1>5, <1>6, <1>7, <1>8, <1>9, <1>10, <1>11 DEF Step, Next

-----------------------------------------------------------------------------
(* The index, and the blocks on their way *)

LEMMA RemovedElement ==
    ASSUME NEW V, NEW s \in Seq(V), NEW n \in 1 .. Len(s)
    PROVE  /\ Len(s) \in Nat \ {0} /\ RemoveAt(s, n) \in Seq(V) /\ Len(RemoveAt(s, n)) = Len(s) - 1
           /\ \A x \in 1 .. n - 1 : RemoveAt(s, n)[x] = s[x]
           /\ \A x \in n .. Len(s) - 1 : RemoveAt(s, n)[x] = s[x + 1]
<1> DEFINE a == SubSeq(s, 1, n - 1)
           b == SubSeq(s, n + 1, Len(s))
<1>1. Len(s) \in Nat \ {0} /\ n \in Nat /\ 1 <= n /\ n <= Len(s)
  OBVIOUS
<1>2. a \in Seq(V) /\ Len(a) = n - 1 /\ \A x \in 1 .. n - 1 : a[x] = s[x]
  BY <1>1
<1>3. b \in Seq(V) /\ Len(b) = Len(s) - n /\ \A x \in 1 .. Len(s) - n : b[x] = s[n + x]
  BY <1>1
<1>4. RemoveAt(s, n) = a \o b
  BY DEF RemoveAt
<1> HIDE DEF a, b
<1>5. /\ a \o b \in Seq(V) /\ Len(a \o b) = Len(a) + Len(b)
      /\ \A i \in 1 .. Len(a) : (a \o b)[i] = a[i]
      /\ \A i \in Len(a) + 1 .. Len(a) + Len(b) : (a \o b)[i] = b[i - Len(a)]
  BY ZenonT(60), <1>2, <1>3, JoinedTwo
<1>6. ASSUME NEW x \in n .. Len(s) - 1 PROVE (a \o b)[x] = s[x + 1]
  <2>1. x \in Len(a) + 1 .. Len(a) + Len(b) /\ x - Len(a) \in 1 .. Len(s) - n /\ n + (x - Len(a)) = x + 1
    BY <1>1, <1>2, <1>3
  <2>2. QED
    BY <1>3, <1>5, <2>1
<1>7. Len(a \o b) = Len(s) - 1
  BY <1>1, <1>2, <1>3, <1>5
<1>8. \A x \in 1 .. n - 1 : (a \o b)[x] = s[x]
  BY <1>2, <1>5
<1>9. QED
  BY <1>1, <1>4, <1>5, <1>6, <1>7, <1>8

LEMMA InitIndex == Init => IndexRight
BY DEF Init, IndexRight

LEMMA IndexSteady ==
    ASSUME IndexRight, UNCHANGED <<input, R_index, stage, index>>
    PROVE  IndexRight'
BY DEF IndexRight, IndexSize, max_table_size

LEMMA NextIndex == Stages /\ Marks /\ IndexRight /\ [Step]_vars => IndexRight'
<1> SUFFICES ASSUME Stages, Marks, IndexRight, [Step]_vars PROVE IndexRight'
  OBVIOUS
<1>1. CASE UNCHANGED vars
  BY <1>1, IndexSteady DEF vars
<1>2. CASE GiveMark
  BY <1>2, IndexSteady DEF GiveMark
<1>3. CASE MarkSome
  BY <1>3, IndexSteady DEF MarkSome, MarkEntry
<1>4. CASE EndMark
  <2>1. /\ stage = "mark" /\ AllMarked /\ Started /\ R_index \in 2 .. LastTable /\ Linked(input)
        /\ index' = Index(next_bitfield) /\ UNCHANGED <<input, R_index>>
    BY <1>4 DEF EndMark, Started, Stages
  <2>2. next_bitfield = NeededOf(input)[R_index - 1]
    BY <2>1, AllIsMarked
  <2>3. \A n \in 0 .. IndexSize - 1 : index'[n] = Rank(input, R_index - 1, n * kIndexBucket)
    BY <2>1, <2>2, IndexOfMarks
  <2>4. IndexSize' = IndexSize
    BY <2>1 DEF IndexSize, max_table_size
  <2>5. QED
    BY <2>1, <2>3, <2>4 DEF IndexRight
<1>5. CASE GiveRewrite
  BY <1>5, IndexSteady DEF GiveRewrite
<1>6. CASE MapSome
  BY <1>6, IndexSteady DEF MapSome, MapBlock
<1>7. CASE DeliverMapped
  BY <1>7, IndexSteady DEF DeliverMapped
<1>8. CASE CountBlock
  BY <1>8, IndexSteady DEF CountBlock
<1>9. CASE WriteSome
  BY <1>9, IndexSteady DEF WriteSome, WriteBlock
<1>10. CASE NextTable
  BY <1>10 DEF NextTable, IndexRight
<1>11. CASE \E tables : Linked(tables) /\ Start(tables)
  BY <1>11 DEF Start, IndexRight
<1>12. QED
  BY <1>1, <1>2, <1>3, <1>4, <1>5, <1>6, <1>7, <1>8, <1>9, <1>10, <1>11 DEF Step, Next

MapEntry == [mapped : BOOLEAN,
             entries : Seq(Plains(input, R_index)) \cup Seq(Rights(input, R_index))]

\* The n-th block in map_pool is as it was given, or as it is mapped.
InPool(m, b) ==
    IF m.mapped THEN Ranked(input, R_index, m.entries, b) ELSE m.entries = Block(b)

LEMMA PipelineParts ==
    Pipeline <=>
    (stage = "rewrite" =>
     /\ mapping \in Seq(MapEntry) /\ counting \in Seq(Seq(Rights(input, R_index))) /\ Counted \in Nat
     /\ \A n \in 1 .. Len(mapping) : InPool(mapping[n], Counted + Len(counting) + n - 1)
     /\ \A n \in 1 .. Len(counting) : Ranked(input, R_index, counting[n], Counted + n - 1)
     /\ num_written = Rank(input, R_index, Begin(input, R_index, Counted)))
BY DEF Pipeline, MapEntry, InPool

LEMMA InitPipeline == Init => Pipeline
BY DEF Init, Pipeline

LEMMA PipelineSteady ==
    ASSUME Pipeline, UNCHANGED <<input, R_index, stage, given, mapping, counting, num_written>>
    PROVE  Pipeline'
<1>1. Counted' = Counted
  BY DEF Counted
<1>2. \A b : Block(b)' = Block(b)
  BY DEF Block, R_table
<1>3. QED
  BY <1>1, <1>2 DEF Pipeline

LEMMA PipelineNow ==
    ASSUME UNCHANGED <<input, R_index>>, NEW c \in Nat, Counted' = c,
           mapping' \in Seq(MapEntry), counting' \in Seq(Seq(Rights(input, R_index))),
           \A n \in 1 .. Len(mapping') : InPool(mapping'[n], c + Len(counting') + n - 1),
           \A n \in 1 .. Len(counting') : Ranked(input, R_index, counting'[n], c + n - 1),
           num_written' = Rank(input, R_index, Begin(input, R_index, c))
    PROVE  Pipeline'
<1>1. \A b : Block(b)' = Block(b)
  BY DEF Block, R_table
<1>2. MapEntry' = MapEntry
  BY DEF MapEntry
<1>3. QED
  BY <1>1, <1>2 DEF Pipeline, MapEntry, InPool

\* A block of the pipeline: which one it is, and that map_pool maps it to what it should.
LEMMA PooledBlock ==
    ASSUME Stages, Pipeline, stage = "rewrite", NEW n \in 1 .. Len(mapping)
    PROVE  LET b == Counted + Len(counting) + n - 1 IN
           /\ b \in Nat /\ b < NumBlocks
           /\ InPool(mapping[n], b) /\ mapping[n] \in MapEntry
<1> DEFINE b == Counted + Len(counting) + n - 1
           m == Len(mapping)
           j == Len(counting)
<1>1. /\ mapping \in Seq(MapEntry) /\ counting \in Seq(Seq(Rights(input, R_index))) /\ Counted \in Nat
      /\ \A x \in 1 .. m : InPool(mapping[x], Counted + j + x - 1)
  BY PipelineParts
<1>2. m \in Nat
  <2> HIDE DEF j
  <2>1. QED
    BY <1>1
<1>3. j \in Nat
  <2> DEFINE W == Seq(Rights(input, R_index))
  <2>1. counting \in Seq(W)
    BY <1>1
  <2> HIDE DEF m, W
  <2>2. QED
    BY <2>1
<1>4. given \in Nat /\ given <= NumBlocks /\ NumBlocks \in Nat
  BY BlocksNumber DEF Stages, Started
<1>5. Counted = (given - m) - j
  BY DEF Counted
<1>6. mapping[n] \in MapEntry
  <2> HIDE DEF j
  <2>1. QED
    BY <1>1
<1>7. InPool(mapping[n], Counted + j + n - 1)
  BY <1>1
<1> HIDE DEF m, j
<1>8. b \in Nat /\ b < NumBlocks
  <2>1. n \in Nat /\ 1 <= n /\ n <= m
    BY <1>2 DEF m
  <2>2. b = Counted + j + n - 1
    BY DEF j
  <2>3. QED
    BY <1>1, <1>2, <1>3, <1>4, <1>5, <2>1, <2>2
<1>9. QED
  BY <1>6, <1>7, <1>8 DEF j

\* GiveRewrite
LEMMA GivenPipeline ==
    ASSUME Stages, Pipeline, GiveRewrite
    PROVE  Pipeline'
<1> DEFINE V == MapEntry
           new == [mapped |-> FALSE, entries |-> Block(given)]
           m == Append(mapping, new)
           c == Counted
           j == Len(counting)
<1>1. /\ stage = "rewrite" /\ given < NumBlocks /\ mapping' = m /\ given' = given + 1
      /\ UNCHANGED <<input, R_index, stage, counting, num_written>>
  BY DEF GiveRewrite
<1>2. given \in Nat /\ Linked(input) /\ R_index \in 2 .. LastTable
  BY <1>1 DEF Stages, Started
<1>3. /\ mapping \in Seq(V) /\ counting \in Seq(Seq(Rights(input, R_index))) /\ c \in Nat
      /\ \A x \in 1 .. Len(mapping) : InPool(mapping[x], c + j + x - 1)
      /\ \A x \in 1 .. j : Ranked(input, R_index, counting[x], c + x - 1)
      /\ num_written = Rank(input, R_index, Begin(input, R_index, c))
  BY <1>1, PipelineParts
<1>4. new \in V
  <2>1. Block(given) \in Seq(Plains(input, R_index))
    BY <1>1, <1>2, BlockFacts
  <2>2. Block(given) \in Seq(Plains(input, R_index)) \cup Seq(Rights(input, R_index))
    BY <2>1, Zenon
  <2>3. QED
    BY <2>2 DEF MapEntry
<1>5. j \in Nat
  <2> DEFINE W == Seq(Rights(input, R_index))
  <2>1. counting \in Seq(W)
    BY <1>3
  <2> HIDE DEF W
  <2>2. QED
    BY <2>1
<1>6. c = (given - Len(mapping)) - j
  BY DEF Counted
<1>7. InPool(new, given)
  BY DEF InPool
<1> HIDE DEF V, new, c, j
<1>8. /\ m \in Seq(V) /\ Len(m) = Len(mapping) + 1 /\ Len(mapping) \in Nat
      /\ \A x \in 1 .. Len(mapping) : m[x] = mapping[x]
      /\ m[Len(mapping) + 1] = new
  BY <1>3, <1>4, AppendedElement
<1>9. ASSUME NEW x \in 1 .. Len(m) PROVE InPool(m[x], c + j + x - 1)
  <2>1. CASE x \in 1 .. Len(mapping)
    BY <1>3, <1>8, <2>1
  <2>2. CASE x = Len(mapping) + 1
    <3>1. c + j + x - 1 = given
      BY <1>2, <1>3, <1>5, <1>6, <1>8, <2>2
    <3>2. QED
      BY <1>7, <1>8, <2>2, <3>1
  <2>3. QED
    BY <1>8, <2>1, <2>2
<1>10. Counted' = c
  <2>1. Counted' = ((given + 1) - Len(m)) - j
    BY <1>1 DEF Counted, j
  <2>2. QED
    BY <1>2, <1>3, <1>5, <1>6, <1>8, <2>1
<1> HIDE DEF m
<1>11. /\ mapping' \in Seq(MapEntry) /\ counting' \in Seq(Seq(Rights(input, R_index)))
       /\ \A n \in 1 .. Len(mapping') : InPool(mapping'[n], c + Len(counting') + n - 1)
       /\ \A n \in 1 .. Len(counting') : Ranked(input, R_index, counting'[n], c + n - 1)
       /\ num_written' = Rank(input, R_index, Begin(input, R_index, c))
  BY <1>1, <1>3, <1>8, <1>9 DEF V, j
<1>12. c \in Nat /\ UNCHANGED <<input, R_index>>
  BY <1>1, <1>3
<1>13. QED
  BY <1>10, <1>11, <1>12, PipelineNow

\* MapBlock
LEMMA MappedPipeline ==
    ASSUME Stages, Marks, IndexRight, Pipeline, NEW n, MapBlock(n)
    PROVE  Pipeline'
<1> DEFINE V == MapEntry
           c == Counted
           j == Len(counting)
           b == c + j + n - 1
           new == [mapped |-> TRUE, entries |-> Mapped(mapping[n].entries)]
<1>1. /\ n \in DOMAIN mapping /\ ~mapping[n].mapped
      /\ mapping' = [mapping EXCEPT ![n] = new]
      /\ UNCHANGED <<input, R_index, stage, given, counting, num_written>>
  BY DEF MapBlock
<1>2. stage = "rewrite"
  <2>1. mapping # <<>>
    BY <1>1
  <2>2. QED
    BY <2>1 DEF Stages
<1>3. Started /\ Linked(input) /\ R_index \in 2 .. LastTable
  BY <1>2 DEF Stages, Started
<1>4. /\ mapping \in Seq(V) /\ counting \in Seq(Seq(Rights(input, R_index))) /\ c \in Nat
      /\ \A x \in 1 .. Len(mapping) : InPool(mapping[x], c + j + x - 1)
      /\ \A x \in 1 .. j : Ranked(input, R_index, counting[x], c + x - 1)
      /\ num_written = Rank(input, R_index, Begin(input, R_index, c))
  BY <1>2, PipelineParts
<1>5. n \in 1 .. Len(mapping)
  <2> HIDE DEF V
  <2>1. QED
    BY <1>1, <1>4
<1>6. b \in Nat /\ b < NumBlocks /\ InPool(mapping[n], b)
  BY <1>2, <1>5, PooledBlock
<1> HIDE DEF b
<1>7. mapping[n].entries = Block(b)
  BY <1>1, <1>6 DEF InPool
<1>8. Ranked(input, R_index, Mapped(Block(b)), b)
  <2>1. next_bitfield = NeededOf(input)[R_index - 1]
    BY <1>2, <1>3, AllIsMarked
  <2>2. R_index < LastTable => curr_bitfield = NeededOf(input)[R_index]
    BY <1>3, MarksParts
  <2>3. \A m \in 0 .. IndexSize - 1 : index[m] = Rank(input, R_index - 1, m * kIndexBucket)
    BY <1>2 DEF IndexRight
  <2>4. QED
    BY <1>3, <1>6, <2>1, <2>2, <2>3, MappedRanked
<1>9. new \in V /\ InPool(new, b)
  <2>1. Mapped(Block(b)) \in Seq(Rights(input, R_index))
    BY <1>8 DEF Ranked
  <2>2. Mapped(Block(b)) \in Seq(Plains(input, R_index)) \cup Seq(Rights(input, R_index))
    BY <2>1, Zenon
  <2>3. QED
    BY <1>7, <1>8, <2>2 DEF MapEntry, InPool
<1> HIDE DEF V, c, j, new
<1>10. /\ mapping' \in Seq(V) /\ Len(mapping') = Len(mapping) /\ mapping'[n] = new
       /\ \A x \in 1 .. Len(mapping) : x # n => mapping'[x] = mapping[x]
  BY <1>1, <1>4, <1>5, <1>9
<1>11. ASSUME NEW x \in 1 .. Len(mapping') PROVE InPool(mapping'[x], c + j + x - 1)
  <2>1. CASE x = n
    BY <1>9, <1>10, <2>1 DEF b
  <2>2. CASE x # n
    BY <1>4, <1>10, <2>2
  <2>3. QED
    BY <2>1, <2>2
<1>12. Counted' = c
  BY <1>1, <1>10 DEF Counted, c
<1>13. /\ mapping' \in Seq(MapEntry) /\ counting' \in Seq(Seq(Rights(input, R_index)))
       /\ \A x \in 1 .. Len(mapping') : InPool(mapping'[x], c + Len(counting') + x - 1)
       /\ \A x \in 1 .. Len(counting') : Ranked(input, R_index, counting'[x], c + x - 1)
       /\ num_written' = Rank(input, R_index, Begin(input, R_index, c))
  BY <1>1, <1>4, <1>10, <1>11 DEF V, j
<1>14. c \in Nat /\ UNCHANGED <<input, R_index>>
  BY <1>1, <1>4
<1>15. QED
  BY <1>12, <1>13, <1>14, PipelineNow

\* DeliverMapped
LEMMA DeliveredPipeline ==
    ASSUME Stages, Pipeline, DeliverMapped
    PROVE  Pipeline'
<1> DEFINE V == MapEntry
           W == Seq(Rights(input, R_index))
           c == Counted
           j == Len(counting)
           first == mapping[1]
           m == RemoveAt(mapping, 1)
           d == Append(counting, first.entries)
<1>1. /\ 1 \in DOMAIN mapping /\ first.mapped /\ mapping' = m /\ counting' = d
      /\ UNCHANGED <<input, R_index, stage, given, num_written>>
  BY DEF DeliverMapped, FirstMapped
<1>2. stage = "rewrite"
  <2>1. mapping # <<>>
    BY <1>1
  <2>2. QED
    BY <2>1 DEF Stages
<1>3. /\ mapping \in Seq(V) /\ counting \in Seq(W) /\ c \in Nat
      /\ \A x \in 1 .. Len(mapping) : InPool(mapping[x], c + j + x - 1)
      /\ \A x \in 1 .. j : Ranked(input, R_index, counting[x], c + x - 1)
      /\ num_written = Rank(input, R_index, Begin(input, R_index, c))
  BY <1>2, PipelineParts
<1>4. 1 \in 1 .. Len(mapping) /\ Len(mapping) \in Nat
  <2> HIDE DEF V, W, j
  <2>1. QED
    BY <1>1, <1>3
<1>5. j \in Nat
  <2> HIDE DEF V, W
  <2>1. QED
    BY <1>3
<1>6. Ranked(input, R_index, first.entries, c + j)
  <2>1. InPool(first, c + j + 1 - 1)
    BY <1>3, <1>4
  <2>2. c + j + 1 - 1 = c + j
    BY <1>3, <1>5
  <2>3. QED
    BY <1>1, <2>1, <2>2 DEF InPool
<1>7. first.entries \in W
  BY <1>6 DEF Ranked
<1>8. given \in Nat /\ c = (given - Len(mapping)) - j
  BY DEF Stages, Counted
<1>9. /\ m \in Seq(V) /\ Len(m) = Len(mapping) - 1
      /\ \A x \in 1 .. Len(mapping) - 1 : m[x] = mapping[x + 1]
  <2> HIDE DEF V, m
  <2>1. QED
    BY <1>3, <1>4, RemovedElement DEF m
<1> DEFINE e == first.entries
<1>10. Counted' = (given - Len(m)) - Len(d)
  BY <1>1 DEF Counted
<1> HIDE DEF W, e
<1>11. /\ d \in Seq(W) /\ Len(d) = j + 1 /\ d[j + 1] = e
       /\ \A x \in 1 .. j : d[x] = counting[x]
  BY <1>3, <1>7, AppendedElement DEF e
<1> HIDE DEF V, m, d, c, j, first
<1>12. ASSUME NEW x \in 1 .. Len(m) PROVE InPool(m[x], c + (j + 1) + x - 1)
  <2>1. x + 1 \in 1 .. Len(mapping) /\ c + j + (x + 1) - 1 = c + (j + 1) + x - 1 /\ m[x] = mapping[x + 1]
    BY <1>3, <1>4, <1>5, <1>9
  <2>2. QED
    BY <1>3, <2>1
<1>13. ASSUME NEW x \in 1 .. Len(d) PROVE Ranked(input, R_index, d[x], c + x - 1)
  <2>1. CASE x \in 1 .. j
    BY <1>3, <1>11, <2>1
  <2>2. CASE x = j + 1
    <3>1. c + x - 1 = c + j
      BY <1>3, <1>5, <2>2
    <3>2. QED
      BY <1>6, <1>11, <2>2, <3>1 DEF e
  <2>3. QED
    BY <1>5, <1>11, <2>1, <2>2
<1>14. Counted' = c
  BY <1>3, <1>4, <1>5, <1>8, <1>9, <1>10, <1>11
<1>15. /\ mapping' \in Seq(MapEntry) /\ counting' \in Seq(Seq(Rights(input, R_index)))
       /\ \A x \in 1 .. Len(mapping') : InPool(mapping'[x], c + Len(counting') + x - 1)
       /\ \A x \in 1 .. Len(counting') : Ranked(input, R_index, counting'[x], c + x - 1)
       /\ num_written' = Rank(input, R_index, Begin(input, R_index, c))
  BY <1>1, <1>3, <1>9, <1>11, <1>12, <1>13 DEF V, W
<1>16. c \in Nat /\ UNCHANGED <<input, R_index>>
  BY <1>1, <1>3
<1>17. QED
  BY <1>14, <1>15, <1>16, PipelineNow

\* What CountBlock takes: its first entry has the number of those that were counted.
LEMMA CountedBlock ==
    ASSUME Stages, Pipeline, counting # <<>>
    PROVE  LET block == Head(counting) IN
           /\ stage = "rewrite" /\ Started /\ Linked(input) /\ R_index \in 2 .. LastTable
           /\ Counted \in Nat /\ num_written \in Nat
           /\ Ranked(input, R_index, block, Counted)
           /\ block \in Seq(Rights(input, R_index)) /\ Len(block) \in Nat
           /\ num_written = Rank(input, R_index, Begin(input, R_index, Counted))
           /\ num_written + Len(block) = Rank(input, R_index, Begin(input, R_index, Counted + 1))
           /\ \A x \in 1 .. Len(block) : Rank(input, R_index, block[x].at) = num_written + x - 1
<1> DEFINE W == Seq(Rights(input, R_index))
           block == Head(counting)
           c == Counted
<1>1. /\ stage = "rewrite" /\ Started /\ Linked(input) /\ R_index \in 2 .. LastTable
      /\ R_index \in 1 .. LastTable
  BY BoundsAssumption DEF Stages, Started
<1>2. /\ counting \in Seq(W) /\ c \in Nat
      /\ \A x \in 1 .. Len(counting) : Ranked(input, R_index, counting[x], c + x - 1)
      /\ num_written = Rank(input, R_index, Begin(input, R_index, c))
  BY <1>1, PipelineParts
<1>3. Len(counting) \in Nat \ {0} /\ counting[1] = block
  <2> HIDE DEF W
  <2>1. QED
    BY <1>2, TailElements
<1>4. Ranked(input, R_index, block, c)
  <2>1. 1 \in 1 .. Len(counting) /\ c + 1 - 1 = c
    BY <1>2, <1>3
  <2>2. QED
    BY <1>2, <1>3, <2>1
<1>5. num_written \in Nat
  <2>1. Begin(input, R_index, c) \in 0 .. Len(input[R_index])
    BY <1>1, <1>2, BeginFacts
  <2>2. Begin(input, R_index, c) \in Nat
    BY <2>1
  <2>3. QED
    BY <1>1, <1>2, <2>2, RankFacts
<1> HIDE DEF block, c
<1>6. /\ block \in Seq(Rights(input, R_index))
      /\ num_written + Len(block) = Rank(input, R_index, Begin(input, R_index, c + 1))
      /\ \A x \in 1 .. Len(block) : Rank(input, R_index, block[x].at) = num_written + x - 1
  BY <1>2, <1>4 DEF Ranked
<1>7. Len(block) \in Nat
  <2> DEFINE V == Rights(input, R_index)
  <2>1. block \in Seq(V)
    BY <1>6
  <2> HIDE DEF V
  <2>2. QED
    BY <2>1
<1>8. QED
  BY <1>1, <1>2, <1>4, <1>5, <1>6, <1>7 DEF block, c

\* CountBlock
LEMMA CountedPipeline ==
    ASSUME Stages, Pipeline, CountBlock
    PROVE  Pipeline' /\ Counted' = Counted + 1
<1> DEFINE V == MapEntry
           W == Seq(Rights(input, R_index))
           c == Counted
           j == Len(counting)
           block == Head(counting)
<1>1. /\ counting # <<>> /\ counting' = Tail(counting) /\ num_written' = num_written + Len(block)
      /\ UNCHANGED <<input, R_index, stage, given, mapping>>
  BY DEF CountBlock
<1>2. stage = "rewrite" /\ c \in Nat
      /\ num_written + Len(block) = Rank(input, R_index, Begin(input, R_index, c + 1))
  BY <1>1, CountedBlock
<1>3. /\ mapping \in Seq(V) /\ counting \in Seq(W)
      /\ \A x \in 1 .. Len(mapping) : InPool(mapping[x], c + j + x - 1)
      /\ \A x \in 1 .. j : Ranked(input, R_index, counting[x], c + x - 1)
  BY <1>2, PipelineParts
<1>4. given \in Nat /\ c = (given - Len(mapping)) - j /\ Counted' = (given - Len(mapping)) - Len(Tail(counting))
  BY <1>1 DEF Stages, Counted
<1>5. Len(mapping) \in Nat
  <2> HIDE DEF V, W, j
  <2>1. QED
    BY <1>3
<1> HIDE DEF V, W, c, j, block
<1>6. /\ j \in Nat \ {0} /\ Tail(counting) \in Seq(W) /\ Len(Tail(counting)) = j - 1
      /\ \A x \in 1 .. j - 1 : Tail(counting)[x] = counting[x + 1]
  BY <1>1, <1>3, TailElements DEF j
<1>7. Counted' = c + 1 /\ c + 1 \in Nat
  BY <1>2, <1>4, <1>5, <1>6
<1>8. ASSUME NEW x \in 1 .. Len(mapping) PROVE InPool(mapping[x], (c + 1) + (j - 1) + x - 1)
  <2>1. (c + 1) + (j - 1) + x - 1 = c + j + x - 1
    BY <1>2, <1>6
  <2>2. QED
    BY <1>3, <2>1
<1>9. ASSUME NEW x \in 1 .. j - 1 PROVE Ranked(input, R_index, Tail(counting)[x], (c + 1) + x - 1)
  <2>1. x + 1 \in 1 .. j /\ (c + 1) + x - 1 = c + (x + 1) - 1
    BY SMTT(40), <1>2, <1>6
  <2>2. QED
    BY <1>3, <1>6, <2>1
<1>10. /\ mapping' \in Seq(MapEntry) /\ counting' \in Seq(Seq(Rights(input, R_index)))
       /\ \A x \in 1 .. Len(mapping') : InPool(mapping'[x], (c + 1) + Len(counting') + x - 1)
       /\ \A x \in 1 .. Len(counting') : Ranked(input, R_index, counting'[x], (c + 1) + x - 1)
       /\ num_written' = Rank(input, R_index, Begin(input, R_index, c + 1))
  BY <1>1, <1>2, <1>3, <1>6, <1>8, <1>9 DEF V, W
<1>11. Pipeline'
  BY <1>1, <1>7, <1>10, PipelineNow
<1>12. QED
  BY <1>7, <1>11 DEF c

LEMMA NextPipeline ==
    Stages /\ Marks /\ IndexRight /\ Pipeline /\ [Step]_vars => Pipeline'
<1> SUFFICES ASSUME Stages, Marks, IndexRight, Pipeline, [Step]_vars PROVE Pipeline'
  OBVIOUS
<1>1. CASE UNCHANGED vars
  BY <1>1, PipelineSteady DEF vars, pools
<1>2. CASE GiveMark
  BY <1>2 DEF GiveMark, Pipeline
<1>3. CASE MarkSome
  BY <1>3, PipelineSteady DEF MarkSome, MarkEntry, Stages
<1>4. CASE EndMark
  <2>1. /\ stage = "mark" /\ Started /\ Linked(input) /\ R_index \in 1 .. LastTable
        /\ UNCHANGED <<input, R_index>> /\ given' = 0
        /\ mapping' = <<>> /\ counting' = <<>> /\ num_written' = 0
    BY <1>4, BoundsAssumption DEF EndMark, Stages, Started, pools
  <2>2. Len(<<>>) = 0
    OBVIOUS
  <2>3. Counted' = 0
    <3>1. Len(mapping') = 0 /\ Len(counting') = 0
      BY <2>1, <2>2
    <3>2. Counted' = (given' - Len(mapping')) - Len(counting')
      BY DEF Counted
    <3>3. QED
      BY <2>1, <3>1, <3>2
  <2>4. Rank(input, R_index, Begin(input, R_index, 0)) = 0
    BY <2>1, RankFacts, BeginFacts
  <2>5. mapping' \in Seq(MapEntry) /\ counting' \in Seq(Seq(Rights(input, R_index)))
    <3> DEFINE V == MapEntry
               W == Seq(Rights(input, R_index))
    <3> HIDE DEF V, W
    <3>1. <<>> \in Seq(V) /\ <<>> \in Seq(W)
      OBVIOUS
    <3>2. QED
      BY <2>1, <3>1 DEF V, W
  <2>6. 1 .. Len(mapping') = {} /\ 1 .. Len(counting') = {}
    BY <2>1, <2>2
  <2>7. QED
    BY <2>1, <2>3, <2>4, <2>5, <2>6, PipelineNow
<1>5. CASE GiveRewrite
  BY <1>5, GivenPipeline
<1>6. CASE MapSome
  BY <1>6, MappedPipeline DEF MapSome
<1>7. CASE DeliverMapped
  BY <1>7, DeliveredPipeline
<1>8. CASE CountBlock
  BY <1>8, CountedPipeline
<1>9. CASE WriteSome
  BY <1>9, PipelineSteady DEF WriteSome, WriteBlock
<1>10. CASE NextTable
  BY <1>10 DEF NextTable, Pipeline
<1>11. CASE \E tables : Linked(tables) /\ Start(tables)
  BY <1>11 DEF Start, Pipeline
<1>12. QED
  BY <1>1, <1>2, <1>3, <1>4, <1>5, <1>6, <1>7, <1>8, <1>9, <1>10, <1>11 DEF Step, Next

-----------------------------------------------------------------------------
(* What is written to the DiskSorts *)

LEMMA InBlocksAppend ==
    ASSUME NEW S, NEW w \in Seq(S), NEW e \in S
    PROVE  InBlocks(Append(w, e)) = InBlocks(w) \cup ToSet(e)
<1> DEFINE u == Append(w, e)
<1>1. /\ Len(u) = Len(w) + 1 /\ Len(w) \in Nat /\ u[Len(w) + 1] = e
      /\ \A n \in 1 .. Len(w) : u[n] = w[n]
  BY AppendedElement
<1> HIDE DEF u
<1>2. \A n \in 1 .. Len(u) : n \in 1 .. Len(w) \/ n = Len(w) + 1
  BY <1>1
<1>3. \A n \in 1 .. Len(w) : n \in 1 .. Len(u)
  BY <1>1
<1>4. Len(w) + 1 \in 1 .. Len(u)
  BY <1>1
<1>5. ASSUME NEW x PROVE x \in InBlocks(u) <=> x \in InBlocks(w) \/ x \in ToSet(e)
  <2>1. x \in InBlocks(u) <=> \E n \in 1 .. Len(u) : x \in ToSet(u[n])
    BY Zenon DEF InBlocks
  <2>2. x \in InBlocks(w) <=> \E n \in 1 .. Len(w) : x \in ToSet(w[n])
    BY Zenon DEF InBlocks
  <2>3. QED
    BY <1>1, <1>2, <1>3, <1>4, <2>1, <2>2, Zenon
<1>6. QED
  BY <1>5, Zenon DEF u

LEMMA InBlocksRemove ==
    ASSUME NEW S, NEW w \in Seq(S), NEW n \in 1 .. Len(w)
    PROVE  InBlocks(w) = InBlocks(RemoveAt(w, n)) \cup ToSet(w[n])
<1> DEFINE u == RemoveAt(w, n)
<1>1. /\ Len(w) \in Nat \ {0} /\ Len(u) = Len(w) - 1
      /\ \A x \in 1 .. n - 1 : u[x] = w[x]
      /\ \A x \in n .. Len(w) - 1 : u[x] = w[x + 1]
  BY RemovedElement
<1> HIDE DEF u
<1>2. ASSUME NEW m \in 1 .. Len(u) PROVE \E j \in 1 .. Len(w) : u[m] = w[j]
  <2>1. CASE m \in 1 .. n - 1
    <3>1. m \in 1 .. Len(w) /\ u[m] = w[m]
      BY <1>1, <2>1
    <3>2. QED
      BY <3>1
  <2>2. CASE m \notin 1 .. n - 1
    <3>1. m \in n .. Len(w) - 1 /\ m + 1 \in 1 .. Len(w)
      BY <1>1, <2>2
    <3>2. QED
      BY <1>1, <3>1
  <2>3. QED
    BY <2>1, <2>2
<1>3. ASSUME NEW j \in 1 .. Len(w) PROVE j = n \/ \E m \in 1 .. Len(u) : u[m] = w[j]
  <2>1. CASE j \in 1 .. n - 1
    <3>1. j \in 1 .. Len(u) /\ u[j] = w[j]
      BY <1>1, <2>1
    <3>2. QED
      BY <3>1
  <2>2. CASE j \notin 1 .. n - 1 /\ j # n
    <3>1. j - 1 \in n .. Len(w) - 1 /\ j - 1 \in 1 .. Len(u) /\ (j - 1) + 1 = j
      BY <1>1, <2>2
    <3>2. u[j - 1] = w[j]
      BY <1>1, <3>1
    <3>3. QED
      BY <3>1, <3>2
  <2>3. QED
    BY <2>1, <2>2
<1>4. ASSUME NEW x PROVE x \in InBlocks(w) <=> x \in InBlocks(u) \/ x \in ToSet(w[n])
  <2>1. x \in InBlocks(u) <=> \E m \in 1 .. Len(u) : x \in ToSet(u[m])
    BY Zenon DEF InBlocks
  <2>2. x \in InBlocks(w) <=> \E j \in 1 .. Len(w) : x \in ToSet(w[j])
    BY Zenon DEF InBlocks
  <2>3. QED
    BY <1>2, <1>3, <2>1, <2>2, Zenon
<1>5. QED
  BY <1>4, Zenon DEF u

\* What CountBlock makes of a block are the entries whose ranks come next.
LEMMA NumberedBlock ==
    ASSUME Stages, Pipeline, counting # <<>>
    PROVE  LET block == Head(counting)
               numbered == [j \in DOMAIN block |-> Numbered(block[j], num_written + j - 1)]
               old == Finals(input, R_index, num_written)
               new == Finals(input, R_index, num_written + Len(block))
           IN  /\ numbered \in Seq(new) /\ old \subseteq new
               /\ new = old \cup ToSet(numbered)
<1> DEFINE block == Head(counting)
           numbered == [j \in DOMAIN block |-> Numbered(block[j], num_written + j - 1)]
           old == Finals(input, R_index, num_written)
           new == Finals(input, R_index, num_written + Len(block))
           N == NeededOf(input)[R_index]
           V == Rights(input, R_index)
           n == num_written
           l == Len(block)
           R(p) == Rank(input, R_index, p)
           G(p) == Final(input, R_index, p)
<1>1. /\ Linked(input) /\ R_index \in 2 .. LastTable /\ R_index \in 1 .. LastTable
      /\ n \in Nat /\ block \in Seq(V) /\ l \in Nat
      /\ \A x \in 1 .. l : R(block[x].at) = n + x - 1
  <2>1. R_index \in 2 .. LastTable /\ Linked(input) /\ block \in Seq(V) /\ l \in Nat /\ n \in Nat
    BY CountedBlock
  <2>2. \A x \in 1 .. l : R(block[x].at) = n + x - 1
    BY CountedBlock
  <2>3. R_index \in 1 .. LastTable
    BY ONLY <2>1, BoundsAssumption
  <2>4. QED
    BY <2>1, <2>2, <2>3
<1>2. N \in SUBSET Nat /\ (\A p \in Nat : R(p) \in Nat) /\ (\A p, q \in N : R(p) = R(q) => p = q)
  BY <1>1, RankFacts
<1>3. /\ \A q : q \in old <=> \E p \in N : R(p) < n /\ q = G(p)
      /\ \A q : q \in new <=> \E p \in N : R(p) < n + l /\ q = G(p)
  BY Zenon DEF Finals
<1>4. \A e \in V : e.at \in N /\ e = Right(input, R_index, e.at)
  BY DEF Rights, Right
<1>5. DOMAIN block = 1 .. l
  <2> HIDE DEF V, block
  <2>1. QED
    BY <1>1
<1>6. \A x \in 1 .. l : block[x] \in V
  <2> HIDE DEF V, block
  <2>1. QED
    BY <1>1
<1>7. numbered = [j \in 1 .. l |-> Numbered(block[j], n + j - 1)]
  BY <1>5
<1> HIDE DEF N, V, old, new, block, numbered, l, n, R
<1>8. ASSUME NEW x \in 1 .. l
      PROVE  LET p == block[x].at IN p \in N /\ R(p) = n + x - 1 /\ numbered[x] = G(p)
  <2> DEFINE e == block[x]
             p == e.at
  <2>1. p \in N /\ e = Right(input, R_index, p) /\ R(p) = n + x - 1
    BY <1>1, <1>4, <1>6
  <2>2. numbered[x] = Numbered(e, n + x - 1)
    BY <1>7
  <2>3. Numbered(e, n + x - 1) =
          IF R_index = LastTable THEN e
          ELSE [key |-> n + x - 1, at |-> e.at, pos |-> e.pos, off |-> e.off]
    BY DEF Numbered
  <2> HIDE DEF e, p
  <2>4. G(p) = IF R_index = LastTable THEN e
               ELSE [key |-> R(p), at |-> p, pos |-> e.pos, off |-> e.off]
    BY <2>1 DEF Final, R
  <2>5. numbered[x] = G(p)
    BY <2>1, <2>2, <2>3, <2>4 DEF p
  <2>6. QED
    BY <2>1, <2>5 DEF p, e
<1> HIDE DEF G
<1>9. ASSUME NEW x \in 1 .. l PROVE numbered[x] \in new
  <2>1. PICK p \in N : R(p) = n + x - 1 /\ numbered[x] = G(p)
    BY <1>8
  <2>2. R(p) < n + l
    BY <1>1, <2>1
  <2>3. QED
    BY <1>3, <2>1, <2>2
<1>10. numbered \in Seq(new) /\ DOMAIN numbered = 1 .. l
  BY <1>1, <1>7, <1>9
<1>11. old \subseteq new
  <2>1. \A p \in N : R(p) < n => R(p) < n + l
    BY <1>1, <1>2
  <2>2. QED
    BY <1>3, <2>1
<1>12. ASSUME NEW q \in new, q \notin old PROVE q \in ToSet(numbered)
  <2>1. PICK p \in N : R(p) < n + l /\ q = G(p)
    BY <1>3
  <2>2. ~(R(p) < n) /\ R(p) \in Nat
    BY <1>2, <1>3, <1>12, <2>1
  <2> DEFINE x == R(p) - n + 1
  <2>3. x \in 1 .. l /\ n + x - 1 = R(p)
    BY <1>1, <2>1, <2>2
  <2> HIDE DEF x
  <2>4. block[x].at \in N /\ R(block[x].at) = R(p) /\ numbered[x] = G(block[x].at)
    BY <1>8, <2>3
  <2>5. block[x].at = p
    BY <1>2, <2>4
  <2>6. numbered[x] = q
    BY <2>1, <2>4, <2>5
  <2>7. QED
    BY <1>10, <2>3, <2>6 DEF ToSet
<1>13. ToSet(numbered) \subseteq new
  BY <1>9, <1>10 DEF ToSet
<1>14. new = old \cup ToSet(numbered)
  BY <1>11, <1>12, <1>13
<1>15. QED
  BY <1>10, <1>11, <1>14 DEF old, new, block, numbered, l, n

LEMMA FinalsEmpty ==
    ASSUME NEW t, Linked(t), NEW i \in 2 .. LastTable PROVE Finals(t, i, 0) = {}
<1>1. i \in 1 .. LastTable
  BY BoundsAssumption
<1>2. ASSUME NEW q \in NeededOf(t)[i] PROVE ~(Rank(t, i, q) < 0)
  <2>1. q \in Nat
    BY <1>1, RankFacts
  <2>2. Rank(t, i, q) \in Nat
    BY <1>1, <2>1, RankFacts
  <2>3. QED
    BY <2>2
<1>3. QED
  BY <1>2, Zenon DEF Finals

SortedFor(i) ==
    /\ Started /\ i > R_index => sort[i] = Finals(input, i, Rank(input, i, Len(input[i])))
    /\ Started /\ i = R_index => sort[i] \cup InBlocks(writing) = Finals(input, i, num_written)
    /\ ~Started \/ i < R_index => sort[i] = {}

LEMMA SortedParts ==
    Sorted <=> /\ DOMAIN sort = 2 .. LastTable - 1
               /\ \A i \in 2 .. LastTable - 1 : SortedFor(i)
               /\ stage = "done" => num_written = Rank(input, 2, Len(input[2]))
               /\ stage = "rewrite" => writing \in Seq(Seq(Finals(input, R_index, num_written)))
BY DEF Sorted, SortedFor

LEMMA InitSorted == Init => Sorted
BY DEF Init, Sorted, Started

LEMMA SortedSteady ==
    ASSUME Sorted, UNCHANGED <<input, R_index, stage, writing, num_written, sort>>
    PROVE  Sorted'
BY DEF Sorted, Started

LEMMA CountedSorted ==
    ASSUME Stages, Pipeline, Sorted, CountBlock
    PROVE  Sorted'
<1> DEFINE block == Head(counting)
           numbered == [j \in DOMAIN block |-> Numbered(block[j], num_written + j - 1)]
           old == Finals(input, R_index, num_written)
           new == Finals(input, R_index, num_written + Len(block))
<1>1. /\ counting # <<>> /\ writing' = Append(writing, numbered)
      /\ num_written' = num_written + Len(block)
      /\ UNCHANGED <<input, R_index, stage, sort>>
  BY DEF CountBlock, output
<1>2. stage = "rewrite" /\ Started /\ Started'
  BY <1>1, CountedBlock DEF Started
<1>3. /\ numbered \in Seq(new) /\ old \subseteq new
      /\ new = old \cup ToSet(numbered)
  BY <1>1, NumberedBlock
<1>4. /\ DOMAIN sort = 2 .. LastTable - 1
      /\ \A i \in 2 .. LastTable - 1 : SortedFor(i)
      /\ writing \in Seq(Seq(old))
  BY <1>2, SortedParts
<1>5. new = Finals(input', R_index', num_written')
  BY <1>1
<1> HIDE DEF block, numbered, old, new
<1>6. writing \in Seq(Seq(new))
  <2>1. Seq(old) \subseteq Seq(new)
    BY <1>3
  <2> DEFINE S == Seq(old)
             T == Seq(new)
  <2>2. writing \in Seq(S) /\ S \subseteq T
    BY <1>4, <2>1
  <2> HIDE DEF S, T
  <2>3. writing \in Seq(T)
    BY <2>2
  <2>4. QED
    BY <2>3 DEF T
<1>7. InBlocks(writing') = InBlocks(writing) \cup ToSet(numbered)
  BY <1>1, <1>3, <1>6, InBlocksAppend
<1>8. writing' \in Seq(Seq(new))
  <2> DEFINE T == Seq(new)
  <2>1. writing \in Seq(T) /\ numbered \in T
    BY <1>3, <1>6
  <2> HIDE DEF T
  <2>2. Append(writing, numbered) \in Seq(T)
    BY <2>1
  <2>3. QED
    BY <1>1, <2>2 DEF T
<1>9. ASSUME NEW i \in 2 .. LastTable - 1 PROVE SortedFor(i)'
  <2>1. SortedFor(i)
    BY <1>4
  <2>2. CASE i = R_index
    <3>1. sort[i] \cup InBlocks(writing) = old
      BY <1>2, <2>1, <2>2 DEF SortedFor, old
    <3>2. sort'[i] \cup InBlocks(writing') = new
      BY <1>1, <1>3, <1>7, <3>1
    <3>3. ~(i > R_index) /\ ~(i < R_index)
      BY <2>2
    <3>4. QED
      BY <1>1, <1>2, <1>5, <2>2, <3>2, <3>3 DEF SortedFor
  <2>3. CASE i # R_index
    BY <1>1, <1>2, <2>1, <2>3 DEF SortedFor
  <2>4. QED
    BY <2>2, <2>3
<1>10. writing' \in Seq(Seq(Finals(input', R_index', num_written'))) /\ stage' # "done"
  BY <1>1, <1>2, <1>5, <1>8
<1>11. DOMAIN sort' = 2 .. LastTable - 1
  BY <1>1, <1>4
<1>12. QED
  BY <1>9, <1>10, <1>11 DEF Sorted, SortedFor

LEMMA WrittenSorted ==
    ASSUME Stages, Sorted, NEW n, WriteBlock(n)
    PROVE  Sorted'
<1> DEFINE V == Seq(Finals(input, R_index, num_written))
<1>1. /\ n \in DOMAIN writing /\ writing' = RemoveAt(writing, n)
      /\ UNCHANGED <<input, R_index, stage, num_written>>
      /\ R_index # LastTable => sort' = [sort EXCEPT ![R_index] = @ \cup ToSet(writing[n])]
      /\ R_index = LastTable => sort' = sort
  BY DEF WriteBlock
<1>2. stage = "rewrite"
  <2>1. writing # <<>>
    BY <1>1
  <2>2. QED
    BY <2>1 DEF Stages
<1>3. Started /\ Started' /\ R_index \in 2 .. LastTable
  BY <1>1, <1>2 DEF Stages, Started
<1>4. /\ DOMAIN sort = 2 .. LastTable - 1
      /\ \A i \in 2 .. LastTable - 1 : SortedFor(i)
      /\ writing \in Seq(V)
  BY <1>2, SortedParts
<1>5. V = Seq(Finals(input', R_index', num_written'))
  BY <1>1
<1> HIDE DEF V
<1>6. n \in 1 .. Len(writing)
  BY <1>1, <1>4
<1>7. writing' \in Seq(V) /\ InBlocks(writing) = InBlocks(writing') \cup ToSet(writing[n])
  BY <1>1, <1>4, <1>6, RemovedElement, InBlocksRemove
<1>8. ASSUME NEW i \in 2 .. LastTable - 1 PROVE SortedFor(i)'
  <2>1. SortedFor(i)
    BY <1>4
  <2>2. CASE i = R_index
    <3>1. sort[i] \cup InBlocks(writing) = Finals(input, i, num_written)
      BY <1>3, <2>1, <2>2 DEF SortedFor
    <3>2. R_index # LastTable
      BY <2>2, BoundsAssumption
    <3>3. sort'[i] = sort[i] \cup ToSet(writing[n])
      BY <1>1, <1>4, <2>2, <3>2
    <3>4. sort'[i] \cup InBlocks(writing') = Finals(input, i, num_written)
      BY <1>7, <3>1, <3>3
    <3>5. ~(i > R_index) /\ ~(i < R_index)
      BY <2>2
    <3>6. QED
      BY <1>1, <1>3, <2>2, <3>4, <3>5 DEF SortedFor
  <2>3. CASE i # R_index
    <3>1. sort'[i] = sort[i]
      BY <1>1, <1>4, <2>3
    <3>2. QED
      BY <1>1, <1>3, <2>1, <2>3, <3>1 DEF SortedFor
  <2>4. QED
    BY <2>2, <2>3
<1>9. DOMAIN sort' = 2 .. LastTable - 1
  BY <1>1, <1>4
<1>10. QED
  BY <1>1, <1>2, <1>5, <1>7, <1>8, <1>9 DEF Sorted, SortedFor

\* When a table is done, all of it was counted.
LEMMA AllCounted ==
    ASSUME Stages, Pipeline, stage = "rewrite", Rewritten
    PROVE  /\ Counted = NumBlocks
           /\ num_written = Rank(input, R_index, Len(input[R_index]))
<1>1. Linked(input) /\ R_index \in 2 .. LastTable
  BY DEF Stages, Started
<1>2. given = NumBlocks /\ mapping = <<>> /\ counting = <<>> /\ given \in Nat
  BY DEF Rewritten, Stages
<1>3. Len(<<>>) = 0
  OBVIOUS
<1>4. Counted = NumBlocks
  BY <1>2, <1>3 DEF Counted
<1>5. Begin(input, R_index, NumBlocks) = Len(input[R_index])
  BY <1>1, BlocksNumber DEF R_table
<1>6. QED
  BY <1>4, <1>5, PipelineParts

LEMMA NextSorted == Stages /\ Pipeline /\ Sorted /\ [Step]_vars => Sorted'
<1> SUFFICES ASSUME Stages, Pipeline, Sorted, [Step]_vars PROVE Sorted'
  OBVIOUS
<1>0. InBlocks(<<>>) = {}
  <2>1. 1 .. Len(<<>>) = {}
    OBVIOUS
  <2>2. QED
    BY <2>1 DEF InBlocks
<1>1. CASE UNCHANGED vars
  BY <1>1, SortedSteady DEF vars, pools, output
<1>2. CASE GiveMark
  BY <1>2, SortedSteady DEF GiveMark, output
<1>3. CASE MarkSome
  BY <1>3, SortedSteady DEF MarkSome, MarkEntry, output
<1>4. CASE EndMark
  <2>1. /\ stage = "mark" /\ Started /\ Started' /\ stage' = "rewrite" /\ writing' = <<>> /\ writing = <<>>
        /\ UNCHANGED <<input, R_index, num_written, sort>>
    BY <1>4 DEF EndMark, pools, output, Started, Stages
  <2>2. /\ DOMAIN sort = 2 .. LastTable - 1
        /\ \A i \in 2 .. LastTable - 1 : SortedFor(i)
    BY SortedParts
  <2>3. \A i \in 2 .. LastTable - 1 : SortedFor(i)'
    BY <2>1, <2>2 DEF SortedFor
  <2>4. writing' \in Seq(Seq(Finals(input', R_index', num_written')))
    <3> DEFINE V == Seq(Finals(input', R_index', num_written'))
    <3> HIDE DEF V
    <3>1. <<>> \in Seq(V)
      OBVIOUS
    <3>2. QED
      BY <2>1, <3>1 DEF V
  <2>5. QED
    BY <2>1, <2>2, <2>3, <2>4 DEF Sorted, SortedFor
<1>5. CASE GiveRewrite
  BY <1>5, SortedSteady DEF GiveRewrite, output
<1>6. CASE MapSome
  BY <1>6, SortedSteady DEF MapSome, MapBlock, output
<1>7. CASE DeliverMapped
  BY <1>7, SortedSteady DEF DeliverMapped, output
<1>8. CASE CountBlock
  BY <1>8, CountedSorted
<1>9. CASE WriteSome
  BY <1>9, WrittenSorted DEF WriteSome
<1>10. CASE NextTable
  <2>1. /\ stage = "rewrite" /\ Rewritten /\ Started /\ Started' /\ Linked(input) /\ R_index \in 2 .. LastTable
        /\ writing = <<>> /\ writing' = <<>> /\ UNCHANGED <<input, sort>>
        /\ R_index = 2 => stage' = "done" /\ UNCHANGED <<R_index, num_written>>
        /\ R_index # 2 => stage' = "mark" /\ R_index' = R_index - 1 /\ num_written' = 0
    BY <1>10 DEF NextTable, Rewritten, pools, Started, Stages
  <2>2. /\ DOMAIN sort = 2 .. LastTable - 1
        /\ \A i \in 2 .. LastTable - 1 : SortedFor(i)
    BY SortedParts
  <2>3. num_written = Rank(input, R_index, Len(input[R_index]))
    BY <2>1, AllCounted
  <2>4. CASE R_index = 2
    <3>1. \A i \in 2 .. LastTable - 1 : SortedFor(i)'
      BY <2>1, <2>2, <2>4 DEF SortedFor
    <3>2. QED
      BY <2>1, <2>2, <2>3, <2>4, <3>1 DEF Sorted, SortedFor
  <2>5. CASE R_index # 2
    <3>1. R_index - 1 \in 2 .. LastTable
      BY <2>1, <2>5, BoundsAssumption
    <3>2. ASSUME NEW i \in 2 .. LastTable - 1 PROVE SortedFor(i)'
      <4>1. SortedFor(i)
        BY <2>2
      <4>2. CASE i > R_index
        <5>1. i > R_index' /\ i # R_index' /\ ~(i < R_index')
          BY <2>1, <2>5, <4>2
        <5>2. QED
          BY <2>1, <4>1, <4>2, <5>1 DEF SortedFor
      <4>3. CASE i = R_index
        <5>1. i > R_index' /\ i # R_index' /\ ~(i < R_index')
          BY <2>1, <2>5, <4>3
        <5>2. sort[i] = Finals(input, i, Rank(input, i, Len(input[i])))
          BY <1>0, <2>1, <2>3, <4>1, <4>3 DEF SortedFor
        <5>3. QED
          BY <2>1, <5>1, <5>2 DEF SortedFor
      <4>4. CASE i < R_index
        <5>1. ~(i > R_index') /\ sort[i] = {}
          BY <2>1, <2>5, <4>1, <4>4 DEF SortedFor
        <5>2. i = R_index' => Finals(input, i, 0) = {}
          BY <2>1, <2>5, <3>1, FinalsEmpty
        <5>3. QED
          BY <1>0, <2>1, <2>5, <5>1, <5>2 DEF SortedFor
      <4>5. QED
        BY <2>1, <4>2, <4>3, <4>4
    <3>3. QED
      BY <2>1, <2>2, <2>5, <3>2 DEF Sorted, SortedFor
  <2>6. QED
    BY <2>4, <2>5
<1>11. ASSUME NEW tables, Linked(tables), Start(tables) PROVE Sorted'
  <2>1. /\ stage = "waiting" /\ ~Started /\ stage' = "mark" /\ Started' /\ input' = tables
        /\ R_index = LastTable /\ R_index' = R_index /\ UNCHANGED <<sort, writing, num_written>>
    BY <1>11 DEF Start, pools, output, Started, Stages
  <2>2. /\ DOMAIN sort = 2 .. LastTable - 1
        /\ \A i \in 2 .. LastTable - 1 : SortedFor(i)
    BY SortedParts
  <2>3. ASSUME NEW i \in 2 .. LastTable - 1 PROVE SortedFor(i)'
    <3>1. sort[i] = {} /\ i # R_index' /\ ~(i > R_index')
      BY <2>1, <2>2, BoundsAssumption DEF SortedFor
    <3>2. QED
      BY <2>1, <3>1 DEF SortedFor
  <2>4. QED
    BY <2>1, <2>2, <2>3 DEF Sorted, SortedFor
<1>12. QED
  BY <1>1, <1>2, <1>3, <1>4, <1>5, <1>6, <1>7, <1>8, <1>9, <1>10, <1>11 DEF Step, Next

-----------------------------------------------------------------------------
(* What is written to the file of the last table *)

\* The blocks before the last table's R_out, and what is behind it
WritingRight ==
    /\ Len(writing) <= Counted
    /\ \A n \in 1 .. Len(writing) : Ranked(input, LastTable, writing[n], Counted - Len(writing) + n - 1)
    /\ Size7 = Begin(input, LastTable, Counted - Len(writing))

LEMMA FilingParts ==
    Filing <=>
    /\ Started => Filed(table_7, input)
    /\ Started /\ (R_index < LastTable \/ stage = "done") =>
        table_7.cache = <<>> /\ Size7 = Len(input[LastTable])
    /\ R_index = LastTable /\ stage = "rewrite" => WritingRight
    /\ R_index = LastTable /\ stage = "mark" => Size7 = 0
BY DEF Filing, WritingRight

LEMMA InitFiling == Init => Filing
BY DEF Init, Filing, Started

LEMMA FilingSteady ==
    ASSUME Filing, UNCHANGED <<input, R_index, stage, table_7>>,
           stage = "rewrite" => UNCHANGED <<writing, Counted>>
    PROVE  Filing'
<1>1. Size7' = Size7 /\ Started' = Started
  BY DEF Size7, SizeOf, Started
<1>2. stage = "rewrite" /\ WritingRight => WritingRight'
  BY <1>1 DEF WritingRight
<1>3. Filed(table_7, input)' <=> Filed(table_7, input)
  BY DEF Filed
<1>4. QED
  BY <1>1, <1>2, <1>3, FilingParts DEF Filing, WritingRight

LEMMA EmptyFile ==
    ASSUME NEW t, NEW tables, t = [cache |-> <<>>, file |-> <<>>, num_entries |-> 0]
    PROVE  Filed(t, tables) /\ SizeOf(t) = 0
<1> DEFINE V == Rights(tables, LastTable)
<1>1. t.cache = <<>> /\ t.file = <<>> /\ t.num_entries = 0 /\ Len(<<>>) = 0
  OBVIOUS
<1>2. 1 .. Len(t.cache) = {} /\ 1 .. Len(t.file) = {}
  BY <1>1
<1> HIDE DEF V
<1>3. <<>> \in Seq(V) /\ 0 \in Nat
  OBVIOUS
<1>4. t \in FileOf(V)
  BY <1>3 DEF FileOf
<1>5. SizeOf(t) = 0
  BY <1>1 DEF SizeOf
<1>6. QED
  BY <1>1, <1>2, <1>4, <1>5 DEF Filed, V

\* The last table's blocks are passed on as they are.
LEMMA CountedFiling ==
    ASSUME Stages, Pipeline, Sorted, Filing, CountBlock
    PROVE  Filing'
<1> DEFINE block == Head(counting)
           numbered == [j \in DOMAIN block |-> Numbered(block[j], num_written + j - 1)]
           V == Finals(input, R_index, num_written)
           w == Append(writing, numbered)
           m == Len(writing)
           c == Counted
<1>1. /\ counting # <<>> /\ writing' = w
      /\ UNCHANGED <<input, R_index, stage, table_7>>
  BY DEF CountBlock, output
<1>2. /\ stage = "rewrite" /\ Started /\ Started' /\ c \in Nat
      /\ Ranked(input, R_index, block, c) /\ block \in Seq(Rights(input, R_index))
  BY <1>1, CountedBlock DEF Started
<1>3. Counted' = c + 1
  BY CountedPipeline
<1>4. Size7' = Size7 /\ (Filed(table_7, input)' <=> Filed(table_7, input))
  BY <1>1 DEF Size7, SizeOf, Filed
<1>5. ASSUME R_index = LastTable PROVE WritingRight'
  <2>1. WritingRight
    BY <1>2, <1>5, FilingParts
  <2>2. numbered = block
    <3> DEFINE W == Rights(input, R_index)
    <3>1. numbered = [j \in DOMAIN block |-> block[j]]
      BY <1>5 DEF Numbered
    <3>2. block \in Seq(W)
      BY <1>2
    <3> HIDE DEF W, block, numbered
    <3>3. block = [j \in DOMAIN block |-> block[j]]
      BY <3>2
    <3>4. QED
      BY <3>1, <3>3
  <2>3. writing \in Seq(Seq(V))
    BY <1>2, SortedParts
  <2> DEFINE S == Seq(V) \cup {block}
  <2>4. writing \in Seq(S)
    <3> DEFINE T == Seq(V)
    <3>1. writing \in Seq(T) /\ T \subseteq S
      BY <2>3
    <3> HIDE DEF T, S
    <3>2. QED
      BY <3>1
  <2>5. block \in S /\ w = Append(writing, block)
    BY <2>2
  <2> HIDE DEF S, block, numbered, w, m, c
  <2>6. /\ Len(w) = m + 1 /\ m \in Nat /\ w[m + 1] = block
        /\ \A n \in 1 .. m : w[n] = writing[n]
    BY <2>4, <2>5, AppendedElement DEF m
  <2>7. /\ m <= c /\ \A n \in 1 .. m : Ranked(input, LastTable, writing[n], c - m + n - 1)
        /\ Size7 = Begin(input, LastTable, c - m)
    BY <2>1 DEF WritingRight, m, c
  <2>8. ASSUME NEW n \in 1 .. m + 1 PROVE Ranked(input, LastTable, w[n], (c + 1) - (m + 1) + n - 1)
    <3>1. CASE n \in 1 .. m
      <4>1. (c + 1) - (m + 1) + n - 1 = c - m + n - 1
        BY <1>2, <2>6
      <4>2. QED
        BY <2>6, <2>7, <3>1, <4>1
    <3>2. CASE n = m + 1
      <4>1. (c + 1) - (m + 1) + n - 1 = c
        BY <1>2, <2>6, <3>2
      <4>2. QED
        BY <1>2, <1>5, <2>6, <3>2, <4>1 DEF block
    <3>3. QED
      BY <2>6, <3>1, <3>2
  <2>9. (c + 1) - (m + 1) = c - m /\ m + 1 <= c + 1
    BY <1>2, <2>6, <2>7
  <2>10. /\ Len(writing') <= Counted' /\ Size7' = Begin(input', LastTable, Counted' - Len(writing'))
    BY <1>1, <1>3, <1>4, <2>6, <2>7, <2>9
  <2>11. \A n \in 1 .. Len(writing') : Ranked(input', LastTable, writing'[n], Counted' - Len(writing') + n - 1)
    BY <1>1, <1>3, <2>6, <2>8
  <2>12. QED
    BY <2>10, <2>11 DEF WritingRight
<1>6. QED
  BY <1>1, <1>2, <1>4, <1>5, FilingParts DEF Filing, WritingRight

\* The first block before R_out is the one that comes next in the file.
LEMMA WrittenFiling ==
    ASSUME Stages, Pipeline, Sorted, Filing, NEW n, WriteBlock(n)
    PROVE  Filing'
<1> DEFINE V == Seq(Finals(input, R_index, num_written))
           m == Len(writing)
           c == Counted
           w == RemoveAt(writing, 1)
<1>1. /\ n \in DOMAIN writing /\ writing' = RemoveAt(writing, n)
      /\ UNCHANGED <<input, R_index, stage, given, mapping, counting>>
      /\ R_index # LastTable => table_7' = table_7
      /\ R_index = LastTable => n = 1 /\ table_7' = WriteAll(table_7, writing[n])
  BY DEF WriteBlock
<1>2. stage = "rewrite"
  <2>1. writing # <<>>
    BY <1>1
  <2>2. QED
    BY <2>1 DEF Stages
<1>3. Started /\ Started' /\ R_index \in 2 .. LastTable /\ Linked(input)
  BY <1>1, <1>2 DEF Stages, Started
<1>4. Filed(table_7, input)
  BY <1>3, FilingParts
<1>5. CASE R_index # LastTable
  <2>1. Size7' = Size7 /\ (Filed(table_7, input)' <=> Filed(table_7, input))
    BY <1>1, <1>5 DEF Size7, SizeOf, Filed
  <2>2. QED
    BY <1>1, <1>2, <1>3, <1>4, <1>5, <2>1, FilingParts DEF Filing
<1>6. CASE R_index = LastTable
  <2>1. writing \in Seq(V) /\ c \in Nat
    BY <1>2, SortedParts, PipelineParts
  <2>2. WritingRight
    BY <1>2, <1>6, FilingParts
  <2>3. Counted' = c
    BY <1>1 DEF Counted
  <2> HIDE DEF V, m, c, w
  <2>4. 1 \in 1 .. Len(writing)
    BY <1>1, <1>6, <2>1
  <2>5. /\ m \in Nat \ {0} /\ Len(w) = m - 1 /\ \A x \in 1 .. m - 1 : w[x] = writing[x + 1]
    BY <2>1, <2>4, RemovedElement DEF m, w
  <2>6. /\ m <= c /\ \A x \in 1 .. m : Ranked(input, LastTable, writing[x], c - m + x - 1)
        /\ SizeOf(table_7) = Begin(input, LastTable, c - m)
    BY <2>2 DEF WritingRight, Size7, m, c
  <2>7. Ranked(input, LastTable, writing[1], c - m) /\ c - m \in Nat
    <3>1. 1 \in 1 .. m /\ c - m + 1 - 1 = c - m /\ c - m \in Nat
      BY <2>1, <2>5, <2>6
    <3>2. QED
      BY <2>6, <3>1
  <2>8. /\ Filed(WriteAll(table_7, writing[1]), input)
        /\ SizeOf(WriteAll(table_7, writing[1])) = Begin(input, LastTable, c - m + 1)
    BY <1>3, <1>4, <2>6, <2>7, BlockFiled
  <2>9. table_7' = WriteAll(table_7, writing[1]) /\ writing' = w
    BY <1>1, <1>6 DEF w
  <2>10. ASSUME NEW x \in 1 .. Len(w) PROVE Ranked(input, LastTable, w[x], c - Len(w) + x - 1)
    <3>1. x + 1 \in 1 .. m /\ c - m + (x + 1) - 1 = c - Len(w) + x - 1 /\ w[x] = writing[x + 1]
      BY SMTT(40), <2>1, <2>5
    <3>2. QED
      BY <2>6, <3>1
  <2>11. Len(w) <= c /\ c - Len(w) = c - m + 1
    BY <2>1, <2>5, <2>6
  <2>12. WritingRight'
    <3>1. Size7' = SizeOf(table_7')
      BY DEF Size7, SizeOf
    <3>2. Len(writing') <= Counted' /\ Size7' = Begin(input', LastTable, Counted' - Len(writing'))
      BY <1>1, <2>3, <2>8, <2>9, <2>11, <3>1
    <3>3. \A x \in 1 .. Len(writing') : Ranked(input', LastTable, writing'[x], Counted' - Len(writing') + x - 1)
      BY <1>1, <2>3, <2>9, <2>10
    <3>4. QED
      BY <3>2, <3>3 DEF WritingRight
  <2>13. Filed(table_7', input')
    BY <1>1, <2>8, <2>9
  <2>14. stage' = "rewrite" /\ R_index' = LastTable /\ ~(R_index' < LastTable)
    BY <1>1, <1>2, <1>6, BoundsAssumption
  <2>15. QED
    BY <2>12, <2>13, <2>14 DEF Filing, WritingRight
<1>7. QED
  BY <1>5, <1>6

LEMMA NextFiling == Stages /\ Pipeline /\ Sorted /\ Filing /\ [Step]_vars => Filing'
<1> SUFFICES ASSUME Stages, Pipeline, Sorted, Filing, [Step]_vars PROVE Filing'
  OBVIOUS
<1>1. CASE UNCHANGED vars
  BY <1>1, FilingSteady DEF vars, pools, output, Counted
<1>2. CASE GiveMark
  BY <1>2, FilingSteady DEF GiveMark, output
<1>3. CASE MarkSome
  BY <1>3, FilingSteady DEF MarkSome, MarkEntry, output, Counted
<1>4. CASE EndMark
  <2>1. /\ stage = "mark" /\ Started /\ Started' /\ stage' = "rewrite"
        /\ writing' = <<>> /\ mapping' = <<>> /\ counting' = <<>> /\ given' = 0
        /\ UNCHANGED <<input, R_index, table_7>> /\ Linked(input) /\ R_index \in 2 .. LastTable
    BY <1>4 DEF EndMark, pools, output, Started, Stages
  <2>2. Size7' = Size7 /\ (Filed(table_7, input)' <=> Filed(table_7, input))
    BY <2>1 DEF Size7, SizeOf, Filed
  <2>3. R_index = LastTable => WritingRight'
    <3>1. Len(mapping') = 0 /\ Len(counting') = 0 /\ Len(writing') = 0 /\ 1 .. Len(writing') = {}
      <4>1. Len(<<>>) = 0
        OBVIOUS
      <4>2. QED
        BY <2>1, <4>1
    <3>2. Counted' = (given' - Len(mapping')) - Len(counting')
      BY DEF Counted
    <3>3. Counted' = 0 /\ Counted' - Len(writing') = 0
      <4>1. Counted' = (0 - 0) - 0
        BY <2>1, <3>1, <3>2, Zenon
      <4>2. Counted' = 0
        BY <4>1
      <4>3. Counted' - Len(writing') = 0 - 0
        BY <3>1, <4>2, Zenon
      <4>4. QED
        BY <4>2, <4>3
    <3>4. Begin(input, LastTable, 0) = 0
      <4>1. LastTable \in 1 .. LastTable
        BY BoundsAssumption
      <4>2. QED
        BY <2>1, <4>1, BeginFacts
    <3>5. R_index = LastTable => Size7' = 0
      BY <2>1, <2>2, FilingParts
    <3>6. Len(writing') <= Counted'
      BY <3>1, <3>3
    <3>7. R_index = LastTable => Size7' = Begin(input', LastTable, Counted' - Len(writing'))
      BY <2>1, <3>3, <3>4, <3>5
    <3>8. QED
      BY <3>1, <3>6, <3>7 DEF WritingRight
  <2>4. QED
    BY <2>1, <2>2, <2>3, FilingParts DEF Filing, WritingRight
<1>5. CASE GiveRewrite
  <2>1. UNCHANGED <<input, R_index, stage, table_7, writing>> /\ stage = "rewrite"
    BY <1>5 DEF GiveRewrite, output
  <2>2. Counted' = Counted
    <3> DEFINE new == [mapped |-> FALSE, entries |-> Block(given)]
               V == MapEntry
               W == Seq(Rights(input, R_index))
    <3>1. /\ mapping' = Append(mapping, new) /\ given' = given + 1 /\ counting' = counting /\ given \in Nat
      BY <1>5 DEF GiveRewrite, Stages
    <3>2. mapping \in Seq(V) /\ counting \in Seq(W)
      BY <2>1, PipelineParts
    <3> HIDE DEF new, V, W
    <3>3. Len(mapping') = Len(mapping) + 1 /\ Len(mapping) \in Nat /\ Len(counting) \in Nat
      BY <3>1, <3>2
    <3>4. QED
      BY <3>1, <3>3 DEF Counted
  <2>3. QED
    BY <2>1, <2>2, FilingSteady
<1>6. ASSUME NEW n, MapBlock(n) PROVE Filing'
  <2>1. UNCHANGED <<input, R_index, stage, table_7, writing, given, counting>>
    BY <1>6 DEF MapBlock, output
  <2>2. stage = "rewrite" => Counted' = Counted
    <3> DEFINE V == MapEntry
               new == [mapped |-> TRUE, entries |-> Mapped(mapping[n].entries)]
    <3>1. mapping' = [mapping EXCEPT ![n] = new]
      BY <1>6 DEF MapBlock
    <3>2. stage = "rewrite" => mapping \in Seq(V)
      BY PipelineParts
    <3> HIDE DEF V, new
    <3>3. stage = "rewrite" => Len(mapping') = Len(mapping)
      BY <3>1, <3>2
    <3>4. QED
      BY <2>1, <3>3 DEF Counted
  <2>3. QED
    BY <2>1, <2>2, FilingSteady
<1>7. CASE DeliverMapped
  <2>1. UNCHANGED <<input, R_index, stage, table_7, writing, given>>
    BY <1>7 DEF DeliverMapped, output
  <2>2. stage = "rewrite" => Counted' = Counted
    <3> DEFINE V == MapEntry
               W == Seq(Rights(input, R_index))
               e == mapping[1].entries
    <3>1. /\ 1 \in DOMAIN mapping /\ mapping' = RemoveAt(mapping, 1) /\ counting' = Append(counting, e)
      BY <1>7 DEF DeliverMapped, FirstMapped
    <3>2. stage = "rewrite" => mapping \in Seq(V) /\ counting \in Seq(W)
      BY PipelineParts
    <3>3. given \in Nat
      BY DEF Stages
    <3> HIDE DEF V, W, e
    <3>4. ASSUME stage = "rewrite" PROVE Len(mapping') = Len(mapping) - 1 /\ Len(mapping) \in Nat
      <4>1. mapping \in Seq(V) /\ 1 \in 1 .. Len(mapping)
        BY <3>1, <3>2, <3>4
      <4>2. QED
        BY <3>1, <4>1, RemovedElement
    <3>5. ASSUME stage = "rewrite" PROVE Len(counting') = Len(counting) + 1 /\ Len(counting) \in Nat
      BY <3>1, <3>2, <3>5
    <3>6. QED
      BY <2>1, <3>3, <3>4, <3>5 DEF Counted
  <2>3. QED
    BY <2>1, <2>2, FilingSteady
<1>8. CASE CountBlock
  BY <1>8, CountedFiling
<1>9. CASE WriteSome
  BY <1>9, WrittenFiling DEF WriteSome
<1>10. CASE NextTable
  <2>1. /\ stage = "rewrite" /\ Rewritten /\ Started /\ Started' /\ input' = input /\ stage' # "rewrite"
        /\ table_7' = IF R_index = LastTable THEN Flush(table_7) ELSE table_7
        /\ R_index = 2 => stage' = "done" /\ R_index' = R_index
        /\ R_index # 2 => stage' = "mark" /\ R_index' = R_index - 1
        /\ R_index \in 2 .. LastTable /\ Linked(input)
    BY <1>10 DEF NextTable, Started, Stages
  <2>2. Filed(table_7, input)
    BY <2>1, FilingParts
  <2>3. Filed(table_7', input) /\ table_7'.cache = <<>> /\ SizeOf(table_7') = Len(input[LastTable])
    <3>1. CASE R_index = LastTable
      <4>1. Filed(Flush(table_7), input) /\ SizeOf(Flush(table_7)) = SizeOf(table_7) /\ Flush(table_7).cache = <<>>
        BY <2>2, FlushFiled
      <4>2. WritingRight /\ writing = <<>> /\ Len(<<>>) = 0
        BY <2>1, <3>1, FilingParts DEF Rewritten
      <4>3. Counted = NumBlocks /\ NumBlocks \in Nat /\ Begin(input, LastTable, NumBlocks) = Len(input[LastTable])
        BY <2>1, <3>1, AllCounted, BlocksNumber DEF R_table
      <4>4. Counted - Len(writing) = NumBlocks
        BY <4>2, <4>3
      <4>5. SizeOf(table_7) = Len(input[LastTable])
        BY <4>2, <4>3, <4>4 DEF WritingRight, Size7
      <4>6. QED
        BY <2>1, <3>1, <4>1, <4>5
    <3>2. CASE R_index # LastTable
      <4>1. R_index < LastTable
        BY <2>1, <3>2, BoundsAssumption
      <4>2. table_7.cache = <<>> /\ SizeOf(table_7) = Len(input[LastTable])
        BY <2>1, <4>1, FilingParts DEF Size7
      <4>3. QED
        BY <2>1, <2>2, <3>2, <4>2
    <3>3. QED
      BY <3>1, <3>2
  <2>4. Size7' = SizeOf(table_7')
    BY DEF Size7, SizeOf
  <2>5. stage' = "mark" => R_index' # LastTable
    BY <2>1, BoundsAssumption
  <2>6. QED
    BY <2>1, <2>3, <2>4, <2>5 DEF Filing
<1>11. ASSUME NEW tables, Linked(tables), Start(tables) PROVE Filing'
  <2>1. /\ stage = "waiting" /\ ~Started /\ stage' = "mark" /\ input' = tables
        /\ R_index = LastTable /\ R_index' = R_index /\ table_7' = table_7
        /\ table_7 = [cache |-> <<>>, file |-> <<>>, num_entries |-> 0]
    BY <1>11 DEF Start, output, Started, Stages
  <2>2. Filed(table_7', tables) /\ SizeOf(table_7') = 0
    BY <2>1, EmptyFile
  <2>3. Size7' = SizeOf(table_7') /\ ~(R_index' < LastTable)
    BY <2>1, BoundsAssumption DEF Size7, SizeOf
  <2>4. QED
    BY <2>1, <2>2, <2>3 DEF Filing
<1>12. QED
  BY <1>1, <1>2, <1>3, <1>4, <1>5, <1>6, <1>7, <1>8, <1>9, <1>10, <1>11 DEF Step, Next, MapSome

-----------------------------------------------------------------------------
(* The theorems *)

Backpropagating == Stages /\ Marks /\ IndexRight /\ Pipeline /\ Sorted /\ Filing

LEMMA InitBackpropagating == Init => Backpropagating
BY InitStages, InitMarks, InitIndex, InitPipeline, InitSorted, InitFiling DEF Backpropagating

LEMMA NextBackpropagating == Backpropagating /\ [Step]_vars => Backpropagating'
BY NextStages, NextMarks, NextIndex, NextPipeline, NextSorted, NextFiling DEF Backpropagating

LEMMA BackpropagatingHolds == Safety => []Backpropagating
BY InitBackpropagating, NextBackpropagating, PTL DEF Safety

\* Of each table exactly those entries are marked that some entry of the last table
\* needs when compute_table() has closed the pool that marks, for tables of every size,
\* blocks of every length and every number of workers.
THEOREM MarksTellWhatIsNeeded == Safety => []MarksAreExact
<1>1. Backpropagating => MarksAreExact
  <2> SUFFICES ASSUME Backpropagating, stage \in {"rewrite", "done"} PROVE next_bitfield = Needed[R_index - 1]
    BY DEF MarksAreExact
  <2>1. Started /\ stage # "mark"
    BY DEF Started
  <2>2. QED
    BY <2>1, AllIsMarked DEF Backpropagating, Needed
<1>2. QED
  BY <1>1, BackpropagatingHolds, PTL

\* A rewritten table has what its needed entries have become, and nothing else.
LEMMA RewrittenTable ==
    ASSUME Backpropagating, Started, NEW i \in 2 .. LastTable, i > R_index \/ stage = "done"
    PROVE  Written(i) = {Final(input, i, p) : p \in NeededOf(input)[i]}
<1>1. Linked(input) /\ R_index \in 2 .. LastTable /\ i \in 1 .. LastTable
  BY BoundsAssumption DEF Backpropagating, Stages
<1>2. stage = "done" => R_index = 2 /\ writing = <<>>
  BY DEF Backpropagating, Stages
<1>3. CASE i = LastTable
  <2> DEFINE a == table_7.file
             V == Rights(input, LastTable)
             L == Len(input[LastTable])
  <2>1. Filed(table_7, input) /\ table_7.cache = <<>> /\ SizeOf(table_7) = L
    <3>1. R_index < LastTable \/ stage = "done"
      BY <1>1, <1>3
    <3>2. QED
      BY <3>1, FilingParts DEF Backpropagating, Size7
  <2>2. /\ table_7 \in FileOf(V) /\ table_7.num_entries = Len(a)
        /\ \A n \in 1 .. Len(a) : a[n] = Right(input, LastTable, n - 1)
    BY <2>1 DEF Filed
  <2>3. a \in Seq(V)
    BY <2>2 DEF FileOf
  <2> HIDE DEF V
  <2>4. Len(a) = L /\ Len(a) \in Nat
    BY <2>1, <2>3 DEF SizeOf
  <2>5. NeededOf(input)[LastTable] = 0 .. L - 1
    BY <1>1, NeededFacts
  <2>6. Written(i) = ToSet(SubSeq(a, 1, Len(a)))
    BY <1>3, <2>2 DEF Written
  <2> HIDE DEF a, L
  <2>7. SubSeq(a, 1, Len(a)) = a /\ DOMAIN a = 1 .. Len(a)
    BY <2>3
  <2>8. ASSUME NEW q PROVE q \in ToSet(a) <=> \E p \in 0 .. L - 1 : q = Right(input, LastTable, p)
    <3>1. q \in ToSet(a) <=> \E n \in 1 .. Len(a) : q = a[n]
      BY <2>7, Zenon DEF ToSet
    <3>2. ASSUME NEW n \in 1 .. Len(a), q = a[n] PROVE \E p \in 0 .. L - 1 : q = Right(input, LastTable, p)
      <4>1. n - 1 \in 0 .. L - 1
        BY <2>4
      <4>2. q = Right(input, LastTable, n - 1)
        BY <2>2, <3>2 DEF a
      <4>3. QED
        BY <4>1, <4>2
    <3>3. ASSUME NEW p \in 0 .. L - 1, q = Right(input, LastTable, p) PROVE \E n \in 1 .. Len(a) : q = a[n]
      <4>1. p + 1 \in 1 .. Len(a) /\ (p + 1) - 1 = p
        BY <2>4
      <4>2. a[p + 1] = Right(input, LastTable, p)
        BY <2>2, <4>1 DEF a
      <4>3. QED
        BY <3>3, <4>1, <4>2
    <3>4. QED
      BY <3>1, <3>2, <3>3
  <2>9. \A p : Final(input, i, p) = Right(input, LastTable, p)
    BY <1>3 DEF Final
  <2>10. Written(i) = ToSet(a)
    BY <2>6, <2>7
  <2>11. \A q : q \in Written(i) <=> \E p \in NeededOf(input)[i] : q = Final(input, i, p)
    BY <1>3, <2>5, <2>8, <2>9, <2>10
  <2>12. QED
    BY <2>11, Zenon
<1>4. CASE i # LastTable
  <2> DEFINE N == NeededOf(input)[i]
             L == Len(input[i])
  <2>1. i \in 2 .. LastTable - 1
    BY <1>4, BoundsAssumption
  <2>2. SortedFor(i)
    BY <2>1, SortedParts DEF Backpropagating
  <2>3. sort[i] = Finals(input, i, Rank(input, i, L))
    <3>1. CASE i > R_index
      BY <2>2, <3>1 DEF SortedFor
    <3>2. CASE i = R_index /\ stage = "done"
      <4>1. InBlocks(<<>>) = {}
        <5>1. 1 .. Len(<<>>) = {}
          OBVIOUS
        <5>2. QED
          BY <5>1 DEF InBlocks
      <4>2. sort[i] \cup {} = Finals(input, i, num_written)
        BY <1>2, <2>2, <3>2, <4>1 DEF SortedFor
      <4>3. num_written = Rank(input, i, L)
        BY <1>2, <3>2, SortedParts DEF Backpropagating
      <4>4. QED
        BY <4>2, <4>3
    <3>3. QED
      BY <1>1, <1>2, <3>1, <3>2
  <2>4. \A p \in N : Rank(input, i, p) < Rank(input, i, L)
    <3>1. /\ N \subseteq 0 .. L - 1 /\ L \in Nat
          /\ \A p \in N, q \in Nat : p < q => Rank(input, i, p) < Rank(input, i, q)
      BY <1>1, RankFacts
    <3>2. \A p \in N : p < L
      BY <3>1
    <3>3. QED
      BY <3>1, <3>2
  <2> HIDE DEF N, L
  <2>5. Written(i) = sort[i]
    BY <1>4 DEF Written
  <2>6. \A q : q \in Finals(input, i, Rank(input, i, L)) <=>
                    \E p \in N : Rank(input, i, p) < Rank(input, i, L) /\ q = Final(input, i, p)
    BY Zenon DEF Finals, N
  <2>7. \A q : q \in Written(i) <=> \E p \in N : q = Final(input, i, p)
    BY <2>3, <2>4, <2>5, <2>6, Zenon
  <2>8. QED
    BY <2>7, Zenon DEF N
<1>5. QED
  BY <1>3, <1>4

LEMMA FinalFacts ==
    ASSUME Linked(input), NEW i \in 2 .. LastTable, NEW p \in NeededOf(input)[i]
    PROVE  LET old == input[i][p + 1]
               e == Final(input, i, p)
           IN  /\ e.at = p
               /\ i < LastTable => e.key = Place(i, p)
               /\ {old.pos, old.pos + old.off} \subseteq Needed[i - 1]
               /\ e.pos = Place(i - 1, old.pos)
               /\ e.pos + e.off = Place(i - 1, old.pos + old.off)
<1> DEFINE old == input[i][p + 1]
           e == Final(input, i, p)
           first == Rank(input, i - 1, old.pos)
           second == Rank(input, i - 1, old.pos + old.off)
<1>1. i \in 1 .. LastTable /\ i - 1 \in 1 .. LastTable
  BY BoundsAssumption
<1>2. p \in 0 .. Len(input[i]) - 1
  BY <1>1, RankFacts
<1>3. old.pos \in Nat /\ old.pos + old.off \in Nat /\ Leads(input, i, p) = {old.pos, old.pos + old.off}
  BY <1>2, LinkedFacts DEF Leads
<1>4. NeededOf(input)[i - 1] = UNION {Leads(input, i, q) : q \in NeededOf(input)[i]}
  BY NeededFacts
<1>5. {old.pos, old.pos + old.off} \subseteq Needed[i - 1]
  BY <1>3, <1>4 DEF Needed
<1>6. first \in Nat /\ second \in Nat
  BY <1>1, <1>3, RankFacts
<1>7. \A j, q : Place(j, q) = Rank(input, j, q)
  BY DEF Place, Rank, Needed
<1>8. Right(input, i, p) = [at |-> p, pos |-> first, off |-> second - first]
  BY DEF Right
<1>9. e = IF i = LastTable THEN Right(input, i, p)
          ELSE [key |-> Rank(input, i, p), at |-> p, pos |-> Right(input, i, p).pos, off |-> Right(input, i, p).off]
  BY DEF Final
<1> HIDE DEF old, e, first, second
<1>10. e.at = p /\ e.pos = first /\ e.off = second - first /\ (i # LastTable => e.key = Rank(input, i, p))
  BY <1>8, <1>9
<1>11. e.pos + e.off = second
  BY <1>6, <1>10
<1>12. i < LastTable => e.key = Place(i, p)
  BY <1>7, <1>10, BoundsAssumption
<1>13. QED
  BY <1>5, <1>7, <1>10, <1>11, <1>12 DEF old, e, first, second

\* Every pointer of a rewritten table leads to what its old one led to, and a table
\* has each entry that is needed once, whatever the tables, the blocks and the order in
\* which workers and writers get to their blocks.
THEOREM PointersArePreserved == Safety => []PointersPreserved
<1>1. Backpropagating => PointersPreserved
  <2> SUFFICES ASSUME Backpropagating, (stage = "mark" /\ given = 0) \/ stage = "done",
                      NEW i \in 2 .. LastTable, i > R_index \/ stage = "done"
               PROVE  /\ {e.at : e \in Written(i)} = Needed[i] /\ Cardinality(Written(i)) = Cardinality(Needed[i])
                      /\ \A e \in Written(i) : LET old == input[i][e.at + 1] IN
                            /\ i < LastTable => e.key = Place(i, e.at)
                            /\ {old.pos, old.pos + old.off} \subseteq Needed[i - 1]
                            /\ e.pos = Place(i - 1, old.pos)
                            /\ e.pos + e.off = Place(i - 1, old.pos + old.off)
                      /\ i = LastTable => \A n \in 1 .. Len(table_7.file) : table_7.file[n].at = n - 1
    BY DEF PointersPreserved
  <2> DEFINE N == NeededOf(input)[i]
             G(p) == Final(input, i, p)
             W == Written(i)
  <2>1. Started /\ Linked(input) /\ Needed[i] = N /\ i \in 1 .. LastTable
    BY BoundsAssumption DEF Backpropagating, Stages, Started, Needed
  <2>2. W = {G(p) : p \in N}
    BY <2>1, RewrittenTable
  <2>3. \A p \in N :
          LET old == input[i][p + 1]
              e == G(p)
          IN  /\ e.at = p
              /\ i < LastTable => e.key = Place(i, p)
              /\ {old.pos, old.pos + old.off} \subseteq Needed[i - 1]
              /\ e.pos = Place(i - 1, old.pos)
              /\ e.pos + e.off = Place(i - 1, old.pos + old.off)
    BY <2>1, FinalFacts
  <2> HIDE DEF N, G, W
  <2>4. \A e \in W : e.at \in N /\ e = G(e.at)
    BY <2>2, <2>3
  <2>5. {e.at : e \in W} = N
    BY <2>2, <2>3
  <2>6. Cardinality(W) = Cardinality(N)
    <3> DEFINE g == [p \in N |-> G(p)]
    <3>1. g \in Bijection(N, W)
      <4>1. g \in [N -> W] /\ \A p \in N : g[p] = G(p)
        BY <2>2
      <4> HIDE DEF g
      <4>2. \A p, q \in N : g[p] = g[q] => p = q
        BY <2>3, <4>1
      <4>3. \A e \in W : \E p \in N : g[p] = e
        BY <2>4, <4>1
      <4>4. QED
        BY <4>1, <4>2, <4>3 DEF Bijection, Injection, Surjection, IsInjective
    <3>2. ExistsBijection(N, W)
      BY <3>1 DEF ExistsBijection
    <3>3. IsFiniteSet(N)
      <4>1. N \subseteq 0 .. Len(input[i]) - 1 /\ Len(input[i]) \in Nat
        BY <2>1, RankFacts DEF N
      <4>2. IsFiniteSet(0 .. Len(input[i]) - 1)
        BY SMTT(40), <4>1, FS_Interval
      <4>3. QED
        BY <4>1, <4>2, FS_Subset
    <3>4. QED
      BY <3>2, <3>3, FS_Bijection
  <2>7. \A e \in W : LET old == input[i][e.at + 1] IN
            /\ i < LastTable => e.key = Place(i, e.at)
            /\ {old.pos, old.pos + old.off} \subseteq Needed[i - 1]
            /\ e.pos = Place(i - 1, old.pos)
            /\ e.pos + e.off = Place(i - 1, old.pos + old.off)
    <3> SUFFICES ASSUME NEW e \in W
                 PROVE  LET old == input[i][e.at + 1] IN
                        /\ i < LastTable => e.key = Place(i, e.at)
                        /\ {old.pos, old.pos + old.off} \subseteq Needed[i - 1]
                        /\ e.pos = Place(i - 1, old.pos)
                        /\ e.pos + e.off = Place(i - 1, old.pos + old.off)
      OBVIOUS
    <3>1. PICK p \in N : p = e.at /\ e = G(p)
      BY <2>4
    <3>2. QED
      BY <2>3, <3>1
  <2>8. \A n \in 1 .. Len(table_7.file) : table_7.file[n].at = n - 1
    <3>1. \A n \in 1 .. Len(table_7.file) : table_7.file[n] = Right(input, LastTable, n - 1)
      BY <2>1 DEF Backpropagating, Filing, Filed
    <3>2. \A p : Right(input, LastTable, p).at = p
      BY DEF Right
    <3>3. QED
      BY <3>1, <3>2
  <2>9. QED
    BY <2>1, <2>5, <2>6, <2>7, <2>8 DEF W
<1>2. QED
  BY <1>1, BackpropagatingHolds, PTL

-----------------------------------------------------------------------------
(* Forward propagation *)

\* Sequences and sets are those of phase 2.
LEMMA SameOperators ==
    /\ \A s : F!FlattenSeq(s) = FlattenSeq(s) /\ F!ToSet(s) = ToSet(s) /\ F!IsInjective(s) = IsInjective(s)
    /\ \A S : F!Min(S) = Min(S) /\ F!Cardinality(S) = Cardinality(S)
<1>1. ASSUME NEW s PROVE F!FlattenSeq(s) = FlattenSeq(s)
  BY Zenon DEF F!FlattenSeq, FlattenSeq
<1>2. ASSUME NEW s PROVE F!ToSet(s) = ToSet(s)
  BY DEF F!ToSet, ToSet
<1>3. ASSUME NEW s PROVE F!IsInjective(s) = IsInjective(s)
  BY DEF F!IsInjective, IsInjective
<1>4. ASSUME NEW S PROVE F!Min(S) = Min(S)
  BY Zenon DEF F!Min, Min
<1>5. ASSUME NEW S PROVE F!Cardinality(S) = Cardinality(S)
  BY Zenon DEF F!Cardinality, Cardinality
<1>6. QED
  BY <1>1, <1>2, <1>3, <1>4, <1>5

LEMMA Parameters ==
    /\ k \in Nat /\ kB \in Nat \ {0} /\ kC \in Nat \ {0} /\ kExtraBits \in Nat \ {0} /\ PMAX \in Nat
    /\ M \in Nat \ {0} /\ Matchers \in Nat \ {0} /\ LogBatch \in 0 .. k /\ BlockSpans \subseteq Nat \ {0}
    /\ LastTable \in Nat /\ LastTable >= 2
BY ParametersFit, BoundsAssumption DEF F!ParametersFit

-----------------------------------------------------------------------------
(* Targets *)

LEMMA BucketSize_1 == F!kBC \in Nat \ {0} /\ F!kBC = kB * kC /\ F!kExtraBitsPow \in Nat \ {0}
<1>1. kB * kC \in Nat \ {0}
  BY Parameters
<1>2. 2 ^ kExtraBits \in Nat \ {0}
  BY Parameters, PowerOfTwo
<1>3. QED
  BY <1>1, <1>2 DEF F!kBC, F!kExtraBitsPow

\* A target is a number in a bucket, in its two parts.
LEMMA TargetParts ==
    ASSUME NEW parity \in {0, 1}, NEW i \in Nat, NEW m \in Nat
    PROVE  /\ F!L_target(parity, i, m) \in 0 .. F!kBC - 1
           /\ F!L_target(parity, i, m) \div kC = ((i \div kC) + m) % kB
           /\ F!L_target(parity, i, m) % kC = ((2 * m + parity) * (2 * m + parity) + i) % kC
<1> DEFINE a == ((i \div kC) + m) % kB
           c == ((2 * m + parity) * (2 * m + parity)) + i
           b == c % kC
<1>1. a \in 0 .. kB - 1
  <2>1. (i \div kC) + m \in Nat
    BY Parameters, Divided
  <2>2. QED
    BY <2>1, Parameters, Divided
<1>2. b \in 0 .. kC - 1
  <2>1. c \in Nat
    OBVIOUS
  <2> HIDE DEF c
  <2>2. QED
    BY <2>1, Parameters, Divided
<1>3. F!L_target(parity, i, m) = a * kC + b
  BY DEF F!L_target
<1> HIDE DEF a, b, c
<1>4. a \in Nat /\ a < kB
  BY <1>1, Parameters
<1>5. a * kC + kC <= kB * kC /\ a * kC \in Nat
  BY <1>4, Parameters, BelowProduct
<1>6. a * kC + b \in 0 .. F!kBC - 1
  <2>1. kB * kC \in Nat
    BY Parameters
  <2>2. QED
    BY <1>2, <1>5, <2>1, Parameters, BucketSize_1
<1>7. (a * kC + b) \div kC = a /\ (a * kC + b) % kC = b
  BY <1>2, <1>4, Parameters, QuotientIs
<1>8. QED
  BY <1>3, <1>6, <1>7 DEF a, b, c

\* The values of y that match one of the left bucket are those at its targets.
LEMMA TargetsMatch ==
    ASSUME NEW yl \in Nat, NEW yr \in Nat, F!Bucket(yr) = F!Bucket(yl) + 1
    PROVE  F!Matching(yl, yr) <=>
               \E m \in 0 .. F!kExtraBitsPow - 1 :
                   yr - F!Bucket(yr) * F!kBC = F!L_target(F!Bucket(yl) % 2, yl - F!Bucket(yl) * F!kBC, m)
<1> DEFINE B == F!kBC
           i == yl % B
           j == yr % B
           parity == F!Bucket(yl) % 2
           square(m) == (2 * m + parity) * (2 * m + parity)
<1>1. B \in Nat \ {0} /\ F!kExtraBitsPow \in Nat \ {0}
  BY BucketSize_1
<1>2. /\ i \in 0 .. B - 1 /\ yl - F!Bucket(yl) * B = i
      /\ j \in 0 .. B - 1 /\ yr - F!Bucket(yr) * B = j
      /\ F!Bucket(yl) \in Nat
  <2> HIDE DEF B
  <2>1. ASSUME NEW y \in Nat PROVE y % B \in 0 .. B - 1 /\ y - (y \div B) * B = y % B /\ y \div B \in Nat
    <3>1. y % B \in 0 .. B - 1 /\ y = B * (y \div B) + (y % B) /\ y \div B \in Nat
      BY <1>1, Divided
    <3>2. B * (y \div B) = (y \div B) * B
      BY <1>1, <3>1
    <3>3. QED
      BY <1>1, <3>1, <3>2
  <2>2. QED
    BY <2>1 DEF F!Bucket, B
<1>3. parity \in {0, 1}
  BY <1>2
<1> HIDE DEF parity
<1>4. ASSUME NEW m \in 0 .. F!kExtraBitsPow - 1
      PROVE  /\ ((j \div kC) - (i \div kC)) % kB = m % kB
             /\ ((j % kC) - (i % kC)) % kC = square(m) % kC
             <=> j = F!L_target(parity, i, m)
  <2> DEFINE t == F!L_target(parity, i, m)
  <2>1. i \in Nat /\ m \in Nat /\ j \in Nat
    BY <1>1, <1>2
  <2>2. t \in 0 .. B - 1 /\ t \div kC = ((i \div kC) + m) % kB /\ t % kC = (square(m) + i) % kC
    <3> HIDE DEF i, j
    <3>1. /\ F!L_target(parity, i, m) \in 0 .. F!kBC - 1
          /\ F!L_target(parity, i, m) \div kC = ((i \div kC) + m) % kB
          /\ F!L_target(parity, i, m) % kC = ((2 * m + parity) * (2 * m + parity) + i) % kC
      BY ONLY <1>3, <2>1, TargetParts
    <3>2. QED
      BY <3>1
  <2>3. square(m) \in Nat
    BY <1>3, <2>1
  <2> HIDE DEF t, square, i, j
  <2>4. i \div kC \in 0 .. kB - 1 /\ j \div kC \in 0 .. kB - 1
    <3>1. ASSUME NEW n \in 0 .. B - 1 PROVE n \div kC \in 0 .. kB - 1
      <4>1. n \in Nat /\ n < kB * kC
        BY <1>1, BucketSize_1, Parameters
      <4>2. n \div kC \in Nat /\ n % kC \in Nat /\ n = kC * (n \div kC) + (n % kC)
        <5>1. n \in Nat /\ kC \in Nat \ {0}
          BY <4>1, Parameters
        <5>2. n \div kC \in Nat /\ n % kC \in 0 .. kC - 1 /\ n = kC * (n \div kC) + (n % kC)
          BY ONLY <5>1, Divided
        <5>3. QED
          BY <5>2
      <4>3. ~(kB <= n \div kC)
        <5> DEFINE q == n \div kC
        <5>1. CASE q = kB
          BY <4>1, <4>2, <5>1, Parameters
        <5>2. CASE kB < q
          <6>1. kB * kC + kC <= q * kC /\ kB * kC \in Nat /\ q * kC \in Nat
            BY <4>2, <5>2, Parameters, BelowProduct
          <6>2. q * kC = kC * q
            BY <4>2, Parameters
          <6> HIDE DEF q
          <6>3. QED
            BY <4>1, <4>2, <6>1, <6>2, Parameters DEF q
        <5>3. QED
          BY <4>2, <5>1, <5>2, Parameters
      <4>4. QED
        BY <4>2, <4>3, Parameters
    <3>2. QED
      BY <1>2, <3>1
  <2>5. ((j \div kC) - (i \div kC)) % kB = m % kB <=> j \div kC = ((i \div kC) + m) % kB
    <3> DEFINE p == j \div kC
               q == i \div kC
    <3>1. kB \in Nat \ {0} /\ p \in 0 .. kB - 1 /\ q \in 0 .. kB - 1 /\ m \in Nat
      BY <2>1, <2>4, Parameters
    <3> HIDE DEF p, q
    <3>2. SameRest(kB, p, q, m)
      BY ONLY <3>1, Differences
    <3>3. QED
      BY <3>2 DEF SameRest, p, q
  <2>6. ((j % kC) - (i % kC)) % kC = square(m) % kC <=> j % kC = ((i % kC) + square(m)) % kC
    <3>1. i % kC \in 0 .. kC - 1 /\ j % kC \in 0 .. kC - 1
      BY <2>1, Parameters, Divided
    <3>2. SameRest(kC, j % kC, i % kC, square(m))
      <4> DEFINE p == j % kC
                 q == i % kC
                 s == square(m)
      <4>1. kC \in Nat \ {0} /\ p \in 0 .. kC - 1 /\ q \in 0 .. kC - 1 /\ s \in Nat
        BY <2>3, <3>1, Parameters
      <4> HIDE DEF p, q, s
      <4>2. SameRest(kC, p, q, s)
        BY ONLY <4>1, Differences
      <4>3. QED
        BY <4>2 DEF p, q, s
    <3>3. QED
      BY <3>2 DEF SameRest
  <2>7. ((i % kC) + square(m)) % kC = (square(m) + i) % kC
    <3> DEFINE s == square(m)
               x == (i % kC) + s
               y == s + i
    <3>1. i = kC * (i \div kC) + (i % kC) /\ i % kC \in 0 .. kC - 1 /\ i \div kC \in Nat
      BY <2>1, Parameters, Divided
    <3>2. x \in Nat /\ y \in Nat /\ y = kC * (i \div kC) + x
      BY <2>1, <2>3, <3>1, Parameters
    <3> DEFINE q == i \div kC
               u == x \div kC
               v == x % kC
    <3>3. u \in Nat /\ v \in 0 .. kC - 1 /\ x = kC * u + v
      BY <3>2, Parameters, Divided
    <3> HIDE DEF x, y, q, u, v
    <3>4. y = (q + u) * kC + v
      <4>1. kC * q + kC * u = (q + u) * kC
        BY <3>1, <3>3, Parameters DEF q
      <4>2. kC * q \in Nat /\ kC * u \in Nat
        BY <3>1, <3>3, Parameters DEF q
      <4>3. QED
        BY <3>2, <3>3, <4>1, <4>2 DEF q
    <3>5. y % kC = v
      <4>1. q + u \in Nat
        BY <3>1, <3>3 DEF q
      <4>2. QED
        BY <3>3, <3>4, <4>1, Parameters, QuotientIs
    <3>6. QED
      BY <3>5 DEF v, x, y
  <2>8. j \div kC = t \div kC /\ j % kC = t % kC <=> j = t
    <3>1. t \in Nat
      BY <1>1, <2>2
    <3>2. j = kC * (j \div kC) + (j % kC) /\ t = kC * (t \div kC) + (t % kC)
      BY <2>1, <3>1, Parameters, Divided
    <3>3. QED
      BY <3>2
  <2>9. QED
    BY <2>2, <2>5, <2>6, <2>7, <2>8 DEF t
<1>5. F!Matching(yl, yr) <=> \E m \in 0 .. F!kExtraBitsPow - 1 :
          /\ ((j \div kC) - (i \div kC)) % kB = m % kB
          /\ ((j % kC) - (i % kC)) % kC = square(m) % kC
  BY DEF F!Matching, parity
<1> HIDE DEF i, j, square
<1>6. QED
  BY <1>2, <1>4, <1>5 DEF parity

-----------------------------------------------------------------------------
(* What FxMatcher finds *)

\* A vector of entries of one bucket, sorted by y
Vector(L, b) ==
    /\ DOMAIN L = 1 .. Len(L) /\ Len(L) \in Nat \ {0} /\ b \in Nat
    /\ \A i \in 1 .. Len(L) : L[i].y \in Nat /\ F!Bucket(L[i].y) = b
    /\ \A i, j \in 1 .. Len(L) : i <= j => L[i].y <= L[j].y

\* Where the values r of the bucket are
Places(R, r) == {p \in 1 .. Len(R) : R[p].y - F!Bucket(R[1].y) * F!kBC = r}

\* The pairs of a left entry and the entries at places A
Listing(l, A) == [j \in 1 .. Cardinality(A) |-> [l |-> l, r |-> (Min(A) - 1) + j - 1]]

TargetOf(L, R, pl, m) ==
    F!L_target(F!Bucket(L[1].y) % 2, L[pl].y - (F!Bucket(R[1].y) * F!kBC - F!kBC), m - 1)

HitsOfLeft(L, R, pl) ==
    FlattenSeq([m \in 1 .. F!kExtraBitsPow |-> Listing(pl - 1, Places(R, TargetOf(L, R, pl, m)))])

Hits(L, R) == FlattenSeq([pl \in 1 .. Len(L) |-> HitsOfLeft(L, R, pl)])

\* Between two pairs of buckets an FxMatcher counts nothing it would not clean.
Clean(fx) ==
    /\ DOMAIN fx.rmap = 0 .. F!kBC - 1
    /\ \A r \in 0 .. F!kBC - 1 : fx.rmap[r].count = 0 \/ r \in fx.clean

Hit == [l : Nat, r : Nat]

LEMMA TargetIs ==
    ASSUME NEW L, NEW R, NEW b, Vector(L, b), Vector(R, b + 1), NEW pl \in 1 .. Len(L), NEW m \in Nat \ {0}
    PROVE  /\ TargetOf(L, R, pl, m) \in 0 .. F!kBC - 1
           /\ TargetOf(L, R, pl, m) = F!L_target(b % 2, L[pl].y - b * F!kBC, m - 1)
           /\ L[pl].y - b * F!kBC \in 0 .. F!kBC - 1
<1> DEFINE B == F!kBC
           y == L[pl].y
<1>1. B \in Nat \ {0}
  BY BucketSize_1
<1>2. y \in Nat /\ y \div B = b /\ F!Bucket(L[1].y) = b /\ F!Bucket(R[1].y) = b + 1 /\ b \in Nat
  BY DEF Vector, F!Bucket
<1> HIDE DEF B, y
<1>3. (b + 1) * B - B = b * B /\ b * B \in Nat
  BY <1>1, <1>2
<1>4. y - b * B \in 0 .. B - 1
  <2>1. y % B \in 0 .. B - 1 /\ y = B * b + (y % B)
    BY <1>1, <1>2, Divided
  <2>2. B * b = b * B
    BY <1>1, <1>2
  <2>3. y - b * B = y % B
    BY <1>2, <1>3, <2>1, <2>2
  <2>4. QED
    BY <2>1, <2>3
<1>5. TargetOf(L, R, pl, m) = F!L_target(b % 2, y - b * B, m - 1)
  BY <1>2, <1>3 DEF TargetOf, y, B
<1>6. F!L_target(b % 2, y - b * B, m - 1) \in 0 .. F!kBC - 1
  <2>1. b % 2 \in {0, 1} /\ y - b * B \in Nat /\ m - 1 \in Nat
    BY <1>1, <1>2, <1>4
  <2>2. QED
    BY <2>1, TargetParts
<1>7. QED
  BY <1>4, <1>5, <1>6 DEF y, B

\* The entries of the right bucket with the same y are neighbours.
LEMMA PlacesAre ==
    ASSUME NEW R, NEW b, Vector(R, b), NEW r
    PROVE  /\ Places(R, r) \in SUBSET (1 .. Len(R)) /\ Cardinality(Places(R, r)) \in Nat
           /\ Places(R, r) = {} <=> Cardinality(Places(R, r)) = 0
           /\ Places(R, r) # {} =>
                /\ Min(Places(R, r)) \in Nat \ {0}
                /\ Places(R, r) = Min(Places(R, r)) .. Min(Places(R, r)) + Cardinality(Places(R, r)) - 1
<1> DEFINE A == Places(R, r)
           c == F!Bucket(R[1].y) * F!kBC
<1>1. A \in SUBSET (1 .. Len(R)) /\ Len(R) \in Nat /\ A \in SUBSET Nat
  BY DEF Places, Vector
<1>2. IsFiniteSet(A) /\ Cardinality(A) \in Nat
  <2>1. IsFiniteSet(1 .. Len(R))
    BY <1>1, FS_Interval
  <2> HIDE DEF A
  <2>2. IsFiniteSet(A)
    BY <1>1, <2>1, FS_Subset
  <2>3. QED
    BY <2>2, FS_CardinalityType
<1>3. A = {} <=> Cardinality(A) = 0
  BY <1>2, FS_EmptySet
<1>4. ASSUME A # {} PROVE Min(A) \in Nat \ {0} /\ A = Min(A) .. Min(A) + Cardinality(A) - 1
  <2>1. \A a, d \in A, q \in Nat : a <= q /\ q <= d => q \in A
    <3> SUFFICES ASSUME NEW a \in A, NEW d \in A, NEW q \in Nat, a <= q, q <= d PROVE q \in A
      OBVIOUS
    <3>1. a \in 1 .. Len(R) /\ d \in 1 .. Len(R) /\ q \in 1 .. Len(R)
      BY <1>1
    <3>2. R[a].y <= R[q].y /\ R[q].y <= R[d].y /\ R[a].y \in Nat /\ R[q].y \in Nat /\ R[d].y \in Nat
      BY <3>1 DEF Vector
    <3>3. R[a].y - c = r /\ R[d].y - c = r
      BY DEF Places
    <3>4. c \in Nat
      <4>1. F!Bucket(R[1].y) \in Nat /\ F!kBC \in Nat
        BY <1>1, BucketSize_1 DEF Vector
      <4>2. QED
        BY <4>1
    <3> HIDE DEF c
    <3>5. R[q].y - c = r
      BY <3>2, <3>3, <3>4
    <3>6. QED
      BY <3>1, <3>5 DEF Places, c
  <2>2. \A a \in A : a <= Len(R)
    BY <1>1
  <2> HIDE DEF A
  <2>3. /\ Min(A) \in A /\ Cardinality(A) \in Nat \ {0}
        /\ A = Min(A) .. Min(A) + Cardinality(A) - 1
    BY <1>1, <1>4, <2>1, <2>2, WithoutGaps
  <2>4. Min(A) \in Nat \ {0}
    <3> DEFINE m == Min(A)
    <3>1. m \in A
      BY <2>3
    <3> HIDE DEF m
    <3>2. m \in Nat \ {0}
      BY <1>1, <3>1
    <3>3. QED
      BY <3>2 DEF m
  <2>5. QED
    BY <2>3, <2>4
<1>5. QED
  BY <1>1, <1>2, <1>3, <1>4

LEMMA ListingIs ==
    ASSUME NEW R, NEW b, Vector(R, b), NEW r, NEW l \in Nat
    PROVE  /\ Listing(l, Places(R, r)) \in Seq(Hit)
           /\ IsInjective(Listing(l, Places(R, r)))
           /\ \A f : f \in ToSet(Listing(l, Places(R, r)))
                       <=> f \in Hit /\ f.l = l /\ f.r + 1 \in Places(R, r)
<1> DEFINE A == Places(R, r)
           n == Cardinality(A)
           m == Min(A)
           s == Listing(l, A)
<1>1. /\ n \in Nat /\ (A = {} <=> n = 0) /\ A \in SUBSET Nat
      /\ A # {} => m \in Nat \ {0} /\ A = m .. m + n - 1
  <2>1. A \in SUBSET (1 .. Len(R)) /\ Len(R) \in Nat
    BY PlacesAre DEF Vector
  <2>2. A \in SUBSET Nat
    BY <2>1
  <2>3. QED
    BY <2>2, PlacesAre
<1> HIDE DEF A, n, m
<1>2. DOMAIN s = 1 .. n /\ \A j \in 1 .. n : s[j] = [l |-> l, r |-> (m - 1) + j - 1]
  BY DEF Listing, n, m
<1>3. \A j \in 1 .. n : s[j] \in Hit /\ s[j].l = l /\ s[j].r = (m - 1) + j - 1 /\ s[j].r + 1 \in A
  <2> SUFFICES ASSUME NEW j \in 1 .. n PROVE s[j] \in Hit /\ s[j].l = l /\ s[j].r = (m - 1) + j - 1 /\ s[j].r + 1 \in A
    OBVIOUS
  <2>1. m \in Nat \ {0} /\ A = m .. m + n - 1 /\ s[j] = [l |-> l, r |-> (m - 1) + j - 1]
    BY <1>1, <1>2
  <2>2. (m - 1) + j - 1 \in Nat /\ ((m - 1) + j - 1) + 1 \in A
    BY <1>1, <2>1
  <2>3. QED
    BY <2>1, <2>2 DEF Hit
<1>4. s \in Seq(Hit)
  <2>1. s = [j \in 1 .. n |-> [l |-> l, r |-> (m - 1) + j - 1]]
    BY DEF Listing, n, m
  <2>2. \A j \in 1 .. n : [l |-> l, r |-> (m - 1) + j - 1] \in Hit
    BY <1>2, <1>3
  <2> HIDE DEF s
  <2>3. QED
    BY <1>1, <2>1, <2>2
<1> HIDE DEF s
<1>5. IsInjective(s)
  <2>1. ASSUME NEW i \in 1 .. n, NEW j \in 1 .. n, s[i] = s[j] PROVE i = j
    <3>1. (m - 1) + i - 1 = (m - 1) + j - 1 /\ m \in Nat
      BY <1>1, <1>3, <2>1
    <3>2. QED
      BY <3>1
  <2>2. QED
    BY <1>2, <2>1 DEF IsInjective
<1>6. ASSUME NEW f, f \in ToSet(s) PROVE f \in Hit /\ f.l = l /\ f.r + 1 \in A
  <2>1. PICK j \in 1 .. n : f = s[j]
    BY <1>2, <1>6 DEF ToSet
  <2>2. QED
    BY <1>3, <2>1
<1>7. ASSUME NEW f \in Hit, f.l = l, f.r + 1 \in A PROVE f \in ToSet(s)
  <2>1. m \in Nat \ {0} /\ A = m .. m + n - 1 /\ f.r \in Nat
    BY <1>1, <1>7 DEF Hit
  <2> DEFINE j == f.r + 2 - m
  <2>2. j \in 1 .. n /\ (m - 1) + j - 1 = f.r
    BY SMTT(40), <1>1, <1>7, <2>1
  <2> HIDE DEF j
  <2>3. s[j] = f
    <3>1. s[j] = [l |-> l, r |-> f.r]
      BY <1>2, <2>2
    <3>2. f = [l |-> f.l, r |-> f.r]
      BY DEF Hit
    <3>3. QED
      BY <1>7, <3>1, <3>2
  <2>4. QED
    BY <1>2, <2>2, <2>3 DEF ToSet
<1>8. QED
  BY <1>4, <1>5, <1>6, <1>7 DEF s, A

LEMMA HitsOfLeftAre ==
    ASSUME NEW L, NEW R, NEW b, Vector(L, b), Vector(R, b + 1), NEW pl \in 1 .. Len(L)
    PROVE  /\ HitsOfLeft(L, R, pl) \in Seq(Hit) /\ IsInjective(HitsOfLeft(L, R, pl))
           /\ \A f : f \in ToSet(HitsOfLeft(L, R, pl)) <=>
                  /\ f \in Hit /\ f.l = pl - 1 /\ f.r + 1 \in 1 .. Len(R)
                  /\ F!Matching(L[pl].y, R[f.r + 1].y)
<1> DEFINE P == F!kExtraBitsPow
           T(m) == TargetOf(L, R, pl, m)
           A(m) == Places(R, T(m))
           i == L[pl].y - b * F!kBC
           ss == [m \in 1 .. P |-> Listing(pl - 1, A(m))]
<1>1. P \in Nat \ {0} /\ pl - 1 \in Nat /\ b \in Nat /\ Len(R) \in Nat
  BY BucketSize_1 DEF Vector
<1>2. ASSUME NEW m \in 1 .. P PROVE T(m) = F!L_target(b % 2, i, m - 1) /\ i \in 0 .. F!kBC - 1
  <2>1. m \in Nat \ {0}
    BY <1>1
  <2>2. QED
    BY <2>1, TargetIs
<1>3. ASSUME NEW m \in 1 .. P, NEW n \in 1 .. P, T(m) = T(n) PROVE m = n
  <2>1. m - 1 \in 0 .. P - 1 /\ n - 1 \in 0 .. P - 1 /\ b % 2 \in {0, 1}
    BY <1>1
  <2>2. F!L_target(b % 2, i, m - 1) = F!L_target(b % 2, i, n - 1) /\ i \in 0 .. F!kBC - 1
    BY <1>2, <1>3
  <2> HIDE DEF i
  <2>3. m - 1 = n - 1
    BY <2>1, <2>2, TargetsDiffer DEF F!TargetsDiffer
  <2>4. QED
    BY <1>1, <2>3
<1>4. ASSUME NEW m \in 1 .. P
      PROVE  /\ ss[m] \in Seq(Hit) /\ IsInjective(ss[m])
             /\ \A f : f \in ToSet(ss[m]) <=> f \in Hit /\ f.l = pl - 1 /\ f.r + 1 \in A(m)
  <2>1. ss[m] = Listing(pl - 1, Places(R, T(m)))
    OBVIOUS
  <2> HIDE DEF ss, T
  <2>2. \A r : /\ Listing(pl - 1, Places(R, r)) \in Seq(Hit)
               /\ IsInjective(Listing(pl - 1, Places(R, r)))
               /\ \A f : f \in ToSet(Listing(pl - 1, Places(R, r)))
                           <=> f \in Hit /\ f.l = pl - 1 /\ f.r + 1 \in Places(R, r)
    BY <1>1, ListingIs
  <2>3. QED
    BY <2>1, <2>2
<1> HIDE DEF P
<1>5. ss \in Seq(Seq(Hit)) /\ Len(ss) = P
  <2>1. DOMAIN ss = 1 .. P /\ ss = [m \in 1 .. P |-> ss[m]]
    OBVIOUS
  <2>2. \A m \in 1 .. P : ss[m] \in Seq(Hit)
    BY <1>4
  <2> HIDE DEF ss
  <2> DEFINE W == Seq(Hit)
  <2> HIDE DEF W
  <2>3. \A m \in 1 .. P : ss[m] \in W
    BY <2>2 DEF W
  <2>4. ss \in Seq(W) /\ Len(ss) = P
    BY <1>1, <2>1, <2>3
  <2>5. QED
    BY <2>4 DEF W
<1>6. HitsOfLeft(L, R, pl) = FlattenSeq(ss)
  BY DEF HitsOfLeft, P
<1> HIDE DEF ss, A, T, i
<1>7. IsInjective(FlattenSeq(ss))
  <2>1. \A m \in 1 .. Len(ss) : IsInjective(ss[m])
    BY <1>4, <1>5
  <2>2. \A m, n \in 1 .. Len(ss) : m # n => ToSet(ss[m]) \cap ToSet(ss[n]) = {}
    <3> SUFFICES ASSUME NEW m \in 1 .. P, NEW n \in 1 .. P, NEW f, f \in ToSet(ss[m]), f \in ToSet(ss[n]) PROVE m = n
      BY <1>5
    <3>1. f.r + 1 \in Places(R, T(m)) /\ f.r + 1 \in Places(R, T(n))
      BY <1>4 DEF A
    <3>2. T(m) = T(n)
      BY <3>1 DEF Places
    <3>3. QED
      BY <1>3, <3>2
  <2>3. QED
    BY <1>5, <2>1, <2>2, FlattenInjective
<1>8. FlattenSeq(ss) \in Seq(Hit)
  BY <1>5, JoinedEnds
<1>9. \A f : f \in ToSet(FlattenSeq(ss)) <=> \E m \in 1 .. P : f \in Hit /\ f.l = pl - 1 /\ f.r + 1 \in A(m)
  <2>1. \A f : f \in ToSet(FlattenSeq(ss)) <=> \E m \in 1 .. Len(ss) : f \in ToSet(ss[m])
    BY <1>5, FlattenElements
  <2>2. QED
    BY <1>4, <1>5, <2>1
<1>10. ASSUME NEW q \in 1 .. Len(R)
       PROVE  F!Matching(L[pl].y, R[q].y) <=> \E m \in 1 .. P : q \in A(m)
  <2>1. /\ L[pl].y \in Nat /\ R[q].y \in Nat /\ F!Bucket(L[pl].y) = b /\ F!Bucket(R[q].y) = b + 1
        /\ F!Bucket(R[1].y) = b + 1
    BY DEF Vector
  <2>2. F!Matching(L[pl].y, R[q].y) <=> \E m \in 0 .. P - 1 : R[q].y - (b + 1) * F!kBC = F!L_target(b % 2, i, m)
    BY <2>1, TargetsMatch DEF i, P
  <2>3. \A m \in 1 .. P : q \in A(m) <=> R[q].y - (b + 1) * F!kBC = F!L_target(b % 2, i, m - 1)
    BY <1>2, <2>1 DEF A, Places
  <2>4. \A m \in 0 .. P - 1 : m + 1 \in 1 .. P /\ (m + 1) - 1 = m
    BY <1>1
  <2>5. \A m \in 1 .. P : m - 1 \in 0 .. P - 1
    BY <1>1
  <2>6. QED
    BY <2>2, <2>3, <2>4, <2>5
<1>11. \A f : (\E m \in 1 .. P : f \in Hit /\ f.l = pl - 1 /\ f.r + 1 \in A(m))
             <=> /\ f \in Hit /\ f.l = pl - 1 /\ f.r + 1 \in 1 .. Len(R)
                 /\ F!Matching(L[pl].y, R[f.r + 1].y)
  <2>1. \A m \in 1 .. P : A(m) \in SUBSET (1 .. Len(R))
    BY DEF A, Places
  <2>2. QED
    BY <1>10, <2>1
<1>12. QED
  BY <1>6, <1>7, <1>8, <1>9, <1>11

LEMMA HitsAre ==
    ASSUME NEW L, NEW R, NEW b, Vector(L, b), Vector(R, b + 1)
    PROVE  /\ Hits(L, R) \in Seq(Hit) /\ IsInjective(Hits(L, R))
           /\ \A f : f \in ToSet(Hits(L, R)) <=>
                  /\ f \in Hit /\ f.l + 1 \in 1 .. Len(L) /\ f.r + 1 \in 1 .. Len(R)
                  /\ F!Matching(L[f.l + 1].y, R[f.r + 1].y)
<1> DEFINE n == Len(L)
           ss == [pl \in 1 .. n |-> HitsOfLeft(L, R, pl)]
<1>1. n \in Nat
  BY DEF Vector
<1>2. ASSUME NEW pl \in 1 .. n
      PROVE  /\ ss[pl] \in Seq(Hit) /\ IsInjective(ss[pl])
             /\ \A f : f \in ToSet(ss[pl]) <=>
                  /\ f \in Hit /\ f.l = pl - 1 /\ f.r + 1 \in 1 .. Len(R)
                  /\ F!Matching(L[pl].y, R[f.r + 1].y)
  <2>1. ss[pl] = HitsOfLeft(L, R, pl)
    OBVIOUS
  <2> HIDE DEF ss
  <2>2. QED
    BY <2>1, HitsOfLeftAre
<1> HIDE DEF n
<1>3. ss \in Seq(Seq(Hit)) /\ Len(ss) = n
  <2>1. DOMAIN ss = 1 .. n /\ ss = [m \in 1 .. n |-> ss[m]]
    OBVIOUS
  <2>2. \A m \in 1 .. n : ss[m] \in Seq(Hit)
    BY <1>2
  <2> HIDE DEF ss
  <2> DEFINE W == Seq(Hit)
  <2> HIDE DEF W
  <2>3. \A m \in 1 .. n : ss[m] \in W
    BY <2>2 DEF W
  <2>4. ss \in Seq(W) /\ Len(ss) = n
    BY <1>1, <2>1, <2>3
  <2>5. QED
    BY <2>4 DEF W
<1>4. Hits(L, R) = FlattenSeq(ss)
  BY DEF Hits, n
<1> HIDE DEF ss
<1>5. IsInjective(FlattenSeq(ss))
  <2>1. \A m \in 1 .. Len(ss) : IsInjective(ss[m])
    BY <1>2, <1>3
  <2>2. \A m, q \in 1 .. Len(ss) : m # q => ToSet(ss[m]) \cap ToSet(ss[q]) = {}
    <3> SUFFICES ASSUME NEW m \in 1 .. n, NEW q \in 1 .. n, NEW f, f \in ToSet(ss[m]), f \in ToSet(ss[q]) PROVE m = q
      BY <1>3
    <3>1. f.l = m - 1 /\ f.l = q - 1
      BY <1>2
    <3>2. QED
      BY <1>1, <3>1
  <2>3. QED
    BY <1>3, <2>1, <2>2, FlattenInjective
<1>6. FlattenSeq(ss) \in Seq(Hit)
  BY <1>3, JoinedEnds
<1>7. \A f : f \in ToSet(FlattenSeq(ss)) <=> \E m \in 1 .. n : f \in ToSet(ss[m])
  BY <1>3, FlattenElements
<1>8. \A f : (\E m \in 1 .. n : f \in ToSet(ss[m]))
             <=> /\ f \in Hit /\ f.l + 1 \in 1 .. n /\ f.r + 1 \in 1 .. Len(R)
                 /\ F!Matching(L[f.l + 1].y, R[f.r + 1].y)
  <2>1. \A f \in Hit, m \in 1 .. n : f.l = m - 1 <=> m = f.l + 1
    BY <1>1 DEF Hit
  <2>2. QED
    BY <1>2, <2>1
<1>9. QED
  BY <1>4, <1>5, <1>6, <1>7, <1>8 DEF n

\* What find_matches() finds are the hits, whatever the matcher did before.
LEMMA HitsFound ==
    ASSUME NEW L, NEW R, NEW b, Vector(L, b), Vector(R, b + 1), NEW fx, Clean(fx)
    PROVE  /\ Clean(F!Indexed(fx, R))
           /\ F!Found(F!Indexed(fx, R), L, R) = Hits(L, R)
<1> DEFINE B == F!kBC
           offset == F!Bucket(R[1].y) * B
           next == F!Indexed(fx, R)
           old == F!Cleaned(fx)
           new(r) ==
               IF Places(R, r) = {} THEN old[r]
               ELSE [pos |-> IF old[r].count = 0 THEN Min(Places(R, r)) - 1 ELSE old[r].pos,
                     count |-> old[r].count + Cardinality(Places(R, r))]
<1>1. next = [rmap |-> [r \in 0 .. B - 1 |-> new(r)], clean |-> {R[p].y - offset : p \in 1 .. Len(R)}]
  BY SameOperators DEF F!Indexed, Places, F!Bucket
<1>2. next.rmap = [r \in 0 .. B - 1 |-> new(r)] /\ next.clean = {R[p].y - offset : p \in 1 .. Len(R)}
  BY <1>1
<1>3. \A r \in 0 .. B - 1 : old[r].count = 0
  BY DEF F!Cleaned, Clean
<1>4. ASSUME NEW r \in 0 .. B - 1
      PROVE  /\ next.rmap[r] = new(r)
             /\ next.rmap[r].count = Cardinality(Places(R, r))
             /\ Places(R, r) # {} => next.rmap[r].pos = Min(Places(R, r)) - 1
  <2>1. next.rmap[r] = new(r)
    BY <1>2
  <2>2. Cardinality(Places(R, r)) \in Nat /\ (Places(R, r) = {} <=> Cardinality(Places(R, r)) = 0)
    BY PlacesAre
  <2> HIDE DEF old, next, B
  <2>3. QED
    BY <1>3, <2>1, <2>2
<1> HIDE DEF next, old, new
<1>5. Clean(next)
  <2>1. DOMAIN next.rmap = 0 .. B - 1
    BY <1>2
  <2>2. ASSUME NEW r \in 0 .. B - 1 PROVE next.rmap[r].count = 0 \/ r \in next.clean
    <3>1. CASE Places(R, r) = {}
      BY <1>4, <3>1, PlacesAre
    <3>2. CASE Places(R, r) # {}
      BY <1>2, <3>2 DEF Places
    <3>3. QED
      BY <3>1, <3>2
  <2>3. QED
    BY <2>1, <2>2 DEF Clean
<1> DEFINE P == F!kExtraBitsPow
           parity == (L[1].y \div B) % 2
           offset_y == ((R[1].y \div B) * B) - B
           item(pl, m) == next.rmap[F!L_target(parity, L[pl].y - offset_y, m)]
           ofTarget(pl, m) == [j \in 1 .. item(pl, m).count |-> [l |-> pl - 1, r |-> item(pl, m).pos + j - 1]]
           ofLeft(pl) == F!FlattenSeq([m \in 1 .. P |-> ofTarget(pl, m - 1)])
<1>6. F!Found(next, L, R) = F!FlattenSeq([pl \in 1 .. Len(L) |-> ofLeft(pl)])
  BY DEF F!Found
<1>7. ASSUME NEW pl \in 1 .. Len(L), NEW m \in 1 .. P
      PROVE  ofTarget(pl, m - 1) = Listing(pl - 1, Places(R, TargetOf(L, R, pl, m)))
  <2> DEFINE T == TargetOf(L, R, pl, m)
             A == Places(R, T)
  <2>1. T \in 0 .. B - 1 /\ item(pl, m - 1) = next.rmap[T]
    <3>1. m \in Nat \ {0}
      BY BucketSize_1
    <3>2. T \in 0 .. F!kBC - 1
      BY <3>1, TargetIs
    <3>3. T = F!L_target(parity, L[pl].y - offset_y, m - 1)
      BY DEF TargetOf, F!Bucket
    <3>4. QED
      BY <3>2, <3>3
  <2>2. item(pl, m - 1).count = Cardinality(A) /\ (A # {} => item(pl, m - 1).pos = Min(A) - 1)
    BY <1>4, <2>1
  <2>3. A = {} => Cardinality(A) = 0
    BY PlacesAre
  <2> HIDE DEF T, item
  <2> DEFINE c == item(pl, m - 1).count
             q == item(pl, m - 1).pos
  <2>4. ofTarget(pl, m - 1) = [j \in 1 .. c |-> [l |-> pl - 1, r |-> q + j - 1]]
    OBVIOUS
  <2> HIDE DEF ofTarget, A, c, q
  <2>5. Listing(pl - 1, A) = [j \in 1 .. Cardinality(A) |-> [l |-> pl - 1, r |-> (Min(A) - 1) + j - 1]]
    BY DEF Listing
  <2>6. CASE A = {}
    <3>1. c = 0 /\ Cardinality(A) = 0
      BY <2>2, <2>3, <2>6 DEF c
    <3>2. 1 .. 0 = {}
      OBVIOUS
    <3>3. [j \in 1 .. 0 |-> [l |-> pl - 1, r |-> q + j - 1]] = [j \in 1 .. 0 |-> [l |-> pl - 1, r |-> (Min(A) - 1) + j - 1]]
      BY <3>2
    <3>4. QED
      BY <2>4, <2>5, <3>1, <3>3 DEF A, T
  <2>7. CASE A # {}
    <3>1. c = Cardinality(A) /\ q = Min(A) - 1
      BY <2>2, <2>7 DEF c, q
    <3>2. QED
      BY <2>4, <2>5, <3>1 DEF A, T
  <2>8. QED
    BY <2>6, <2>7
<1> HIDE DEF ofTarget, item
<1>8. ASSUME NEW pl \in 1 .. Len(L) PROVE ofLeft(pl) = HitsOfLeft(L, R, pl)
  <2>1. [m \in 1 .. P |-> ofTarget(pl, m - 1)] = [m \in 1 .. P |-> Listing(pl - 1, Places(R, TargetOf(L, R, pl, m)))]
    BY <1>7
  <2>2. QED
    BY <2>1, SameOperators DEF HitsOfLeft
<1> HIDE DEF ofLeft
<1>9. [pl \in 1 .. Len(L) |-> ofLeft(pl)] = [pl \in 1 .. Len(L) |-> HitsOfLeft(L, R, pl)]
  BY <1>8
<1>10. QED
  BY <1>5, <1>6, <1>9, SameOperators DEF Hits, next

-----------------------------------------------------------------------------
(* Values of the functions *)

LEMMA NumIsNat == ASSUME NEW v PROVE F!Num(v) \in Nat
<1> DEFINE bit(b) == IF b \in v THEN 1 ELSE 0
           step == [i \in 1 .. 31 |-> [n \in Nat |-> 2 * n + bit(31 - i)]]
           Is(f) == f = [b \in 0 .. 31 |-> IF b = 31 THEN 0 ELSE 2 * f[b + 1] + bit(b)]
           num == CHOOSE f : Is(f)
<1>1. PICK g \in [0 .. 31 -> Nat] : Solves(g, 0, step, 31)
  <2>1. step \in [1 .. 31 -> [Nat -> Nat]]
    OBVIOUS
  <2> HIDE DEF step
  <2>2. QED
    BY <2>1, Recursion
<1>2. g[0] = 0 /\ \A i \in 1 .. 31 : g[i] = 2 * g[i - 1] + bit(31 - i)
  <2>1. ASSUME NEW i \in 1 .. 31 PROVE g[i] = 2 * g[i - 1] + bit(31 - i)
    <3>1. g[i] = step[i][g[i - 1]]
      BY <1>1 DEF Solves
    <3>2. g[i - 1] \in Nat
      OBVIOUS
    <3>3. QED
      BY <3>1, <3>2
  <2>2. QED
    BY <1>1, <2>1 DEF Solves
<1> HIDE DEF bit
<1> DEFINE h == [b \in 0 .. 31 |-> g[31 - b]]
<1>3. Is(h)
  <2>1. ASSUME NEW b \in 0 .. 31 PROVE h[b] = IF b = 31 THEN 0 ELSE 2 * h[b + 1] + bit(b)
    <3>1. CASE b = 31
      BY <1>2, <3>1
    <3>2. CASE b # 31
      <4>1. 31 - b \in 1 .. 31 /\ b + 1 \in 0 .. 31 /\ 31 - (31 - b) = b /\ (31 - b) - 1 = 31 - (b + 1)
        BY <3>2
      <4>2. g[31 - b] = 2 * g[31 - (b + 1)] + bit(b)
        BY <1>2, <4>1
      <4>3. h[b] = g[31 - b] /\ h[b + 1] = g[31 - (b + 1)]
        BY <4>1
      <4> HIDE DEF h
      <4>4. QED
        BY <3>2, <4>2, <4>3
    <3>3. QED
      BY <3>1, <3>2
  <2>2. h = [b \in 0 .. 31 |-> h[b]]
    OBVIOUS
  <2> HIDE DEF h
  <2>3. QED
    BY <2>1, <2>2
<1>4. Is(num)
  <2> HIDE DEF Is, h
  <2>1. QED
    BY <1>3
<1> HIDE DEF num
<1>5. ASSUME NEW b \in 0 .. 31 PROVE num[b] = IF b = 31 THEN 0 ELSE 2 * num[b + 1] + bit(b)
  <2> DEFINE r == [c \in 0 .. 31 |-> IF c = 31 THEN 0 ELSE 2 * num[c + 1] + bit(c)]
  <2>1. num = r
    BY <1>4
  <2>2. r[b] = IF b = 31 THEN 0 ELSE 2 * num[b + 1] + bit(b)
    OBVIOUS
  <2> HIDE DEF r
  <2>3. QED
    BY <2>1, <2>2
<1> DEFINE S == {i \in 0 .. 31 : num[31 - i] \in Nat}
<1>6. 0 \in S
  <2>1. num[31] = 0
    BY <1>5
  <2>2. QED
    BY <2>1
<1>7. ASSUME NEW i \in 1 .. 31, i - 1 \in S PROVE i \in S
  <2>1. 31 - i \in 0 .. 31 /\ 31 - i # 31 /\ (31 - i) + 1 = 31 - (i - 1)
    OBVIOUS
  <2>2. num[31 - i] = 2 * num[31 - (i - 1)] + bit(31 - i)
    BY <1>5, <2>1
  <2>3. num[31 - (i - 1)] \in Nat
    BY <1>7
  <2>4. bit(31 - i) \in Nat
    BY DEF bit
  <2>5. QED
    BY <2>2, <2>3, <2>4
<1> HIDE DEF S
<1>8. \A i \in 0 .. 31 : i \in S
  BY <1>6, <1>7, Induction
<1>9. num[0] \in Nat
  <2>1. 31 \in S
    BY <1>8
  <2>2. QED
    BY <2>1 DEF S
<1>10. F!Num(v) = num[0]
  BY DEF F!Num, num, bit
<1>11. QED
  BY <1>9, <1>10

LEMMA EvaluatedIs ==
    ASSUME NEW m
    PROVE  F!Evaluated(m).y \in Nat /\ F!Evaluated(m).pos = m.pos /\ F!Evaluated(m).off = m.off
<1> DEFINE t == R_index_1
           bits == k + kExtraBits + 2 * kVectorLens[t] * k
           hash == Hash(F!Input(t, m.left, m.right), F!cdiv(bits, ByteBits))
           y == F!Num(F!Shr(F!WordAt(hash, 0), LongBits - (k + (IF t < LastTable THEN kExtraBits ELSE 0))))
           meta == F!Bytes(F!C(t, m.left, m.right, hash), F!cdiv(F!CBits(t), ByteBits))
<1>1. F!Evaluated(m) = [y |-> y, pos |-> m.pos, off |-> m.off, meta |-> meta]
  BY DEF F!Evaluated, F!evaluate
<1>2. y \in Nat
  BY NumIsNat
<1> HIDE DEF y, meta
<1>3. QED
  BY <1>1, <1>2

\* An entry of table 1
Seed == [y : Nat, x : Nat]

LEMMA BatchIs ==
    ASSUME NEW plot, NEW first \in Nat, NEW n \in Nat
    PROVE  F!compute_block(plot, first, n) \in Seq(Seed)
<1> DEFINE y(x) == F!SliceInt64FromBytes(F!BytesOf(F!chacha8_get_keystream(F!chacha8_keysetup(F!EncKey(plot), 256, {}),
                                             (first * k) \div F!kF1BlockSizeBits,
                                             F!BlocksFor(first, n))), F!StartBit(first) + (x - first) * k, k)
           entry(i) == [y |-> F!Num(F!Or(F!Shl(y(first + i - 1), kExtraBits), F!Shr(F!Word(first + i - 1), k - kExtraBits))),
                        x |-> first + i - 1]
<1>1. F!compute_block(plot, first, n) = [i \in 1 .. n |-> entry(i)]
  BY DEF F!compute_block
<1>2. ASSUME NEW i \in 1 .. n PROVE entry(i) \in Seed
  <2>1. F!Num(F!Or(F!Shl(y(first + i - 1), kExtraBits), F!Shr(F!Word(first + i - 1), k - kExtraBits))) \in Nat
    BY NumIsNat
  <2>2. first + i - 1 \in Nat
    OBVIOUS
  <2> HIDE DEF y
  <2>3. QED
    BY <2>1, <2>2 DEF Seed
<1> HIDE DEF entry
<1>3. QED
  BY <1>1, <1>2

-----------------------------------------------------------------------------
(* What a DiskSort gives back *)

\* Before() orders the set totally.
Ordered(S) ==
    /\ IsFiniteSet(S)
    /\ \A e \in S : e.y \in Nat
    /\ R_index_1 = 1 => /\ \A e \in S : e.x \in Nat
                        /\ \A d, e \in S : d.y = e.y /\ d.x = e.x => d = e
    /\ R_index_1 # 1 => /\ \A e \in S : e.pos \in Nat /\ e.off \in Nat
                        /\ \A d, e \in S : d.pos = e.pos /\ d.off = e.off => d = e

LEMMA SortedIs ==
    ASSUME NEW S, Ordered(S)
    PROVE  /\ Cardinality(S) \in Nat
           /\ F!Sorted(S) \in Seq(S) /\ Len(F!Sorted(S)) = Cardinality(S)
           /\ \A i, j \in 1 .. Cardinality(S) : i <= j => F!Sorted(S)[i].y <= F!Sorted(S)[j].y
<1> DEFINE R == {p \in S \X S : F!Before(p[1], p[2])}
           below(e) == Cardinality({d \in S : <<d, e>> \in R})
           N == Cardinality(S)
           rank == [e \in S |-> F!Cardinality({d \in S : F!Before(d, e)})]
           at(n) == CHOOSE e \in S : rank[e] = n - 1
<1>1. IsFiniteSet(S) /\ \A e \in S : e.y \in Nat
  BY DEF Ordered
<1>2. \A a \in S : <<a, a>> \notin R
  BY DEF Ordered, F!Before
<1>3. \A a, b, c \in S : <<a, b>> \in R /\ <<b, c>> \in R => <<a, c>> \in R
  <2> SUFFICES ASSUME NEW a \in S, NEW b \in S, NEW c \in S, F!Before(a, b), F!Before(b, c) PROVE F!Before(a, c)
    OBVIOUS
  <2>1. CASE R_index_1 = 1
    BY <2>1 DEF Ordered, F!Before
  <2>2. CASE R_index_1 # 1
    BY <2>2 DEF Ordered, F!Before
  <2>3. QED
    BY <2>1, <2>2
<1>4. \A a, b \in S : a = b \/ <<a, b>> \in R \/ <<b, a>> \in R
  <2> SUFFICES ASSUME NEW a \in S, NEW b \in S, a # b PROVE F!Before(a, b) \/ F!Before(b, a)
    OBVIOUS
  <2>1. CASE R_index_1 = 1
    BY <2>1 DEF Ordered, F!Before
  <2>2. CASE R_index_1 # 1
    BY <2>2 DEF Ordered, F!Before
  <2>3. QED
    BY <2>1, <2>2
<1>5. \A d, e \in S : <<d, e>> \in R <=> F!Before(d, e)
  OBVIOUS
<1> HIDE DEF R
<1>6. /\ N \in Nat
      /\ \A e \in S : below(e) \in 0 .. N - 1
      /\ \A d, e \in S : <<d, e>> \in R => below(d) < below(e)
      /\ \A n \in 1 .. N : \E e \in S : below(e) = n - 1
  BY ZenonT(60), <1>1, <1>2, <1>3, <1>4, Ranks
<1>7. \A e \in S : rank[e] = below(e)
  <2> SUFFICES ASSUME NEW e \in S PROVE rank[e] = below(e)
    OBVIOUS
  <2>1. {d \in S : F!Before(d, e)} = {d \in S : <<d, e>> \in R}
    BY <1>5
  <2>2. rank[e] = F!Cardinality({d \in S : F!Before(d, e)})
    OBVIOUS
  <2>3. QED
    BY <2>1, <2>2, SameOperators
<1>8. F!Sorted(S) = [n \in 1 .. N |-> at(n)]
  BY SameOperators DEF F!Sorted
<1> HIDE DEF rank, below, N
<1>9. ASSUME NEW n \in 1 .. N PROVE at(n) \in S /\ below(at(n)) = n - 1
  BY <1>6, <1>7
<1> HIDE DEF at
<1>10. F!Sorted(S) \in Seq(S) /\ Len(F!Sorted(S)) = N
  BY <1>6, <1>8, <1>9
<1>11. ASSUME NEW i \in 1 .. N, NEW j \in 1 .. N, i <= j PROVE at(i).y <= at(j).y
  <2>1. ~F!Before(at(j), at(i))
    <3>1. below(at(i)) \in Int /\ below(at(j)) \in Int /\ ~(below(at(j)) < below(at(i)))
      BY <1>6, <1>9, <1>11
    <3>2. QED
      BY <1>5, <1>6, <1>9, <3>1
  <2>2. at(i).y \in Nat /\ at(j).y \in Nat
    BY <1>1, <1>9
  <2>3. ~(at(j).y < at(i).y)
    <3>1. at(j).y < at(i).y => at(j).y # at(i).y
      BY <2>2
    <3>2. QED
      BY <2>1, <3>1 DEF F!Before
  <2>4. QED
    BY <2>2, <2>3
<1>12. \A i \in 1 .. N : F!Sorted(S)[i] = at(i)
  BY <1>8
<1>13. QED
  BY <1>6, <1>10, <1>11, <1>12 DEF N

\* A table: entries with values of y, in blocks one behind the other
SortedTable(t) ==
    \E V : /\ t \in Seq(Seq(V)) /\ \A e \in V : e.y \in Nat
           /\ \A i, j \in 1 .. Len(FlattenSeq(t)) : i <= j => FlattenSeq(t)[i].y <= FlattenSeq(t)[j].y

LEMMA OrderedPart ==
    ASSUME NEW S, Ordered(S), NEW T \in SUBSET S
    PROVE  Ordered(T)
<1>1. IsFiniteSet(T)
  BY FS_Subset DEF Ordered
<1>2. QED
  BY <1>1 DEF Ordered

\* Blocks that are each sorted, and each before the next
LEMMA BlocksSorted ==
    ASSUME NEW S, \A e \in S : e.y \in Nat, NEW t \in Seq(Seq(S)),
           \A n \in 1 .. Len(t) : \A i, j \in 1 .. Len(t[n]) : i <= j => t[n][i].y <= t[n][j].y,
           \A m, n \in 1 .. Len(t) : m < n =>
               \A i \in 1 .. Len(t[m]), j \in 1 .. Len(t[n]) : t[m][i].y <= t[n][j].y
    PROVE  \A p, q \in 1 .. Len(FlattenSeq(t)) : p <= q => FlattenSeq(t)[p].y <= FlattenSeq(t)[q].y
<1> SUFFICES ASSUME NEW p \in 1 .. Len(FlattenSeq(t)), NEW q \in 1 .. Len(FlattenSeq(t)), p <= q
             PROVE  FlattenSeq(t)[p].y <= FlattenSeq(t)[q].y
  OBVIOUS
<1> DEFINE f == FlattenSeq(t)
           J(n) == Len(Joined(t, n))
<1>1. PICK m \in 1 .. Len(t) : \E i \in 1 .. Len(t[m]) : p = J(m - 1) + i
  BY JoinedFind
<1>2. PICK i \in 1 .. Len(t[m]) : p = J(m - 1) + i
  BY <1>1
<1>3. PICK n \in 1 .. Len(t) : \E j \in 1 .. Len(t[n]) : q = J(n - 1) + j
  BY JoinedFind
<1>4. PICK j \in 1 .. Len(t[n]) : q = J(n - 1) + j
  BY <1>3
<1>5. f[J(m - 1) + i] = t[m][i] /\ J(m) = J(m - 1) + Len(t[m]) /\ J(m - 1) \in Nat /\ Len(t[m]) \in Nat
  BY JoinedPlaces
<1>6. f[J(n - 1) + j] = t[n][j] /\ J(n) = J(n - 1) + Len(t[n]) /\ J(n - 1) \in Nat /\ Len(t[n]) \in Nat
  BY JoinedPlaces
<1>7. m <= n
  <2>1. ASSUME n < m PROVE J(n) <= J(m - 1)
    <3>1. n \in 0 .. Len(t) /\ m - 1 \in n .. Len(t)
      BY <2>1
    <3>2. QED
      BY <3>1, JoinedGrows
  <2> HIDE DEF J
  <2>2. p > J(m - 1) /\ q <= J(n) /\ p \in Nat /\ q \in Nat /\ J(m - 1) \in Nat /\ J(n) \in Nat
    <3>1. \A a, l \in Nat : \A x \in 1 .. l : a + x > a /\ a + x <= a + l /\ a + x \in Nat /\ a + l \in Nat
      OBVIOUS
    <3>2. p > J(m - 1) /\ p \in Nat /\ J(m - 1) \in Nat
      BY <1>2, <1>5, <3>1
    <3>3. q <= J(n) /\ q \in Nat /\ J(n) \in Nat
      BY <1>4, <1>6, <3>1
    <3>4. QED
      BY <3>2, <3>3
  <2>3. ~(J(n) <= J(m - 1))
    BY <2>2
  <2>4. ~(n < m)
    BY <2>1, <2>3
  <2>5. QED
    BY <2>4
<1>8. f[p] = t[m][i] /\ f[q] = t[n][j]
  <2> HIDE DEF f, J
  <2>1. QED
    BY <1>2, <1>4, <1>5, <1>6
<1> HIDE DEF f
<1>9. t[m][i].y <= t[n][j].y
  <2>1. CASE m = n
    <3>1. i <= j
      <4> HIDE DEF J
      <4>1. QED
        BY <1>2, <1>4, <1>5, <1>6, <2>1
    <3>2. QED
      BY <2>1, <3>1
  <2>2. CASE m # n
    BY SMTT(40), <1>7, <2>2
  <2>3. QED
    BY <2>1, <2>2
<1>10. QED
  BY <1>8, <1>9 DEF f

LEMMA InBlocksIs ==
    ASSUME NEW S, Ordered(S), span \in Nat \ {0}
    PROVE  F!InBlocks(S) \in Seq(Seq(S)) /\ SortedTable(F!InBlocks(S))
<1> DEFINE b == {e.y \div span : e \in S}
           R == {p \in b \X b : p[1] < p[2]}
           below(c) == Cardinality({d \in b : <<d, c>> \in R})
           nth(n) == CHOOSE c \in b : F!Cardinality({d \in b : d < c}) = n - 1
           N == Cardinality(b)
           part(n) == {e \in S : e.y \div span = nth(n)}
<1>1. IsFiniteSet(S) /\ \A e \in S : e.y \in Nat
  BY DEF Ordered
<1>2. b \in SUBSET Nat
  <2>1. \A e \in S : e.y \div span \in Nat
    BY <1>1, Divided
  <2>2. QED
    BY <2>1
<1>3. IsFiniteSet(b)
  <2> DEFINE g == [e \in S |-> e.y \div span]
  <2>1. g \in Surjection(S, b)
    BY DEF Surjection
  <2> HIDE DEF g
  <2>2. QED
    BY <1>1, <2>1, FS_Surjection
<1>4. \A d, c \in b : <<d, c>> \in R <=> d < c
  OBVIOUS
<1>5. b \in SUBSET Int
  BY <1>2
<1>6. F!InBlocks(S) = [n \in 1 .. N |-> F!Sorted(part(n))]
  BY SameOperators DEF F!InBlocks
<1>10. \A n : nth(n) = CHOOSE c \in b : F!Cardinality({d \in b : d < c}) = n - 1
  OBVIOUS
<1>11. \A n : part(n) = {e \in S : e.y \div span = nth(n)}
  OBVIOUS
<1> HIDE DEF b, R, nth, part
<1>7. /\ N \in Nat
      /\ \A c \in b : below(c) \in 0 .. N - 1
      /\ \A d, c \in b : <<d, c>> \in R => below(d) < below(c)
      /\ \A n \in 1 .. N : \E c \in b : below(c) = n - 1
  <2>1. \A a \in b : <<a, a>> \notin R
    BY <1>4, <1>5
  <2>2. \A a, d, c \in b : <<a, d>> \in R /\ <<d, c>> \in R => <<a, c>> \in R
    BY <1>4, <1>5
  <2>3. \A a, d \in b : a = d \/ <<a, d>> \in R \/ <<d, a>> \in R
    <3> SUFFICES ASSUME NEW a \in b, NEW d \in b PROVE a = d \/ <<a, d>> \in R \/ <<d, a>> \in R
      OBVIOUS
    <3>1. a = d \/ a < d \/ d < a
      BY <1>5
    <3>2. QED
      BY <1>4, <3>1
  <2>4. QED
    BY <1>3, <2>1, <2>2, <2>3, Ranks
<1>8. \A c \in b : F!Cardinality({d \in b : d < c}) = below(c)
  <2> SUFFICES ASSUME NEW c \in b PROVE F!Cardinality({d \in b : d < c}) = below(c)
    OBVIOUS
  <2>1. {d \in b : d < c} = {d \in b : <<d, c>> \in R}
    BY <1>4
  <2>2. QED
    BY <2>1, SameOperators
<1> HIDE DEF below, N
<1>9. ASSUME NEW n \in 1 .. N PROVE nth(n) \in b /\ below(nth(n)) = n - 1
  <2>1. \E c \in b : F!Cardinality({d \in b : d < c}) = n - 1
    BY <1>7, <1>8
  <2>2. nth(n) \in b /\ F!Cardinality({d \in b : d < nth(n)}) = n - 1
    BY <1>10, <2>1
  <2>3. QED
    BY <1>8, <2>2
<1>12. ASSUME NEW n
       PROVE  /\ F!Sorted(part(n)) \in Seq(part(n)) /\ F!Sorted(part(n)) \in Seq(S)
              /\ \A i \in 1 .. Len(F!Sorted(part(n))) :
                    /\ F!Sorted(part(n))[i] \in S
                    /\ F!Sorted(part(n))[i].y \in Nat /\ F!Sorted(part(n))[i].y \div span = nth(n)
              /\ \A i, j \in 1 .. Len(F!Sorted(part(n))) : i <= j => F!Sorted(part(n))[i].y <= F!Sorted(part(n))[j].y
  <2> DEFINE s == F!Sorted(part(n))
  <2>1. part(n) \in SUBSET S
    BY <1>11
  <2>2. Ordered(part(n))
    BY <2>1, OrderedPart
  <2>3. s \in Seq(part(n)) /\ \A i, j \in 1 .. Len(s) : i <= j => s[i].y <= s[j].y
    BY <2>2, SortedIs
  <2> HIDE DEF s
  <2>4. \A i \in 1 .. Len(s) : s[i] \in part(n)
    BY <2>3
  <2>5. \A i \in 1 .. Len(s) : s[i] \in S /\ s[i].y \in Nat /\ s[i].y \div span = nth(n)
    BY <1>1, <1>11, <2>1, <2>4
  <2>6. s \in Seq(S)
    BY <2>1, <2>3
  <2>7. QED
    BY <2>3, <2>5, <2>6 DEF s
<1> DEFINE t == F!InBlocks(S)
<1>13. t \in Seq(Seq(S)) /\ Len(t) = N /\ \A n \in 1 .. N : t[n] = F!Sorted(part(n))
  <2> DEFINE W == Seq(S)
  <2>1. \A n \in 1 .. N : F!Sorted(part(n)) \in W
    BY <1>12
  <2> HIDE DEF W
  <2>2. t \in Seq(W) /\ Len(t) = N /\ \A n \in 1 .. N : t[n] = F!Sorted(part(n))
    BY <1>6, <1>7, <2>1
  <2>3. QED
    BY <2>2 DEF W
<1> HIDE DEF t
<1>14. \A n \in 1 .. Len(t) : \A i, j \in 1 .. Len(t[n]) : i <= j => t[n][i].y <= t[n][j].y
  BY <1>12, <1>13
<1>15. \A m, n \in 1 .. Len(t) : m < n =>
               \A i \in 1 .. Len(t[m]), j \in 1 .. Len(t[n]) : t[m][i].y <= t[n][j].y
  <2> SUFFICES ASSUME NEW m \in 1 .. N, NEW n \in 1 .. N, m < n,
                      NEW i \in 1 .. Len(t[m]), NEW j \in 1 .. Len(t[n])
               PROVE  t[m][i].y <= t[n][j].y
    BY <1>13
  <2> DEFINE y == t[m][i].y
             z == t[n][j].y
  <2>1. y \in Nat /\ y \div span = nth(m)
    BY <1>12, <1>13
  <2>2. z \in Nat /\ z \div span = nth(n)
    BY <1>12, <1>13
  <2> HIDE DEF y, z
  <2>3. nth(m) \in b /\ nth(n) \in b /\ below(nth(m)) = m - 1 /\ below(nth(n)) = n - 1
    BY <1>9
  <2>4. ~(z < y)
    <3>1. ASSUME z < y PROVE FALSE
      <4>1. z \div span <= y \div span
        <5>1. \A u, w \in Nat : u <= w => u \div span <= w \div span
          BY Division
        <5>2. z \in Nat /\ y \in Nat /\ z <= y
          BY <2>1, <2>2, <3>1
        <5>3. QED
          BY ONLY <5>1, <5>2, Zenon
      <4>2. nth(n) # nth(m)
        BY <1>7, <2>3
      <4>3. nth(n) < nth(m)
        BY <1>5, <2>1, <2>2, <2>3, <4>1, <4>2
      <4>4. below(nth(n)) < below(nth(m))
        BY <1>4, <1>7, <2>3, <4>3
      <4>5. QED
        BY <2>3, <4>4, <1>7
    <3>2. QED
      BY <3>1
  <2>5. QED
    BY SMTT(40), <2>1, <2>2, <2>4 DEF y, z
<1>16. \A i, j \in 1 .. Len(FlattenSeq(t)) : i <= j => FlattenSeq(t)[i].y <= FlattenSeq(t)[j].y
  BY <1>1, <1>13, <1>14, <1>15, BlocksSorted
<1>17. QED
  BY <1>1, <1>13, <1>16 DEF SortedTable, t

-----------------------------------------------------------------------------
(* Slicing *)

\* The bucket of a vector of the heap, where it begins in the table, and the pair
\* it makes with the one before
Bkt(h, c) == IF c \in 1 .. Len(h) THEN F!Bucket(h[c][1].y) ELSE 0

First(h, c) == IF c = 0 THEN 0 ELSE Len(Joined(h, c - 1))

PairAt(h, c) == [offset |-> First(h, c - 1), L |-> c - 1, R |-> c]

Emits(h, c) == Bkt(h, c - 1) + 1 = Bkt(h, c)

Emitted(h, c) == IF Emits(h, c) THEN <<PairAt(h, c)>> ELSE <<>>

AllPairs(h, n) == FlattenSeq([c \in 1 .. n |-> Emitted(h, c)])

PairType == [offset : Nat, L : Nat, R : Nat]

\* The heap holds the first m entries of the table E, one vector for every bucket.
Grouped(V, E, h, m) ==
    /\ h \in Seq(Seq(V)) /\ m \in 0 .. Len(E)
    /\ \A c \in 1 .. Len(h) : h[c] # <<>> /\ \A i \in 1 .. Len(h[c]) : F!Bucket(h[c][i].y) = Bkt(h, c)
    /\ \A c, d \in 1 .. Len(h) : c < d => Bkt(h, c) < Bkt(h, d)
    /\ FlattenSeq(h) = SubSeq(E, 1, m)

\* A table, as one sequence
TableSeq(V, E) ==
    /\ E \in Seq(V) /\ \A e \in V : e.y \in Nat
    /\ \A i, j \in 1 .. Len(E) : i <= j => E[i].y <= E[j].y

Two(a, b) == [n \in {0, 1} |-> IF n = 0 THEN a ELSE b]

\* What read_thread knows of the heap
Slicer(s, h) ==
    /\ s.heap = h
    /\ s.index = Two(Bkt(h, Len(h)), Bkt(h, Len(h) - 1))
    /\ s.bucket = Two(Len(h), IF Len(h) = 0 THEN 0 ELSE Len(h) - 1)
    /\ s.offset = Two(First(h, Len(h)), IF Len(h) = 0 THEN 0 ELSE First(h, Len(h) - 1))

SliceState(V) == [index : [{0, 1} -> Nat], offset : [{0, 1} -> Nat], bucket : [{0, 1} -> Nat],
                  heap : Seq(Seq(V)), out : Seq(PairType)]

\* A later heap: of the vectors there were, only the last may have grown.
Extends(h, g) ==
    /\ Len(h) <= Len(g) /\ \A c \in 1 .. Len(h) - 1 : g[c] = h[c]
    /\ \A c \in 0 .. Len(h) : Bkt(g, c) = Bkt(h, c) /\ First(g, c) = First(h, c)

LEMMA VectorOf ==
    ASSUME NEW V, NEW E, NEW h, NEW m, TableSeq(V, E), Grouped(V, E, h, m), NEW c \in 1 .. Len(h)
    PROVE  /\ Vector(h[c], Bkt(h, c)) /\ h[c] \in Seq(V)
           /\ Bkt(h, c) = F!Bucket(h[c][1].y)
           /\ First(h, c) \in Nat /\ Len(h[c]) \in Nat \ {0} /\ First(h, c) + Len(h[c]) <= m
           /\ First(h, c + 1) = First(h, c) + Len(h[c])
           /\ \A i \in 1 .. Len(h[c]) : h[c][i] = E[First(h, c) + i] /\ First(h, c) + i \in 1 .. Len(E)
<1> DEFINE b == First(h, c)
           v == h[c]
           f == FlattenSeq(h)
<1>1. h \in Seq(Seq(V)) /\ E \in Seq(V) /\ m \in 0 .. Len(E) /\ f = SubSeq(E, 1, m) /\ v # <<>>
  BY DEF Grouped, TableSeq
<1>2. b = Len(Joined(h, c - 1)) /\ First(h, c + 1) = Len(Joined(h, c)) /\ Len(h) \in Nat /\ c \in Nat \ {0}
  <2>1. Len(h) \in Nat
    <3> DEFINE W == Seq(V)
    <3>1. h \in Seq(W)
      BY <1>1
    <3> HIDE DEF W
    <3>2. QED
      BY <3>1
  <2>2. c # 0 /\ c + 1 # 0 /\ (c + 1) - 1 = c /\ c \in Nat
    BY <2>1
  <2>3. QED
    BY <2>1, <2>2 DEF First
<1>3. /\ v \in Seq(V) /\ Len(v) \in Nat /\ b \in Nat /\ Len(f) \in Nat /\ f \in Seq(V)
      /\ Len(Joined(h, c)) = b + Len(v) /\ Len(Joined(h, c)) <= Len(f)
      /\ \A i \in 1 .. Len(v) : f[b + i] = v[i]
  <2>1. /\ h[c] \in Seq(V) /\ Len(h[c]) \in Nat
        /\ Len(Joined(h, c - 1)) \in Nat /\ Len(FlattenSeq(h)) \in Nat /\ FlattenSeq(h) \in Seq(V)
        /\ Len(Joined(h, c)) = Len(Joined(h, c - 1)) + Len(h[c])
        /\ Len(Joined(h, c)) <= Len(FlattenSeq(h))
        /\ \A i \in 1 .. Len(h[c]) : FlattenSeq(h)[Len(Joined(h, c - 1)) + i] = h[c][i]
    BY <1>1, JoinedPlaces
  <2>2. QED
    BY <1>2, <2>1
<1> HIDE DEF b, v, f
<1>4. Len(f) = m /\ m \in Nat /\ Len(E) \in Nat /\ \A i \in 1 .. m : f[i] = E[i]
  BY <1>1
<1>5. Len(v) \in Nat \ {0}
  BY <1>1, <1>3
<1>6. ASSUME NEW i \in 1 .. Len(v) PROVE v[i] = E[b + i] /\ b + i \in 1 .. Len(E) /\ b + i \in 1 .. m
  <2>1. b + i \in 1 .. m /\ m <= Len(E)
    BY <1>1, <1>3, <1>4
  <2>2. QED
    BY <1>3, <1>4, <2>1
<1>7. Bkt(h, c) = F!Bucket(v[1].y) /\ \A i \in 1 .. Len(v) : F!Bucket(v[i].y) = Bkt(h, c)
  <2>1. Bkt(h, c) = F!Bucket(h[c][1].y)
    BY DEF Bkt
  <2>2. QED
    BY <2>1 DEF Grouped, v
<1>8. \A i \in 1 .. Len(v) : v[i].y \in Nat
  BY <1>3 DEF TableSeq
<1>9. \A i, j \in 1 .. Len(v) : i <= j => v[i].y <= v[j].y
  <2> SUFFICES ASSUME NEW i \in 1 .. Len(v), NEW j \in 1 .. Len(v), i <= j PROVE v[i].y <= v[j].y
    OBVIOUS
  <2>1. b + i <= b + j
    BY <1>3
  <2>2. QED
    BY <1>6, <2>1 DEF TableSeq
<1>10. Bkt(h, c) \in Nat
  <2>1. 1 \in 1 .. Len(v) /\ v[1].y \in Nat
    BY <1>5, <1>8
  <2>2. v[1].y \div F!kBC \in Nat
    BY <2>1, BucketSize_1, Divided
  <2>3. QED
    BY <1>7, <2>2 DEF F!Bucket
<1>11. Vector(v, Bkt(h, c))
  <2>1. DOMAIN v = 1 .. Len(v)
    BY <1>3
  <2>2. QED
    BY <1>5, <1>7, <1>8, <1>9, <1>10, <2>1 DEF Vector
<1>12. QED
  BY <1>2, <1>3, <1>4, <1>5, <1>6, <1>7, <1>11 DEF b, v, f

\* What read_thread does with an entry, in its two cases
LEMMA SliceSame ==
    ASSUME NEW V, NEW s \in SliceState(V), NEW e, NEW h, Slicer(s, h), Len(h) \in Nat \ {0},
           F!Bucket(e.y) = Bkt(h, Len(h))
    PROVE  F!SliceEntry(s, e) = [s EXCEPT !.heap = [h EXCEPT ![Len(h)] = Append(@, e)]]
<1> DEFINE l == Len(h)
           b == e.y \div F!kBC
<1>1. s.index[0] = b /\ s.bucket[0] = l /\ s.heap = h /\ b = F!Bucket(e.y) /\ l # 0
  BY DEF Slicer, Two, F!Bucket
<1>2. F!NextBucket(s, b) = s
  BY <1>1 DEF F!NextBucket
<1>3. F!WithBucket(s) = s
  BY SMTT(40), <1>1 DEF F!WithBucket, F!Null
<1>4. F!SliceEntry(s, e) = [s EXCEPT !.heap[s.bucket[0]] = Append(@, e)]
  BY <1>2, <1>3 DEF F!SliceEntry
<1>5. QED
  BY <1>1, <1>4

LEMMA SliceNew ==
    ASSUME NEW V, NEW s \in SliceState(V), NEW e \in V, NEW h, Slicer(s, h), Len(h) \in Nat,
           F!Bucket(e.y) \in Nat, Len(h) = 0 \/ F!Bucket(e.y) # Bkt(h, Len(h)),
           Len(h) # 0 => Len(h[Len(h)]) \in Nat
    PROVE  LET t == F!SliceEntry(s, e) IN
           /\ t \in SliceState(V)
           /\ t.heap = Append(h, <<e>>)
           /\ t.index = Two(F!Bucket(e.y), Bkt(h, Len(h)))
           /\ t.bucket = Two(Len(h) + 1, Len(h))
           /\ t.offset = Two(First(h, Len(h)) + (IF Len(h) = 0 THEN 0 ELSE Len(h[Len(h)])), First(h, Len(h)))
           /\ t.out = s.out \o Emitted(h, Len(h))
<1> DEFINE l == Len(h)
           b == e.y \div F!kBC
           n == F!NextBucket(s, b)
           w == F!WithBucket(n)
           first == First(h, l)
           size == IF l = 0 THEN 0 ELSE Len(h[l])
<1>1. /\ s.heap = h /\ s.index[0] = Bkt(h, l) /\ s.index[1] = Bkt(h, l - 1)
      /\ s.bucket[0] = l /\ s.bucket[1] = (IF l = 0 THEN 0 ELSE l - 1)
      /\ s.offset[0] = first /\ s.offset[1] = (IF l = 0 THEN 0 ELSE First(h, l - 1))
      /\ s.index \in [{0, 1} -> Nat] /\ s.offset \in [{0, 1} -> Nat] /\ s.bucket \in [{0, 1} -> Nat]
      /\ h \in Seq(Seq(V)) /\ s.out \in Seq(PairType)
  BY DEF Slicer, Two, SliceState
<1>2. b = F!Bucket(e.y) /\ b \in Nat /\ first \in Nat /\ size \in Nat
  BY <1>1 DEF F!Bucket
<1>3. F!Size(h, s.bucket[0]) = size
  BY <1>1 DEF F!Size, F!Null
<1>4. Emits(h, l) <=> F!Neighbours(s.index)
  BY <1>1 DEF Emits, F!Neighbours
<1>5. l # 0 => F!Pair(s) = PairAt(h, l)
  BY <1>1 DEF F!Pair, F!PairOffset, PairAt
<1>6. l = 0 => Bkt(h, l) = 0 /\ ~Emits(h, l) /\ first = 0
  BY DEF Bkt, Emits, First
<1>7. PairAt(h, l) \in PairType \/ l = 0
  <2>1. l # 0 => First(h, l - 1) \in Nat /\ l - 1 \in Nat /\ l \in Nat
    BY <1>1
  <2>2. QED
    BY <2>1 DEF PairAt, PairType
<1> HIDE DEF l, b, first, size
<1>8. /\ n.heap = h /\ n.out = s.out \o Emitted(h, l)
      /\ n.index[0] = b /\ n.index[1] = Bkt(h, l)
      /\ n.bucket[0] = 0 /\ n.bucket[1] = l
      /\ n.offset[0] = first + size /\ n.offset[1] = first
      /\ n \in SliceState(V)
  <2>0. s.out \o <<>> = s.out
    BY <1>1
  <2>1. CASE b = s.index[0]
    <3>1. l = 0 /\ n = s
      BY <1>1, <1>2, <2>1 DEF F!NextBucket, l
    <3>2. Emitted(h, l) = <<>> /\ size = 0
      BY <1>6, <3>1 DEF Emitted, size
    <3>3. s.heap = h /\ s.out = s.out \o Emitted(h, l)
      BY <1>1, <2>0, <3>2
    <3>4. s.index[0] = b /\ s.index[1] = Bkt(h, l)
      <4>1. Bkt(h, l) = 0 /\ Bkt(h, l - 1) = 0
        BY <1>6, <3>1 DEF Bkt, l
      <4>2. QED
        BY <1>1, <2>1, <4>1
    <3>5. /\ s.bucket[0] = 0 /\ s.bucket[1] = l
          /\ s.offset[0] = first + size /\ s.offset[1] = first
      BY <1>1, <1>2, <1>6, <3>1, <3>2
    <3> HIDE DEF n
    <3>6. QED
      BY <3>1, <3>3, <3>4, <3>5
  <2>2. CASE b # s.index[0]
    <3> DEFINE o == IF F!Neighbours(s.index) THEN Append(s.out, F!Pair(s)) ELSE s.out
               i == [q \in {0, 1} |-> IF q = 0 THEN b ELSE s.index[0]]
               f == [q \in {0, 1} |-> IF q = 0 THEN s.offset[0] + F!Size(s.heap, s.bucket[0]) ELSE s.offset[0]]
               c == [q \in {0, 1} |-> IF q = 0 THEN F!Null ELSE s.bucket[0]]
    <3>1. n = [s EXCEPT !.out = o, !.index = i, !.offset = f, !.bucket = c]
      BY <2>2 DEF F!NextBucket
    <3>2. i \in [{0, 1} -> Nat] /\ i[0] = b /\ i[1] = Bkt(h, l)
      BY <1>1, <1>2
    <3>3. f \in [{0, 1} -> Nat] /\ f[0] = first + size /\ f[1] = first
      BY <1>1, <1>2, <1>3
    <3>4. c \in [{0, 1} -> Nat] /\ c[0] = 0 /\ c[1] = l
      BY <1>1 DEF F!Null, l
    <3>5. o \in Seq(PairType) /\ o = s.out \o Emitted(h, l)
      <4>1. CASE F!Neighbours(s.index)
        <5>1. l # 0 /\ o = Append(s.out, PairAt(h, l)) /\ PairAt(h, l) \in PairType
          BY <1>4, <1>5, <1>6, <1>7, <4>1
        <5>2. Emitted(h, l) = <<PairAt(h, l)>>
          BY <1>4, <4>1 DEF Emitted
        <5>3. QED
          BY SMTT(40), <1>1, <5>1, <5>2
      <4>2. CASE ~F!Neighbours(s.index)
        <5>1. Emitted(h, l) = <<>> /\ o = s.out
          BY <1>4, <4>2 DEF Emitted
        <5>2. QED
          BY <1>1, <2>0, <5>1
      <4>3. QED
        BY <4>1, <4>2
    <3> HIDE DEF o, i, f, c
    <3>6. n.out = o /\ n.index = i /\ n.offset = f /\ n.bucket = c /\ n.heap = s.heap /\ n \in SliceState(V)
      BY <3>1, <3>2, <3>3, <3>4, <3>5 DEF SliceState
    <3>7. QED
      BY <1>1, <3>2, <3>3, <3>4, <3>5, <3>6
  <2>3. QED
    BY <2>1, <2>2
<1> HIDE DEF n
<1>9. /\ w = [n EXCEPT !.heap = Append(h, <<>>), !.bucket = [n.bucket EXCEPT ![0] = l + 1]]
  BY <1>8 DEF F!WithBucket, F!Null, l
<1>10. l \in Nat
  BY DEF l
<1>11. Append(h, <<>>) \in Seq(Seq(V)) /\ [Append(h, <<>>) EXCEPT ![l + 1] = Append(@, e)] = Append(h, <<e>>)
       /\ Append(h, <<e>>) \in Seq(Seq(V))
  <2> DEFINE W == Seq(V)
             g == Append(h, <<>>)
             r == Append(h, <<e>>)
             x == <<e>>
             o == <<>>
  <2>1. h \in Seq(W) /\ x \in W /\ o \in W /\ Append(o, e) = x
    BY <1>1
  <2> HIDE DEF W, x, o
  <2>2. Append(h, x) \in Seq(W) /\ Append(h, o) \in Seq(W) /\ Len(h) = l
    BY <2>1 DEF l
  <2>3. [Append(h, o) EXCEPT ![l + 1] = x] = Append(h, x)
    BY <2>1, AppendExcept DEF l
  <2>4. Append(h, o)[l + 1] = o
    BY <1>10, <2>1, <2>2
  <2>5. QED
    BY <2>1, <2>2, <2>3, <2>4 DEF W, x, o
<1>12. /\ w.heap = Append(h, <<>>) /\ w.bucket = Two(l + 1, l)
       /\ w.index = n.index /\ w.offset = n.offset /\ w.out = n.out /\ w \in SliceState(V)
  <2>1. n.bucket \in [{0, 1} -> Nat]
    BY <1>8 DEF SliceState
  <2>2. [n.bucket EXCEPT ![0] = l + 1] = Two(l + 1, l) /\ Two(l + 1, l) \in [{0, 1} -> Nat]
    BY <1>8, <1>10, <2>1 DEF Two
  <2> DEFINE g == Append(h, <<>>)
             u == Two(l + 1, l)
  <2>3. w = [n EXCEPT !.heap = g, !.bucket = u] /\ g \in Seq(Seq(V)) /\ u \in [{0, 1} -> Nat] /\ n \in SliceState(V)
    BY <1>8, <1>9, <1>11, <2>2
  <2> HIDE DEF g, u, w
  <2>4. w.heap = g /\ w.bucket = u /\ w.index = n.index /\ w.offset = n.offset /\ w.out = n.out
    BY <2>3 DEF SliceState
  <2>5. w \in SliceState(V)
    <3> DEFINE H == Seq(Seq(V))
               N2 == [{0, 1} -> Nat]
               O == Seq(PairType)
    <3>1. n \in [index : N2, offset : N2, bucket : N2, heap : H, out : O] /\ g \in H /\ u \in N2
      BY <2>3 DEF SliceState
    <3> HIDE DEF H, N2, O
    <3>2. w \in [index : N2, offset : N2, bucket : N2, heap : H, out : O]
      BY <2>3, <3>1
    <3>3. QED
      BY <3>2 DEF SliceState, H, N2, O
  <2>6. QED
    BY <2>4, <2>5 DEF g, u
<1>13. F!SliceEntry(s, e) = [w EXCEPT !.heap = [Append(h, <<>>) EXCEPT ![l + 1] = Append(@, e)]]
  <2>1. F!SliceEntry(s, e) = [w EXCEPT !.heap[w.bucket[0]] = Append(@, e)]
    BY DEF F!SliceEntry, n, b
  <2>2. w.bucket[0] = l + 1
    BY <1>12 DEF Two
  <2> HIDE DEF w
  <2>3. QED
    BY <1>12, <2>1, <2>2
<1> HIDE DEF w
<1>14. F!SliceEntry(s, e) = [w EXCEPT !.heap = Append(h, <<e>>)]
  BY <1>11, <1>13
<1>15. n.index = Two(b, Bkt(h, l)) /\ n.offset = Two(first + size, first)
  BY <1>8 DEF Two, SliceState
<1>16. QED
  BY <1>2, <1>8, <1>11, <1>12, <1>14, <1>15 DEF SliceState, l, first, size, b

\* The bucket of a value of y, and that later entries are not of an earlier one
LEMMA BucketOf ==
    ASSUME NEW V, NEW E, TableSeq(V, E)
    PROVE  /\ \A e \in V : F!Bucket(e.y) \in Nat
           /\ \A i, j \in 1 .. Len(E) : i <= j => F!Bucket(E[i].y) <= F!Bucket(E[j].y)
<1>1. F!kBC \in Nat \ {0}
  BY BucketSize_1
<1>2. ASSUME NEW e \in V PROVE F!Bucket(e.y) \in Nat
  <2>1. e.y \in Nat
    BY DEF TableSeq
  <2>2. QED
    BY <1>1, <2>1, Divided DEF F!Bucket
<1>3. ASSUME NEW i \in 1 .. Len(E), NEW j \in 1 .. Len(E), i <= j PROVE F!Bucket(E[i].y) <= F!Bucket(E[j].y)
  <2> DEFINE y == E[i].y
             z == E[j].y
             B == F!kBC
  <2>1. y \in Nat /\ z \in Nat /\ y <= z
    BY <1>3 DEF TableSeq
  <2> HIDE DEF y, z, B
  <2>2. \A u, w \in Nat : u <= w => u \div B <= w \div B
    BY <1>1, Division DEF B
  <2>3. y \div B <= z \div B
    BY ONLY <2>1, <2>2, Zenon
  <2>4. QED
    BY <2>3 DEF F!Bucket, y, z, B
<1>4. QED
  BY <1>2, <1>3

LEMMA HeapSize ==
    ASSUME NEW V, NEW E, NEW h, NEW m, TableSeq(V, E), Grouped(V, E, h, m)
    PROVE  /\ Len(h) \in Nat /\ h \in Seq(Seq(V)) /\ Len(E) \in Nat /\ m \in 0 .. Len(E)
           /\ First(h, Len(h)) \in Nat
           /\ Len(h) = 0 => m = 0
           /\ Len(h) # 0 => /\ First(h, Len(h)) + Len(h[Len(h)]) = m /\ Len(h[Len(h)]) \in Nat \ {0}
                            /\ m # 0 /\ F!Bucket(E[m].y) = Bkt(h, Len(h))
           /\ \A c \in 0 .. Len(h) : Bkt(h, c) \in Nat /\ Bkt(h, c) <= Bkt(h, Len(h))
<1> DEFINE l == Len(h)
           f == FlattenSeq(h)
<1>1. h \in Seq(Seq(V)) /\ E \in Seq(V) /\ m \in 0 .. Len(E) /\ f = SubSeq(E, 1, m)
  BY DEF Grouped, TableSeq
<1>2. l \in Nat
  <2> DEFINE W == Seq(V)
  <2>1. h \in Seq(W)
    BY <1>1
  <2> HIDE DEF W
  <2>2. QED
    BY <2>1
<1>3. Len(f) = m /\ m \in Nat /\ Len(E) \in Nat
  <2> HIDE DEF f
  <2>1. QED
    BY <1>1
<1>4. f = Joined(h, l) /\ Joined(h, 0) = <<>>
  BY <1>1, JoinedEnds
<1>5. ASSUME l = 0 PROVE m = 0
  BY <1>3, <1>4, <1>5
<1>6. ASSUME l # 0
      PROVE  /\ First(h, l) + Len(h[l]) = m /\ Len(h[l]) \in Nat \ {0} /\ First(h, l) \in Nat
             /\ m # 0 /\ F!Bucket(E[m].y) = Bkt(h, l)
  <2>1. l \in 1 .. Len(h)
    BY <1>2, <1>6
  <2>2. /\ First(h, l) \in Nat /\ Len(h[l]) \in Nat \ {0} /\ First(h, l + 1) = First(h, l) + Len(h[l])
        /\ \A i \in 1 .. Len(h[l]) : h[l][i] = E[First(h, l) + i]
    BY <2>1, VectorOf
  <2>3. First(h, l + 1) = Len(Joined(h, l))
    <3>1. l + 1 # 0 /\ (l + 1) - 1 = l
      BY <1>2
    <3>2. QED
      BY <3>1 DEF First
  <2>4. First(h, l) + Len(h[l]) = m
    BY <1>3, <1>4, <2>2, <2>3
  <2>5. h[l][Len(h[l])] = E[m] /\ Len(h[l]) \in 1 .. Len(h[l])
    <3>1. Len(h[l]) \in 1 .. Len(h[l])
      BY <2>2
    <3>2. QED
      BY <2>2, <2>4, <3>1
  <2>6. F!Bucket(h[l][Len(h[l])].y) = Bkt(h, l)
    BY <2>1, <2>5 DEF Grouped
  <2>7. m # 0
    BY <2>2, <2>4
  <2>8. QED
    BY <2>2, <2>4, <2>5, <2>6, <2>7
<1>7. First(h, l) \in Nat
  <2>1. l = 0 => First(h, l) = 0
    BY DEF First
  <2>2. QED
    BY <1>6, <2>1
<1>8. ASSUME NEW c \in 0 .. l PROVE Bkt(h, c) \in Nat /\ Bkt(h, c) <= Bkt(h, l)
  <2>1. ASSUME NEW d \in 1 .. l PROVE Bkt(h, d) \in Nat
    BY <2>1, VectorOf DEF Vector
  <2>2. CASE c = 0
    <3>1. Bkt(h, c) = 0
      BY <2>2 DEF Bkt
    <3>2. l = 0 \/ Bkt(h, l) \in Nat
      BY <1>2, <2>1
    <3>3. l = 0 => Bkt(h, l) = 0
      BY DEF Bkt
    <3>4. QED
      BY <3>1, <3>2, <3>3
  <2>3. CASE c # 0
    <3>1. c \in 1 .. l /\ l \in 1 .. l
      BY <1>2, <2>3
    <3>2. c = l \/ Bkt(h, c) < Bkt(h, l)
      BY <1>2, <3>1 DEF Grouped
    <3>3. Bkt(h, c) \in Nat /\ Bkt(h, l) \in Nat
      BY SMTT(40), <2>1, <3>1
    <3>4. QED
      BY <3>2, <3>3
  <2>4. QED
    BY <2>2, <2>3
<1>9. QED
  BY <1>1, <1>2, <1>3, <1>5, <1>6, <1>7, <1>8

\* An entry of the last bucket
LEMMA GroupedGrown ==
    ASSUME NEW V, NEW E, NEW h, NEW m, TableSeq(V, E), Grouped(V, E, h, m), m < Len(E),
           Len(h) # 0, F!Bucket(E[m + 1].y) = Bkt(h, Len(h)),
           NEW g, g = [h EXCEPT ![Len(h)] = Append(@, E[m + 1])]
    PROVE  Grouped(V, E, g, m + 1) /\ Len(g) = Len(h) /\ Extends(h, g)
<1> DEFINE l == Len(h)
           e == E[m + 1]
<1>1. l \in Nat \ {0} /\ h \in Seq(Seq(V)) /\ h # <<>> /\ m \in 0 .. Len(E) /\ Len(E) \in Nat /\ E \in Seq(V)
  <2>1. l \in Nat /\ h \in Seq(Seq(V)) /\ m \in 0 .. Len(E) /\ Len(E) \in Nat
    BY HeapSize
  <2>2. h # <<>>
    OBVIOUS
  <2>3. QED
    BY <2>1, <2>2 DEF TableSeq
<1>2. e \in V /\ m + 1 \in 1 .. Len(E)
  BY <1>1
<1>3. /\ g \in Seq(Seq(V)) /\ Len(g) = l /\ g[l] = Append(h[l], e) /\ h[l] \in Seq(V)
      /\ \A i \in 1 .. l - 1 : g[i] = h[i]
      /\ FlattenSeq(g) = Append(FlattenSeq(h), e)
      /\ \A n \in 0 .. l - 1 : Joined(g, n) = Joined(h, n)
  <2>1. h \in Seq(Seq(V)) /\ h # <<>> /\ e \in V /\ g = [h EXCEPT ![Len(h)] = Append(@, e)]
    BY <1>1, <1>2
  <2> HIDE DEF e
  <2> DEFINE p == [h EXCEPT ![Len(h)] = Append(@, e)]
  <2>2. LET tt == p IN
        /\ tt \in Seq(Seq(V)) /\ Len(tt) = Len(h) /\ Len(h) \in Nat \ {0}
        /\ tt[Len(h)] = Append(h[Len(h)], e) /\ h[Len(h)] \in Seq(V)
        /\ \A i \in 1 .. Len(h) - 1 : tt[i] = h[i]
        /\ FlattenSeq(h) \in Seq(V) /\ FlattenSeq(tt) = Append(FlattenSeq(h), e)
        /\ \A n \in 0 .. Len(h) - 1 : Joined(tt, n) = Joined(h, n)
    BY ONLY <2>1, FlattenGrown, Zenon
  <2>3. g = p
    BY <2>1
  <2> HIDE DEF p
  <2>4. QED
    BY <2>2, <2>3
<1>4. FlattenSeq(g) = SubSeq(E, 1, m + 1) /\ m + 1 \in 0 .. Len(E)
  <2>1. FlattenSeq(h) = SubSeq(E, 1, m)
    BY DEF Grouped
  <2>2. Append(SubSeq(E, 1, m), E[m + 1]) = SubSeq(E, 1, m + 1)
    BY <1>1, PrefixGrows
  <2>3. m + 1 \in 0 .. Len(E)
    BY <1>1, <1>2
  <2>4. QED
    BY <1>3, <2>1, <2>2, <2>3
<1>5. Len(h[l]) \in Nat \ {0}
  <2>1. l \in 1 .. Len(h)
    BY <1>1
  <2>2. QED
    BY <2>1, VectorOf
<1>6. g[l][1] = h[l][1] /\ Len(g[l]) = Len(h[l]) + 1 /\ g[l][Len(h[l]) + 1] = e /\ \A i \in 1 .. Len(h[l]) : g[l][i] = h[l][i]
  <2>1. 1 \in 1 .. Len(h[l])
    BY SMTT(40), <1>5
  <2> HIDE DEF e, l
  <2>2. QED
    BY SMTT(40), <1>2, <1>3, <2>1, AppendedElement
<1>13. /\ l = Len(h) /\ l = Len(g) /\ l \in Nat \ {0}
       /\ \A i \in 1 .. l - 1 : g[i] = h[i]
       /\ \A n \in 0 .. l - 1 : Joined(g, n) = Joined(h, n)
  BY <1>1, <1>3
<1> HIDE DEF e, l
<1>7. ASSUME NEW c \in 0 .. l PROVE Bkt(g, c) = Bkt(h, c) /\ First(g, c) = First(h, c)
  <2>1. CASE c = 0
    BY <2>1 DEF Bkt, First
  <2>2. CASE c # 0
    <3>1. c \in 1 .. l /\ c - 1 \in 0 .. l - 1 /\ (c = l \/ c \in 1 .. l - 1)
      BY <1>13, <2>2
    <3>2. g[c][1] = h[c][1]
      BY <1>6, <1>13, <3>1
    <3>3. Bkt(g, c) = Bkt(h, c)
      <4>1. c \in 1 .. Len(h) /\ c \in 1 .. Len(g)
        BY <1>13, <3>1
      <4>2. QED
        BY <3>2, <4>1 DEF Bkt
    <3>4. Joined(g, c - 1) = Joined(h, c - 1)
      BY <1>13, <3>1
    <3>5. QED
      BY <2>2, <3>3, <3>4 DEF First
  <2>3. QED
    BY <2>1, <2>2
<1>8. ASSUME NEW c \in 1 .. l
      PROVE  g[c] # <<>> /\ \A i \in 1 .. Len(g[c]) : F!Bucket(g[c][i].y) = Bkt(g, c)
  <2>0. c \in 0 .. l /\ c \in 1 .. Len(h)
    BY <1>13
  <2>1. Bkt(g, c) = Bkt(h, c) /\ h[c] # <<>> /\ \A i \in 1 .. Len(h[c]) : F!Bucket(h[c][i].y) = Bkt(h, c)
    BY <1>7, <2>0 DEF Grouped
  <2>2. CASE c # l
    <3>1. c \in 1 .. l - 1
      BY <1>13, <2>2
    <3>2. QED
      BY <1>13, <2>1, <3>1
  <2>3. CASE c = l
    <3>1. g[l] # <<>>
      <4>1. Len(g[l]) # 0
        BY <1>5, <1>6
      <4>2. QED
        BY <4>1
    <3>2. ASSUME NEW i \in 1 .. Len(g[l]) PROVE F!Bucket(g[l][i].y) = Bkt(g, l)
      <4>1. CASE i = Len(h[l]) + 1
        <5>1. g[l][i] = e /\ Bkt(g, l) = Bkt(h, l)
          BY <1>6, <2>1, <2>3, <4>1
        <5>2. F!Bucket(e.y) = Bkt(h, l)
          BY DEF e, l
        <5>3. QED
          BY <5>1, <5>2
      <4>2. CASE i # Len(h[l]) + 1
        <5>1. i \in 1 .. Len(h[l])
          BY <1>5, <1>6, <4>2
        <5>2. QED
          BY <1>6, <2>1, <2>3, <5>1
      <4>3. QED
        BY <4>1, <4>2
    <3>3. QED
      BY <2>3, <3>1, <3>2
  <2>4. QED
    BY <2>2, <2>3
<1>9. \A c, d \in 1 .. l : c < d => Bkt(g, c) < Bkt(g, d)
  <2>1. \A c \in 1 .. l : c \in 0 .. l /\ c \in 1 .. Len(h)
    BY <1>13
  <2>2. QED
    BY <1>7, <2>1 DEF Grouped
<1>10. Grouped(V, E, g, m + 1)
  BY <1>3, <1>4, <1>8, <1>9 DEF Grouped
<1>11. Extends(h, g)
  <2>1. Len(h) <= Len(g)
    <3>1. Len(g) = l /\ l <= l
      BY <1>1, <1>3
    <3>2. Len(h) = l
      BY DEF l
    <3>3. QED
      BY <3>1, <3>2
  <2>2. QED
    BY <1>3, <1>7, <2>1 DEF Extends, l
<1>12. QED
  BY <1>3, <1>10, <1>11 DEF l

\* An entry of another bucket
LastSize(h) == IF Len(h) = 0 THEN 0 ELSE Len(h[Len(h)])

LEMMA GroupedNew ==
    ASSUME NEW V, NEW E, NEW h, NEW m, TableSeq(V, E), Grouped(V, E, h, m), m < Len(E),
           Len(h) = 0 \/ F!Bucket(E[m + 1].y) # Bkt(h, Len(h))
    PROVE  LET g == Append(h, <<E[m + 1]>>) IN
           /\ Grouped(V, E, g, m + 1) /\ Len(g) = Len(h) + 1 /\ Extends(h, g)
           /\ \A c \in 1 .. Len(h) : g[c] = h[c]
           /\ Bkt(g, Len(h) + 1) = F!Bucket(E[m + 1].y)
           /\ First(g, Len(h) + 1) = First(h, Len(h)) + LastSize(h)
<1> SUFFICES ASSUME NEW g, g = Append(h, <<E[m + 1]>>) PROVE
           /\ Grouped(V, E, g, m + 1) /\ Len(g) = Len(h) + 1 /\ Extends(h, g)
           /\ \A c \in 1 .. Len(h) : g[c] = h[c]
           /\ Bkt(g, Len(h) + 1) = F!Bucket(E[m + 1].y)
           /\ First(g, Len(h) + 1) = First(h, Len(h)) + LastSize(h)
  OBVIOUS
<1> DEFINE l == Len(h)
           e == E[m + 1]
           x == <<e>>
           W == Seq(V)
<1>1. l \in Nat /\ h \in Seq(Seq(V)) /\ m \in 0 .. Len(E) /\ Len(E) \in Nat /\ E \in Seq(V)
  BY HeapSize DEF TableSeq
<1>2. e \in V /\ m + 1 \in 1 .. Len(E)
  BY <1>1
<1>3. x \in Seq(V) /\ x # <<>> /\ Len(x) = 1 /\ x[1] = e
  BY <1>2
<1>4. g \in Seq(Seq(V)) /\ Len(g) = l + 1 /\ g[l + 1] = x /\ \A c \in 1 .. l : g[c] = h[c]
  <2>1. h \in Seq(W) /\ x \in W
    BY <1>1, <1>3
  <2> HIDE DEF W, x
  <2>2. g \in Seq(W) /\ Len(g) = l + 1 /\ g[l + 1] = x /\ \A c \in 1 .. l : g[c] = h[c]
    BY <2>1, AppendedElement DEF x
  <2>3. QED
    BY <2>2 DEF W, x
<1>5. FlattenSeq(g) = FlattenSeq(h) \o x /\ FlattenSeq(h) \in Seq(V)
  BY <1>1, <1>3, FlattenLast
<1>6. FlattenSeq(g) = SubSeq(E, 1, m + 1) /\ m + 1 \in 0 .. Len(E)
  <2>1. FlattenSeq(h) = SubSeq(E, 1, m)
    BY DEF Grouped
  <2>2. SubSeq(E, 1, m) \o x = SubSeq(E, 1, m + 1)
    BY <1>1, PrefixGrows
  <2>3. m + 1 \in 0 .. Len(E)
    BY <1>1, <1>2
  <2> HIDE DEF x
  <2>4. QED
    BY <1>5, <2>1, <2>2, <2>3
<1> HIDE DEF x
<1>7. \A n \in 0 .. l : Joined(g, n) = Joined(h, n)
  <2> SUFFICES ASSUME NEW n \in 0 .. l PROVE Joined(g, n) = Joined(h, n)
    OBVIOUS
  <2>1. n \in 0 .. Len(h) /\ n <= Len(g) /\ \A i \in 1 .. n : g[i] = h[i]
    BY <1>1, <1>4
  <2>2. QED
    BY <1>1, <1>4, <2>1, JoinedSame
<1>8. ASSUME NEW c \in 0 .. l PROVE Bkt(g, c) = Bkt(h, c) /\ First(g, c) = First(h, c)
  <2>1. CASE c = 0
    BY <2>1 DEF Bkt, First
  <2>2. CASE c # 0
    <3>1. c \in 1 .. l /\ c - 1 \in 0 .. l /\ c \in 1 .. l + 1
      BY <1>1, <2>2
    <3>2. QED
      BY <1>4, <1>7, <2>2, <3>1 DEF Bkt, First
  <2>3. QED
    BY <2>1, <2>2
<1>9. Bkt(g, l + 1) = F!Bucket(e.y)
  <2>1. l + 1 \in 1 .. Len(g)
    BY <1>1, <1>4
  <2>2. QED
    BY <1>3, <1>4, <2>1 DEF Bkt
<1>10. First(g, l + 1) = First(h, l) + (IF l = 0 THEN 0 ELSE Len(h[l]))
  <2>1. First(g, l + 1) = Len(Joined(h, l))
    <3>1. l + 1 # 0 /\ (l + 1) - 1 = l /\ l \in 0 .. l
      BY <1>1
    <3>2. QED
      BY <1>7, <3>1 DEF First
  <2>2. Len(Joined(h, l)) = m
    <3>1. FlattenSeq(h) = Joined(h, l)
      BY <1>1, JoinedEnds
    <3>2. FlattenSeq(h) = SubSeq(E, 1, m) /\ Len(SubSeq(E, 1, m)) = m
      BY <1>1 DEF Grouped
    <3>3. QED
      BY <3>1, <3>2
  <2>3. CASE l = 0
    <3>1. m = 0 /\ First(h, l) = 0
      BY <2>3, HeapSize DEF First
    <3>2. QED
      BY <2>1, <2>2, <2>3, <3>1
  <2>4. CASE l # 0
    BY <2>1, <2>2, <2>4, HeapSize
  <2>5. QED
    BY <2>3, <2>4
<1>11. ASSUME NEW c \in 1 .. l + 1
       PROVE  g[c] # <<>> /\ \A i \in 1 .. Len(g[c]) : F!Bucket(g[c][i].y) = Bkt(g, c)
  <2>1. CASE c = l + 1
    BY <1>3, <1>4, <1>9, <2>1
  <2>2. CASE c # l + 1
    <3>1. c \in 1 .. l /\ c \in 0 .. l
      BY <1>1, <2>2
    <3>2. QED
      BY <1>4, <1>8, <3>1 DEF Grouped
  <2>3. QED
    BY <2>1, <2>2
<1>12. ASSUME NEW c \in 1 .. l PROVE Bkt(h, c) < F!Bucket(e.y)
  <2>1. Bkt(h, c) \in Nat /\ Bkt(h, c) <= Bkt(h, l) /\ l # 0 /\ Bkt(h, l) \in Nat
    <3>1. c \in 0 .. Len(h) /\ l \in 0 .. Len(h)
      BY <1>1
    <3>2. QED
      BY <1>1, <3>1, HeapSize
  <2>2. m # 0 /\ F!Bucket(E[m].y) = Bkt(h, l)
    BY <2>1, HeapSize
  <2>3. F!Bucket(E[m].y) <= F!Bucket(e.y) /\ F!Bucket(e.y) \in Nat
    <3>1. m \in 1 .. Len(E) /\ m + 1 \in 1 .. Len(E) /\ m <= m + 1
      BY <1>1, <1>2, <2>2
    <3>2. QED
      BY <1>2, <3>1, BucketOf
  <2>4. QED
    BY <2>1, <2>2, <2>3
<1>13. \A c, d \in 1 .. l + 1 : c < d => Bkt(g, c) < Bkt(g, d)
  <2> SUFFICES ASSUME NEW c \in 1 .. l + 1, NEW d \in 1 .. l + 1, c < d PROVE Bkt(g, c) < Bkt(g, d)
    OBVIOUS
  <2>1. c \in 1 .. l /\ c \in 0 .. l /\ (d = l + 1 \/ d \in 1 .. l)
    <3> HIDE DEF l
    <3>1. QED
      BY <1>1
  <2>2. CASE d = l + 1
    BY <1>8, <1>9, <1>12, <2>1, <2>2
  <2>3. CASE d \in 1 .. l
    <3>1. d \in 0 .. l
      BY <1>1, <2>3
    <3>2. QED
      BY <1>8, <2>1, <2>3, <3>1 DEF Grouped
  <2>4. QED
    BY <2>1, <2>2, <2>3
<1>14. Grouped(V, E, g, m + 1)
  BY <1>4, <1>6, <1>11, <1>13 DEF Grouped
<1>15. Extends(h, g)
  <2>1. \A c \in 1 .. l - 1 : c \in 1 .. l
    BY <1>1
  <2>2. Len(h) <= Len(g)
    BY <1>1, <1>4
  <2>3. QED
    BY <1>4, <1>8, <2>1, <2>2 DEF Extends
<1>16. QED
  BY <1>4, <1>9, <1>10, <1>14, <1>15 DEF LastSize

\* What read_thread has after m entries
SliceGood(V, E, s, m) == s \in SliceState(V) /\ Slicer(s, s.heap) /\ Grouped(V, E, s.heap, m)

SliceStepped(V, E, s, t, m) ==
    LET h == s.heap
        g == t.heap
    IN  /\ SliceGood(V, E, t, m + 1) /\ Extends(h, g)
        /\ \/ Len(g) = Len(h) /\ Len(h) # 0 /\ t.out = s.out
           \/ Len(g) = Len(h) + 1 /\ t.out = s.out \o Emitted(h, Len(h)) /\ \A c \in 1 .. Len(h) : g[c] = h[c]

LEMMA SliceStep ==
    ASSUME NEW V, NEW E, NEW s, NEW m, TableSeq(V, E), SliceGood(V, E, s, m), m < Len(E)
    PROVE  SliceStepped(V, E, s, F!SliceEntry(s, E[m + 1]), m)
<1> DEFINE h == s.heap
           e == E[m + 1]
           t == F!SliceEntry(s, e)
           l == Len(h)
           b == F!Bucket(e.y)
<1>1. /\ s \in SliceState(V) /\ Slicer(s, h) /\ Grouped(V, E, h, m)
      /\ l \in Nat /\ h \in Seq(Seq(V)) /\ m \in 0 .. Len(E) /\ Len(E) \in Nat /\ E \in Seq(V)
  BY HeapSize DEF SliceGood, TableSeq
<1>2. e \in V /\ m + 1 \in 1 .. Len(E)
  BY <1>1
<1>3. b \in Nat
  BY <1>2, BucketOf
<1>4. CASE l # 0 /\ b = Bkt(h, l)
  <2> DEFINE g == [h EXCEPT ![Len(h)] = Append(@, e)]
  <2>1. t = [s EXCEPT !.heap = g]
    <3>1. Len(h) \in Nat \ {0} /\ F!Bucket(e.y) = Bkt(h, Len(h))
      BY <1>1, <1>4
    <3> HIDE DEF h, e
    <3>2. QED
      BY <1>1, <3>1, SliceSame
  <2>2. Grouped(V, E, g, m + 1) /\ Len(g) = Len(h) /\ Extends(h, g)
    BY <1>1, <1>4, GroupedGrown
  <2>3. g \in Seq(Seq(V))
    BY <2>2 DEF Grouped
  <2> HIDE DEF g
  <2>4. t.heap = g /\ t.out = s.out /\ t.index = s.index /\ t.bucket = s.bucket /\ t.offset = s.offset
    BY <1>1, <2>1 DEF SliceState
  <2>5. t \in SliceState(V)
    BY <1>1, <2>1, <2>3 DEF SliceState
  <2>6. Slicer(t, g)
    <3>1. l \in 0 .. Len(h) /\ (l = 0 \/ l - 1 \in 0 .. Len(h)) /\ Len(g) = l
      BY <1>1, <2>2
    <3>2. /\ Bkt(g, l) = Bkt(h, l) /\ Bkt(g, l - 1) = Bkt(h, l - 1)
          /\ First(g, l) = First(h, l) /\ First(g, l - 1) = First(h, l - 1)
      BY <1>4, <2>2, <3>1 DEF Extends
    <3> HIDE DEF t, h
    <3>3. QED
      BY <1>1, <1>4, <2>4, <3>1, <3>2 DEF Slicer
  <2> HIDE DEF t, h
  <2>7. SliceGood(V, E, t, m + 1) /\ Extends(h, t.heap) /\ Len(t.heap) = Len(h) /\ Len(h) # 0 /\ t.out = s.out
    BY <1>4, <2>2, <2>4, <2>5, <2>6 DEF SliceGood
  <2>8. QED
    BY <2>7 DEF t, h, SliceStepped
<1>5. CASE ~(l # 0 /\ b = Bkt(h, l))
  <2> DEFINE g == Append(h, <<e>>)
  <2>1. l # 0 => Len(h[l]) \in Nat
    BY <1>1, HeapSize
  <2>2. /\ t \in SliceState(V) /\ t.heap = g
        /\ t.index = Two(b, Bkt(h, l)) /\ t.bucket = Two(l + 1, l)
        /\ t.offset = Two(First(h, l) + (IF l = 0 THEN 0 ELSE Len(h[l])), First(h, l))
        /\ t.out = s.out \o Emitted(h, l)
    <3>1. Len(h) = 0 \/ F!Bucket(e.y) # Bkt(h, Len(h))
      BY <1>5
    <3>2. Len(h) \in Nat /\ F!Bucket(e.y) \in Nat /\ (Len(h) # 0 => Len(h[Len(h)]) \in Nat)
      BY <1>1, <1>3, <2>1
    <3> HIDE DEF h, e
    <3>3. QED
      BY <1>1, <1>2, <3>1, <3>2, SliceNew
  <2>3. /\ Grouped(V, E, g, m + 1) /\ Len(g) = l + 1 /\ Extends(h, g) /\ \A c \in 1 .. l : g[c] = h[c]
        /\ Bkt(g, l + 1) = b
        /\ First(g, l + 1) = First(h, l) + (IF l = 0 THEN 0 ELSE Len(h[l]))
    <3>1. Len(h) = 0 \/ F!Bucket(E[m + 1].y) # Bkt(h, Len(h))
      BY <1>5
    <3>2. TableSeq(V, E) /\ Grouped(V, E, h, m) /\ m < Len(E)
      BY <1>1
    <3>3. LET p == Append(h, <<E[m + 1]>>) IN
          /\ Grouped(V, E, p, m + 1) /\ Len(p) = Len(h) + 1 /\ Extends(h, p)
          /\ \A c \in 1 .. Len(h) : p[c] = h[c]
          /\ Bkt(p, Len(h) + 1) = F!Bucket(E[m + 1].y)
          /\ First(p, Len(h) + 1) = First(h, Len(h)) + LastSize(h)
      <4> HIDE DEF h
      <4>1. QED
        BY ONLY <3>1, <3>2, GroupedNew, SMTT(30)
    <3>4. QED
      BY <3>3 DEF LastSize
  <2> HIDE DEF g
  <2>4. Slicer(t, g)
    <3>1. l \in 0 .. Len(h) /\ (l + 1) - 1 = l /\ l + 1 # 0
      BY <1>1
    <3>2. Bkt(g, l) = Bkt(h, l) /\ First(g, l) = First(h, l)
      BY <2>3, <3>1 DEF Extends
    <3> HIDE DEF t, h, l, b
    <3>3. QED
      BY <2>2, <2>3, <3>1, <3>2 DEF Slicer
  <2> HIDE DEF t, h
  <2>5. /\ SliceGood(V, E, t, m + 1) /\ Extends(h, t.heap) /\ Len(t.heap) = Len(h) + 1
        /\ t.out = s.out \o Emitted(h, Len(h)) /\ \A c \in 1 .. Len(h) : t.heap[c] = h[c]
    BY <2>2, <2>3, <2>4 DEF SliceGood
  <2>6. QED
    BY <2>5 DEF t, h, SliceStepped
<1>6. QED
  BY <1>4, <1>5

\* The matches among the entries of a table, and what find_matches() makes of one
Ref(E) == {q \in (DOMAIN E) \X (DOMAIN E) : F!Matching(E[q[1]].y, E[q[2]].y)}

RefMatch(E, q) == [pos |-> q[1] - 1, off |-> q[2] - q[1], left |-> E[q[1]], right |-> E[q[2]]]

Real(E) == {RefMatch(E, q) : q \in Ref(E)}

HitsOf(h, p) == IF F!HasVectors(p) THEN Hits(h[p.L], h[p.R]) ELSE <<>>

MatchAt(h, p, f) == F!Match(p.offset, h[p.L], h[p.R], f)

RawOf(h, p) == [n \in 1 .. Len(HitsOf(h, p)) |-> MatchAt(h, p, HitsOf(h, p)[n])]

RawAt(h, c) == IF Emits(h, c) THEN RawOf(h, PairAt(h, c)) ELSE <<>>

AllRaw(h, n) == FlattenSeq([c \in 1 .. n |-> RawAt(h, c)])

Raws(h, ps) == FlattenSeq([i \in 1 .. Len(ps) |-> RawOf(h, ps[i])])

\* What has room for its position
Kept(m) == IF F!Fits(m.pos) THEN <<m>> ELSE <<>>

Fitting(s) == FlattenSeq([n \in 1 .. Len(s) |-> Kept(s[n])])

LEMMA PairReal ==
    ASSUME NEW V, NEW E, NEW h, NEW m, TableSeq(V, E), Grouped(V, E, h, m), NEW c \in 1 .. Len(h), Emits(h, c)
    PROVE  /\ RawAt(h, c) \in Seq(Real(E)) /\ IsInjective(RawAt(h, c))
           /\ c > 1 => Vector(h[c - 1], Bkt(h, c - 1)) /\ Vector(h[c], Bkt(h, c - 1) + 1)
           /\ \A r : r \in ToSet(RawAt(h, c)) <=>
                \E q \in Ref(E) : /\ r = RefMatch(E, q) /\ c > 1
                                  /\ First(h, c - 1) < q[1] /\ q[1] <= First(h, c)
                                  /\ First(h, c) < q[2] /\ q[2] <= First(h, c) + Len(h[c])
<1> DEFINE p == PairAt(h, c)
           x == RawOf(h, p)
<1>1. RawAt(h, c) = x
  BY DEF RawAt
<1>2. c \in Nat \ {0} /\ Len(h) \in Nat /\ h \in Seq(Seq(V))
  BY HeapSize
<1>3. CASE c = 1
  <2>1. p.L = 0
    BY <1>3 DEF PairAt
  <2>2. HitsOf(h, p) = <<>>
    BY <2>1 DEF HitsOf, F!HasVectors, F!Null
  <2>3. x = <<>>
    BY <2>2 DEF RawOf
  <2>4. x \in Seq(Real(E)) /\ IsInjective(x) /\ ToSet(x) = {}
    BY <2>3, EmptySequence
  <2>5. ~(c > 1)
    BY <1>3
  <2> HIDE DEF x
  <2>6. QED
    BY <1>1, <2>4, <2>5
<1>4. CASE c # 1
  <2> DEFINE L == h[c - 1]
             R == h[c]
             b == Bkt(h, c - 1)
             s == First(h, c - 1)
             z == First(h, c)
             H == Hits(L, R)
  <2>1. c > 1 /\ c - 1 \in 1 .. Len(h) /\ (c - 1) + 1 = c
    BY <1>2, <1>4
  <2>2. /\ Vector(L, b) /\ s \in Nat /\ Len(L) \in Nat \ {0} /\ z = s + Len(L)
        /\ \A i \in 1 .. Len(L) : L[i] = E[s + i] /\ s + i \in 1 .. Len(E)
    <3>1. /\ Vector(h[c - 1], Bkt(h, c - 1)) /\ First(h, c - 1) \in Nat /\ Len(h[c - 1]) \in Nat \ {0}
          /\ First(h, (c - 1) + 1) = First(h, c - 1) + Len(h[c - 1])
          /\ \A i \in 1 .. Len(h[c - 1]) : h[c - 1][i] = E[First(h, c - 1) + i] /\ First(h, c - 1) + i \in 1 .. Len(E)
      BY <2>1, VectorOf
    <3>2. QED
      BY <2>1, <3>1
  <2>3. /\ Vector(R, b + 1) /\ z \in Nat /\ Len(R) \in Nat \ {0}
        /\ \A i \in 1 .. Len(R) : R[i] = E[z + i] /\ z + i \in 1 .. Len(E)
    <3>1. Bkt(h, c) = b + 1
      BY DEF Emits
    <3>2. QED
      BY SMTT(40), <3>1, VectorOf
  <2>4. p.offset = s /\ p.L = c - 1 /\ p.R = c /\ HitsOf(h, p) = H
    <3>1. p.offset = s /\ p.L = c - 1 /\ p.R = c
      BY DEF PairAt
    <3>2. F!HasVectors(p)
      BY <2>1, <3>1 DEF F!HasVectors, F!Null
    <3>3. QED
      BY <3>1, <3>2 DEF HitsOf
  <2>5. /\ H \in Seq(Hit) /\ IsInjective(H)
        /\ \A f : f \in ToSet(H) <=>
               /\ f \in Hit /\ f.l + 1 \in 1 .. Len(L) /\ f.r + 1 \in 1 .. Len(R)
               /\ F!Matching(L[f.l + 1].y, R[f.r + 1].y)
    BY <2>2, <2>3, HitsAre
  <2> HIDE DEF L, R, b, s, z, H, p, x
  <2> DEFINE at(f) == <<s + (f.l + 1), z + (f.r + 1)>>
             M2(f) == MatchAt(h, p, f)
  <2>6. ASSUME NEW f \in ToSet(H)
        PROVE  /\ at(f) \in Ref(E) /\ M2(f) = RefMatch(E, at(f))
               /\ f.l \in Nat /\ f.r \in Nat
               /\ s < at(f)[1] /\ at(f)[1] <= z /\ z < at(f)[2] /\ at(f)[2] <= z + Len(R)
    <3>1. /\ f.l \in Nat /\ f.r \in Nat /\ f.l + 1 \in 1 .. Len(L) /\ f.r + 1 \in 1 .. Len(R)
          /\ F!Matching(L[f.l + 1].y, R[f.r + 1].y)
      BY <2>5 DEF Hit
    <3>2. /\ L[f.l + 1] = E[s + (f.l + 1)] /\ s + (f.l + 1) \in 1 .. Len(E)
          /\ R[f.r + 1] = E[z + (f.r + 1)] /\ z + (f.r + 1) \in 1 .. Len(E)
      BY <2>2, <2>3, <3>1
    <3>3. DOMAIN E = 1 .. Len(E)
      BY DEF TableSeq
    <3>4. at(f) \in Ref(E)
      BY <3>1, <3>2, <3>3 DEF Ref
    <3>5. M2(f) = [pos |-> s + f.l, off |-> f.r + (Len(L) - f.l), left |-> L[f.l + 1], right |-> R[f.r + 1]]
      BY <2>4 DEF MatchAt, F!Match, L, R
    <3> DEFINE u == f.l
               v == f.r
               w == Len(L)
    <3>6. s + u = (s + (u + 1)) - 1 /\ v + (w - u) = (z + (v + 1)) - (s + (u + 1))
      <4>1. s \in Nat /\ z \in Nat /\ u \in Nat /\ v \in Nat /\ w \in Nat /\ z = s + w
        BY <2>2, <2>3, <3>1
      <4> HIDE DEF u, v, w
      <4>2. QED
        BY <4>1
    <3>7. M2(f) = RefMatch(E, at(f))
      BY <3>2, <3>5, <3>6 DEF RefMatch
    <3>8. s < at(f)[1] /\ at(f)[1] <= z /\ z < at(f)[2] /\ at(f)[2] <= z + Len(R)
      <4>1. /\ s \in Nat /\ z \in Nat /\ u \in Nat /\ v \in Nat /\ w \in Nat /\ z = s + w
            /\ u + 1 \in 1 .. w /\ v + 1 \in 1 .. Len(R) /\ Len(R) \in Nat
        BY <2>2, <2>3, <3>1
      <4>2. at(f)[1] = s + (u + 1) /\ at(f)[2] = z + (v + 1)
        OBVIOUS
      <4> HIDE DEF u, v, w, at
      <4>3. QED
        BY <4>1, <4>2
    <3>9. QED
      BY <3>1, <3>4, <3>7, <3>8
  <2> DEFINE D == ToSet(H)
             g == [f \in D |-> M2(f)]
  <2>7. H \in Seq(D) /\ Len(H) \in Nat /\ g \in [D -> Real(E)]
    <3>1. H \in Seq(D)
      BY <2>5 DEF ToSet
    <3>2. \A f \in D : M2(f) \in Real(E)
      BY <2>6 DEF Real
    <3> HIDE DEF D, M2
    <3>3. QED
      BY <3>1, <3>2
  <2>8. x = Image(H, g)
    <3>1. x = [n \in 1 .. Len(H) |-> M2(H[n])]
      BY <2>4 DEF x, RawOf
    <3>2. \A n \in 1 .. Len(H) : H[n] \in D
      BY <2>7
    <3> HIDE DEF D, M2
    <3>3. QED
      BY <3>1, <3>2 DEF Image
  <2>9. ASSUME NEW e \in D, NEW f \in D, g[e] = g[f] PROVE e = f
    <3>1. M2(e) = M2(f)
      BY <2>9
    <3>2. at(e)[1] - 1 = at(f)[1] - 1 /\ at(e)[2] - at(e)[1] = at(f)[2] - at(f)[1]
      <4> HIDE DEF M2, D, at
      <4>1. RefMatch(E, at(e)) = RefMatch(E, at(f))
        BY <2>6, <3>1 DEF D
      <4>2. QED
        BY <4>1 DEF RefMatch
    <3>3. e.l \in Nat /\ e.r \in Nat /\ f.l \in Nat /\ f.r \in Nat /\ e \in Hit /\ f \in Hit
      BY <2>5, <2>6
    <3> DEFINE u == e.l
               v == e.r
               u1 == f.l
               v1 == f.r
    <3>4. u = u1 /\ v = v1
      <4>1. at(e)[1] = s + (u + 1) /\ at(e)[2] = z + (v + 1) /\ at(f)[1] = s + (u1 + 1) /\ at(f)[2] = z + (v1 + 1)
        OBVIOUS
      <4>2. s \in Nat /\ z \in Nat /\ u \in Nat /\ v \in Nat /\ u1 \in Nat /\ v1 \in Nat
        BY <2>2, <2>3, <3>3
      <4> HIDE DEF u, v, u1, v1, at
      <4>3. (s + (u + 1)) - 1 = (s + (u1 + 1)) - 1 /\ (z + (v + 1)) - (s + (u + 1)) = (z + (v1 + 1)) - (s + (u1 + 1))
        BY <3>2, <4>1
      <4>4. QED
        BY <4>2, <4>3
    <3>5. QED
      BY <3>3, <3>4 DEF Hit
  <2> HIDE DEF g, D
  <2>10. /\ x \in Seq(Real(E))
         /\ \A r : r \in ToSet(x) <=> \E f \in ToSet(H) : r = g[f]
         /\ (IsInjective(H) /\ \A e, f \in ToSet(H) : g[e] = g[f] => e = f) => IsInjective(x)
    <3>1. Image(H, g) \in Seq(Real(E))
         /\ (\A r : r \in ToSet(Image(H, g)) <=> \E f \in ToSet(H) : r = g[f])
         /\ ((IsInjective(H) /\ \A e, f \in ToSet(H) : g[e] = g[f] => e = f) => IsInjective(Image(H, g)))
      BY <2>7, ImageOf DEF D
    <3>2. QED
      BY <2>8, <3>1
  <2>11. IsInjective(x)
    BY <2>5, <2>9, <2>10 DEF D
  <2>12. \A r : r \in ToSet(x) <=> \E f \in ToSet(H) : r = M2(f)
    BY <2>10 DEF g, D
  <2>13. ASSUME NEW r
         PROVE  r \in ToSet(x) <=>
                  \E q \in Ref(E) : r = RefMatch(E, q) /\ s < q[1] /\ q[1] <= z /\ z < q[2] /\ q[2] <= z + Len(R)
    <3>1. ASSUME r \in ToSet(x)
          PROVE  \E q \in Ref(E) : r = RefMatch(E, q) /\ s < q[1] /\ q[1] <= z /\ z < q[2] /\ q[2] <= z + Len(R)
      <4>1. PICK f \in ToSet(H) : r = M2(f)
        BY <2>12, <3>1
      <4> HIDE DEF M2, at
      <4>2. QED
        BY <2>6, <4>1
    <3>2. ASSUME NEW q \in Ref(E), r = RefMatch(E, q), s < q[1], q[1] <= z, z < q[2], q[2] <= z + Len(R)
          PROVE  r \in ToSet(x)
      <4> DEFINE f == [l |-> q[1] - s - 1, r |-> q[2] - z - 1]
      <4>1. q \in (1 .. Len(E)) \X (1 .. Len(E)) /\ F!Matching(E[q[1]].y, E[q[2]].y) /\ Len(E) \in Nat
        BY DEF Ref, TableSeq
      <4>2. /\ f.l \in Nat /\ f.r \in Nat /\ f.l + 1 \in 1 .. Len(L) /\ f.r + 1 \in 1 .. Len(R)
            /\ s + (f.l + 1) = q[1] /\ z + (f.r + 1) = q[2]
        <5> DEFINE u == q[1]
                   v == q[2]
                   w == Len(L)
        <5>1. /\ s \in Nat /\ z \in Nat /\ u \in Nat /\ v \in Nat /\ w \in Nat /\ z = s + w /\ Len(R) \in Nat
              /\ s < u /\ u <= z /\ z < v /\ v <= z + Len(R)
          BY <2>2, <2>3, <3>2, <4>1
        <5>2. f.l = u - s - 1 /\ f.r = v - z - 1
          OBVIOUS
        <5> HIDE DEF u, v, w, f
        <5>3. /\ f.l \in Nat /\ f.r \in Nat /\ f.l + 1 \in 1 .. w /\ f.r + 1 \in 1 .. Len(R)
              /\ s + (f.l + 1) = u /\ z + (f.r + 1) = v
          BY <5>1, <5>2
        <5>4. QED
          BY <5>3 DEF u, v, w
      <4>3. L[f.l + 1] = E[q[1]] /\ R[f.r + 1] = E[q[2]]
        <5>1. L[f.l + 1] = E[s + (f.l + 1)] /\ R[f.r + 1] = E[z + (f.r + 1)]
          BY <2>2, <2>3, <4>2
        <5>2. QED
          BY <4>2, <5>1
      <4>4. f \in Hit
        BY <4>2 DEF Hit
      <4> HIDE DEF f
      <4>5. f \in ToSet(H)
        BY <2>5, <4>1, <4>2, <4>3, <4>4
      <4>6. at(f) = q
        BY <4>1, <4>2
      <4>7. QED
        BY <2>6, <2>12, <3>2, <4>5, <4>6
    <3>3. QED
      BY <3>1, <3>2
  <2>14. Vector(h[c - 1], Bkt(h, c - 1)) /\ Vector(h[c], Bkt(h, c - 1) + 1)
    BY <2>2, <2>3 DEF L, R, b
  <2>15. QED
    BY <1>1, <2>1, <2>10, <2>11, <2>13, <2>14 DEF s, z, R, x, p
<1>5. QED
  BY <1>3, <1>4

LEMMA RealUnique ==
    ASSUME NEW V, NEW E \in Seq(V), NEW q \in Ref(E), NEW r \in Ref(E), RefMatch(E, q) = RefMatch(E, r)
    PROVE  q = r
<1> DEFINE a == q[1]
           b == q[2]
           c == r[1]
           d == r[2]
<1>1. /\ q = <<a, b>> /\ r = <<c, d>> /\ a \in Nat /\ b \in Nat /\ c \in Nat /\ d \in Nat
  BY DEF Ref
<1>2. a - 1 = c - 1 /\ b - a = d - c
  BY DEF RefMatch
<1> HIDE DEF a, b, c, d
<1>3. a = c /\ b = d
  BY <1>1, <1>2
<1>4. QED
  BY <1>1, <1>3

LEMMA RawTyped ==
    ASSUME NEW V, NEW E, NEW h, NEW m, TableSeq(V, E), Grouped(V, E, h, m), NEW c \in 1 .. Len(h)
    PROVE  RawAt(h, c) \in Seq(Real(E)) /\ IsInjective(RawAt(h, c)) /\ (~Emits(h, c) => RawAt(h, c) = <<>>)
<1>1. CASE Emits(h, c)
  BY <1>1, PairReal
<1>2. CASE ~Emits(h, c)
  <2>1. RawAt(h, c) = <<>>
    BY <1>2 DEF RawAt
  <2>2. QED
    BY <2>1, EmptySequence
<1>3. QED
  BY <1>1, <1>2

\* When all entries have been sliced, every match is in the results once.
LEMMA RawComplete ==
    ASSUME NEW V, NEW E, NEW h, TableSeq(V, E), Grouped(V, E, h, Len(E))
    PROVE  AllRaw(h, Len(h)) \in Seq(Real(E)) /\ IsInjective(AllRaw(h, Len(h))) /\ ToSet(AllRaw(h, Len(h))) = Real(E)
<1> DEFINE l == Len(h)
           ss == [c \in 1 .. l |-> RawAt(h, c)]
           T == Real(E)
           W == Seq(T)
<1>1. l \in Nat /\ h \in Seq(Seq(V)) /\ E \in Seq(V) /\ Len(E) \in Nat
  BY HeapSize DEF TableSeq
<1>2. \A c \in 1 .. l : RawAt(h, c) \in W /\ IsInjective(RawAt(h, c))
  BY RawTyped
<1>3. ss \in Seq(Seq(T)) /\ Len(ss) = l /\ \A c \in 1 .. l : ss[c] = RawAt(h, c)
  <2> HIDE DEF W, T, l
  <2>1. ss \in Seq(W) /\ Len(ss) = l
    BY <1>1, <1>2
  <2>2. QED
    BY <2>1 DEF W
<1> HIDE DEF ss
<1>4. ASSUME NEW c \in 1 .. l, NEW d \in 1 .. l, c < d PROVE First(h, c) <= First(h, d - 1) /\ First(h, c) \in Nat
  <2>1. d - 1 # 0 /\ c # 0 /\ c - 1 \in 0 .. Len(h) /\ (d - 1) - 1 \in c - 1 .. Len(h)
    <3> HIDE DEF l
    <3>1. d - 1 # 0 /\ c # 0 /\ c - 1 \in 0 .. l /\ (d - 1) - 1 \in c - 1 .. l
      BY <1>1, <1>4
    <3>2. QED
      BY <3>1 DEF l
  <2>2. Len(Joined(h, c - 1)) <= Len(Joined(h, (d - 1) - 1)) /\ Len(Joined(h, c - 1)) \in Nat
    BY <1>1, <2>1, JoinedGrows
  <2>3. QED
    BY <2>1, <2>2 DEF First
<1>5. ASSUME NEW c \in 1 .. l, NEW r \in ToSet(RawAt(h, c))
      PROVE  Emits(h, c) /\ \E q \in Ref(E) : r = RefMatch(E, q) /\ First(h, c - 1) < q[1] /\ q[1] <= First(h, c)
  <2>1. Emits(h, c)
    BY <1>5, RawTyped, EmptySequence
  <2>2. QED
    BY <1>5, <2>1, PairReal
<1>6. ASSUME NEW c \in 1 .. l, NEW d \in 1 .. l, c < d PROVE ToSet(RawAt(h, c)) \cap ToSet(RawAt(h, d)) = {}
  <2> SUFFICES ASSUME NEW r \in ToSet(RawAt(h, c)), r \in ToSet(RawAt(h, d)) PROVE FALSE
    OBVIOUS
  <2>1. PICK q \in Ref(E) : r = RefMatch(E, q) /\ First(h, c - 1) < q[1] /\ q[1] <= First(h, c)
    BY <1>5
  <2>2. PICK p \in Ref(E) : r = RefMatch(E, p) /\ First(h, d - 1) < p[1] /\ p[1] <= First(h, d)
    BY <1>5
  <2>3. q = p
    BY <1>1, <2>1, <2>2, RealUnique
  <2>4. First(h, c) <= First(h, d - 1) /\ First(h, c) \in Nat /\ q[1] \in Nat
    BY <1>4, <1>6 DEF Ref
  <2>5. First(h, d - 1) \in Nat
    <3>1. d - 1 \in 1 .. Len(h)
      BY <1>1, <1>6
    <3>2. QED
      BY <3>1, VectorOf
  <2>6. QED
    BY <2>1, <2>2, <2>3, <2>4, <2>5
<1>7. IsInjective(FlattenSeq(ss))
  <2>1. \A c \in 1 .. Len(ss) : IsInjective(ss[c])
    BY <1>2, <1>3
  <2>2. ASSUME NEW c \in 1 .. Len(ss), NEW d \in 1 .. Len(ss), c # d PROVE ToSet(ss[c]) \cap ToSet(ss[d]) = {}
    <3>1. c \in 1 .. l /\ d \in 1 .. l /\ (c < d \/ d < c)
      BY <1>1, <1>3, <2>2
    <3>2. QED
      BY <1>3, <1>6, <3>1
  <2> HIDE DEF T
  <2>3. QED
    BY <1>3, <2>1, <2>2, FlattenInjective
<1>8. FlattenSeq(ss) \in Seq(T)
  <2> HIDE DEF T
  <2>1. QED
    BY <1>3, JoinedEnds
<1>9. ASSUME NEW q \in Ref(E) PROVE \E c \in 1 .. l : RefMatch(E, q) \in ToSet(RawAt(h, c))
  <2> DEFINE f == FlattenSeq(h)
  <2>1. f = E
    <3>1. f = SubSeq(E, 1, Len(E))
      BY DEF Grouped
    <3>2. QED
      BY <1>1, <3>1
  <2>2. /\ q[1] \in 1 .. Len(f) /\ q[2] \in 1 .. Len(f) /\ F!Matching(E[q[1]].y, E[q[2]].y)
        /\ q[1] \in Nat /\ q[2] \in Nat
    BY <1>1, <2>1 DEF Ref
  <2>3. PICK n \in 1 .. Len(h) : \E i \in 1 .. Len(h[n]) : q[1] = Len(Joined(h, n - 1)) + i
    <3>1. \E n \in 1 .. Len(h) : \E i \in 1 .. Len(h[n]) : q[1] = Len(Joined(h, n - 1)) + i
      BY <1>1, <2>2, JoinedFind
    <3>2. QED
      BY <3>1
  <2>4. PICK i \in 1 .. Len(h[n]) : q[1] = Len(Joined(h, n - 1)) + i
    BY <2>3
  <2>5. PICK d \in 1 .. Len(h) : \E j \in 1 .. Len(h[d]) : q[2] = Len(Joined(h, d - 1)) + j
    <3>1. \E d \in 1 .. Len(h) : \E j \in 1 .. Len(h[d]) : q[2] = Len(Joined(h, d - 1)) + j
      BY <1>1, <2>2, JoinedFind
    <3>2. QED
      BY <3>1
  <2>6. PICK j \in 1 .. Len(h[d]) : q[2] = Len(Joined(h, d - 1)) + j
    BY <2>5
  <2>7. n \in Nat \ {0} /\ d \in Nat \ {0} /\ First(h, n) = Len(Joined(h, n - 1)) /\ First(h, d) = Len(Joined(h, d - 1))
    <3>1. n \in 1 .. l /\ d \in 1 .. l
      BY <2>3, <2>5
    <3> HIDE DEF l
    <3>2. n \in Nat \ {0} /\ d \in Nat \ {0}
      BY <1>1, <3>1
    <3>3. n # 0 /\ d # 0
      BY <3>2
    <3>4. QED
      BY <3>2, <3>3 DEF First
  <2>8. /\ First(h, n) \in Nat /\ Len(h[n]) \in Nat \ {0} /\ First(h, n + 1) = First(h, n) + Len(h[n])
        /\ h[n][i] = E[First(h, n) + i]
    BY <2>3, <2>4, VectorOf
  <2>9. First(h, d) \in Nat /\ Len(h[d]) \in Nat \ {0} /\ h[d][j] = E[First(h, d) + j]
    <3>1. First(h, d) \in Nat /\ Len(h[d]) \in Nat \ {0} /\ \A i_1 \in 1 .. Len(h[d]) : h[d][i_1] = E[First(h, d) + i_1]
      BY <2>5, VectorOf
    <3>2. QED
      BY <2>6, <3>1
  <2>10. F!Bucket(E[q[1]].y) = Bkt(h, n) /\ F!Bucket(E[q[2]].y) = Bkt(h, d)
    <3>1. F!Bucket(h[n][i].y) = Bkt(h, n) /\ F!Bucket(h[d][j].y) = Bkt(h, d)
      BY <2>3, <2>5 DEF Grouped
    <3>2. QED
      BY <2>4, <2>6, <2>7, <2>8, <2>9, <3>1
  <2>11. Bkt(h, n) + 1 = Bkt(h, d)
    BY <2>2, <2>10 DEF F!Matching
  <2>12. \A c \in 1 .. Len(h) : Bkt(h, c) \in Nat
    <3>1. \A c \in 1 .. Len(h) : c \in 0 .. Len(h)
      BY <1>1
    <3>2. QED
      BY <3>1, HeapSize
  <2>13. d = n + 1
    <3>1. n < d
      <4>1. d < n => Bkt(h, d) < Bkt(h, n)
        BY <2>3, <2>5 DEF Grouped
      <4>2. Bkt(h, d) \in Nat /\ Bkt(h, n) \in Nat
        BY <2>3, <2>5, <2>12
      <4>3. d # n
        BY <2>11, <4>2
      <4>4. QED
        BY <2>7, <2>11, <4>1, <4>2, <4>3
    <3>2. ASSUME n + 1 < d PROVE FALSE
      <4>1. n + 1 \in 1 .. Len(h) /\ n < n + 1
        BY <1>1, <2>3, <2>5, <2>7, <3>2
      <4>2. Bkt(h, n) < Bkt(h, n + 1) /\ Bkt(h, n + 1) < Bkt(h, d)
        BY <2>3, <2>5, <3>2, <4>1 DEF Grouped
      <4>3. Bkt(h, n) \in Nat /\ Bkt(h, n + 1) \in Nat /\ Bkt(h, d) \in Nat
        BY <2>3, <2>5, <2>12, <4>1
      <4>4. QED
        BY <2>11, <4>2, <4>3
    <3>3. QED
      BY <2>7, <3>1, <3>2
  <2>14. Emits(h, d) /\ d - 1 = n /\ d > 1
    BY <2>7, <2>11, <2>13 DEF Emits
  <2>15. /\ First(h, d - 1) < q[1] /\ q[1] <= First(h, d)
         /\ First(h, d) < q[2] /\ q[2] <= First(h, d) + Len(h[d])
    <3> DEFINE a == First(h, n)
               b == First(h, d)
               s == Len(h[n])
               z == Len(h[d])
               u == q[1]
               v == q[2]
    <3>1. /\ a \in Nat /\ b \in Nat /\ s \in Nat /\ z \in Nat /\ i \in 1 .. s /\ j \in 1 .. z
          /\ u = a + i /\ v = b + j /\ b = a + s
      BY <2>4, <2>6, <2>7, <2>8, <2>9, <2>13
    <3> HIDE DEF a, b, s, z, u, v
    <3>2. a < u /\ u <= b /\ b < v /\ v <= b + z
      BY <3>1
    <3>3. QED
      BY <2>14, <3>2 DEF a, b, z, u, v
  <2>16. RefMatch(E, q) \in ToSet(RawAt(h, d))
    BY <2>5, <2>14, <2>15, PairReal
  <2>17. QED
    BY <2>5, <2>16
<1>10. ToSet(FlattenSeq(ss)) = Real(E)
  <2>1. \A e : e \in ToSet(FlattenSeq(ss)) <=> \E c \in 1 .. Len(ss) : e \in ToSet(ss[c])
    <3> HIDE DEF T
    <3>1. QED
      BY <1>3, FlattenElements
  <2>2. ToSet(FlattenSeq(ss)) \subseteq Real(E)
    BY <1>8, Elements
  <2>3. Real(E) \subseteq ToSet(FlattenSeq(ss))
    <3> SUFFICES ASSUME NEW q \in Ref(E) PROVE RefMatch(E, q) \in ToSet(FlattenSeq(ss))
      BY DEF Real
    <3>1. PICK c \in 1 .. l : RefMatch(E, q) \in ToSet(RawAt(h, c))
      BY <1>9
    <3>2. QED
      BY <1>3, <2>1, <3>1
  <2>4. QED
    BY <2>2, <2>3
<1>11. AllRaw(h, Len(h)) = FlattenSeq(ss)
  BY DEF AllRaw, ss
<1>12. QED
  BY <1>7, <1>8, <1>10, <1>11

\* Results are those of every pair, one after the other.
LEMMA AllRawStep ==
    ASSUME NEW T, NEW h, NEW n \in Nat, \A c \in 1 .. n + 1 : RawAt(h, c) \in Seq(T)
    PROVE  AllRaw(h, n) \in Seq(T) /\ AllRaw(h, n + 1) = AllRaw(h, n) \o RawAt(h, n + 1)
<1> DEFINE W == Seq(T)
           ss == [c \in 1 .. n |-> RawAt(h, c)]
           tt == [c \in 1 .. n + 1 |-> RawAt(h, c)]
<1>1. ss \in [1 .. n -> W] /\ tt \in [1 .. n + 1 -> W]
  <2> HIDE DEF W
  <2>1. \A c \in 1 .. n + 1 : RawAt(h, c) \in W
    BY DEF W
  <2>2. QED
    BY <2>1
<1>2. n + 1 \in 1 .. n + 1 /\ (\A i \in 1 .. n : tt[i] = ss[i]) /\ tt[n + 1] = RawAt(h, n + 1)
  OBVIOUS
<1> HIDE DEF ss, tt
<1>3. FlattenSeq(ss) \in Seq(T) /\ FlattenSeq(tt) = FlattenSeq(ss) \o tt[n + 1]
  <2>1. ss \in [1 .. n -> Seq(T)] /\ tt \in [1 .. n + 1 -> Seq(T)] /\ \A i \in 1 .. n : tt[i] = ss[i]
    BY <1>1, <1>2
  <2>2. QED
    BY <2>1, FlattenAppend
<1>4. QED
  BY <1>2, <1>3 DEF AllRaw, ss, tt

LEMMA AllRawSame ==
    ASSUME NEW g, NEW h, NEW n, \A c \in 1 .. n : RawAt(g, c) = RawAt(h, c)
    PROVE  AllRaw(g, n) = AllRaw(h, n)
<1>1. [c \in 1 .. n |-> RawAt(g, c)] = [c \in 1 .. n |-> RawAt(h, c)]
  OBVIOUS
<1>2. QED
  BY <1>1 DEF AllRaw

LEMMA AllRawNone == ASSUME NEW h PROVE AllRaw(h, 0) = <<>>
<1> DEFINE ss == [c \in 1 .. 0 |-> RawAt(h, c)]
<1>1. ss \in [1 .. 0 -> Seq({})]
  OBVIOUS
<1> HIDE DEF ss
<1>2. FlattenSeq(ss) = <<>>
  BY <1>1, FlattenEmpty
<1>3. QED
  BY <1>2 DEF AllRaw, ss

RawFn(h, P) == [p \in P |-> RawOf(h, p)]

LEMMA RawsAre ==
    ASSUME NEW P, NEW T, NEW h, \A p \in P : RawOf(h, p) \in Seq(T), NEW ps \in Seq(P)
    PROVE  /\ Raws(h, ps) = FlattenSeq(Image(ps, RawFn(h, P)))
           /\ Image(ps, RawFn(h, P)) \in Seq(Seq(T)) /\ Raws(h, ps) \in Seq(T) /\ RawFn(h, P) \in [P -> Seq(T)]
<1> DEFINE W == Seq(T)
           G == [p \in P |-> RawOf(h, p)]
<1>1. G \in [P -> W]
  <2>1. \A p \in P : RawOf(h, p) \in W
    OBVIOUS
  <2> HIDE DEF W
  <2>2. QED
    BY <2>1
<1>2. Image(ps, G) \in Seq(W)
  <2> HIDE DEF W, G
  <2>1. QED
    BY <1>1, ImageOf
<1>3. Image(ps, G) = [i \in 1 .. Len(ps) |-> RawOf(h, ps[i])]
  <2>1. \A i \in 1 .. Len(ps) : ps[i] \in P
    OBVIOUS
  <2>2. \A i \in 1 .. Len(ps) : G[ps[i]] = RawOf(h, ps[i])
    BY <2>1
  <2> HIDE DEF G
  <2>3. QED
    BY <2>2 DEF Image
<1> HIDE DEF G
<1>4. Raws(h, ps) = FlattenSeq(Image(ps, G))
  BY <1>3 DEF Raws
<1>5. FlattenSeq(Image(ps, G)) \in Seq(T) /\ Image(ps, G) \in Seq(Seq(T))
  <2>1. Image(ps, G) \in Seq(Seq(T))
    BY <1>2
  <2>2. QED
    BY <2>1, JoinedEnds
<1>6. QED
  BY <1>1, <1>4, <1>5 DEF G, RawFn

RawsJoin(h, ps, qs) == Raws(h, ps \o qs) = Raws(h, ps) \o Raws(h, qs)

LEMMA RawsConcat ==
    ASSUME NEW P, NEW T, NEW h, \A p \in P : RawOf(h, p) \in Seq(T), NEW ps \in Seq(P), NEW qs \in Seq(P)
    PROVE  RawsJoin(h, ps, qs)
<1> DEFINE G == RawFn(h, P)
           W == Seq(T)
<1>1. ps \o qs \in Seq(P)
  OBVIOUS
<1>2. ASSUME NEW rs \in Seq(P) PROVE Raws(h, rs) = FlattenSeq(Image(rs, G)) /\ Image(rs, G) \in Seq(Seq(T)) /\ G \in [P -> W]
  BY RawsAre
<1>3. /\ Raws(h, ps) = FlattenSeq(Image(ps, G)) /\ Raws(h, qs) = FlattenSeq(Image(qs, G))
      /\ Raws(h, ps \o qs) = FlattenSeq(Image(ps \o qs, G))
      /\ Image(ps, G) \in Seq(Seq(T)) /\ Image(qs, G) \in Seq(Seq(T)) /\ G \in [P -> W]
  BY <1>1, <1>2
<1> HIDE DEF G
<1>4. Image(ps \o qs, G) = Image(ps, G) \o Image(qs, G)
  <2> HIDE DEF W
  <2>1. ImageJoins(ps, qs, G)
    BY <1>3, ImageConcat
  <2>2. QED
    BY <2>1 DEF ImageJoins
<1>5. FlattenSeq(Image(ps, G) \o Image(qs, G)) = FlattenSeq(Image(ps, G)) \o FlattenSeq(Image(qs, G))
  BY <1>3, FlattenConcat
<1>6. QED
  BY <1>3, <1>4, <1>5 DEF RawsJoin

LEMMA RawsOne ==
    ASSUME NEW T, NEW h, NEW p, RawOf(h, p) \in Seq(T)
    PROVE  Raws(h, <<p>>) = RawOf(h, p) /\ Raws(h, <<>>) = <<>>
<1> DEFINE ss == [i \in 1 .. Len(<<p>>) |-> RawOf(h, <<p>>[i])]
           zz == [i \in 1 .. Len(<<>>) |-> RawOf(h, <<>>[i])]
           r == RawOf(h, p)
           W == Seq(T)
           none == <<>>
<1>1. zz \in [1 .. 0 -> W] /\ DOMAIN zz = 1 .. 0
  OBVIOUS
<1>2. ss \in [1 .. 0 + 1 -> W] /\ ss[0 + 1] = r
  <2>1. Len(<<p>>) = 1 /\ <<p>>[1] = p /\ r \in W
    OBVIOUS
  <2> HIDE DEF W, r
  <2>2. ss = [i \in 1 .. 1 |-> RawOf(h, <<p>>[i])]
    BY <2>1
  <2>3. \A i \in 1 .. 1 : RawOf(h, <<p>>[i]) = r
    BY <2>1 DEF r
  <2> HIDE DEF ss
  <2>4. ss = [i \in 1 .. 1 |-> r]
    BY <2>2, <2>3
  <2>5. QED
    BY <2>1, <2>4
<1>3. FlattenSeq(zz) = <<>>
  <2>1. zz \in [1 .. 0 -> Seq(T)]
    BY <1>1
  <2> HIDE DEF zz
  <2>2. QED
    BY <2>1, FlattenEmpty
<1>4. FlattenSeq(ss) = FlattenSeq(zz) \o r
  <2>1. zz \in [1 .. 0 -> Seq(T)] /\ ss \in [1 .. 0 + 1 -> Seq(T)] /\ (\A i \in 1 .. 0 : ss[i] = zz[i]) /\ 0 \in Nat
    BY <1>1, <1>2
  <2> HIDE DEF ss, zz
  <2>2. FlattenSeq(ss) = FlattenSeq(zz) \o ss[0 + 1]
    BY <2>1, FlattenAppend
  <2>3. QED
    BY <1>2, <2>2
<1>5. <<>> \o r = r
  <2> HIDE DEF r
  <2>1. r \in Seq(T)
    BY DEF r
  <2>2. QED
    BY <2>1
<1> HIDE DEF ss, zz, r
<1>6. FlattenSeq(ss) = r
  BY <1>3, <1>4, <1>5
<1>7. QED
  BY <1>3, <1>6 DEF Raws, ss, zz, r

\* The pairs of complete buckets
GoodPairs(h) == {PairAt(h, c) : c \in {d \in 1 .. Len(h) - 1 : Emits(h, d)}}

LEMMA ExtendsSame ==
    ASSUME NEW h, NEW g, Extends(h, g), Len(h) \in Nat, Len(g) \in Nat
    PROVE  /\ \A c \in 1 .. Len(h) - 1 : /\ (Emits(g, c) <=> Emits(h, c)) /\ PairAt(g, c) = PairAt(h, c)
                                         /\ RawOf(g, PairAt(h, c)) = RawOf(h, PairAt(h, c)) /\ RawAt(g, c) = RawAt(h, c)
           /\ GoodPairs(h) \subseteq GoodPairs(g)
<1>1. ASSUME NEW c \in 1 .. Len(h) - 1
      PROVE  /\ (Emits(g, c) <=> Emits(h, c)) /\ PairAt(g, c) = PairAt(h, c)
             /\ RawOf(g, PairAt(h, c)) = RawOf(h, PairAt(h, c)) /\ RawAt(g, c) = RawAt(h, c)
  <2> DEFINE p == PairAt(h, c)
  <2>1. c \in 0 .. Len(h) /\ c - 1 \in 0 .. Len(h) /\ c \in Nat \ {0}
    OBVIOUS
  <2>2. (Emits(g, c) <=> Emits(h, c)) /\ PairAt(g, c) = p
    BY <2>1 DEF Extends, Emits, PairAt
  <2>3. p.L = c - 1 /\ p.R = c
    BY DEF PairAt
  <2>4. g[c] = h[c]
    BY DEF Extends
  <2>5. F!HasVectors(p) => g[p.L] = h[p.L]
    <3>1. F!HasVectors(p) => c - 1 # 0
      BY <2>3 DEF F!HasVectors, F!Null
    <3>2. c - 1 # 0 => c - 1 \in 1 .. Len(h) - 1
      BY <2>1
    <3>3. QED
      BY <2>3, <3>1, <3>2 DEF Extends
  <2> HIDE DEF p
  <2>6. HitsOf(g, p) = HitsOf(h, p)
    BY <2>3, <2>4, <2>5 DEF HitsOf
  <2>7. RawOf(g, p) = RawOf(h, p)
    <3>1. CASE F!HasVectors(p)
      <4>1. \A f : MatchAt(g, p, f) = MatchAt(h, p, f)
        BY <2>3, <2>4, <2>5, <3>1 DEF MatchAt
      <4>2. QED
        BY <2>6, <4>1 DEF RawOf
    <3>2. CASE ~F!HasVectors(p)
      <4>1. HitsOf(h, p) = <<>> /\ HitsOf(g, p) = <<>>
        BY <3>2 DEF HitsOf
      <4>2. RawOf(g, p) = <<>> /\ RawOf(h, p) = <<>>
        BY <4>1 DEF RawOf
      <4>3. QED
        BY <4>2
    <3>3. QED
      BY <3>1, <3>2
  <2>8. RawAt(g, c) = RawAt(h, c)
    BY <2>2, <2>7 DEF RawAt, p
  <2>9. QED
    BY <2>2, <2>7, <2>8 DEF p
<1>2. ASSUME NEW p \in GoodPairs(h) PROVE p \in GoodPairs(g)
  <2>1. PICK c \in 1 .. Len(h) - 1 : Emits(h, c) /\ p = PairAt(h, c)
    BY DEF GoodPairs
  <2>2. c \in 1 .. Len(g) - 1
    BY DEF Extends
  <2>3. QED
    BY <1>1, <2>1, <2>2 DEF GoodPairs
<1>3. QED
  BY <1>1, <1>2

LEMMA GoodRaw ==
    ASSUME NEW V, NEW E, NEW h, NEW m, TableSeq(V, E), Grouped(V, E, h, m), NEW p \in GoodPairs(h)
    PROVE  /\ RawOf(h, p) \in Seq(Real(E)) /\ p \in PairType
           /\ F!HasVectors(p) => \E b : Vector(h[p.L], b) /\ Vector(h[p.R], b + 1)
<1>1. PICK c \in 1 .. Len(h) - 1 : Emits(h, c) /\ p = PairAt(h, c)
  BY DEF GoodPairs
<1>2. Len(h) \in Nat /\ c \in 1 .. Len(h)
  BY HeapSize
<1>3. RawAt(h, c) \in Seq(Real(E)) /\ RawAt(h, c) = RawOf(h, p)
  BY <1>1, <1>2, RawTyped DEF RawAt
<1>4. p.L = c - 1 /\ p.R = c /\ p.offset = First(h, c - 1)
  BY <1>1 DEF PairAt
<1>5. First(h, c - 1) \in Nat
  <2>1. c = 1 => First(h, c - 1) = 0
    BY DEF First
  <2>2. c # 1 => c - 1 \in 1 .. Len(h)
    BY <1>2
  <2>3. QED
    BY <2>1, <2>2, VectorOf
<1>6. p \in PairType
  <2>1. p = [offset |-> First(h, c - 1), L |-> c - 1, R |-> c] /\ c - 1 \in Nat /\ c \in Nat
    BY <1>1, <1>2 DEF PairAt
  <2>2. QED
    BY <1>5, <2>1 DEF PairType
<1>7. ASSUME F!HasVectors(p) PROVE Vector(h[p.L], Bkt(h, c - 1)) /\ Vector(h[p.R], Bkt(h, c - 1) + 1)
  <2>1. c > 1
    BY <1>2, <1>4, <1>7 DEF F!HasVectors, F!Null
  <2>2. QED
    BY <1>1, <1>2, <1>4, <2>1, PairReal
<1>8. QED
  BY <1>3, <1>6, <1>7

LEMMA RawsSame ==
    ASSUME NEW h, NEW g, Extends(h, g), Len(h) \in Nat, Len(g) \in Nat, NEW ps \in Seq(GoodPairs(h))
    PROVE  Raws(g, ps) = Raws(h, ps) /\ ps \in Seq(GoodPairs(g))
<1>1. \A p \in GoodPairs(h) : RawOf(g, p) = RawOf(h, p)
  BY ExtendsSame DEF GoodPairs
<1>2. \A i \in 1 .. Len(ps) : RawOf(g, ps[i]) = RawOf(h, ps[i])
  BY <1>1
<1>3. [i \in 1 .. Len(ps) |-> RawOf(g, ps[i])] = [i \in 1 .. Len(ps) |-> RawOf(h, ps[i])]
  BY <1>2
<1>4. ps \in Seq(GoodPairs(g))
  BY ExtendsSame
<1>5. QED
  BY <1>3, <1>4 DEF Raws

-----------------------------------------------------------------------------
(* What has room for its position *)

KeptFn(T) == [m \in T |-> Kept(m)]

LEMMA KeptIs ==
    ASSUME NEW T, NEW s \in Seq(T)
    PROVE  /\ KeptFn(T) \in [T -> Seq(T)] /\ Image(s, KeptFn(T)) \in Seq(Seq(T))
           /\ Len(Image(s, KeptFn(T))) = Len(s) /\ (\A n \in 1 .. Len(s) : Image(s, KeptFn(T))[n] = Kept(s[n]))
           /\ Fitting(s) = FlattenSeq(Image(s, KeptFn(T)))
<1> DEFINE W == Seq(T)
           K == KeptFn(T)
<1>1. K \in [T -> W]
  <2>1. \A m \in T : Kept(m) \in W
    BY DEF Kept
  <2> HIDE DEF W
  <2>2. QED
    BY <2>1 DEF KeptFn
<1>2. Image(s, K) \in Seq(W) /\ Len(Image(s, K)) = Len(s)
  <2> HIDE DEF W, K
  <2>1. QED
    BY <1>1, ImageOf
<1>3. Image(s, K) = [n \in 1 .. Len(s) |-> Kept(s[n])]
  <2>1. \A n \in 1 .. Len(s) : s[n] \in T
    OBVIOUS
  <2>2. \A n \in 1 .. Len(s) : K[s[n]] = Kept(s[n])
    BY <2>1 DEF KeptFn
  <2> HIDE DEF K
  <2>3. QED
    BY <2>2 DEF Image
<1> HIDE DEF K
<1>4. Fitting(s) = FlattenSeq(Image(s, K)) /\ \A n \in 1 .. Len(s) : Image(s, K)[n] = Kept(s[n])
  BY <1>3 DEF Fitting
<1>5. QED
  BY <1>1, <1>2, <1>4 DEF K

FittingJoins(s, t) == Fitting(s \o t) = Fitting(s) \o Fitting(t)

LEMMA FittingConcat ==
    ASSUME NEW T, NEW s \in Seq(T), NEW t \in Seq(T)
    PROVE  FittingJoins(s, t)
<1> DEFINE K == KeptFn(T)
           W == Seq(T)
<1>1. s \o t \in Seq(T)
  OBVIOUS
<1>2. /\ K \in [T -> W]
      /\ Fitting(s) = FlattenSeq(Image(s, K)) /\ Fitting(t) = FlattenSeq(Image(t, K))
      /\ Fitting(s \o t) = FlattenSeq(Image(s \o t, K))
      /\ Image(s, K) \in Seq(Seq(T)) /\ Image(t, K) \in Seq(Seq(T))
  BY <1>1, KeptIs
<1> HIDE DEF K
<1>3. ImageJoins(s, t, K)
  <2> HIDE DEF W
  <2>1. QED
    BY <1>2, ImageConcat
<1>4. FlattenSeq(Image(s, K) \o Image(t, K)) = FlattenSeq(Image(s, K)) \o FlattenSeq(Image(t, K))
  BY <1>2, FlattenConcat
<1>5. QED
  BY <1>2, <1>3, <1>4 DEF ImageJoins, FittingJoins

LEMMA FittingIs ==
    ASSUME NEW T, NEW s \in Seq(T)
    PROVE  /\ Fitting(s) \in Seq(T) /\ (IsInjective(s) => IsInjective(Fitting(s)))
           /\ \A m : m \in ToSet(Fitting(s)) <=> m \in ToSet(s) /\ F!Fits(m.pos)
<1> DEFINE ss == Image(s, KeptFn(T))
<1>1. /\ ss \in Seq(Seq(T)) /\ Len(ss) = Len(s) /\ (\A n \in 1 .. Len(s) : ss[n] = Kept(s[n])) /\ Fitting(s) = FlattenSeq(ss)
      /\ Len(s) \in Nat
  BY KeptIs
<1> HIDE DEF ss
<1>2. Fitting(s) \in Seq(T)
  BY <1>1, JoinedEnds
<1>3. \A n \in 1 .. Len(s) : \A m : m \in ToSet(ss[n]) <=> m = s[n] /\ F!Fits(m.pos)
  <2> SUFFICES ASSUME NEW n \in 1 .. Len(s), NEW m PROVE m \in ToSet(ss[n]) <=> m = s[n] /\ F!Fits(m.pos)
    OBVIOUS
  <2>1. CASE F!Fits(s[n].pos)
    <3>1. ss[n] = <<s[n]>>
      BY <1>1, <2>1 DEF Kept
    <3>2. ToSet(<<s[n]>>) = {s[n]}
      BY DEF ToSet
    <3>3. QED
      BY <2>1, <3>1, <3>2
  <2>2. CASE ~F!Fits(s[n].pos)
    <3>1. ss[n] = <<>>
      BY <1>1, <2>2 DEF Kept
    <3>2. QED
      BY <2>2, <3>1, EmptySequence
  <2>3. QED
    BY <2>1, <2>2
<1>4. \A m : m \in ToSet(s) <=> \E n \in 1 .. Len(s) : m = s[n]
  BY DEF ToSet
<1>5. \A m : m \in ToSet(Fitting(s)) <=> m \in ToSet(s) /\ F!Fits(m.pos)
  <2>1. \A m : m \in ToSet(FlattenSeq(ss)) <=> \E n \in 1 .. Len(ss) : m \in ToSet(ss[n])
    BY <1>1, FlattenElements
  <2>2. QED
    BY <1>1, <1>3, <1>4, <2>1
<1>6. ASSUME IsInjective(s) PROVE IsInjective(FlattenSeq(ss))
  <2>1. \A n \in 1 .. Len(ss) : IsInjective(ss[n])
    <3> SUFFICES ASSUME NEW n \in 1 .. Len(s) PROVE IsInjective(Kept(s[n]))
      BY <1>1
    <3>1. IsInjective(<<s[n]>>)
      BY DEF IsInjective
    <3>2. QED
      BY <3>1, EmptySequence DEF Kept
  <2>2. \A m, n \in 1 .. Len(ss) : m # n => ToSet(ss[m]) \cap ToSet(ss[n]) = {}
    <3> SUFFICES ASSUME NEW m \in 1 .. Len(s), NEW n \in 1 .. Len(s), m # n, NEW x \in ToSet(ss[m]), x \in ToSet(ss[n])
                 PROVE  FALSE
      BY <1>1
    <3>1. x = s[m] /\ x = s[n]
      BY <1>3
    <3>2. m \in DOMAIN s /\ n \in DOMAIN s
      OBVIOUS
    <3>3. QED
      BY <1>6, <3>1, <3>2 DEF IsInjective
  <2>3. QED
    BY <1>1, <2>1, <2>2, FlattenInjective
<1>7. QED
  BY <1>1, <1>2, <1>5, <1>6

LEMMA FindMatchesIs ==
    ASSUME NEW fx, Clean(fx), NEW p, NEW b, F!HasVectors(p), Vector(heap[p.L], b), Vector(heap[p.R], b + 1)
    PROVE  /\ Clean(F!FindMatches(fx, p).fx)
           /\ F!FindMatches(fx, p).count = Len(RawOf(heap, p))
           /\ F!FindMatches(fx, p).out = Fitting(RawOf(heap, p))
<1> DEFINE L == heap[p.L]
           R == heap[p.R]
           x == RawOf(heap, p)
           H == Hits(L, R)
           stored(f) == IF F!Fits(p.offset + f.l) THEN <<F!Match(p.offset, L, R, f)>> ELSE <<>>
<1>1. Clean(F!Indexed(fx, R)) /\ F!Found(F!Indexed(fx, R), L, R) = H
  BY HitsFound
<1>2. H \in Seq(Hit) /\ Len(H) \in Nat /\ DOMAIN H = 1 .. Len(H)
  <2>1. H \in Seq(Hit)
    BY HitsAre
  <2> HIDE DEF H
  <2>2. QED
    BY <2>1
<1>3. HitsOf(heap, p) = H
  BY DEF HitsOf
<1>4. x = [n \in 1 .. Len(H) |-> F!Match(p.offset, L, R, H[n])]
  BY <1>3 DEF RawOf, MatchAt
<1> HIDE DEF H, x
<1>5. Len(x) = Len(H) /\ \A n \in 1 .. Len(H) : x[n] = F!Match(p.offset, L, R, H[n])
  BY <1>2, <1>4
<1>6. \A n \in 1 .. Len(H) : Kept(x[n]) = stored(H[n])
  <2> SUFFICES ASSUME NEW n \in 1 .. Len(H) PROVE Kept(x[n]) = stored(H[n])
    OBVIOUS
  <2>1. x[n] = F!Match(p.offset, L, R, H[n])
    BY <1>5
  <2>2. F!Match(p.offset, L, R, H[n]).pos = p.offset + H[n].l
    BY DEF F!Match
  <2>3. QED
    BY <2>1, <2>2 DEF Kept
<1> HIDE DEF stored
<1>7. Fitting(x) = FlattenSeq([n \in 1 .. Len(H) |-> stored(H[n])])
  <2>1. [n \in 1 .. Len(x) |-> Kept(x[n])] = [n \in 1 .. Len(H) |-> stored(H[n])]
    BY <1>5, <1>6
  <2>2. QED
    BY <2>1 DEF Fitting
<1> DEFINE G == F!Found(F!Indexed(fx, R), L, R)
<1>8. F!FindMatches(fx, p) = [fx |-> F!Indexed(fx, R), count |-> Len(G), out |-> F!FlattenSeq([n \in DOMAIN G |-> stored(G[n])])]
  BY DEF F!FindMatches, stored
<1>9. F!FlattenSeq([n \in DOMAIN G |-> stored(G[n])]) = Fitting(x)
  <2>1. G = H
    BY <1>1
  <2> HIDE DEF G
  <2>2. [n \in DOMAIN G |-> stored(G[n])] = [n \in 1 .. Len(H) |-> stored(H[n])]
    BY <1>2, <2>1
  <2>3. QED
    BY <1>7, <2>2, SameOperators
<1>10. Len(G) = Len(x)
  BY <1>1, <1>5
<1> HIDE DEF G
<1>11. QED
  BY <1>1, <1>8, <1>9, <1>10 DEF x

-----------------------------------------------------------------------------
(* Slicing a block *)

LEMMA ExtendsOn ==
    ASSUME NEW f, NEW g, NEW h, Extends(f, g), Extends(g, h), Len(f) \in Nat, Len(g) \in Nat, Len(h) \in Nat
    PROVE  Extends(f, h)
<1>1. /\ Len(f) <= Len(g) /\ (\A c \in 1 .. Len(f) - 1 : g[c] = f[c])
      /\ \A c \in 0 .. Len(f) : Bkt(g, c) = Bkt(f, c) /\ First(g, c) = First(f, c)
  BY DEF Extends
<1>2. /\ Len(g) <= Len(h) /\ (\A c \in 1 .. Len(g) - 1 : h[c] = g[c])
      /\ \A c \in 0 .. Len(g) : Bkt(h, c) = Bkt(g, c) /\ First(h, c) = First(g, c)
  BY DEF Extends
<1>3. (\A c \in 1 .. Len(f) - 1 : c \in 1 .. Len(g) - 1) /\ \A c \in 0 .. Len(f) : c \in 0 .. Len(g)
  BY <1>1
<1>4. Len(f) <= Len(h)
  BY <1>1, <1>2
<1>5. QED
  BY <1>1, <1>2, <1>3, <1>4 DEF Extends

LEMMA ExtendsSelf == ASSUME NEW h, Len(h) \in Nat PROVE Extends(h, h)
BY DEF Extends

Full(h) == IF Len(h) = 0 THEN 0 ELSE Len(h) - 1

LEMMA AllRawTyped ==
    ASSUME NEW V, NEW E, NEW h, NEW m, TableSeq(V, E), Grouped(V, E, h, m)
    PROVE  /\ AllRaw(h, Full(h)) \in Seq(Real(E)) /\ Full(h) \in Nat /\ Len(h) \in Nat
           /\ AllRaw(h, Len(h)) = AllRaw(h, Full(h)) \o (IF Len(h) = 0 THEN <<>> ELSE RawAt(h, Len(h)))
<1>1. Len(h) \in Nat
  BY HeapSize
<1>2. \A c \in 1 .. Len(h) : RawAt(h, c) \in Seq(Real(E))
  BY RawTyped
<1>3. CASE Len(h) = 0
  <2>1. AllRaw(h, 0) = <<>> /\ Full(h) = 0
    BY <1>3, AllRawNone DEF Full
  <2> DEFINE none == <<>>
             r == IF Len(h) = 0 THEN none ELSE RawAt(h, Len(h))
  <2>2. none \o none = none /\ none \in Seq(Real(E))
    OBVIOUS
  <2>3. r = none
    BY <1>3
  <2>4. AllRaw(h, Full(h)) = none /\ AllRaw(h, Len(h)) = none /\ Full(h) \in Nat
    BY <1>3, <2>1
  <2> HIDE DEF none, r
  <2>5. AllRaw(h, Full(h)) \in Seq(Real(E)) /\ AllRaw(h, Len(h)) = AllRaw(h, Full(h)) \o r
    BY <2>2, <2>3, <2>4
  <2>6. QED
    BY <1>1, <2>4, <2>5 DEF none, r
<1>4. CASE Len(h) # 0
  <2> DEFINE n == Len(h) - 1
  <2>1. n \in Nat /\ n + 1 = Len(h) /\ Full(h) = n
    BY <1>1, <1>4 DEF Full
  <2> HIDE DEF n
  <2>2. AllRaw(h, n) \in Seq(Real(E)) /\ AllRaw(h, n + 1) = AllRaw(h, n) \o RawAt(h, n + 1)
    BY <1>2, <2>1, AllRawStep
  <2>3. QED
    BY <1>1, <1>4, <2>1, <2>2
<1>5. QED
  BY <1>3, <1>4

\* What read_thread gives to match_pool, of a heap h that had m entries
LoopGood(V, E, h, s, m) ==
    /\ SliceGood(V, E, s, m) /\ Extends(h, s.heap) /\ s.out \in Seq(GoodPairs(s.heap))
    /\ AllRaw(s.heap, Full(s.heap)) = AllRaw(h, Full(h)) \o Raws(s.heap, s.out)

LEMMA LoopStep ==
    ASSUME NEW V, NEW E, NEW h, NEW s, NEW m, TableSeq(V, E), LoopGood(V, E, h, s, m), m < Len(E),
           Len(h) \in Nat, AllRaw(h, Full(h)) \in Seq(Real(E))
    PROVE  LoopGood(V, E, h, F!SliceEntry(s, E[m + 1]), m + 1)
<1> DEFINE t == F!SliceEntry(s, E[m + 1])
           f == s.heap
           g == t.heap
           l == Len(f)
           a == AllRaw(h, Full(h))
           T == Real(E)
           S == GoodPairs(g)
<1>1. /\ SliceGood(V, E, s, m) /\ Extends(h, f) /\ s.out \in Seq(GoodPairs(f))
      /\ AllRaw(f, Full(f)) = a \o Raws(f, s.out)
  BY DEF LoopGood
<1>2. /\ SliceGood(V, E, t, m + 1) /\ Extends(f, g)
      /\ \/ Len(g) = Len(f) /\ Len(f) # 0 /\ t.out = s.out
         \/ Len(g) = Len(f) + 1 /\ t.out = s.out \o Emitted(f, Len(f)) /\ \A c \in 1 .. Len(f) : g[c] = f[c]
  <2>1. SliceStepped(V, E, s, t, m)
    BY <1>1, SliceStep
  <2> HIDE DEF t
  <2>2. QED
    BY <2>1 DEF SliceStepped
<1> HIDE DEF t
<1>3. /\ Grouped(V, E, f, m) /\ Grouped(V, E, g, m + 1) /\ l \in Nat /\ Len(g) \in Nat
      /\ Full(f) \in Nat /\ Full(g) \in Nat
  <2>1. Grouped(V, E, f, m) /\ Grouped(V, E, g, m + 1)
    BY <1>1, <1>2 DEF SliceGood
  <2>2. QED
    BY <2>1, AllRawTyped
<1>4. Extends(h, g)
  BY <1>1, <1>2, <1>3, ExtendsOn
<1>5. Raws(g, s.out) = Raws(f, s.out) /\ s.out \in Seq(S)
  BY <1>1, <1>2, <1>3, RawsSame
<1>6. \A p \in S : RawOf(g, p) \in Seq(T)
  BY <1>3, GoodRaw
<1>7. AllRaw(g, Full(f)) = AllRaw(f, Full(f))
  <2>1. \A c \in 1 .. Full(f) : c \in 1 .. Len(f) - 1
    BY <1>3 DEF Full
  <2>2. \A c \in 1 .. Full(f) : RawAt(g, c) = RawAt(f, c)
    BY <1>2, <1>3, <2>1, ExtendsSame
  <2>3. QED
    BY <2>2, AllRawSame
<1>8. a \in Seq(T)
  OBVIOUS
<1>9. Raws(g, s.out) \in Seq(T)
  <2> HIDE DEF S, T
  <2>1. QED
    BY <1>5, <1>6, RawsAre
<1> HIDE DEF a, T, S
<1>10. CASE Len(g) = Len(f) /\ t.out = s.out
  <2>1. Full(g) = Full(f)
    BY <1>10 DEF Full
  <2>2. AllRaw(g, Full(g)) = a \o Raws(g, t.out)
    BY <1>1, <1>5, <1>7, <1>10, <2>1
  <2>3. t.out \in Seq(S)
    BY <1>5, <1>10
  <2>4. QED
    BY <1>2, <1>4, <2>2, <2>3 DEF LoopGood, a, S, t
<1>11. CASE Len(g) = Len(f) + 1 /\ t.out = s.out \o Emitted(f, Len(f))
  <2> DEFINE n == Emitted(f, l)
  <2>1. CASE l = 0
    <3>1. n = <<>>
      <4>1. Bkt(f, l) = 0 /\ Bkt(f, l - 1) = 0
        BY <2>1 DEF Bkt
      <4>2. QED
        BY <4>1 DEF Emitted, Emits
    <3>2. t.out = s.out
      <4>1. s.out \o <<>> = s.out
        BY <1>5
      <4>2. QED
        BY <1>11, <3>1, <4>1
    <3>3. Full(g) = Full(f)
      BY <1>11, <2>1 DEF Full
    <3>4. AllRaw(g, Full(g)) = a \o Raws(g, t.out)
      BY <1>1, <1>5, <1>7, <3>2, <3>3
    <3>5. t.out \in Seq(S)
      BY <1>5, <3>2
    <3>6. QED
      BY <1>2, <1>4, <3>4, <3>5 DEF LoopGood, a, S, t
  <2>2. CASE l # 0
    <3>1. /\ Full(f) = l - 1 /\ Full(g) = l /\ l \in 1 .. Len(g) - 1 /\ l \in 1 .. Len(g)
          /\ Len(g) = l + 1 /\ (l - 1) + 1 = l /\ l - 1 \in Nat /\ l \in 0 .. Len(f) /\ l - 1 \in 0 .. Len(f)
      <4>1. Len(g) = l + 1 /\ l \in Nat \ {0} /\ Len(f) = l
        BY <1>3, <1>11, <2>2
      <4> HIDE DEF l
      <4>2. QED
        BY <4>1, <2>2 DEF Full
    <3>2. (Emits(g, l) <=> Emits(f, l)) /\ PairAt(g, l) = PairAt(f, l)
      <4>1. Bkt(g, l) = Bkt(f, l) /\ Bkt(g, l - 1) = Bkt(f, l - 1) /\ First(g, l - 1) = First(f, l - 1)
        BY <1>2, <3>1 DEF Extends
      <4>2. QED
        BY <4>1 DEF Emits, PairAt
    <3>3. AllRaw(g, l) = AllRaw(g, l - 1) \o RawAt(g, l)
      <4>1. \A c \in 1 .. l : c \in 1 .. Len(g)
        BY <3>1
      <4>2. \A c \in 1 .. l : RawAt(g, c) \in Seq(T)
        BY <1>3, <4>1, RawTyped DEF T
      <4> DEFINE z == l - 1
      <4>3. z \in Nat /\ z + 1 = l
        BY <3>1
      <4> HIDE DEF z, l
      <4>4. AllRaw(g, z + 1) = AllRaw(g, z) \o RawAt(g, z + 1)
        BY <4>2, <4>3, AllRawStep
      <4>5. QED
        BY <4>3, <4>4 DEF z
    <3>4. n \in Seq(S) /\ Raws(g, n) = RawAt(g, l) /\ RawAt(g, l) \in Seq(T)
      <4>0. RawAt(g, l) \in Seq(T)
        BY <1>3, <3>1, RawTyped DEF T
      <4>1. CASE Emits(f, l)
        <5>1. n = <<PairAt(g, l)>> /\ PairAt(g, l) \in S
          BY <3>1, <3>2, <4>1 DEF Emitted, GoodPairs, S
        <5>2. RawOf(g, PairAt(g, l)) \in Seq(T) /\ RawAt(g, l) = RawOf(g, PairAt(g, l))
          BY <1>6, <3>2, <4>1, <5>1 DEF RawAt
        <5>3. Raws(g, <<PairAt(g, l)>>) = RawOf(g, PairAt(g, l))
          BY <5>2, RawsOne
        <5>4. QED
          BY <4>0, <5>1, <5>2, <5>3
      <4>2. CASE ~Emits(f, l)
        <5>1. n = <<>> /\ RawAt(g, l) = <<>>
          BY <3>2, <4>2 DEF Emitted, RawAt
        <5>2. Raws(g, <<>>) = <<>>
          <6>1. [i \in 1 .. Len(<<>>) |-> RawOf(g, <<>>[i])] = [i \in 1 .. 0 |-> RawOf(g, <<>>[i])]
            OBVIOUS
          <6>2. [i \in 1 .. 0 |-> RawOf(g, <<>>[i])] \in [1 .. 0 -> Seq(T)]
            OBVIOUS
          <6>3. FlattenSeq([i \in 1 .. 0 |-> RawOf(g, <<>>[i])]) = <<>>
            BY <6>2, FlattenEmpty
          <6>4. QED
            BY <6>1, <6>3 DEF Raws
        <5>3. QED
          BY <4>0, <5>1, <5>2
      <4>3. QED
        BY <4>1, <4>2
    <3>5. Raws(g, s.out \o n) = Raws(g, s.out) \o Raws(g, n)
      <4>1. RawsJoin(g, s.out, n)
        BY <1>5, <1>6, <3>4, RawsConcat
      <4>2. QED
        BY <4>1 DEF RawsJoin
    <3>6. t.out = s.out \o n /\ t.out \in Seq(S)
      <4>1. t.out = s.out \o n
        BY <1>11
      <4> HIDE DEF n
      <4>2. s.out \o n \in Seq(S)
        BY <1>5, <3>4
      <4>3. QED
        BY <4>1, <4>2
    <3> DEFINE u == Raws(g, s.out)
               w == RawAt(g, l)
    <3>7. AllRaw(g, l - 1) = a \o u
      BY <1>1, <1>5, <1>7, <3>1
    <3>8. AllRaw(g, Full(g)) = a \o (u \o w)
      <4>1. AllRaw(g, Full(g)) = (a \o u) \o w
        BY <3>1, <3>3, <3>7
      <4>2. u \in Seq(T) /\ w \in Seq(T)
        BY <1>9, <3>4
      <4> HIDE DEF u, w
      <4>3. (a \o u) \o w = a \o (u \o w)
        BY ONLY <1>8, <4>2, ConcatThree
      <4>4. QED
        BY <4>1, <4>3
    <3>9. AllRaw(g, Full(g)) = a \o Raws(g, t.out)
      BY <3>4, <3>5, <3>6, <3>8
    <3>10. QED
      BY <1>2, <1>4, <3>6, <3>9 DEF LoopGood, a, S, t
  <2>3. QED
    BY <2>1, <2>2
<1>12. QED
  BY <1>2, <1>10, <1>11 DEF t

\* What read_thread knows before a block
State == [index |-> L_index, offset |-> L_offset, bucket |-> L_bucket, heap |-> heap, out |-> <<>>]

LEMMA SlicedIs ==
    ASSUME NEW V, NEW E, NEW m, TableSeq(V, E), SliceGood(V, E, State, m),
           NEW block \in Seq(V), m + Len(block) <= Len(E), \A i \in 1 .. Len(block) : block[i] = E[m + i]
    PROVE  LoopGood(V, E, heap, F!Sliced(block), m + Len(block))
<1> DEFINE n == Len(block)
           W == SliceState(V)
           good(x, s) == LoopGood(V, E, heap, s, m + x)
           next(x, s) == F!SliceEntry(s, block[x])
           step == [x \in 1 .. n |-> [s \in W |-> IF good(x - 1, s) THEN next(x, s) ELSE s]]
           Slicing(f) == f = [x \in 0 .. n |-> IF x = 0 THEN State ELSE next(x, f[x - 1])]
           sliced == CHOOSE f : Slicing(f)
<1>1. n \in Nat /\ m \in 0 .. Len(E) /\ Len(E) \in Nat /\ m \in Nat
  <2>1. m \in 0 .. Len(E) /\ Len(E) \in Nat
    BY HeapSize DEF SliceGood
  <2>2. QED
    BY <2>1
<1>2. State \in W /\ State.heap = heap /\ State.out = <<>> /\ Grouped(V, E, heap, m)
  <2>1. State \in W
    BY DEF SliceGood
  <2>2. State.heap = heap /\ State.out = <<>>
    BY DEF State
  <2>3. QED
    BY <2>1, <2>2 DEF SliceGood
<1>3. Len(heap) \in Nat /\ AllRaw(heap, Full(heap)) \in Seq(Real(E))
  BY <1>2, AllRawTyped
<1>4. good(0, State)
  <2>1. Extends(heap, heap)
    BY <1>3, ExtendsSelf
  <2>2. Raws(heap, <<>>) = <<>>
    <3>1. [i \in 1 .. Len(<<>>) |-> RawOf(heap, <<>>[i])] = [i \in 1 .. 0 |-> RawOf(heap, <<>>[i])]
      OBVIOUS
    <3>2. [i \in 1 .. 0 |-> RawOf(heap, <<>>[i])] \in [1 .. 0 -> Seq({})]
      OBVIOUS
    <3>3. FlattenSeq([i \in 1 .. 0 |-> RawOf(heap, <<>>[i])]) = <<>>
      BY <3>2, FlattenEmpty
    <3>4. QED
      BY <3>1, <3>3 DEF Raws
  <2> DEFINE a == AllRaw(heap, Full(heap))
  <2>3. a = a \o <<>>
    <3> HIDE DEF a
    <3>1. a \in Seq(Real(E))
      BY <1>3 DEF a
    <3>2. QED
      BY <3>1
  <2>4. m + 0 = m
    BY <1>1
  <2>5. <<>> \in Seq(GoodPairs(heap))
    OBVIOUS
  <2>6. QED
    BY <1>2, <2>1, <2>2, <2>3, <2>4, <2>5 DEF LoopGood
<1>5. ASSUME NEW x \in 1 .. n, NEW s, good(x - 1, s) PROVE good(x, next(x, s))
  <2> DEFINE p == m + (x - 1)
  <2>1. p < Len(E) /\ p + 1 = m + x /\ block[x] = E[p + 1]
    <3>1. p + 1 = m + x
      BY <1>1
    <3>2. p < Len(E)
      BY <1>1
    <3>3. QED
      BY <3>1, <3>2
  <2> HIDE DEF p
  <2>2. LoopGood(V, E, heap, s, p)
    BY <1>5 DEF p
  <2>3. LoopGood(V, E, heap, F!SliceEntry(s, E[p + 1]), p + 1)
    BY <1>3, <2>1, <2>2, LoopStep
  <2>4. QED
    BY <2>1, <2>3
<1>6. ASSUME NEW x, NEW s, good(x, s) PROVE s \in W
  BY <1>6 DEF LoopGood, SliceGood
<1> HIDE DEF good, next, W
<1>7. F!Sliced(block) = sliced[n]
  BY DEF F!Sliced, State, next
<1>8. \A f : Slicing(f) <=> f = [x \in 0 .. n |-> IF x = 0 THEN State ELSE next(x, f[x - 1])]
  BY Zenon
<1> HIDE DEF Slicing
<1>9. \E f : Slicing(f)
  <2>1. step \in [1 .. n -> [W -> W]]
    <3>1. ASSUME NEW x \in 1 .. n, NEW s \in W PROVE (IF good(x - 1, s) THEN next(x, s) ELSE s) \in W
      <4>1. good(x - 1, s) => next(x, s) \in W
        BY <1>5, <1>6
      <4>2. QED
        BY <4>1
    <3>2. QED
      BY <3>1
  <2>2. \A x \in 1 .. n, s \in W : good(x - 1, s) => step[x][s] = next(x, s)
    OBVIOUS
  <2> HIDE DEF step, n
  <2>3. PICK g \in [0 .. n -> W] : Solves(g, State, step, n)
    BY <1>1, <1>2, <2>1, Recursion
  <2>4. g[0] = State
    BY <2>3 DEF Solves
  <2> DEFINE S == {x \in 0 .. n : good(x, g[x])}
  <2>5. 0 \in S
    BY <1>1, <1>4, <2>4
  <2>6. ASSUME NEW x \in 1 .. n, x - 1 \in S PROVE g[x] = next(x, g[x - 1]) /\ x \in S
    <3>1. x - 1 \in 0 .. n /\ g[x - 1] \in W /\ good(x - 1, g[x - 1]) /\ x \in 0 .. n
      BY <1>1, <2>6
    <3>2. g[x] = step[x][g[x - 1]]
      BY <2>3 DEF Solves
    <3>3. g[x] = next(x, g[x - 1])
      BY <2>2, <3>1, <3>2
    <3>4. good(x, next(x, g[x - 1]))
      BY <1>5, <3>1
    <3>5. QED
      BY <3>1, <3>3, <3>4
  <2> HIDE DEF S
  <2>7. \A x \in 0 .. n : x \in S
    BY <1>1, <2>5, <2>6, Induction
  <2>8. ASSUME NEW x \in 1 .. n PROVE g[x] = next(x, g[x - 1])
    <3>1. x - 1 \in 0 .. n
      BY <1>1
    <3>2. QED
      BY <2>6, <2>7, <3>1
  <2> DEFINE h == [x \in 0 .. n |-> IF x = 0 THEN State ELSE next(x, g[x - 1])]
  <2>9. \A x \in 0 .. n : g[x] = IF x = 0 THEN State ELSE next(x, g[x - 1])
    <3>1. \A x \in 0 .. n : x = 0 \/ x \in 1 .. n
      BY <1>1
    <3>2. \A x \in 1 .. n : x # 0
      BY <1>1
    <3>3. QED
      BY <3>1, <3>2, <2>4, <2>8, Zenon
  <2>10. \A x \in 0 .. n : h[x] = g[x]
    BY <2>9, Zenon
  <2>11. g = h
    <3>1. DOMAIN h = 0 .. n /\ h = [x \in DOMAIN h |-> h[x]]
      BY Zenon
    <3> HIDE DEF h
    <3>2. DOMAIN g = 0 .. n /\ g = [x \in DOMAIN g |-> g[x]]
      OBVIOUS
    <3>3. QED
      BY <3>1, <3>2, <2>10
  <2>12. Slicing(g)
    BY <2>11, <1>8, Zenon
  <2>13. QED
    BY <2>12
<1>10. Slicing(sliced)
  BY <1>9
<1> DEFINE h == [x \in 0 .. n |-> IF x = 0 THEN State ELSE next(x, sliced[x - 1])]
<1>11. sliced = h
  BY <1>8, <1>10, Zenon
<1> HIDE DEF sliced
<1>12. sliced[0] = State /\ \A x \in 1 .. n : sliced[x] = next(x, sliced[x - 1])
  <2>1. 0 \in 0 .. n /\ \A x \in 1 .. n : x \in 0 .. n /\ x # 0
    BY <1>1
  <2>2. \A x \in 0 .. n : h[x] = IF x = 0 THEN State ELSE next(x, sliced[x - 1])
    BY Zenon
  <2> HIDE DEF h
  <2>3. QED
    BY <1>11, <2>1, <2>2, Zenon
<1> DEFINE S == {x \in 0 .. n : good(x, sliced[x])}
<1>13. 0 \in S
  BY <1>1, <1>4, <1>12
<1>14. ASSUME NEW x \in 1 .. n, x - 1 \in S PROVE x \in S
  <2>1. good(x - 1, sliced[x - 1]) /\ x \in 0 .. n
    BY <1>1, <1>14
  <2>2. good(x, next(x, sliced[x - 1]))
    BY <1>5, <2>1
  <2>3. QED
    BY <1>12, <2>1, <2>2
<1> HIDE DEF S, n
<1>15. n \in S
  <2>1. \A x \in 0 .. n : x \in S
    BY <1>1, <1>13, <1>14, Induction
  <2>2. QED
    BY <1>1, <2>1
<1>16. good(n, sliced[n])
  BY <1>15 DEF S
<1>17. QED
  BY <1>7, <1>16 DEF good, n

-----------------------------------------------------------------------------
(* The stages of a table *)

\* The left table
Left == FlattenSeq(table)

LeftSet == ToSet(Left)

Working == R_index_1 \in 2 .. LastTable

Nothing == Two(0, 0)

Idle ==
    /\ blocks = 0 /\ pending = FALSE /\ closed = FALSE
    /\ L_index = Nothing /\ L_offset = Nothing /\ L_bucket = Nothing /\ heap = <<>>
    /\ L_queue = <<>> /\ matching = <<>> /\ evaluating = <<>>
    /\ given_1 = 0 /\ Fx = [w \in F!Worker |-> F!FreshMatcher]
    /\ matches = <<>> /\ num_found = 0 /\ num_written_1 = 0

\* Between two tables nothing is left of the one before.
Turns ==
    /\ span \in Nat \ {0} /\ R_index_1 \in 1 .. LastTable + 1
    /\ pending \in BOOLEAN /\ closed \in BOOLEAN /\ given_1 \in Nat
    /\ ~Working => Idle

LEMMA InitTurns == F!Init => Turns /\ Idle
<1> SUFFICES ASSUME F!Init PROVE Turns /\ Idle
  OBVIOUS
<1>1. Idle
  BY DEF F!Init, Idle, Nothing, Two, F!Null
<1>2. R_index_1 \in 1 .. LastTable + 1 /\ span \in Nat \ {0}
  BY Parameters DEF F!Init
<1>3. pending \in BOOLEAN /\ closed \in BOOLEAN /\ given_1 \in Nat
  BY <1>1 DEF Idle
<1>4. QED
  BY <1>1, <1>2, <1>3 DEF Turns

LEMMA FreshIsIdle ==
    Turns /\ F!NextTable =>
        /\ Idle' /\ R_index_1' = R_index_1 + 1 /\ span' = span /\ L_tmp' = L_tmp /\ R_tmp' = R_tmp /\ R_sort' = {}
        /\ R_index_1 \in 1 .. LastTable
        /\ table' = (IF R_index_1 < LastTable THEN F!InBlocks(R_sort) ELSE table)
        /\ R_index_1 # 1 => F!TableComplete
<1> SUFFICES ASSUME Turns, F!NextTable PROVE
        /\ Idle' /\ R_index_1' = R_index_1 + 1 /\ span' = span /\ L_tmp' = L_tmp /\ R_tmp' = R_tmp /\ R_sort' = {}
        /\ R_index_1 \in 1 .. LastTable
        /\ table' = (IF R_index_1 < LastTable THEN F!InBlocks(R_sort) ELSE table)
        /\ R_index_1 # 1 => F!TableComplete
  OBVIOUS
<1>1. /\ R_index_1' = R_index_1 + 1 /\ span' = span /\ L_tmp' = L_tmp /\ R_tmp' = R_tmp /\ R_sort' = {}
      /\ L_queue' = L_queue /\ evaluating' = evaluating
      /\ table' = (IF R_index_1 < LastTable THEN F!InBlocks(R_sort) ELSE table)
      /\ R_index_1 # 1 => R_index_1 <= LastTable /\ F!TableComplete
  BY DEF F!NextTable, F!left
<1>2. R_index_1 \in 1 .. LastTable
  BY <1>1, Parameters DEF Turns
<1>3. L_queue = <<>> /\ evaluating = <<>>
  <2>1. CASE R_index_1 = 1
    <3>1. ~Working
      BY <2>1 DEF Working
    <3>2. QED
      BY <3>1 DEF Turns, Idle
  <2>2. CASE R_index_1 # 1
    BY <2>2, <1>1 DEF F!TableComplete
  <2>3. QED
    BY <2>1, <2>2
<1>4. F!Fresh
  BY DEF F!NextTable
<1>5. Idle'
  BY <1>1, <1>3, <1>4 DEF F!Fresh, Idle, Nothing, Two, F!Null
<1>6. QED
  BY <1>1, <1>2, <1>5

LEMMA NextTurns == Turns /\ F!Next => Turns'
<1> SUFFICES ASSUME Turns, F!Next PROVE Turns'
  OBVIOUS
<1>1. CASE F!ComputeSome
  <2>1. UNCHANGED <<span, R_index_1, pending, closed, given_1, blocks, L_index, L_offset, L_bucket, heap, L_queue,
                    matching, evaluating, Fx, matches, num_found, num_written_1>>
    BY <1>1 DEF F!ComputeSome, F!ComputeF1, F!slice, F!left, F!counters
  <2>2. QED
    BY <2>1 DEF Turns, Idle, Working
<1>2. CASE F!SliceBlock
  <2>1. Working /\ R_index_1' = R_index_1 /\ span' = span /\ pending' = TRUE /\ closed' = closed /\ given_1' = given_1 + 1
    BY <1>2 DEF F!SliceBlock, F!setting, Working
  <2>2. QED
    BY <2>1 DEF Turns, Working
<1>3. CASE F!GiveLeft \/ F!WriteLeft
  <2>1. Working
    BY <1>3 DEF F!GiveLeft, F!WriteLeft, Turns, Idle
  <2>2. UNCHANGED <<span, R_index_1, closed, given_1>> /\ pending' \in BOOLEAN
    BY <1>3 DEF F!GiveLeft, F!WriteLeft, F!setting, Turns
  <2>3. QED
    BY <2>1, <2>2 DEF Turns, Working
<1>4. CASE F!MatchSome \/ F!DeliverMatches
  <2>1. matching # <<>>
    <3>1. DOMAIN <<>> = {}
      OBVIOUS
    <3>2. F!MatchSome => DOMAIN matching # {}
      BY DEF F!MatchSome, F!MatchPair
    <3>3. QED
      BY <1>4, <3>1, <3>2 DEF F!DeliverMatches
  <2>2. Working
    <3>1. ~Working => Idle
      BY DEF Turns
    <3>2. Idle => matching = <<>> /\ evaluating = <<>>
      BY SMTT(40) DEF Idle
    <3>3. QED
      BY <2>1, <3>1, <3>2
  <2>3. UNCHANGED <<span, R_index_1, closed, given_1, pending>>
    BY Zenon, <1>4 DEF F!MatchSome, F!MatchPair, F!DeliverMatches, F!setting
  <2>4. QED
    BY <2>2, <2>3 DEF Turns, Working
<1>5. CASE F!Finish
  <2>1. Working /\ UNCHANGED <<span, R_index_1, given_1, pending>> /\ closed' = TRUE
    BY <1>5 DEF F!Finish, F!setting, Working
  <2>2. QED
    BY <2>1 DEF Turns, Working
<1>6. CASE F!EvaluateSome \/ F!DeliverEntries
  <2>1. evaluating # <<>>
    <3>1. DOMAIN <<>> = {}
      OBVIOUS
    <3>2. F!EvaluateSome => DOMAIN evaluating # {}
      BY DEF F!EvaluateSome, F!EvaluateJob
    <3>3. QED
      BY <1>6, <3>1, <3>2 DEF F!DeliverEntries
  <2>2. Working
    <3>1. ~Working => Idle
      BY DEF Turns
    <3>2. Idle => matching = <<>> /\ evaluating = <<>>
      BY DEF Idle
    <3>3. QED
      BY <2>1, <3>1, <3>2
  <2>3. UNCHANGED <<span, R_index_1, closed, given_1, pending>>
    BY <1>6 DEF F!EvaluateSome, F!EvaluateJob, F!DeliverEntries, F!setting
  <2>4. QED
    BY <2>2, <2>3 DEF Turns, Working
<1>7. CASE F!NextTable
  <2>1. /\ Idle' /\ R_index_1' = R_index_1 + 1 /\ span' = span /\ R_index_1 \in 1 .. LastTable
    BY <1>7, FreshIsIdle
  <2>2. pending' \in BOOLEAN /\ closed' \in BOOLEAN /\ given_1' \in Nat
    BY <2>1 DEF Idle
  <2>3. R_index_1' \in 1 .. LastTable + 1
    BY <2>1, Parameters
  <2>4. QED
    BY <2>1, <2>2, <2>3 DEF Turns
<1>8. QED
  BY <1>1, <1>2, <1>3, <1>4, <1>5, <1>6, <1>7 DEF F!Next

-----------------------------------------------------------------------------
(* read_thread *)

LEMMA SortedTableIs ==
    ASSUME NEW t, SortedTable(t)
    PROVE  TableSeq(ToSet(FlattenSeq(t)), FlattenSeq(t)) /\ t \in Seq(Seq(ToSet(FlattenSeq(t))))
<1> DEFINE E == FlattenSeq(t)
           R == ToSet(E)
<1>1. PICK V : /\ t \in Seq(Seq(V)) /\ \A e \in V : e.y \in Nat
               /\ \A i, j \in 1 .. Len(FlattenSeq(t)) : i <= j => FlattenSeq(t)[i].y <= FlattenSeq(t)[j].y
  BY DEF SortedTable
<1>2. E \in Seq(V)
  BY <1>1, JoinedEnds
<1>3. R = {E[i] : i \in 1 .. Len(E)}
  BY <1>2, SetOf
<1> HIDE DEF E
<1>4. E \in Seq(R)
  BY <1>2, <1>3
<1>5. R \subseteq V
  BY <1>2, <1>3
<1>6. TableSeq(R, E)
  BY <1>1, <1>4, <1>5 DEF TableSeq, E
<1>7. t \in Seq(Seq(R))
  <2>1. \A e : e \in R <=> \E n \in 1 .. Len(t) : e \in ToSet(t[n])
    BY <1>1, FlattenElements DEF E
  <2> HIDE DEF R
  <2>2. ASSUME NEW n \in 1 .. Len(t) PROVE t[n] \in Seq(R)
    <3>1. t[n] \in Seq(V)
      BY <1>1, JoinedPlaces
    <3>2. ToSet(t[n]) = {t[n][i] : i \in 1 .. Len(t[n])}
      BY <3>1, SetOf
    <3>3. ToSet(t[n]) \subseteq R
      BY <2>1
    <3>4. \A i \in 1 .. Len(t[n]) : t[n][i] \in R
      BY <3>2, <3>3
    <3>5. QED
      BY <3>1, <3>4
  <2> DEFINE W == Seq(V)
  <2>3. t \in Seq(W)
    BY <1>1
  <2> HIDE DEF W
  <2>4. DEFINE U == Seq(R)
  <2>5. \A n \in 1 .. Len(t) : t[n] \in U
    BY <2>2
  <2> HIDE DEF U
  <2>6. t \in Seq(U)
    BY <2>3, <2>5
  <2>7. QED
    BY <2>6 DEF U
<1>8. QED
  BY <1>6, <1>7 DEF E, R

LEMMA SliceStarts ==
    ASSUME NEW V, NEW E \in Seq(V), NEW s \in SliceState(V), s.heap = <<>>,
           s.index = Nothing, s.offset = Nothing, s.bucket = Nothing
    PROVE  SliceGood(V, E, s, 0)
<1> DEFINE h == s.heap
<1>1. Len(h) = 0 /\ h = <<>> /\ h \in Seq(Seq(V))
  OBVIOUS
<1>2. FlattenSeq(h) = <<>>
  <2>1. Joined(h, Len(h)) = FlattenSeq(h) /\ Joined(h, 0) = <<>>
    BY <1>1, JoinedEnds
  <2>2. QED
    BY <1>1, <2>1
<1>3. SubSeq(E, 1, 0) = <<>> /\ Len(E) \in Nat
  OBVIOUS
<1>4. Grouped(V, E, h, 0)
  <2> HIDE DEF h
  <2>1. 0 \in 0 .. Len(E) /\ 1 .. Len(h) = {}
    BY <1>1, <1>3
  <2>2. QED
    BY <1>1, <1>2, <1>3, <2>1 DEF Grouped
<1>5. Slicer(s, h)
  <2>1. Bkt(h, Len(h)) = 0 /\ Bkt(h, Len(h) - 1) = 0 /\ First(h, Len(h)) = 0
    BY <1>1 DEF Bkt, First
  <2>2. QED
    BY <1>1, <2>1 DEF Slicer, Nothing
<1>6. QED
  BY <1>4, <1>5 DEF SliceGood

Slicing ==
    Working =>
        /\ TableSeq(LeftSet, Left) /\ table \in Seq(Seq(LeftSet)) /\ blocks \in 0 .. Len(table)
        /\ SliceGood(LeftSet, Left, State, Len(Joined(table, blocks)))
        /\ closed => blocks = Len(table) /\ ~pending /\ matching = <<>>

LEMMA SlicedBlock ==
    ASSUME Slicing, Working, blocks < Len(table)
    PROVE  /\ LoopGood(LeftSet, Left, heap, F!Sliced(table[blocks + 1]), Len(Joined(table, blocks + 1)))
           /\ Len(Joined(table, blocks)) + Len(table[blocks + 1]) = Len(Joined(table, blocks + 1))
           /\ table[blocks + 1] \in Seq(LeftSet)
<1> DEFINE m == Len(Joined(table, blocks))
           b == table[blocks + 1]
<1>1. /\ TableSeq(LeftSet, Left) /\ table \in Seq(Seq(LeftSet)) /\ blocks \in 0 .. Len(table)
      /\ SliceGood(LeftSet, Left, State, m)
  BY DEF Slicing
<1>2. blocks + 1 \in 1 .. Len(table) /\ (blocks + 1) - 1 = blocks
  BY <1>1
<1>3. /\ b \in Seq(LeftSet) /\ Len(b) \in Nat /\ m \in Nat /\ Len(Left) \in Nat
      /\ Len(Joined(table, blocks + 1)) = m + Len(b) /\ m + Len(b) <= Len(Left)
      /\ \A i \in 1 .. Len(b) : Left[m + i] = b[i]
  <2> DEFINE n == blocks + 1
  <2>1. n \in 1 .. Len(table) /\ n - 1 = blocks
    BY <1>2
  <2> HIDE DEF n
  <2>2. /\ table[n] \in Seq(LeftSet) /\ Len(table[n]) \in Nat
        /\ Len(Joined(table, n - 1)) \in Nat /\ Len(FlattenSeq(table)) \in Nat
        /\ Len(Joined(table, n)) = Len(Joined(table, n - 1)) + Len(table[n])
        /\ Len(Joined(table, n)) <= Len(FlattenSeq(table))
        /\ \A i \in 1 .. Len(table[n]) : FlattenSeq(table)[Len(Joined(table, n - 1)) + i] = table[n][i]
    BY <1>1, <2>1, JoinedPlaces
  <2>3. QED
    BY <2>1, <2>2 DEF n, Left
<1> HIDE DEF m, b
<1>4. \A i \in 1 .. Len(b) : b[i] = Left[m + i]
  BY <1>3
<1>5. LoopGood(LeftSet, Left, heap, F!Sliced(b), m + Len(b))
  BY <1>1, <1>3, <1>4, SlicedIs
<1>6. QED
  BY <1>3, <1>5 DEF m, b

\* Of the state that goes on with the next block, only the pairs are given away.
LEMMA SliceTakes ==
    ASSUME NEW V, NEW E, NEW s, NEW m, SliceGood(V, E, s, m), NEW t,
           t = [index |-> s.index, offset |-> s.offset, bucket |-> s.bucket, heap |-> s.heap, out |-> <<>>]
    PROVE  SliceGood(V, E, t, m)
<1>1. s \in SliceState(V) /\ Slicer(s, s.heap) /\ Grouped(V, E, s.heap, m)
  BY DEF SliceGood
<1>2. t.index = s.index /\ t.offset = s.offset /\ t.bucket = s.bucket /\ t.heap = s.heap
  OBVIOUS
<1>3. t \in SliceState(V)
  BY <1>1 DEF SliceState
<1>4. Slicer(t, t.heap)
  BY <1>1, <1>2 DEF Slicer
<1>5. QED
  BY <1>1, <1>2, <1>3, <1>4 DEF SliceGood

slicingVars == <<R_index_1, table, blocks, L_index, L_offset, L_bucket, heap>>

LEMMA SlicingSteady ==
    ASSUME Slicing, UNCHANGED slicingVars, closed' => closed, closed => pending' = pending /\ matching' = matching
    PROVE  Slicing'
<1>1. Working' = Working /\ Left' = Left /\ LeftSet' = LeftSet /\ State' = State
  BY DEF slicingVars, Working, Left, LeftSet, State
<1>2. QED
  BY <1>1 DEF slicingVars, Slicing

LEMMA SliceSlicing ==
    ASSUME Slicing, F!SliceBlock
    PROVE  Slicing'
<1> DEFINE s == F!Sliced(table[blocks + 1])
<1>1. /\ Working /\ blocks < Len(table) /\ R_index_1' = R_index_1 /\ table' = table /\ blocks' = blocks + 1
      /\ L_index' = s.index /\ L_offset' = s.offset /\ L_bucket' = s.bucket /\ heap' = s.heap /\ closed' = closed
  BY DEF F!SliceBlock, F!setting, Working
<1>2. SliceGood(LeftSet, Left, s, Len(Joined(table, blocks + 1)))
  BY <1>1, SlicedBlock DEF LoopGood
<1> HIDE DEF s
<1>3. State' = [index |-> s.index, offset |-> s.offset, bucket |-> s.bucket, heap |-> s.heap, out |-> <<>>]
  BY <1>1 DEF State
<1>4. SliceGood(LeftSet, Left, State', Len(Joined(table, blocks + 1)))
  BY <1>2, <1>3, SliceTakes
<1>5. LeftSet' = LeftSet /\ Left' = Left /\ Working' = Working
  BY <1>1 DEF LeftSet, Left, Working
<1>6. SliceGood(LeftSet', Left', State', Len(Joined(table', blocks')))
  BY <1>1, <1>4, <1>5
<1>7. TableSeq(LeftSet, Left) /\ table \in Seq(Seq(LeftSet)) /\ blocks' \in 0 .. Len(table) /\ ~closed
  <2>1. blocks \in 0 .. Len(table) /\ Len(table) \in Nat /\ TableSeq(LeftSet, Left) /\ table \in Seq(Seq(LeftSet))
    BY <1>1 DEF Slicing
  <2>2. ~closed
    BY <1>1, <2>1 DEF Slicing
  <2>3. QED
    BY <1>1, <2>1, <2>2
<1>8. QED
  BY <1>1, <1>5, <1>6, <1>7 DEF Slicing

LEMMA NextSlicing ==
    ASSUME Turns, Slicing, F!Next, R_index_1 < LastTable => Ordered(R_sort)
    PROVE  Slicing'
<1>1. CASE F!ComputeSome
  <2>1. UNCHANGED slicingVars /\ UNCHANGED <<closed, pending, matching>>
    BY <1>1 DEF F!ComputeSome, F!ComputeF1, F!slice, slicingVars
  <2>2. QED
    BY <2>1, SlicingSteady
<1>2. CASE F!SliceBlock
  BY <1>2, SliceSlicing
<1>3. CASE F!GiveLeft
  <2>1. UNCHANGED slicingVars /\ UNCHANGED <<closed, matching>> /\ pending
    BY <1>3 DEF F!GiveLeft, F!setting, F!slice, slicingVars
  <2>2. Working
    BY <2>1 DEF Turns, Idle
  <2>3. ~closed
    BY <2>1, <2>2 DEF Slicing
  <2>4. QED
    BY <2>1, <2>3, SlicingSteady
<1>4. CASE F!WriteLeft
  <2>1. UNCHANGED slicingVars /\ UNCHANGED <<closed, pending, matching>>
    BY <1>4 DEF F!WriteLeft, F!setting, F!slice, slicingVars
  <2>2. QED
    BY <2>1, SlicingSteady
<1>5. CASE F!MatchSome \/ F!DeliverMatches
  <2>1. UNCHANGED slicingVars /\ UNCHANGED <<closed, pending>>
    <3>1. CASE F!MatchSome
      BY <3>1 DEF F!MatchSome, F!MatchPair, F!setting, F!slice, slicingVars
    <3>2. CASE F!DeliverMatches
      BY <3>2 DEF F!DeliverMatches, F!setting, F!slice, slicingVars
    <3>3. QED
      BY <1>5, <3>1, <3>2
  <2>2. matching # <<>>
    <3>1. DOMAIN <<>> = {}
      OBVIOUS
    <3>2. F!MatchSome => DOMAIN matching # {}
      BY DEF F!MatchSome, F!MatchPair
    <3>3. QED
      BY <1>5, <3>1, <3>2 DEF F!DeliverMatches
  <2>3. Working
    BY <2>2 DEF Turns, Idle
  <2>4. ~closed
    BY <2>2, <2>3 DEF Slicing
  <2>5. QED
    BY <2>1, <2>4, SlicingSteady, Zenon
<1>6. CASE F!Finish
  <2>1. /\ UNCHANGED slicingVars /\ UNCHANGED <<pending, matching>>
        /\ blocks = Len(table) /\ ~pending /\ matching = <<>>
    BY <1>6 DEF F!Finish, F!setting, F!slice, slicingVars
  <2>2. Working' = Working /\ Left' = Left /\ LeftSet' = LeftSet /\ State' = State
    BY <2>1 DEF slicingVars, Working, Left, LeftSet, State
  <2>3. QED
    BY <2>1, <2>2 DEF slicingVars, Slicing
<1>7. CASE F!EvaluateSome \/ F!DeliverEntries
  <2>1. UNCHANGED slicingVars /\ UNCHANGED <<closed, pending, matching>>
    BY <1>7 DEF F!EvaluateSome, F!EvaluateJob, F!DeliverEntries, F!setting, F!slice, slicingVars
  <2>2. QED
    BY <2>1, SlicingSteady
<1>8. CASE F!NextTable
  <2>1. /\ Idle' /\ R_index_1' = R_index_1 + 1 /\ R_index_1 \in 1 .. LastTable
        /\ table' = (IF R_index_1 < LastTable THEN F!InBlocks(R_sort) ELSE table)
    BY <1>8, FreshIsIdle
  <2>2. SUFFICES ASSUME Working' PROVE Slicing'
    BY DEF Slicing
  <2>3. R_index_1 < LastTable
    BY <2>1, <2>2, Parameters DEF Working
  <2>4. SortedTable(table')
    BY <2>1, <2>3, InBlocksIs DEF Turns
  <2>5. TableSeq(LeftSet', Left') /\ table' \in Seq(Seq(LeftSet'))
    BY <2>4, SortedTableIs DEF LeftSet, Left
  <2>6. SliceGood(LeftSet', Left', State', 0)
    <3>1. State' \in SliceState(LeftSet')
      BY <2>1 DEF Idle, State, SliceState, Nothing, Two
    <3>2. State'.heap = <<>> /\ State'.index = Nothing /\ State'.offset = Nothing /\ State'.bucket = Nothing
      BY <2>1 DEF Idle, State
    <3>3. Left' \in Seq(LeftSet')
      BY <2>5 DEF TableSeq
    <3>4. QED
      BY <3>1, <3>2, <3>3, SliceStarts
  <2>7. blocks' = 0 /\ Joined(table', 0) = <<>> /\ Len(Joined(table', 0)) = 0 /\ ~closed'
    BY <2>1, <2>5, JoinedEnds DEF Idle
  <2>8. 0 \in 0 .. Len(table')
    BY <2>5
  <2>9. QED
    BY <2>5, <2>6, <2>7, <2>8 DEF Slicing
<1>9. QED
  BY <1>1, <1>2, <1>3, <1>4, <1>5, <1>6, <1>7, <1>8 DEF F!Next

-----------------------------------------------------------------------------
(* L_write *)

AssignedJoins(s, t) == F!Assigned(s \o t) = F!Assigned(s) \o F!Assigned(t)

LEMMA AssignedIs ==
    ASSUME NEW V, NEW s \in Seq(V)
    PROVE  /\ Len(F!Assigned(s)) = Len(s) /\ DOMAIN F!Assigned(s) = 1 .. Len(s) /\ Len(s) \in Nat
           /\ \A n \in 1 .. Len(s) : F!Assigned(s)[n] = (IF R_index_1 = 2 THEN [x |-> s[n].x]
                                                         ELSE [pos |-> s[n].pos, off |-> s[n].off])
           /\ \E W : F!Assigned(s) \in Seq(W)
<1> DEFINE f(n) == IF R_index_1 = 2 THEN [x |-> s[n].x] ELSE [pos |-> s[n].pos, off |-> s[n].off]
           W == {f(n) : n \in 1 .. Len(s)}
<1>1. F!Assigned(s) = [n \in 1 .. Len(s) |-> f(n)] /\ Len(s) \in Nat
  BY DEF F!Assigned
<1>2. \A n \in 1 .. Len(s) : f(n) \in W
  OBVIOUS
<1>3. \A n \in 1 .. Len(s) : F!Assigned(s)[n] = f(n)
  BY <1>1
<1> HIDE DEF W
<1>4. F!Assigned(s) \in Seq(W) /\ Len(F!Assigned(s)) = Len(s) /\ DOMAIN F!Assigned(s) = 1 .. Len(s)
  <2> HIDE DEF f
  <2>1. QED
    BY <1>1, <1>2
<1>5. QED
  BY <1>1, <1>3, <1>4

LEMMA AssignedConcat ==
    ASSUME NEW V, NEW s \in Seq(V), NEW t \in Seq(V)
    PROVE  AssignedJoins(s, t)
<1> DEFINE f(n) == IF R_index_1 = 2 THEN [x |-> n.x] ELSE [pos |-> n.pos, off |-> n.off]
           g == [e \in V |-> f(e)]
           W == {f(e) : e \in V}
<1>1. g \in [V -> W]
  OBVIOUS
<1>2. ASSUME NEW u \in Seq(V) PROVE F!Assigned(u) = Image(u, g)
  <2>1. DOMAIN u = 1 .. Len(u) /\ \A n \in 1 .. Len(u) : u[n] \in V
    OBVIOUS
  <2>2. \A n \in 1 .. Len(u) : g[u[n]] = f(u[n])
    BY <2>1
  <2>3. F!Assigned(u) = [n \in 1 .. Len(u) |-> f(u[n])]
    BY <2>1 DEF F!Assigned
  <2> HIDE DEF f, g
  <2>4. QED
    BY <2>2, <2>3 DEF Image
<1>3. ImageJoins(s, t, g)
  BY <1>1, ImageConcat
<1>4. s \o t \in Seq(V)
  OBVIOUS
<1> HIDE DEF g, f, W
<1>5. QED
  BY <1>2, <1>3, <1>4 DEF ImageJoins, AssignedJoins

\* How many blocks L_write has written
Stored == blocks - Len(L_queue) - (IF pending THEN 1 ELSE 0)

\* What waits for L_write are the blocks between those written and those sliced.
Storing ==
    Working =>
        /\ L_queue \in Seq(Seq(LeftSet)) /\ Stored \in 0 .. blocks
        /\ \A i \in 1 .. Len(L_queue) : L_queue[i] = table[Stored + i]
        /\ L_tmp[R_index_1 - 1] = F!Assigned(Joined(table, Stored))

storingVars == <<R_index_1, table, blocks, pending, L_queue, L_tmp>>

LEMMA StoringSteady == ASSUME Storing, UNCHANGED storingVars PROVE Storing'
<1>1. /\ Working' = Working /\ LeftSet' = LeftSet /\ Stored' = Stored
      /\ F!Assigned(Joined(table, Stored))' = F!Assigned(Joined(table, Stored))
  BY DEF storingVars, Working, LeftSet, Left, Stored, F!Assigned
<1>2. QED
  BY <1>1 DEF storingVars, Storing

\* After a block was sliced, or given away
LEMMA StoringMoved ==
    ASSUME Working, Storing, UNCHANGED <<R_index_1, table, L_tmp>>, Stored' = Stored, blocks' \in Nat, blocks <= blocks', blocks \in Nat,
           L_queue' \in Seq(Seq(LeftSet)), \A i \in 1 .. Len(L_queue') : L_queue'[i] = table[Stored + i]
    PROVE  Storing'
<1>1. Working' = Working /\ LeftSet' = LeftSet
  BY DEF Working, LeftSet, Left
<1>2. F!Assigned(Joined(table', Stored')) = F!Assigned(Joined(table, Stored))
  OBVIOUS
<1>3. F!Assigned(Joined(table, Stored))' = F!Assigned(Joined(table, Stored))
  BY DEF F!Assigned
<1>4. Stored' \in 0 .. blocks'
  BY DEF Storing
<1>5. QED
  BY <1>1, <1>3, <1>4 DEF Storing

LEMMA WriteStoring ==
    ASSUME Turns, Slicing, Storing, F!WriteLeft, DOMAIN L_tmp = 1 .. LastTable - 1
    PROVE  Storing'
<1> DEFINE W == Seq(LeftSet)
           t == R_index_1 - 1
<1>1. /\ L_queue # <<>> /\ L_queue' = Tail(L_queue) /\ R_index_1' = R_index_1 /\ table' = table
      /\ blocks' = blocks /\ pending' = pending
      /\ L_tmp' = [L_tmp EXCEPT ![t] = L_tmp[t] \o F!Assigned(Head(L_queue))]
  BY DEF F!WriteLeft, F!setting
<1>2. Working
  BY <1>1 DEF Turns, Idle
<1>3. /\ L_queue \in Seq(Seq(LeftSet)) /\ Stored \in 0 .. blocks /\ table \in Seq(Seq(LeftSet)) /\ blocks \in 0 .. Len(table)
      /\ \A i \in 1 .. Len(L_queue) : L_queue[i] = table[Stored + i]
      /\ L_tmp[t] = F!Assigned(Joined(table, Stored)) /\ pending \in BOOLEAN
  BY <1>2 DEF Storing, Slicing, Turns
<1>4. t \in 1 .. LastTable - 1 /\ Len(table) \in Nat
  BY <1>2, <1>3, Parameters DEF Working
<1>5. Head(L_queue) = L_queue[1] /\ Len(L_queue) \in Nat \ {0} /\ Len(Tail(L_queue)) = Len(L_queue) - 1
      /\ Tail(L_queue) \in Seq(Seq(LeftSet)) /\ (\A i \in 1 .. Len(L_queue) - 1 : Tail(L_queue)[i] = L_queue[i + 1])
  <2>1. L_queue \in Seq(W) /\ L_queue # <<>>
    BY <1>1, <1>3
  <2> HIDE DEF W
  <2>2. /\ Head(L_queue) = L_queue[1] /\ Len(L_queue) \in Nat \ {0} /\ Len(Tail(L_queue)) = Len(L_queue) - 1
        /\ Tail(L_queue) \in Seq(W) /\ (\A i \in 1 .. Len(L_queue) - 1 : Tail(L_queue)[i] = L_queue[i + 1])
    BY <2>1
  <2>3. QED
    BY <2>2 DEF W
<1>6. Stored' = Stored + 1 /\ Stored + 1 <= blocks /\ Stored \in Nat /\ blocks \in Nat /\ Stored + 1 \in 0 .. blocks
  BY SMTT(40), <1>1, <1>3, <1>4, <1>5 DEF Stored
<1>7. L_tmp'[t] = F!Assigned(Joined(table, Stored)) \o F!Assigned(table[Stored + 1])
  <2>1. Head(L_queue) = table[Stored + 1]
    BY <1>3, <1>5
  <2>2. L_tmp'[t] = L_tmp[t] \o F!Assigned(Head(L_queue))
    BY <1>1, <1>4
  <2>3. QED
    BY <1>3, <2>1, <2>2
<1>8. F!Assigned(Joined(table, Stored + 1)) = F!Assigned(Joined(table, Stored)) \o F!Assigned(table[Stored + 1])
  <2>1. Stored \in 0 .. Len(table) - 1
    BY <1>3, <1>4, <1>6
  <2>2. /\ Joined(table, Stored) \in Seq(LeftSet) /\ table[Stored + 1] \in Seq(LeftSet)
        /\ Joined(table, Stored + 1) = Joined(table, Stored) \o table[Stored + 1]
    BY <1>3, <2>1, JoinedStep
  <2>3. AssignedJoins(Joined(table, Stored), table[Stored + 1])
    BY <2>2, AssignedConcat
  <2>4. QED
    BY <2>2, <2>3 DEF AssignedJoins
<1>9. F!Assigned(Joined(table, Stored + 1))' = F!Assigned(Joined(table', Stored' + 1))
  BY <1>1 DEF F!Assigned
<1>10. Working' = Working /\ LeftSet' = LeftSet /\ R_index_1' - 1 = t
  BY <1>1 DEF Working, LeftSet, Left
<1>11. L_tmp'[R_index_1' - 1] = F!Assigned(Joined(table, Stored))'
  <2>1. F!Assigned(Joined(table, Stored))' = F!Assigned(Joined(table, Stored + 1))
    BY <1>1, <1>6 DEF F!Assigned
  <2>2. QED
    BY <1>7, <1>8, <1>10, <2>1
<1>12. \A i \in 1 .. Len(L_queue') : L_queue'[i] = table[Stored' + i]
  <2> SUFFICES ASSUME NEW i \in 1 .. Len(L_queue') PROVE L_queue'[i] = table[Stored' + i]
    OBVIOUS
  <2>1. i \in 1 .. Len(L_queue) - 1 /\ i + 1 \in 1 .. Len(L_queue)
    BY <1>1, <1>5
  <2>2. L_queue'[i] = table[Stored + (i + 1)]
    BY <1>1, <1>3, <1>5, <2>1
  <2>3. Stored + (i + 1) = Stored' + i
    BY <1>6, <2>1
  <2>4. QED
    BY <2>2, <2>3
<1>13. QED
  BY <1>1, <1>5, <1>6, <1>10, <1>11, <1>12 DEF Storing

LEMMA NextStoring ==
    ASSUME Turns, Slicing, Storing, F!Next, DOMAIN L_tmp = 1 .. LastTable - 1,
           \A t \in 1 .. LastTable - 1 : t >= R_index_1 => L_tmp[t] = <<>>
    PROVE  Storing'
<1>1. CASE F!ComputeSome
  <2>1. UNCHANGED storingVars
    BY <1>1 DEF F!ComputeSome, F!ComputeF1, F!left, storingVars
  <2>2. QED
    BY <2>1, StoringSteady
<1>2. CASE F!SliceBlock
  <2>1. /\ Working /\ blocks < Len(table) /\ ~pending /\ blocks' = blocks + 1 /\ pending' = TRUE
        /\ UNCHANGED <<R_index_1, table, L_tmp, L_queue>>
    BY <1>2 DEF F!SliceBlock, F!setting, F!left, Working
  <2>2. /\ L_queue \in Seq(Seq(LeftSet)) /\ blocks \in Nat /\ \A i \in 1 .. Len(L_queue) : L_queue[i] = table[Stored + i]
    BY SMTT(40), <2>1 DEF Slicing, Storing
  <2>3. Stored' = Stored
    <3>1. Len(L_queue) \in Nat
      BY <2>2
    <3>2. QED
      BY <2>1, <2>2, <3>1 DEF Stored
  <2>4. blocks' \in Nat /\ blocks <= blocks'
    BY <2>1, <2>2
  <2>5. QED
    BY <2>1, <2>2, <2>3, <2>4, StoringMoved
<1>3. CASE F!GiveLeft
  <2> DEFINE W == Seq(LeftSet)
  <2>1. /\ pending /\ L_queue' = Append(L_queue, table[blocks]) /\ pending' = FALSE
        /\ UNCHANGED <<R_index_1, table, L_tmp, blocks>>
    BY <1>3 DEF F!GiveLeft, F!setting
  <2>2. Working
    BY <2>1 DEF Turns, Idle
  <2>3. /\ L_queue \in Seq(Seq(LeftSet)) /\ blocks \in 0 .. Len(table) /\ Stored \in 0 .. blocks
        /\ table \in Seq(Seq(LeftSet)) /\ \A i \in 1 .. Len(L_queue) : L_queue[i] = table[Stored + i]
    BY <2>2 DEF Slicing, Storing
  <2>4. Len(L_queue) \in Nat /\ Len(table) \in Nat /\ blocks \in Nat
    BY <2>3
  <2>5. Stored = blocks - Len(L_queue) - 1 /\ blocks >= 1 /\ Stored + (Len(L_queue) + 1) = blocks /\ blocks \in 1 .. Len(table)
    BY <2>1, <2>3, <2>4 DEF Stored
  <2>6. table[blocks] \in W /\ L_queue \in Seq(W)
    BY <2>3, <2>5, JoinedPlaces
  <2> HIDE DEF W
  <2>7. /\ L_queue' \in Seq(W) /\ Len(L_queue') = Len(L_queue) + 1 /\ L_queue'[Len(L_queue) + 1] = table[blocks]
        /\ \A i \in 1 .. Len(L_queue) : L_queue'[i] = L_queue[i]
    BY <2>1, <2>6
  <2>8. Stored' = Stored
    BY <2>1, <2>4, <2>5, <2>7 DEF Stored
  <2>9. \A i \in 1 .. Len(L_queue') : L_queue'[i] = table[Stored + i]
    <3> SUFFICES ASSUME NEW i \in 1 .. Len(L_queue') PROVE L_queue'[i] = table[Stored + i]
      OBVIOUS
    <3>1. i \in 1 .. Len(L_queue) \/ i = Len(L_queue) + 1
      BY <2>4, <2>7
    <3>2. QED
      BY <3>1, <2>3, <2>5, <2>7
  <2>10. L_queue' \in Seq(Seq(LeftSet))
    BY <2>7 DEF W
  <2>11. blocks' \in Nat /\ blocks <= blocks'
    BY <2>1, <2>4
  <2>12. QED
    BY <2>1, <2>2, <2>4, <2>8, <2>9, <2>10, <2>11, StoringMoved
<1>4. CASE F!WriteLeft
  BY <1>4, WriteStoring, Zenon
<1>5. CASE F!MatchSome \/ F!DeliverMatches \/ F!Finish
  <2>1. UNCHANGED storingVars
    <3>1. CASE F!MatchSome
      BY <3>1 DEF F!MatchSome, F!MatchPair, F!setting, F!left, storingVars
    <3>2. CASE F!DeliverMatches
      BY <3>2 DEF F!DeliverMatches, F!setting, F!left, storingVars
    <3>3. CASE F!Finish
      BY <3>3 DEF F!Finish, F!setting, F!left, storingVars
    <3>4. QED
      BY <1>5, <3>1, <3>2, <3>3
  <2>2. QED
    BY <2>1, StoringSteady
<1>6. CASE F!EvaluateSome \/ F!DeliverEntries
  <2>1. UNCHANGED storingVars
    BY <1>6 DEF F!EvaluateSome, F!EvaluateJob, F!DeliverEntries, F!setting, F!left, storingVars
  <2>2. QED
    BY <2>1, StoringSteady
<1>7. CASE F!NextTable
  <2>1. /\ Idle' /\ R_index_1' = R_index_1 + 1 /\ R_index_1 \in 1 .. LastTable /\ L_tmp' = L_tmp
    BY <1>7, FreshIsIdle
  <2>2. SUFFICES ASSUME Working' PROVE Storing'
    BY DEF Storing
  <2>3. R_index_1 \in 1 .. LastTable - 1 /\ R_index_1' - 1 = R_index_1
    BY <2>1, <2>2, Parameters DEF Working
  <2>4. L_tmp'[R_index_1' - 1] = <<>>
    BY <2>1, <2>3
  <2>5. blocks' = 0 /\ L_queue' = <<>> /\ pending' = FALSE /\ Stored' = 0
    <3>1. blocks' = 0 /\ L_queue' = <<>> /\ pending' = FALSE
      BY <2>1 DEF Idle
    <3>2. Len(L_queue') = 0
      BY <3>1
    <3>3. Stored' = blocks' - Len(L_queue') - (IF pending' THEN 1 ELSE 0)
      BY DEF Stored
    <3>4. Stored' = 0 - 0 - 0
      <4>1. (IF pending' THEN 1 ELSE 0) = 0
        BY <3>1
      <4> DEFINE d == IF pending' THEN 1 ELSE 0
      <4>2. d = 0 /\ Stored' = blocks' - Len(L_queue') - d
        BY <3>3, <4>1
      <4> HIDE DEF d
      <4>3. QED
        BY <3>1, <3>2, <4>2
    <3>5. QED
      BY <3>1, <3>4
  <2>6. Joined(table', 0) = <<>>
    BY DEF Joined, SubSeq, FlattenSeq, FoldSeq
  <2>7. F!Assigned(Joined(table, Stored))' = <<>>
    BY <2>5, <2>6 DEF F!Assigned
  <2>8. L_queue' \in Seq(Seq(LeftSet')) /\ Len(L_queue') = 0
    BY <2>5
  <2>9. QED
    BY <2>4, <2>5, <2>7, <2>8 DEF Storing
<1>8. QED
  BY <1>1, <1>2, <1>3, <1>4, <1>5, <1>6, <1>7 DEF F!Next

-----------------------------------------------------------------------------
(* The files of the tables *)

LeadsInto(e, n) == e.pos \in Nat /\ e.off \in Nat /\ e.pos + e.off < n

\* The positions in a file lead into the file before it, those of the left table
\* into the last complete one.
Files ==
    /\ DOMAIN L_tmp = 1 .. LastTable - 1
    /\ \A t \in 1 .. LastTable - 1 : Len(L_tmp[t]) \in Nat /\ (t >= R_index_1 => L_tmp[t] = <<>>)
    /\ \A t \in 2 .. LastTable - 1 : \A n \in 1 .. Len(L_tmp[t]) : LeadsInto(L_tmp[t][n], Len(L_tmp[t - 1]))
    /\ R_index_1 \in 3 .. LastTable => \A e \in LeftSet : LeadsInto(e, Len(L_tmp[R_index_1 - 2]))

LEMMA InitFiles == F!Init => Files
<1> SUFFICES ASSUME F!Init PROVE Files
  OBVIOUS
<1>1. R_index_1 = 1 /\ L_tmp = [t \in 1 .. LastTable - 1 |-> <<>>]
  BY DEF F!Init
<1>2. \A t \in 1 .. LastTable - 1 : L_tmp[t] = <<>> /\ Len(L_tmp[t]) = 0
  BY <1>1
<1>3. \A t \in 2 .. LastTable - 1 : t \in 1 .. LastTable - 1 /\ 1 .. Len(L_tmp[t]) = {}
  BY <1>2, Parameters
<1>4. R_index_1 \notin 3 .. LastTable /\ DOMAIN L_tmp = 1 .. LastTable - 1
  BY <1>1
<1>5. QED
  BY <1>2, <1>3, <1>4 DEF Files

filesVars == <<R_index_1, table, L_tmp>>

LEMMA FilesSteady == ASSUME Files, UNCHANGED filesVars PROVE Files'
BY DEF Files, filesVars, LeftSet, Left

\* When the left table is complete, its file has its entries in their places.
LEMMA LeftComplete ==
    ASSUME Turns, Slicing, Storing, closed, L_queue = <<>>
    PROVE  Working /\ L_tmp[R_index_1 - 1] = F!Assigned(Left) /\ Len(L_tmp[R_index_1 - 1]) = Len(Left) /\ Len(Left) \in Nat
<1>1. Working
  BY DEF Turns, Idle
<1>2. /\ blocks = Len(table) /\ ~pending /\ table \in Seq(Seq(LeftSet)) /\ Left \in Seq(LeftSet)
      /\ L_tmp[R_index_1 - 1] = F!Assigned(Joined(table, Stored))
  BY <1>1 DEF Slicing, Storing, TableSeq
<1>3. Stored = Len(table)
  <2>1. Len(L_queue) = 0 /\ Len(table) \in Nat
    BY <1>2
  <2>2. QED
    BY <1>2, <2>1 DEF Stored
<1>4. Joined(table, Len(table)) = Left
  BY <1>2, JoinedEnds DEF Left
<1>5. Len(F!Assigned(Left)) = Len(Left) /\ Len(Left) \in Nat
  BY <1>2, AssignedIs
<1>6. QED
  BY <1>1, <1>2, <1>3, <1>4, <1>5

LEMMA WriteFiles ==
    ASSUME Turns, Slicing, Storing, Files, F!WriteLeft
    PROVE  Files'
<1> DEFINE t == R_index_1 - 1
           s == Joined(table, Stored')
<1>1. L_queue # <<>> /\ R_index_1' = R_index_1 /\ table' = table /\ blocks' = blocks
      /\ L_tmp' = [L_tmp EXCEPT ![t] = L_tmp[t] \o F!Assigned(Head(L_queue))]
  BY DEF F!WriteLeft, F!setting
<1>2. Working /\ R_index_1 \in 2 .. LastTable
  BY <1>1 DEF Turns, Idle, Working
<1>3. t \in 1 .. LastTable - 1 /\ ~(t >= R_index_1)
  BY <1>2, Parameters
<1>4. Storing' /\ Working' /\ R_index_1' - 1 = t
  BY <1>1, <1>2, WriteStoring DEF Working, Files
<1>5. L_tmp'[t] = F!Assigned(s) /\ Stored' \in 0 .. blocks
  <2>1. L_tmp'[R_index_1' - 1] = F!Assigned(Joined(table, Stored))' /\ Stored' \in 0 .. blocks'
    BY <1>4 DEF Storing
  <2>2. F!Assigned(Joined(table, Stored))' = F!Assigned(s)
    BY <1>1 DEF F!Assigned
  <2>3. QED
    BY <1>1, <1>4, <2>1, <2>2
<1>6. /\ s \in Seq(LeftSet) /\ table \in Seq(Seq(LeftSet))
  <2>1. table \in Seq(Seq(LeftSet)) /\ blocks \in 0 .. Len(table) /\ Len(table) \in Nat
    BY <1>2 DEF Slicing
  <2>2. Stored' \in 0 .. Len(table)
    BY <1>5, <2>1
  <2>3. QED
    BY <2>1, <2>2, JoinedPrefix
<1> HIDE DEF s
<1>7. /\ Len(L_tmp'[t]) = Len(s) /\ Len(s) \in Nat
      /\ \A n \in 1 .. Len(s) : L_tmp'[t][n] = (IF R_index_1 = 2 THEN [x |-> s[n].x] ELSE [pos |-> s[n].pos, off |-> s[n].off])
  BY <1>5, <1>6, AssignedIs
<1>8. DOMAIN L_tmp' = 1 .. LastTable - 1 /\ \A u \in 1 .. LastTable - 1 : u # t => L_tmp'[u] = L_tmp[u]
  BY <1>1 DEF Files
<1>9. \A u \in 1 .. LastTable - 1 : Len(L_tmp'[u]) \in Nat /\ (u >= R_index_1 => L_tmp'[u] = <<>>)
  BY <1>3, <1>7, <1>8 DEF Files
<1>10. LeftSet' = LeftSet
  BY <1>1 DEF LeftSet, Left
<1>11. R_index_1' \in 3 .. LastTable => \A e \in LeftSet' : LeadsInto(e, Len(L_tmp'[R_index_1' - 2]))
  <2> SUFFICES ASSUME R_index_1 \in 3 .. LastTable PROVE \A e \in LeftSet : LeadsInto(e, Len(L_tmp'[R_index_1 - 2]))
    BY <1>1, <1>10
  <2>1. R_index_1 - 2 \in 1 .. LastTable - 1 /\ R_index_1 - 2 # t
    BY Parameters
  <2>2. QED
    BY <1>8, <2>1 DEF Files
<1>12. ASSUME NEW u \in 2 .. LastTable - 1, NEW n \in 1 .. Len(L_tmp'[u]) PROVE LeadsInto(L_tmp'[u][n], Len(L_tmp'[u - 1]))
  <2>1. u \in 1 .. LastTable - 1 /\ u - 1 \in 1 .. LastTable - 1
    BY Parameters
  <2>2. CASE u = t
    <3>1. R_index_1 \in 3 .. LastTable /\ u - 1 = R_index_1 - 2 /\ u - 1 # t /\ R_index_1 # 2
      BY <1>2, <2>2
    <3>2. n \in 1 .. Len(s) /\ s[n] \in LeftSet
      BY <1>6, <1>7, <2>2
    <3>3. LeadsInto(s[n], Len(L_tmp[R_index_1 - 2]))
      BY <3>1, <3>2 DEF Files
    <3>4. L_tmp'[u][n] = [pos |-> s[n].pos, off |-> s[n].off]
      BY <1>7, <2>2, <3>1, <3>2
    <3>5. L_tmp'[u - 1] = L_tmp[R_index_1 - 2]
      BY <1>8, <2>1, <3>1
    <3>6. QED
      BY <3>3, <3>4, <3>5 DEF LeadsInto
  <2>3. CASE u # t /\ u - 1 # t
    BY <1>8, <2>1, <2>3 DEF Files
  <2>4. CASE u - 1 = t
    <3>1. u >= R_index_1 /\ u # t
      BY <2>4, <1>2
    <3>2. Len(L_tmp'[u]) = 0
      BY <1>8, <2>1, <3>1 DEF Files
    <3>3. QED
      BY <3>2
  <2>5. QED
    BY <2>2, <2>3, <2>4
<1>13. QED
  BY <1>1, <1>8, <1>9, <1>11, <1>12 DEF Files

LEMMA NextFiles ==
    ASSUME Turns, Slicing, Storing, Files, F!Next, R_index_1 < LastTable => Ordered(R_sort),
           R_index_1 \in 2 .. LastTable - 1 => \A e \in R_sort : LeadsInto(e, Len(Left))
    PROVE  Files'
<1>1. CASE F!ComputeSome
  <2>1. UNCHANGED filesVars
    BY <1>1 DEF F!ComputeSome, F!ComputeF1, F!left, filesVars
  <2>2. QED
    BY <2>1, FilesSteady
<1>2. CASE F!SliceBlock \/ F!GiveLeft
  <2>1. UNCHANGED filesVars
    BY <1>2 DEF F!SliceBlock, F!GiveLeft, F!setting, F!left, filesVars
  <2>2. QED
    BY <2>1, FilesSteady
<1>3. CASE F!WriteLeft
  BY <1>3, WriteFiles, Zenon
<1>4. CASE F!MatchSome \/ F!DeliverMatches \/ F!Finish
  <2>1. UNCHANGED filesVars
    <3>1. CASE F!MatchSome
      BY <3>1 DEF F!MatchSome, F!MatchPair, F!setting, F!left, filesVars
    <3>2. CASE F!DeliverMatches
      BY <3>2 DEF F!DeliverMatches, F!setting, F!left, filesVars
    <3>3. CASE F!Finish
      BY <3>3 DEF F!Finish, F!setting, F!left, filesVars
    <3>4. QED
      BY <1>4, <3>1, <3>2, <3>3
  <2>2. QED
    BY <2>1, FilesSteady
<1>5. CASE F!EvaluateSome \/ F!DeliverEntries
  <2>1. UNCHANGED filesVars
    BY <1>5 DEF F!EvaluateSome, F!EvaluateJob, F!DeliverEntries, F!setting, F!left, filesVars
  <2>2. QED
    BY <2>1, FilesSteady
<1>6. CASE F!NextTable
  <2>1. /\ Idle' /\ R_index_1' = R_index_1 + 1 /\ R_index_1 \in 1 .. LastTable /\ L_tmp' = L_tmp
        /\ table' = (IF R_index_1 < LastTable THEN F!InBlocks(R_sort) ELSE table)
        /\ R_index_1 # 1 => F!TableComplete
    BY <1>6, FreshIsIdle
  <2>2. R_index_1' \in 3 .. LastTable => \A e \in LeftSet' : LeadsInto(e, Len(L_tmp'[R_index_1' - 2]))
    <3> SUFFICES ASSUME R_index_1' \in 3 .. LastTable, NEW e \in LeftSet' PROVE LeadsInto(e, Len(L_tmp'[R_index_1' - 2]))
      OBVIOUS
    <3>1. R_index_1 \in 2 .. LastTable - 1 /\ R_index_1' - 2 = R_index_1 - 1 /\ R_index_1 < LastTable
      BY <2>1, Parameters
    <3>2. closed /\ L_queue = <<>>
      BY <2>1, <3>1 DEF F!TableComplete
    <3>3. Len(L_tmp[R_index_1 - 1]) = Len(Left)
      BY <3>2, LeftComplete
    <3>4. table' \in Seq(Seq(R_sort))
      BY <2>1, <3>1, InBlocksIs DEF Turns
    <3>5. e \in R_sort
      <4>1. Left' \in Seq(R_sort)
        BY <3>4, JoinedEnds DEF Left
      <4>2. LeftSet' = {Left'[i] : i \in 1 .. Len(Left')}
        BY <4>1, SetOf DEF LeftSet
      <4>3. QED
        BY <4>1, <4>2
    <3>6. QED
      BY <2>1, <3>1, <3>3, <3>5
  <2>3. \A t \in 1 .. LastTable - 1 : t >= R_index_1' => t >= R_index_1
    BY <2>1
  <2>4. QED
    BY <2>1, <2>2, <2>3 DEF Files
<1>7. QED
  BY <1>1, <1>2, <1>3, <1>4, <1>5, <1>6 DEF F!Next

-----------------------------------------------------------------------------
(* match_pool *)

Jobs(h, E) == [worker : F!Worker, pairs : Seq(GoodPairs(h)), out : Seq(Real(E))]

JobOut(h, j) == j.out \o Fitting(Raws(h, j.pairs))

Outs(h, ms) == [n \in 1 .. Len(ms) |-> JobOut(h, ms[n])]

Owed(h, ms) == [n \in 1 .. Len(ms) |-> Raws(h, ms[n].pairs)]

\* What was delivered, and what the jobs have found and have still to find, are
\* together what the first c vectors of the heap give, in order; and no match of
\* the jobs' pairs is counted yet.
Matched(E, h, c, ms, done, found) ==
    /\ ms \in Seq(Jobs(h, E)) /\ done \in Seq(Real(E)) /\ found \in Nat
    /\ done \o FlattenSeq(Outs(h, ms)) = Fitting(AllRaw(h, c))
    /\ found + Len(FlattenSeq(Owed(h, ms))) = Len(AllRaw(h, c))

LEMMA JobTyped ==
    ASSUME NEW V, NEW E, NEW h, NEW m, TableSeq(V, E), Grouped(V, E, h, m), NEW j \in Jobs(h, E)
    PROVE  /\ j.pairs \in Seq(GoodPairs(h)) /\ j.out \in Seq(Real(E)) /\ Raws(h, j.pairs) \in Seq(Real(E))
           /\ Fitting(Raws(h, j.pairs)) \in Seq(Real(E)) /\ JobOut(h, j) \in Seq(Real(E))
<1>1. j.pairs \in Seq(GoodPairs(h)) /\ j.out \in Seq(Real(E))
  BY DEF Jobs
<1>2. \A p \in GoodPairs(h) : RawOf(h, p) \in Seq(Real(E))
  BY GoodRaw
<1>3. Raws(h, j.pairs) \in Seq(Real(E))
  BY <1>1, <1>2, RawsAre
<1>4. Fitting(Raws(h, j.pairs)) \in Seq(Real(E))
  BY <1>3, FittingIs
<1> DEFINE o == j.out
           f == Fitting(Raws(h, j.pairs))
<1>5. o \o f \in Seq(Real(E))
  <2> HIDE DEF o, f
  <2>1. o \in Seq(Real(E)) /\ f \in Seq(Real(E))
    BY <1>1, <1>4 DEF o, f
  <2>2. QED
    BY <2>1
<1>6. QED
  BY <1>1, <1>3, <1>4, <1>5 DEF JobOut

LEMMA JobsTyped ==
    ASSUME NEW V, NEW E, NEW h, NEW m, TableSeq(V, E), Grouped(V, E, h, m), NEW ms \in Seq(Jobs(h, E))
    PROVE  /\ Outs(h, ms) \in Seq(Seq(Real(E))) /\ Len(Outs(h, ms)) = Len(ms) /\ Len(ms) \in Nat
           /\ Owed(h, ms) \in Seq(Seq(Real(E))) /\ Len(Owed(h, ms)) = Len(ms)
           /\ \A n \in 1 .. Len(ms) : Outs(h, ms)[n] = JobOut(h, ms[n]) /\ Owed(h, ms)[n] = Raws(h, ms[n].pairs)
<1> DEFINE W == Seq(Real(E))
<1>1. \A n \in 1 .. Len(ms) : ms[n] \in Jobs(h, E)
  OBVIOUS
<1>2. \A n \in 1 .. Len(ms) : JobOut(h, ms[n]) \in W /\ Raws(h, ms[n].pairs) \in W
  BY <1>1, JobTyped
<1>3. Len(ms) \in Nat
  OBVIOUS
<1> HIDE DEF W
<1>4. Outs(h, ms) \in Seq(W) /\ Len(Outs(h, ms)) = Len(ms)
  BY <1>2, <1>3 DEF Outs
<1>5. Owed(h, ms) \in Seq(W) /\ Len(Owed(h, ms)) = Len(ms)
  BY <1>2, <1>3 DEF Owed
<1>6. QED
  BY <1>3, <1>4, <1>5 DEF Outs, Owed, W

\* A job more
JobsGrow(h, ms, j) ==
    /\ Outs(h, Append(ms, j)) = Append(Outs(h, ms), JobOut(h, j))
    /\ Owed(h, Append(ms, j)) = Append(Owed(h, ms), Raws(h, j.pairs))

LEMMA JobsAppend ==
    ASSUME NEW J, NEW h, NEW ms \in Seq(J), NEW j \in J
    PROVE  JobsGrow(h, ms, j)
<1> DEFINE t == Append(ms, j)
<1>1. /\ Len(t) = Len(ms) + 1 /\ Len(ms) \in Nat /\ t[Len(ms) + 1] = j
      /\ \A n \in 1 .. Len(ms) : t[n] = ms[n]
  OBVIOUS
<1> HIDE DEF t
<1>2. Len(Outs(h, ms)) = Len(ms) /\ Len(Owed(h, ms)) = Len(ms)
  BY <1>1 DEF Outs, Owed
<1>5. Outs(h, t) = Append(Outs(h, ms), JobOut(h, j))
  <2>1. Outs(h, ms) = [n \in 1 .. Len(ms) |-> JobOut(h, t[n])]
    BY <1>1 DEF Outs
  <2> DEFINE r == Outs(h, ms)
  <2>2. \A n \in 1 .. Len(ms) : r[n] = JobOut(h, t[n])
    BY <2>1
  <2>3. Outs(h, t) = [n \in 1 .. Len(ms) + 1 |-> JobOut(h, t[n])] /\ JobOut(h, t[Len(ms) + 1]) = JobOut(h, j)
    BY <1>1 DEF Outs
  <2>4. Len(r) = Len(ms) /\ r = [n \in 1 .. Len(ms) |-> JobOut(h, t[n])]
    BY <1>2, <2>1
  <2> HIDE DEF r
  <2>5. QED
    BY <1>1, <2>2, <2>3, <2>4 DEF r
<1>6. Owed(h, t) = Append(Owed(h, ms), Raws(h, j.pairs))
  <2>1. Owed(h, ms) = [n \in 1 .. Len(ms) |-> Raws(h, t[n].pairs)]
    BY <1>1 DEF Owed
  <2> DEFINE r == Owed(h, ms)
  <2>2. \A n \in 1 .. Len(ms) : r[n] = Raws(h, t[n].pairs)
    BY <2>1
  <2>3. Owed(h, t) = [n \in 1 .. Len(ms) + 1 |-> Raws(h, t[n].pairs)] /\ Raws(h, t[Len(ms) + 1].pairs) = Raws(h, j.pairs)
    BY <1>1 DEF Owed
  <2>4. Len(r) = Len(ms) /\ r = [n \in 1 .. Len(ms) |-> Raws(h, t[n].pairs)]
    BY <1>2, <2>1
  <2> HIDE DEF r
  <2>5. QED
    BY <1>1, <2>2, <2>3, <2>4 DEF r
<1>7. QED
  BY <1>5, <1>6 DEF JobsGrow, t

\* The jobs of an earlier heap
LEMMA JobsKept ==
    ASSUME NEW E, NEW h, NEW g, Extends(h, g), Len(h) \in Nat, Len(g) \in Nat, NEW ms \in Seq(Jobs(h, E))
    PROVE  ms \in Seq(Jobs(g, E)) /\ Outs(g, ms) = Outs(h, ms) /\ Owed(g, ms) = Owed(h, ms)
<1> DEFINE J == Jobs(h, E)
           I == Jobs(g, E)
<1>1. \A n \in 1 .. Len(ms) : ms[n] \in J
  OBVIOUS
<1>2. ASSUME NEW n \in 1 .. Len(ms)
      PROVE  ms[n] \in I /\ JobOut(g, ms[n]) = JobOut(h, ms[n]) /\ Raws(g, ms[n].pairs) = Raws(h, ms[n].pairs)
  <2>1. ms[n].pairs \in Seq(GoodPairs(h)) /\ ms[n].out \in Seq(Real(E)) /\ ms[n].worker \in F!Worker
        /\ ms[n] = [worker |-> ms[n].worker, pairs |-> ms[n].pairs, out |-> ms[n].out]
    BY <1>1 DEF Jobs
  <2>2. Raws(g, ms[n].pairs) = Raws(h, ms[n].pairs) /\ ms[n].pairs \in Seq(GoodPairs(g))
    BY <2>1, RawsSame
  <2>3. ms[n] \in I
    BY <2>1, <2>2 DEF Jobs
  <2>4. QED
    BY <2>2, <2>3 DEF JobOut
<1>3. ms \in Seq(J)
  OBVIOUS
<1> HIDE DEF I, J
<1>4. ms \in Seq(I)
  BY <1>2, <1>3
<1>5. Outs(g, ms) = Outs(h, ms) /\ Owed(g, ms) = Owed(h, ms)
  BY <1>2 DEF Outs, Owed
<1>6. QED
  BY <1>4, <1>5 DEF I

LEMMA TakenMatched ==
    ASSUME NEW V, NEW E, NEW h, NEW s, NEW l, NEW m, TableSeq(V, E), Grouped(V, E, h, l), LoopGood(V, E, h, s, m),
           NEW ms, NEW done, NEW found, Matched(E, h, Full(h), ms, done, found),
           NEW w \in F!Worker, NEW j, j = [worker |-> w, pairs |-> s.out, out |-> <<>>]
    PROVE  Matched(E, s.heap, Full(s.heap), Append(ms, j), done, found)
<1> DEFINE g == s.heap
           T == Real(E)
           r == Raws(g, s.out)
           A == AllRaw(h, Full(h))
           B == AllRaw(g, Full(g))
<1>1. /\ Grouped(V, E, g, m) /\ Extends(h, g) /\ s.out \in Seq(GoodPairs(g)) /\ B = A \o r
  BY DEF LoopGood, SliceGood
<1>2. A \in Seq(T) /\ B \in Seq(T) /\ Len(h) \in Nat /\ Len(g) \in Nat
  BY <1>1, AllRawTyped
<1>3. /\ ms \in Seq(Jobs(h, E)) /\ done \in Seq(T) /\ found \in Nat
      /\ done \o FlattenSeq(Outs(h, ms)) = Fitting(A)
      /\ found + Len(FlattenSeq(Owed(h, ms))) = Len(A)
  BY DEF Matched
<1> HIDE DEF T
<1>4. ms \in Seq(Jobs(g, E)) /\ Outs(g, ms) = Outs(h, ms) /\ Owed(g, ms) = Owed(h, ms)
  BY <1>1, <1>2, <1>3, JobsKept DEF T
<1>5. j \in Jobs(g, E)
  <2>1. <<>> \in Seq(Real(E))
    OBVIOUS
  <2>2. QED
    BY <1>1, <2>1 DEF Jobs
<1>6. r \in Seq(T) /\ Fitting(r) \in Seq(T) /\ j.pairs = s.out /\ JobOut(g, j) = <<>> \o Fitting(r)
  BY <1>1, <1>5, JobTyped DEF T, JobOut
<1>7. JobOut(g, j) = Fitting(r)
  <2> DEFINE f == Fitting(r)
  <2>1. f \in Seq(T)
    BY <1>6
  <2> HIDE DEF f
  <2>2. <<>> \o f = f
    BY <2>1
  <2>3. QED
    BY <1>6, <2>2 DEF f
<1>8. /\ Outs(g, Append(ms, j)) = Append(Outs(h, ms), Fitting(r))
      /\ Owed(g, Append(ms, j)) = Append(Owed(h, ms), r)
  <2>1. JobsGrow(g, ms, j)
    BY <1>4, <1>5, JobsAppend
  <2>2. QED
    BY <1>4, <1>6, <1>7, <2>1 DEF JobsGrow
<1>9. Outs(h, ms) \in Seq(Seq(T)) /\ Owed(h, ms) \in Seq(Seq(T))
  BY <1>3, JobsTyped DEF T
<1>10. /\ FlattenSeq(Outs(h, ms)) \in Seq(T) /\ FlattenSeq(Append(Outs(h, ms), Fitting(r))) = FlattenSeq(Outs(h, ms)) \o Fitting(r)
  BY <1>6, <1>9, FlattenLast
<1>11. /\ FlattenSeq(Owed(h, ms)) \in Seq(T) /\ FlattenSeq(Append(Owed(h, ms), r)) = FlattenSeq(Owed(h, ms)) \o r
  BY <1>6, <1>9, FlattenLast
<1>12. Fitting(B) = Fitting(A) \o Fitting(r)
  <2>1. FittingJoins(A, r)
    BY <1>2, <1>6, FittingConcat
  <2>2. QED
    BY <1>1, <2>1 DEF FittingJoins
<1> HIDE DEF g, r, A, B
<1>13. done \o FlattenSeq(Outs(g, Append(ms, j))) = Fitting(B)
  <2> DEFINE o == FlattenSeq(Outs(h, ms))
             f == Fitting(r)
  <2>1. (done \o o) \o f = done \o (o \o f)
    <3>1. o \in Seq(T) /\ f \in Seq(T) /\ done \in Seq(T)
      BY <1>3, <1>6, <1>10
    <3> HIDE DEF o, f
    <3>2. QED
      BY <3>1, ConcatThree
  <2>2. QED
    BY <1>3, <1>8, <1>10, <1>12, <2>1
<1>14. found + Len(FlattenSeq(Owed(g, Append(ms, j)))) = Len(B)
  <2> DEFINE o == FlattenSeq(Owed(h, ms))
  <2>1. o \in Seq(T) /\ r \in Seq(T) /\ A \in Seq(T)
    BY <1>2, <1>6, <1>11
  <2> HIDE DEF o
  <2>2. Len(o \o r) = Len(o) + Len(r) /\ Len(A \o r) = Len(A) + Len(r) /\ Len(o) \in Nat /\ Len(r) \in Nat /\ Len(A) \in Nat
    BY <2>1
  <2>3. found + Len(o) = Len(A) /\ B = A \o r /\ FlattenSeq(Owed(g, Append(ms, j))) = o \o r
    BY <1>1, <1>3, <1>8, <1>11 DEF o, A, r, B, g
  <2>4. Len(B) = Len(A) + Len(r) /\ Len(FlattenSeq(Owed(g, Append(ms, j)))) = Len(o) + Len(r)
    BY <2>2, <2>3
  <2> DEFINE x == Len(FlattenSeq(Owed(g, Append(ms, j))))
             y == Len(o)
             z == Len(r)
             a == Len(A)
             b == Len(B)
  <2>5. b = a + z /\ x = y + z /\ found + y = a /\ found \in Nat /\ y \in Nat /\ z \in Nat /\ a \in Nat
    BY <1>3, <2>2, <2>3, <2>4
  <2> HIDE DEF x, y, z, a, b
  <2>6. found + x = b
    BY <2>5
  <2>7. QED
    BY <2>6 DEF x, b
<1>15. Append(ms, j) \in Seq(Jobs(g, E))
  <2> DEFINE J == Jobs(g, E)
  <2>1. ms \in Seq(J) /\ j \in J
    BY <1>4, <1>5
  <2> HIDE DEF J
  <2>2. Append(ms, j) \in Seq(J)
    BY <2>1
  <2>3. QED
    BY <2>2 DEF J
<1>16. QED
  BY <1>3, <1>13, <1>14, <1>15 DEF Matched, g, B, T

\* A job that has gone through one of its pairs more
Forth(h, j) == [j EXCEPT !.pairs = Tail(@), !.out = @ \o Fitting(RawOf(h, Head(j.pairs)))]

LEMMA JobSteps ==
    ASSUME NEW V, NEW E, NEW h, NEW m, TableSeq(V, E), Grouped(V, E, h, m), NEW j \in Jobs(h, E), j.pairs # <<>>
    PROVE  /\ Head(j.pairs) \in GoodPairs(h) /\ RawOf(h, Head(j.pairs)) \in Seq(Real(E))
           /\ Forth(h, j) \in Jobs(h, E) /\ JobOut(h, Forth(h, j)) = JobOut(h, j)
           /\ Len(Raws(h, j.pairs)) = Len(Raws(h, Forth(h, j).pairs)) + Len(RawOf(h, Head(j.pairs)))
<1> DEFINE T == Real(E)
           P == GoodPairs(h)
           p == Head(j.pairs)
           q == Tail(j.pairs)
           r == RawOf(h, p)
           o == j.out
           i == Forth(h, j)
<1>1. /\ j.pairs \in Seq(P) /\ o \in Seq(T) /\ j.worker \in F!Worker
      /\ j = [worker |-> j.worker, pairs |-> j.pairs, out |-> o]
  BY DEF Jobs
<1>2. p \in P /\ q \in Seq(P) /\ <<p>> \in Seq(P) /\ j.pairs = <<p>> \o q
  <2> HIDE DEF P
  <2>1. QED
    BY <1>1
<1>3. /\ \A x \in P : RawOf(h, x) \in Seq(T)
  BY GoodRaw
<1>4. r \in Seq(T) /\ Raws(h, q) \in Seq(T) /\ Raws(h, <<p>>) = r
  <2>1. r \in Seq(T)
    BY <1>2, <1>3
  <2>2. Raws(h, q) \in Seq(T)
    BY <1>2, <1>3, RawsAre
  <2>3. QED
    BY <2>1, <2>2, RawsOne
<1>5. Raws(h, j.pairs) = r \o Raws(h, q)
  <2>1. RawsJoin(h, <<p>>, q)
    BY <1>2, <1>3, RawsConcat
  <2>2. QED
    BY <1>2, <1>4, <2>1 DEF RawsJoin
<1>6. Fitting(r) \in Seq(T) /\ Fitting(Raws(h, q)) \in Seq(T)
  BY <1>4, FittingIs
<1>7. Fitting(Raws(h, j.pairs)) = Fitting(r) \o Fitting(Raws(h, q))
  <2>1. FittingJoins(r, Raws(h, q))
    BY <1>4, FittingConcat
  <2>2. QED
    BY <1>5, <2>1 DEF FittingJoins
<1> DEFINE a == Fitting(r)
           b == Fitting(Raws(h, q))
<1>8. i.pairs = q /\ i.out = o \o a /\ i = [worker |-> j.worker, pairs |-> q, out |-> o \o a]
  <2> HIDE DEF a, o, q
  <2>1. i = [j EXCEPT !.pairs = q, !.out = o \o a]
    BY DEF a, o, q, Forth
  <2> HIDE DEF i
  <2>2. QED
    BY <1>1, <2>1
<1>9. o \o a \in Seq(T) /\ (o \o a) \o b = o \o (a \o b)
  <2> HIDE DEF o, a, b, T
  <2>1. o \in Seq(T) /\ a \in Seq(T) /\ b \in Seq(T)
    BY <1>1, <1>6 DEF a, b
  <2>2. QED
    BY <2>1, ConcatThree
<1>10. i \in Jobs(h, E)
  BY <1>1, <1>2, <1>8, <1>9 DEF Jobs
<1>11. JobOut(h, i) = JobOut(h, j)
  BY <1>7, <1>8, <1>9 DEF JobOut
<1>12. Len(Raws(h, j.pairs)) = Len(Raws(h, q)) + Len(r)
  <2> DEFINE c == Raws(h, q)
  <2>1. r \in Seq(T) /\ c \in Seq(T) /\ Raws(h, j.pairs) = r \o c
    BY <1>4, <1>5
  <2> HIDE DEF r, c, T
  <2>2. Len(r \o c) = Len(c) + Len(r)
    BY <2>1
  <2>3. QED
    BY <2>1, <2>2 DEF c
<1>13. QED
  BY <1>2, <1>4, <1>8, <1>10, <1>11, <1>12

LEMMA SteppedMatched ==
    ASSUME NEW V, NEW E, NEW h, NEW m, TableSeq(V, E), Grouped(V, E, h, m),
           NEW c, NEW ms, NEW done, NEW found, Matched(E, h, c, ms, done, found),
           NEW n \in 1 .. Len(ms), ms[n].pairs # <<>>, NEW p, p = Head(ms[n].pairs),
           NEW ns, ns = [ms EXCEPT ![n] = Forth(h, ms[n])]
    PROVE  p \in GoodPairs(h) /\ Matched(E, h, c, ns, done, found + Len(RawOf(h, p)))
<1> DEFINE J == Jobs(h, E)
           i == Forth(h, ms[n])
           T == Real(E)
<1>0. TableSeq(V, E) /\ Grouped(V, E, h, m) /\ n \in 1 .. Len(ms)
  OBVIOUS
<1>1. /\ ms \in Seq(J) /\ done \in Seq(T) /\ found \in Nat
      /\ done \o FlattenSeq(Outs(h, ms)) = Fitting(AllRaw(h, c))
      /\ found + Len(FlattenSeq(Owed(h, ms))) = Len(AllRaw(h, c))
  BY DEF Matched
<1>2. ms[n] \in J
  BY <1>1
<1>3. /\ p \in GoodPairs(h) /\ RawOf(h, p) \in Seq(T) /\ i \in J /\ JobOut(h, i) = JobOut(h, ms[n])
      /\ Len(Raws(h, ms[n].pairs)) = Len(Raws(h, i.pairs)) + Len(RawOf(h, p))
  BY <1>2, JobSteps
<1>4. ns = [ms EXCEPT ![n] = i]
  OBVIOUS
<1>14. i \in J /\ ms \in Seq(J) /\ ms[n] \in J
  BY <1>1, <1>2, <1>3
<1> HIDE DEF i, J
<1>5. ns \in Seq(J) /\ Len(ns) = Len(ms) /\ ns[n] = i /\ \A l \in 1 .. Len(ms) : l # n => ns[l] = ms[l]
  BY ONLY <1>0, <1>4, <1>14
<1>6. /\ Outs(h, ms) \in Seq(Seq(T)) /\ Len(Outs(h, ms)) = Len(ms) /\ Len(ms) \in Nat
      /\ Owed(h, ms) \in Seq(Seq(T)) /\ Len(Owed(h, ms)) = Len(ms)
      /\ Owed(h, ns) \in Seq(Seq(T)) /\ Len(Owed(h, ns)) = Len(ms)
      /\ \A l \in 1 .. Len(ms) : Owed(h, ms)[l] = Raws(h, ms[l].pairs) /\ Owed(h, ns)[l] = Raws(h, ns[l].pairs)
  <2>1. ms \in Seq(Jobs(h, E)) /\ ns \in Seq(Jobs(h, E))
    BY <1>1, <1>5 DEF J
  <2>2. /\ Outs(h, ms) \in Seq(Seq(T)) /\ Len(Outs(h, ms)) = Len(ms) /\ Len(ms) \in Nat
        /\ Owed(h, ms) \in Seq(Seq(T)) /\ Len(Owed(h, ms)) = Len(ms)
        /\ \A l \in 1 .. Len(ms) : Owed(h, ms)[l] = Raws(h, ms[l].pairs)
    BY ONLY <1>0, <2>1, JobsTyped
  <2>3. /\ Owed(h, ns) \in Seq(Seq(T)) /\ Len(Owed(h, ns)) = Len(ns)
        /\ \A l \in 1 .. Len(ns) : Owed(h, ns)[l] = Raws(h, ns[l].pairs)
    BY ONLY <1>0, <2>1, JobsTyped
  <2> HIDE DEF T
  <2>4. QED
    BY ONLY <1>5, <2>2, <2>3
<1>7. Outs(h, ns) = Outs(h, ms)
  <2>1. \A l \in 1 .. Len(ms) : JobOut(h, ns[l]) = JobOut(h, ms[l])
    BY <1>3, <1>5
  <2>2. QED
    BY <1>5, <2>1 DEF Outs
<1>8. Len(FlattenSeq(Owed(h, ms))) = Len(FlattenSeq(Owed(h, ns))) + Len(RawOf(h, p)) /\ Len(FlattenSeq(Owed(h, ns))) \in Nat
      /\ Len(RawOf(h, p)) \in Nat
  <2> DEFINE d == Len(RawOf(h, p))
             ss == Owed(h, ms)
             tt == Owed(h, ns)
  <2>1. d \in Nat
    BY <1>3
  <2>2. /\ ss \in Seq(Seq(T)) /\ tt \in Seq(Seq(T)) /\ n \in 1 .. Len(ss) /\ Len(tt) = Len(ss)
        /\ Len(ss[n]) = Len(tt[n]) + d /\ \A l \in 1 .. Len(ss) : l # n => tt[l] = ss[l]
    BY ZenonT(60), <1>3, <1>5, <1>6
  <2> HIDE DEF d, ss, tt, T
  <2>3. Len(FlattenSeq(ss)) = Len(FlattenSeq(tt)) + d /\ Len(FlattenSeq(tt)) \in Nat
    BY ONLY <2>1, <2>2, FlattenShorter
  <2>4. QED
    BY <2>1, <2>3 DEF d, ss, tt
<1>9. found + Len(RawOf(h, p)) \in Nat /\ (found + Len(RawOf(h, p))) + Len(FlattenSeq(Owed(h, ns))) = Len(AllRaw(h, c))
  BY <1>1, <1>8
<1>10. QED
  BY <1>1, <1>3, <1>5, <1>7, <1>9 DEF Matched, J

LEMMA DeliveredMatched ==
    ASSUME NEW V, NEW E, NEW h, NEW m, TableSeq(V, E), Grouped(V, E, h, m),
           NEW c, NEW ms, NEW done, NEW found, Matched(E, h, c, ms, done, found),
           ms # <<>>, Head(ms).pairs = <<>>
    PROVE  Matched(E, h, c, Tail(ms), done \o Head(ms).out, found) /\ Head(ms).out \in Seq(Real(E))
<1> DEFINE J == Jobs(h, E)
           j == Head(ms)
           t == Tail(ms)
           T == Real(E)
<1>1. /\ ms \in Seq(J) /\ done \in Seq(T) /\ found \in Nat
      /\ done \o FlattenSeq(Outs(h, ms)) = Fitting(AllRaw(h, c))
      /\ found + Len(FlattenSeq(Owed(h, ms))) = Len(AllRaw(h, c))
  BY DEF Matched
<1>2. /\ j \in J /\ t \in Seq(J) /\ j = ms[1] /\ Len(ms) \in Nat \ {0} /\ Len(t) = Len(ms) - 1
      /\ \A l \in 1 .. Len(t) : t[l] = ms[l + 1]
  <2> HIDE DEF J
  <2>1. QED
    BY <1>1
<1>3. /\ j.pairs = <<>> /\ j.out \in Seq(T)
  BY <1>2 DEF Jobs
<1>4. Raws(h, j.pairs) = <<>> /\ Fitting(<<>>) = <<>>
  <2>1. Raws(h, <<>>) = <<>>
    BY DEF Raws, FlattenSeq, FoldSeq
  <2>2. Fitting(<<>>) = <<>>
    BY DEF Fitting, FlattenSeq, FoldSeq
  <2>3. QED
    BY <1>3, <2>1, <2>2
<1>5. JobOut(h, j) = j.out
  <2>1. JobOut(h, j) = j.out \o <<>>
    BY <1>4 DEF JobOut
  <2> DEFINE o == j.out
  <2>2. o \in Seq(T)
    BY <1>3
  <2> HIDE DEF o, T
  <2>3. o \o <<>> = o
    BY <2>2
  <2>4. QED
    BY <2>1, <2>3 DEF o
<1>6. /\ Outs(h, ms) \in Seq(Seq(T)) /\ Len(Outs(h, ms)) = Len(ms)
      /\ Owed(h, ms) \in Seq(Seq(T)) /\ Len(Owed(h, ms)) = Len(ms)
      /\ Outs(h, t) \in Seq(Seq(T)) /\ Len(Outs(h, t)) = Len(t) /\ Owed(h, t) \in Seq(Seq(T)) /\ Len(Owed(h, t)) = Len(t)
      /\ \A l \in 1 .. Len(ms) : Outs(h, ms)[l] = JobOut(h, ms[l]) /\ Owed(h, ms)[l] = Raws(h, ms[l].pairs)
      /\ \A l \in 1 .. Len(t) : Outs(h, t)[l] = JobOut(h, t[l]) /\ Owed(h, t)[l] = Raws(h, t[l].pairs)
  <2>1. ms \in Seq(Jobs(h, E)) /\ t \in Seq(Jobs(h, E))
    BY <1>1, <1>2
  <2>2. /\ Outs(h, ms) \in Seq(Seq(T)) /\ Len(Outs(h, ms)) = Len(ms)
        /\ Owed(h, ms) \in Seq(Seq(T)) /\ Len(Owed(h, ms)) = Len(ms)
        /\ \A l \in 1 .. Len(ms) : Outs(h, ms)[l] = JobOut(h, ms[l]) /\ Owed(h, ms)[l] = Raws(h, ms[l].pairs)
    BY <2>1, JobsTyped
  <2> HIDE DEF t
  <2>3. /\ Outs(h, t) \in Seq(Seq(T)) /\ Len(Outs(h, t)) = Len(t)
        /\ Owed(h, t) \in Seq(Seq(T)) /\ Len(Owed(h, t)) = Len(t)
        /\ \A l \in 1 .. Len(t) : Outs(h, t)[l] = JobOut(h, t[l]) /\ Owed(h, t)[l] = Raws(h, t[l].pairs)
    BY <2>1, JobsTyped
  <2>4. QED
    BY ONLY <2>2, <2>3
<1> HIDE DEF J, j, t, T
<1>7. FlattenSeq(Outs(h, ms)) = j.out \o FlattenSeq(Outs(h, t)) /\ FlattenSeq(Outs(h, t)) \in Seq(T)
  <2> DEFINE W == Seq(T)
             ss == Outs(h, ms)
             tt == Outs(h, t)
  <2>6. ss \in Seq(W) /\ tt \in Seq(W) /\ Len(ss) = Len(ms) /\ Len(tt) = Len(t)
    BY <1>6
  <2>7. ss[1] = j.out
    <3>1. 1 \in 1 .. Len(ms)
      BY <1>2
    <3>2. QED
      BY <1>2, <1>5, <1>6, <3>1
  <2>8. ASSUME NEW l \in 1 .. Len(ms) - 1 PROVE tt[l] = ss[l + 1]
    <3>1. l + 1 \in 1 .. Len(ms) /\ l \in 1 .. Len(t)
      BY <1>2
    <3>2. t[l] = ms[l + 1]
      BY <1>2, <3>1
    <3>3. QED
      BY <1>6, <3>1, <3>2
  <2> HIDE DEF W, ss, tt
  <2>1. ss \in Seq(W) /\ tt \in Seq(W) /\ Len(ss) \in Nat \ {0} /\ Len(tt) = Len(ss) - 1 /\ ss[1] = j.out
        /\ \A l \in 1 .. Len(ss) - 1 : tt[l] = ss[l + 1]
    BY <1>2, <2>6, <2>7, <2>8
  <2> HIDE DEF W, ss, tt
  <2>2. ss # <<>> /\ Head(ss) = j.out /\ Tail(ss) = tt
    BY <2>1
  <2>3. ss \in Seq(Seq(T))
    BY <2>1 DEF W
  <2>4. FlattenSeq(Tail(ss)) \in Seq(T) /\ FlattenSeq(ss) = Head(ss) \o FlattenSeq(Tail(ss))
    BY <2>2, <2>3, FlattenFirst
  <2>5. QED
    BY <2>2, <2>4 DEF ss, tt
<1>8. FlattenSeq(Owed(h, ms)) = <<>> \o FlattenSeq(Owed(h, t)) /\ FlattenSeq(Owed(h, t)) \in Seq(T)
  <2> DEFINE W == Seq(T)
             ss == Owed(h, ms)
             tt == Owed(h, t)
  <2>6. ss \in Seq(W) /\ tt \in Seq(W) /\ Len(ss) = Len(ms) /\ Len(tt) = Len(t)
    BY <1>6
  <2>7. ss[1] = <<>>
    <3>1. 1 \in 1 .. Len(ms)
      BY <1>2
    <3>2. QED
      BY <1>2, <1>4, <1>6, <3>1
  <2>8. ASSUME NEW l \in 1 .. Len(ms) - 1 PROVE tt[l] = ss[l + 1]
    <3>1. l + 1 \in 1 .. Len(ms) /\ l \in 1 .. Len(t)
      BY <1>2
    <3>2. t[l] = ms[l + 1]
      BY <1>2, <3>1
    <3>3. QED
      BY <1>6, <3>1, <3>2
  <2> HIDE DEF W, ss, tt
  <2>1. ss \in Seq(W) /\ tt \in Seq(W) /\ Len(ss) \in Nat \ {0} /\ Len(tt) = Len(ss) - 1 /\ ss[1] = <<>>
        /\ \A l \in 1 .. Len(ss) - 1 : tt[l] = ss[l + 1]
    BY <1>2, <2>6, <2>7, <2>8
  <2> HIDE DEF W, ss, tt
  <2>2. ss # <<>> /\ Head(ss) = <<>> /\ Tail(ss) = tt
    BY <2>1
  <2>3. ss \in Seq(Seq(T))
    BY <2>1 DEF W
  <2>4. FlattenSeq(Tail(ss)) \in Seq(T) /\ FlattenSeq(ss) = Head(ss) \o FlattenSeq(Tail(ss))
    BY <2>2, <2>3, FlattenFirst
  <2>5. QED
    BY <2>2, <2>4 DEF ss, tt
<1>9. FlattenSeq(Owed(h, ms)) = FlattenSeq(Owed(h, t))
  <2> DEFINE o == FlattenSeq(Owed(h, t))
  <2>1. o \in Seq(T)
    BY <1>8
  <2> HIDE DEF o
  <2>2. <<>> \o o = o
    BY <2>1
  <2>3. QED
    BY <1>8, <2>2 DEF o
<1>10. (done \o j.out) \o FlattenSeq(Outs(h, t)) = done \o (j.out \o FlattenSeq(Outs(h, t))) /\ done \o j.out \in Seq(T)
  <2> DEFINE o == FlattenSeq(Outs(h, t))
             a == j.out
  <2>1. o \in Seq(T) /\ a \in Seq(T) /\ done \in Seq(T)
    BY <1>1, <1>3, <1>7
  <2> HIDE DEF o, a
  <2>2. (done \o a) \o o = done \o (a \o o) /\ done \o a \in Seq(T)
    BY <2>1, ConcatThree
  <2>3. QED
    BY <2>2 DEF o, a
<1>11. Matched(E, h, c, t, done \o j.out, found)
  BY <1>1, <1>2, <1>7, <1>9, <1>10 DEF Matched, J, T
<1>12. QED
  BY <1>3, <1>11 DEF j, t, T

\* Of the last vector, whose pair is left over, too
LastRaw(h) == IF Len(h) = 0 THEN <<>> ELSE RawAt(h, Len(h))

LEMMA LastMatched ==
    ASSUME NEW V, NEW E, NEW h, NEW m, TableSeq(V, E), Grouped(V, E, h, m),
           NEW done, NEW found, Matched(E, h, Full(h), <<>>, done, found)
    PROVE  Matched(E, h, Len(h), <<>>, done \o Fitting(LastRaw(h)), found + Len(LastRaw(h))) /\ LastRaw(h) \in Seq(Real(E))
<1> DEFINE T == Real(E)
           r == LastRaw(h)
           A == AllRaw(h, Full(h))
           B == AllRaw(h, Len(h))
<1>1. A \in Seq(T) /\ B = A \o r /\ Len(h) \in Nat
  BY AllRawTyped DEF LastRaw
<1>2. r \in Seq(T)
  <2>1. CASE Len(h) = 0
    BY <2>1 DEF LastRaw
  <2>2. CASE Len(h) # 0
    <3>1. Len(h) \in 1 .. Len(h)
      BY <1>1, <2>2
    <3>2. RawAt(h, Len(h)) \in Seq(Real(E))
      BY <3>1, RawTyped
    <3>3. QED
      BY <2>2, <3>2 DEF LastRaw
  <2>3. QED
    BY <2>1, <2>2
<1>3. /\ <<>> \in Seq(Jobs(h, E)) /\ done \in Seq(T) /\ found \in Nat
      /\ done \o FlattenSeq(Outs(h, <<>>)) = Fitting(A)
      /\ found + Len(FlattenSeq(Owed(h, <<>>))) = Len(A)
  BY DEF Matched
<1>4. FlattenSeq(Outs(h, <<>>)) = <<>> /\ FlattenSeq(Owed(h, <<>>)) = <<>>
  <2>1. Outs(h, <<>>) = <<>> /\ Owed(h, <<>>) = <<>>
    BY DEF Outs, Owed
  <2>2. <<>> \in Seq(Seq(T))
    OBVIOUS
  <2>3. Joined(<<>>, 0) = <<>> /\ Joined(<<>>, Len(<<>>)) = FlattenSeq(<<>>)
    BY <2>2, JoinedEnds
  <2>4. Len(<<>>) = 0
    OBVIOUS
  <2>5. QED
    BY <2>1, <2>3, <2>4
<1>5. Fitting(B) = Fitting(A) \o Fitting(r) /\ Fitting(r) \in Seq(T)
  <2>1. FittingJoins(A, r)
    BY <1>1, <1>2, FittingConcat
  <2>2. QED
    BY <1>1, <1>2, <2>1, FittingIs DEF FittingJoins
<1> DEFINE f == Fitting(r)
<1> HIDE DEF r, A, B, T, f
<1>6. done \o <<>> = done /\ (done \o f) \o <<>> = done \o f /\ done \o f \in Seq(T)
  <2>1. f \in Seq(T) /\ done \in Seq(T)
    BY <1>3, <1>5 DEF f
  <2>2. QED
    BY <2>1
<1>7. (done \o f) \o FlattenSeq(Outs(h, <<>>)) = Fitting(B)
  BY <1>3, <1>4, <1>5, <1>6 DEF f
<1>8. (found + Len(r)) + Len(FlattenSeq(Owed(h, <<>>))) = Len(B) /\ found + Len(r) \in Nat
  <2>1. Len(B) = Len(A) + Len(r) /\ Len(A) \in Nat /\ Len(r) \in Nat
    BY <1>1, <1>2
  <2>2. Len(FlattenSeq(Owed(h, <<>>))) = 0
    BY <1>4
  <2> DEFINE a == Len(A)
             b == Len(B)
             d == Len(r)
             x == Len(FlattenSeq(Owed(h, <<>>)))
  <2>3. b = a + d /\ a \in Nat /\ d \in Nat /\ x = 0 /\ found + x = a /\ found \in Nat
    BY <1>3, <2>1, <2>2
  <2> HIDE DEF a, b, d, x
  <2>4. (found + d) + x = b /\ found + d \in Nat
    BY <2>3
  <2>5. QED
    BY <2>4 DEF a, b, d, x
<1>9. QED
  BY <1>2, <1>3, <1>6, <1>7, <1>8 DEF Matched, B, T, r, f

LEMMA NothingMatched ==
    ASSUME NEW V, NEW E \in Seq(V)
    PROVE  Matched(E, <<>>, 0, <<>>, <<>>, 0) /\ Full(<<>>) = 0
<1>1. AllRaw(<<>>, 0) = <<>>
  BY AllRawNone
<1>2. Fitting(<<>>) = <<>>
  BY DEF Fitting, FlattenSeq, FoldSeq
<1>3. FlattenSeq(Outs(<<>>, <<>>)) = <<>> /\ FlattenSeq(Owed(<<>>, <<>>)) = <<>>
  <2>1. Outs(<<>>, <<>>) = <<>> /\ Owed(<<>>, <<>>) = <<>>
    BY DEF Outs, Owed
  <2>2. <<>> \in Seq(Seq(V))
    OBVIOUS
  <2>3. Joined(<<>>, 0) = <<>> /\ Joined(<<>>, Len(<<>>)) = FlattenSeq(<<>>)
    BY <2>2, JoinedEnds
  <2>4. Len(<<>>) = 0
    OBVIOUS
  <2>5. QED
    BY <2>1, <2>3, <2>4
<1>4. <<>> \in Seq(Jobs(<<>>, E)) /\ <<>> \in Seq(Real(E)) /\ Len(<<>>) = 0 /\ <<>> \o <<>> = <<>>
  OBVIOUS
<1>5. QED
  BY <1>1, <1>2, <1>3, <1>4 DEF Matched, Full

-----------------------------------------------------------------------------
(* What the workers know, and what was found *)

Complete == IF closed THEN Len(heap) ELSE Full(heap)

Pairing ==
    Working =>
        /\ DOMAIN Fx = F!Worker /\ \A w \in F!Worker : Clean(Fx[w])
        /\ Matched(Left, heap, Complete, matching, matches, num_found)
        /\ num_written_1 = Len(matches)

pairingVars == <<R_index_1, table, heap, closed, matching, matches, num_found, num_written_1, Fx>>

LEMMA PairingSteady == ASSUME Pairing, UNCHANGED pairingVars PROVE Pairing'
<1>1. /\ Working' = Working /\ Left' = Left /\ Complete' = Complete
  BY DEF pairingVars, Working, Left, Complete
<1>2. Matched(Left, heap, Complete, matching, matches, num_found)' = Matched(Left', heap', Complete', matching', matches', num_found')
  BY DEF Matched, Jobs, F!Worker, Outs, Owed, JobOut, Raws, RawOf, Real, Ref, RefMatch
<1>3. QED
  BY <1>1, <1>2 DEF pairingVars, Pairing

LEMMA FreshIsClean == Clean(F!FreshMatcher)
BY DEF Clean, F!FreshMatcher

LEMMA SlicePairing ==
    ASSUME Turns, Slicing, Pairing, F!SliceBlock
    PROVE  Pairing'
<1> DEFINE s == F!Sliced(table[blocks + 1])
           j == [worker |-> given_1 % Matchers, pairs |-> s.out, out |-> <<>>]
<1>1. /\ Working /\ blocks < Len(table) /\ R_index_1' = R_index_1 /\ table' = table
      /\ heap' = s.heap /\ matching' = Append(matching, j)
      /\ UNCHANGED <<closed, matches, num_found, num_written_1, Fx>>
  BY DEF F!SliceBlock, F!setting, F!counters, Working
<1>2. /\ LoopGood(LeftSet, Left, heap, s, Len(Joined(table, blocks + 1)))
  BY <1>1, SlicedBlock
<1>3. /\ TableSeq(LeftSet, Left) /\ Grouped(LeftSet, Left, heap, Len(Joined(table, blocks))) /\ ~closed
  <2>1. /\ TableSeq(LeftSet, Left) /\ SliceGood(LeftSet, Left, State, Len(Joined(table, blocks)))
        /\ closed => blocks = Len(table) /\ ~pending /\ matching = <<>>
        /\ blocks \in 0 .. Len(table) /\ table \in Seq(Seq(LeftSet))
    BY <1>1 DEF Slicing
  <2>2. State.heap = heap
    BY DEF State
  <2>3. ~closed
    <3>1. Len(table) \in Nat
      BY <2>1
    <3>2. QED
      BY <1>1, <2>1, <3>1
  <2>4. QED
    BY <2>1, <2>2, <2>3 DEF SliceGood
<1>4. Matched(Left, heap, Full(heap), matching, matches, num_found)
  BY <1>1, <1>3 DEF Pairing, Complete
<1>5. given_1 % Matchers \in F!Worker
  BY Parameters DEF F!Worker, Turns
<1> HIDE DEF s
<1>6. Matched(Left, s.heap, Full(s.heap), Append(matching, j), matches, num_found)
  BY <1>2, <1>3, <1>4, <1>5, TakenMatched
<1>7. Working' /\ Left' = Left /\ Complete' = Full(s.heap)
  BY <1>1, <1>3 DEF Working, Left, Complete
<1>8. Matched(Left', heap', Complete', matching', matches', num_found')
  BY <1>1, <1>6, <1>7
<1>9. QED
  BY <1>1, <1>8 DEF Pairing

\* The heap, as the lemmas about it need it
LEMMA HeapGrouped ==
    ASSUME Slicing, Working
    PROVE  /\ TableSeq(LeftSet, Left) /\ Grouped(LeftSet, Left, heap, Len(Joined(table, blocks)))
           /\ Slicer(State, heap) /\ State.heap = heap /\ State.index = L_index /\ State.offset = L_offset /\ State.bucket = L_bucket
<1>1. State.heap = heap /\ State.index = L_index /\ State.offset = L_offset /\ State.bucket = L_bucket
  BY DEF State
<1>2. TableSeq(LeftSet, Left) /\ SliceGood(LeftSet, Left, State, Len(Joined(table, blocks)))
  BY DEF Slicing
<1>3. QED
  BY <1>1, <1>2 DEF SliceGood

LEMMA MatchPairing ==
    ASSUME Turns, Slicing, Pairing, F!MatchSome
    PROVE  Pairing'
<1>1. PICK n \in 1 .. Matchers : F!MatchPair(n)
  BY DEF F!MatchSome
<1> DEFINE w == matching[n].worker
           p == Head(matching[n].pairs)
           f == F!FindMatches(Fx[w], p)
<1>2. /\ n \in DOMAIN matching /\ matching[n].pairs # <<>> /\ F!HasVectors(p)
      /\ Fx' = [Fx EXCEPT ![w] = f.fx] /\ num_found' = num_found + f.count
      /\ matching' = [matching EXCEPT ![n].pairs = Tail(@), ![n].out = @ \o f.out]
      /\ UNCHANGED <<R_index_1, table, heap, closed, matches, num_written_1>>
  BY <1>1 DEF F!MatchPair, F!setting, F!slice
<1>3. matching # <<>>
  <2>1. DOMAIN <<>> = {}
    OBVIOUS
  <2>2. QED
    BY <1>2, <2>1
<1>4. Working
  BY <1>3 DEF Turns, Idle
<1>5. /\ DOMAIN Fx = F!Worker /\ \A v \in F!Worker : Clean(Fx[v])
      /\ Matched(Left, heap, Complete, matching, matches, num_found) /\ num_written_1 = Len(matches)
  BY <1>4 DEF Pairing
<1>6. TableSeq(LeftSet, Left) /\ Grouped(LeftSet, Left, heap, Len(Joined(table, blocks)))
  BY <1>4, HeapGrouped
<1>7. /\ matching \in Seq(Jobs(heap, Left)) /\ n \in 1 .. Len(matching)
      /\ matching[n] \in Jobs(heap, Left) /\ w \in F!Worker
  <2>1. matching \in Seq(Jobs(heap, Left))
    BY <1>5 DEF Matched
  <2>2. n \in 1 .. Len(matching) /\ matching[n] \in Jobs(heap, Left)
    BY <1>2, <2>1
  <2>3. QED
    BY <2>1, <2>2 DEF Jobs
<1>8. p \in GoodPairs(heap)
  BY <1>2, <1>6, <1>7, JobSteps
<1>9. \E b : Vector(heap[p.L], b) /\ Vector(heap[p.R], b + 1)
  BY <1>2, <1>6, <1>8, GoodRaw
<1>10. Clean(f.fx) /\ f.count = Len(RawOf(heap, p)) /\ f.out = Fitting(RawOf(heap, p))
  <2>1. PICK b : Vector(heap[p.L], b) /\ Vector(heap[p.R], b + 1)
    BY <1>9
  <2>2. Clean(Fx[w])
    BY <1>5, <1>7
  <2> HIDE DEF p, w
  <2>3. QED
    BY <1>2, <2>1, <2>2, FindMatchesIs
<1> HIDE DEF f
<1>11. matching' = [matching EXCEPT ![n] = Forth(heap, matching[n])]
  <2>1. matching' = [matching EXCEPT ![n].pairs = Tail(@), ![n].out = @ \o Fitting(RawOf(heap, p))]
    BY <1>2, <1>10
  <2>2. QED
    BY <2>1 DEF Forth
<1>12. Matched(Left, heap, Complete, matching', matches, num_found')
  <2>1. n \in 1 .. Len(matching) /\ matching[n].pairs # <<>> /\ p = Head(matching[n].pairs)
    BY <1>2, <1>7
  <2>2. num_found' = num_found + Len(RawOf(heap, p))
    BY <1>2, <1>10
  <2>3. Matched(Left, heap, Complete, matching', matches, num_found + Len(RawOf(heap, p)))
    BY <1>5, <1>6, <1>11, <2>1, SteppedMatched
  <2>4. QED
    BY <2>2, <2>3
<1>13. Working' /\ Left' = Left /\ Complete' = Complete
  BY <1>2, <1>4 DEF Working, Left, Complete
<1>14. DOMAIN Fx' = F!Worker /\ \A v \in F!Worker : Clean(Fx'[v])
  BY <1>2, <1>5, <1>7, <1>10
<1>15. QED
  BY <1>2, <1>5, <1>12, <1>13, <1>14 DEF Pairing

LEMMA DeliverPairing ==
    ASSUME Turns, Slicing, Pairing, F!DeliverMatches
    PROVE  Pairing' /\ Working /\ Head(matching).out \in Seq(Real(Left))
<1>1. /\ matching # <<>> /\ Head(matching).pairs = <<>> /\ matches' = matches \o Head(matching).out
      /\ num_written_1' = num_written_1 + Len(Head(matching).out) /\ matching' = Tail(matching)
      /\ UNCHANGED <<R_index_1, table, heap, closed, Fx, num_found>>
  BY DEF F!DeliverMatches, F!setting, F!slice
<1>2. Working
  BY <1>1 DEF Turns, Idle
<1>3. /\ DOMAIN Fx = F!Worker /\ \A v \in F!Worker : Clean(Fx[v])
      /\ Matched(Left, heap, Complete, matching, matches, num_found) /\ num_written_1 = Len(matches)
  BY <1>2 DEF Pairing
<1>4. TableSeq(LeftSet, Left) /\ Grouped(LeftSet, Left, heap, Len(Joined(table, blocks)))
  BY <1>2, HeapGrouped
<1>5. Matched(Left, heap, Complete, Tail(matching), matches \o Head(matching).out, num_found) /\ Head(matching).out \in Seq(Real(Left))
  BY <1>1, <1>3, <1>4, DeliveredMatched
<1>6. num_written_1' = Len(matches')
  <2> DEFINE o == Head(matching).out
             T == Real(Left)
  <2>1. o \in Seq(T) /\ matches \in Seq(T)
    BY <1>3, <1>5 DEF Matched
  <2> HIDE DEF o, T
  <2>2. Len(matches \o o) = Len(matches) + Len(o)
    BY <2>1
  <2>3. QED
    BY <1>1, <1>3, <2>2 DEF o
<1>7. Working' /\ Left' = Left /\ Complete' = Complete
  BY <1>1, <1>2 DEF Working, Left, Complete
<1>8. Pairing'
  BY <1>1, <1>3, <1>5, <1>6, <1>7 DEF Pairing
<1>9. QED
  BY <1>2, <1>5, <1>8

LEMMA FinishPairing ==
    ASSUME Turns, Slicing, Pairing, F!Finish
    PROVE  /\ Pairing' /\ Working /\ Fitting(LastRaw(heap)) \in Seq(Real(Left)) /\ matches' = matches \o Fitting(LastRaw(heap))
           /\ evaluating' = (IF F!LastPairLeft THEN Append(evaluating, [ready |-> FALSE, matches |-> Fitting(LastRaw(heap))]) ELSE evaluating)
           /\ ~F!LastPairLeft => matches' = matches
<1> DEFINE h == heap
           p == F!Pair([offset |-> L_offset, bucket |-> L_bucket])
           f == F!FindMatches(F!FreshMatcher, p)
           r == LastRaw(heap)
<1>1. /\ Working /\ blocks = Len(table) /\ ~pending /\ matching = <<>> /\ ~closed /\ closed' = TRUE
      /\ UNCHANGED <<R_index_1, table, heap, Fx, matching>>
  BY DEF F!Finish, F!setting, F!slice, Working
<1>2. IF F!LastPairLeft
      THEN /\ F!HasVectors([L |-> L_bucket[1], R |-> L_bucket[0]])
           /\ evaluating' = Append(evaluating, [ready |-> FALSE, matches |-> f.out])
           /\ num_found' = num_found + f.count /\ num_written_1' = num_written_1 + Len(f.out)
           /\ matches' = matches \o f.out
      ELSE UNCHANGED <<num_found, num_written_1, matches, evaluating>>
  BY DEF F!Finish, F!counters
<1>3. /\ DOMAIN Fx = F!Worker /\ \A v \in F!Worker : Clean(Fx[v])
      /\ Matched(Left, h, Full(h), <<>>, matches, num_found) /\ num_written_1 = Len(matches)
  BY <1>1 DEF Pairing, Complete
<1>4. /\ TableSeq(LeftSet, Left) /\ Grouped(LeftSet, Left, h, Len(Joined(table, blocks)))
      /\ L_index = Two(Bkt(h, Len(h)), Bkt(h, Len(h) - 1))
      /\ L_bucket = Two(Len(h), IF Len(h) = 0 THEN 0 ELSE Len(h) - 1)
      /\ L_offset = Two(First(h, Len(h)), IF Len(h) = 0 THEN 0 ELSE First(h, Len(h) - 1))
      /\ Len(h) \in Nat
  BY <1>1, HeapGrouped, HeapSize DEF Slicer
<1>5. F!LastPairLeft <=> Emits(h, Len(h))
  BY <1>4 DEF F!LastPairLeft, F!Neighbours, Two, Emits
<1>6. /\ Matched(Left, h, Len(h), <<>>, matches \o Fitting(r), num_found + Len(r)) /\ r \in Seq(Real(Left))
  BY <1>3, <1>4, LastMatched
<1>7. Fitting(r) \in Seq(Real(Left)) /\ matches \in Seq(Real(Left)) /\ num_found \in Nat
  BY <1>3, <1>6, FittingIs DEF Matched
<1>8. ASSUME F!LastPairLeft PROVE f.count = Len(r) /\ f.out = Fitting(r) /\ num_written_1' = Len(matches')
  <2>1. Len(h) # 0
    <3>1. Len(h) = 0 => Bkt(h, Len(h)) = 0 /\ Bkt(h, Len(h) - 1) = 0
      BY DEF Bkt
    <3>2. QED
      BY <1>5, <1>8, <3>1 DEF Emits
  <2>2. p = PairAt(h, Len(h))
    BY <1>4, <2>1 DEF F!Pair, F!PairOffset, PairAt, Two
  <2>3. F!HasVectors(p) /\ Len(h) > 1
    <3>1. p.L = L_bucket[1] /\ p.R = L_bucket[0]
      BY DEF F!Pair
    <3>2. F!HasVectors([L |-> L_bucket[1], R |-> L_bucket[0]])
      BY <1>2, <1>8
    <3>3. F!HasVectors(p)
      BY <3>1, <3>2 DEF F!HasVectors
    <3>4. L_bucket[1] # 0 /\ L_bucket[1] = Len(h) - 1
      BY <1>4, <2>1, <3>2 DEF F!HasVectors, F!Null, Two
    <3>5. QED
      BY <1>4, <2>1, <3>3, <3>4
  <2>4. Len(h) \in 1 .. Len(h) /\ Emits(h, Len(h))
    BY <1>4, <1>5, <1>8, <2>1
  <2>5. Vector(h[Len(h) - 1], Bkt(h, Len(h) - 1)) /\ Vector(h[Len(h)], Bkt(h, Len(h) - 1) + 1)
    BY <1>4, <2>3, <2>4, PairReal
  <2>6. p.L = Len(h) - 1 /\ p.R = Len(h)
    BY <2>2 DEF PairAt
  <2>7. f.count = Len(RawOf(h, p)) /\ f.out = Fitting(RawOf(h, p))
    <3>1. Vector(heap[p.L], Bkt(h, Len(h) - 1)) /\ Vector(heap[p.R], Bkt(h, Len(h) - 1) + 1)
      BY <2>5, <2>6
    <3> HIDE DEF p
    <3>2. QED
      BY <2>3, <3>1, FreshIsClean, FindMatchesIs
  <2>8. RawOf(h, p) = r
    BY <2>1, <2>2, <2>4 DEF LastRaw, RawAt
  <2>9. num_written_1' = Len(matches')
    <3> DEFINE o == Fitting(r)
               T == Real(Left)
    <3>1. o \in Seq(T) /\ matches \in Seq(T)
      BY <1>7
    <3>2. matches' = matches \o o /\ num_written_1' = Len(matches) + Len(o)
      BY <1>2, <1>3, <1>8, <2>7, <2>8
    <3> HIDE DEF o, T
    <3>3. Len(matches \o o) = Len(matches) + Len(o)
      BY <3>1
    <3>4. QED
      BY <3>2, <3>3
  <2>10. QED
    BY <2>7, <2>8, <2>9
<1>9. ASSUME ~F!LastPairLeft PROVE matches \o Fitting(r) = matches /\ num_found + Len(r) = num_found /\ num_written_1' = Len(matches')
  <2>1. r = <<>>
    BY <1>5, <1>9 DEF LastRaw, RawAt
  <2>2. Fitting(r) = <<>> /\ Len(r) = 0
    BY <2>1 DEF Fitting, FlattenSeq, FoldSeq
  <2>3. matches \o Fitting(r) = matches /\ num_found + Len(r) = num_found
    <3> DEFINE T == Real(Left)
    <3>1. matches \in Seq(T)
      BY <1>7
    <3> HIDE DEF T
    <3>2. matches \o <<>> = matches
      BY <3>1
    <3>3. QED
      BY <1>7, <2>2, <3>2
  <2>4. UNCHANGED <<num_found, num_written_1, matches, evaluating>>
    BY <1>2, <1>9
  <2>5. QED
    BY <1>3, <1>9, <2>3, <2>4
<1>10. /\ matches' = matches \o Fitting(r) /\ num_found' = num_found + Len(r) /\ num_written_1' = Len(matches')
       /\ evaluating' = (IF F!LastPairLeft THEN Append(evaluating, [ready |-> FALSE, matches |-> Fitting(r)]) ELSE evaluating)
       /\ ~F!LastPairLeft => matches' = matches
  <2>1. CASE F!LastPairLeft
    <3>1. f.count = Len(r) /\ f.out = Fitting(r) /\ num_written_1' = Len(matches')
      BY <1>8, <2>1
    <3>2. QED
      BY <1>2, <2>1, <3>1
  <2>2. CASE ~F!LastPairLeft
    <3>1. matches \o Fitting(r) = matches /\ num_found + Len(r) = num_found /\ num_written_1' = Len(matches')
      BY <1>2, <1>3, <1>9, <2>2
    <3>2. QED
      BY <1>2, <2>2, <3>1
  <2>3. QED
    BY <2>1, <2>2
<1>11. Working' /\ Left' = Left /\ Complete' = Len(h)
  BY <1>1 DEF Working, Left, Complete
<1>12. Matched(Left', heap', Complete', matching', matches', num_found')
  BY <1>1, <1>6, <1>10, <1>11
<1>13. Pairing'
  BY <1>1, <1>3, <1>10, <1>12 DEF Pairing
<1>14. QED
  BY <1>1, <1>7, <1>10, <1>13

LEMMA NextPairing ==
    ASSUME Turns, Slicing, Pairing, F!Next, Slicing'
    PROVE  Pairing'
<1>1. CASE F!ComputeSome
  <2>1. UNCHANGED pairingVars
    BY <1>1 DEF F!ComputeSome, F!ComputeF1, F!slice, F!counters, pairingVars
  <2>2. QED
    BY <2>1, PairingSteady
<1>2. CASE F!SliceBlock
  BY <1>2, SlicePairing
<1>3. CASE F!GiveLeft \/ F!WriteLeft
  <2>1. UNCHANGED pairingVars
    BY <1>3 DEF F!GiveLeft, F!WriteLeft, F!setting, F!slice, F!counters, pairingVars
  <2>2. QED
    BY <2>1, PairingSteady
<1>4. CASE F!MatchSome
  BY <1>4, MatchPairing
<1>5. CASE F!DeliverMatches
  BY <1>5, DeliverPairing
<1>6. CASE F!Finish
  BY <1>6, FinishPairing
<1>7. CASE F!EvaluateSome \/ F!DeliverEntries
  <2>1. UNCHANGED pairingVars
    BY <1>7 DEF F!EvaluateSome, F!EvaluateJob, F!DeliverEntries, F!setting, F!slice, F!counters, pairingVars
  <2>2. QED
    BY <2>1, PairingSteady
<1>8. CASE F!NextTable
  <2>1. Idle'
    BY <1>8, FreshIsIdle
  <2>2. SUFFICES ASSUME Working' PROVE Pairing'
    BY DEF Pairing
  <2>3. Left' \in Seq(LeftSet')
    BY <2>2 DEF Slicing, TableSeq
  <2>4. /\ heap' = <<>> /\ matching' = <<>> /\ matches' = <<>> /\ num_found' = 0 /\ num_written_1' = 0 /\ closed' = FALSE
        /\ Fx' = [w \in F!Worker |-> F!FreshMatcher]
    BY <2>1 DEF Idle
  <2>5. Matched(Left', <<>>, 0, <<>>, <<>>, 0) /\ Full(<<>>) = 0
    BY <2>3, NothingMatched
  <2>6. Complete' = 0
    BY <2>4, <2>5 DEF Complete
  <2>7. Matched(Left', heap', Complete', matching', matches', num_found')
    BY <2>4, <2>5, <2>6
  <2>8. Len(<<>>) = 0
    OBVIOUS
  <2>9. QED
    BY <2>4, <2>7, <2>8, FreshIsClean DEF Pairing
<1>9. QED
  BY <1>1, <1>2, <1>3, <1>4, <1>5, <1>6, <1>7, <1>8 DEF F!Next

-----------------------------------------------------------------------------
(* eval_pool *)

EvalJobs(T, W) == [ready : {FALSE}, matches : Seq(T)] \cup [ready : {TRUE}, entries : Seq(W)]

Ents(G, j) == IF j.ready THEN j.entries ELSE Image(j.matches, G)

AllEnts(G, es) == [n \in 1 .. Len(es) |-> Ents(G, es[n])]

\* What was delivered, and what the jobs have or will have, are together the
\* entries of the matches, in order.
Entered(T, W, G, es, ms, D) ==
    /\ es \in Seq(EvalJobs(T, W)) /\ ms \in Seq(T) /\ D \in Seq(W)
    /\ D \o FlattenSeq(AllEnts(G, es)) = Image(ms, G)

LEMMA EntsTyped ==
    ASSUME NEW T, NEW W, NEW G \in [T -> W], NEW es \in Seq(EvalJobs(T, W))
    PROVE  /\ AllEnts(G, es) \in Seq(Seq(W)) /\ Len(AllEnts(G, es)) = Len(es) /\ Len(es) \in Nat
           /\ \A n \in 1 .. Len(es) : AllEnts(G, es)[n] = Ents(G, es[n])
           /\ \A j \in EvalJobs(T, W) : Ents(G, j) \in Seq(W) /\ j.ready \in BOOLEAN
<1> DEFINE X == Seq(W)
           J == EvalJobs(T, W)
<1>1. ASSUME NEW j \in J PROVE Ents(G, j) \in Seq(W) /\ j.ready \in BOOLEAN
  <2>1. CASE j \in [ready : {FALSE}, matches : Seq(T)]
    <3>1. ~j.ready /\ j.matches \in Seq(T) /\ j.ready \in BOOLEAN
      BY <2>1
    <3>2. Image(j.matches, G) \in Seq(W)
      BY <3>1, ImageOf
    <3>3. QED
      BY <3>1, <3>2 DEF Ents
  <2>2. CASE j \in [ready : {TRUE}, entries : Seq(W)]
    <3>1. j.ready /\ j.entries \in Seq(W) /\ j.ready \in BOOLEAN
      BY <2>2
    <3>2. QED
      BY <3>1 DEF Ents
  <2>3. QED
    BY <2>1, <2>2 DEF EvalJobs
<1>2. \A n \in 1 .. Len(es) : es[n] \in J
  OBVIOUS
<1>3. Len(es) \in Nat
  OBVIOUS
<1>4. \A n \in 1 .. Len(es) : Ents(G, es[n]) \in X
  BY <1>1, <1>2
<1> HIDE DEF X, J
<1>5. AllEnts(G, es) \in Seq(X) /\ Len(AllEnts(G, es)) = Len(es)
  BY <1>3, <1>4 DEF AllEnts
<1>6. QED
  BY <1>1, <1>3, <1>5 DEF AllEnts, X, J

LEMMA GivenEntered ==
    ASSUME NEW T, NEW W, NEW G \in [T -> W], NEW es, NEW ms, NEW D, Entered(T, W, G, es, ms, D), NEW o \in Seq(T)
    PROVE  Entered(T, W, G, Append(es, [ready |-> FALSE, matches |-> o]), ms \o o, D)
<1> DEFINE J == EvalJobs(T, W)
           j == [ready |-> FALSE, matches |-> o]
           t == Append(es, j)
<1>1. es \in Seq(J) /\ ms \in Seq(T) /\ D \in Seq(W) /\ D \o FlattenSeq(AllEnts(G, es)) = Image(ms, G)
  BY DEF Entered
<1>2. j \in J /\ Ents(G, j) = Image(o, G)
  BY DEF EvalJobs, Ents
<1> HIDE DEF J, j
<1>3. /\ t \in Seq(J) /\ Len(t) = Len(es) + 1 /\ Len(es) \in Nat /\ t[Len(es) + 1] = j
      /\ \A n \in 1 .. Len(es) : t[n] = es[n]
  BY <1>1, <1>2
<1> HIDE DEF t
<1>4. /\ AllEnts(G, es) \in Seq(Seq(W)) /\ Len(AllEnts(G, es)) = Len(es)
      /\ Image(o, G) \in Seq(W) /\ Image(ms, G) \in Seq(W)
  <2>1. es \in Seq(EvalJobs(T, W))
    BY <1>1 DEF J
  <2>2. AllEnts(G, es) \in Seq(Seq(W)) /\ Len(AllEnts(G, es)) = Len(es)
    BY <2>1, EntsTyped
  <2>3. Image(o, G) \in Seq(W)
    BY ImageOf
  <2>4. Image(ms, G) \in Seq(W)
    BY <1>1, ImageOf
  <2>5. QED
    BY <2>2, <2>3, <2>4
<1>5. AllEnts(G, t) = Append(AllEnts(G, es), Image(o, G))
  <2> DEFINE r == AllEnts(G, es)
  <2>1. r = [n \in 1 .. Len(es) |-> Ents(G, t[n])]
    BY <1>3 DEF AllEnts
  <2>2. AllEnts(G, t) = [n \in 1 .. Len(es) + 1 |-> Ents(G, t[n])] /\ Ents(G, t[Len(es) + 1]) = Image(o, G)
    BY <1>2, <1>3 DEF AllEnts
  <2>3. Len(r) = Len(es) /\ \A n \in 1 .. Len(es) : r[n] = Ents(G, t[n])
    BY <1>4, <2>1
  <2> HIDE DEF r
  <2>4. QED
    BY <1>3, <2>1, <2>2, <2>3 DEF r
<1>6. /\ FlattenSeq(AllEnts(G, es)) \in Seq(W)
      /\ FlattenSeq(AllEnts(G, t)) = FlattenSeq(AllEnts(G, es)) \o Image(o, G)
  BY <1>4, <1>5, FlattenLast
<1>7. ImageJoins(ms, o, G)
  BY <1>1, ImageConcat
<1>8. D \o FlattenSeq(AllEnts(G, t)) = Image(ms \o o, G)
  <2> DEFINE a == FlattenSeq(AllEnts(G, es))
             b == Image(o, G)
  <2>1. a \in Seq(W) /\ b \in Seq(W) /\ D \in Seq(W)
    BY <1>1, <1>4, <1>6
  <2> HIDE DEF a, b
  <2>2. (D \o a) \o b = D \o (a \o b)
    BY <2>1, ConcatThree
  <2>3. QED
    BY <1>1, <1>6, <1>7, <2>2 DEF a, b, ImageJoins
<1>9. ms \o o \in Seq(T)
  BY <1>1
<1>10. QED
  BY <1>1, <1>3, <1>8, <1>9 DEF Entered, J, t, j

LEMMA EvaluatedEntered ==
    ASSUME NEW T, NEW W, NEW G \in [T -> W], NEW es, NEW ms, NEW D, Entered(T, W, G, es, ms, D),
           NEW n \in 1 .. Len(es), ~es[n].ready,
           NEW fs, fs = [es EXCEPT ![n] = [ready |-> TRUE, entries |-> Image(es[n].matches, G)]]
    PROVE  Entered(T, W, G, fs, ms, D)
<1> DEFINE J == EvalJobs(T, W)
           j == [ready |-> TRUE, entries |-> Image(es[n].matches, G)]
<1>1. es \in Seq(J) /\ ms \in Seq(T) /\ D \in Seq(W) /\ D \o FlattenSeq(AllEnts(G, es)) = Image(ms, G)
  BY DEF Entered
<1>2. es[n] \in J
  BY <1>1
<1>3. es[n].matches \in Seq(T) /\ Ents(G, es[n]) = Image(es[n].matches, G)
  BY <1>2 DEF EvalJobs, Ents
<1>4. j \in J /\ Ents(G, j) = Ents(G, es[n])
  BY <1>3, ImageOf DEF EvalJobs, Ents
<1>5. fs = [es EXCEPT ![n] = j]
  OBVIOUS
<1> HIDE DEF J, j
<1>9. es \in Seq(J) /\ j \in J /\ n \in 1 .. Len(es)
  BY <1>1, <1>4
<1>6. fs \in Seq(J) /\ Len(fs) = Len(es) /\ \A i \in 1 .. Len(es) : fs[i] = IF i = n THEN j ELSE es[i]
  BY ONLY <1>5, <1>9
<1>7. AllEnts(G, fs) = AllEnts(G, es)
  <2>1. \A i \in 1 .. Len(es) : Ents(G, fs[i]) = Ents(G, es[i])
    BY <1>4, <1>6
  <2>2. QED
    BY <1>6, <2>1 DEF AllEnts
<1>8. QED
  BY <1>1, <1>6, <1>7 DEF Entered, J

LEMMA DeliveredEntered ==
    ASSUME NEW T, NEW W, NEW G \in [T -> W], NEW es, NEW ms, NEW D, Entered(T, W, G, es, ms, D),
           es # <<>>, Head(es).ready
    PROVE  Entered(T, W, G, Tail(es), ms, D \o Head(es).entries) /\ Head(es).entries \in Seq(W)
<1> DEFINE J == EvalJobs(T, W)
           j == Head(es)
           t == Tail(es)
<1>1. es \in Seq(J) /\ ms \in Seq(T) /\ D \in Seq(W) /\ D \o FlattenSeq(AllEnts(G, es)) = Image(ms, G)
  BY DEF Entered
<1>2. /\ j \in J /\ t \in Seq(J) /\ j = es[1] /\ Len(es) \in Nat \ {0} /\ Len(t) = Len(es) - 1
      /\ \A l \in 1 .. Len(t) : t[l] = es[l + 1]
  <2> HIDE DEF J
  <2>1. QED
    BY <1>1
<1>3. j.entries \in Seq(W) /\ Ents(G, j) = j.entries
  BY <1>2 DEF EvalJobs, Ents
<1>4. /\ AllEnts(G, es) \in Seq(Seq(W)) /\ Len(AllEnts(G, es)) = Len(es)
      /\ \A l \in 1 .. Len(es) : AllEnts(G, es)[l] = Ents(G, es[l])
  BY SMTT(40), <1>1, EntsTyped
<1> HIDE DEF t, j
<1>5. /\ AllEnts(G, t) \in Seq(Seq(W)) /\ Len(AllEnts(G, t)) = Len(t)
      /\ \A l \in 1 .. Len(t) : AllEnts(G, t)[l] = Ents(G, t[l])
  BY <1>2, EntsTyped
<1>6. FlattenSeq(AllEnts(G, es)) = j.entries \o FlattenSeq(AllEnts(G, t)) /\ FlattenSeq(AllEnts(G, t)) \in Seq(W)
  <2> DEFINE X == Seq(W)
             ss == AllEnts(G, es)
             tt == AllEnts(G, t)
  <2>1. ss \in Seq(X) /\ tt \in Seq(X) /\ Len(ss) = Len(es) /\ Len(tt) = Len(t)
    BY <1>4, <1>5
  <2>2. ss[1] = j.entries
    <3>1. 1 \in 1 .. Len(es)
      BY <1>2
    <3>2. QED
      BY <1>2, <1>3, <1>4, <3>1
  <2>3. ASSUME NEW l \in 1 .. Len(es) - 1 PROVE tt[l] = ss[l + 1]
    <3>1. l + 1 \in 1 .. Len(es) /\ l \in 1 .. Len(t)
      BY <1>2
    <3>2. t[l] = es[l + 1]
      BY <1>2, <3>1
    <3>3. QED
      BY <1>4, <1>5, <3>1, <3>2
  <2> HIDE DEF X, ss, tt
  <2>8. Len(ss) \in Nat \ {0} /\ Len(tt) = Len(ss) - 1 /\ \A l \in 1 .. Len(ss) - 1 : tt[l] = ss[l + 1]
    BY <1>2, <2>1, <2>3
  <2>9. ss # <<>>
    BY ONLY <2>1, <2>8
  <2>10. /\ ss[1] = Head(ss) /\ Tail(ss) \in Seq(X) /\ Len(Tail(ss)) = Len(ss) - 1
         /\ \A l \in 1 .. Len(ss) - 1 : Tail(ss)[l] = ss[l + 1]
    BY ONLY <2>1, <2>9, TailElements
  <2>11. Tail(ss) = tt
    <3> DEFINE u == Tail(ss)
    <3>1. u \in Seq(X) /\ tt \in Seq(X) /\ Len(u) = Len(tt) /\ \A l \in 1 .. Len(u) : u[l] = tt[l]
      BY ONLY <2>1, <2>8, <2>10
    <3> HIDE DEF u
    <3>2. u = tt
      BY ONLY <3>1
    <3>3. QED
      BY <3>2 DEF u
  <2>4. ss # <<>> /\ Head(ss) = j.entries /\ Tail(ss) = tt
    BY <2>2, <2>9, <2>10, <2>11
  <2>5. ss \in Seq(Seq(W))
    BY <2>1 DEF X
  <2>6. FlattenSeq(Tail(ss)) \in Seq(W) /\ FlattenSeq(ss) = Head(ss) \o FlattenSeq(Tail(ss))
    BY <2>4, <2>5, FlattenFirst
  <2>7. QED
    BY <2>4, <2>6 DEF ss, tt
<1>7. (D \o j.entries) \o FlattenSeq(AllEnts(G, t)) = D \o (j.entries \o FlattenSeq(AllEnts(G, t))) /\ D \o j.entries \in Seq(W)
  <2> DEFINE a == j.entries
             b == FlattenSeq(AllEnts(G, t))
  <2>1. a \in Seq(W) /\ b \in Seq(W) /\ D \in Seq(W)
    BY <1>1, <1>3, <1>6
  <2> HIDE DEF a, b
  <2>2. (D \o a) \o b = D \o (a \o b) /\ D \o a \in Seq(W)
    BY <2>1, ConcatThree
  <2>3. QED
    BY <2>2 DEF a, b
<1>8. Entered(T, W, G, t, ms, D \o j.entries)
  BY <1>1, <1>2, <1>6, <1>7 DEF Entered, J
<1>9. QED
  BY <1>3, <1>8 DEF t, j

\* The pairs of entries that match are pairs of one entry and a later one.
LEMMA RealLeads ==
    ASSUME NEW V, NEW E, TableSeq(V, E), NEW r \in Real(E)
    PROVE  LeadsInto(r, Len(E)) /\ \E q \in Ref(E) : r = RefMatch(E, q)
<1>1. PICK q \in Ref(E) : r = RefMatch(E, q)
  BY DEF Real
<1>2. E \in Seq(V) /\ Len(E) \in Nat /\ DOMAIN E = 1 .. Len(E)
  BY DEF TableSeq
<1>3. /\ q[1] \in 1 .. Len(E) /\ q[2] \in 1 .. Len(E) /\ F!Matching(E[q[1]].y, E[q[2]].y)
  BY <1>2 DEF Ref
<1> DEFINE a == q[1]
           b == q[2]
<1>4. F!Bucket(E[a].y) + 1 = F!Bucket(E[b].y) /\ F!Bucket(E[a].y) \in Nat /\ F!Bucket(E[b].y) \in Nat
  <2>1. F!Bucket(E[a].y) + 1 = F!Bucket(E[b].y)
    BY <1>3 DEF F!Matching
  <2>2. E[a] \in V /\ E[b] \in V
    BY <1>2, <1>3
  <2>3. QED
    BY <2>1, <2>2, BucketOf
<1>5. a <= b
  <2>1. ~(b <= a)
    <3> SUFFICES ASSUME b <= a PROVE FALSE
      OBVIOUS
    <3>1. F!Bucket(E[b].y) <= F!Bucket(E[a].y)
      BY <1>3, BucketOf
    <3>2. QED
      BY <1>4, <3>1
  <2>2. QED
    BY <1>3, <2>1
<1>6. r.pos = a - 1 /\ r.off = b - a
  BY <1>1 DEF RefMatch
<1> HIDE DEF a, b
<1>7. a \in 1 .. Len(E) /\ b \in 1 .. Len(E)
  BY <1>3 DEF a, b
<1>8. QED
  BY <1>1, <1>2, <1>5, <1>6, <1>7 DEF LeadsInto

\* What is made of a match
Vals == {F!Evaluated(m) : m \in Real(Left)}

EvalFn == [m \in Real(Left) |-> F!Evaluated(m)]

LEMMA EvalFnIs == EvalFn \in [Real(Left) -> Vals]
BY DEF EvalFn, Vals

LEMMA ValsAre ==
    ASSUME NEW V, TableSeq(V, Left)
    PROVE  /\ \A e \in Vals : LeadsInto(e, Len(Left)) /\ e.y \in Nat
           /\ \A d, e \in Vals : d.pos = e.pos /\ d.off = e.off => d = e
           /\ \A m, n \in Real(Left) : EvalFn[m] = EvalFn[n] => m = n
           /\ \A m \in Real(Left) : EvalFn[m].pos = m.pos /\ EvalFn[m].off = m.off
<1>1. ASSUME NEW e \in Vals
      PROVE  \E m \in Real(Left) : e = F!Evaluated(m) /\ e.pos = m.pos /\ e.off = m.off /\ e.y \in Nat /\ LeadsInto(e, Len(Left))
  <2>1. PICK m \in Real(Left) : e = F!Evaluated(m)
    BY DEF Vals
  <2>2. e.pos = m.pos /\ e.off = m.off /\ e.y \in Nat
    BY <2>1, EvaluatedIs
  <2>3. LeadsInto(m, Len(Left))
    BY RealLeads
  <2>4. QED
    BY <2>1, <2>2, <2>3 DEF LeadsInto
<1>2. ASSUME NEW m \in Real(Left), NEW n \in Real(Left), m.pos = n.pos, m.off = n.off
      PROVE  m = n
  <2>1. PICK q \in Ref(Left) : m = RefMatch(Left, q)
    BY RealLeads
  <2>2. PICK r \in Ref(Left) : n = RefMatch(Left, r)
    BY RealLeads
  <2>3. /\ q[1] \in Nat /\ q[2] \in Nat /\ r[1] \in Nat /\ r[2] \in Nat
    <3>1. Left \in Seq(V)
      BY DEF TableSeq
    <3>2. QED
      BY <3>1 DEF Ref
  <2>4. m.pos = q[1] - 1 /\ m.off = q[2] - q[1] /\ n.pos = r[1] - 1 /\ n.off = r[2] - r[1]
    BY <2>1, <2>2 DEF RefMatch
  <2>5. q[1] = r[1] /\ q[2] = r[2]
    <3> DEFINE a == q[1]
               b == q[2]
               c == r[1]
               d == r[2]
    <3>1. a \in Nat /\ b \in Nat /\ c \in Nat /\ d \in Nat /\ a - 1 = c - 1 /\ b - a = d - c
      BY <1>2, <2>3, <2>4
    <3> HIDE DEF a, b, c, d
    <3>2. a = c /\ b = d
      BY <3>1
    <3>3. QED
      BY <3>2 DEF a, b, c, d
  <2>6. QED
    BY <2>1, <2>2, <2>5 DEF RefMatch
<1>3. ASSUME NEW d \in Vals, NEW e \in Vals, d.pos = e.pos, d.off = e.off PROVE d = e
  <2>1. PICK m \in Real(Left) : d = F!Evaluated(m) /\ d.pos = m.pos /\ d.off = m.off
    BY <1>1
  <2>2. PICK n \in Real(Left) : e = F!Evaluated(n) /\ e.pos = n.pos /\ e.off = n.off
    BY <1>1
  <2>3. m = n
    BY <1>2, <1>3, <2>1, <2>2
  <2>4. QED
    BY <2>1, <2>2, <2>3
<1>4. \A m \in Real(Left) : EvalFn[m] = F!Evaluated(m) /\ EvalFn[m].pos = m.pos /\ EvalFn[m].off = m.off
  BY EvaluatedIs DEF EvalFn
<1>5. \A m, n \in Real(Left) : EvalFn[m] = EvalFn[n] => m = n
  BY <1>2, <1>4
<1>6. QED
  BY <1>1, <1>3, <1>4, <1>5

-----------------------------------------------------------------------------
(* What was made of the matches *)

Made(D) == IF R_index_1 = LastTable THEN R_tmp = D ELSE R_sort = ToSet(D)

Making ==
    /\ R_index_1 = 1 => R_sort \in SUBSET Seed /\ IsFiniteSet(R_sort)
    /\ R_index_1 < LastTable => R_tmp = <<>>
    /\ R_index_1 > LastTable =>
           Len(R_tmp) \in Nat /\ \A n \in 1 .. Len(R_tmp) : LeadsInto(R_tmp[n], Len(L_tmp[LastTable - 1]))
    /\ Working => \E D : Entered(Real(Left), Vals, EvalFn, evaluating, matches, D) /\ Made(D)

LEMMA MakingOrders ==
    ASSUME Turns, Slicing, Making
    PROVE  /\ R_index_1 < LastTable => Ordered(R_sort)
           /\ R_index_1 \in 2 .. LastTable - 1 => \A e \in R_sort : LeadsInto(e, Len(Left))
<1>1. CASE R_index_1 = 1
  BY <1>1 DEF Making, Ordered, Seed
<1>2. ASSUME R_index_1 # 1, R_index_1 < LastTable PROVE Ordered(R_sort) /\ \A e \in R_sort : LeadsInto(e, Len(Left))
  <2>1. Working /\ R_index_1 # LastTable
    BY <1>2, Parameters DEF Turns, Working
  <2>2. PICK D : Entered(Real(Left), Vals, EvalFn, evaluating, matches, D) /\ Made(D)
    BY <2>1 DEF Making
  <2>3. D \in Seq(Vals) /\ R_sort = ToSet(D)
    BY <2>1, <2>2 DEF Entered, Made
  <2>4. R_sort \subseteq Vals /\ IsFiniteSet(R_sort)
    BY <2>3, Elements, FiniteElements
  <2>5. TableSeq(LeftSet, Left)
    BY <2>1 DEF Slicing
  <2>6. /\ \A e \in Vals : LeadsInto(e, Len(Left)) /\ e.y \in Nat
        /\ \A d, e \in Vals : d.pos = e.pos /\ d.off = e.off => d = e
    BY <2>5, ValsAre
  <2>7. QED
    BY <1>2, <2>4, <2>6 DEF Ordered, LeadsInto
<1>3. QED
  BY <1>1, <1>2, Parameters DEF Turns

makingVars == <<R_index_1, table, R_sort, R_tmp, evaluating, matches>>

LEMMA EvaluationSame ==
    ASSUME R_index_1' = R_index_1, table' = table
    PROVE  /\ Left' = Left /\ LeftSet' = LeftSet /\ Real(Left)' = Real(Left) /\ Vals' = Vals /\ EvalFn' = EvalFn /\ Working' = Working
           /\ \A m : F!Evaluated(m)' = F!Evaluated(m)
<1>1. Left' = Left /\ LeftSet' = LeftSet /\ Working' = Working
  BY DEF Left, LeftSet, Working
<1>2. Real(Left)' = Real(Left)
  BY <1>1 DEF Real, Ref, RefMatch
<1>3. \A m : F!Evaluated(m)' = F!Evaluated(m)
  BY DEF F!Evaluated
<1>4. Vals' = Vals /\ EvalFn' = EvalFn
  BY <1>2, <1>3 DEF Vals, EvalFn
<1>5. QED
  BY <1>1, <1>2, <1>3, <1>4

LEMMA MakingSteady ==
    ASSUME Making, UNCHANGED makingVars, L_tmp' = L_tmp \/ Working
    PROVE  Making'
<1>1. Vals' = Vals /\ EvalFn' = EvalFn /\ Real(Left)' = Real(Left) /\ Working' = Working
  BY EvaluationSame DEF makingVars
<1>2. ~(R_index_1' > LastTable) \/ L_tmp' = L_tmp
  BY Parameters DEF makingVars, Working
<1>3. ASSUME Working' PROVE \E D : Entered(Real(Left)', Vals', EvalFn', evaluating', matches', D) /\ Made(D)'
  <2>1. PICK D : Entered(Real(Left), Vals, EvalFn, evaluating, matches, D) /\ Made(D)
    BY <1>1, <1>3 DEF Making
  <2>2. Made(D)' = Made(D)
    BY DEF Made, makingVars
  <2>3. QED
    BY <1>1, <2>1, <2>2 DEF makingVars
<1>4. (\E D : Entered(Real(Left), Vals, EvalFn, evaluating, matches, D) /\ Made(D))'
        <=> \E D : Entered(Real(Left)', Vals', EvalFn', evaluating', matches', D) /\ Made(D)'
  BY DEF Entered, AllEnts, Ents, EvalJobs
<1>5. QED
  BY <1>2, <1>3, <1>4 DEF Making, makingVars

LEMMA ComputeMaking ==
    ASSUME Turns, Making, F!ComputeSome
    PROVE  Making'
<1>1. PICK block \in 0 .. F!NumF1Blocks - 1 : F!ComputeF1(block)
  BY DEF F!ComputeSome
<1> DEFINE batch(i) == F!compute_block(id, (block * M + i) * 2 ^ LogBatch, 2 ^ LogBatch)
           S == UNION {F!ToSet(batch(i)) : i \in 0 .. M - 1}
<1>2. R_index_1 = 1 /\ R_index_1' = 1 /\ R_sort' = R_sort \cup S /\ R_tmp' = R_tmp /\ L_tmp' = L_tmp
  BY <1>1 DEF F!ComputeF1, F!left
<1>3. block \in Nat /\ 2 ^ LogBatch \in Nat
  <2>1. LogBatch \in Nat /\ k - LogBatch \in Nat
    BY Parameters
  <2>2. F!NumF1Blocks \in Nat
    <3>1. 2 ^ (k - LogBatch) \in Nat
      BY <2>1, PowerOfTwo
    <3> DEFINE p == 2 ^ (k - LogBatch)
    <3> HIDE DEF p
    <3>2. p \div M \in Nat
      BY <3>1, Parameters, Divided DEF p
    <3>3. QED
      BY <3>2 DEF F!NumF1Blocks, p
  <2>3. QED
    BY <2>1, <2>2, PowerOfTwo
<1>4. ASSUME NEW i \in 0 .. M - 1 PROVE F!ToSet(batch(i)) \in SUBSET Seed /\ IsFiniteSet(F!ToSet(batch(i)))
  <2> DEFINE p == 2 ^ LogBatch
             a == block * M
  <2>1. p \in Nat /\ i \in Nat /\ a \in Nat
    BY <1>3, Parameters
  <2>2. (a + i) * p \in Nat
    <3> HIDE DEF p, a
    <3>1. QED
      BY <2>1
  <2>3. batch(i) \in Seq(Seed)
    BY <2>1, <2>2, BatchIs
  <2> HIDE DEF batch
  <2>4. F!ToSet(batch(i)) = ToSet(batch(i))
    BY SameOperators
  <2>5. QED
    BY <2>3, <2>4, Elements, FiniteElements
<1>5. S \in SUBSET Seed /\ IsFiniteSet(S)
  <2> DEFINE f(i) == F!ToSet(batch(i))
             s == [n \in 1 .. M |-> f(n - 1)]
  <2>1. \A i \in 0 .. M - 1 : f(i) \in SUBSET Seed /\ IsFiniteSet(f(i))
    BY <1>4
  <2> HIDE DEF f
  <2>2. s \in Seq(SUBSET Seed)
    <3> DEFINE U == SUBSET Seed
    <3>1. \A n \in 1 .. M : f(n - 1) \in U
      BY <2>1, Parameters
    <3> HIDE DEF U
    <3>2. s \in Seq(U)
      BY <3>1, Parameters
    <3>3. QED
      BY <3>2 DEF U
  <2>3. ToSet(s) = {f(i) : i \in 0 .. M - 1}
    <3>1. ToSet(s) = {s[n] : n \in 1 .. M}
      BY Parameters DEF ToSet
    <3>2. \A i \in 0 .. M - 1 : i + 1 \in 1 .. M /\ (i + 1) - 1 = i
      BY Parameters
    <3>3. \A n \in 1 .. M : n - 1 \in 0 .. M - 1 /\ s[n] = f(n - 1)
      BY Parameters
    <3> HIDE DEF s
    <3>4. QED
      BY <3>1, <3>2, <3>3
  <2>4. IsFiniteSet(ToSet(s))
    BY <2>2, FiniteElements
  <2> HIDE DEF s
  <2>5. IsFiniteSet(UNION ToSet(s)) /\ UNION ToSet(s) \in SUBSET Seed
    BY <2>1, <2>3, <2>4, FS_UNION
  <2>6. S = UNION ToSet(s)
    BY <2>3 DEF f
  <2>7. QED
    BY <2>5, <2>6
<1>6. R_sort' \in SUBSET Seed /\ IsFiniteSet(R_sort')
  BY <1>2, <1>5, FS_Union DEF Making
<1>7. ~Working'
  BY <1>2, Parameters DEF Working
<1>8. QED
  BY <1>2, <1>6, <1>7, Parameters DEF Making

LEMMA DeliverMaking ==
    ASSUME Turns, Slicing, Pairing, Making, F!DeliverMatches
    PROVE  Making'
<1> DEFINE o == Head(matching).out
<1>1. /\ evaluating' = Append(evaluating, [ready |-> FALSE, matches |-> o]) /\ matches' = matches \o o
      /\ UNCHANGED <<R_index_1, table, R_sort, R_tmp>>
  BY DEF F!DeliverMatches, F!setting
<1>2. Working /\ o \in Seq(Real(Left))
  BY DeliverPairing
<1>3. PICK D : Entered(Real(Left), Vals, EvalFn, evaluating, matches, D) /\ Made(D)
  BY <1>2 DEF Making
<1>4. Vals' = Vals /\ EvalFn' = EvalFn /\ Real(Left)' = Real(Left) /\ Working' = Working
  BY <1>1, EvaluationSame
<1>5. Entered(Real(Left), Vals, EvalFn, evaluating', matches', D)
  <2> HIDE DEF o
  <2>1. Entered(Real(Left), Vals, EvalFn, Append(evaluating, [ready |-> FALSE, matches |-> o]), matches \o o, D)
    BY <1>2, <1>3, EvalFnIs, GivenEntered
  <2>2. QED
    BY <1>1, <2>1
<1>6. Made(D)' /\ ~(R_index_1' > LastTable)
  BY <1>1, <1>2, <1>3, Parameters DEF Made, Working
<1>7. \E d : Entered(Real(Left), Vals, EvalFn, evaluating, matches, d)' /\ Made(d)'
  BY <1>4, <1>5, <1>6 DEF Entered, AllEnts, Ents, EvalJobs
<1>8. QED
  BY <1>1, <1>6, <1>7 DEF Making

LEMMA FinishMaking ==
    ASSUME Turns, Slicing, Pairing, Making, F!Finish
    PROVE  Making'
<1> DEFINE o == Fitting(LastRaw(heap))
<1>1. UNCHANGED <<R_index_1, table, R_sort, R_tmp, L_tmp>>
  BY DEF F!Finish, F!setting, F!left
<1>2. /\ Working /\ o \in Seq(Real(Left)) /\ matches' = matches \o o
      /\ evaluating' = (IF F!LastPairLeft THEN Append(evaluating, [ready |-> FALSE, matches |-> o]) ELSE evaluating)
      /\ ~F!LastPairLeft => matches' = matches
  BY FinishPairing
<1> HIDE DEF o
<1>3. CASE ~F!LastPairLeft
  BY <1>1, <1>2, <1>3, MakingSteady DEF makingVars
<1>4. CASE F!LastPairLeft
  <2>1. PICK D : Entered(Real(Left), Vals, EvalFn, evaluating, matches, D) /\ Made(D)
    BY <1>2 DEF Making
  <2>2. Vals' = Vals /\ EvalFn' = EvalFn /\ Real(Left)' = Real(Left) /\ Working' = Working
    BY <1>1, EvaluationSame
  <2>3. Entered(Real(Left), Vals, EvalFn, evaluating', matches', D)
    <3>1. Entered(Real(Left), Vals, EvalFn, Append(evaluating, [ready |-> FALSE, matches |-> o]), matches \o o, D)
      BY <1>2, <2>1, EvalFnIs, GivenEntered
    <3>2. QED
      BY SMTT(40), <1>2, <1>4, <3>1
  <2>4. Made(D)' /\ ~(R_index_1' > LastTable)
    BY <1>1, <1>2, <2>1, Parameters DEF Made, Working
  <2>5. \E d : Entered(Real(Left), Vals, EvalFn, evaluating, matches, d)' /\ Made(d)'
    BY <2>2, <2>3, <2>4 DEF Entered, AllEnts, Ents, EvalJobs
  <2>6. QED
    BY <1>1, <2>4, <2>5 DEF Making
<1>5. QED
  BY <1>3, <1>4

LEMMA EvaluateMaking ==
    ASSUME Turns, Slicing, Making, F!EvaluateSome
    PROVE  Making'
<1>1. PICK n \in 1 .. Matchers : F!EvaluateJob(n)
  BY DEF F!EvaluateSome
<1>2. /\ n \in DOMAIN evaluating /\ ~evaluating[n].ready /\ UNCHANGED <<R_index_1, table, R_sort, R_tmp, L_tmp, matches>>
      /\ evaluating' = [evaluating EXCEPT ![n] =
             [ready |-> TRUE, entries |-> [i \in DOMAIN evaluating[n].matches |-> F!Evaluated(evaluating[n].matches[i])]]]
  BY <1>1 DEF F!EvaluateJob, F!setting, F!left
<1>3. Working
  <2>1. DOMAIN <<>> = {}
    OBVIOUS
  <2>2. evaluating # <<>>
    BY <1>2, <2>1
  <2>3. QED
    BY <2>2 DEF Turns, Idle
<1>4. PICK D : Entered(Real(Left), Vals, EvalFn, evaluating, matches, D) /\ Made(D)
  BY <1>3 DEF Making
<1>5. Vals' = Vals /\ EvalFn' = EvalFn /\ Real(Left)' = Real(Left) /\ Working' = Working
  BY <1>2, EvaluationSame
<1>6. evaluating \in Seq(EvalJobs(Real(Left), Vals)) /\ n \in 1 .. Len(evaluating)
  <2> DEFINE J == EvalJobs(Real(Left), Vals)
  <2>1. evaluating \in Seq(J)
    BY <1>4 DEF Entered
  <2> HIDE DEF J
  <2>2. n \in 1 .. Len(evaluating)
    BY <1>2, <2>1
  <2>3. QED
    BY <2>1, <2>2 DEF J
<1> DEFINE ms == evaluating[n].matches
<1>7. ms \in Seq(Real(Left))
  <2> DEFINE J == EvalJobs(Real(Left), Vals)
             j == evaluating[n]
  <2>1. j \in J
    BY <1>6
  <2>2. ~j.ready
    BY <1>2
  <2> HIDE DEF j
  <2>3. j.matches \in Seq(Real(Left))
    BY <2>1, <2>2 DEF EvalJobs
  <2>4. QED
    BY <2>3 DEF j
<1>8. [i \in DOMAIN ms |-> F!Evaluated(ms[i])] = Image(ms, EvalFn)
  <2> DEFINE T == Real(Left)
  <2> HIDE DEF ms
  <2>1. DOMAIN ms = 1 .. Len(ms) /\ \A i \in 1 .. Len(ms) : ms[i] \in T
    <3>1. ms \in Seq(T)
      BY <1>7
    <3> HIDE DEF T
    <3>2. QED
      BY <3>1
  <2>2. \A i \in 1 .. Len(ms) : EvalFn[ms[i]] = F!Evaluated(ms[i])
    BY <2>1 DEF EvalFn
  <2>3. QED
    BY <2>1, <2>2 DEF Image
<1>9. evaluating' = [evaluating EXCEPT ![n] = [ready |-> TRUE, entries |-> Image(evaluating[n].matches, EvalFn)]]
  BY <1>2, <1>8
<1>10. Entered(Real(Left), Vals, EvalFn, evaluating', matches', D)
  <2>1. Entered(Real(Left), Vals, EvalFn, evaluating', matches, D)
    BY <1>2, <1>4, <1>6, <1>9, EvalFnIs, EvaluatedEntered
  <2>2. QED
    BY <1>2, <2>1
<1>11. Made(D)' /\ ~(R_index_1' > LastTable)
  BY <1>2, <1>3, <1>4, Parameters DEF Made, Working
<1>12. \E d : Entered(Real(Left), Vals, EvalFn, evaluating, matches, d)' /\ Made(d)'
  BY <1>5, <1>10, <1>11 DEF Entered, AllEnts, Ents, EvalJobs
<1>13. QED
  BY <1>2, <1>11, <1>12 DEF Making

LEMMA AddMaking ==
    ASSUME Turns, Slicing, Making, F!DeliverEntries
    PROVE  Making'
<1>0. PICK e : e = Head(evaluating).entries
  OBVIOUS
<1>1. /\ evaluating # <<>> /\ Head(evaluating).ready /\ evaluating' = Tail(evaluating)
      /\ IF R_index_1 = LastTable THEN R_tmp' = R_tmp \o e /\ R_sort' = R_sort
         ELSE R_sort' = R_sort \cup F!ToSet(e) /\ R_tmp' = R_tmp
      /\ UNCHANGED <<R_index_1, table, L_tmp, matches>>
  BY <1>0 DEF F!DeliverEntries, F!setting, F!left
<1>2. Working
  BY <1>1 DEF Turns, Idle
<1>3. PICK D : Entered(Real(Left), Vals, EvalFn, evaluating, matches, D) /\ Made(D)
  BY <1>2 DEF Making
<1>4. Vals' = Vals /\ EvalFn' = EvalFn /\ Real(Left)' = Real(Left) /\ Working' = Working
  BY <1>1, EvaluationSame
<1>5. Entered(Real(Left), Vals, EvalFn, Tail(evaluating), matches, D \o e) /\ e \in Seq(Vals)
  BY <1>0, <1>1, <1>3, EvalFnIs, DeliveredEntered
<1>6. Made(D \o e)'
  <2>1. D \in Seq(Vals)
    BY <1>3 DEF Entered
  <2>2. ToSet(D \o e) = ToSet(D) \cup ToSet(e)
    <3>1. /\ D \o e \in Seq(Vals) /\ Len(D \o e) = Len(D) + Len(e) /\ Len(D) \in Nat /\ Len(e) \in Nat
          /\ \A i \in 1 .. Len(D) : (D \o e)[i] = D[i] /\ \A j \in 1 .. Len(e) : (D \o e)[Len(D) + j] = e[j]
      BY <1>5, <2>1
    <3>2. /\ ToSet(D) = {D[i] : i \in 1 .. Len(D)} /\ ToSet(e) = {e[i] : i \in 1 .. Len(e)}
          /\ ToSet(D \o e) = {(D \o e)[i] : i \in 1 .. Len(D) + Len(e)}
      BY <1>5, <2>1, <3>1, SetOf
    <3>3. \A i \in 1 .. Len(D) + Len(e) : i \in 1 .. Len(D) \/ (i - Len(D) \in 1 .. Len(e) /\ Len(D) + (i - Len(D)) = i)
      BY <3>1
    <3>4. ASSUME NEW x PROVE x \in ToSet(D \o e) <=> x \in ToSet(D) \cup ToSet(e)
      <4>1. ASSUME x \in ToSet(D \o e) PROVE x \in ToSet(D) \cup ToSet(e)
        <5>1. PICK i \in 1 .. Len(D) + Len(e) : x = (D \o e)[i]
          BY <3>2, <4>1
        <5>2. CASE i \in 1 .. Len(D)
          BY <3>2, <5>1, <5>2, <2>1, ConcatIs, <1>5
        <5>3. CASE i - Len(D) \in 1 .. Len(e) /\ Len(D) + (i - Len(D)) = i
          <6>1. (D \o e)[Len(D) + (i - Len(D))] = e[i - Len(D)]
            BY <1>5, <2>1, <5>3, ConcatIs
          <6>2. QED
            BY <3>2, <5>1, <5>3, <6>1
        <5>4. QED
          BY <3>3, <5>2, <5>3
      <4>2. ASSUME x \in ToSet(D) PROVE x \in ToSet(D \o e)
        <5>1. PICK i \in 1 .. Len(D) : x = D[i]
          BY <3>2, <4>2
        <5>2. (D \o e)[i] = D[i]
          BY <1>5, <2>1, ConcatIs
        <5>3. i \in 1 .. Len(D) + Len(e)
          BY <3>1
        <5>4. QED
          BY <3>2, <5>1, <5>2, <5>3
      <4>3. ASSUME x \in ToSet(e) PROVE x \in ToSet(D \o e)
        <5>1. PICK i \in 1 .. Len(e) : x = e[i]
          BY <3>2, <4>3
        <5>2. (D \o e)[Len(D) + i] = e[i]
          BY <1>5, <2>1, ConcatIs
        <5>3. Len(D) + i \in 1 .. Len(D) + Len(e)
          BY <3>1
        <5>4. QED
          BY <3>2, <5>1, <5>2, <5>3
      <4>4. QED
        BY <4>1, <4>2, <4>3
    <3>5. QED
      BY <3>4
  <2>3. F!ToSet(e) = ToSet(e)
    BY SameOperators
  <2>4. CASE R_index_1 = LastTable
    BY <1>1, <1>3, <2>4 DEF Made
  <2>5. CASE R_index_1 # LastTable
    BY <1>1, <1>3, <2>2, <2>3, <2>5 DEF Made
  <2>6. QED
    BY <2>4, <2>5
<1>7. ~(R_index_1' > LastTable) /\ R_index_1' # 1 /\ (R_index_1' < LastTable => R_tmp' = R_tmp)
  BY <1>1, <1>2, Parameters DEF Working
<1>8. \E d : Entered(Real(Left), Vals, EvalFn, evaluating, matches, d)' /\ Made(d)'
  <2>1. Entered(Real(Left), Vals, EvalFn, evaluating', matches', D \o e)
    BY <1>1, <1>5
  <2>2. QED
    BY <1>4, <1>6, <2>1 DEF Entered, AllEnts, Ents, EvalJobs
<1>9. QED
  BY <1>1, <1>7, <1>8 DEF Making

LEMMA FreshMaking ==
    ASSUME Turns, Slicing, Storing, Making, F!NextTable
    PROVE  Making'
<1>1. /\ Idle' /\ R_index_1' = R_index_1 + 1 /\ L_tmp' = L_tmp /\ R_tmp' = R_tmp /\ R_sort' = {}
      /\ R_index_1 \in 1 .. LastTable /\ (R_index_1 # 1 => F!TableComplete)
  BY FreshIsIdle
<1>2. R_index_1' # 1 /\ (R_index_1' <= LastTable => R_tmp' = <<>>)
  BY <1>1, Parameters DEF Making
<1>3. ASSUME R_index_1' > LastTable
      PROVE  Len(R_tmp') \in Nat /\ \A n \in 1 .. Len(R_tmp') : LeadsInto(R_tmp'[n], Len(L_tmp'[LastTable - 1]))
  <2>1. R_index_1 = LastTable /\ Working /\ R_index_1 # 1
    BY <1>1, <1>3, Parameters DEF Working
  <2>2. closed /\ L_queue = <<>>
    BY <1>1, <2>1 DEF F!TableComplete
  <2>3. Len(L_tmp[LastTable - 1]) = Len(Left)
    BY <2>1, <2>2, LeftComplete
  <2>4. PICK D : Entered(Real(Left), Vals, EvalFn, evaluating, matches, D) /\ Made(D)
    BY <2>1 DEF Making
  <2>5. R_tmp = D /\ D \in Seq(Vals)
    BY <2>1, <2>4 DEF Made, Entered
  <2>6. \A e \in Vals : LeadsInto(e, Len(Left))
    BY <2>1, ValsAre DEF Slicing
  <2>7. Len(D) \in Nat /\ \A n \in 1 .. Len(D) : D[n] \in Vals
    BY <2>5
  <2>8. QED
    BY <1>1, <2>3, <2>5, <2>6, <2>7
<1>4. ASSUME Working' PROVE \E d : Entered(Real(Left), Vals, EvalFn, evaluating, matches, d)' /\ Made(d)'
  <2>1. evaluating' = <<>> /\ matches' = <<>>
    BY <1>1 DEF Idle
  <2>2. Made(<<>>)'
    <3>1. R_tmp' = <<>> /\ ToSet(<<>>) = {}
      BY <1>2, <1>4, EmptySequence DEF Working
    <3>2. QED
      BY <1>1, <3>1 DEF Made
  <2>3. AllEnts(EvalFn', <<>>) = <<>> /\ Image(<<>>, EvalFn') = <<>>
    BY DEF AllEnts, Image
  <2>4. FlattenSeq(<<>>) = <<>>
    <3>1. <<>> \in Seq(Seq(Nat))
      OBVIOUS
    <3>2. Joined(<<>>, 0) = <<>> /\ Joined(<<>>, Len(<<>>)) = FlattenSeq(<<>>)
      BY <3>1, JoinedEnds
    <3>3. Len(<<>>) = 0
      OBVIOUS
    <3>4. QED
      BY <3>2, <3>3
  <2>5. Entered(Real(Left)', Vals', EvalFn', <<>>, <<>>, <<>>)
    <3>1. <<>> \o <<>> = <<>>
      OBVIOUS
    <3>2. QED
      BY <2>3, <2>4, <3>1 DEF Entered
  <2>6. Entered(Real(Left), Vals, EvalFn, evaluating, matches, <<>>)'
    BY <2>1, <2>5 DEF Entered, AllEnts, Ents, EvalJobs
  <2>7. QED
    BY <2>2, <2>6
<1>5. R_index_1' < LastTable => R_tmp' = <<>>
  BY <1>1, <1>2, Parameters
<1>6. QED
  BY <1>2, <1>3, <1>4, <1>5 DEF Making

LEMMA NextMaking ==
    ASSUME Turns, Slicing, Storing, Pairing, Making, F!Next
    PROVE  Making'
<1>1. CASE F!ComputeSome
  BY <1>1, ComputeMaking
<1>2. CASE F!SliceBlock \/ F!GiveLeft
  <2>1. UNCHANGED makingVars /\ L_tmp' = L_tmp
    BY <1>2 DEF F!SliceBlock, F!GiveLeft, F!setting, F!left, F!right, makingVars
  <2>2. QED
    BY <2>1, MakingSteady
<1>3. CASE F!WriteLeft
  <2>1. UNCHANGED makingVars /\ L_queue # <<>>
    BY <1>3 DEF F!WriteLeft, F!setting, F!right, makingVars
  <2>2. Working
    BY <2>1 DEF Turns, Idle
  <2>3. QED
    BY <2>1, <2>2, MakingSteady
<1>4. CASE F!MatchSome
  <2>1. UNCHANGED makingVars /\ L_tmp' = L_tmp
    BY <1>4 DEF F!MatchSome, F!MatchPair, F!setting, F!left, F!right, makingVars
  <2>2. QED
    BY <2>1, MakingSteady
<1>5. CASE F!DeliverMatches
  BY <1>5, DeliverMaking
<1>6. CASE F!Finish
  BY <1>6, FinishMaking
<1>7. CASE F!EvaluateSome
  BY <1>7, EvaluateMaking
<1>8. CASE F!DeliverEntries
  BY <1>8, AddMaking
<1>9. CASE F!NextTable
  BY <1>9, FreshMaking
<1>10. QED
  BY <1>1, <1>2, <1>3, <1>4, <1>5, <1>6, <1>7, <1>8, <1>9 DEF F!Next

-----------------------------------------------------------------------------
(* Forward propagation *)

Propagating == Turns /\ Slicing /\ Storing /\ Files /\ Pairing /\ Making

LEMMA InitPropagating == F!Init => Propagating
<1> SUFFICES ASSUME F!Init PROVE Propagating
  OBVIOUS
<1>1. Turns /\ Files
  BY InitTurns, InitFiles
<1>2. R_index_1 = 1 /\ R_sort = {} /\ R_tmp = <<>>
  BY DEF F!Init
<1>3. ~Working
  BY <1>2 DEF Working
<1>4. Slicing /\ Storing /\ Pairing
  BY <1>3 DEF Slicing, Storing, Pairing
<1>5. Making
  BY <1>2, <1>3, Parameters, FS_EmptySet DEF Making
<1>6. QED
  BY <1>1, <1>4, <1>5 DEF Propagating

LEMMA NextPropagating == Propagating /\ F!Next => Propagating'
<1> SUFFICES ASSUME Propagating, F!Next PROVE Propagating'
  OBVIOUS
<1>1. Turns /\ Slicing /\ Storing /\ Files /\ Pairing /\ Making
  BY DEF Propagating
<1>2. /\ R_index_1 < LastTable => Ordered(R_sort)
      /\ R_index_1 \in 2 .. LastTable - 1 => \A e \in R_sort : LeadsInto(e, Len(Left))
  BY <1>1, MakingOrders
<1>3. Turns'
  BY <1>1, NextTurns
<1>4. Slicing'
  BY <1>1, <1>2, NextSlicing
<1>5. Storing'
  <2>1. /\ DOMAIN L_tmp = 1 .. LastTable - 1
        /\ \A t \in 1 .. LastTable - 1 : t >= R_index_1 => L_tmp[t] = <<>>
    BY <1>1 DEF Files
  <2>2. QED
    BY <1>1, <2>1, NextStoring
<1>6. Files'
  BY <1>1, <1>2, NextFiles
<1>7. Pairing'
  BY <1>1, <1>4, NextPairing
<1>8. Making'
  BY <1>1, NextMaking
<1>9. QED
  BY <1>3, <1>4, <1>5, <1>6, <1>7, <1>8 DEF Propagating

LEMMA PropagatingSteady ==
    ASSUME Propagating, UNCHANGED phase_1
    PROVE  Propagating'
<1>1. UNCHANGED <<span, R_index_1, pending, closed, given_1, blocks, L_index, L_offset, L_bucket, heap, L_queue,
                  matching, evaluating, Fx, matches, num_found, num_written_1, table, L_tmp, R_tmp, R_sort>>
  BY DEF phase_1
<1>2. Turns'
  BY <1>1 DEF Propagating, Turns, Idle, Working
<1>3. Slicing'
  BY <1>1, SlicingSteady DEF Propagating, slicingVars
<1>4. Storing'
  BY <1>1, StoringSteady DEF Propagating, storingVars
<1>5. Files'
  BY <1>1, FilesSteady DEF Propagating, filesVars
<1>6. Pairing'
  BY <1>1, PairingSteady DEF Propagating, pairingVars
<1>7. Making'
  BY <1>1, MakingSteady DEF Propagating, makingVars
<1>8. QED
  BY <1>2, <1>3, <1>4, <1>5, <1>6, <1>7 DEF Propagating

LEMMA PropagatingReal == Propagating => F!MatchesAreReal
<1> SUFFICES ASSUME Propagating PROVE F!MatchesAreReal
  OBVIOUS
<1>1. F!Entries = Left
  BY SameOperators DEF F!Entries, Left
<1>2. ASSUME NEW n \in 1 .. Len(matches)
      PROVE  LET m == matches[n] IN
             /\ F!Matching(m.left.y, m.right.y)
             /\ m.left = Left[m.pos + 1] /\ m.right = Left[m.pos + m.off + 1]
             /\ closed /\ L_queue = <<>> =>
                  F!Assigned(<<m.left, m.right>>) = <<L_tmp[R_index_1 - 1][m.pos + 1], L_tmp[R_index_1 - 1][m.pos + m.off + 1]>>
  <2> DEFINE m == matches[n]
  <2>1. Working
    <3>1. matches # <<>>
      OBVIOUS
    <3>2. QED
      BY <3>1 DEF Propagating, Turns, Idle
  <2>2. matches \in Seq(Real(Left)) /\ TableSeq(LeftSet, Left)
    BY <2>1 DEF Propagating, Pairing, Matched, Slicing
  <2>3. m \in Real(Left)
    BY <2>2
  <2>4. PICK q \in Ref(Left) : m = RefMatch(Left, q)
    BY <2>3 DEF Real
  <2>5. /\ q[1] \in 1 .. Len(Left) /\ q[2] \in 1 .. Len(Left) /\ F!Matching(Left[q[1]].y, Left[q[2]].y)
        /\ Len(Left) \in Nat /\ Left \in Seq(LeftSet)
    BY <2>2 DEF Ref, TableSeq
  <2>6. m.pos = q[1] - 1 /\ m.off = q[2] - q[1] /\ m.left = Left[q[1]] /\ m.right = Left[q[2]]
    BY <2>4 DEF RefMatch
  <2>7. m.pos + 1 = q[1] /\ m.pos + m.off + 1 = q[2]
    <3> DEFINE a == q[1]
               b == q[2]
    <3>1. a \in Nat /\ b \in Nat /\ m.pos = a - 1 /\ m.off = b - a
      BY <2>5, <2>6
    <3> HIDE DEF a, b
    <3>2. m.pos + 1 = a /\ m.pos + m.off + 1 = b
      BY <3>1
    <3>3. QED
      BY <3>2 DEF a, b
  <2>8. ASSUME closed, L_queue = <<>>
        PROVE  F!Assigned(<<m.left, m.right>>) = <<L_tmp[R_index_1 - 1][m.pos + 1], L_tmp[R_index_1 - 1][m.pos + m.off + 1]>>
    <3>1. L_tmp[R_index_1 - 1] = F!Assigned(Left)
      BY <2>8, LeftComplete DEF Propagating
    <3> DEFINE f(e) == IF R_index_1 = 2 THEN [x |-> e.x] ELSE [pos |-> e.pos, off |-> e.off]
               s == <<m.left, m.right>>
    <3>2. F!Assigned(Left)[q[1]] = f(Left[q[1]]) /\ F!Assigned(Left)[q[2]] = f(Left[q[2]])
      BY <2>5, AssignedIs
    <3>3. DOMAIN s = {1, 2} /\ s[1] = Left[q[1]] /\ s[2] = Left[q[2]]
      BY <2>6
    <3>4. F!Assigned(s) = [i \in DOMAIN s |-> f(s[i])]
      BY DEF F!Assigned
    <3> HIDE DEF s, f
    <3>5. F!Assigned(s) = <<f(Left[q[1]]), f(Left[q[2]])>>
      BY <3>3, <3>4
    <3>6. QED
      BY <2>7, <3>1, <3>2, <3>5 DEF s
  <2>9. QED
    BY <2>5, <2>6, <2>7, <2>8
<1>3. QED
  BY <1>1, <1>2 DEF F!MatchesAreReal

\* When a table is complete, so is what was found for it.
LEMMA AllFound ==
    ASSUME Propagating, closed
    PROVE  /\ Working /\ TableSeq(LeftSet, Left)
           /\ \E R \in Seq(Real(Left)) :
                  /\ IsInjective(R) /\ ToSet(R) = Real(Left) /\ matches = Fitting(R) /\ num_found = Len(R)
<1>1. Working
  BY DEF Propagating, Turns, Idle
<1>2. /\ TableSeq(LeftSet, Left) /\ table \in Seq(Seq(LeftSet)) /\ blocks = Len(table) /\ matching = <<>>
  BY <1>1 DEF Propagating, Slicing
<1>3. Joined(table, blocks) = Left
  BY <1>2, JoinedEnds DEF Left
<1>4. Grouped(LeftSet, Left, heap, Len(Left))
  BY <1>1, <1>3, HeapGrouped DEF Propagating
<1> DEFINE R == AllRaw(heap, Len(heap))
           T == Real(Left)
<1>5. R \in Seq(T) /\ IsInjective(R) /\ ToSet(R) = T
  BY <1>2, <1>4, RawComplete
<1>6. Matched(Left, heap, Len(heap), <<>>, matches, num_found)
  BY <1>1, <1>2 DEF Propagating, Pairing, Complete
<1>7. /\ matches \in Seq(T) /\ num_found \in Nat /\ matches \o FlattenSeq(Outs(heap, <<>>)) = Fitting(R)
      /\ num_found + Len(FlattenSeq(Owed(heap, <<>>))) = Len(R)
  BY <1>6 DEF Matched
<1>8. FlattenSeq(Outs(heap, <<>>)) = <<>> /\ FlattenSeq(Owed(heap, <<>>)) = <<>> /\ Len(<<>>) = 0
  <2>1. Outs(heap, <<>>) = <<>> /\ Owed(heap, <<>>) = <<>>
    BY DEF Outs, Owed
  <2>2. <<>> \in Seq(Seq(T))
    OBVIOUS
  <2>3. Joined(<<>>, 0) = <<>> /\ Joined(<<>>, Len(<<>>)) = FlattenSeq(<<>>)
    BY <2>2, JoinedEnds
  <2>4. Len(<<>>) = 0
    OBVIOUS
  <2>5. QED
    BY <2>1, <2>3, <2>4
<1> HIDE DEF R, T
<1>9. matches = Fitting(R) /\ num_found = Len(R)
  <2>1. matches \o <<>> = matches
    BY <1>7
  <2>2. num_found + 0 = Len(R)
    BY <1>7, <1>8
  <2>3. QED
    BY <1>7, <1>8, <2>1, <2>2
<1>10. QED
  BY <1>1, <1>2, <1>5, <1>9 DEF T

\* The two places a match is at
Ends == [m \in Real(Left) |-> <<m.pos + 1, m.pos + m.off + 1>>]

LEMMA EndsAre ==
    ASSUME TableSeq(LeftSet, Left)
    PROVE  /\ Ends \in [Real(Left) -> Ref(Left)]
           /\ \A q \in Ref(Left) : RefMatch(Left, q) \in Real(Left) /\ Ends[RefMatch(Left, q)] = q
           /\ \A q \in Ref(Left) : q[1] \in Nat /\ q[2] \in Nat /\ q = <<q[1], q[2]>>
           /\ \A m \in Real(Left) : RefMatch(Left, Ends[m]) = m /\ m.pos = Ends[m][1] - 1 /\ m.off = Ends[m][2] - Ends[m][1]
<1>1. Left \in Seq(LeftSet) /\ DOMAIN Left = 1 .. Len(Left) /\ Len(Left) \in Nat
  BY DEF TableSeq
<1>2. ASSUME NEW q \in Ref(Left)
      PROVE  /\ q[1] \in Nat /\ q[2] \in Nat /\ q = <<q[1], q[2]>>
             /\ RefMatch(Left, q) \in Real(Left)
             /\ RefMatch(Left, q).pos = q[1] - 1 /\ RefMatch(Left, q).off = q[2] - q[1]
             /\ <<RefMatch(Left, q).pos + 1, RefMatch(Left, q).pos + RefMatch(Left, q).off + 1>> = q
  <2>1. q \in (1 .. Len(Left)) \X (1 .. Len(Left))
    BY <1>1 DEF Ref
  <2>2. q[1] \in Nat /\ q[2] \in Nat /\ q = <<q[1], q[2]>>
    BY <1>1, <2>1
  <2>3. RefMatch(Left, q).pos = q[1] - 1 /\ RefMatch(Left, q).off = q[2] - q[1]
    BY DEF RefMatch
  <2> DEFINE a == q[1]
             b == q[2]
             r == RefMatch(Left, q)
  <2>4. a \in Nat /\ b \in Nat /\ r.pos = a - 1 /\ r.off = b - a
    BY <2>2, <2>3
  <2>5. r.pos + 1 = a /\ r.pos + r.off + 1 = b
    <3> HIDE DEF a, b, r
    <3>1. QED
      BY <2>4
  <2>6. r \in Real(Left)
    BY DEF Real
  <2> HIDE DEF r
  <2>7. <<r.pos + 1, r.pos + r.off + 1>> = <<a, b>>
    BY <2>5
  <2>8. QED
    BY <2>2, <2>3, <2>6, <2>7 DEF r
<1>3. \A m \in Real(Left) : \E q \in Ref(Left) : m = RefMatch(Left, q)
  BY DEF Real
<1>4. Ends \in [Real(Left) -> Ref(Left)]
  <2>1. \A m \in Real(Left) : <<m.pos + 1, m.pos + m.off + 1>> \in Ref(Left)
    BY <1>2, <1>3
  <2>2. QED
    BY <2>1 DEF Ends
<1>5. \A q \in Ref(Left) : Ends[RefMatch(Left, q)] = q
  BY <1>2 DEF Ends
<1>6. \A m \in Real(Left) : RefMatch(Left, Ends[m]) = m /\ m.pos = Ends[m][1] - 1 /\ m.off = Ends[m][2] - Ends[m][1]
  BY <1>2, <1>3, <1>5
<1>7. QED
  BY <1>2, <1>4, <1>5, <1>6

LEMMA PropagatingComplete == Propagating => F!NoMatchLost
<1> SUFFICES ASSUME Propagating, closed, evaluating = <<>>
             PROVE  /\ {<<e.pos, e.off>> : e \in F!Made}
                         = {<<p[1] - 1, p[2] - p[1]>> : p \in {q \in F!Reference : q[1] <= 2 ^ PMAX}}
                    /\ F!IsInjective(matches) /\ num_written_1 = Len(matches) /\ num_written_1 = F!Cardinality(F!Made)
                    /\ num_found = F!Cardinality(F!Reference)
  BY DEF F!NoMatchLost
<1> DEFINE T == Real(Left)
<1>1. Working /\ TableSeq(LeftSet, Left)
  BY AllFound
<1>2. PICK R \in Seq(Real(Left)) : IsInjective(R) /\ ToSet(R) = Real(Left) /\ matches = Fitting(R) /\ num_found = Len(R)
  BY AllFound
<1>3. PICK D : Entered(Real(Left), Vals, EvalFn, evaluating, matches, D) /\ Made(D)
  BY <1>1 DEF Propagating, Making
<1>4. /\ EvalFn \in [T -> Vals]
      /\ \A m, n \in T : EvalFn[m] = EvalFn[n] => m = n
      /\ \A m \in T : EvalFn[m].pos = m.pos /\ EvalFn[m].off = m.off
  BY <1>1, ValsAre, EvalFnIs
<1>5. matches \in Seq(T) /\ IsInjective(matches) /\ \A m : m \in ToSet(matches) <=> m \in T /\ F!Fits(m.pos)
  BY <1>2, FittingIs
<1>6. D \in Seq(Vals) /\ D = Image(matches, EvalFn)
  <2>1. D \in Seq(Vals) /\ D \o FlattenSeq(AllEnts(EvalFn, <<>>)) = Image(matches, EvalFn)
    BY <1>3 DEF Entered
  <2>2. AllEnts(EvalFn, <<>>) = <<>>
    BY DEF AllEnts
  <2>3. FlattenSeq(<<>>) = <<>>
    <3>1. <<>> \in Seq(Seq(Vals))
      OBVIOUS
    <3>2. Joined(<<>>, 0) = <<>> /\ Joined(<<>>, Len(<<>>)) = FlattenSeq(<<>>)
      BY <3>1, JoinedEnds
    <3>3. Len(<<>>) = 0
      OBVIOUS
    <3>4. QED
      BY <3>2, <3>3
  <2>4. D \o <<>> = D
    BY <2>1
  <2>5. QED
    BY <2>1, <2>2, <2>3, <2>4
<1> HIDE DEF T
<1>7. /\ IsInjective(D) /\ Len(D) = Len(matches)
      /\ \A x : x \in ToSet(D) <=> \E y \in ToSet(matches) : x = EvalFn[y]
  <2>1. \A x, y \in ToSet(matches) : EvalFn[x] = EvalFn[y] => x = y
    BY <1>4, <1>5
  <2>2. QED
    BY <1>4, <1>5, <1>6, <2>1, ImageOf
<1>8. F!Made = ToSet(D)
  BY <1>3, SameOperators DEF Made, F!Made
<1>9. F!Reference = Ref(Left)
  <2>1. F!Entries = Left
    BY SameOperators DEF F!Entries, Left
  <2>2. QED
    BY <2>1 DEF F!Reference, Ref
<1>10. num_written_1 = Len(matches) /\ num_written_1 = F!Cardinality(F!Made) /\ F!IsInjective(matches)
  <2>1. num_written_1 = Len(matches)
    BY <1>1 DEF Propagating, Pairing
  <2>2. Cardinality(ToSet(D)) = Len(D)
    BY <1>6, <1>7, InjectiveLength
  <2>3. QED
    BY <1>5, <1>7, <1>8, <2>1, <2>2, SameOperators
<1>11. num_found = F!Cardinality(F!Reference)
  <2> DEFINE s == Image(R, Ends)
  <2>1. Ends \in [T -> Ref(Left)] /\ R \in Seq(T)
    BY <1>1, <1>2, EndsAre DEF T
  <2>2. \A x, y \in ToSet(R) : Ends[x] = Ends[y] => x = y
    BY <1>1, <1>2, EndsAre
  <2>3. /\ s \in Seq(Ref(Left)) /\ Len(s) = Len(R) /\ IsInjective(s)
        /\ \A x : x \in ToSet(s) <=> \E y \in ToSet(R) : x = Ends[y]
    <3>1. IsInjective(R)
      BY <1>2
    <3> DEFINE Q == Ref(Left)
    <3>2. Ends \in [T -> Q]
      BY <2>1
    <3> HIDE DEF Q
    <3>3. /\ Image(R, Ends) \in Seq(Q) /\ Len(Image(R, Ends)) = Len(R)
          /\ \A x : x \in ToSet(Image(R, Ends)) <=> \E y \in ToSet(R) : x = Ends[y]
          /\ (IsInjective(R) /\ \A x, y \in ToSet(R) : Ends[x] = Ends[y] => x = y) => IsInjective(Image(R, Ends))
      BY ONLY <2>1, <3>2, ImageOf
    <3>4. QED
      BY <2>2, <3>1, <3>3 DEF Q
  <2> HIDE DEF s
  <2>4. ToSet(s) = Ref(Left)
    <3>1. \A x : x \in ToSet(s) => x \in Ref(Left)
      BY <2>3, Elements
    <3>2. ASSUME NEW x \in Ref(Left) PROVE x \in ToSet(s)
      <4>1. RefMatch(Left, x) \in ToSet(R) /\ Ends[RefMatch(Left, x)] = x
        BY <1>1, <1>2, EndsAre
      <4>2. QED
        BY <2>3, <4>1
    <3>3. QED
      BY <3>1, <3>2
  <2>5. Cardinality(ToSet(s)) = Len(s)
    BY <2>3, InjectiveLength
  <2>6. QED
    BY <1>2, <1>9, <2>3, <2>4, <2>5, SameOperators
<1>12. {<<e.pos, e.off>> : e \in F!Made} = {<<p[1] - 1, p[2] - p[1]>> : p \in {q \in F!Reference : q[1] <= 2 ^ PMAX}}
  <2>1. ASSUME NEW q \in Ref(Left) PROVE F!Fits(q[1] - 1) <=> q[1] <= 2 ^ PMAX
    <3> DEFINE z == 2 ^ PMAX
               a == q[1]
    <3>1. a \in Nat /\ z \in Nat
      BY <1>1, EndsAre, Parameters, PowerOfTwo
    <3>2. F!Fits(a - 1) <=> a - 1 < z
      BY DEF F!Fits
    <3> HIDE DEF a, z
    <3>3. a - 1 < z <=> a <= z
      BY <3>1
    <3>4. QED
      BY <3>2, <3>3 DEF a, z
  <2>2. ASSUME NEW e \in F!Made
        PROVE  \E p \in {q \in F!Reference : q[1] <= 2 ^ PMAX} : <<e.pos, e.off>> = <<p[1] - 1, p[2] - p[1]>>
    <3>1. PICK m \in ToSet(matches) : e = EvalFn[m]
      BY <1>7, <1>8, <2>2
    <3>2. m \in Real(Left) /\ F!Fits(m.pos) /\ e.pos = m.pos /\ e.off = m.off
      BY <1>4, <1>5, <3>1 DEF T
    <3>3. Ends[m] \in Ref(Left) /\ m.pos = Ends[m][1] - 1 /\ m.off = Ends[m][2] - Ends[m][1]
      BY <1>1, <3>2, EndsAre
    <3>4. QED
      BY <1>9, <2>1, <3>2, <3>3
  <2>3. ASSUME NEW p \in {q \in F!Reference : q[1] <= 2 ^ PMAX}
        PROVE  \E e \in F!Made : <<e.pos, e.off>> = <<p[1] - 1, p[2] - p[1]>>
    <3> DEFINE m == RefMatch(Left, p)
    <3>1. p \in Ref(Left) /\ p[1] <= 2 ^ PMAX
      BY <1>9
    <3>2. m \in Real(Left) /\ m.pos = p[1] - 1 /\ m.off = p[2] - p[1]
      BY <1>1, <3>1, EndsAre DEF RefMatch
    <3> HIDE DEF m
    <3>3. F!Fits(m.pos)
      BY <2>1, <3>1, <3>2
    <3>4. m \in ToSet(matches)
      BY <1>5, <3>2, <3>3 DEF T
    <3>5. EvalFn[m] \in F!Made /\ EvalFn[m].pos = m.pos /\ EvalFn[m].off = m.off
      BY <1>4, <1>7, <1>8, <3>2, <3>4 DEF T
    <3>6. QED
      BY <3>2, <3>5
  <2> DEFINE A == {<<e.pos, e.off>> : e \in F!Made}
             B == {<<p[1] - 1, p[2] - p[1]>> : p \in {q \in F!Reference : q[1] <= 2 ^ PMAX}}
  <2>4. \A x : x \in A => x \in B
    BY <2>2
  <2>5. \A x : x \in B => x \in A
    BY <2>3
  <2>6. QED
    BY <2>4, <2>5
<1>13. QED
  BY <1>10, <1>11, <1>12

-----------------------------------------------------------------------------
(* The two phases together *)

\* What phase 1 hands over are tables phase 2 can go back through.
LEMMA OutputLinked == Propagating /\ R_index_1 > LastTable => Linked(Output)
<1> SUFFICES ASSUME Propagating, R_index_1 > LastTable PROVE Linked(Output)
  OBVIOUS
<1>1. LastTable \in Nat /\ LastTable >= 2 /\ R_index_1 = LastTable + 1
  BY BoundsAssumption DEF Propagating, Turns
<1>2. /\ \A t \in 1 .. LastTable - 1 : Len(L_tmp[t]) \in Nat
      /\ \A t \in 2 .. LastTable - 1 : \A n \in 1 .. Len(L_tmp[t]) : LeadsInto(L_tmp[t][n], Len(L_tmp[t - 1]))
  BY DEF Propagating, Files
<1>3. Len(R_tmp) \in Nat /\ \A n \in 1 .. Len(R_tmp) : LeadsInto(R_tmp[n], Len(L_tmp[LastTable - 1]))
  BY DEF Propagating, Making
<1>4. /\ DOMAIN Output = 1 .. LastTable /\ Output[LastTable] = R_tmp
      /\ \A i \in 1 .. LastTable - 1 : Output[i] = L_tmp[i]
  BY <1>1 DEF Output
<1>5. \A i \in 1 .. LastTable : Len(Output[i]) \in Nat
  <2> SUFFICES ASSUME NEW i \in 1 .. LastTable PROVE Len(Output[i]) \in Nat
    OBVIOUS
  <2>1. i = LastTable \/ i \in 1 .. LastTable - 1
    BY <1>1
  <2>2. QED
    BY <1>2, <1>3, <1>4, <2>1
<1>6. ASSUME NEW i \in 2 .. LastTable, NEW n \in 1 .. Len(Output[i])
      PROVE  LeadsInto(Output[i][n], Len(Output[i - 1]))
  <2>1. i - 1 \in 1 .. LastTable - 1 /\ (i = LastTable \/ i \in 2 .. LastTable - 1) /\ (i \in 2 .. LastTable - 1 => i \in 1 .. LastTable - 1)
    BY <1>1
  <2>2. Output[i - 1] = L_tmp[i - 1]
    BY <1>4, <2>1
  <2>3. CASE i = LastTable
    BY <1>3, <1>4, <2>2, <2>3
  <2>4. CASE i \in 2 .. LastTable - 1
    BY <1>2, <1>4, <2>1, <2>2, <2>4
  <2>5. QED
    BY <2>1, <2>3, <2>4
<1>7. QED
  BY <1>4, <1>5, <1>6 DEF Linked, LeadsInto

LEMMA TablesStart == TablesInit => Init /\ Propagating
BY InitPropagating DEF TablesInit

\* Every step of the two phases is one of phase 2 by itself, or none of its steps;
\* and the invariant of phase 1 outlasts the steps of phase 2.
LEMMA TablesSteps ==
    ASSUME Propagating, [TablesNext]_both
    PROVE  Propagating' /\ [Step]_vars
<1>1. CASE Forward
  BY <1>1, NextPropagating DEF Forward
<1>2. CASE Handover
  <2>1. Linked(Output) /\ Start(Output) /\ UNCHANGED phase_1
    BY <1>2, OutputLinked DEF Handover
  <2>2. Step
    BY <2>1 DEF Step
  <2>3. QED
    BY <2>1, <2>2, PropagatingSteady
<1>3. CASE Backward
  BY <1>3, PropagatingSteady DEF Backward, Step
<1>4. CASE UNCHANGED both
  BY <1>4, PropagatingSteady DEF both
<1>5. QED
  BY <1>1, <1>2, <1>3, <1>4 DEF TablesNext

LEMMA PropagatingHolds == Spec => []Propagating
<1>1. TablesInit => Propagating
  BY TablesStart
<1>2. Propagating /\ [TablesNext]_both => Propagating'
  BY TablesSteps
<1>3. QED
  BY <1>1, <1>2, PTL DEF Spec

\* Phase 2, which may be given any tables that are linked, see Safety in module
\* Phase2, is what phases 1 and 2 together do with the tables of phase 1.
THEOREM TablesAreHandedOver == Spec => Safety
<1>1. TablesInit => Init
  BY TablesStart
<1>2. Propagating /\ [TablesNext]_both => [Step]_vars
  BY TablesSteps
<1>3. QED
  BY <1>1, <1>2, PropagatingHolds, PTL DEF Spec, Safety

\* Every match a worker of match_pool or compute_matches() found is one, and its
\* position and distance are those of its two entries in the sorted table and in the
\* file L_write makes of it; and the tables phase 2 is given are linked.
THEOREM FoundMatchesAreReal == Spec => []MatchesAreReal
<1>1. Propagating /\ Backpropagating => MatchesAreReal
  BY PropagatingReal DEF MatchesAreReal, Backpropagating, Stages, Started
<1>2. QED
  BY <1>1, PropagatingHolds, TablesAreHandedOver, BackpropagatingHolds, PTL

\* When a table is complete, its entries are those of all pairs that match and have
\* room for their position, each made once, and the counters say how many were found
\* and how many are written.
THEOREM EveryMatchIsFound == Spec => []NoMatchLost
<1>1. Propagating => NoMatchLost
  BY PropagatingComplete DEF NoMatchLost
<1>2. QED
  BY <1>1, PropagatingHolds, PTL

\* In the tables phase 1 makes, too, exactly the entries that are needed are marked.
THEOREM TablesAreMarked == Spec => []MarksAreExact
BY TablesAreHandedOver, MarksTellWhatIsNeeded, PTL

\* And their positions, when phase 2 has rewritten them, lead to what they led to.
THEOREM TablesStayConnected == Spec => []PointersPreserved
BY TablesAreHandedOver, PointersArePreserved, PTL
=============================================================================
