-------------------------- MODULE MergeStageProofs --------------------------
(***************************************************************************)
(* Proofs that the merge of phase 3 stage 1 is right: for any number of    *)
(* merge threads and any streams that StreamsAssumption allows, every line *)
(* point is that of the entries its right entry stands for                 *)
(* (MergedIsExpected), no buffer is popped that a window needs             *)
(* (NothingPoppedTooEarly), no job reaches behind a window, and what a     *)
(* thread that throws has missed is in L_input (FailsOnlyAtTheEnd).        *)
(*                                                                         *)
(* The invariant, Merging, is a chain.  InputIsLatest: L_input is the      *)
(* latest blocks, one behind the other.  WindowsAreCuts: a window is a     *)
(* piece of the left table, and ends where a block of L_input begins or    *)
(* the last one ends.  CountsAreExact: copy_sync of a buffer is the number *)
(* of threads whose window is past it, so what LAppend pops is behind      *)
(* every window.  NothingBehind: the jobs being in order, what a thread    *)
(* drops is before all it has still to look up.  LookedUpRight and         *)
(* MergedRight: therefore what is found in a window is in the left table.  *)
(* Ending: after L_is_end the list holds all up to the last block, and a   *)
(* thread that throws has looked behind its window.                        *)
(***************************************************************************)
EXTENDS MergeStage, InductionFacts

-----------------------------------------------------------------------------
(* The parts of the invariant *)

\* The first n blocks of ss in one sequence, and how long it is
Begun(ss, n) == FlattenSeq([k \in 1 .. n |-> ss[k]])
Ends(ss, n) == Len(Begun(ss, n))

\* The blocks of the left table without its unused entries, and where they end
Lefts == Positions(Blocks)
LeftEnd(n) == Ends(Lefts, n)

\* How many blocks L_input was given, and how many it has lost
Pending == lpc \in {"append", "blocked"}
Appended == IF Pending THEN L_given - 1 ELSE L_given
Gone == Appended - Len(L_input)

\* The types of what the threads share, and of where they are.
Types ==
    /\ streams \in Streams
    /\ L_given \in 0 .. Len(Blocks) /\ L_num_read \in Nat
    /\ Pending => tmp \in Buffers
    /\ L_is_end \in BOOLEAN /\ R_is_end \in BOOLEAN
    /\ lpc \in {"idle", "append", "blocked", "notify"}
    /\ mpc \in [Merge -> {"idle", "entry", "copy", "blocked", "notify", "endcheck",
                          "turn", "outofbounds"}]
    /\ L_input \in Seq(Buffers)
    /\ L_buffer \in [Merge -> [offset : Nat, new_pos : Seq(Nat)]]
    /\ given \in 0 .. Len(Jobs) /\ delivered \in 0 .. Len(Jobs)
    /\ job \in [Merge -> 0 .. Len(Jobs)] /\ entry \in [Merge -> Nat]
    /\ \A i \in Merge : mpc[i] # "idle" => job[i] >= 1

\* The buffers in L_input are the latest blocks, one behind the other.
InputIsLatest ==
    /\ L_num_read = LeftEnd(L_given)
    /\ Pending => /\ L_given >= 1
                  /\ tmp = [offset |-> LeftEnd(Appended), new_pos |-> Lefts[L_given], copy_sync |-> NotCopied]
    /\ ~Pending => tmp = NoBuffer
    /\ Gone \in Nat
    /\ \A k \in 1 .. Len(L_input) :
        /\ L_input[k].offset = LeftEnd(Gone + k - 1)
        /\ L_input[k].new_pos = Lefts[Gone + k]

\* A window is a part of the left table that ends with a block: one of those in
\* L_input, or the last of those that are gone.
WindowsAreCuts ==
    \A i \in Merge :
        /\ \E c \in Gone .. Appended : WindowEnd(i) = LeftEnd(c)
        /\ \A x \in 1 .. Len(Window(i)) : Window(i)[x] = LeftTable[L_buffer[i].offset + x]

\* A buffer that is not empty was counted once by each thread whose window is past it.
Past(b) == {i \in Merge : WindowEnd(i) > b.offset}
CountsAreExact ==
    \A k \in 1 .. Len(L_input) :
        L_input[k].new_pos # <<>> => L_input[k].copy_sync = Cardinality(Past(L_input[k]))

\* A merge thread: in state m with entry number e of job j, its window begins at
\* `offset', before every entry it has still to look up.
Looking == {"copy", "blocked", "notify", "endcheck", "outofbounds"}
InOrderAt(jobs, m, j, e, offset) ==
    /\ \A k \in 1 .. Len(jobs) :
        (IF m \in {"idle", "turn"} THEN k > j ELSE k >= j) =>
            \A n \in 1 .. Len(jobs[k]) : offset <= jobs[k][n].pos
    /\ m \in Looking => e <= Len(jobs[j])

NothingBehind ==
    \A i \in Merge :
        /\ InOrderAt(Jobs, mpc[i], job[i], entry[i], L_buffer[i].offset)
        /\ job[i] <= given
        /\ mpc[i] = "outofbounds" => L_is_end

\* After the end of the left stream nothing more comes; and a thread that throws has
\* a position behind its window.
Ending ==
    /\ L_is_end => lpc = "idle" /\ L_given = Len(Blocks)
    /\ \A i \in Merge : mpc[i] = "outofbounds" => ~Found(i)

\* What a right entry e stands for in a left table, and what a merge thread has
\* looked up, o, of the entries of a job
InTable(table, e) == e.pos + e.off < Len(table)
LookUp(table, e) == <<table[e.pos + 1], table[e.pos + e.off + 1]>>
LinePointOf(table, e) == SquareToLinePoint(table[e.pos + 1], table[e.pos + e.off + 1])

LookedUpAt(table, entries, m, e, o) ==
    m # "idle" =>
        /\ e = Len(o) + 1 /\ Len(o) <= Len(entries)
        /\ \A n \in 1 .. Len(o) : InTable(table, entries[n]) /\ o[n] = LookUp(table, entries[n])
        /\ m = "turn" => Len(o) = Len(entries)

\* What was looked up is what the left table holds, and so is what was merged of it.
LookedUpRight ==
    /\ out \in [Merge -> Seq(Nat \X Nat)]
    /\ \A i \in Merge : LookedUpAt(LeftTable, Jobs[job[i]], mpc[i], entry[i], out[i])

MergedRight ==
    /\ merged \in Seq(Nat)
    /\ Len(merged) = Ends(Jobs, delivered)
    /\ \A n \in 1 .. Len(merged) :
        InTable(LeftTable, RightTable[n]) /\ merged[n] = LinePointOf(LeftTable, RightTable[n])

-----------------------------------------------------------------------------
(* Blocks of entries, and the table they make *)

LEMMA Concatenation ==
    ASSUME NEW V, NEW s \in Seq(V), NEW t \in Seq(V)
    PROVE  /\ s \o t \in Seq(V) /\ Len(s \o t) = Len(s) + Len(t) /\ Len(s) \in Nat /\ Len(t) \in Nat
           /\ \A x \in 1 .. Len(s) : (s \o t)[x] = s[x]
           /\ \A x \in 1 .. Len(t) : (s \o t)[Len(s) + x] = t[x]
OBVIOUS

LEMMA JoinedNext ==
    ASSUME NEW V, NEW ss \in Seq(Seq(V)), NEW n \in 1 .. Len(ss)
    PROVE  Begun(ss, n - 1) \in Seq(V) /\ Begun(ss, n) = Begun(ss, n - 1) \o ss[n]
<1> DEFINE m == n - 1
           sss == [k \in 1 .. m |-> ss[k]]
           ttt == [k \in 1 .. m + 1 |-> ss[k]]
<1>1. m \in Nat /\ m + 1 = n /\ n \in 1 .. m + 1
  OBVIOUS
<1>2. \A k \in 1 .. m + 1 : ss[k] \in Seq(V)
  OBVIOUS
<1> HIDE DEF m
<1>3. \A k \in 1 .. m : k \in 1 .. m + 1
  BY <1>1
<1>4. sss \in [1 .. m -> Seq(V)] /\ ttt \in [1 .. m + 1 -> Seq(V)]
  BY <1>2, <1>3
<1>5. \A k \in 1 .. m : ttt[k] = sss[k]
  BY <1>3
<1>6. ttt[m + 1] = ss[n]
  BY <1>1
<1> HIDE DEF sss, ttt
<1>7. FlattenSeq(sss) \in Seq(V) /\ FlattenSeq(ttt) = FlattenSeq(sss) \o ttt[m + 1]
  BY <1>1, <1>4, <1>5, FlattenAppend
<1>8. Begun(ss, n - 1) = FlattenSeq(sss) /\ Begun(ss, n) = FlattenSeq(ttt)
  BY <1>1 DEF Begun, m, sss, ttt
<1>9. QED
  BY <1>6, <1>7, <1>8

LEMMA JoinedAll ==
    ASSUME NEW V, NEW ss \in Seq(Seq(V))
    PROVE  /\ Begun(ss, 0) = <<>>
           /\ \A n \in 0 .. Len(ss) : Begun(ss, n) \in Seq(V)
           /\ Begun(ss, Len(ss)) = FlattenSeq(ss)
<1> DEFINE none == [k \in 1 .. 0 |-> ss[k]]
           same == [k \in 1 .. Len(ss) |-> ss[k]]
<1>1. Begun(ss, 0) = <<>>
  <2>1. none \in [1 .. 0 -> Seq(V)]
    OBVIOUS
  <2> HIDE DEF none
  <2>2. FlattenSeq(none) = <<>>
    BY <2>1, FlattenEmpty
  <2>3. QED
    BY <2>2 DEF Begun, none
<1>2. ASSUME NEW n \in 0 .. Len(ss) PROVE Begun(ss, n) \in Seq(V)
  <2>1. CASE n = 0
    <3>1. <<>> \in Seq(V)
      OBVIOUS
    <3>2. QED
      BY <1>1, <2>1, <3>1, Zenon
  <2>2. CASE n # 0
    <3>1. n \in 1 .. Len(ss) /\ ss[n] \in Seq(V)
      BY <2>2
    <3>2. Begun(ss, n - 1) \in Seq(V) /\ Begun(ss, n) = Begun(ss, n - 1) \o ss[n]
      BY <3>1, JoinedNext
    <3>3. Begun(ss, n - 1) \o ss[n] \in Seq(V)
      BY <3>1, <3>2, Concatenation
    <3>4. QED
      BY <3>2, <3>3
  <2>3. QED
    BY <2>1, <2>2
<1>3. Begun(ss, Len(ss)) = FlattenSeq(ss)
  <2>1. same = ss
    OBVIOUS
  <2>2. QED
    BY <2>1 DEF Begun
<1>4. QED
  BY <1>1, <1>2, <1>3

\* Where blocks end: each behind the one before by its length; and what is in a
\* block is in the table, behind the blocks before.
LEMMA BlocksInTable ==
    ASSUME NEW V, NEW ss \in Seq(Seq(V))
    PROVE  /\ FlattenSeq(ss) \in Seq(V)
           /\ Ends(ss, 0) = 0 /\ Ends(ss, Len(ss)) = Len(FlattenSeq(ss))
           /\ \A n \in 0 .. Len(ss) : Ends(ss, n) \in Nat
           /\ \A n \in 1 .. Len(ss) : Ends(ss, n) = Ends(ss, n - 1) + Len(ss[n])
           /\ \A m, n \in 0 .. Len(ss) : m <= n => Ends(ss, m) <= Ends(ss, n)
           /\ \A n \in 1 .. Len(ss) : \A x \in 1 .. Len(ss[n]) :
                FlattenSeq(ss)[Ends(ss, n - 1) + x] = ss[n][x]
<1> DEFINE J(n) == Begun(ss, n)
           Prefix(m, n) == Len(J(m)) <= Len(J(n)) /\ \A x \in 1 .. Len(J(m)) : J(n)[x] = J(m)[x]
           Good == {n \in 0 .. Len(ss) : \A m \in 0 .. n : Prefix(m, n)}
<1>1. /\ J(0) = <<>> /\ J(Len(ss)) = FlattenSeq(ss)
      /\ \A n \in 0 .. Len(ss) : J(n) \in Seq(V)
  BY JoinedAll
<1>2. \A n \in 1 .. Len(ss) : J(n) = J(n - 1) \o ss[n]
  BY JoinedNext
<1> HIDE DEF J
<1>3. \A n \in 1 .. Len(ss) :
        /\ J(n - 1) \in Seq(V) /\ ss[n] \in Seq(V)
        /\ Len(J(n)) = Len(J(n - 1)) + Len(ss[n]) /\ Len(ss[n]) \in Nat
        /\ \A x \in 1 .. Len(J(n - 1)) : J(n)[x] = J(n - 1)[x]
        /\ \A x \in 1 .. Len(ss[n]) : J(n)[Len(J(n - 1)) + x] = ss[n][x]
  <2> TAKE n \in 1 .. Len(ss)
  <2>1. n - 1 \in 0 .. Len(ss) /\ ss[n] \in Seq(V)
    OBVIOUS
  <2>2. J(n - 1) \in Seq(V)
    BY <1>1, <2>1
  <2>3. J(n) = J(n - 1) \o ss[n]
    BY <1>2
  <2>4. ss[n] \in Seq(V)
    BY <2>1
  <2> DEFINE s == J(n - 1)
             t == ss[n]
  <2>5. s \in Seq(V) /\ t \in Seq(V)
    BY <2>2, <2>4
  <2> HIDE DEF s, t
  <2>6. /\ Len(s \o t) = Len(s) + Len(t) /\ Len(t) \in Nat
        /\ \A x \in 1 .. Len(s) : (s \o t)[x] = s[x]
        /\ \A x \in 1 .. Len(t) : (s \o t)[Len(s) + x] = t[x]
    BY ONLY <2>5, Concatenation
  <2>7. QED
    BY <2>2, <2>3, <2>4, <2>6 DEF s, t
<1>4. Len(ss) \in Nat /\ \A n \in 0 .. Len(ss) : Len(J(n)) \in Nat
  BY <1>1
<1>5. 0 \in Good
  BY <1>1
<1>6. ASSUME NEW n \in 1 .. Len(ss), n - 1 \in Good PROVE n \in Good
  <2>1. ASSUME NEW m \in 0 .. n PROVE Prefix(m, n)
    <3>1. CASE m = n
      BY <3>1, <1>4
    <3>2. CASE m # n
      <4>1. m \in 0 .. n - 1 /\ n - 1 \in 0 .. Len(ss) /\ m \in 0 .. Len(ss)
        BY <3>2, <1>4
      <4>2. Prefix(m, n - 1)
        BY <4>1, <1>6
      <4>3. Len(J(n)) >= Len(J(n - 1))
        <5>1. Len(J(n)) = Len(J(n - 1)) + Len(ss[n]) /\ Len(ss[n]) \in Nat
          BY <1>3
        <5>2. Len(J(n - 1)) \in Nat
          BY <4>1, <1>4
        <5>3. \A a, b \in Nat : a + b >= a
          OBVIOUS
        <5>4. QED
          BY <5>1, <5>2, <5>3
      <4>4. \A x \in 1 .. Len(J(m)) : x \in 1 .. Len(J(n - 1))
        BY <4>1, <4>2, <1>4
      <4>5. Len(J(m)) <= Len(J(n))
        BY <4>1, <4>2, <4>3, <1>4
      <4>6. ASSUME NEW x \in 1 .. Len(J(m)) PROVE J(n)[x] = J(m)[x]
        <5>1. J(n - 1)[x] = J(m)[x]
          BY <4>2
        <5>2. J(n)[x] = J(n - 1)[x]
          BY <4>4, <1>3
        <5>3. QED
          BY <5>1, <5>2
      <4>7. QED
        BY <4>5, <4>6
    <3>3. QED
      BY <3>1, <3>2
  <2>2. QED
    BY <2>1
<1> HIDE DEF Good
<1>7. \A n \in 0 .. Len(ss) : n \in Good
  BY <1>4, <1>5, <1>6, Induction
<1>8. \A n \in 0 .. Len(ss) : \A m \in 0 .. n : Prefix(m, n)
  BY <1>7 DEF Good
<1>9. \A n \in 0 .. Len(ss) : Ends(ss, n) = Len(J(n))
  BY DEF Ends, J
<1>10. ASSUME NEW n \in 1 .. Len(ss), NEW x \in 1 .. Len(ss[n])
       PROVE  FlattenSeq(ss)[Ends(ss, n - 1) + x] = ss[n][x]
  <2>1. n \in 0 .. Len(ss) /\ n - 1 \in 0 .. Len(ss) /\ n \in 0 .. Len(ss) /\ Len(ss) \in 0 .. Len(ss) /\ Len(ss[n]) \in Nat
    BY <1>4
  <2>2. Prefix(n, Len(ss))
    BY <1>8, <2>1, <1>4
  <2>3. Len(J(n - 1)) + x \in 1 .. Len(J(n))
    <3>1. Len(J(n)) = Len(J(n - 1)) + Len(ss[n]) /\ Len(ss[n]) \in Nat
      BY <1>3
    <3>2. Len(J(n - 1)) \in Nat
      BY <2>1, <1>4
    <3>3. QED
      BY <3>1, <3>2
  <2>4. J(Len(ss))[Len(J(n - 1)) + x] = J(n)[Len(J(n - 1)) + x]
    BY <2>2, <2>3
  <2>5. J(n)[Len(J(n - 1)) + x] = ss[n][x]
    BY <1>3
  <2>6. QED
    BY <2>1, <2>4, <2>5, <1>1, <1>9
<1>11. /\ Ends(ss, 0) = 0 /\ Ends(ss, Len(ss)) = Len(FlattenSeq(ss))
       /\ \A n \in 0 .. Len(ss) : Ends(ss, n) \in Nat
  BY <1>1, <1>4, <1>9
<1>12. ASSUME NEW n \in 1 .. Len(ss) PROVE Ends(ss, n) = Ends(ss, n - 1) + Len(ss[n])
  <2>1. n \in 0 .. Len(ss) /\ n - 1 \in 0 .. Len(ss)
    BY <1>4
  <2>2. QED
    BY <2>1, <1>3, <1>9
<1>13. ASSUME NEW m \in 0 .. Len(ss), NEW n \in 0 .. Len(ss), m <= n PROVE Ends(ss, m) <= Ends(ss, n)
  <2>1. m \in 0 .. n
    BY <1>13
  <2>2. QED
    BY <2>1, <1>8, <1>9
<1>14. FlattenSeq(ss) \in Seq(V)
  BY <1>1, <1>4
<1> HIDE DEF Prefix
<1>15. QED
  BY <1>10, <1>11, <1>12, <1>13, <1>14

-----------------------------------------------------------------------------
LeftEntry == [used : BOOLEAN, new_pos : Nat]
RightEntry == [pos : Nat, off : Nat \ {0}]

\* What L_read_1 leaves of a block are positions.
LEMMA FilteredPositions ==
    ASSUME NEW block \in Seq(LeftEntry)
    PROVE  Filtered(block) \in Seq(Nat)
<1> DEFINE W == Seq(Nat)
           none == <<>>
           n == Len(block)
           step == [x \in 1 .. n |-> [v \in W |-> IF block[x].used THEN Append(v, block[x].new_pos) ELSE v]]
           Keeps(t) == t = [x \in 0 .. n |-> IF x = 0 THEN <<>>
                                             ELSE IF block[x].used THEN Append(t[x - 1], block[x].new_pos)
                                             ELSE t[x - 1]]
           kept == CHOOSE t : Keeps(t)
<1>1. n \in Nat /\ none \in W /\ \A x \in 1 .. n : block[x].new_pos \in Nat
  <2>1. \A x \in 1 .. n : block[x] \in LeftEntry
    OBVIOUS
  <2>2. n \in Nat /\ none \in W
    OBVIOUS
  <2> HIDE DEF n, none, W
  <2>3. QED
    BY <2>1, <2>2 DEF LeftEntry
<1>2. \E t : Keeps(t) /\ t \in [0 .. n -> W]
  <2>1. step \in [1 .. n -> [W -> W]]
    BY <1>1
  <2>2. \A x \in 1 .. n, v \in W :
            step[x][v] = IF block[x].used THEN Append(v, block[x].new_pos) ELSE v
    OBVIOUS
  <2> HIDE DEF step, W, none, n
  <2>3. PICK g \in [0 .. n -> W] : Solves(g, none, step, n)
    BY <1>1, <2>1, Recursion
  <2>4. g[0] = <<>>
    BY <2>3 DEF Solves, none
  <2>5. ASSUME NEW x \in 1 .. n
        PROVE  g[x] = IF block[x].used THEN Append(g[x - 1], block[x].new_pos) ELSE g[x - 1]
    <3>1. x - 1 \in 0 .. n
      BY <1>1
    <3>2. g[x - 1] \in W
      BY <3>1
    <3>3. g[x] = step[x][g[x - 1]]
      BY <2>3 DEF Solves
    <3>4. QED
      BY <3>2, <3>3, <2>2
  <2> DEFINE h == [x \in 0 .. n |-> IF x = 0 THEN <<>>
                                    ELSE IF block[x].used THEN Append(g[x - 1], block[x].new_pos)
                                    ELSE g[x - 1]]
  <2>6. \A x \in 0 .. n : g[x] = IF x = 0 THEN <<>>
                                    ELSE IF block[x].used THEN Append(g[x - 1], block[x].new_pos)
                                    ELSE g[x - 1]
    <3>1. \A x \in 0 .. n : x = 0 \/ x \in 1 .. n
      BY <1>1
    <3>2. \A x \in 1 .. n : x # 0
      BY <1>1
    <3>3. QED
      BY <3>1, <3>2, <2>4, <2>5, Zenon
  <2>7. \A x \in 0 .. n : h[x] = g[x]
    BY <2>6, Zenon
  <2>8. g = h
    <3>1. DOMAIN h = 0 .. n /\ h = [x \in DOMAIN h |-> h[x]]
      BY Zenon
    <3> HIDE DEF h
    <3>2. DOMAIN g = 0 .. n /\ g = [x \in DOMAIN g |-> g[x]]
      OBVIOUS
    <3>3. QED
      BY <3>1, <3>2, <2>7
  <2>9. Keeps(g)
    BY <2>8, Zenon
  <2> HIDE DEF Keeps
  <2>10. QED
    BY <2>9
<1> HIDE DEF Keeps
<1>3. Keeps(kept)
  BY <1>2
<1> USE DEF Keeps
<1>4. /\ kept[0] = <<>>
      /\ \A x \in 1 .. n : kept[x] = IF block[x].used THEN Append(kept[x - 1], block[x].new_pos) ELSE kept[x - 1]
  <2> DEFINE h == [x \in 0 .. n |-> IF x = 0 THEN <<>>
                                    ELSE IF block[x].used THEN Append(kept[x - 1], block[x].new_pos)
                                    ELSE kept[x - 1]]
  <2> HIDE DEF kept
  <2>1. kept = h
    BY <1>3, Zenon
  <2>2. \A x \in 0 .. n : h[x] = IF x = 0 THEN <<>>
                                    ELSE IF block[x].used THEN Append(kept[x - 1], block[x].new_pos)
                                    ELSE kept[x - 1]
    BY Zenon
  <2> HIDE DEF h, n
  <2>3. \A x \in 1 .. n : x \in 0 .. n /\ x # 0
    BY <1>1
  <2>4. 0 \in 0 .. n
    BY <1>1
  <2>5. QED
    BY <2>1, <2>2, <2>3, <2>4
<1>5. Filtered(block) = kept[n]
  BY DEF Filtered
<1> HIDE DEF Keeps, kept, n
<1> DEFINE Typed == {x \in 0 .. n : kept[x] \in Seq(Nat)}
<1>6. 0 \in Typed
  <2>1. <<>> \in Seq(Nat) /\ 0 \in 0 .. n
    BY <1>1
  <2>2. QED
    BY <2>1, <1>4
<1>7. ASSUME NEW x \in 1 .. n, x - 1 \in Typed PROVE x \in Typed
  <2>1. kept[x - 1] \in Seq(Nat) /\ block[x].new_pos \in Nat
    BY <1>1, <1>7
  <2>2. Append(kept[x - 1], block[x].new_pos) \in Seq(Nat)
    BY <2>1
  <2>3. kept[x] \in Seq(Nat)
    BY <2>1, <2>2, <1>4
  <2>4. QED
    BY <1>1, <2>3
<1> HIDE DEF Typed
<1>8. n \in Typed
  <2>1. \A x \in 0 .. n : x \in Typed
    BY <1>1, <1>6, <1>7, Induction
  <2>2. QED
    BY <1>1, <2>1
<1>9. QED
  BY <1>5, <1>8 DEF Typed

LEMMA StreamFacts ==
    ASSUME NEW s \in Streams
    PROVE  /\ Positions(s.left) \in Seq(Seq(Nat)) /\ Len(Positions(s.left)) = Len(s.left)
           /\ Len(s.left) \in Nat /\ Len(s.jobs) \in Nat
           /\ \A n \in 1 .. Len(s.left) : Positions(s.left)[n] = Filtered(s.left[n])
           /\ s.jobs \in Seq(Seq(RightEntry))
<1>1. s.left \in Seq(Seq(LeftEntry)) /\ s.jobs \in Seq(Seq(RightEntry))
  BY StreamsAssumption DEF LeftEntry, RightEntry
<1>2. \A n \in 1 .. Len(s.left) : Filtered(s.left[n]) \in Seq(Nat)
  BY <1>1, FilteredPositions
<1>3. DOMAIN s.left = 1 .. Len(s.left) /\ Len(s.left) \in Nat
  BY <1>1
<1> DEFINE p == [n \in 1 .. Len(s.left) |-> Filtered(s.left[n])]
<1>4. p \in Seq(Seq(Nat)) /\ Len(p) = Len(s.left) /\ \A n \in 1 .. Len(s.left) : p[n] = Filtered(s.left[n])
  BY <1>2, <1>3
<1>5. Positions(s.left) = p
  BY <1>3 DEF Positions
<1>6. QED
  BY <1>1, <1>3, <1>4, <1>5

-----------------------------------------------------------------------------
(* Line points *)

LEMMA NextXEnc ==
    ASSUME NEW x \in Nat
    PROVE  GetXEnc(x) \in Nat /\ GetXEnc(x + 1) = GetXEnc(x) + x
<1>1. CASE x % 2 = 0
  <2>1. PICK k \in Nat : x = 2 * k
    BY <1>1
  <2>2. x \div 2 = k /\ (x + 1) % 2 = 1 /\ (x + 1 - 1) \div 2 = k
    BY <2>1
  <2>3. GetXEnc(x) = k * (2 * k - 1) /\ GetXEnc(x + 1) = (2 * k + 1) * k
    BY <1>1, <2>1, <2>2 DEF GetXEnc
  <2>4. (2 * k + 1) * k = k * (2 * k - 1) + 2 * k
    BY <2>1
  <2>5. k * (2 * k - 1) \in Nat
    <3>1. CASE k = 0
      BY <3>1
    <3>2. CASE k # 0
      <4>1. k \in Nat /\ 2 * k - 1 \in Nat
        BY <3>2
      <4>2. QED
        BY <4>1
    <3>3. QED
      BY <3>1, <3>2
  <2>6. QED
    BY <2>1, <2>3, <2>4, <2>5
<1>2. CASE x % 2 = 1
  <2>1. PICK k \in Nat : x = 2 * k + 1
    BY <1>2
  <2>2. (x - 1) \div 2 = k /\ (x + 1) % 2 = 0 /\ (x + 1) \div 2 = k + 1
    BY <2>1
  <2>3. GetXEnc(x) = (2 * k + 1) * k /\ GetXEnc(x + 1) = (k + 1) * (2 * k + 1)
    BY <1>2, <2>1, <2>2 DEF GetXEnc
  <2>4. (k + 1) * (2 * k + 1) = (2 * k + 1) * k + (2 * k + 1) /\ (2 * k + 1) * k \in Nat
    BY <2>1
  <2>5. QED
    BY <2>1, <2>3, <2>4
<1>3. QED
  BY <1>1, <1>2

LEMMA XEncGrows ==
    ASSUME NEW x \in Nat, NEW y \in Nat, x <= y
    PROVE  GetXEnc(x) <= GetXEnc(y)
<1> DEFINE Above == {d \in 0 .. y - x : GetXEnc(x) <= GetXEnc(x + d)}
<1>1. 0 \in Above
  BY NextXEnc
<1>2. ASSUME NEW d \in 1 .. y - x, d - 1 \in Above PROVE d \in Above
  <2>1. x + (d - 1) \in Nat /\ x + (d - 1) + 1 = x + d
    OBVIOUS
  <2>2. GetXEnc(x + d) = GetXEnc(x + (d - 1)) + (x + (d - 1)) /\ GetXEnc(x + (d - 1)) \in Nat
    BY <2>1, NextXEnc
  <2>3. GetXEnc(x) <= GetXEnc(x + (d - 1)) /\ GetXEnc(x) \in Nat
    BY <1>2, NextXEnc
  <2>4. QED
    BY <2>1, <2>2, <2>3
<1> HIDE DEF Above
<1>3. y - x \in Nat /\ y - x \in 0 .. y - x /\ x + (y - x) = y
  OBVIOUS
<1>4. y - x \in Above
  BY <1>1, <1>2, <1>3, Induction
<1>5. QED
  BY <1>3, <1>4 DEF Above

\* Encoding::LinePointToSquare() finds the two positions again.
LEMMA LinePointIsSquare ==
    ASSUME NEW x \in Nat, NEW y \in Nat, x # y
    PROVE  SquareToLinePoint(x, y) \in Nat /\ LinePointToSquare(SquareToLinePoint(x, y)) = {x, y}
<1>1. ASSUME NEW a \in Nat, NEW b \in Nat, b < a
      PROVE  GetXEnc(a) + b \in Nat /\ LinePointToSquare(GetXEnc(a) + b) = {a, b}
  <2> DEFINE index == GetXEnc(a) + b
             S == {n \in 0 .. index + 1 : GetXEnc(n) <= index}
  <2>1. GetXEnc(a) \in Nat /\ GetXEnc(a + 1) = GetXEnc(a) + a
    BY NextXEnc
  <2>2. index \in Nat /\ index < GetXEnc(a + 1) /\ GetXEnc(a) <= index /\ index - GetXEnc(a) = b
    BY <2>1, <1>1
  <2>3. a <= index + 1
    <3>1. a - 1 \in Nat /\ (a - 1) + 1 = a
      BY <1>1
    <3>2. GetXEnc(a) = GetXEnc(a - 1) + (a - 1) /\ GetXEnc(a - 1) \in Nat
      BY <3>1, NextXEnc
    <3>3. QED
      BY <3>1, <3>2, <2>1
  <2>4. LinePointToSquare(index) = {Max(S), index - GetXEnc(Max(S))}
    BY DEF LinePointToSquare
  <2> HIDE DEF index
  <2>5. a \in S
    BY <2>2, <2>3
  <2>6. ASSUME NEW n \in S PROVE n <= a
    <3>1. SUFFICES ASSUME n > a PROVE FALSE
      BY <2>2
    <3>2. n \in Nat /\ a + 1 \in Nat /\ a + 1 <= n /\ GetXEnc(n) <= index
      BY <3>1, <2>2
    <3>3. GetXEnc(a + 1) <= GetXEnc(n) /\ GetXEnc(a + 1) \in Nat /\ GetXEnc(n) \in Nat
      BY <3>2, XEncGrows, NextXEnc
    <3>4. QED
      BY <3>2, <3>3, <2>2
  <2>7. \A n \in S : n \in Nat
    BY <2>2
  <2> HIDE DEF S
  <2>8. Max(S) = a
    <3>1. \A m \in S : (\A n \in S : m >= n) => m = a
      BY <2>5, <2>6, <2>7
    <3>2. \A n \in S : a >= n
      BY <2>6, <2>7
    <3>3. QED
      BY <3>1, <3>2, <2>5 DEF Max
  <2>9. QED
    BY <2>2, <2>4, <2>8 DEF index
<1>2. CASE y > x
  BY <1>1, <1>2 DEF SquareToLinePoint
<1>3. CASE x > y
  <2>1. ~(y > x)
    BY <1>3
  <2>2. SquareToLinePoint(x, y) = GetXEnc(x) + y
    BY <2>1 DEF SquareToLinePoint
  <2>3. QED
    BY <1>1, <1>3, <2>2
<1>4. QED
  BY <1>2, <1>3

-----------------------------------------------------------------------------
(* The list of left buffers *)

\* What LAppend leaves of the list: all but the first d buffers, each of which
\* was copied by all.
DropsFront(list, d) ==
    /\ Popped(list) \in Seq(Buffers) /\ Len(Popped(list)) = Len(list) - d
    /\ \A k \in 1 .. Len(list) - d : Popped(list)[k] = list[d + k]
    /\ \A k \in 1 .. d : CopiedByAll(list[k])

LEMMA PoppedFront ==
    ASSUME NEW list \in Seq(Buffers)
    PROVE  \E d \in 0 .. Len(list) : DropsFront(list, d)
<1> DEFINE keep == {k \in 1 .. Len(list) : ~CopiedByAll(list[k])}
           first == IF keep = {} THEN Len(list) + 1 ELSE CHOOSE k \in keep : \A h \in keep : k <= h
           d == first - 1
<1>1. Len(list) \in Nat /\ keep \subseteq 1 .. Len(list) /\ keep \in SUBSET Nat
  OBVIOUS
<1>2. Popped(list) = SubSeq(list, first, Len(list))
  BY DEF Popped
<1>3. first \in 1 .. Len(list) + 1 /\ \A k \in keep : k >= first
  <2>1. CASE keep = {}
    BY <1>1, <2>1
  <2>2. CASE keep # {}
    <3>1. \E k \in keep : \A h \in keep : k <= h
      <4> HIDE DEF keep
      <4>1. QED
        BY <1>1, <2>2, LeastElement
    <3>2. first = CHOOSE k \in keep : \A h \in keep : k <= h
      BY <2>2
    <3>3. first \in keep /\ \A h \in keep : first <= h
      <4> HIDE DEF keep, first
      <4>1. QED
        BY <3>1, <3>2
    <3> HIDE DEF keep, first
    <3>4. QED
      BY <1>1, <3>3
  <2>3. QED
    BY <2>1, <2>2
<1>4. \A k \in 1 .. d : CopiedByAll(list[k])
  <2> HIDE DEF first
  <2>1. ASSUME NEW k \in 1 .. d PROVE k \in 1 .. Len(list) /\ k \notin keep
    BY <1>1, <1>3
  <2>2. QED
    BY <2>1
<1> HIDE DEF keep, first
<1>5. /\ SubSeq(list, first, Len(list)) \in Seq(Buffers)
      /\ Len(SubSeq(list, first, Len(list))) = Len(list) - d
      /\ \A k \in 1 .. Len(list) - d : SubSeq(list, first, Len(list))[k] = list[d + k]
  <2> HIDE DEF Buffers
  <2>1. \A a \in 1 .. Len(list) + 1 :
            /\ SubSeq(list, a, Len(list)) \in Seq(Buffers)
            /\ Len(SubSeq(list, a, Len(list))) = Len(list) - (a - 1)
            /\ \A k \in 1 .. Len(list) - (a - 1) : SubSeq(list, a, Len(list))[k] = list[a - 1 + k]
    BY <1>1
  <2>2. QED
    BY <1>3, <2>1
<1>6. d \in 0 .. Len(list)
  BY <1>1, <1>3
<1> HIDE DEF d
<1>7. DropsFront(list, d)
  BY <1>2, <1>4, <1>5 DEF DropsFront
<1>8. QED
  BY <1>6, <1>7

\* Copy's pass, buffer by buffer: the window and the buffers copied so far.
PassState == [new_pos : Seq(Nat), copied : SUBSET Nat]
Passes(f, list, offset, new_pos) ==
    /\ f[0] = [new_pos |-> new_pos, copied |-> {}]
    /\ \A k \in 1 .. Len(list) :
        f[k] = IF FollowsWindow(list[k], offset + Len(f[k - 1].new_pos))
               THEN [new_pos |-> f[k - 1].new_pos \o list[k].new_pos, copied |-> f[k - 1].copied \cup {k}]
               ELSE f[k - 1]

LEMMA PassIsStepwise ==
    ASSUME NEW i, L_input \in Seq(Buffers), Window(i) \in Seq(Nat)
    PROVE  \E f \in [0 .. Len(L_input) -> PassState] :
                /\ Passes(f, L_input, L_buffer[i].offset, Window(i))
                /\ Pass(i) = f[Len(L_input)]
<1> DEFINE W == PassState
           n == Len(L_input)
           offset == L_buffer[i].offset
           base == [new_pos |-> Window(i), copied |-> {}]
           Taken(v, k) == [new_pos |-> v.new_pos \o L_input[k].new_pos, copied |-> v.copied \cup {k}]
           Next1(v, k) == IF FollowsWindow(L_input[k], offset + Len(v.new_pos)) THEN Taken(v, k) ELSE v
           step == [k \in 1 .. n |-> [v \in W |-> Next1(v, k)]]
           Solved(t) == t = [k \in 0 .. n |-> IF k = 0 THEN base ELSE Next1(t[k - 1], k)]
           pass == CHOOSE t : Solved(t)
<1>1. n \in Nat /\ base \in W
  BY DEF PassState
<1>2. ASSUME NEW k \in 1 .. n, NEW v \in W PROVE Next1(v, k) \in W
  <2>1. L_input[k].new_pos \in Seq(Nat) /\ v.new_pos \in Seq(Nat) /\ v.copied \in SUBSET Nat /\ k \in Nat
    <3>1. L_input[k] \in Buffers /\ k \in Nat
      OBVIOUS
    <3>2. L_input[k].new_pos \in Seq(Nat)
      BY <3>1 DEF Buffers
    <3>3. v.new_pos \in Seq(Nat) /\ v.copied \in SUBSET Nat
      BY DEF PassState
    <3>4. QED
      BY <3>1, <3>2, <3>3
  <2>2. v.new_pos \o L_input[k].new_pos \in Seq(Nat)
    BY <2>1, Concatenation
  <2>3. Taken(v, k) \in W
    BY <2>1, <2>2 DEF PassState
  <2> HIDE DEF Taken, W
  <2>4. QED
    BY <2>3
<1>3. \E t : Solved(t) /\ t \in [0 .. n -> W]
  <2> HIDE DEF W, base, Taken, Next1, n
  <2>1. step \in [1 .. n -> [W -> W]]
    BY <1>2
  <2>2. \A k \in 1 .. n, v \in W : step[k][v] = Next1(v, k)
    OBVIOUS
  <2> HIDE DEF step
  <2>3. PICK g \in [0 .. n -> W] : Solves(g, base, step, n)
    BY <1>1, <2>1, Recursion
  <2>4. g[0] = base
    BY <2>3 DEF Solves
  <2>5. ASSUME NEW k \in 1 .. n PROVE g[k] = Next1(g[k - 1], k)
    <3>1. k - 1 \in 0 .. n
      BY <1>1
    <3>2. g[k - 1] \in W
      BY <3>1
    <3>3. g[k] = step[k][g[k - 1]]
      BY <2>3 DEF Solves
    <3>4. QED
      BY <3>2, <3>3, <2>2
  <2> DEFINE h == [k \in 0 .. n |-> IF k = 0 THEN base ELSE Next1(g[k - 1], k)]
  <2>6. \A k \in 0 .. n : g[k] = IF k = 0 THEN base ELSE Next1(g[k - 1], k)
    <3>1. \A k \in 0 .. n : k = 0 \/ k \in 1 .. n
      BY <1>1
    <3>2. \A k \in 1 .. n : k # 0
      BY <1>1
    <3>3. QED
      BY <3>1, <3>2, <2>4, <2>5, Zenon
  <2>7. \A k \in 0 .. n : h[k] = g[k]
    BY <2>6, Zenon
  <2>8. g = h
    <3>1. DOMAIN h = 0 .. n /\ h = [k \in DOMAIN h |-> h[k]]
      BY Zenon
    <3> HIDE DEF h
    <3>2. DOMAIN g = 0 .. n /\ g = [k \in DOMAIN g |-> g[k]]
      OBVIOUS
    <3>3. QED
      BY <3>1, <3>2, <2>7
  <2>9. Solved(g)
    BY <2>8, Zenon
  <2> HIDE DEF Solved
  <2>10. QED
    BY <2>9
<1>4. Solved(pass)
  <2> HIDE DEF Solved
  <2>1. QED
    BY <1>3, Zenon
<1>5. Pass(i) = pass[n]
  BY DEF Pass
<1> HIDE DEF pass, W, base, Taken, Next1, n
<1>6. /\ pass[0] = base
      /\ \A k \in 1 .. n : pass[k] = Next1(pass[k - 1], k)
  <2> DEFINE h == [k \in 0 .. n |-> IF k = 0 THEN base ELSE Next1(pass[k - 1], k)]
  <2>1. pass = h
    BY <1>4, Zenon
  <2>2. \A k \in 0 .. n : h[k] = IF k = 0 THEN base ELSE Next1(pass[k - 1], k)
    BY Zenon
  <2> HIDE DEF h
  <2>3. \A k \in 1 .. n : k \in 0 .. n /\ k # 0
    BY <1>1
  <2>4. 0 \in 0 .. n
    BY <1>1
  <2>5. QED
    BY <2>1, <2>2, <2>3, <2>4
<1>7. pass \in [0 .. n -> W]
  <2> DEFINE Typed == {k \in 0 .. n : pass[k] \in W}
  <2>1. 0 \in Typed
    BY <1>1, <1>6
  <2>2. ASSUME NEW k \in 1 .. n, k - 1 \in Typed PROVE k \in Typed
    BY <1>1, <1>2, <1>6, <2>2
  <2> HIDE DEF Typed
  <2>3. \A k \in 0 .. n : k \in Typed
    BY <1>1, <2>1, <2>2, Induction
  <2>4. \A k \in 0 .. n : pass[k] \in W
    BY <2>3 DEF Typed
  <2>5. DOMAIN pass = 0 .. n /\ pass = [k \in DOMAIN pass |-> pass[k]]
    BY <1>4, Zenon
  <2> HIDE DEF Solved
  <2>6. QED
    BY <2>4, <2>5
<1>8. Passes(pass, L_input, L_buffer[i].offset, Window(i))
  BY <1>6 DEF Passes, base, Next1, Taken, n, W
<1>9. QED
  BY <1>5, <1>7, <1>8 DEF n, W

-----------------------------------------------------------------------------
(* Types *)

USE DEF Goto

MergeState == {"idle", "entry", "copy", "blocked", "notify", "endcheck", "turn", "outofbounds"}
WindowType == [offset : Nat, new_pos : Seq(Nat)]

LEMMA TypesParts == Types =>
    /\ Positions(Blocks) \in Seq(Seq(Nat)) /\ Len(Positions(Blocks)) = Len(Blocks)
    /\ Len(Blocks) \in Nat /\ Len(Jobs) \in Nat
    /\ \A n \in 1 .. Len(Blocks) : Positions(Blocks)[n] = Filtered(Blocks[n]) /\ Filtered(Blocks[n]) \in Seq(Nat)
    /\ Jobs \in Seq(Seq(RightEntry))
    /\ M \in Nat \ {0}
<1> SUFFICES ASSUME Types
             PROVE  /\ Positions(Blocks) \in Seq(Seq(Nat)) /\ Len(Positions(Blocks)) = Len(Blocks)
                    /\ Len(Blocks) \in Nat /\ Len(Jobs) \in Nat
                    /\ \A n \in 1 .. Len(Blocks) : Positions(Blocks)[n] = Filtered(Blocks[n]) /\ Filtered(Blocks[n]) \in Seq(Nat)
                    /\ Jobs \in Seq(Seq(RightEntry))
                    /\ M \in Nat \ {0}
  OBVIOUS
<1>1. streams \in Streams /\ Blocks = streams.left /\ Jobs = streams.jobs
  BY DEF Types, Blocks, Jobs
<1>2. /\ Positions(Blocks) \in Seq(Seq(Nat)) /\ Len(Positions(Blocks)) = Len(Blocks)
      /\ Len(Blocks) \in Nat /\ Len(Jobs) \in Nat
      /\ \A n \in 1 .. Len(Blocks) : Positions(Blocks)[n] = Filtered(Blocks[n])
      /\ Jobs \in Seq(Seq(RightEntry))
  BY <1>1, StreamFacts
<1>3. \A n \in 1 .. Len(Blocks) : Filtered(Blocks[n]) \in Seq(Nat)
  BY SMTT(40), <1>2
<1>4. QED
  BY <1>2, <1>3, MergeStageAssumption

LEMMA InitTypes == Init => Types
<1> SUFFICES ASSUME Init PROVE Types
  OBVIOUS
<1>1. Len(Blocks) \in Nat /\ Len(Jobs) \in Nat
  BY StreamFacts DEF Init, Blocks, Jobs
<1>2. <<>> \in Seq(Buffers) /\ <<>> \in Seq(Nat)
  OBVIOUS
<1>3. L_buffer \in [Merge -> WindowType]
  BY <1>2 DEF Init, WindowType
<1>4. ~Pending
  BY DEF Init, Pending
<1>5. /\ mpc \in [Merge -> MergeState]
      /\ job \in [Merge -> 0 .. Len(Jobs)] /\ entry \in [Merge -> Nat]
      /\ \A i \in Merge : mpc[i] = "idle"
  BY <1>1 DEF Init, MergeState
<1>6. streams \in Streams /\ L_given \in 0 .. Len(Blocks) /\ given \in 0 .. Len(Jobs) /\ delivered \in 0 .. Len(Jobs)
  BY <1>1 DEF Init
<1>7. L_input \in Seq(Buffers)
  BY <1>2 DEF Init
<1>8. lpc = "idle" /\ L_is_end = FALSE /\ R_is_end = FALSE /\ L_num_read = 0
  BY DEF Init
<1>9. QED
  BY <1>3, <1>4, <1>5, <1>6, <1>7, <1>8 DEF Types, WindowType, MergeState

\* A window after Copy and after Shrink
LEMMA PassType ==
    ASSUME Types, NEW i \in Merge
    PROVE  Pass(i).new_pos \in Seq(Nat)
<1>1. L_input \in Seq(Buffers) /\ Window(i) \in Seq(Nat) /\ Len(L_input) \in Nat
  BY DEF Types, Window
<1>2. PICK f \in [0 .. Len(L_input) -> PassState] : Pass(i) = f[Len(L_input)]
  BY <1>1, PassIsStepwise
<1>3. f[Len(L_input)] \in PassState
  BY <1>1
<1>4. QED
  BY <1>2, <1>3 DEF PassState

LEMMA LastFirstType ==
    ASSUME Types, NEW i \in Merge, job[i] >= 1
    PROVE  /\ Entries(i) \in Seq(RightEntry) /\ LastFirst(i) \in Nat
           /\ job[i] \in 1 .. Len(Jobs) /\ Len(Jobs) \in Nat
<1>1. job[i] \in 1 .. Len(Jobs) /\ Jobs \in Seq(Seq(RightEntry)) /\ Len(Jobs) \in Nat
  BY TypesParts DEF Types
<1>2. Entries(i) \in Seq(RightEntry)
  BY <1>1 DEF Entries
<1>3. ASSUME Entries(i) # <<>> PROVE Last(Entries(i)).pos \in Nat
  <2>1. Last(Entries(i)) \in RightEntry
    <3> DEFINE s == Entries(i)
    <3>1. s \in Seq(RightEntry) /\ s # <<>>
      BY <1>2, <1>3
    <3> HIDE DEF s
    <3>2. s[Len(s)] \in RightEntry
      BY <3>1
    <3>3. QED
      BY <3>2 DEF Last, s
  <2>2. QED
    BY <2>1 DEF RightEntry
<1>4. LastFirst(i) \in Nat
  BY <1>3 DEF LastFirst
<1>5. QED
  BY <1>1, <1>2, <1>4

LEMMA NextTypes == Types /\ [Next]_vars => Types'
<1> SUFFICES ASSUME Types, [Next]_vars PROVE Types'
  OBVIOUS
<1>0. /\ Len(Blocks) \in Nat /\ Len(Jobs) \in Nat /\ M \in Nat \ {0}
      /\ \A n \in 1 .. Len(Blocks) : Filtered(Blocks[n]) \in Seq(Nat)
  BY TypesParts
<1>t. /\ streams \in Streams
      /\ L_given \in 0 .. Len(Blocks) /\ L_num_read \in Nat
      /\ Pending => tmp \in Buffers
      /\ L_is_end \in BOOLEAN /\ R_is_end \in BOOLEAN
      /\ lpc \in {"idle", "append", "blocked", "notify"}
      /\ mpc \in [Merge -> MergeState]
      /\ L_input \in Seq(Buffers)
      /\ L_buffer \in [Merge -> WindowType]
      /\ given \in 0 .. Len(Jobs) /\ delivered \in 0 .. Len(Jobs)
      /\ job \in [Merge -> 0 .. Len(Jobs)] /\ entry \in [Merge -> Nat]
      /\ \A h \in Merge : mpc[h] # "idle" => job[h] >= 1
  BY DEF Types, MergeState, WindowType
<1> DEFINE Goal ==
      /\ L_given' \in 0 .. Len(Blocks) /\ L_num_read' \in Nat
      /\ lpc' \in {"append", "blocked"} => tmp' \in Buffers
      /\ L_is_end' \in BOOLEAN /\ R_is_end' \in BOOLEAN
      /\ lpc' \in {"idle", "append", "blocked", "notify"}
      /\ mpc' \in [Merge -> MergeState]
      /\ L_input' \in Seq(Buffers)
      /\ L_buffer' \in [Merge -> WindowType]
      /\ given' \in 0 .. Len(Jobs) /\ delivered' \in 0 .. Len(Jobs)
      /\ job' \in [Merge -> 0 .. Len(Jobs)] /\ entry' \in [Merge -> Nat]
      /\ \A h \in Merge : mpc'[h] # "idle" => job'[h] >= 1
<1>g. streams' = streams /\ Goal => Types'
  BY DEF Types, MergeState, WindowType, Blocks, Jobs, Pending
<1>s. Signal => mpc' \in [Merge -> MergeState] /\ \A h \in Merge : mpc'[h] # "idle" => mpc[h] # "idle"
  BY <1>t DEF Signal, MergeState
<1>1. CASE LTake
  <2>1. L_given + 1 \in 1 .. Len(Blocks)
    BY <1>0, <1>1, <1>t DEF LTake
  <2>2. Filtered(Blocks[L_given + 1]) \in Seq(Nat) /\ Len(Filtered(Blocks[L_given + 1])) \in Nat
    BY <1>0, <2>1
  <2>3. tmp' = [offset |-> L_num_read, new_pos |-> Filtered(Blocks[L_given + 1]), copy_sync |-> NotCopied]
    BY <1>1 DEF LTake
  <2>4. tmp' \in Buffers
    BY <2>2, <2>3, <1>t DEF Buffers, NotCopied
  <2>5. L_num_read' \in Nat
    BY <1>1, <2>2, <2>3, <1>t DEF LTake
  <2> HIDE DEF Buffers, MergeState, WindowType
  <2>6. QED
    BY <1>1, <1>g, <1>t, <2>1, <2>4, <2>5 DEF LTake, locals, pool
<1>2. CASE LWait
  BY <1>2, <1>g, <1>t DEF LWait, Pending, locals, pool
<1>3. CASE LAppend
  <2>1. Popped(L_input) \in Seq(Buffers)
    BY <1>t, PoppedFront DEF DropsFront
  <2>2. tmp \in Buffers
    BY <1>3, <1>t DEF LAppend, Pending
  <2> HIDE DEF Buffers, MergeState, WindowType
  <2>3. L_input' \in Seq(Buffers)
    BY <1>3, <2>1, <2>2 DEF LAppend
  <2>4. QED
    BY <1>3, <1>g, <1>t, <2>3 DEF LAppend, locals, pool
<1>4. CASE LNotify
  BY <1>4, <1>g, <1>t, <1>s DEF LNotify, locals, pool
<1>5. CASE LEnd
  BY <1>5, <1>g, <1>t, <1>s DEF LEnd, left, locals, pool
<1>6. CASE RGive
  <2> HIDE DEF Buffers, WindowType
  <2>1. given + 1 \in 0 .. Len(Jobs)
    BY <1>6, <1>t, <1>0 DEF RGive
  <2>2. mpc' \in [Merge -> MergeState] /\ job' \in [Merge -> 0 .. Len(Jobs)] /\ entry' \in [Merge -> Nat]
    BY <1>6, <1>t, <2>1 DEF RGive, MergeState
  <2>4. \A h \in Merge : mpc'[h] # "idle" => job'[h] >= 1
    BY <1>6, <1>t, <2>1 DEF RGive
  <2>3. QED
    BY <1>6, <1>g, <1>t, <2>1, <2>2, <2>4 DEF RGive, left, Pending
<1>7. CASE REnd
  BY <1>7, <1>g, <1>t DEF REnd, Signal1, locals, pool, Pending
<1>8. ASSUME NEW i \in Merge, MergeStep(i) PROVE Goal /\ streams' = streams
  <2> HIDE DEF Buffers
  <2> DEFINE Busy == \A h \in Merge : mpc'[h] # "idle" => job'[h] >= 1
  <2>1. ASSUME LookedUp(i), mpc[i] # "idle"
        PROVE  mpc' \in [Merge -> MergeState] /\ entry' \in [Merge -> Nat] /\ job' = job /\ Busy
    BY <2>1, <1>t DEF LookedUp, MergeState
  <2>2. CASE BeginEntry(i)
    <3>1. mpc' \in [Merge -> MergeState] /\ entry' \in [Merge -> Nat] /\ job' = job /\ Busy
      BY <2>1, <2>2, <1>t DEF BeginEntry, locals, MergeState
    <3> HIDE DEF MergeState, WindowType
    <3>2. QED
      BY <2>2, <3>1, <1>t DEF BeginEntry, left, pool, Pending
  <2>3. CASE CopyWait(i)
    BY <2>3, <1>t DEF CopyWait, left, locals, pool, Pending, MergeState
  <2>4. CASE Copy(i)
    <3>1. L_buffer' = [L_buffer EXCEPT ![i].new_pos = Pass(i).new_pos]
      BY <2>4 DEF Copy
    <3>2. L_buffer' \in [Merge -> WindowType]
      BY <3>1, <1>t, PassType DEF WindowType
    <3>3. ASSUME NEW k \in 1 .. Len(L_input) PROVE Counted(L_input[k]) \in Buffers /\ L_input[k] \in Buffers
      <4>1. L_input[k] \in Buffers
        BY <1>t
      <4>2. L_input[k].copy_sync \in Nat /\ M \in Nat
        BY <4>1, <1>0 DEF Buffers
      <4>3. L_input[k].copy_sync + 1 \in Nat
        BY <4>2
      <4>4. Counted(L_input[k]) \in Buffers
        BY <4>1, <4>2, <4>3 DEF Buffers, Counted
      <4>5. QED
        BY <4>1, <4>4
    <3>4. L_input' \in Seq(Buffers)
      <4>1. L_input' = [k \in 1 .. Len(L_input) |-> IF k \in Pass(i).copied THEN Counted(L_input[k]) ELSE L_input[k]]
        BY <2>4 DEF Copy
      <4>2. Len(L_input) \in Nat
        BY <1>t
      <4> DEFINE Each(k) == IF k \in Pass(i).copied THEN Counted(L_input[k]) ELSE L_input[k]
      <4>3. \A k \in 1 .. Len(L_input) : Each(k) \in Buffers
        BY <3>3
      <4>4. L_input' = [k \in 1 .. Len(L_input) |-> Each(k)]
        BY <4>1
      <4> HIDE DEF Each
      <4>5. QED
        BY <4>2, <4>3, <4>4
    <3>5. mpc' \in [Merge -> MergeState] /\ Busy
      BY <2>4, <1>t DEF Copy, MergeState, locals
    <3> HIDE DEF MergeState, WindowType
    <3>6. QED
      BY <2>4, <3>2, <3>4, <3>5, <1>t DEF Copy, left, locals, pool, Pending
  <2>5. CASE CopyNotify(i)
    BY <2>5, <1>t DEF CopyNotify, Signal1, locals, pool, Pending, MergeState
  <2>6. CASE EndCheck(i)
    <3>1. mpc' \in [Merge -> MergeState] /\ entry' \in [Merge -> Nat] /\ job' = job /\ Busy
      <4>1. CASE LookedUp(i)
        BY <2>1, <2>6, <4>1 DEF EndCheck
      <4>2. CASE Goto(i, IF L_is_end THEN "outofbounds" ELSE "copy") /\ UNCHANGED locals
        BY <2>6, <4>2, <1>t DEF EndCheck, locals, MergeState
      <4>3. QED
        BY <4>1, <4>2, <2>6 DEF EndCheck
    <3> HIDE DEF MergeState, WindowType
    <3>2. QED
      BY <2>6, <3>1, <1>t DEF EndCheck, left, pool, Pending
  <2>7. CASE Shrink(i)
    <3> DEFINE old == IF LastFirst(i) > L_buffer[i].offset THEN LastFirst(i) - L_buffer[i].offset ELSE 0
               count == IF old < Len(Window(i)) THEN old ELSE Len(Window(i))
               b == L_buffer[i]
    <3>1. L_buffer' = [L_buffer EXCEPT ![i] = [offset |-> b.offset + count,
                                               new_pos |-> SubSeq(b.new_pos, count + 1, Len(b.new_pos))]]
      BY <2>7, <1>t DEF Shrink
    <3>2. count \in Nat
      <4>1. LastFirst(i) \in Nat
        BY <2>7, <1>t, LastFirstType DEF Shrink
      <4>2. Len(Window(i)) \in Nat /\ b.offset \in Nat
        BY <1>t DEF Window, WindowType
      <4>3. QED
        BY <4>1, <4>2
    <3> HIDE DEF count
    <3>3. b \in WindowType
      BY <1>t
    <3>4. b.offset + count \in Nat /\ SubSeq(b.new_pos, count + 1, Len(b.new_pos)) \in Seq(Nat)
      BY <3>2, <3>3 DEF WindowType
    <3>5. L_buffer' \in [Merge -> WindowType]
      BY <3>1, <3>4, <1>t DEF WindowType
    <3>6. mpc' \in [Merge -> MergeState] /\ Busy
      BY <2>7, <1>t DEF Shrink, MergeState, locals
    <3> HIDE DEF MergeState, WindowType
    <3>7. QED
      BY <2>7, <3>5, <3>6, <1>t DEF Shrink, left, locals, pool, Pending
  <2>8. CASE Deliver(i)
    BY <2>8, <1>t DEF Deliver, left, Pending, MergeState
  <2>9. QED
    BY <1>8, <2>2, <2>3, <2>4, <2>5, <2>6, <2>7, <2>8 DEF MergeStep
<1>9. CASE SpuriousWakeup
  BY <1>9, <1>g, <1>t DEF SpuriousWakeup, left, locals, pool, Pending, MergeState
<1>10. CASE UNCHANGED vars
  BY <1>10, <1>g, <1>t DEF vars, Pending
<1>11. QED
  BY <1>1, <1>2, <1>3, <1>4, <1>5, <1>6, <1>7, <1>8, <1>9, <1>10, <1>g DEF Next, LStep, RStep

-----------------------------------------------------------------------------
(* The list of buffers *)

LEMMA StreamsConstant == [Next]_vars =>
    /\ streams' = streams /\ Lefts' = Lefts /\ LeftTable' = LeftTable /\ RightTable' = RightTable
    /\ Blocks' = Blocks /\ Jobs' = Jobs
<1> SUFFICES ASSUME [Next]_vars PROVE streams' = streams
  BY DEF Lefts, LeftTable, RightTable, Blocks, Jobs
<1>1. ASSUME NEW i \in Merge, MergeStep(i) PROVE streams' = streams
  BY <1>1 DEF MergeStep, BeginEntry, CopyWait, Copy, CopyNotify, EndCheck, Shrink, Deliver
<1>2. CASE LStep
  BY <1>2 DEF LStep, LTake, LWait, LAppend, LNotify, LEnd
<1>3. CASE RStep
  BY <1>3 DEF RStep, RGive, REnd
<1>4. CASE SpuriousWakeup
  BY <1>4 DEF SpuriousWakeup
<1>5. CASE UNCHANGED vars
  BY <1>5 DEF vars
<1>6. QED
  BY <1>1, <1>2, <1>3, <1>4, <1>5 DEF Next

LEMMA LeftFacts == Types =>
    /\ Lefts \in Seq(Seq(Nat)) /\ Len(Lefts) = Len(Blocks) /\ Len(Blocks) \in Nat
    /\ LeftTable \in Seq(Nat) /\ Len(LeftTable) = LeftEnd(Len(Blocks))
    /\ LeftEnd(0) = 0
    /\ \A n \in 0 .. Len(Blocks) : LeftEnd(n) \in Nat
    /\ \A n \in 1 .. Len(Blocks) : LeftEnd(n) = LeftEnd(n - 1) + Len(Lefts[n]) /\ Lefts[n] \in Seq(Nat)
    /\ \A m, n \in 0 .. Len(Blocks) : m <= n => LeftEnd(m) <= LeftEnd(n)
    /\ \A n \in 1 .. Len(Blocks) : \A x \in 1 .. Len(Lefts[n]) :
        LeftTable[LeftEnd(n - 1) + x] = Lefts[n][x]
<1> SUFFICES ASSUME Types
             PROVE  /\ Lefts \in Seq(Seq(Nat)) /\ Len(Lefts) = Len(Blocks) /\ Len(Blocks) \in Nat
                    /\ LeftTable \in Seq(Nat) /\ Len(LeftTable) = LeftEnd(Len(Blocks))
                    /\ LeftEnd(0) = 0
                    /\ \A n \in 0 .. Len(Blocks) : LeftEnd(n) \in Nat
                    /\ \A n \in 1 .. Len(Blocks) : LeftEnd(n) = LeftEnd(n - 1) + Len(Lefts[n]) /\ Lefts[n] \in Seq(Nat)
                    /\ \A m, n \in 0 .. Len(Blocks) : m <= n => LeftEnd(m) <= LeftEnd(n)
                    /\ \A n \in 1 .. Len(Blocks) : \A x \in 1 .. Len(Lefts[n]) :
                        LeftTable[LeftEnd(n - 1) + x] = Lefts[n][x]
  OBVIOUS
<1>1. Lefts \in Seq(Seq(Nat)) /\ Len(Lefts) = Len(Blocks) /\ Len(Blocks) \in Nat
  BY TypesParts DEF Lefts
<1>2. LeftTable = FlattenSeq(Lefts)
  BY DEF LeftTable, Lefts
<1> DEFINE ss == Lefts
           L == Len(Blocks)
<1>3. Len(ss) = L /\ ss \in Seq(Seq(Nat)) /\ L \in Nat
  BY <1>1
<1>4. \A n : LeftEnd(n) = Ends(ss, n)
  BY DEF LeftEnd
<1>5. LeftTable = FlattenSeq(ss) /\ Lefts = ss
  BY <1>2
<1> HIDE DEF ss, L
<1>6. /\ FlattenSeq(ss) \in Seq(Nat)
      /\ Ends(ss, 0) = 0 /\ Ends(ss, L) = Len(FlattenSeq(ss))
      /\ \A n \in 0 .. L : Ends(ss, n) \in Nat
      /\ \A n \in 1 .. L : Ends(ss, n) = Ends(ss, n - 1) + Len(ss[n])
      /\ \A m, n \in 0 .. L : m <= n => Ends(ss, m) <= Ends(ss, n)
      /\ \A n \in 1 .. L : \A x \in 1 .. Len(ss[n]) :
           FlattenSeq(ss)[Ends(ss, n - 1) + x] = ss[n][x]
  BY <1>3, BlocksInTable
<1>7. \A n \in 1 .. L : ss[n] \in Seq(Nat)
  BY <1>3
<1>8. Len(Blocks) = L
  BY DEF L
<1>9. QED
  BY <1>3, <1>4, <1>5, <1>6, <1>7, <1>8

\* A step that leaves the list as it is, but for its counts
SameInput ==
    /\ streams' = streams /\ L_given' = L_given /\ L_num_read' = L_num_read /\ tmp' = tmp
    /\ Pending' = Pending /\ Appended' = Appended /\ Gone' = Gone
    /\ Len(L_input') = Len(L_input)
    /\ \A k \in 1 .. Len(L_input) :
        L_input'[k].offset = L_input[k].offset /\ L_input'[k].new_pos = L_input[k].new_pos

LEMMA InputSteady ==
    ASSUME Types, [Next]_vars, ~LTake, ~LAppend
    PROVE  SameInput
<1>1. /\ lpc \in {"idle", "append", "blocked", "notify"}
      /\ L_input \in Seq(Buffers)
  BY DEF Types
<1> DEFINE Kept ==
      /\ L_given' = L_given /\ L_num_read' = L_num_read /\ tmp' = tmp
      /\ (lpc' \in {"append", "blocked"}) = (lpc \in {"append", "blocked"})
<1>2. ASSUME Kept, Len(L_input') = Len(L_input),
             \A k \in 1 .. Len(L_input) :
                L_input'[k].offset = L_input[k].offset /\ L_input'[k].new_pos = L_input[k].new_pos
      PROVE  SameInput
  BY <1>2, StreamsConstant DEF SameInput, Pending, Appended, Gone
<1>3. Kept /\ L_input' = L_input => SameInput
  BY <1>2
<1>4. Signal1 => (lpc' \in {"append", "blocked"}) = (lpc \in {"append", "blocked"})
  BY DEF Signal1
<1>5. ASSUME LWait \/ LNotify \/ LEnd PROVE Kept /\ L_input' = L_input
  BY <1>5 DEF LWait, LNotify, LEnd, left
<1>6. ASSUME RStep PROVE Kept /\ L_input' = L_input
  BY <1>4, <1>6 DEF RStep, RGive, REnd, left
<1>7. ASSUME NEW i \in Merge, MergeStep(i), ~Copy(i) PROVE Kept /\ L_input' = L_input
  BY <1>4, <1>7 DEF MergeStep, BeginEntry, CopyWait, CopyNotify, EndCheck, Shrink, Deliver, left
<1>8. ASSUME NEW i \in Merge, Copy(i) PROVE SameInput
  <2>1. Kept
    BY <1>8 DEF Copy, left
  <2>2. L_input' = [k \in 1 .. Len(L_input) |-> IF k \in Pass(i).copied THEN Counted(L_input[k]) ELSE L_input[k]]
    BY <1>8 DEF Copy
  <2>3. Len(L_input) \in Nat
    BY <1>1
  <2> DEFINE Each(k) == IF k \in Pass(i).copied THEN Counted(L_input[k]) ELSE L_input[k]
  <2>4. L_input' = [k \in 1 .. Len(L_input) |-> Each(k)]
    BY <2>2
  <2>5. ASSUME NEW k \in 1 .. Len(L_input)
        PROVE  Each(k).offset = L_input[k].offset /\ Each(k).new_pos = L_input[k].new_pos
    <3>1. L_input[k] \in Buffers
      BY <1>1
    <3>2. QED
      BY <3>1 DEF Buffers, Counted
  <2> HIDE DEF Each, Kept
  <2>6. Len(L_input') = Len(L_input) /\ \A k \in 1 .. Len(L_input) : L_input'[k] = Each(k)
    BY <2>3, <2>4
  <2>7. QED
    BY <1>2, <2>1, <2>5, <2>6
<1>9. ASSUME SpuriousWakeup PROVE Kept /\ L_input' = L_input
  BY <1>9 DEF SpuriousWakeup, left
<1>10. ASSUME UNCHANGED vars PROVE Kept /\ L_input' = L_input
  BY <1>10 DEF vars
<1> HIDE DEF Kept
<1>11. QED
  BY <1>3, <1>5, <1>6, <1>7, <1>8, <1>9, <1>10 DEF Next, LStep

\* What an LAppend does to the list: the first d buffers are gone, tmp is its last.
Appends(d) ==
    /\ d \in 0 .. Len(L_input) /\ \A k \in 1 .. d : CopiedByAll(L_input[k])
    /\ Len(L_input') = Len(L_input) - d + 1
    /\ \A k \in 1 .. Len(L_input) - d : L_input'[k] = L_input[d + k]
    /\ L_input'[Len(L_input) - d + 1] = tmp
    /\ Appended' = Appended + 1 /\ Gone' = Gone + d
    /\ Pending /\ ~Pending'

LEMMA AppendKeepsOrder ==
    ASSUME Types, LAppend
    PROVE  \E d \in 0 .. Len(L_input) : Appends(d)
<1>1. /\ L_input \in Seq(Buffers) /\ Len(L_input) \in Nat /\ tmp \in Buffers /\ L_given \in Nat
  <2>1. Pending
    BY DEF LAppend, Pending
  <2>2. QED
    BY <2>1, TypesParts DEF Types
<1>2. PICK d \in 0 .. Len(L_input) : DropsFront(L_input, d)
  BY <1>1, PoppedFront
<1> DEFINE p == Popped(L_input)
<1>3. /\ p \in Seq(Buffers) /\ Len(p) = Len(L_input) - d
      /\ \A k \in 1 .. Len(L_input) - d : p[k] = L_input[d + k]
      /\ \A k \in 1 .. d : CopiedByAll(L_input[k])
  BY <1>2 DEF DropsFront
<1>4. L_input' = Append(p, tmp) /\ lpc = "append" /\ lpc' = "notify" /\ L_given' = L_given
  BY DEF LAppend
<1> HIDE DEF p
<1>5. /\ Len(L_input') = Len(p) + 1
      /\ \A k \in 1 .. Len(p) : L_input'[k] = p[k]
      /\ L_input'[Len(p) + 1] = tmp
  <2>1. /\ Len(Append(p, tmp)) = Len(p) + 1
        /\ \A k \in 1 .. Len(p) : Append(p, tmp)[k] = p[k]
        /\ Append(p, tmp)[Len(p) + 1] = tmp
    <3>1. p \in Seq(Buffers) /\ tmp \in Buffers
      BY <1>1, <1>3
    <3>2. QED
      BY ONLY <3>1, AppendedElement
  <2>2. QED
    BY <1>4, <2>1
<1>6. Pending /\ ~Pending' /\ Appended = L_given - 1 /\ Appended' = L_given
  BY <1>4 DEF Pending, Appended
<1>7. Appended' = Appended + 1 /\ Gone' = Gone + d
  BY SMTT(40), <1>1, <1>2, <1>3, <1>5, <1>6 DEF Gone
<1>8. Appends(d)
  BY <1>3, <1>5, <1>6, <1>7 DEF Appends
<1>9. QED
  BY <1>8

LEMMA InitInput == Init => InputIsLatest
<1> SUFFICES ASSUME Init PROVE InputIsLatest
  OBVIOUS
<1>1. LeftEnd(0) = 0
  BY InitTypes, LeftFacts
<1>2. L_input = <<>> /\ ~Pending /\ L_given = 0 /\ L_num_read = 0 /\ tmp = NoBuffer
  BY DEF Init, Pending
<1>3. Appended = 0 /\ Len(L_input) = 0 /\ Gone = 0
  BY <1>2 DEF Appended, Gone
<1>4. QED
  BY <1>1, <1>2, <1>3 DEF InputIsLatest

LEMMA NextInput == Types /\ InputIsLatest /\ [Next]_vars => InputIsLatest'
<1> SUFFICES ASSUME Types, InputIsLatest, [Next]_vars PROVE InputIsLatest'
  OBVIOUS
<1>1. Lefts' = Lefts /\ \A n : LeftEnd(n)' = LeftEnd(n)
  BY StreamsConstant DEF LeftEnd
<1>2. /\ L_num_read = LeftEnd(L_given)
      /\ Pending => /\ L_given >= 1
                    /\ tmp = [offset |-> LeftEnd(Appended), new_pos |-> Lefts[L_given], copy_sync |-> NotCopied]
      /\ ~Pending => tmp = NoBuffer
      /\ Gone \in Nat
      /\ \A k \in 1 .. Len(L_input) :
          /\ L_input[k].offset = LeftEnd(Gone + k - 1)
          /\ L_input[k].new_pos = Lefts[Gone + k]
  BY DEF InputIsLatest
<1>3. /\ L_given \in 0 .. Len(Blocks) /\ Len(Blocks) \in Nat /\ Len(L_input) \in Nat
      /\ \A n \in 1 .. Len(Blocks) : LeftEnd(n) = LeftEnd(n - 1) + Len(Lefts[n]) /\ Lefts[n] \in Seq(Nat)
  BY LeftFacts DEF Types
<1>4. CASE ~LTake /\ ~LAppend
  <2>1. SameInput
    BY <1>4, InputSteady
  <2>2. QED
    BY <1>1, <1>2, <2>1 DEF InputIsLatest, SameInput
<1>5. CASE LTake
  <2>1. /\ L_given + 1 \in 1 .. Len(Blocks) /\ L_given' = L_given + 1
        /\ tmp' = [offset |-> L_num_read, new_pos |-> Filtered(Blocks[L_given + 1]), copy_sync |-> NotCopied]
        /\ L_num_read' = L_num_read + Len(tmp'.new_pos)
        /\ lpc = "idle" /\ lpc' = "append" /\ L_input' = L_input
    BY <1>3, <1>5 DEF LTake
  <2>2. Filtered(Blocks[L_given + 1]) = Lefts[L_given + 1]
    BY <2>1, TypesParts DEF Lefts
  <2>3. ~Pending /\ Pending' /\ Appended = L_given /\ Appended' = L_given /\ Gone' = Gone
    BY <1>3, <2>1 DEF Pending, Appended, Gone
  <2>4. tmp' = [offset |-> LeftEnd(L_given), new_pos |-> Lefts[L_given + 1], copy_sync |-> NotCopied]
    BY <1>2, <2>1, <2>2
  <2>5. L_num_read' = LeftEnd(L_given + 1)
    <3>1. L_num_read' = LeftEnd(L_given) + Len(Lefts[L_given + 1])
      BY <1>2, <2>1, <2>2
    <3>2. LeftEnd(L_given + 1) = LeftEnd(L_given + 1 - 1) + Len(Lefts[L_given + 1])
      BY <1>3, <2>1
    <3>3. L_given + 1 - 1 = L_given
      BY <1>3
    <3>4. QED
      BY <3>1, <3>2, <3>3
  <2>6. QED
    BY <1>1, <1>2, <1>3, <2>1, <2>3, <2>4, <2>5 DEF InputIsLatest
<1>6. CASE LAppend
  <2>1. PICK d \in 0 .. Len(L_input) : Appends(d)
    BY <1>6, AppendKeepsOrder
  <2>2. /\ Len(L_input') = Len(L_input) - d + 1
        /\ \A k \in 1 .. Len(L_input) - d : L_input'[k] = L_input[d + k]
        /\ L_input'[Len(L_input) - d + 1] = tmp
        /\ Appended' = Appended + 1 /\ Gone' = Gone + d
        /\ Pending /\ ~Pending'
    BY <2>1 DEF Appends
  <2>3. L_given' = L_given /\ L_num_read' = L_num_read /\ tmp' = NoBuffer
    BY <1>6 DEF LAppend
  <2>4. Appended + 1 = L_given /\ Gone + Len(L_input) = Appended
    BY <1>3, <2>2 DEF Appended, Gone
  <2>5. ASSUME NEW k \in 1 .. Len(L_input')
        PROVE  L_input'[k].offset = LeftEnd(Gone' + k - 1) /\ L_input'[k].new_pos = Lefts[Gone' + k]
    <3>1. CASE k \in 1 .. Len(L_input) - d
      <4>1. d + k \in 1 .. Len(L_input) /\ Gone' + k - 1 = Gone + (d + k) - 1 /\ Gone' + k = Gone + (d + k)
        BY <1>2, <1>3, <2>2, <3>1
      <4>2. QED
        BY <1>2, <2>2, <3>1, <4>1
    <3>2. CASE k = Len(L_input) - d + 1
      <4>1. Gone' + k - 1 = Appended /\ Gone' + k = L_given
        <5>1. Gone' = Gone + d /\ Gone \in Nat /\ d \in Nat /\ Len(L_input) \in Nat
          BY <1>2, <1>3, <2>2
        <5>2. Gone' + k - 1 = Gone + Len(L_input) /\ Gone' + k = (Gone + Len(L_input)) + 1
          BY <3>2, <5>1
        <5>3. QED
          BY <2>4, <5>2
      <4>2. QED
        BY <1>2, <2>2, <3>2, <4>1
    <3>3. QED
      BY <1>3, <2>2, <3>1, <3>2
  <2>6. L_num_read' = LeftEnd(L_given')
    BY <1>2, <2>3
  <2>7. Gone' \in Nat
    BY <1>2, <2>2
  <2>8. QED
    BY <1>1, <2>2, <2>3, <2>5, <2>6, <2>7 DEF InputIsLatest
<1>7. QED
  BY <1>4, <1>5, <1>6

-----------------------------------------------------------------------------
(* Windows *)

LEMMA WindowFacts ==
    ASSUME Types, NEW i \in Merge
    PROVE  /\ L_buffer[i].offset \in Nat /\ Window(i) \in Seq(Nat) /\ Len(Window(i)) \in Nat
           /\ WindowEnd(i) = L_buffer[i].offset + Len(Window(i)) /\ WindowEnd(i) \in Nat
           /\ L_buffer[i] \in WindowType
<1>1. L_buffer[i] \in WindowType
  BY DEF Types, WindowType
<1>2. L_buffer[i].offset \in Nat /\ Window(i) \in Seq(Nat)
  BY <1>1 DEF WindowType, Window
<1>3. Len(Window(i)) \in Nat
  BY <1>2
<1>4. WindowEnd(i) = L_buffer[i].offset + Len(Window(i))
  BY DEF WindowEnd
<1>5. QED
  BY <1>1, <1>2, <1>3, <1>4

LEMMA InputFacts ==
    ASSUME Types, InputIsLatest
    PROVE  /\ Gone \in Nat /\ Appended \in 0 .. Len(Blocks) /\ Len(L_input) \in Nat
           /\ Gone + Len(L_input) = Appended /\ L_input \in Seq(Buffers)
           /\ \A k \in 1 .. Len(L_input) :
                /\ Gone + k \in 1 .. Len(Blocks)
                /\ L_input[k].offset = LeftEnd(Gone + k - 1) /\ L_input[k].new_pos = Lefts[Gone + k]
                /\ L_input[k] \in Buffers
<1>1. L_input \in Seq(Buffers) /\ Len(L_input) \in Nat /\ Gone \in Nat
  BY DEF Types, InputIsLatest
<1>2. Appended \in 0 .. Len(Blocks) /\ Len(Blocks) \in Nat
  <2>1. L_given \in 0 .. Len(Blocks) /\ Len(Blocks) \in Nat /\ (Pending => L_given >= 1)
    BY TypesParts DEF Types, InputIsLatest
  <2>2. QED
    BY <2>1 DEF Appended
<1>3. Gone + Len(L_input) = Appended
  BY <1>1, <1>2 DEF Gone
<1>4. QED
  BY <1>1, <1>2, <1>3 DEF InputIsLatest

\* No window ends inside a block.
LEMMA CutsAreEnds ==
    ASSUME Types, InputIsLatest, NEW c \in 0 .. Len(Blocks), NEW n \in 1 .. Len(Blocks),
           LeftEnd(n - 1) < LeftEnd(c)
    PROVE  LeftEnd(n) <= LeftEnd(c)
<1>1. Len(Blocks) \in Nat /\ \A a, b \in 0 .. Len(Blocks) : a <= b => LeftEnd(a) <= LeftEnd(b)
  BY LeftFacts
<1>2. n - 1 \in 0 .. Len(Blocks) /\ n \in 0 .. Len(Blocks)
  BY <1>1
<1>3. LeftEnd(n - 1) \in Nat /\ LeftEnd(c) \in Nat
  BY <1>2, LeftFacts
<1>4. ~(c <= n - 1)
  BY <1>1, <1>2, <1>3
<1>5. n <= c
  BY <1>1, <1>4
<1>6. QED
  BY <1>1, <1>2, <1>5

\* After its pass a window reaches up to what was appended last, and the buffers it
\* has copied are those that begin behind the old window.
LEMMA PassResult ==
    ASSUME Types, InputIsLatest, WindowsAreCuts, NEW i \in Merge
    PROVE  /\ Pass(i).new_pos \in Seq(Nat)
           /\ L_buffer[i].offset + Len(Pass(i).new_pos) = LeftEnd(Appended)
           /\ \A x \in 1 .. Len(Pass(i).new_pos) :
                Pass(i).new_pos[x] = LeftTable[L_buffer[i].offset + x]
           /\ \A k \in 1 .. Len(L_input) : k \in Pass(i).copied <=> L_input[k].offset >= WindowEnd(i)
<1> DEFINE o == L_buffer[i].offset
           w == Window(i)
           end == WindowEnd(i)
           n == Len(L_input)
<1>1. o \in Nat /\ w \in Seq(Nat) /\ end = o + Len(w) /\ end \in Nat
  BY WindowFacts
<1>2. /\ Gone \in Nat /\ Appended \in 0 .. Len(Blocks) /\ n \in Nat /\ Gone + n = Appended
      /\ \A k \in 1 .. n : /\ Gone + k \in 1 .. Len(Blocks) /\ L_input[k].offset = LeftEnd(Gone + k - 1)
                           /\ L_input[k].new_pos = Lefts[Gone + k]
  BY InputFacts
<1>3. /\ Len(Blocks) \in Nat
      /\ \A m \in 0 .. Len(Blocks) : LeftEnd(m) \in Nat
      /\ \A m \in 1 .. Len(Blocks) : LeftEnd(m) = LeftEnd(m - 1) + Len(Lefts[m]) /\ Lefts[m] \in Seq(Nat)
      /\ \A a, b \in 0 .. Len(Blocks) : a <= b => LeftEnd(a) <= LeftEnd(b)
      /\ \A m \in 1 .. Len(Blocks) : \A x \in 1 .. Len(Lefts[m]) : LeftTable[LeftEnd(m - 1) + x] = Lefts[m][x]
  BY LeftFacts
<1>4. PICK c \in Gone .. Appended : end = LeftEnd(c)
  BY DEF WindowsAreCuts
<1>5. c \in 0 .. Len(Blocks) /\ Gone \in 0 .. Len(Blocks)
  BY <1>2, <1>3
<1>6. \A x \in 1 .. Len(w) : w[x] = LeftTable[o + x]
  BY DEF WindowsAreCuts
<1>7. PICK f \in [0 .. n -> PassState] : Passes(f, L_input, o, w) /\ Pass(i) = f[n]
  <2>1. L_input \in Seq(Buffers)
    BY InputFacts
  <2>2. QED
    BY <1>1, <2>1, PassIsStepwise
<1> DEFINE len(k) == o + Len(f[k].new_pos)
           Good(k) ==
              /\ len(k) >= LeftEnd(Gone + k) /\ len(k) >= end
              /\ len(k) = end \/ len(k) = LeftEnd(Gone + k)
              /\ \A x \in 1 .. Len(f[k].new_pos) : f[k].new_pos[x] = LeftTable[o + x]
              /\ \A j \in 1 .. n : j \in f[k].copied <=> (j <= k /\ L_input[j].offset >= end)
           S == {k \in 0 .. n : Good(k)}
<1> HIDE DEF o, w, end
<1>8. 0 \in S
  <2>1. f[0] = [new_pos |-> w, copied |-> {}]
    BY <1>7 DEF Passes
  <2>2. f[0].new_pos = w /\ f[0].copied = {}
    BY <2>1
  <2>3. len(0) = end /\ Gone + 0 = Gone
    BY <1>1, <1>2, <2>2
  <2>4. LeftEnd(Gone) <= end
    BY <1>2, <1>3, <1>4, <1>5
  <2>5. \A j \in 1 .. n : ~(j <= 0)
    BY <1>2
  <2>6. end >= end /\ LeftEnd(Gone) \in Nat
    BY <1>1, <1>3, <1>5
  <2> HIDE DEF len, n
  <2>7. Good(0)
    BY <1>1, <1>6, <2>2, <2>3, <2>4, <2>5, <2>6
  <2>8. QED
    BY <1>2, <2>7
<1>9. ASSUME NEW k \in 1 .. n, k - 1 \in S PROVE k \in S
  <2> DEFINE b == L_input[k]
             s == f[k - 1].new_pos
  <2>1. k - 1 \in 0 .. n /\ k \in 0 .. n /\ Good(k - 1)
    BY <1>9
  <2>2. f[k - 1] \in PassState /\ s \in Seq(Nat) /\ Len(s) \in Nat /\ f[k - 1].copied \in SUBSET Nat
    <3>1. f[k - 1] \in PassState
      BY <2>1
    <3>2. f[k - 1].new_pos \in Seq(Nat) /\ f[k - 1].copied \in SUBSET Nat
      BY <3>1 DEF PassState
    <3>3. QED
      BY <3>1, <3>2
  <2>3. /\ Gone + k \in 1 .. Len(Blocks) /\ b.offset = LeftEnd(Gone + k - 1) /\ b.new_pos = Lefts[Gone + k]
        /\ Gone + (k - 1) = Gone + k - 1
    BY <1>2
  <2>4. /\ LeftEnd(Gone + k) = LeftEnd(Gone + k - 1) + Len(Lefts[Gone + k])
        /\ Lefts[Gone + k] \in Seq(Nat) /\ Len(Lefts[Gone + k]) \in Nat
        /\ LeftEnd(Gone + k - 1) \in Nat /\ LeftEnd(Gone + k) \in Nat
    <3> DEFINE m == Gone + k
    <3>1. m \in 1 .. Len(Blocks) /\ m - 1 = Gone + k - 1
      BY <1>2, <2>3
    <3> HIDE DEF m
    <3>2. LeftEnd(m) = LeftEnd(m - 1) + Len(Lefts[m]) /\ Lefts[m] \in Seq(Nat)
      BY <1>3, <3>1
    <3>3. m - 1 \in 0 .. Len(Blocks) /\ m \in 0 .. Len(Blocks)
      BY <1>3, <3>1
    <3>4. LeftEnd(m - 1) \in Nat /\ LeftEnd(m) \in Nat /\ Len(Lefts[m]) \in Nat
      BY <1>3, <3>2, <3>3
    <3>5. QED
      BY <3>1, <3>2, <3>4 DEF m
  <2>5. /\ len(k - 1) >= LeftEnd(Gone + k - 1) /\ len(k - 1) >= end
        /\ len(k - 1) = end \/ len(k - 1) = LeftEnd(Gone + k - 1)
        /\ \A x \in 1 .. Len(s) : s[x] = LeftTable[o + x]
        /\ \A j \in 1 .. n : j \in f[k - 1].copied <=> (j <= k - 1 /\ L_input[j].offset >= end)
        /\ len(k - 1) = o + Len(s) /\ len(k - 1) \in Nat
    BY SMTT(40), <1>1, <2>1, <2>2, <2>3
  <2>6. f[k] = IF b.offset >= o + Len(s)
               THEN [new_pos |-> s \o b.new_pos, copied |-> f[k - 1].copied \cup {k}]
               ELSE f[k - 1]
    BY <1>7 DEF Passes, FollowsWindow
  <2> HIDE DEF s, b, Good
  <2>7. CASE b.offset >= o + Len(s)
    <3>1. f[k].new_pos = s \o Lefts[Gone + k] /\ f[k].copied = f[k - 1].copied \cup {k}
      BY SMTT(40), <2>3, <2>6, <2>7
    <3>2. len(k - 1) = LeftEnd(Gone + k - 1)
      BY <2>3, <2>4, <2>5, <2>7
    <3>3. /\ Len(f[k].new_pos) = Len(s) + Len(Lefts[Gone + k])
          /\ \A x \in 1 .. Len(s) : f[k].new_pos[x] = s[x]
          /\ \A x \in 1 .. Len(Lefts[Gone + k]) : f[k].new_pos[Len(s) + x] = Lefts[Gone + k][x]
      <4>1. /\ Len(s \o Lefts[Gone + k]) = Len(s) + Len(Lefts[Gone + k])
            /\ \A x \in 1 .. Len(s) : (s \o Lefts[Gone + k])[x] = s[x]
            /\ \A x \in 1 .. Len(Lefts[Gone + k]) : (s \o Lefts[Gone + k])[Len(s) + x] = Lefts[Gone + k][x]
        BY SMTT(40), <2>2, <2>4, Concatenation
      <4>2. QED
        BY <3>1, <4>1
    <3>4. len(k) = LeftEnd(Gone + k)
      BY <1>1, <2>2, <2>4, <2>5, <3>2, <3>3
    <3>5. LeftEnd(Gone + k) >= end /\ LeftEnd(Gone + k) >= LeftEnd(Gone + k)
      <4>1. LeftEnd(Gone + k - 1) >= end
        BY <2>5, <3>2
      <4>2. LeftEnd(Gone + k) >= LeftEnd(Gone + k - 1)
        BY <2>4
      <4>3. end \in Nat /\ LeftEnd(Gone + k) \in Nat /\ LeftEnd(Gone + k - 1) \in Nat
        BY <1>1, <2>4
      <4>4. QED
        BY ONLY <4>1, <4>2, <4>3
    <3>6. ASSUME NEW x \in 1 .. Len(f[k].new_pos) PROVE f[k].new_pos[x] = LeftTable[o + x]
      <4>1. CASE x \in 1 .. Len(s)
        BY <2>5, <3>3, <4>1
      <4>2. CASE x \notin 1 .. Len(s)
        <5> DEFINE y == x - Len(s)
        <5>1. y \in 1 .. Len(Lefts[Gone + k]) /\ Len(s) + y = x
          BY <2>2, <2>4, <3>3, <4>2
        <5>2. o + x = LeftEnd(Gone + k - 1) + y
          BY <1>1, <2>2, <2>5, <3>2, <5>1
        <5> HIDE DEF y
        <5>3. LeftTable[LeftEnd(Gone + k - 1) + y] = Lefts[Gone + k][y]
          <6> DEFINE m == Gone + k
          <6>1. m \in 1 .. Len(Blocks) /\ y \in 1 .. Len(Lefts[m]) /\ m - 1 = Gone + k - 1
            BY <1>2, <2>3, <5>1
          <6> HIDE DEF m
          <6>2. LeftTable[LeftEnd(m - 1) + y] = Lefts[m][y]
            BY <1>3, <6>1
          <6>3. QED
            BY <6>1, <6>2 DEF m
        <5>4. f[k].new_pos[Len(s) + y] = Lefts[Gone + k][y]
          BY <3>3, <5>1
        <5>5. QED
          BY <5>1, <5>2, <5>3, <5>4
      <4>3. QED
        BY <4>1, <4>2
    <3>7. ASSUME NEW j \in 1 .. n
          PROVE  j \in f[k].copied <=> (j <= k /\ L_input[j].offset >= end)
      <4>1. CASE j = k
        <5>1. L_input[k].offset >= end
          BY <2>3, <2>5, <3>2 DEF b
        <5>2. QED
          BY <3>1, <4>1, <5>1, <1>2
      <4>2. CASE j # k
        <5>1. j <= k <=> j <= k - 1
          BY <4>2, <1>2
        <5>2. QED
          BY <2>5, <3>1, <4>2, <5>1
      <4>3. QED
        BY <4>1, <4>2
    <3> HIDE DEF len
    <3>8. Good(k)
      BY <3>4, <3>5, <3>6, <3>7 DEF Good
    <3>9. QED
      BY <2>1, <3>8
  <2>8. CASE ~(b.offset >= o + Len(s))
    <3>1. f[k] = f[k - 1]
      BY <2>6, <2>8
    <3>2. len(k - 1) = end /\ LeftEnd(Gone + k - 1) < end
      BY <2>3, <2>4, <2>5, <2>8
    <3>3. LeftEnd(Gone + k) <= end
      BY <1>4, <1>5, <2>3, <3>2, CutsAreEnds
    <3>4. len(k) = end
      BY <3>1, <3>2
    <3>5. ASSUME NEW j \in 1 .. n
          PROVE  j \in f[k].copied <=> (j <= k /\ L_input[j].offset >= end)
      <4>1. CASE j = k
        <5>1. ~(L_input[k].offset >= end) /\ ~(k <= k - 1)
          BY SMTT(40), <1>1, <1>2, <2>3, <2>4, <3>2 DEF b
        <5>2. QED
          BY <2>5, <3>1, <4>1, <5>1
      <4>2. CASE j # k
        <5>1. j <= k <=> j <= k - 1
          BY <4>2, <1>2
        <5>2. QED
          BY <2>5, <3>1, <5>1
      <4>3. QED
        BY <4>1, <4>2
    <3>6. \A x \in 1 .. Len(f[k].new_pos) : f[k].new_pos[x] = LeftTable[o + x]
      BY <2>5, <3>1 DEF s
    <3>7. end >= end /\ end >= LeftEnd(Gone + k)
      BY <1>1, <2>4, <3>3
    <3> HIDE DEF len
    <3>8. Good(k)
      BY <3>4, <3>5, <3>6, <3>7 DEF Good
    <3>9. QED
      BY <2>1, <3>8
  <2>9. QED
    BY <2>7, <2>8
<1>10. n \in S
  <2> HIDE DEF S
  <2>1. \A k \in 0 .. n : k \in S
    BY <1>2, <1>8, <1>9, Induction
  <2>2. QED
    BY <1>2, <2>1
<1>11. Good(n) /\ f[n] \in PassState
  BY <1>2, <1>10
<1>12. len(n) = LeftEnd(Appended)
  <2>1. end <= LeftEnd(Appended) /\ LeftEnd(Appended) \in Nat
    BY <1>2, <1>3, <1>4, <1>5
  <2>2. len(n) >= LeftEnd(Appended) /\ (len(n) = end \/ len(n) = LeftEnd(Appended))
    BY <1>2, <1>11
  <2>3. QED
    BY <1>1, <2>1, <2>2
<1>13. \A k \in 1 .. n : k <= n
  BY <1>2
<1>14. f[n].new_pos \in Seq(Nat)
  BY <1>11 DEF PassState
<1>15. QED
  BY <1>7, <1>11, <1>12, <1>13, <1>14 DEF o, end

\* What the steps do to the windows: only Copy and Shrink change one.
LEMMA WindowSteady ==
    ASSUME [Next]_vars, \A i \in Merge : ~Copy(i) /\ ~Shrink(i)
    PROVE  L_buffer' = L_buffer
<1>1. ASSUME NEW i \in Merge, MergeStep(i) PROVE L_buffer' = L_buffer
  BY <1>1 DEF MergeStep, BeginEntry, CopyWait, CopyNotify, EndCheck, Deliver
<1>2. CASE LStep
  BY <1>2 DEF LStep, LTake, LWait, LAppend, LNotify, LEnd
<1>3. CASE RStep
  BY <1>3 DEF RStep, RGive, REnd
<1>4. CASE SpuriousWakeup
  BY <1>4 DEF SpuriousWakeup
<1>5. CASE UNCHANGED vars
  BY <1>5 DEF vars
<1>6. QED
  BY <1>1, <1>2, <1>3, <1>4, <1>5 DEF Next

LEMMA ShrinkKeepsEnd ==
    ASSUME Types, NEW i \in Merge, Shrink(i)
    PROVE  \E count \in 0 .. Len(Window(i)) :
            /\ L_buffer'[i].offset = L_buffer[i].offset + count
            /\ count = 0 \/ L_buffer[i].offset + count <= LastFirst(i)
            /\ Len(L_buffer'[i].new_pos) = Len(Window(i)) - count
            /\ \A x \in 1 .. Len(Window(i)) - count : L_buffer'[i].new_pos[x] = Window(i)[count + x]
            /\ \A h \in Merge : h # i => L_buffer'[h] = L_buffer[h]
<1> DEFINE b == L_buffer[i]
           old == IF LastFirst(i) > b.offset THEN LastFirst(i) - b.offset ELSE 0
           count == IF old < Len(Window(i)) THEN old ELSE Len(Window(i))
           rest == SubSeq(b.new_pos, count + 1, Len(b.new_pos))
<1>1. L_buffer \in [Merge -> WindowType]
  BY DEF Types, WindowType
<1>2. L_buffer' = [L_buffer EXCEPT ![i] = [offset |-> b.offset + count, new_pos |-> rest]]
  BY <1>1 DEF Shrink
<1>3. b.offset \in Nat /\ Window(i) \in Seq(Nat) /\ Len(Window(i)) \in Nat /\ b.new_pos = Window(i)
  BY WindowFacts DEF Window
<1>4. LastFirst(i) \in Nat
  BY LastFirstType DEF Shrink, Types
<1>5. count \in 0 .. Len(Window(i)) /\ (count = 0 \/ b.offset + count <= LastFirst(i))
  BY <1>3, <1>4
<1> HIDE DEF count
<1>6. \A a \in 0 .. Len(Window(i)) :
        /\ Len(SubSeq(Window(i), a + 1, Len(Window(i)))) = Len(Window(i)) - a
        /\ \A x \in 1 .. Len(Window(i)) - a : SubSeq(Window(i), a + 1, Len(Window(i)))[x] = Window(i)[a + x]
  BY <1>3
<1>7. rest = SubSeq(Window(i), count + 1, Len(Window(i)))
  BY <1>3
<1> HIDE DEF rest
<1>8. Len(rest) = Len(Window(i)) - count /\ \A x \in 1 .. Len(Window(i)) - count : rest[x] = Window(i)[count + x]
  BY <1>5, <1>6, <1>7
<1>9. L_buffer'[i] = [offset |-> b.offset + count, new_pos |-> rest]
  BY <1>1, <1>2
<1>10. L_buffer'[i].offset = b.offset + count /\ L_buffer'[i].new_pos = rest
  BY <1>9
<1>11. \A h \in Merge : h # i => L_buffer'[h] = L_buffer[h]
  BY <1>1, <1>2
<1> HIDE DEF b
<1>12. QED
  BY <1>5, <1>8, <1>10, <1>11 DEF b

LEMMA CopyMovesEnd ==
    ASSUME Types, NEW i \in Merge, Copy(i)
    PROVE  /\ L_buffer'[i].offset = L_buffer[i].offset /\ L_buffer'[i].new_pos = Pass(i).new_pos
           /\ \A h \in Merge : h # i => L_buffer'[h] = L_buffer[h]
           /\ Len(L_input') = Len(L_input)
           /\ \A k \in 1 .. Len(L_input) :
                L_input'[k] = IF k \in Pass(i).copied THEN Counted(L_input[k]) ELSE L_input[k]
<1>1. L_buffer \in [Merge -> WindowType] /\ Len(L_input) \in Nat
  BY DEF Types, WindowType
<1>2. L_buffer' = [L_buffer EXCEPT ![i].new_pos = Pass(i).new_pos]
  BY DEF Copy
<1>3. L_buffer[i] \in [offset : Nat, new_pos : Seq(Nat)]
  BY <1>1 DEF WindowType
<1>4. L_buffer'[i] = [L_buffer[i] EXCEPT !.new_pos = Pass(i).new_pos]
  BY <1>1, <1>2
<1>5. L_buffer'[i].offset = L_buffer[i].offset /\ L_buffer'[i].new_pos = Pass(i).new_pos
  BY <1>3, <1>4
<1>6. \A h \in Merge : h # i => L_buffer'[h] = L_buffer[h]
  BY <1>1, <1>2
<1> DEFINE Each(k) == IF k \in Pass(i).copied THEN Counted(L_input[k]) ELSE L_input[k]
<1>7. L_input' = [k \in 1 .. Len(L_input) |-> Each(k)]
  BY DEF Copy
<1> HIDE DEF Each
<1>8. Len(L_input') = Len(L_input) /\ \A k \in 1 .. Len(L_input) : L_input'[k] = Each(k)
  BY <1>1, <1>7
<1>9. QED
  BY <1>5, <1>6, <1>8 DEF Each

LEMMA TakeKeepsList ==
    ASSUME Types, LTake
    PROVE  L_input' = L_input /\ L_buffer' = L_buffer /\ Appended' = Appended /\ Gone' = Gone
<1>1. lpc = "idle" /\ lpc' = "append" /\ L_given' = L_given + 1 /\ L_input' = L_input /\ L_buffer' = L_buffer
  BY DEF LTake
<1>2. L_given \in Nat
  BY TypesParts DEF Types
<1>3. QED
  BY <1>1, <1>2 DEF Appended, Gone, Pending

LEMMA NotCopyOrTake ==
    ASSUME [Next]_vars
    PROVE  /\ \A i \in Merge : Copy(i) => ~LTake /\ ~LAppend
           /\ \A i \in Merge : Shrink(i) => ~LTake /\ ~LAppend /\ L_input' = L_input
           /\ LAppend => L_buffer' = L_buffer /\ Pending
<1>1. \A i \in Merge : Copy(i) => L_given' = L_given /\ lpc' = lpc
  BY DEF Copy, left
<1>2. \A i \in Merge : Shrink(i) => L_given' = L_given /\ lpc' = lpc /\ L_input' = L_input
  BY DEF Shrink, left
<1>3. LTake => lpc = "idle" /\ lpc' = "append"
  BY DEF LTake
<1>4. LAppend => lpc = "append" /\ lpc' = "notify" /\ L_buffer' = L_buffer
  BY DEF LAppend
<1>5. QED
  BY <1>1, <1>2, <1>3, <1>4 DEF Pending

LEMMA MergeSize == IsFiniteSet(Merge) /\ Cardinality(Merge) = M /\ M \in Nat
<1> DEFINE top == M - 1
<1>1. M \in Nat \ {0}
  BY MergeStageAssumption
<1>2. top \in Int /\ 0 <= top /\ top - 0 + 1 = M
  BY <1>1
<1> HIDE DEF top
<1>3. IsFiniteSet(0 .. top) /\ Cardinality(0 .. top) = M
  BY <1>2, FS_Interval
<1>4. QED
  BY <1>1, <1>3 DEF Merge, top

LEMMA OnlyCopyCounts ==
    ASSUME [Next]_vars, ~LAppend, \A i \in Merge : ~Copy(i)
    PROVE  L_input' = L_input
<1>1. ASSUME NEW i \in Merge, MergeStep(i) PROVE L_input' = L_input
  BY <1>1 DEF MergeStep, BeginEntry, CopyWait, CopyNotify, EndCheck, Shrink, Deliver
<1>2. CASE LStep
  BY <1>2 DEF LStep, LTake, LWait, LNotify, LEnd
<1>3. CASE RStep
  BY <1>3 DEF RStep, RGive, REnd
<1>4. CASE SpuriousWakeup
  BY <1>4 DEF SpuriousWakeup
<1>5. CASE UNCHANGED vars
  BY <1>5 DEF vars
<1>6. QED
  BY <1>1, <1>2, <1>3, <1>4, <1>5 DEF Next

\* A buffer that everybody has copied is behind every window.
LEMMA PoppedIsPast ==
    ASSUME Types, InputIsLatest, WindowsAreCuts, CountsAreExact,
           NEW d \in 0 .. Len(L_input), \A k \in 1 .. d : CopiedByAll(L_input[k]),
           NEW i \in Merge
    PROVE  LeftEnd(Gone + d) <= WindowEnd(i)
<1>1. /\ Gone \in Nat /\ Len(L_input) \in Nat /\ Appended \in 0 .. Len(Blocks) /\ Gone + Len(L_input) = Appended
      /\ \A k \in 1 .. Len(L_input) :
            /\ Gone + k \in 1 .. Len(Blocks)
            /\ L_input[k].offset = LeftEnd(Gone + k - 1) /\ L_input[k].new_pos = Lefts[Gone + k]
  BY InputFacts
<1>2. /\ Len(Blocks) \in Nat
      /\ \A m \in 0 .. Len(Blocks) : LeftEnd(m) \in Nat
      /\ \A m \in 1 .. Len(Blocks) : LeftEnd(m) = LeftEnd(m - 1) + Len(Lefts[m]) /\ Lefts[m] \in Seq(Nat)
      /\ \A a, b \in 0 .. Len(Blocks) : a <= b => LeftEnd(a) <= LeftEnd(b)
  BY LeftFacts
<1>3. PICK c \in Gone .. Appended : WindowEnd(i) = LeftEnd(c)
  BY DEF WindowsAreCuts
<1>4. c \in 0 .. Len(Blocks) /\ Gone \in 0 .. Len(Blocks) /\ WindowEnd(i) \in Nat
  BY <1>1, <1>2, WindowFacts
<1> DEFINE S == {k \in 0 .. d : LeftEnd(Gone + k) <= WindowEnd(i)}
<1>5. 0 \in S
  <2>1. LeftEnd(Gone) <= LeftEnd(c)
    BY <1>1, <1>2, <1>3, <1>4
  <2>2. Gone + 0 = Gone
    BY <1>1
  <2>3. QED
    BY <1>3, <2>1, <2>2
<1>6. ASSUME NEW k \in 1 .. d, k - 1 \in S PROVE k \in S
  <2> DEFINE m == Gone + k
             b == L_input[k]
  <2>1. k \in 1 .. Len(L_input) /\ k \in 0 .. d
    BY <1>1
  <2>2. m \in 1 .. Len(Blocks) /\ m - 1 = Gone + k - 1 /\ Gone + (k - 1) = m - 1
    BY <1>1, <2>1
  <2>3. b.offset = LeftEnd(m - 1) /\ b.new_pos = Lefts[m]
    BY <1>1, <2>1, <2>2
  <2>4. CopiedByAll(b)
    BY <2>1
  <2>5. b.new_pos # <<>> => b.copy_sync = Cardinality(Past(b))
    BY <2>1 DEF CountsAreExact
  <2>6. LeftEnd(m - 1) <= WindowEnd(i)
    BY <1>6, <2>2
  <2> HIDE DEF m, b
  <2>7. CASE b.new_pos = <<>>
    <3>1. LeftEnd(m) = LeftEnd(m - 1) + Len(Lefts[m])
      BY <1>2, <2>2
    <3>2. Len(Lefts[m]) = 0
      BY <2>3, <2>7
    <3>3. m - 1 \in 0 .. Len(Blocks)
      BY <1>2, <2>2
    <3>4. LeftEnd(m) = LeftEnd(m - 1)
      BY <1>2, <3>1, <3>2, <3>3
    <3>5. QED
      BY <2>1, <2>6, <3>4 DEF m
  <2>8. CASE b.new_pos # <<>>
    <3>1. Cardinality(Past(b)) >= M
      BY <2>4, <2>5, <2>8 DEF CopiedByAll
    <3>2. Past(b) \subseteq Merge /\ IsFiniteSet(Merge) /\ Cardinality(Merge) = M
      BY MergeSize DEF Past
    <3>3. Past(b) = Merge
      <4>1. IsFiniteSet(Past(b)) /\ Cardinality(Past(b)) <= M /\ (Cardinality(Past(b)) = M => Past(b) = Merge)
        BY <3>2, FS_Subset
      <4>2. Cardinality(Past(b)) \in Nat /\ M \in Nat
        BY <4>1, FS_CardinalityType, MergeStageAssumption
      <4>3. QED
        BY <3>1, <4>1, <4>2
    <3>4. WindowEnd(i) > b.offset
      BY <3>3 DEF Past
    <3>5. LeftEnd(m - 1) < LeftEnd(c)
      <4>1. LeftEnd(m - 1) \in Nat /\ LeftEnd(c) \in Nat
        <5>1. m - 1 \in 0 .. Len(Blocks)
          BY <1>2, <2>2
        <5>2. QED
          BY <5>1, <1>2, <1>4
      <4>2. QED
        BY <1>3, <2>3, <3>4, <4>1
    <3>6. LeftEnd(m) <= LeftEnd(c)
      BY <1>4, <2>2, <3>5, CutsAreEnds
    <3>7. QED
      BY <1>3, <2>1, <3>6 DEF m
  <2>9. QED
    BY <2>7, <2>8
<1>7. d \in S
  <2>1. d \in Nat /\ d \in 0 .. d
    BY <1>1
  <2> HIDE DEF S
  <2>2. \A k \in 0 .. d : k \in S
    BY <1>5, <1>6, <2>1, Induction
  <2>3. QED
    BY <2>1, <2>2
<1>8. QED
  BY <1>7

\* Windows that end where they did, over a list that keeps at least as much
LEMMA SameEndsSameCuts ==
    ASSUME Types, WindowsAreCuts, Gone' = Gone, Appended' = Appended, NEW i \in Merge,
           WindowEnd(i)' = WindowEnd(i), \A n : LeftEnd(n)' = LeftEnd(n)
    PROVE  (\E c \in Gone .. Appended : WindowEnd(i) = LeftEnd(c))'
<1>1. PICK c \in Gone .. Appended : WindowEnd(i) = LeftEnd(c)
  BY DEF WindowsAreCuts
<1>2. c \in Gone' .. Appended' /\ WindowEnd(i)' = LeftEnd(c)'
  BY <1>1
<1>3. QED
  BY <1>2

LEMMA InitWindows == Init => WindowsAreCuts /\ CountsAreExact
<1> SUFFICES ASSUME Init PROVE WindowsAreCuts /\ CountsAreExact
  OBVIOUS
<1>1. LeftEnd(0) = 0
  BY InitTypes, LeftFacts
<1>2. Len(L_input) = 0 /\ Appended = 0 /\ Gone = 0
  BY DEF Init, Pending, Appended, Gone
<1>3. \A i \in Merge : L_buffer[i].offset = 0 /\ Window(i) = <<>>
  BY DEF Init, Window
<1>4. \A i \in Merge : WindowEnd(i) = 0 /\ Len(Window(i)) = 0
  BY <1>3 DEF WindowEnd
<1>5. WindowsAreCuts
  <2>1. 0 \in 0 .. 0
    OBVIOUS
  <2>2. QED
    BY <1>1, <1>2, <1>4, <2>1 DEF WindowsAreCuts
<1>6. CountsAreExact
  BY <1>2 DEF CountsAreExact
<1>7. QED
  BY <1>5, <1>6

LEMMA NextWindows ==
    Types /\ InputIsLatest /\ WindowsAreCuts /\ CountsAreExact /\ [Next]_vars => WindowsAreCuts'
<1> SUFFICES ASSUME Types, InputIsLatest, WindowsAreCuts, CountsAreExact, [Next]_vars
             PROVE  WindowsAreCuts'
  OBVIOUS
<1>1. LeftTable' = LeftTable /\ \A n : LeftEnd(n)' = LeftEnd(n)
  BY StreamsConstant DEF LeftEnd
<1>2. ASSUME L_buffer' = L_buffer
      PROVE  \A i \in Merge :
                /\ WindowEnd(i)' = WindowEnd(i)
                /\ (\A x \in 1 .. Len(Window(i)) : Window(i)[x] = LeftTable[L_buffer[i].offset + x])'
  <2>1. \A i \in Merge : Window(i)' = Window(i) /\ WindowEnd(i)' = WindowEnd(i)
    BY <1>2 DEF Window, WindowEnd
  <2>2. QED
    BY <1>1, <1>2, <2>1 DEF WindowsAreCuts
<1>3. CASE L_buffer' = L_buffer /\ ~LAppend
  <2>1. Gone' = Gone /\ Appended' = Appended
    <3>1. CASE LTake
      BY <3>1, TakeKeepsList
    <3>2. CASE ~LTake
      BY <1>3, <3>2, InputSteady DEF SameInput
    <3>3. QED
      BY <3>1, <3>2
  <2>2. \A i \in Merge : (\E c \in Gone .. Appended : WindowEnd(i) = LeftEnd(c))'
    BY <1>1, <1>2, <1>3, <2>1, SameEndsSameCuts
  <2>3. QED
    BY <1>2, <1>3, <2>2 DEF WindowsAreCuts
<1>4. CASE LAppend
  <2>1. PICK d \in 0 .. Len(L_input) : Appends(d)
    BY <1>4, AppendKeepsOrder
  <2>2. L_buffer' = L_buffer
    BY <1>4, NotCopyOrTake
  <2>3. Appended' = Appended + 1 /\ Gone' = Gone + d /\ \A k \in 1 .. d : CopiedByAll(L_input[k])
    BY <2>1 DEF Appends
  <2>4. ASSUME NEW i \in Merge PROVE (\E c \in Gone .. Appended : WindowEnd(i) = LeftEnd(c))'
    <3>1. LeftEnd(Gone + d) <= WindowEnd(i)
      BY <2>3, PoppedIsPast
    <3>2. PICK c \in Gone .. Appended : WindowEnd(i) = LeftEnd(c)
      BY DEF WindowsAreCuts
    <3>3. /\ Gone \in Nat /\ Appended \in 0 .. Len(Blocks) /\ Len(Blocks) \in Nat /\ Len(L_input) \in Nat
          /\ Gone + Len(L_input) = Appended /\ WindowEnd(i) \in Nat
      BY InputFacts, LeftFacts, WindowFacts
    <3>4. WindowEnd(i)' = LeftEnd(c)' /\ \A n : LeftEnd(n)' = LeftEnd(n)
      BY <1>1, <1>2, <2>2, <3>2
    <3>5. CASE c >= Gone + d
      <4>1. c \in Gone' .. Appended'
        BY <2>3, <3>3, <3>5
      <4>2. QED
        BY <3>4, <4>1
    <3>6. CASE c < Gone + d
      <4>1. PICK e \in Nat : e = Gone + d
        BY <3>3
      <4>2. e \in 0 .. Len(Blocks) /\ c \in 0 .. Len(Blocks) /\ c <= e
        BY <3>3, <3>6, <4>1
      <4>3. LeftEnd(c) <= LeftEnd(e) /\ LeftEnd(c) \in Nat /\ LeftEnd(e) \in Nat
        BY <4>2, LeftFacts
      <4>4. WindowEnd(i)' = LeftEnd(e)'
        BY <3>1, <3>2, <3>4, <4>1, <4>3
      <4>5. e \in Gone' .. Appended'
        BY <2>3, <3>3, <4>1
      <4>6. QED
        BY <4>4, <4>5
    <3>7. QED
      BY <3>3, <3>5, <3>6
  <2>5. QED
    BY <1>2, <2>2, <2>4 DEF WindowsAreCuts
<1>5. ASSUME NEW i \in Merge, Copy(i) PROVE WindowsAreCuts'
  <2>1. Gone' = Gone /\ Appended' = Appended
    BY <1>5, NotCopyOrTake, InputSteady DEF SameInput
  <2>2. /\ L_buffer'[i].offset = L_buffer[i].offset /\ L_buffer'[i].new_pos = Pass(i).new_pos
        /\ \A h \in Merge : h # i => L_buffer'[h] = L_buffer[h]
    BY <1>5, CopyMovesEnd
  <2>3. /\ L_buffer[i].offset + Len(Pass(i).new_pos) = LeftEnd(Appended)
        /\ \A x \in 1 .. Len(Pass(i).new_pos) :
             Pass(i).new_pos[x] = LeftTable[L_buffer[i].offset + x]
    BY PassResult
  <2>4. ASSUME NEW h \in Merge
        PROVE  /\ (\E c \in Gone .. Appended : WindowEnd(h) = LeftEnd(c))'
               /\ (\A x \in 1 .. Len(Window(h)) : Window(h)[x] = LeftTable[L_buffer[h].offset + x])'
    <3>1. CASE h = i
      <4>1. WindowEnd(h)' = LeftEnd(Appended)
        BY <2>2, <2>3, <3>1 DEF WindowEnd, Window
      <4>2. Appended \in Gone' .. Appended'
        <5>1. Gone \in Nat /\ Appended \in Nat /\ Gone <= Appended
          BY InputFacts, LeftFacts
        <5>2. QED
          BY <2>1, <5>1
      <4>3. PICK a : a = Appended
        OBVIOUS
      <4>4. Window(h)' = Pass(i).new_pos /\ L_buffer'[h].offset = L_buffer[i].offset
        BY <2>2, <3>1 DEF Window
      <4>5. (\A x \in 1 .. Len(Window(h)) : Window(h)[x] = LeftTable[L_buffer[h].offset + x])'
        BY <1>1, <2>3, <4>4
      <4>6. (\E c \in Gone .. Appended : WindowEnd(h) = LeftEnd(c))'
        <5>1. WindowEnd(h)' = LeftEnd(a)' /\ a \in Gone' .. Appended'
          BY <1>1, <4>1, <4>2, <4>3
        <5>2. QED
          BY <5>1
      <4>7. QED
        BY <4>5, <4>6
    <3>2. CASE h # i
      <4>1. L_buffer'[h] = L_buffer[h]
        BY <2>2, <3>2
      <4>2. Window(h)' = Window(h) /\ WindowEnd(h)' = WindowEnd(h)
        BY <4>1 DEF Window, WindowEnd
      <4>3. (\E c \in Gone .. Appended : WindowEnd(h) = LeftEnd(c))'
        BY <1>1, <2>1, <4>2, SameEndsSameCuts
      <4>4. QED
        BY <1>1, <4>1, <4>2, <4>3 DEF WindowsAreCuts
    <3>3. QED
      BY <3>1, <3>2
  <2>5. QED
    BY <2>4 DEF WindowsAreCuts
<1>6. ASSUME NEW i \in Merge, Shrink(i) PROVE WindowsAreCuts'
  <2>1. Gone' = Gone /\ Appended' = Appended
    BY <1>6, NotCopyOrTake, InputSteady DEF SameInput
  <2>2. PICK count \in 0 .. Len(Window(i)) :
            /\ L_buffer'[i].offset = L_buffer[i].offset + count
            /\ Len(L_buffer'[i].new_pos) = Len(Window(i)) - count
            /\ \A x \in 1 .. Len(Window(i)) - count : L_buffer'[i].new_pos[x] = Window(i)[count + x]
            /\ \A h \in Merge : h # i => L_buffer'[h] = L_buffer[h]
    BY <1>6, ShrinkKeepsEnd
  <2>3. ASSUME NEW h \in Merge
        PROVE  /\ WindowEnd(h)' = WindowEnd(h)
               /\ (\A x \in 1 .. Len(Window(h)) : Window(h)[x] = LeftTable[L_buffer[h].offset + x])'
    <3>1. CASE h = i
      <4>1. L_buffer[i].offset \in Nat /\ Len(Window(i)) \in Nat
        BY WindowFacts
      <4>2. WindowEnd(h)' = WindowEnd(h)
        BY <2>2, <3>1, <4>1 DEF WindowEnd, Window
      <4>3. ASSUME NEW x \in 1 .. Len(Window(h)')
            PROVE  Window(h)'[x] = LeftTable'[L_buffer'[h].offset + x]
        <5>1. x \in 1 .. Len(Window(i)) - count
          BY <2>2, <3>1 DEF Window
        <5>2. count + x \in 1 .. Len(Window(i))
          BY <4>1, <5>1
        <5>3. Window(i)[count + x] = LeftTable[L_buffer[i].offset + (count + x)]
          BY <5>2 DEF WindowsAreCuts
        <5>4. L_buffer[i].offset + (count + x) = L_buffer'[i].offset + x
          BY <2>2, <4>1, <5>1
        <5>5. Window(h)'[x] = Window(i)[count + x]
          BY <2>2, <3>1, <5>1 DEF Window
        <5>6. QED
          BY <1>1, <3>1, <5>3, <5>4, <5>5
      <4>4. QED
        BY <4>2, <4>3
    <3>2. CASE h # i
      <4>1. L_buffer'[h] = L_buffer[h]
        BY <2>2, <3>2
      <4>2. Window(h)' = Window(h) /\ WindowEnd(h)' = WindowEnd(h)
        BY <4>1 DEF Window, WindowEnd
      <4>3. QED
        BY <1>1, <4>1, <4>2 DEF WindowsAreCuts
    <3>3. QED
      BY <3>1, <3>2
  <2>4. \A h \in Merge : (\E c \in Gone .. Appended : WindowEnd(h) = LeftEnd(c))'
    BY <1>1, <2>1, <2>3, SameEndsSameCuts
  <2>5. QED
    BY <2>3, <2>4 DEF WindowsAreCuts
<1>7. QED
  BY <1>3, <1>4, <1>5, <1>6, WindowSteady

LEMMA NextCounts ==
    Types /\ InputIsLatest /\ WindowsAreCuts /\ CountsAreExact /\ [Next]_vars => CountsAreExact'
<1> SUFFICES ASSUME Types, InputIsLatest, WindowsAreCuts, CountsAreExact, [Next]_vars
             PROVE  CountsAreExact'
  OBVIOUS
<1>0. /\ Gone \in Nat /\ Len(L_input) \in Nat /\ Appended \in 0 .. Len(Blocks) /\ Gone + Len(L_input) = Appended
      /\ \A k \in 1 .. Len(L_input) :
            /\ Gone + k \in 1 .. Len(Blocks)
            /\ L_input[k].offset = LeftEnd(Gone + k - 1) /\ L_input[k].new_pos = Lefts[Gone + k]
            /\ L_input[k] \in Buffers
  BY InputFacts
<1>1. CASE (\A h \in Merge : WindowEnd(h)' = WindowEnd(h)) /\ L_input' = L_input
  <2>1. \A k : Past(L_input[k])' = Past(L_input[k])
    BY <1>1 DEF Past
  <2>2. QED
    BY <1>1, <2>1 DEF CountsAreExact
<1>2. CASE LAppend
  <2>1. PICK d \in 0 .. Len(L_input) : Appends(d)
    BY <1>2, AppendKeepsOrder
  <2>2. /\ Len(L_input') = Len(L_input) - d + 1
        /\ \A k \in 1 .. Len(L_input) - d : L_input'[k] = L_input[d + k]
        /\ L_input'[Len(L_input) - d + 1] = tmp
        /\ Pending
    BY <2>1 DEF Appends
  <2>3. L_buffer' = L_buffer
    BY <1>2, NotCopyOrTake
  <2>4. \A h \in Merge : WindowEnd(h)' = WindowEnd(h)
    BY <2>3 DEF WindowEnd, Window
  <2>5. ASSUME NEW k \in 1 .. Len(L_input'), L_input'[k].new_pos # <<>>
        PROVE  L_input'[k].copy_sync = Cardinality(Past(L_input[k])')
    <3>1. CASE k \in 1 .. Len(L_input) - d
      <4> DEFINE j == d + k
      <4>1. L_input'[k] = L_input[j] /\ j \in 1 .. Len(L_input)
        BY <1>0, <2>2, <3>1
      <4> HIDE DEF j
      <4>2. Past(L_input[k])' = Past(L_input[j])
        BY <2>4, <4>1 DEF Past
      <4>3. L_input[j].copy_sync = Cardinality(Past(L_input[j]))
        BY <2>5, <4>1 DEF CountsAreExact
      <4>4. QED
        BY <4>1, <4>2, <4>3
    <3>2. CASE k = Len(L_input) - d + 1
      <4>1. L_input'[k] = tmp
        BY <2>2, <3>2
      <4>2. tmp.offset = LeftEnd(Appended) /\ tmp.copy_sync = 0
        BY <2>2 DEF InputIsLatest, NotCopied
      <4>3. ASSUME NEW h \in Merge PROVE ~(WindowEnd(h)' > L_input'[k].offset)
        <5>1. PICK c \in Gone .. Appended : WindowEnd(h) = LeftEnd(c)
          BY DEF WindowsAreCuts
        <5>2. c \in 0 .. Len(Blocks) /\ c <= Appended
          BY <1>0, LeftFacts
        <5>3. LeftEnd(c) <= LeftEnd(Appended) /\ LeftEnd(c) \in Nat /\ LeftEnd(Appended) \in Nat
          BY <1>0, <5>2, LeftFacts
        <5>4. QED
          BY <2>4, <4>1, <4>2, <5>1, <5>3
      <4>4. Past(L_input[k])' = {}
        BY <4>3 DEF Past
      <4>5. QED
        BY <4>1, <4>2, <4>4, FS_EmptySet
    <3>3. k \in 1 .. Len(L_input) - d \/ k = Len(L_input) - d + 1
      BY <1>0, <2>2
    <3>4. QED
      BY <3>1, <3>2, <3>3
  <2>6. QED
    BY <2>5 DEF CountsAreExact
<1>3. ASSUME NEW i \in Merge, Copy(i) PROVE CountsAreExact'
  <2>1. /\ L_buffer'[i].offset = L_buffer[i].offset /\ L_buffer'[i].new_pos = Pass(i).new_pos
        /\ \A h \in Merge : h # i => L_buffer'[h] = L_buffer[h]
        /\ Len(L_input') = Len(L_input)
        /\ \A k \in 1 .. Len(L_input) :
             L_input'[k] = IF k \in Pass(i).copied THEN Counted(L_input[k]) ELSE L_input[k]
    BY <1>3, CopyMovesEnd
  <2>2. /\ L_buffer[i].offset + Len(Pass(i).new_pos) = LeftEnd(Appended)
        /\ \A k \in 1 .. Len(L_input) : k \in Pass(i).copied <=> L_input[k].offset >= WindowEnd(i)
    BY PassResult
  <2>3. WindowEnd(i)' = LeftEnd(Appended) /\ \A h \in Merge : h # i => WindowEnd(h)' = WindowEnd(h)
    BY <2>1, <2>2 DEF WindowEnd, Window
  <2>4. ASSUME NEW k \in 1 .. Len(L_input), L_input'[k].new_pos # <<>>
        PROVE  L_input'[k].copy_sync = Cardinality(Past(L_input[k])')
    <3> DEFINE b == L_input[k]
    <3>1. b \in Buffers /\ L_input'[k].offset = b.offset /\ L_input'[k].new_pos = b.new_pos
      <4>1. SameInput /\ b \in Buffers
        BY <1>0, <1>3, NotCopyOrTake, InputSteady
      <4>2. QED
        BY <4>1 DEF SameInput
    <3>2. b.copy_sync = Cardinality(Past(b)) /\ b.offset \in Nat /\ b.copy_sync \in Nat
      BY <2>4, <3>1 DEF CountsAreExact, Buffers
    <3>3. b.offset < LeftEnd(Appended)
      <4> DEFINE m == Gone + k
      <4>1. m \in 1 .. Len(Blocks) /\ b.offset = LeftEnd(m - 1) /\ b.new_pos = Lefts[m] /\ m <= Appended
        <5>1. m - 1 = Gone + k - 1
          BY <1>0
        <5>2. QED
          BY <1>0, <5>1
      <4> HIDE DEF m
      <4>2. LeftEnd(m) = LeftEnd(m - 1) + Len(Lefts[m]) /\ Lefts[m] \in Seq(Nat)
        BY <4>1, LeftFacts
      <4>3. Len(Lefts[m]) \in Nat \ {0}
        BY <2>4, <3>1, <4>1, <4>2
      <4>4. m \in 0 .. Len(Blocks) /\ Len(Blocks) \in Nat
        BY <4>1, LeftFacts
      <4>5. LeftEnd(m) <= LeftEnd(Appended) /\ LeftEnd(m) \in Nat /\ LeftEnd(Appended) \in Nat
        BY <1>0, <4>1, <4>4, LeftFacts
      <4>6. QED
        BY <3>2, <4>1, <4>2, <4>3, <4>5
    <3> HIDE DEF b
    <3>4. Past(L_input[k])' = {h \in Merge : WindowEnd(h)' > b.offset}
      BY <3>1 DEF Past
    <3>5. WindowEnd(i) \in Nat /\ LeftEnd(Appended) \in Nat
      BY <1>0, WindowFacts, LeftFacts
    <3>6. CASE b.offset >= WindowEnd(i)
      <4>1. i \notin Past(b) /\ Past(b) \subseteq Merge
        BY <3>2, <3>5, <3>6 DEF Past
      <4>2. Past(L_input[k])' = Past(b) \cup {i}
        BY <2>3, <3>2, <3>3, <3>4, <3>5 DEF Past
      <4>3. IsFiniteSet(Merge) /\ Cardinality(Merge) = M /\ M \in Nat
        BY MergeSize
      <4>4. IsFiniteSet(Past(b)) /\ Cardinality(Past(b) \cup {i}) = Cardinality(Past(b)) + 1
        BY <4>1, <4>3, FS_Subset, FS_AddElement
      <4>5. Cardinality(Past(b) \cup {i}) <= M
        <5>1. Past(b) \cup {i} \subseteq Merge
          BY <4>1
        <5>2. QED
          BY <4>3, <5>1, FS_Subset
      <4>6. b.copy_sync < M
        BY <3>2, <4>3, <4>4, <4>5
      <4>7. L_input'[k] = Counted(b)
        BY <2>1, <2>2, <3>6 DEF b
      <4>8. Counted(b).copy_sync = b.copy_sync + 1
        BY <3>1, <4>6 DEF Counted, Buffers
      <4>9. QED
        BY <3>2, <4>2, <4>4, <4>7, <4>8
    <3>7. CASE ~(b.offset >= WindowEnd(i))
      <4>1. i \in Past(b)
        BY <3>2, <3>5, <3>7 DEF Past
      <4>2. Past(L_input[k])' = Past(b)
        BY <2>3, <3>2, <3>3, <3>4, <3>5, <4>1 DEF Past
      <4>3. L_input'[k] = b
        BY <2>1, <2>2, <3>7 DEF b
      <4>4. QED
        BY <3>2, <4>2, <4>3
    <3>8. QED
      BY <3>6, <3>7
  <2>5. QED
    BY <2>1, <2>4 DEF CountsAreExact
<1>4. ASSUME NEW i \in Merge, Shrink(i) PROVE CountsAreExact'
  <2>1. PICK count \in 0 .. Len(Window(i)) :
            /\ L_buffer'[i].offset = L_buffer[i].offset + count
            /\ Len(L_buffer'[i].new_pos) = Len(Window(i)) - count
            /\ \A h \in Merge : h # i => L_buffer'[h] = L_buffer[h]
    BY <1>4, ShrinkKeepsEnd
  <2>2. L_buffer[i].offset \in Nat /\ Len(Window(i)) \in Nat
    BY WindowFacts
  <2>3. ASSUME NEW h \in Merge PROVE WindowEnd(h)' = WindowEnd(h)
    <3>1. CASE h = i
      BY <2>1, <2>2, <3>1 DEF WindowEnd, Window
    <3>2. CASE h # i
      BY <2>1, <3>2 DEF WindowEnd, Window
    <3>3. QED
      BY <3>1, <3>2
  <2>4. L_input' = L_input
    BY <1>4, NotCopyOrTake
  <2>5. QED
    BY <1>1, <2>3, <2>4
<1>5. CASE L_buffer' = L_buffer /\ ~LAppend
  <2>1. \A h \in Merge : WindowEnd(h)' = WindowEnd(h)
    BY <1>5 DEF WindowEnd, Window
  <2>2. ASSUME \A h \in Merge : ~Copy(h) PROVE L_input' = L_input
    BY <1>5, <2>2, OnlyCopyCounts
  <2>3. CASE \A h \in Merge : ~Copy(h)
    BY <1>1, <2>1, <2>2, <2>3
  <2>4. QED
    BY <1>3, <2>3
<1>6. QED
  BY <1>2, <1>3, <1>4, <1>5, WindowSteady

-----------------------------------------------------------------------------
(* The order of the right table *)

LEMMA RightFacts == Types =>
    /\ Jobs \in Seq(Seq(RightEntry)) /\ Len(Jobs) \in Nat
    /\ RightTable \in Seq(RightEntry) /\ Len(RightTable) = Ends(Jobs, Len(Jobs))
    /\ Ends(Jobs, 0) = 0
    /\ \A n \in 0 .. Len(Jobs) : Ends(Jobs, n) \in Nat
    /\ \A n \in 1 .. Len(Jobs) : Ends(Jobs, n) = Ends(Jobs, n - 1) + Len(Jobs[n]) /\ Jobs[n] \in Seq(RightEntry)
    /\ \A m, n \in 0 .. Len(Jobs) : m <= n => Ends(Jobs, m) <= Ends(Jobs, n)
    /\ \A n \in 1 .. Len(Jobs) : \A x \in 1 .. Len(Jobs[n]) :
        RightTable[Ends(Jobs, n - 1) + x] = Jobs[n][x]
<1> SUFFICES ASSUME Types
             PROVE  /\ Jobs \in Seq(Seq(RightEntry)) /\ Len(Jobs) \in Nat
                    /\ RightTable \in Seq(RightEntry) /\ Len(RightTable) = Ends(Jobs, Len(Jobs))
                    /\ Ends(Jobs, 0) = 0
                    /\ \A n \in 0 .. Len(Jobs) : Ends(Jobs, n) \in Nat
                    /\ \A n \in 1 .. Len(Jobs) : Ends(Jobs, n) = Ends(Jobs, n - 1) + Len(Jobs[n]) /\ Jobs[n] \in Seq(RightEntry)
                    /\ \A m, n \in 0 .. Len(Jobs) : m <= n => Ends(Jobs, m) <= Ends(Jobs, n)
                    /\ \A n \in 1 .. Len(Jobs) : \A x \in 1 .. Len(Jobs[n]) :
                        RightTable[Ends(Jobs, n - 1) + x] = Jobs[n][x]
  OBVIOUS
<1>1. Jobs \in Seq(Seq(RightEntry)) /\ Len(Jobs) \in Nat
  BY TypesParts
<1>2. RightTable = FlattenSeq(Jobs)
  BY DEF RightTable
<1>3. \A n \in 1 .. Len(Jobs) : Jobs[n] \in Seq(RightEntry)
  BY <1>1
<1> HIDE DEF RightEntry
<1>4. /\ FlattenSeq(Jobs) \in Seq(RightEntry)
      /\ Ends(Jobs, 0) = 0 /\ Ends(Jobs, Len(Jobs)) = Len(FlattenSeq(Jobs))
      /\ \A n \in 0 .. Len(Jobs) : Ends(Jobs, n) \in Nat
      /\ \A n \in 1 .. Len(Jobs) : Ends(Jobs, n) = Ends(Jobs, n - 1) + Len(Jobs[n])
      /\ \A m, n \in 0 .. Len(Jobs) : m <= n => Ends(Jobs, m) <= Ends(Jobs, n)
      /\ \A n \in 1 .. Len(Jobs) : \A x \in 1 .. Len(Jobs[n]) :
           FlattenSeq(Jobs)[Ends(Jobs, n - 1) + x] = Jobs[n][x]
  BY <1>1, BlocksInTable
<1>5. QED
  BY <1>1, <1>2, <1>3, <1>4

\* An entry of a job is not behind one of the jobs before.
LEMMA JobsSorted ==
    ASSUME Types, NEW j \in 1 .. Len(Jobs), NEW k \in 1 .. Len(Jobs), j < k,
           NEW m \in 1 .. Len(Jobs[j]), NEW n \in 1 .. Len(Jobs[k])
    PROVE  Jobs[j][m].pos <= Jobs[k][n].pos
<1> DEFINE a == Ends(Jobs, j - 1) + m
           b == Ends(Jobs, k - 1) + n
<1>1. /\ j - 1 \in 0 .. Len(Jobs) /\ j \in 0 .. Len(Jobs) /\ k - 1 \in 0 .. Len(Jobs) /\ k \in 0 .. Len(Jobs)
      /\ Len(Jobs) \in 0 .. Len(Jobs) /\ j <= k - 1 /\ k <= Len(Jobs)
  BY SMTT(40), RightFacts
<1>2. /\ Ends(Jobs, j - 1) \in Nat /\ Ends(Jobs, k - 1) \in Nat /\ Ends(Jobs, j) \in Nat /\ Ends(Jobs, k) \in Nat
      /\ Ends(Jobs, j) <= Ends(Jobs, k - 1) /\ Ends(Jobs, k) <= Len(RightTable)
      /\ Len(RightTable) \in Nat
  BY <1>1, RightFacts
<1>3. Ends(Jobs, j) = Ends(Jobs, j - 1) + Len(Jobs[j]) /\ Len(Jobs[j]) \in Nat
  BY SMTT(40), RightFacts
<1>4. Ends(Jobs, k) = Ends(Jobs, k - 1) + Len(Jobs[k]) /\ Len(Jobs[k]) \in Nat
  BY RightFacts
<1>5. a \in 1 .. Len(RightTable) /\ b \in 1 .. Len(RightTable) /\ a < b
  <2>1. m \in Nat /\ 1 <= m /\ m <= Len(Jobs[j]) /\ n \in Nat /\ 1 <= n /\ n <= Len(Jobs[k])
    BY <1>3, <1>4
  <2>2. a \in Nat /\ 1 <= a /\ a <= Ends(Jobs, j)
    BY SMTT(40), <1>2, <1>3, <2>1
  <2>3. b \in Nat /\ 1 <= b /\ b > Ends(Jobs, k - 1) /\ b <= Ends(Jobs, k)
    BY SMTT(40), <1>2, <1>4, <2>1
  <2> HIDE DEF a, b
  <2>4. a <= Len(RightTable) /\ b <= Len(RightTable) /\ a < b
    BY SMTT(40), <1>2, <2>2, <2>3
  <2>5. QED
    BY <1>2, <2>2, <2>3, <2>4
<1>6. RightTable[a] = Jobs[j][m] /\ RightTable[b] = Jobs[k][n]
  BY RightFacts
<1> HIDE DEF a, b
<1>7. RightTable[a].pos <= RightTable[b].pos
  <2>1. streams \in Streams /\ RightTable = FlattenSeq(streams.jobs)
    BY DEF Types, RightTable, Jobs
  <2>2. \A x, y \in 1 .. Len(RightTable) : x < y => RightTable[x].pos <= RightTable[y].pos
    BY <2>1, StreamsAssumption
  <2>3. QED
    BY <1>5, <2>2
<1>8. QED
  BY <1>6, <1>7

LEMMA InitBehind == Init => NothingBehind
<1> SUFFICES ASSUME Init PROVE NothingBehind
  OBVIOUS
<1>1. Jobs \in Seq(Seq(RightEntry)) /\ Len(Jobs) \in Nat
  BY InitTypes, TypesParts
<1>2. ASSUME NEW k \in 1 .. Len(Jobs), NEW n \in 1 .. Len(Jobs[k]) PROVE 0 <= Jobs[k][n].pos
  <2>1. Jobs[k] \in Seq(RightEntry)
    BY <1>1
  <2>2. Jobs[k][n] \in RightEntry
    BY <2>1
  <2>3. QED
    BY <2>2 DEF RightEntry
<1>3. ASSUME NEW i \in Merge PROVE mpc[i] = "idle" /\ job[i] = 0 /\ L_buffer[i].offset = 0
  BY DEF Init
<1>4. given = 0
  BY DEF Init
<1>5. QED
  BY <1>2, <1>3, <1>4 DEF NothingBehind, InOrderAt, Looking

\* A thread that does nothing
SameThread(h) ==
    /\ job'[h] = job[h] /\ entry'[h] = entry[h] /\ L_buffer'[h].offset = L_buffer[h].offset
    /\ mpc'[h] = mpc[h] \/ (mpc[h] = "blocked" /\ mpc'[h] = "copy")

LEMMA OthersStay ==
    ASSUME Types
    PROVE  /\ \A i \in Merge : MergeStep(i) =>
                /\ \A h \in Merge : h # i => SameThread(h) /\ mpc'[h] = mpc[h]
                /\ given' = given /\ L_is_end' = L_is_end
           /\ LStep \/ REnd \/ SpuriousWakeup \/ UNCHANGED vars =>
                /\ \A h \in Merge : SameThread(h)
                /\ given' = given /\ (L_is_end => L_is_end')
                /\ out' = out /\ merged' = merged /\ delivered' = delivered
<1>0. /\ mpc \in [Merge -> MergeState] /\ L_buffer \in [Merge -> WindowType]
      /\ job \in [Merge -> 0 .. Len(Jobs)] /\ entry \in [Merge -> Nat]
  BY DEF Types, MergeState, WindowType
<1>1. ASSUME NEW i \in Merge, MergeStep(i)
      PROVE  /\ \A h \in Merge : h # i => SameThread(h) /\ mpc'[h] = mpc[h]
             /\ given' = given /\ L_is_end' = L_is_end
  <2> HIDE DEF WindowType, MergeState
  <2> DEFINE Others == \A h \in Merge : h # i => SameThread(h) /\ mpc'[h] = mpc[h]
  <2>1. ASSUME LookedUp(i), L_buffer' = L_buffer PROVE Others
    BY <2>1, <1>0 DEF LookedUp, SameThread
  <2>2. CASE BeginEntry(i)
    BY <2>1, <2>2, <1>0 DEF BeginEntry, SameThread, locals, pool
  <2>3. CASE CopyWait(i) \/ CopyNotify(i) \/ Deliver(i)
    BY <2>3, <1>0 DEF CopyWait, CopyNotify, Deliver, SameThread, locals, pool
  <2>4. CASE Copy(i)
    BY <2>4, <1>0, CopyMovesEnd DEF Copy, SameThread, locals, pool
  <2>5. CASE EndCheck(i)
    BY <2>1, <2>5, <1>0 DEF EndCheck, SameThread, locals, pool
  <2>6. CASE Shrink(i)
    <3>1. \A h \in Merge : h # i => L_buffer'[h] = L_buffer[h]
      BY <2>6, ShrinkKeepsEnd
    <3>2. mpc' = [mpc EXCEPT ![i] = "turn"] /\ UNCHANGED locals /\ UNCHANGED pool /\ L_is_end' = L_is_end
      BY <2>6 DEF Shrink
    <3>3. QED
      BY <1>0, <3>1, <3>2 DEF SameThread, locals, pool
  <2>7. QED
    BY <1>1, <2>2, <2>3, <2>4, <2>5, <2>6 DEF MergeStep
<1>2. ASSUME LStep \/ REnd \/ SpuriousWakeup \/ UNCHANGED vars
      PROVE  /\ \A h \in Merge : SameThread(h)
             /\ given' = given /\ (L_is_end => L_is_end')
             /\ out' = out /\ merged' = merged /\ delivered' = delivered
  <2> HIDE DEF WindowType, MergeState
  <2>1. Signal => \A h \in Merge : mpc'[h] = mpc[h] \/ (mpc[h] = "blocked" /\ mpc'[h] = "copy")
    BY <1>0 DEF Signal
  <2>2. CASE LTake \/ LWait \/ LAppend
    BY <2>2 DEF LTake, LWait, LAppend, SameThread, locals, pool
  <2>3. CASE LNotify
    BY <2>1, <2>3 DEF LNotify, SameThread, locals, pool
  <2>4. CASE LEnd
    BY <2>1, <2>4 DEF LEnd, SameThread, locals, pool
  <2>5. CASE REnd
    BY <2>5 DEF REnd, SameThread, locals, pool
  <2>6. CASE SpuriousWakeup
    BY <2>6, <1>0 DEF SpuriousWakeup, SameThread, locals, pool
  <2>7. CASE UNCHANGED vars
    BY <2>7 DEF vars, SameThread
  <2>8. QED
    BY <1>2, <2>2, <2>3, <2>4, <2>5, <2>6, <2>7 DEF LStep
<1>3. QED
  BY <1>1, <1>2

LEMMA NextBehind == Types /\ NothingBehind /\ [Next]_vars => NothingBehind'
<1> SUFFICES ASSUME Types, NothingBehind, [Next]_vars PROVE NothingBehind'
  OBVIOUS
<1>0. /\ mpc \in [Merge -> MergeState] /\ L_buffer \in [Merge -> WindowType]
      /\ job \in [Merge -> 0 .. Len(Jobs)] /\ entry \in [Merge -> Nat] /\ given \in Nat
      /\ Len(Jobs) \in Nat /\ Jobs' = Jobs
      /\ \A i \in Merge : mpc[i] # "idle" => job[i] >= 1
  BY StreamsConstant, TypesParts DEF Types, MergeState, WindowType
<1> DEFINE Fine(h) == /\ InOrderAt(Jobs', mpc'[h], job'[h], entry'[h], L_buffer'[h].offset)
                      /\ job'[h] <= given'
                      /\ mpc'[h] = "outofbounds" => L_is_end'
<1>1. (\A h \in Merge : Fine(h)) => NothingBehind'
  BY DEF NothingBehind
<1>2. ASSUME NEW h \in Merge
      PROVE  /\ InOrderAt(Jobs, mpc[h], job[h], entry[h], L_buffer[h].offset)
             /\ job[h] <= given /\ (mpc[h] = "outofbounds" => L_is_end)
  BY DEF NothingBehind
<1>3. ASSUME NEW h \in Merge, SameThread(h), given' = given, L_is_end => L_is_end' PROVE Fine(h)
  <2>1. InOrderAt(Jobs, mpc'[h], job[h], entry[h], L_buffer[h].offset)
    <3>1. CASE mpc'[h] = mpc[h]
      BY <1>2, <3>1
    <3>2. CASE mpc[h] = "blocked" /\ mpc'[h] = "copy"
      BY <1>2, <3>2 DEF InOrderAt, Looking
    <3>3. QED
      BY <1>3, <3>1, <3>2 DEF SameThread
  <2>2. QED
    BY <1>0, <1>2, <1>3, <2>1 DEF SameThread
<1>4. CASE LStep \/ REnd \/ SpuriousWakeup \/ UNCHANGED vars
  BY <1>1, <1>3, <1>4, OthersStay
<1>5. CASE RGive
  <2> DEFINE i == given % M
  <2>1. /\ mpc[i] = "idle" /\ job' = [job EXCEPT ![i] = given + 1] /\ entry' = [entry EXCEPT ![i] = 1]
        /\ mpc' = [mpc EXCEPT ![i] = "entry"] /\ given' = given + 1 /\ L_buffer' = L_buffer /\ L_is_end' = L_is_end
    BY <1>5 DEF RGive
  <2> HIDE DEF i
  <2>2. ASSUME NEW h \in Merge PROVE Fine(h)
    <3>1. CASE h = i
      <4>1. mpc'[h] = "entry" /\ job'[h] = given + 1 /\ L_buffer'[h] = L_buffer[h]
        BY <1>0, <2>1, <3>1
      <4>2. \A k \in 1 .. Len(Jobs) : k >= given + 1 => k > job[h]
        BY <1>0, <1>2
      <4>3. mpc[h] = "idle"
        BY <2>1, <3>1
      <4>4. InOrderAt(Jobs, "entry", given + 1, entry'[h], L_buffer[h].offset)
        BY <1>2, <4>2, <4>3 DEF InOrderAt, Looking
      <4>5. QED
        BY <1>0, <2>1, <4>1, <4>4
    <3>2. CASE h # i
      <4>1. mpc'[h] = mpc[h] /\ job'[h] = job[h] /\ entry'[h] = entry[h] /\ L_buffer'[h] = L_buffer[h]
        BY <1>0, <2>1, <3>2
      <4>2. job[h] <= given + 1
        BY <1>0, <1>2
      <4>3. QED
        BY <1>0, <1>2, <2>1, <4>1, <4>2
    <3>3. QED
      BY <3>1, <3>2
  <2>3. QED
    BY <1>1, <2>2
<1>6. ASSUME NEW i \in Merge, MergeStep(i) PROVE Fine(i)
  <2>2. given' = given /\ L_is_end' = L_is_end
    BY <1>6, OthersStay
  <2> DEFINE m == mpc[i]
             o == L_buffer[i].offset
             At(state, e, offset) == InOrderAt(Jobs, state, job[i], e, offset)
  <2>3. At(m, entry[i], o) /\ job[i] <= given /\ (m = "outofbounds" => L_is_end)
    BY <1>2
  <2>4. ASSUME mpc'[i] # "outofbounds" \/ L_is_end, job'[i] = job[i],
               At(mpc'[i], entry'[i], L_buffer'[i].offset)
        PROVE  Fine(i)
    BY <1>0, <2>2, <2>3, <2>4
  <2> HIDE DEF Fine
  <2>5. ASSUME m \notin {"idle", "turn"}
        PROVE  \A e : At("entry", e, o)
    BY <2>3, <2>5 DEF InOrderAt, Looking
  <2>6. ASSUME m \notin {"idle", "turn"}, entry[i] <= Len(Entries(i))
        PROVE  \A state \in Looking : At(state, entry[i], o)
    BY <2>3, <2>6 DEF InOrderAt, Looking, Entries
  <2>7. ASSUME LookedUp(i) PROVE mpc'[i] = "entry" /\ job'[i] = job[i]
    BY <1>0, <2>7 DEF LookedUp
  <2>8. m \in Looking => entry[i] <= Len(Entries(i))
    BY <2>3 DEF InOrderAt, Entries
  <2>9. CASE BeginEntry(i)
    <3>1. m = "entry" /\ entry[i] <= Len(Entries(i)) /\ L_buffer' = L_buffer
      BY <2>9 DEF BeginEntry
    <3>2. CASE LookedUp(i)
      BY <2>4, <2>5, <2>7, <3>1, <3>2
    <3>3. CASE Goto(i, "copy") /\ UNCHANGED locals
      <4>1. mpc'[i] = "copy" /\ job'[i] = job[i] /\ entry'[i] = entry[i]
        BY <1>0, <3>3 DEF locals
      <4>2. "copy" \in Looking
        BY DEF Looking
      <4>3. QED
        BY <2>4, <2>6, <3>1, <4>1, <4>2
    <3>4. QED
      BY <2>9, <3>2, <3>3 DEF BeginEntry
  <2>10. CASE CopyWait(i)
    <3>1. /\ m = "copy" /\ mpc'[i] = "blocked" /\ L_buffer' = L_buffer
          /\ job'[i] = job[i] /\ entry'[i] = entry[i]
      BY <1>0, <2>10 DEF CopyWait, locals
    <3>2. QED
      BY <2>4, <2>6, <2>8, <3>1 DEF Looking
  <2>11. CASE Copy(i)
    <3>1. /\ m = "copy" /\ mpc'[i] = "notify" /\ L_buffer'[i].offset = o
          /\ job'[i] = job[i] /\ entry'[i] = entry[i]
      BY <1>0, <2>11, CopyMovesEnd DEF Copy, locals
    <3>2. QED
      BY <2>4, <2>6, <2>8, <3>1 DEF Looking
  <2>12. CASE CopyNotify(i)
    <3>1. /\ m = "notify" /\ mpc'[i] = "endcheck" /\ L_buffer' = L_buffer
          /\ job'[i] = job[i] /\ entry'[i] = entry[i]
      BY <1>0, <2>12 DEF CopyNotify, locals
    <3>2. QED
      BY <2>4, <2>6, <2>8, <3>1 DEF Looking
  <2>13. CASE EndCheck(i)
    <3>1. m = "endcheck" /\ L_buffer' = L_buffer
      BY <2>13 DEF EndCheck
    <3>2. CASE LookedUp(i)
      BY <2>4, <2>5, <2>7, <3>1, <3>2
    <3>3. CASE Goto(i, IF L_is_end THEN "outofbounds" ELSE "copy") /\ UNCHANGED locals
      <4>1. /\ mpc'[i] = IF L_is_end THEN "outofbounds" ELSE "copy"
            /\ job'[i] = job[i] /\ entry'[i] = entry[i]
        BY <1>0, <3>3 DEF locals
      <4>2. mpc'[i] \in Looking /\ (mpc'[i] # "outofbounds" \/ L_is_end)
        BY <4>1 DEF Looking
      <4>3. m \in Looking
        BY <3>1 DEF Looking
      <4>4. QED
        BY <2>4, <2>6, <2>8, <3>1, <4>1, <4>2, <4>3
    <3>4. QED
      BY <2>13, <3>2, <3>3 DEF EndCheck
  <2>14. CASE Shrink(i)
    <3>1. m = "entry" /\ mpc'[i] = "turn" /\ job'[i] = job[i] /\ entry'[i] = entry[i]
      BY <1>0, <2>14 DEF Shrink, locals
    <3>2. PICK count \in 0 .. Len(Window(i)) :
            L_buffer'[i].offset = o + count /\ (count = 0 \/ o + count <= LastFirst(i))
      BY <2>14, ShrinkKeepsEnd
    <3>3. o \in Nat
      BY WindowFacts
    <3>4. job[i] >= 1
      BY <1>0, <3>1
    <3>5. ASSUME NEW k \in 1 .. Len(Jobs), k > job[i], NEW n \in 1 .. Len(Jobs[k])
          PROVE  o + count <= Jobs[k][n].pos
      <4>1. o <= Jobs[k][n].pos
        <5>1. k >= job[i]
          BY <1>0, <3>5
        <5>2. QED
          BY <2>3, <3>1, <5>1 DEF InOrderAt
      <4>2. CASE count = 0
        BY <3>3, <4>1, <4>2
      <4>3. CASE o + count <= LastFirst(i)
        <5>1. /\ Entries(i) \in Seq(RightEntry) /\ job[i] \in 1 .. Len(Jobs)
              /\ Jobs[k] \in Seq(RightEntry) /\ Jobs[k][n] \in RightEntry
          <6>1. Jobs[k] \in Seq(RightEntry)
            BY RightFacts
          <6>2. QED
            BY <3>4, <6>1, LastFirstType
        <5>2. CASE Entries(i) = <<>>
          BY <3>2, <3>3, <4>1, <4>3, <5>2 DEF LastFirst
        <5>3. CASE Entries(i) # <<>>
          <6> DEFINE l == Len(Entries(i))
          <6>1. l \in 1 .. Len(Jobs[job[i]]) /\ LastFirst(i) = Jobs[job[i]][l].pos
            BY <5>1, <5>3 DEF LastFirst, Last, Entries
          <6> HIDE DEF l
          <6>2. Jobs[job[i]][l].pos <= Jobs[k][n].pos
            BY <3>5, <5>1, <6>1, JobsSorted
          <6>3. LastFirst(i) \in Nat /\ Jobs[k][n].pos \in Nat /\ o + count \in Nat
            <7>1. LastFirst(i) \in Nat
              BY <3>4, LastFirstType
            <7>2. Jobs[k][n].pos \in Nat
              BY <5>1 DEF RightEntry
            <7>3. count \in Nat
              BY WindowFacts
            <7>4. QED
              BY SMTT(40), <3>3, <7>1, <7>2, <7>3
          <6>4. QED
            BY SMTT(40), <4>3, <6>1, <6>2, <6>3
        <5>4. QED
          BY <5>2, <5>3
      <4>4. QED
        BY <3>2, <4>2, <4>3
    <3>6. At("turn", entry[i], o + count)
      BY <3>5 DEF InOrderAt, Looking
    <3>7. QED
      BY <2>4, <3>1, <3>2, <3>6
  <2>15. CASE Deliver(i)
    <3>1. m = "turn" /\ mpc'[i] = "idle" /\ job' = job /\ entry' = entry /\ L_buffer' = L_buffer
      BY <1>0, <2>15 DEF Deliver
    <3>2. At("idle", entry[i], o)
      BY <2>3, <3>1 DEF InOrderAt, Looking
    <3>3. QED
      BY <2>4, <3>1, <3>2
  <2>16. QED
    BY <1>6, <2>9, <2>10, <2>11, <2>12, <2>13, <2>14, <2>15 DEF MergeStep
<1> HIDE DEF Fine
<1>7. ASSUME NEW i \in Merge, MergeStep(i), NEW h \in Merge PROVE Fine(h)
  BY <1>3, <1>6, <1>7, OthersStay
<1>8. QED
  BY <1>1, <1>4, <1>5, <1>7 DEF Next, RStep

-----------------------------------------------------------------------------
(* What is looked up, and what is merged of it *)

\* The two positions of a right entry are different, and its line point is that
\* of both of them.
LEMMA LinePointOfEntry ==
    ASSUME Types, NEW e \in RightEntry, InTable(LeftTable, e)
    PROVE  /\ LookUp(LeftTable, e) \in Nat \X Nat
           /\ LinePointOf(LeftTable, e) \in Nat
           /\ LinePointToSquare(LinePointOf(LeftTable, e)) =
                {LeftTable[e.pos + 1], LeftTable[e.pos + e.off + 1]}
<1> DEFINE a == e.pos + 1
           b == e.pos + e.off + 1
<1>1. LeftTable \in Seq(Nat) /\ Len(LeftTable) \in Nat
  BY LeftFacts
<1>2. e.pos \in Nat /\ e.off \in Nat /\ e.off >= 1 /\ e.pos + e.off < Len(LeftTable)
  BY DEF RightEntry, InTable
<1>3. a \in 1 .. Len(LeftTable) /\ b \in 1 .. Len(LeftTable) /\ a # b
  BY <1>1, <1>2
<1> HIDE DEF a, b
<1>4. LeftTable[a] \in Nat /\ LeftTable[b] \in Nat
  BY <1>1, <1>3
<1>5. LeftTable[a] # LeftTable[b]
  <2>1. streams \in Streams /\ LeftTable = FlattenSeq(Positions(streams.left))
    BY DEF Types, LeftTable, Blocks
  <2>2. \A x, y \in 1 .. Len(LeftTable) : x # y => LeftTable[x] # LeftTable[y]
    BY <2>1, StreamsAssumption
  <2>3. QED
    BY <1>3, <2>2
<1>6. /\ SquareToLinePoint(LeftTable[a], LeftTable[b]) \in Nat
      /\ LinePointToSquare(SquareToLinePoint(LeftTable[a], LeftTable[b])) = {LeftTable[a], LeftTable[b]}
  BY <1>4, <1>5, LinePointIsSquare
<1>7. LookUp(LeftTable, e) = <<LeftTable[a], LeftTable[b]>>
  BY DEF LookUp, a, b
<1>8. LinePointOf(LeftTable, e) = SquareToLinePoint(LeftTable[a], LeftTable[b])
  BY DEF LinePointOf, a, b
<1>9. <<LeftTable[a], LeftTable[b]>> \in Nat \X Nat
  BY <1>4
<1>10. QED
  BY <1>6, <1>7, <1>8, <1>9 DEF a, b

\* What a window holds at a position between its ends is what the table holds there.
LEMMA WindowAt ==
    ASSUME Types, InputIsLatest, WindowsAreCuts, NEW i \in Merge, NEW p \in Nat,
           L_buffer[i].offset <= p, p < WindowEnd(i)
    PROVE  Window(i)[p - L_buffer[i].offset + 1] = LeftTable[p + 1] /\ p < Len(LeftTable)
<1> DEFINE o == L_buffer[i].offset
           x == p - o + 1
<1>1. o \in Nat /\ Len(Window(i)) \in Nat /\ WindowEnd(i) = o + Len(Window(i))
  BY WindowFacts
<1>2. x \in 1 .. Len(Window(i)) /\ o + x = p + 1
  BY <1>1
<1>3. \A y \in 1 .. Len(Window(i)) : Window(i)[y] = LeftTable[o + y]
  BY DEF WindowsAreCuts
<1>4. Window(i)[x] = LeftTable[o + x]
  BY <1>2, <1>3
<1>5. PICK c \in Gone .. Appended : WindowEnd(i) = LeftEnd(c)
  BY DEF WindowsAreCuts
<1>6. c \in 0 .. Len(Blocks) /\ Len(Blocks) \in 0 .. Len(Blocks) /\ c <= Len(Blocks)
  BY InputFacts, LeftFacts
<1>7. LeftEnd(c) <= Len(LeftTable) /\ LeftEnd(c) \in Nat /\ Len(LeftTable) \in Nat
  BY <1>6, LeftFacts
<1>8. p < Len(LeftTable)
  BY <1>5, <1>7
<1>9. QED
  BY <1>2, <1>4, <1>8

LEMMA EntryLookedUp ==
    ASSUME Types, InputIsLatest, WindowsAreCuts, LookedUpRight, NEW i \in Merge,
           mpc[i] \notin {"idle", "turn"}, entry[i] <= Len(Entries(i)),
           InOrder(i), Found(i), LookedUp(i)
    PROVE  /\ out' \in [Merge -> Seq(Nat \X Nat)]
           /\ \A h \in Merge : h # i => out'[h] = out[h]
           /\ LookedUpAt(LeftTable, Jobs[job[i]], mpc'[i], entry'[i], out'[i])
<1> DEFINE o == L_buffer[i].offset
           s == out[i]
           n == entry[i]
           e == Entry(i)
           pair == LookUp(LeftTable, e)
<1>1. job[i] >= 1 /\ Entries(i) \in Seq(RightEntry)
  BY LastFirstType DEF Types
<1>2. /\ out \in [Merge -> Seq(Nat \X Nat)] /\ s \in Seq(Nat \X Nat) /\ Len(s) \in Nat
      /\ n = Len(s) + 1 /\ n <= Len(Entries(i))
      /\ \A x \in 1 .. Len(s) : InTable(LeftTable, Entries(i)[x]) /\ s[x] = LookUp(LeftTable, Entries(i)[x])
  BY DEF LookedUpRight, LookedUpAt, Entries
<1>3. n \in 1 .. Len(Entries(i)) /\ e = Entries(i)[n] /\ e \in RightEntry
  BY <1>1, <1>2 DEF Entry
<1>4. e.pos \in Nat /\ e.off \in Nat /\ e.off >= 1
  BY <1>3 DEF RightEntry
<1>5. o \in Nat /\ WindowEnd(i) \in Nat
  BY WindowFacts
<1>6. First(i) = e.pos /\ Second(i) = e.pos + e.off /\ First(i) \in Nat /\ Second(i) \in Nat
  BY <1>4 DEF First, Second
<1>7. o <= First(i) /\ First(i) < Second(i) /\ Second(i) < WindowEnd(i)
  BY <1>4, <1>5, <1>6 DEF InOrder, Found
<1>8. /\ Window(i)[First(i) - o + 1] = LeftTable[First(i) + 1]
      /\ Window(i)[Second(i) - o + 1] = LeftTable[Second(i) + 1]
      /\ Second(i) < Len(LeftTable)
  <2>1. First(i) < WindowEnd(i) /\ o <= Second(i)
    BY <1>5, <1>6, <1>7
  <2>2. QED
    BY <1>6, <1>7, <2>1, WindowAt
<1>9. <<Window(i)[First(i) - o + 1], Window(i)[Second(i) - o + 1]>> = pair /\ InTable(LeftTable, e)
  BY <1>6, <1>8 DEF LookUp, InTable
<1>10. pair \in Nat \X Nat
  BY <1>3, <1>9, LinePointOfEntry
<1> DEFINE t == Append(s, pair)
<1>11. out' = [out EXCEPT ![i] = t] /\ mpc'[i] = "entry" /\ entry'[i] = n + 1
  BY <1>9 DEF LookedUp, Types
<1> HIDE DEF pair, e, o
<1>12. /\ t \in Seq(Nat \X Nat) /\ Len(t) = Len(s) + 1 /\ t[Len(s) + 1] = pair
       /\ \A x \in 1 .. Len(s) : t[x] = s[x]
  BY <1>2, <1>10, AppendedElement
<1> HIDE DEF t
<1>13. out' \in [Merge -> Seq(Nat \X Nat)] /\ out'[i] = t /\ \A h \in Merge : h # i => out'[h] = out[h]
  BY <1>2, <1>11, <1>12
<1>14. ASSUME NEW x \in 1 .. Len(t)
       PROVE  InTable(LeftTable, Entries(i)[x]) /\ t[x] = LookUp(LeftTable, Entries(i)[x])
  <2>1. CASE x = Len(s) + 1
    BY <1>2, <1>3, <1>9, <1>12, <2>1 DEF pair
  <2>2. CASE x # Len(s) + 1
    <3>1. x \in 1 .. Len(s)
      BY <1>2, <1>12, <2>2
    <3>2. QED
      BY <1>2, <1>12, <3>1
  <2>3. QED
    BY <2>1, <2>2
<1>15. entry'[i] = Len(t) + 1 /\ Len(t) <= Len(Jobs[job[i]])
  BY <1>2, <1>3, <1>11, <1>12 DEF Entries
<1>16. QED
  BY <1>11, <1>13, <1>14, <1>15 DEF LookedUpAt, Entries

LEMMA InitLookedUp == Init => LookedUpRight
<1> SUFFICES ASSUME Init PROVE LookedUpRight
  OBVIOUS
<1>1. <<>> \in Seq(Nat \X Nat)
  OBVIOUS
<1>2. out = [i \in Merge |-> <<>>] /\ \A i \in Merge : mpc[i] = "idle"
  BY DEF Init
<1>3. QED
  BY <1>1, <1>2 DEF LookedUpRight, LookedUpAt

LEMMA NextLookedUp ==
    Types /\ InputIsLatest /\ WindowsAreCuts /\ NothingBehind /\ LookedUpRight /\ [Next]_vars => LookedUpRight'
<1> SUFFICES ASSUME Types, InputIsLatest, WindowsAreCuts, NothingBehind, LookedUpRight, [Next]_vars
             PROVE  LookedUpRight'
  OBVIOUS
<1> DEFINE V == Seq(Nat \X Nat)
           Fine(h) == LookedUpAt(LeftTable', Jobs'[job'[h]], mpc'[h], entry'[h], out'[h])
<1>0. /\ mpc \in [Merge -> MergeState] /\ job \in [Merge -> 0 .. Len(Jobs)] /\ entry \in [Merge -> Nat]
      /\ given \in Nat /\ Len(Jobs) \in Nat /\ Jobs' = Jobs /\ LeftTable' = LeftTable
  BY StreamsConstant, TypesParts DEF Types, MergeState
<1>1. /\ out \in [Merge -> V]
      /\ \A h \in Merge : LookedUpAt(LeftTable, Jobs[job[h]], mpc[h], entry[h], out[h])
  BY DEF LookedUpRight
<1>2. ASSUME out' \in [Merge -> V], \A h \in Merge : Fine(h) PROVE LookedUpRight'
  BY <1>2 DEF LookedUpRight
<1>3. ASSUME NEW h \in Merge, SameThread(h), out'[h] = out[h] PROVE Fine(h)
  <2>1. LookedUpAt(LeftTable, Jobs[job[h]], mpc'[h], entry[h], out[h])
    BY <1>1, <1>3 DEF SameThread, LookedUpAt
  <2>2. QED
    BY <1>0, <1>3, <2>1 DEF SameThread
<1> HIDE DEF V
<1>4. CASE LStep \/ REnd \/ SpuriousWakeup \/ UNCHANGED vars
  BY <1>1, <1>2, <1>3, <1>4, OthersStay
<1>5. CASE RGive
  <2> DEFINE i == given % M
  <2>1. /\ mpc[i] = "idle" /\ job' = [job EXCEPT ![i] = given + 1] /\ entry' = [entry EXCEPT ![i] = 1]
        /\ mpc' = [mpc EXCEPT ![i] = "entry"] /\ out' = [out EXCEPT ![i] = <<>>]
    BY <1>5 DEF RGive
  <2> HIDE DEF i
  <2>2. <<>> \in V
    BY DEF V
  <2>3. out' \in [Merge -> V]
    BY <1>1, <2>1, <2>2
  <2>4. ASSUME NEW h \in Merge PROVE Fine(h)
    <3>1. CASE h = i
      <4>1. mpc'[h] = "entry" /\ entry'[h] = 1 /\ out'[h] = <<>> /\ job'[h] = given + 1
        BY <1>0, <1>1, <2>1, <3>1
      <4>2. given < Len(Jobs) /\ given + 1 \in 1 .. Len(Jobs)
        BY <1>0, <1>5 DEF RGive
      <4>3. Len(Jobs[given + 1]) \in Nat
        BY <4>2, RightFacts
      <4>4. LookedUpAt(LeftTable, Jobs[given + 1], "entry", 1, <<>>)
        BY <4>3 DEF LookedUpAt
      <4>5. QED
        BY <1>0, <4>1, <4>4
    <3>2. CASE h # i
      <4>1. mpc'[h] = mpc[h] /\ job'[h] = job[h] /\ entry'[h] = entry[h] /\ out'[h] = out[h]
        BY <1>0, <1>1, <2>1, <3>2
      <4>2. QED
        BY <1>0, <1>1, <4>1
    <3>3. QED
      BY <3>1, <3>2
  <2>5. QED
    BY <1>2, <2>3, <2>4
<1>6. ASSUME NEW i \in Merge, MergeStep(i)
      PROVE  out' \in [Merge -> V] /\ (\A h \in Merge : h # i => out'[h] = out[h]) /\ Fine(i)
  <2> DEFINE m == mpc[i]
             Goal == out' \in [Merge -> V] /\ (\A h \in Merge : h # i => out'[h] = out[h]) /\ Fine(i)
  <2>1. LookedUpAt(LeftTable, Jobs[job[i]], m, entry[i], out[i])
    BY <1>1
  <2>2. ASSUME m \notin {"idle", "turn"}, entry[i] <= Len(Entries(i)), InOrder(i), Found(i), LookedUp(i)
        PROVE  Goal
    <3>1. /\ out' \in [Merge -> V] /\ \A h \in Merge : h # i => out'[h] = out[h]
          /\ LookedUpAt(LeftTable, Jobs[job[i]], mpc'[i], entry'[i], out'[i])
      BY <2>2, EntryLookedUp DEF V
    <3>2. job'[i] = job[i]
      BY <2>2 DEF LookedUp
    <3>3. QED
      BY <1>0, <3>1, <3>2
  <2>3. ASSUME UNCHANGED locals, m # "idle", mpc'[i] \notin {"idle", "turn"} PROVE Goal
    <3>1. job' = job /\ entry' = entry /\ out' = out
      BY <2>3 DEF locals
    <3>2. LookedUpAt(LeftTable, Jobs[job[i]], mpc'[i], entry[i], out[i])
      BY <2>1, <2>3 DEF LookedUpAt
    <3>3. QED
      BY <1>0, <1>1, <3>1, <3>2
  <2>4. CASE BeginEntry(i)
    <3>1. m = "entry" /\ entry[i] <= Len(Entries(i)) /\ InOrder(i)
      BY <2>4 DEF BeginEntry
    <3>2. CASE Found(i) /\ LookedUp(i)
      BY <2>2, <3>1, <3>2
    <3>3. CASE Goto(i, "copy") /\ UNCHANGED locals
      <4>1. mpc'[i] = "copy"
        BY <1>0, <3>3
      <4>2. QED
        BY <2>3, <3>1, <3>3, <4>1
    <3>4. QED
      BY <2>4, <3>2, <3>3 DEF BeginEntry
  <2>5. CASE CopyWait(i)
    <3>1. UNCHANGED locals /\ m = "copy" /\ mpc'[i] = "blocked"
      BY <1>0, <2>5 DEF CopyWait
    <3>2. QED
      BY <2>3, <3>1
  <2>6. CASE Copy(i)
    <3>1. UNCHANGED locals /\ m = "copy" /\ mpc'[i] = "notify"
      BY <1>0, <2>6 DEF Copy
    <3>2. QED
      BY <2>3, <3>1
  <2>7. CASE CopyNotify(i)
    <3>1. UNCHANGED locals /\ m = "notify" /\ mpc'[i] = "endcheck"
      BY <1>0, <2>7 DEF CopyNotify
    <3>2. QED
      BY <2>3, <3>1
  <2>8. CASE EndCheck(i)
    <3>1. m = "endcheck"
      BY <2>8 DEF EndCheck
    <3>2. CASE Found(i) /\ LookedUp(i)
      <4>1. /\ InOrderAt(Jobs, m, job[i], entry[i], L_buffer[i].offset) /\ m \in Looking
            /\ job[i] \in 1 .. Len(Jobs)
        BY <1>0, <3>1 DEF NothingBehind, Looking, Types
      <4>2. entry[i] <= Len(Entries(i))
        BY <4>1 DEF InOrderAt, Entries
      <4>3. entry[i] \in 1 .. Len(Entries(i))
        <5>1. entry[i] = Len(out[i]) + 1 /\ Len(out[i]) \in Nat
          BY <1>1, <2>1, <3>1 DEF LookedUpAt, V
        <5>2. Len(Entries(i)) \in Nat
          BY <4>1, RightFacts DEF Entries
        <5>3. QED
          BY <4>2, <5>1, <5>2
      <4>4. L_buffer[i].offset <= Jobs[job[i]][entry[i]].pos
        <5>1. job[i] >= job[i] /\ m \notin {"idle", "turn"} /\ entry[i] \in 1 .. Len(Jobs[job[i]])
          BY <3>1, <4>1, <4>3 DEF Entries
        <5>2. QED
          BY <4>1, <5>1 DEF InOrderAt
      <4>5. InOrder(i)
        <5>1. Jobs[job[i]] \in Seq(RightEntry) /\ entry[i] \in 1 .. Len(Jobs[job[i]])
          BY <4>1, <4>3, RightFacts DEF Entries
        <5>2. Jobs[job[i]][entry[i]].pos \in Nat
          <6>1. Jobs[job[i]][entry[i]] \in RightEntry
            BY <5>1
          <6>2. QED
            BY <6>1 DEF RightEntry
        <5>3. L_buffer[i].offset \in Nat
          BY WindowFacts
        <5>4. QED
          BY <4>4, <5>2, <5>3 DEF InOrder, First, Entry, Entries
      <4>6. QED
        BY <2>2, <3>1, <3>2, <4>2, <4>5
    <3>3. CASE Goto(i, IF L_is_end THEN "outofbounds" ELSE "copy") /\ UNCHANGED locals
      <4>1. mpc'[i] \in {"outofbounds", "copy"}
        BY <1>0, <3>3
      <4>2. QED
        BY <2>3, <3>1, <3>3, <4>1
    <3>4. QED
      BY <2>8, <3>2, <3>3 DEF EndCheck
  <2>9. CASE Shrink(i)
    <3>1. /\ m = "entry" /\ entry[i] > Len(Entries(i)) /\ mpc'[i] = "turn"
          /\ job' = job /\ entry' = entry /\ out' = out
      BY <1>0, <2>9 DEF Shrink, locals
    <3>2. Len(Entries(i)) \in Nat
      BY <3>1, LastFirstType DEF Types
    <3>3. Len(out[i]) \in Nat
      BY <1>1 DEF V
    <3>4. LookedUpAt(LeftTable, Jobs[job[i]], "turn", entry[i], out[i])
      <4>1. entry[i] = Len(out[i]) + 1 /\ Len(out[i]) <= Len(Entries(i))
        BY <2>1, <3>1 DEF LookedUpAt, Entries
      <4>2. Len(out[i]) = Len(Entries(i))
        BY <3>1, <3>2, <3>3, <4>1
      <4>3. QED
        BY <2>1, <3>1, <4>2 DEF LookedUpAt, Entries
    <3>5. QED
      BY <1>0, <1>1, <3>1, <3>4
  <2>10. CASE Deliver(i)
    <3>1. mpc'[i] = "idle" /\ out' = [out EXCEPT ![i] = <<>>]
      BY <1>0, <2>10 DEF Deliver
    <3>2. <<>> \in V
      BY DEF V
    <3>3. Fine(i)
      BY <3>1 DEF LookedUpAt
    <3>4. QED
      BY <1>1, <3>1, <3>2, <3>3
  <2>11. QED
    BY <1>6, <2>4, <2>5, <2>6, <2>7, <2>8, <2>9, <2>10 DEF MergeStep
<1>7. ASSUME NEW i \in Merge, MergeStep(i) PROVE LookedUpRight'
  <2>1. ASSUME NEW h \in Merge PROVE Fine(h)
    BY <1>3, <1>6, <1>7, OthersStay
  <2>2. QED
    BY <1>2, <1>6, <1>7, <2>1
<1>8. QED
  BY <1>4, <1>5, <1>7 DEF Next, RStep

LEMMA InitMerged == Init => MergedRight
<1> SUFFICES ASSUME Init PROVE MergedRight
  OBVIOUS
<1>1. merged = <<>> /\ delivered = 0
  BY DEF Init
<1>2. Ends(Jobs, 0) = 0
  BY InitTypes, RightFacts
<1>3. <<>> \in Seq(Nat) /\ Len(<<>>) = 0
  OBVIOUS
<1>4. QED
  BY <1>1, <1>2, <1>3 DEF MergedRight

LEMMA NextMerged == Types /\ LookedUpRight /\ MergedRight /\ [Next]_vars => MergedRight'
<1> SUFFICES ASSUME Types, LookedUpRight, MergedRight, [Next]_vars PROVE MergedRight'
  OBVIOUS
<1>0. Jobs' = Jobs /\ LeftTable' = LeftTable /\ RightTable' = RightTable
  BY StreamsConstant
<1>1. ASSUME merged' = merged, delivered' = delivered PROVE MergedRight'
  BY <1>0, <1>1 DEF MergedRight
<1>2. ASSUME NEW i \in Merge, Deliver(i) PROVE MergedRight'
  <2> DEFINE j == job[i]
             s == out[i]
             new == [n \in DOMAIN s |-> SquareToLinePoint(s[n][1], s[n][2])]
             Right(list, n) == InTable(LeftTable, RightTable[n]) /\ list[n] = LinePointOf(LeftTable, RightTable[n])
  <2>1. /\ mpc[i] = "turn" /\ delivered + 1 = j /\ delivered' = delivered + 1 /\ merged' = merged \o new
    BY <1>2 DEF Deliver
  <2>2. delivered \in Nat /\ j \in 1 .. Len(Jobs)
    <3>1. delivered \in Nat /\ j \in 0 .. Len(Jobs) /\ Len(Jobs) \in Nat
      BY TypesParts DEF Types
    <3>2. QED
      BY <2>1, <3>1
  <2>3. /\ s \in Seq(Nat \X Nat) /\ Len(s) = Len(Jobs[j])
        /\ \A n \in 1 .. Len(s) : InTable(LeftTable, Jobs[j][n]) /\ s[n] = LookUp(LeftTable, Jobs[j][n])
    BY <2>1 DEF LookedUpRight, LookedUpAt
  <2>4. /\ Ends(Jobs, j) = Ends(Jobs, delivered) + Len(Jobs[j]) /\ Jobs[j] \in Seq(RightEntry)
        /\ \A x \in 1 .. Len(Jobs[j]) : RightTable[Ends(Jobs, delivered) + x] = Jobs[j][x]
    <3>1. j - 1 = delivered
      BY <2>1, <2>2
    <3>2. QED
      BY <2>2, <3>1, RightFacts
  <2>5. ASSUME NEW n \in 1 .. Len(s)
        PROVE  /\ InTable(LeftTable, Jobs[j][n]) /\ new[n] = LinePointOf(LeftTable, Jobs[j][n])
               /\ new[n] \in Nat
    <3>1. InTable(LeftTable, Jobs[j][n]) /\ s[n] = LookUp(LeftTable, Jobs[j][n])
      BY <2>3
    <3>2. Jobs[j][n] \in RightEntry
      BY <2>3, <2>4
    <3>3. n \in DOMAIN s
      BY <2>3
    <3>4. new[n] = SquareToLinePoint(s[n][1], s[n][2])
      BY <3>3
    <3>5. s[n][1] = LeftTable[Jobs[j][n].pos + 1] /\ s[n][2] = LeftTable[Jobs[j][n].pos + Jobs[j][n].off + 1]
      BY <3>1 DEF LookUp
    <3>6. new[n] = LinePointOf(LeftTable, Jobs[j][n])
      BY <3>4, <3>5 DEF LinePointOf
    <3>7. QED
      BY <3>1, <3>2, <3>6, LinePointOfEntry
  <2>6. DOMAIN s = 1 .. Len(s) /\ Len(s) \in Nat
    BY <2>3
  <2>7. new \in Seq(Nat) /\ Len(new) = Len(s)
    <3>1. new \in [1 .. Len(s) -> Nat]
      BY <2>5, <2>6
    <3>2. QED
      BY <2>6, <3>1
  <2> HIDE DEF new, s, j
  <2>8. merged \in Seq(Nat) /\ Len(merged) = Ends(Jobs, delivered) /\ \A n \in 1 .. Len(merged) : Right(merged, n)
    BY DEF MergedRight
  <2>9. /\ merged \o new \in Seq(Nat) /\ Len(merged \o new) = Len(merged) + Len(new)
        /\ Len(merged) \in Nat /\ Len(new) \in Nat
        /\ \A x \in 1 .. Len(merged) : (merged \o new)[x] = merged[x]
        /\ \A x \in 1 .. Len(new) : (merged \o new)[Len(merged) + x] = new[x]
    <3>1. merged \in Seq(Nat)
      BY <2>8
    <3>2. new \in Seq(Nat)
      BY <2>7
    <3>3. QED
      BY <3>1, <3>2, Concatenation
  <2>10. Len(merged') = Ends(Jobs, delivered')
    BY <2>1, <2>3, <2>4, <2>7, <2>8, <2>9
  <2>11. ASSUME NEW n \in 1 .. Len(merged') PROVE Right(merged', n)
    <3>1. CASE n <= Len(merged)
      <4>1. n \in 1 .. Len(merged)
        BY <2>9, <3>1
      <4>2. QED
        BY <2>1, <2>8, <2>9, <4>1
    <3>2. CASE n > Len(merged)
      <4> DEFINE x == n - Len(merged)
      <4>1. x \in 1 .. Len(new) /\ n = Len(merged) + x
        BY <2>1, <2>9, <3>2
      <4> HIDE DEF x
      <4>2. x \in 1 .. Len(s) /\ x \in 1 .. Len(Jobs[j])
        BY <2>3, <2>7, <4>1
      <4>3. RightTable[n] = Jobs[j][x] /\ merged'[n] = new[x]
        BY <2>1, <2>4, <2>8, <2>9, <4>1, <4>2
      <4>4. QED
        BY <2>5, <4>2, <4>3
    <3>3. QED
      BY <2>9, <3>1, <3>2
  <2>12. QED
    BY <1>0, <2>1, <2>9, <2>10, <2>11 DEF MergedRight
<1>3. ASSUME NEW i \in Merge, MergeStep(i), ~Deliver(i) PROVE MergedRight'
  <2>1. merged' = merged /\ delivered' = delivered
    BY <1>3 DEF MergeStep, BeginEntry, CopyWait, Copy, CopyNotify, EndCheck, Shrink, pool
  <2>2. QED
    BY <1>1, <2>1
<1>4. CASE LStep \/ REnd \/ SpuriousWakeup \/ UNCHANGED vars
  BY <1>1, <1>4, OthersStay
<1>5. CASE RGive
  BY <1>1, <1>5 DEF RGive
<1>6. QED
  BY <1>2, <1>3, <1>4, <1>5 DEF Next, RStep

-----------------------------------------------------------------------------
(* The end of the left stream, and the thread that throws *)

LEMMA InitEnding == Init => Ending
BY DEF Init, Ending

LEMMA NextLeftEnded ==
    ASSUME Types, Ending, [Next]_vars, L_is_end'
    PROVE  lpc' = "idle" /\ L_given' = Len(Blocks)
<1>0. Len(Blocks) \in Nat
  BY TypesParts
<1>1. CASE LEnd
  BY <1>1 DEF LEnd, left
<1>2. ASSUME ~LEnd PROVE L_is_end' = L_is_end
  <2>1. ASSUME NEW i \in Merge, MergeStep(i) PROVE L_is_end' = L_is_end
    BY <2>1, OthersStay
  <2>2. CASE LTake \/ LWait \/ LAppend \/ LNotify
    BY <2>2 DEF LTake, LWait, LAppend, LNotify
  <2>3. CASE RStep
    BY <2>3 DEF RStep, RGive, REnd
  <2>4. CASE SpuriousWakeup \/ UNCHANGED vars
    BY <2>4 DEF SpuriousWakeup, vars
  <2>5. QED
    BY <1>2, <2>1, <2>2, <2>3, <2>4 DEF Next, LStep
<1>3. ASSUME L_is_end PROVE lpc' = lpc /\ L_given' = L_given
  <2>0. lpc = "idle" /\ L_given = Len(Blocks)
    BY <1>3 DEF Ending
  <2>1. left' = left => lpc' = lpc /\ L_given' = L_given
    BY DEF left
  <2>2. Signal1 => lpc' = lpc
    BY <2>0 DEF Signal1
  <2>3. ASSUME NEW i \in Merge, MergeStep(i) PROVE lpc' = lpc /\ L_given' = L_given
    <3>1. CASE CopyNotify(i)
      BY <2>2, <3>1 DEF CopyNotify
    <3>2. CASE ~CopyNotify(i)
      BY <2>1, <2>3, <3>2 DEF MergeStep, BeginEntry, CopyWait, Copy, EndCheck, Shrink, Deliver
    <3>3. QED
      BY <3>1, <3>2
  <2>4. ~LStep
    BY <1>0, <1>3, <2>0 DEF LStep, LTake, LWait, LAppend, LNotify, LEnd
  <2>5. CASE RGive
    BY <2>1, <2>5 DEF RGive
  <2>6. CASE REnd
    BY <2>2, <2>6 DEF REnd
  <2>7. CASE SpuriousWakeup
    BY <2>0, <2>1, <2>7 DEF SpuriousWakeup
  <2>8. CASE UNCHANGED vars
    BY <2>8 DEF vars
  <2>9. QED
    BY <2>3, <2>4, <2>5, <2>6, <2>7, <2>8 DEF Next, RStep
<1>4. QED
  BY <1>1, <1>2, <1>3 DEF Ending

\* A thread throws only where it looks behind its window, and stays there.
LEMMA OutIsOutside ==
    ASSUME Types, Ending, [Next]_vars, NEW h \in Merge, mpc'[h] = "outofbounds"
    PROVE  ~Found(h) /\ job'[h] = job[h] /\ entry'[h] = entry[h] /\ L_buffer'[h] = L_buffer[h]
<1>0. /\ mpc \in [Merge -> MergeState]
      /\ mpc[h] = "outofbounds" => ~Found(h)
  BY DEF Types, MergeState, Ending
<1>1. ASSUME SameThread(h), L_buffer'[h] = L_buffer[h]
      PROVE  ~Found(h) /\ job'[h] = job[h] /\ entry'[h] = entry[h] /\ L_buffer'[h] = L_buffer[h]
  BY <1>0, <1>1 DEF SameThread
<1>2. ASSUME NEW i \in Merge, MergeStep(i), i # h
      PROVE  SameThread(h) /\ L_buffer'[h] = L_buffer[h]
  <2>1. SameThread(h)
    BY <1>2, OthersStay
  <2>2. CASE Copy(i)
    BY <1>2, <2>1, <2>2, CopyMovesEnd
  <2>3. CASE Shrink(i)
    BY <1>2, <2>1, <2>3, ShrinkKeepsEnd
  <2>4. CASE ~Copy(i) /\ ~Shrink(i)
    BY <1>2, <2>1, <2>4 DEF MergeStep, BeginEntry, CopyWait, CopyNotify, EndCheck, Deliver
  <2>5. QED
    BY <2>1, <2>2, <2>3, <2>4
<1>3. ASSUME MergeStep(h)
      PROVE  ~Found(h) /\ UNCHANGED locals /\ L_buffer' = L_buffer
  <2>1. ASSUME NEW label, Goto(h, label) PROVE label = "outofbounds"
    BY <1>0, <2>1 DEF Goto
  <2>2. ~LookedUp(h)
    BY <2>1 DEF LookedUp
  <2>3. EndCheck(h)
    BY <1>3, <2>1, <2>2 DEF MergeStep, BeginEntry, CopyWait, Copy, CopyNotify, Shrink, Deliver
  <2>4. QED
    BY <2>2, <2>3 DEF EndCheck
<1>4. CASE LStep \/ REnd \/ SpuriousWakeup \/ UNCHANGED vars
  <2>1. L_buffer' = L_buffer
    BY <1>4 DEF LStep, LTake, LWait, LAppend, LNotify, LEnd, REnd, SpuriousWakeup, vars
  <2>2. QED
    BY <1>1, <1>4, <2>1, OthersStay
<1>5. CASE RGive
  <2> DEFINE i == given % M
  <2>1. /\ job' = [job EXCEPT ![i] = given + 1] /\ entry' = [entry EXCEPT ![i] = 1]
        /\ mpc' = [mpc EXCEPT ![i] = "entry"] /\ L_buffer' = L_buffer
    BY <1>5 DEF RGive, Goto
  <2> HIDE DEF i
  <2>2. h # i
    BY <1>0, <2>1
  <2>3. /\ job \in [Merge -> 0 .. Len(Jobs)] /\ entry \in [Merge -> Nat]
    BY DEF Types
  <2>4. SameThread(h)
    BY <1>0, <2>1, <2>2, <2>3 DEF SameThread
  <2>5. QED
    BY <1>1, <2>1, <2>4
<1>6. QED
  <2>1. CASE \E i \in Merge : MergeStep(i)
    BY <1>1, <1>2, <1>3, <2>1 DEF locals
  <2>2. QED
    BY <1>4, <1>5, <2>1 DEF Next, RStep

LEMMA NextEnding == Types /\ Ending /\ [Next]_vars => Ending'
<1> SUFFICES ASSUME Types, Ending, [Next]_vars PROVE Ending'
  OBVIOUS
<1>1. Blocks' = Blocks /\ Jobs' = Jobs
  BY StreamsConstant
<1>2. L_is_end' => lpc' = "idle" /\ L_given' = Len(Blocks')
  BY <1>1, NextLeftEnded
<1>3. ASSUME NEW h \in Merge, mpc'[h] = "outofbounds" PROVE ~Found(h)'
  <2>1. ~Found(h) /\ job'[h] = job[h] /\ entry'[h] = entry[h] /\ L_buffer'[h] = L_buffer[h]
    BY <1>3, OutIsOutside
  <2>2. Found(h)' = Found(h)
    BY <1>1, <2>1 DEF Found, Second, Entry, Entries, WindowEnd, Window
  <2>3. QED
    BY <2>1, <2>2
<1>4. QED
  BY <1>2, <1>3 DEF Ending

-----------------------------------------------------------------------------
(* The invariant, and the theorems it gives *)

\* The inductive invariant
Merging ==
    /\ Types /\ InputIsLatest /\ WindowsAreCuts /\ CountsAreExact
    /\ NothingBehind /\ LookedUpRight /\ MergedRight /\ Ending

LEMMA InitMerging == Init => Merging
BY InitTypes, InitInput, InitWindows, InitBehind, InitLookedUp, InitMerged, InitEnding DEF Merging

LEMMA NextMerging == Merging /\ [Next]_vars => Merging'
BY NextTypes, NextInput, NextWindows, NextCounts, NextBehind, NextLookedUp, NextMerged, NextEnding DEF Merging

LEMMA MergingHolds == Safety => []Merging
BY InitMerging, NextMerging, PTL DEF Safety

\* The type of every variable of the merge: indices stay within the streams, and
\* the windows and the list hold positions.
THEOREM MergeTypes == Spec => []TypeOK
<1>1. Merging => TypeOK
  <2> SUFFICES ASSUME Merging PROVE TypeOK
    OBVIOUS
  <2>1. Types /\ merged \in Seq(Nat)
    BY DEF Merging, MergedRight
  <2>2. tmp = NoBuffer \/ tmp \in Buffers
    BY DEF Merging, InputIsLatest, Types
  <2>3. QED
    BY <2>1, <2>2 DEF Types, TypeOK
<1>2. QED
  BY <1>1, MergingHolds, PTL DEF Spec

\* L_read pops a buffer only when every merge thread has copied it: what follows a
\* window is at the front of what is left of L_input, or not yet appended.
THEOREM BuffersAreKept == Spec => []NothingPoppedTooEarly
<1>1. Merging => NothingPoppedTooEarly
  <2> SUFFICES ASSUME Merging PROVE NothingPoppedTooEarly
    OBVIOUS
  <2>1. Types /\ InputIsLatest /\ WindowsAreCuts
    BY DEF Merging
  <2> DEFINE appended == L_num_read - IF tmp = NoBuffer THEN 0 ELSE Len(tmp.new_pos)
             n == Len(L_input)
  <2>2. /\ Gone \in Nat /\ Appended \in 0 .. Len(Blocks) /\ n \in Nat /\ Gone + n = Appended
        /\ \A k \in 1 .. n : /\ Gone + k \in 1 .. Len(Blocks)
                             /\ L_input[k].offset = LeftEnd(Gone + k - 1)
                             /\ L_input[k].new_pos = Lefts[Gone + k]
    BY <2>1, InputFacts
  <2>3. L_num_read = LeftEnd(L_given) /\ L_given \in 0 .. Len(Blocks) /\ Len(Blocks) \in Nat
    BY <2>1, TypesParts DEF InputIsLatest, Types
  <2>4. appended = LeftEnd(Appended)
    <3>1. CASE Pending
      <4>1. /\ L_given >= 1 /\ tmp.new_pos = Lefts[L_given] /\ Appended = L_given - 1
            /\ tmp = [offset |-> LeftEnd(Appended), new_pos |-> Lefts[L_given], copy_sync |-> NotCopied]
        BY <2>1, <3>1 DEF InputIsLatest, Appended
      <4>2. tmp # NoBuffer
        <5>1. DOMAIN tmp = {"offset", "new_pos", "copy_sync"}
          BY <4>1
        <5>2. DOMAIN NoBuffer = 1 .. 0
          BY DEF NoBuffer
        <5>3. "offset" \notin 1 .. 0
          OBVIOUS
        <5>4. QED
          BY <5>1, <5>2, <5>3
      <4>3. LeftEnd(L_given) = LeftEnd(L_given - 1) + Len(Lefts[L_given]) /\ Lefts[L_given] \in Seq(Nat)
        BY <2>1, <2>3, <4>1, LeftFacts
      <4>4. LeftEnd(L_given - 1) \in Nat /\ Len(Lefts[L_given]) \in Nat
        <5>1. L_given - 1 \in 0 .. Len(Blocks)
          BY <2>3, <4>1
        <5>2. QED
          BY <2>1, <4>3, <5>1, LeftFacts
      <4>5. QED
        BY <2>3, <4>1, <4>2, <4>3, <4>4
    <3>2. CASE ~Pending
      <4>1. tmp = NoBuffer /\ Appended = L_given
        BY <2>1, <3>2 DEF InputIsLatest, Appended
      <4>2. LeftEnd(L_given) \in Nat
        BY <2>1, <2>3, LeftFacts
      <4>3. QED
        BY <2>3, <4>1, <4>2
    <3>3. QED
      BY <3>1, <3>2
  <2> HIDE DEF appended
  <2>5. ASSUME NEW i \in Merge, WindowEnd(i) < LeftEnd(Appended)
        PROVE  \E k \in 1 .. n : L_input[k].offset = WindowEnd(i) /\ Len(L_input[k].new_pos) > 0
    <3>1. PICK c \in Gone .. Appended : WindowEnd(i) = LeftEnd(c)
      BY <2>1 DEF WindowsAreCuts
    <3>2. c \in Nat /\ Gone <= c /\ c <= Appended /\ Appended \in Nat /\ Appended <= Len(Blocks)
      BY <2>2, <2>3
    <3>3. \A m \in 0 .. Len(Blocks) : LeftEnd(m) \in Nat
      BY <2>1, LeftFacts
    <3> DEFINE Beyond(m) == LeftEnd(m) > LeftEnd(c)
               S == {m \in 0 .. Appended : Beyond(m)}
    <3>4. Appended \in S
      BY <2>5, <3>1, <3>2
    <3>5. S \in SUBSET Nat /\ S # {}
      BY <3>2, <3>4
    <3>6. PICK m \in S : \A h \in S : m <= h
      BY <3>5, LeastElement
    <3>7. m \in Nat /\ m <= Appended /\ LeftEnd(m) > LeftEnd(c)
      BY <3>2, <3>6
    <3>8. m > c
      <4>1. ASSUME m <= c PROVE FALSE
        <5>1. m \in 0 .. Len(Blocks) /\ c \in 0 .. Len(Blocks)
          BY <2>3, <3>2, <3>7
        <5>2. LeftEnd(m) <= LeftEnd(c) /\ LeftEnd(m) \in Nat /\ LeftEnd(c) \in Nat
          BY <2>1, <4>1, <5>1, LeftFacts
        <5>3. QED
          BY <3>7, <5>2
      <4>2. QED
        BY <3>2, <3>7, <4>1
    <3>9. LeftEnd(m - 1) = LeftEnd(c)
      <4>1. m - 1 \in 0 .. Appended /\ m - 1 \in 0 .. Len(Blocks) /\ c \in 0 .. Len(Blocks) /\ c <= m - 1
        BY <2>3, <3>2, <3>7, <3>8
      <4>2. ~Beyond(m - 1)
        BY <3>6, <3>7, <4>1
      <4>3. LeftEnd(c) <= LeftEnd(m - 1)
        BY <2>1, <4>1, LeftFacts
      <4>4. QED
        BY <3>3, <4>1, <4>2, <4>3
    <3> DEFINE k == m - Gone
    <3>10. k \in 1 .. n /\ Gone + k = m
      BY <2>2, <3>2, <3>7, <3>8
    <3>11. Gone + k - 1 = m - 1
      BY <2>2, <3>7
    <3> HIDE DEF k
    <3>12. L_input[k].offset = LeftEnd(m - 1) /\ L_input[k].new_pos = Lefts[m]
      BY <2>2, <3>10, <3>11
    <3>13. Len(Lefts[m]) > 0
      <4>1. m \in 1 .. Len(Blocks)
        BY <2>3, <3>2, <3>7, <3>8
      <4>2. LeftEnd(m) = LeftEnd(m - 1) + Len(Lefts[m]) /\ Len(Lefts[m]) \in Nat
        BY <2>1, <4>1, LeftFacts
      <4>3. m - 1 \in 0 .. Len(Blocks)
        BY <4>1, <2>3
      <4>4. QED
        BY <3>3, <3>7, <3>9, <4>2, <4>3
    <3>14. QED
      BY <3>1, <3>9, <3>10, <3>12, <3>13
  <2>6. QED
    BY <2>4, <2>5 DEF NothingPoppedTooEarly, appended
<1>2. QED
  BY <1>1, MergingHolds, PTL DEF Spec

\* A position p of the left table that lies behind thread i's window is in L_input,
\* once all blocks have been appended.
LEMMA BehindWindowInInput ==
    ASSUME Types, InputIsLatest, WindowsAreCuts, Appended = Len(Blocks),
           NEW i \in Merge, NEW p \in Nat, p >= WindowEnd(i), p < Len(LeftTable)
    PROVE  InInput(p)
<1> DEFINE n == Len(L_input)
<1>1. /\ Gone \in Nat /\ n \in Nat /\ Gone + n = Len(Blocks) /\ Len(Blocks) \in Nat
      /\ \A k \in 1 .. n : /\ L_input[k].offset = LeftEnd(Gone + k - 1)
                           /\ L_input[k].new_pos = Lefts[Gone + k]
  BY InputFacts, LeftFacts
<1>2. PICK c \in Gone .. Appended : WindowEnd(i) = LeftEnd(c)
  BY DEF WindowsAreCuts
<1>3. c \in 0 .. Len(Blocks) /\ Gone <= c
  BY <1>1, <1>2
<1>4. /\ \A m \in 0 .. Len(Blocks) : LeftEnd(m) \in Nat
      /\ \A a, b \in 0 .. Len(Blocks) : a <= b => LeftEnd(a) <= LeftEnd(b)
      /\ Len(LeftTable) = LeftEnd(Len(Blocks))
  BY LeftFacts
<1> DEFINE S == {m \in 0 .. Len(Blocks) : LeftEnd(m) > p}
<1>5. S \in SUBSET Nat /\ S # {}
  BY <1>1, <1>4
<1>6. PICK m \in S : \A h \in S : m <= h
  BY <1>5, LeastElement
<1>7. m \in 0 .. Len(Blocks) /\ LeftEnd(m) > p
  BY <1>6
<1>8. m > c
  <2>1. ASSUME m <= c PROVE FALSE
    <3>1. LeftEnd(m) <= LeftEnd(c) /\ LeftEnd(m) \in Nat /\ LeftEnd(c) \in Nat
      BY <1>3, <1>4, <1>7, <2>1
    <3>2. QED
      BY <1>2, <1>7, <3>1
  <2>2. QED
    BY <1>3, <1>7, <2>1
<1>9. m \in 1 .. Len(Blocks) /\ m - 1 \in 0 .. Len(Blocks)
  BY <1>3, <1>7, <1>8
<1>10. LeftEnd(m - 1) <= p
  <2>1. m - 1 \notin S
    BY <1>6, <1>9
  <2>2. QED
    BY <1>4, <1>9, <2>1
<1>11. LeftEnd(m) = LeftEnd(m - 1) + Len(Lefts[m]) /\ Len(Lefts[m]) \in Nat
  BY <1>9, LeftFacts
<1> DEFINE k == m - Gone
<1>12. k \in 1 .. n /\ Gone + k = m /\ Gone + k - 1 = m - 1
  BY <1>1, <1>3, <1>8, <1>9
<1> HIDE DEF k, n
<1>13. L_input[k].offset = LeftEnd(m - 1) /\ L_input[k].new_pos = Lefts[m]
  BY <1>1, <1>12
<1>14. p \in LeftEnd(m - 1) .. LeftEnd(m - 1) + Len(Lefts[m]) - 1
  <2>1. LeftEnd(m - 1) \in Nat
    BY <1>4, <1>9
  <2>2. QED
    BY <1>7, <1>10, <1>11, <2>1
<1>15. QED
  BY <1>12, <1>13, <1>14 DEF InInput, n

\* "input not sorted" is never thrown, as shrinking a window keeps all that the jobs
\* to come may look up.  "position out of bounds" is thrown only after L_is_end, and
\* a position of the left table that a thread missed is in L_input: no step before
\* has dropped or popped what the thread had still to copy.
THEOREM JobsStayInOrder == Spec => []FailsOnlyAtTheEnd
<1>1. Merging => FailsOnlyAtTheEnd
  <2> SUFFICES ASSUME Merging, NEW i \in Merge
               PROVE  /\ mpc[i] = "entry" /\ entry[i] <= Len(Entries(i)) => InOrder(i)
                      /\ mpc[i] = "outofbounds" =>
                            L_is_end /\ (Second(i) < Len(LeftTable) => InInput(Second(i)))
    BY DEF FailsOnlyAtTheEnd
  <2>1. Types /\ InputIsLatest /\ WindowsAreCuts /\ NothingBehind /\ LookedUpRight /\ Ending
    BY DEF Merging
  <2>2. InOrderAt(Jobs, mpc[i], job[i], entry[i], L_buffer[i].offset) /\ (mpc[i] = "outofbounds" => L_is_end)
    BY <2>1 DEF NothingBehind
  <2>3. ASSUME mpc[i] \in {"entry", "outofbounds"}, entry[i] <= Len(Entries(i))
        PROVE  /\ entry[i] \in 1 .. Len(Entries(i)) /\ Entry(i) \in RightEntry
               /\ job[i] \in 1 .. Len(Jobs)
    <3>1. job[i] >= 1
      BY <2>1, <2>3 DEF Types
    <3>2. Entries(i) \in Seq(RightEntry) /\ job[i] \in 1 .. Len(Jobs)
      BY <2>1, <3>1, LastFirstType
    <3>3. entry[i] \in 1 .. Len(Entries(i))
      <4>1. entry[i] = Len(out[i]) + 1 /\ Len(out[i]) \in Nat
        BY <2>1, <2>3 DEF LookedUpRight, LookedUpAt
      <4>2. Len(Entries(i)) \in Nat
        BY <3>2
      <4>3. QED
        BY <2>3, <4>1, <4>2
    <3>4. QED
      BY <3>2, <3>3 DEF Entry
  <2>4. ASSUME mpc[i] = "entry", entry[i] <= Len(Entries(i)) PROVE InOrder(i)
    <3>1. entry[i] \in 1 .. Len(Entries(i)) /\ Entry(i) \in RightEntry /\ job[i] \in 1 .. Len(Jobs)
      BY <2>3, <2>4
    <3>2. L_buffer[i].offset <= Jobs[job[i]][entry[i]].pos
      BY <2>2, <2>4, <3>1 DEF InOrderAt, Entries
    <3>3. Entry(i).pos \in Nat /\ L_buffer[i].offset \in Nat
      BY <2>1, <3>1, WindowFacts DEF RightEntry
    <3>4. QED
      BY <3>2, <3>3 DEF InOrder, First, Entry, Entries
  <2>5. ASSUME mpc[i] = "outofbounds", Second(i) < Len(LeftTable) PROVE InInput(Second(i))
    <3>1. entry[i] <= Len(Entries(i))
      BY <2>2, <2>5 DEF InOrderAt, Looking, Entries
    <3>2. Entry(i) \in RightEntry
      BY <2>3, <2>5, <3>1
    <3>3. Second(i) \in Nat
      BY <3>2 DEF RightEntry, Second
    <3>4. ~Found(i) /\ lpc = "idle" /\ L_given = Len(Blocks)
      BY <2>1, <2>2, <2>5 DEF Ending
    <3>5. Second(i) >= WindowEnd(i)
      BY <2>1, <3>3, <3>4, WindowFacts DEF Found
    <3>6. Appended = Len(Blocks)
      BY <3>4 DEF Appended, Pending
    <3>7. QED
      BY <2>1, <2>5, <3>3, <3>5, <3>6, BehindWindowInInput
  <2>6. QED
    BY <2>2, <2>4, <2>5
<1>2. QED
  BY <1>1, MergingHolds, PTL DEF Spec

\* Each right entry becomes, in the order of the right table, the line point of the
\* new positions of the two left entries it points to.
THEOREM MergeIsRight == Spec => []MergedIsExpected
<1>1. Merging => MergedIsExpected
  <2> SUFFICES ASSUME Merging PROVE MergedIsExpected
    OBVIOUS
  <2>1. Types /\ MergedRight
    BY DEF Merging
  <2>2. Len(merged) <= Len(RightTable)
    <3>1. delivered \in 0 .. Len(Jobs) /\ Len(Jobs) \in 0 .. Len(Jobs) /\ delivered <= Len(Jobs)
      BY <2>1, TypesParts DEF Types
    <3>2. QED
      BY <2>1, <3>1, RightFacts DEF MergedRight
  <2>3. Len(RightTable) \in Nat /\ RightTable \in Seq(RightEntry) /\ Len(merged) \in Nat
        /\ DOMAIN merged = 1 .. Len(merged)
    BY <2>1, RightFacts DEF MergedRight
  <2>4. ASSUME NEW n \in 1 .. Len(merged), NEW e, e = RightTable[n]
        PROVE  LinePointToSquare(merged[n]) = {LeftTable[e.pos + 1], LeftTable[e.pos + e.off + 1]}
    <3>1. InTable(LeftTable, e) /\ merged[n] = LinePointOf(LeftTable, e)
      BY <2>1, <2>4 DEF MergedRight
    <3>2. n \in 1 .. Len(RightTable)
      BY <2>2, <2>3
    <3>3. e \in RightEntry
      BY <2>3, <2>4, <3>2
    <3>4. QED
      BY <2>1, <3>1, <3>3, LinePointOfEntry
  <2>5. QED
    BY <2>2, <2>3, <2>4 DEF MergedIsExpected
<1>2. QED
  BY <1>1, MergingHolds, PTL DEF Spec
=============================================================================
