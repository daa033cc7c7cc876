------------------------------- MODULE Phase1 -------------------------------
(***************************************************************************)
(* Forward propagation, include/chia/phase1.hpp: compute_f1() makes table  *)
(* 1, and compute_table() with compute_matches() each next one out of the  *)
(* one before.                                                             *)
(*                                                                         *)
(* The entries of a table arrive sorted by y, in blocks.  read_thread      *)
(* slices them into the buckets of kBC values of y, whatever block they    *)
(* come in, and pairs every bucket with its predecessor; the workers of    *)
(* match_pool find the entries of such a pair that match, those of         *)
(* eval_pool make an entry of the next table out of every match: the       *)
(* function's value, the position of the left entry in its table, which    *)
(* L_write writes at the same time, and the distance to the right one.     *)
(*                                                                         *)
(* Buckets are shared between read_thread and the workers: they are cells  *)
(* of `heap', and pairs hold pointers.  The DiskSort between two tables is *)
(* a set that comes back sorted, see module Sorter.                        *)
(***************************************************************************)
EXTENDS FxCalculator

CONSTANTS
    kB, kC,
    PMAX,           \* what a position can be: less than 2^PMAX
    Ids,            \* plot ids
    M,              \* 4096: batches in a block of table 1
    BlockSpans,     \* how many values of y the blocks of a table have
    Matchers        \* workers of match_pool and eval_pool

kBC == kB * kC
kExtraBitsPow == 2 ^ kExtraBits

ParametersFit ==
    /\ ChaChaWord = 4 * ByteBits /\ k \in Nat /\ kExtraBits <= k /\ LogBatch \in 0 .. k
    /\ kB \in Nat \ {0} /\ kC \in Nat \ {0} /\ kExtraBits \in Nat \ {0}
    /\ PMAX \in Nat /\ Matchers \in Nat \ {0} /\ M \in Nat \ {0}
    /\ BlockSpans \subseteq Nat \ {0}

Null == 0           \* a pointer; others are positions in heap
Worker == 0 .. Matchers - 1

VARIABLES
    id, span,       \* the plot's id, and the cut of the tables in blocks
    R_index,        \* the table that is being made
    f1,             \* the blocks of table 1 that are done
    R_sort,         \* the DiskSort of that table
    table,          \* the left table, sorted, in blocks
    blocks,         \* how many of its blocks read_thread has sliced
    L_index, L_offset, L_bucket,    \* of the current bucket ([0]) and the one before ([1])
    heap,           \* the buckets
    pending,        \* read_thread has still to give the block to L_write
    L_queue, L_tmp, \* the input of L_write; the file of each table
    matching,       \* jobs in match_pool, in order
    given,          \* jobs given to match_pool
    Fx,             \* the FxMatcher of each worker
    evaluating,     \* jobs in eval_pool, in order
    R_tmp,          \* the file of the last table
    matches,        \* history: what eval_pool was given for this table, in order
    num_found, num_written,
    closed          \* match_pool was closed, and the last pair matched

slice == <<L_index, L_offset, L_bucket, heap>>
left == <<L_queue, L_tmp>>
counters == <<num_found, num_written>>
right == <<evaluating, R_sort, R_tmp>>
setting == <<id, span, R_index, f1, table>>
vars == <<id, span, R_index, f1, R_sort, table, blocks, L_index, L_offset, L_bucket, heap, pending,
          L_queue, L_tmp, matching, given, Fx, evaluating, R_tmp, matches, num_found, num_written, closed>>

-----------------------------------------------------------------------------
(* compute_f1() *)

NumF1Blocks == 2 ^ (k - LogBatch) \div M

\* compute_block() throws when its buffer, of four blocks of the stream, is too small.
BatchFits(first_x) == BlocksFor(first_x, 2 ^ LogBatch) <= 4

\* A worker makes a block of table 1 and adds it to the sort.
ComputeF1(block) ==
    /\ R_index = 1 /\ block \notin f1
    /\ \A i \in 0 .. M - 1 : BatchFits((block * M + i) * 2 ^ LogBatch)
    /\ LET batch(i) == compute_block(id, (block * M + i) * 2 ^ LogBatch, 2 ^ LogBatch)
       IN  R_sort' = R_sort \cup UNION {ToSet(batch(i)) : i \in 0 .. M - 1}
    /\ f1' = f1 \cup {block}
    /\ UNCHANGED <<id, span, R_index, table, blocks, slice, pending, left, matching, given, Fx,
                   evaluating, R_tmp, matches, counters, closed>>

\* What a DiskSort gives back.  Entries of the same y come in any order, here
\* in that of their places.
Before(a, b) ==
    IF a.y # b.y THEN a.y < b.y
    ELSE IF R_index = 1 THEN a.x < b.x
    ELSE a.pos < b.pos \/ (a.pos = b.pos /\ a.off < b.off)
Sorted(S) ==
    LET rank == [e \in S |-> Cardinality({d \in S : Before(d, e)})]
    IN  [n \in 1 .. Cardinality(S) |-> CHOOSE e \in S : rank[e] = n - 1]
InBlocks(S) ==
    LET b == {e.y \div span : e \in S}
        nth(n) == CHOOSE c \in b : Cardinality({d \in b : d < c}) = n - 1
    IN  [n \in 1 .. Cardinality(b) |-> Sorted({e \in S : e.y \div span = nth(n)})]

-----------------------------------------------------------------------------
(* read_thread *)

Size(h, p) == IF p = Null THEN 0 ELSE Len(h[p])

CurrentOffset(s) == s.offset[0]
PairOffset(s) == s.offset[1]

Neighbours(index) == index[1] + 1 = index[0]
Pair(s) == [offset |-> PairOffset(s), L |-> s.bucket[1], R |-> s.bucket[0]]

\* An entry of a later bucket: the current one is complete.
NextBucket(s, index) ==
    IF index = s.index[0] THEN s ELSE
    [s EXCEPT !.out = IF Neighbours(s.index) THEN Append(@, Pair(s)) ELSE @,
              !.index = [n \in {0, 1} |-> IF n = 0 THEN index ELSE @[0]],
              !.offset = [n \in {0, 1} |-> IF n = 0 THEN @[0] + Size(s.heap, s.bucket[0]) ELSE @[0]],
              !.bucket = [n \in {0, 1} |-> IF n = 0 THEN Null ELSE @[0]]]

WithBucket(s) ==
    IF s.bucket[0] # Null THEN s ELSE
    [s EXCEPT !.heap = Append(@, <<>>), !.bucket[0] = Len(s.heap) + 1]

SliceEntry(s, e) ==
    LET t == WithBucket(NextBucket(s, e.y \div kBC))
    IN  [t EXCEPT !.heap[t.bucket[0]] = Append(@, e)]

Sliced(block) ==
    LET s[n \in 0 .. Len(block)] ==
          IF n = 0
          THEN [index |-> L_index, offset |-> L_offset, bucket |-> L_bucket, heap |-> heap, out |-> <<>>]
          ELSE SliceEntry(s[n - 1], block[n])
    IN  s[Len(block)]

\* The thread throws "input not sorted" at an entry of an earlier bucket.
InputSorted(block) ==
    \A n \in DOMAIN block :
        block[n].y \div kBC >= IF n = 1 THEN L_index[0] ELSE block[n - 1].y \div kBC

\* The slicing of a block, up to match_pool.take(), which waits for the worker
\* whose turn it is.
SliceBlock ==
    /\ R_index \in 2 .. LastTable /\ blocks < Len(table) /\ ~pending
    /\ Len(matching) < Matchers
    /\ InputSorted(table[blocks + 1])
    /\ LET s == Sliced(table[blocks + 1]) IN
       /\ L_index' = s.index /\ L_offset' = s.offset /\ L_bucket' = s.bucket
       /\ heap' = s.heap
       /\ matching' = Append(matching, [worker |-> given % Matchers, pairs |-> s.out, out |-> <<>>])
    /\ given' = given + 1
    /\ blocks' = blocks + 1
    /\ pending' = TRUE
    /\ UNCHANGED <<setting, left, Fx, right, matches, counters, closed>>

\* L_tmp_out->take(): a Thread, which holds two inputs at most.
GiveLeft ==
    /\ pending /\ Len(L_queue) < 2
    /\ L_queue' = Append(L_queue, table[blocks])
    /\ pending' = FALSE
    /\ UNCHANGED <<setting, blocks, slice, L_tmp, matching, given, Fx, right, matches, counters, closed>>

\* The distance is kept whole; module Records has the ten bits that a file gives it.
Assigned(s) == [n \in DOMAIN s |-> IF R_index = 2 THEN [x |-> s[n].x] ELSE [pos |-> s[n].pos, off |-> s[n].off]]

WriteLeft ==
    /\ L_queue # <<>>
    /\ L_tmp' = [L_tmp EXCEPT ![R_index - 1] = @ \o Assigned(Head(L_queue))]
    /\ L_queue' = Tail(L_queue)
    /\ UNCHANGED <<setting, blocks, slice, pending, matching, given, Fx, right, matches, counters, closed>>

-----------------------------------------------------------------------------
(* FxMatcher *)

\* load_tables()
L_target(parity, i, m) ==
    ((((i \div kC) + m) % kB) * kC) + ((((2 * m + parity) * (2 * m + parity)) + i) % kC)

\* No entry has the same target twice: the code has kExtraBitsPow <= kB.
TargetsDiffer ==
    \A parity \in {0, 1}, i \in 0 .. kBC - 1, m, n \in 0 .. kExtraBitsPow - 1 :
        L_target(parity, i, m) = L_target(parity, i, n) => m = n

Cleaned(fx) == [r \in 0 .. kBC - 1 |->
                    IF r \in fx.clean THEN [fx.rmap[r] EXCEPT !.count = 0] ELSE fx.rmap[r]]

\* Where each y of the right bucket is, and how often; R is sorted by y.
Indexed(fx, R) ==
    LET offset == (R[1].y \div kBC) * kBC
        at(r) == {p \in 1 .. Len(R) : R[p].y - offset = r}
        old == Cleaned(fx)
        new(r) ==
            IF at(r) = {} THEN old[r]
            ELSE [pos |-> IF old[r].count = 0 THEN Min(at(r)) - 1 ELSE old[r].pos,
                  count |-> old[r].count + Cardinality(at(r))]
    IN  [rmap |-> [r \in 0 .. kBC - 1 |-> new(r)],
         clean |-> {R[p].y - offset : p \in 1 .. Len(R)}]

\* The matches of two buckets, positions counted from 0; offset_y is where L begins.
Found(fx, L, R) ==
    LET parity == (L[1].y \div kBC) % 2
        offset_y == ((R[1].y \div kBC) * kBC) - kBC
        ofTarget(pl, m) ==
            LET item == fx.rmap[L_target(parity, L[pl].y - offset_y, m)]
            IN  [j \in 1 .. item.count |-> [l |-> pl - 1, r |-> item.pos + j - 1]]
        ofLeft(pl) == FlattenSeq([m \in 1 .. kExtraBitsPow |-> ofTarget(pl, m - 1)])
    IN  FlattenSeq([pl \in 1 .. Len(L) |-> ofLeft(pl)])

\* find_matches(): what has no room for its position is counted, but not stored.
Fits(pos) == pos < 2 ^ PMAX
Match(offset, L, R, f) ==
    [pos |-> offset + f.l, off |-> f.r + (Len(L) - f.l),
     left |-> L[f.l + 1], right |-> R[f.r + 1]]
FindMatches(fx, pair) ==
    LET L == heap[pair.L]
        R == heap[pair.R]
        next == Indexed(fx, R)
        found == Found(next, L, R)
        stored(f) == IF Fits(pair.offset + f.l) THEN <<Match(pair.offset, L, R, f)>> ELSE <<>>
    IN  [fx |-> next,
         count |-> Len(found),
         out |-> FlattenSeq([n \in DOMAIN found |-> stored(found[n])])]

\* L_index begins with 0, so an empty first bucket counts as the predecessor of
\* the second, without a vector: the process dies when it is used.
HasVectors(pair) == pair.L # Null /\ pair.R # Null

\* idx_L and idx_R hold kBC matches; there is a throw for more, but only after they
\* were written.
ArraysHold(f) == f.count <= kBC

FreshMatcher == [rmap |-> [r \in 0 .. kBC - 1 |-> [pos |-> 0, count |-> 0]], clean |-> {}]

\* A worker goes through the pairs of its job.
MatchPair(n) ==
    /\ n \in DOMAIN matching /\ matching[n].pairs # <<>> /\ HasVectors(Head(matching[n].pairs))
    /\ LET w == matching[n].worker
           f == FindMatches(Fx[w], Head(matching[n].pairs))
       IN
       /\ ArraysHold(f)
       /\ Fx' = [Fx EXCEPT ![w] = f.fx]
       /\ num_found' = num_found + f.count
       /\ matching' = [matching EXCEPT ![n].pairs = Tail(@), ![n].out = @ \o f.out]
    /\ UNCHANGED <<setting, blocks, slice, pending, left, given, right, matches, num_written, closed>>

\* match_pool delivers to eval_pool in the order of its inputs.
DeliverMatches ==
    /\ matching # <<>> /\ Head(matching).pairs = <<>> /\ Len(evaluating) < Matchers
    /\ evaluating' = Append(evaluating, [ready |-> FALSE, matches |-> Head(matching).out])
    /\ matches' = matches \o Head(matching).out
    /\ num_written' = num_written + Len(Head(matching).out)
    /\ matching' = Tail(matching)
    /\ UNCHANGED <<setting, blocks, slice, pending, left, given, Fx, R_sort, R_tmp, num_found, closed>>

-----------------------------------------------------------------------------
(* eval_pool, and what it delivers to: R_add, a pool, or R_write for the last table *)

Evaluated(m) == evaluate(R_index, m.left, m.right, m.pos, m.off)

EvaluateJob(n) ==
    /\ n \in DOMAIN evaluating /\ ~evaluating[n].ready
    /\ evaluating' = [evaluating EXCEPT ![n] =
                        [ready |-> TRUE, entries |-> [i \in DOMAIN @.matches |-> Evaluated(@.matches[i])]]]
    /\ UNCHANGED <<setting, blocks, slice, pending, left, matching, given, Fx, R_sort, R_tmp,
                   matches, counters, closed>>

DeliverEntries ==
    /\ evaluating # <<>> /\ Head(evaluating).ready
    /\ LET entries == Head(evaluating).entries IN
       IF R_index = LastTable THEN R_tmp' = R_tmp \o entries /\ UNCHANGED R_sort
       ELSE R_sort' = R_sort \cup ToSet(entries) /\ UNCHANGED R_tmp
    /\ evaluating' = Tail(evaluating)
    /\ UNCHANGED <<setting, blocks, slice, pending, left, matching, given, Fx, matches, counters, closed>>

-----------------------------------------------------------------------------
(* compute_matches(), compute_table() and compute() *)

NothingLeft == FALSE
LastPairLeft == Neighbours(L_index)

\* After read_thread and match_pool were closed, the last two buckets remain.
Finish ==
    /\ R_index \in 2 .. LastTable /\ blocks = Len(table) /\ ~pending /\ matching = <<>> /\ ~closed
    /\ IF LastPairLeft
       THEN LET f == FindMatches(FreshMatcher, Pair([offset |-> L_offset, bucket |-> L_bucket])) IN
            /\ ArraysHold(f)
            /\ HasVectors([L |-> L_bucket[1], R |-> L_bucket[0]]) /\ Len(evaluating) < Matchers
            /\ evaluating' = Append(evaluating, [ready |-> FALSE, matches |-> f.out])
            /\ num_found' = num_found + f.count
            /\ num_written' = num_written + Len(f.out)
            /\ matches' = matches \o f.out
       ELSE UNCHANGED <<counters, matches, evaluating>>
    /\ closed' = TRUE
    /\ UNCHANGED <<setting, blocks, slice, pending, left, matching, given, Fx, R_sort, R_tmp>>

TableComplete == closed /\ evaluating = <<>> /\ L_queue = <<>>

Fresh ==
    /\ blocks' = 0 /\ pending' = FALSE
    /\ L_index' = [n \in {0, 1} |-> 0] /\ L_offset' = [n \in {0, 1} |-> 0]
    /\ L_bucket' = [n \in {0, 1} |-> Null] /\ heap' = <<>>
    /\ matching' = <<>> /\ given' = 0
    /\ Fx' = [w \in Worker |-> FreshMatcher]
    /\ matches' = <<>> /\ num_found' = 0 /\ num_written' = 0
    /\ closed' = FALSE

\* All threads are closed, and the table that was made is the next left one.
NextTable ==
    /\ IF R_index = 1 THEN f1 = 0 .. NumF1Blocks - 1 ELSE R_index <= LastTable /\ TableComplete
    /\ table' = IF R_index < LastTable THEN InBlocks(R_sort) ELSE table
    /\ R_sort' = {}
    /\ R_index' = R_index + 1
    /\ Fresh
    /\ UNCHANGED <<id, span, f1, left, evaluating, R_tmp>>

Init ==
    /\ id \in Ids /\ span \in BlockSpans
    /\ R_index = 1 /\ f1 = {} /\ R_sort = {} /\ table = <<>>
    /\ blocks = 0 /\ pending = FALSE
    /\ L_index = [n \in {0, 1} |-> 0] /\ L_offset = [n \in {0, 1} |-> 0]
    /\ L_bucket = [n \in {0, 1} |-> Null]
    /\ heap = <<>>
    /\ L_queue = <<>> /\ L_tmp = [t \in 1 .. LastTable - 1 |-> <<>>]
    /\ matching = <<>> /\ given = 0
    /\ Fx = [w \in Worker |-> FreshMatcher]
    /\ evaluating = <<>> /\ R_tmp = <<>>
    /\ matches = <<>>
    /\ num_found = 0 /\ num_written = 0
    /\ closed = FALSE

ComputeSome == \E block \in 0 .. NumF1Blocks - 1 : ComputeF1(block)
MatchSome == \E n \in 1 .. Matchers : MatchPair(n)
EvaluateSome == \E n \in 1 .. Matchers : EvaluateJob(n)
Next ==
    \/ ComputeSome
    \/ SliceBlock \/ GiveLeft \/ WriteLeft \/ MatchSome \/ DeliverMatches \/ Finish
    \/ EvaluateSome \/ DeliverEntries \/ NextTable

-----------------------------------------------------------------------------
(* Properties *)

Entries == FlattenSeq(table)
Bucket(y) == y \div kBC

\* Which entries match, as the comment at find_matches_ex() defines it.
Matching(yl, yr) ==
    \E m \in 0 .. kExtraBitsPow - 1 :
        /\ Bucket(yl) + 1 = Bucket(yr)
        /\ (((yr % kBC) \div kC) - ((yl % kBC) \div kC)) % kB = m % kB
        /\ (((yr % kBC) % kC) - ((yl % kBC) % kC)) % kC = ((2 * m + (Bucket(yl) % 2)) * (2 * m + (Bucket(yl) % 2))) % kC

\* Every match that was found is one, and its position and distance lead to its
\* two entries in the table L_write has written, where phases 2 and 3 look them
\* up, although buckets, blocks and workers cut the table differently.
MatchesAreReal ==
    LET entries == Entries IN
    \A n \in 1 .. Len(matches) : LET m == matches[n] IN
        /\ Matching(m.left.y, m.right.y)
        /\ m.left = entries[m.pos + 1] /\ m.right = entries[m.pos + m.off + 1]
        /\ closed /\ L_queue = <<>> =>
            Assigned(<<m.left, m.right>>) = <<L_tmp[R_index - 1][m.pos + 1], L_tmp[R_index - 1][m.pos + m.off + 1]>>

\* In the end every two entries that match were found, once, and evaluated; only
\* those without room for their position are missing, and they are counted.
Reference ==
    LET entries == Entries
    IN  {q \in (DOMAIN entries) \X (DOMAIN entries) : Matching(entries[q[1]].y, entries[q[2]].y)}
Made == IF R_index = LastTable THEN ToSet(R_tmp) ELSE R_sort
NoMatchLost ==
    closed /\ evaluating = <<>> =>
        /\ {<<e.pos, e.off>> : e \in Made} = {<<p[1] - 1, p[2] - p[1]>> : p \in {q \in Reference : q[1] <= 2 ^ PMAX}}
        /\ IsInjective(matches) /\ num_written = Len(matches) /\ num_written = Cardinality(Made)
        /\ num_found = Cardinality(Reference)

\* The values of x an entry of a table comes from, by the files of the tables
Leaves(t, p) ==
    LET f[u \in 1 .. LastTable, q \in Nat] ==
            LET e == IF u = LastTable THEN R_tmp[q + 1] ELSE L_tmp[u][q + 1]
            IN  IF u = 1 THEN <<e.x>> ELSE f[u - 1, e.pos] \o f[u - 1, e.pos + e.off]
    IN  f[t, p]

\* The functions as the proof of space defines them: of the bits of the values
\* below, each in front of the next.
Number(s) == IF s = <<>> THEN 0 ELSE FoldLeft(LAMBDA n, bit : 2 * n + bit, 0, s)
BitsOf(n, size) == [i \in 1 .. size |-> (n \div 2 ^ (size - i)) % 2]
Memory(s) == {i - 1 : i \in {j \in DOMAIN s : s[j] = 1}}
Stream ==
    LET ctx == chacha8_keysetup(EncKey(id), 256, {})
        block(n) == chacha8_get_keystream(ctx, n, 1)
    IN  UNION {{n * kF1BlockSizeBits + b : b \in BytesOf(block(n))} : n \in 0 .. cdiv(k * 2 ^ k, kF1BlockSizeBits) - 1}

\* [y, meta, ok]: the value, the meta data, and whether all pairs below match
Evaluation(xs) ==
    LET stream == Stream
        bits(mem, a, size) == [i \in 1 .. size |-> IF a + i - 1 \in mem THEN 1 ELSE 0]
        f[t \in 1 .. LastTable, n \in Nat] ==
            IF t = 1
            THEN [y |-> Number(bits(stream, xs[n + 1] * k, k) \o SubSeq(BitsOf(xs[n + 1], k), 1, kExtraBits)),
                  meta |-> BitsOf(xs[n + 1], k), ok |-> TRUE]
            ELSE LET l == f[t - 1, 2 * n]
                     r == f[t - 1, 2 * n + 1]
                     in == BitsOf(l.y, k + kExtraBits) \o l.meta \o r.meta
                     hash == Hash(Memory(in), cdiv(Len(in), ByteBits))
                 IN  [y |-> Number(bits(hash, 0, IF t = LastTable THEN k ELSE k + kExtraBits)),
                      meta |-> IF t < 4 THEN l.meta \o r.meta
                               ELSE IF t = LastTable THEN <<>> ELSE bits(hash, k + kExtraBits, kVectorLens[t + 1] * k),
                      ok |-> l.ok /\ r.ok /\ Matching(l.y, r.y)]
        depth == CHOOSE d \in 0 .. LastTable : 2 ^ d = Len(xs)
    IN  f[depth + 1, 0]

\* Every entry, when its table is complete and sorted, has the value and the meta
\* data of the values of x below it, wherever the entries below it had been put by
\* the sorting and the buffers, words and bytes their bits went through.
EntriesEvaluate ==
    /\ blocks = 0 /\ R_index \in 2 .. LastTable =>
        LET entries == Entries IN
        \A n \in DOMAIN entries : LET e == entries[n] IN
            IF R_index = 2 THEN e.y = Evaluation(<<e.x>>).y
            ELSE LET v == Evaluation(Leaves(R_index - 2, e.pos) \o Leaves(R_index - 2, e.pos + e.off))
                 IN  v.ok /\ e.y = v.y /\ e.meta = Memory(v.meta)
    /\ R_index > LastTable =>
        \A n \in DOMAIN R_tmp :
            LET v == Evaluation(Leaves(LastTable, n - 1)) IN v.ok /\ R_tmp[n].y = v.y
=============================================================================
