------------------------------ MODULE PlotFile ------------------------------
(***************************************************************************)
(* The end of a plot file: what compute_stage2() in include/chia/phase3.hpp *)
(* writes of the last line points (table 6 of the plot), and the tables    *)
(* P7, C1, C2 and C3 that include/chia/phase4.hpp writes behind them.      *)
(*                                                                         *)
(* Both read a DiskSort (module Sorter) through one thread, R_read and     *)
(* read_thread, that slices the entries into parks.  Parks are packed by   *)
(* pools and written by one Thread, park_write and plot_write.  A pool is  *)
(* the queue module ThreadPool shows it to be: packing a park touches      *)
(* nothing but the park.  Packing keeps the numbers, but for the entropy   *)
(* coder, which refuses short sequences; the checks that a packed park is  *)
(* not too long are left out.                                              *)
(*                                                                         *)
(* A plot is read by its table pointers, see Proof below.                  *)
(***************************************************************************)
EXTENDS Integers, SequencesExt

CONSTANTS
    kEntriesPerPark, kCheckpoint1Interval, kCheckpoint2Interval,
    MaxPos,             \* 2^PMAX
    ParkSize, P7Size, C1Size, C3Size,   \* bytes of a park, and of a C1 or C2 entry
    L_final_begin,      \* where table 6 begins, final_pointers[6]
    KeySpan,            \* how many keys a block of the second DiskSort spans
    Workers,            \* of each pool
    Inputs              \* what R_sort emits: sequences of blocks of [key, point]

ASSUME BoundsAssumption ==
    /\ {kEntriesPerPark, kCheckpoint1Interval, kCheckpoint2Interval, MaxPos, ParkSize,
        P7Size, C1Size, C3Size, KeySpan, Workers} \subseteq Nat \ {0}
    /\ L_final_begin \in Nat

\* R_sort is a DiskSort of line points, and two entries are not the same pair of
\* positions; deltas of keys fit in a byte.
ASSUME InputAssumption ==
    \A t \in Inputs : LET s == FlattenSeq(t) IN
        /\ t \in Seq(Seq([key : 0 .. 255, point : Nat]))
        /\ \A a, b \in 1 .. Len(s) : a < b => s[a].point <= s[b].point /\ s[a] # s[b]

VARIABLES
    input,
    stage,              \* where compute_stage2(), then phase 4, is
    given,              \* blocks R_read was given
    sends,              \* what the reading thread has still to give to whom
    queue,              \* the inputs of the pools and of the writing thread
    park,               \* phase 3: the park that is being filled
    num_written_final,
    L_sort,             \* the DiskSort L_add fills and phase 4 reads
    index,              \* phase 4: entries read
    park_data, park_deltas, prev_y, num_C1_entries, C2,
    final_file_writer_1, final_file_writer_3,
    file,               \* the writes to the file: records [offset, size, data]
    num_writes,         \* history: how many there were
    pointers            \* the table pointers in the header

phase3 == <<given, park, num_written_final>>
phase4 == <<index, park_data, park_deltas, prev_y, num_C1_entries, C2,
            final_file_writer_1, final_file_writer_3>>
plot == <<file, num_writes>>
vars == <<input, stage, sends, queue, phase3, L_sort, phase4, plot, pointers>>

cdiv(a, b) == (a + b - 1) \div b

\* The sum of the first n numbers of a sequence
SumTo(s, n) ==
    LET sum[j \in 0 .. n] == IF j = 0 THEN 0 ELSE sum[j - 1] + s[j]
    IN  sum[n]

-----------------------------------------------------------------------------
(* Threads and pools *)

Pools == {"park_threads", "p7_threads", "delta_threads"}
Stages == Pools \cup {"L_add", "plot_write"}
\* A Thread holds two inputs, and take() of a pool waits for a worker.
Limit(q) == IF q = "plot_write" THEN 2 ELSE Workers

Write(offset, size, data) == [offset |-> offset, size |-> size, data |-> data]

\* The differences of a sequence of numbers
Deltas(s) == [n \in 1 .. Len(s) - 1 |-> s[n + 1] - s[n]]

\* FSE_compress_usingCTable() returns 0 for two bytes or less.
Compressible(deltas) == Len(deltas) > 2
\* What a reader can decode of what Encoding::ANSEncodeDeltas() has written
Encoded(deltas) == IF Compressible(deltas) THEN deltas ELSE <<>>

\* WritePark() stores deltas that were not compressed as they are.
ParkDeltas(deltas) == IF Encoded(deltas) = <<>> THEN deltas ELSE Encoded(deltas)

\* What the workers of a pool make of an input
Packed(q, x) ==
    CASE q = "park_threads" ->
            [n \in 1 .. Len(x) |->
                Write(L_final_begin + x[n].index * ParkSize, ParkSize,
                      [first |-> x[n].points[1], deltas |-> ParkDeltas(Deltas(x[n].points))])]
      [] q = "p7_threads" -> [n \in 1 .. Len(x) |-> Write(x[n].offset, P7Size, x[n].array)]
      [] q = "delta_threads" -> <<Write(x.offset, C3Size, Encoded(x.deltas))>>

Send ==
    /\ sends # <<>>
    /\ LET q == Head(sends).to IN
        /\ Len(queue[q]) < Limit(q)
        /\ queue' = [queue EXCEPT ![q] = Append(@, Head(sends).what)]
    /\ sends' = Tail(sends)
    /\ UNCHANGED <<input, stage, phase3, L_sort, phase4, plot, pointers>>

NumPoints(parks) == SumTo([n \in 1 .. Len(parks) |-> Len(parks[n].points)], Len(parks))

\* plot_write->take(), by whichever worker has its turn in a pool
Deliver(q) ==
    /\ queue[q] # <<>> /\ Len(queue["plot_write"]) < Limit("plot_write")
    /\ queue' = [queue EXCEPT !["plot_write"] = Append(@, Packed(q, Head(queue[q]))), ![q] = Tail(@)]
    /\ num_written_final' =
            num_written_final + IF q = "park_threads" THEN NumPoints(Head(queue[q])) ELSE 0
    /\ UNCHANGED <<input, stage, sends, given, park, L_sort, phase4, plot, pointers>>

Put(writes) ==
    /\ file' = file \cup ToSet(writes)
    /\ num_writes' = num_writes + Len(writes)

PlotWrite ==
    /\ queue["plot_write"] # <<>>
    /\ Put(Head(queue["plot_write"]))
    /\ queue' = [queue EXCEPT !["plot_write"] = Tail(@)]
    /\ UNCHANGED <<input, stage, sends, phase3, L_sort, phase4, pointers>>

Add ==
    /\ queue["L_add"] # <<>>
    /\ LET x == Head(queue["L_add"])
           fit == {n \in 1 .. Len(x.block) : x.offset + n - 1 < MaxPos}
       IN  L_sort' = L_sort \cup {[key |-> x.block[n].key, pos |-> x.offset + n - 1] : n \in fit}
    /\ queue' = [queue EXCEPT !["L_add"] = Tail(@)]
    /\ UNCHANGED <<input, stage, sends, phase3, phase4, plot, pointers>>

-----------------------------------------------------------------------------
(* compute_stage2() *)

Offset(n) == Len(FlattenSeq(SubSeq(input, 1, n)))

ParkBoundary(n) == n % kEntriesPerPark = 0 /\ n > 0

SlicePoint(s, e) ==
    IF s.index >= MaxPos THEN s
    ELSE [index |-> s.index + 1,
          parks |-> IF ParkBoundary(s.index) THEN Append(s.parks, s.park) ELSE s.parks,
          park |-> IF ParkBoundary(s.index)
                   THEN [index |-> s.park.index + 1, points |-> <<e.point>>]
                   ELSE [s.park EXCEPT !.points = Append(@, e.point)]]

Sliced(first, block) ==
    LET s[n \in 0 .. Len(block)] == IF n = 0 THEN first ELSE SlicePoint(s[n - 1], block[n])
    IN  s[Len(block)]

\* R_read: a block is sliced, then given to park_threads and to L_add.
SliceBlock ==
    /\ stage = "stage2" /\ sends = <<>> /\ given < Len(input)
    /\ LET block == input[given + 1]
           s == Sliced([index |-> Offset(given), park |-> park, parks |-> <<>>], block)
       IN  /\ park' = s.park
           /\ sends' = <<[to |-> "park_threads", what |-> s.parks],
                         [to |-> "L_add", what |-> [block |-> block, offset |-> Offset(given)]]>>
    /\ given' = given + 1
    /\ UNCHANGED <<input, stage, queue, num_written_final, L_sort, phase4, plot, pointers>>

\* main: the last park is not full, or has not been given yet.
LastPark ==
    /\ stage = "stage2" /\ sends = <<>> /\ given = Len(input)
    /\ IF park.points = <<>> THEN UNCHANGED <<sends, park>>
       ELSE /\ sends' = <<[to |-> "park_threads", what |-> <<park>>]>>
            /\ park' = [park EXCEPT !.index = @ + 1]
    /\ stage' = "close2"
    /\ UNCHANGED <<input, queue, given, num_written_final, L_sort, phase4, plot, pointers>>

\* (Defects, here and below: a definition in the form a plausible slip in that
\* code would give it, just before the definition itself.)
WriterNotClosed == sends = <<>> /\ \A q \in Stages \ {"plot_write"} : queue[q] = <<>>
AllClosed == sends = <<>> /\ \A q \in Stages : queue[q] = <<>>

-----------------------------------------------------------------------------
(* Phase 4 *)

P7ParksFloor(n) == n \div kEntriesPerPark
P7Parks(n) == (IF n = 0 THEN 0 ELSE n - 1) \div kEntriesPerPark + 1

total_C1_entries == cdiv(num_written_final, kCheckpoint1Interval)
total_C2_entries == cdiv(total_C1_entries, kCheckpoint2Interval)
begin_byte_C1 == pointers[7] + P7Parks(num_written_final) * P7Size
begin_byte_C2 == begin_byte_C1 + (total_C1_entries + 1) * C1Size
begin_byte_C3 == begin_byte_C2 + (total_C2_entries + 1) * C1Size
end_byte == begin_byte_C3 + total_C1_entries * C3Size

\* Everything of phase 3 is closed: it writes its pointers, and phase 4 begins.
BeginPhase4 ==
    /\ stage = "close2" /\ AllClosed
    /\ pointers' = [pointers EXCEPT ![6] = L_final_begin, ![7] = L_final_begin + park.index * ParkSize]
    /\ final_file_writer_3' = pointers'[7]
    /\ final_file_writer_1' = pointers'[7] + P7Parks(num_written_final) * P7Size
    /\ stage' = "phase4"
    /\ UNCHANGED <<input, sends, queue, phase3, L_sort, index, park_data, park_deltas,
                   prev_y, num_C1_entries, C2, plot>>

DeltaPark(deltas, num) == [offset |-> begin_byte_C3 + (num - 1) * C3Size, deltas |-> deltas]

\* One entry in read_thread, which also collects what it gives to whom.
P7Step(s, e) ==
    IF ParkBoundary(s.index)
    THEN [s EXCEPT !.parks = Append(@, [offset |-> s.writer_3, array |-> s.array]),
                   !.writer_3 = @ + P7Size,
                   !.array = <<e.pos>>]
    ELSE [s EXCEPT !.array = Append(@, e.pos)]

NotACheckpoint(n) == n % kCheckpoint1Interval # 0

CheckpointStep(s, e) ==
    IF NotACheckpoint(s.index)
    THEN [s EXCEPT !.deltas = Append(@, (e.key - s.prev_y) % 256)]
    ELSE [s EXCEPT
            !.sends = @ \o <<[to |-> "plot_write", what |-> <<Write(s.writer_1, C1Size, e.key)>>]>>
                        \o (IF s.num_C1 = 0 THEN <<>>
                            ELSE <<[to |-> "delta_threads", what |-> DeltaPark(s.deltas, s.num_C1)]>>),
            !.writer_1 = @ + C1Size,
            !.C2 = IF s.index % (kCheckpoint1Interval * kCheckpoint2Interval) = 0 THEN Append(@, e.key) ELSE @,
            !.deltas = <<>>,
            !.num_C1 = @ + 1]

ReadEntry(s, e) ==
    [CheckpointStep(P7Step(s, e), e) EXCEPT !.prev_y = e.key, !.index = @ + 1]

ReadAll(first, block) ==
    LET s[n \in 0 .. Len(block)] == IF n = 0 THEN first ELSE ReadEntry(s[n - 1], block[n])
    IN  s[Len(block)]

\* The next block of L_sort: the keys of one span, equal keys in any order.
NextSpan == Min({e.key \div KeySpan : e \in L_sort})
NextBlocks ==
    {t \in SetToSeqs({e \in L_sort : e.key \div KeySpan = NextSpan}) :
        \A a, b \in 1 .. Len(t) : a < b => t[a].key <= t[b].key}

ReadBlock ==
    /\ stage = "phase4" /\ sends = <<>> /\ L_sort # {}
    /\ \E block \in NextBlocks :
        LET s == ReadAll([index |-> index, array |-> park_data, deltas |-> park_deltas,
                          prev_y |-> prev_y, num_C1 |-> num_C1_entries, C2 |-> C2,
                          writer_1 |-> final_file_writer_1, writer_3 |-> final_file_writer_3,
                          parks |-> <<>>, sends |-> <<>>],
                         block)
        IN  /\ index' = s.index
            /\ park_data' = s.array /\ park_deltas' = s.deltas
            /\ prev_y' = s.prev_y /\ num_C1_entries' = s.num_C1 /\ C2' = s.C2
            /\ final_file_writer_1' = s.writer_1 /\ final_file_writer_3' = s.writer_3
            /\ sends' = Append(s.sends, [to |-> "p7_threads", what |-> s.parks])
            /\ L_sort' = L_sort \ ToSet(block)
    /\ UNCHANGED <<input, stage, queue, phase3, plot, pointers>>

LastDeltas == park_deltas # <<>>

LastP7Park ==
    /\ stage = "phase4" /\ sends = <<>> /\ L_sort = {}
    /\ sends' = <<[to |-> "p7_threads", what |-> <<[offset |-> final_file_writer_3, array |-> park_data]>>]>>
                \o (IF LastDeltas
                    THEN <<[to |-> "delta_threads", what |-> DeltaPark(park_deltas, num_C1_entries)]>>
                    ELSE <<>>)
    /\ final_file_writer_3' = final_file_writer_3 + P7Size
    /\ stage' = "close4"
    /\ UNCHANGED <<input, queue, phase3, L_sort, index, park_data, park_deltas, prev_y,
                   num_C1_entries, C2, final_file_writer_1, plot, pointers>>

\* A zero ends C1 and C2.
C2Unterminated == C2
C2Table == Append(C2, 0)

Finish ==
    /\ stage = "close4" /\ AllClosed
    /\ LET tail == <<0>> \o C2Table IN
        /\ Put([n \in 1 .. Len(tail) |-> Write(final_file_writer_1 + (n - 1) * C1Size, C1Size, tail[n])])
        /\ final_file_writer_1' = final_file_writer_1 + Len(tail) * C1Size
    /\ pointers' = [pointers EXCEPT ![8] = begin_byte_C1, ![9] = begin_byte_C2, ![10] = begin_byte_C3]
    /\ stage' = "done"
    /\ UNCHANGED <<input, sends, queue, phase3, L_sort, index, park_data, park_deltas, prev_y,
                   num_C1_entries, C2, final_file_writer_3>>

-----------------------------------------------------------------------------
Init ==
    /\ input \in Inputs
    /\ stage = "stage2" /\ given = 0
    /\ sends = <<>> /\ queue = [q \in Stages |-> <<>>]
    /\ park = [index |-> 0, points |-> <<>>]
    /\ num_written_final = 0
    /\ L_sort = {}
    /\ index = 0 /\ park_data = <<>> /\ park_deltas = <<>> /\ prev_y = 0
    /\ num_C1_entries = 0 /\ C2 = <<>>
    /\ final_file_writer_1 = 0 /\ final_file_writer_3 = 0
    /\ file = {} /\ num_writes = 0
    /\ pointers = [n \in 6 .. 10 |-> 0]

Main == SliceBlock \/ LastPark \/ BeginPhase4 \/ ReadBlock \/ LastP7Park \/ Finish
DeliverSome == \E q \in Pools : Deliver(q)
Next == Main \/ Send \/ DeliverSome \/ PlotWrite \/ Add

Spec == Init /\ [][Next]_vars

-----------------------------------------------------------------------------
(* Properties *)

\* The type of every variable; no park has more entries than it has room for, and
\* none is empty.
TypeOK ==
    /\ input \in Inputs /\ given \in 0 .. Len(input)
    /\ stage \in {"stage2", "close2", "phase4", "close4", "done"}
    /\ \A x \in ToSet(sends) : x.to \in Stages
    /\ \A q \in Stages : Len(queue[q]) <= Limit(q)
    /\ \A n \in 1 .. Len(queue["park_threads"]) : \A p \in ToSet(queue["park_threads"][n]) :
        p.index \in Nat /\ p.points # <<>> /\ Len(p.points) <= kEntriesPerPark
    /\ Len(park.points) <= kEntriesPerPark /\ Len(park_data) <= kEntriesPerPark
    /\ Len(park_deltas) < kCheckpoint1Interval /\ ToSet(park_deltas) \subseteq 0 .. 255
    /\ num_written_final \in 0 .. MaxPos
    /\ L_sort \subseteq [key : 0 .. 255, pos : 0 .. MaxPos - 1]
    /\ index \in Nat /\ prev_y \in 0 .. 255 /\ num_C1_entries \in Nat /\ C2 \in Seq(0 .. 255)
    /\ final_file_writer_1 \in Nat /\ final_file_writer_3 \in Nat
    /\ {w.offset : w \in file} \subseteq Nat /\ num_writes \in Nat
    /\ pointers \in [6 .. 10 -> Nat]

\* No byte of the tables is written twice, and none before table 6 or behind the
\* end that phase 4 has computed: the parks, the checkpoints and the deltas are
\* written by different threads, to offsets that were computed before from counts.
WritesAreDisjoint ==
    /\ Cardinality(file) = num_writes
    /\ \A v, w \in file : v # w => v.offset + v.size <= w.offset \/ w.offset + w.size <= v.offset
    /\ \A w \in file : L_final_begin <= w.offset
    /\ stage \in {"phase4", "close4", "done"} => \A w \in file : w.offset + w.size <= end_byte

\* What a reader of the plot finds at an offset
At(offset) == (CHOOSE w \in file : w.offset = offset).data
Readable(offset) == \E w \in file : w.offset = offset

\* The f7 value of entry n, by its checkpoint and the deltas behind it, and the
\* line point that its position in P7 leads to in table 6.
Value(n) ==
    LET c == n \div kCheckpoint1Interval
        r == n % kCheckpoint1Interval
    IN  At(pointers[8] + c * C1Size) + IF r = 0 THEN 0 ELSE SumTo(At(pointers[10] + c * C3Size), r)
Position(n) ==
    LET array == At(pointers[7] + (n \div kEntriesPerPark) * P7Size)
    IN  array[(n % kEntriesPerPark) + 1]
LinePoint(pos) ==
    LET p == At(pointers[6] + (pos \div kEntriesPerPark) * ParkSize)
    IN  p.first + SumTo(p.deltas, pos % kEntriesPerPark)
Proof(n) == [key |-> Value(n), point |-> LinePoint(Position(n))]

ParksWritten(n) ==
    /\ \A c \in 0 .. cdiv(n, kCheckpoint1Interval) - 1 :
        /\ Readable(pointers[8] + c * C1Size)
        /\ n - c * kCheckpoint1Interval > 1 => Readable(pointers[10] + c * C3Size)
    /\ \A p \in 0 .. cdiv(n, kEntriesPerPark) - 1 :
        Readable(pointers[7] + p * P7Size) /\ Readable(pointers[6] + p * ParkSize)

Entries == LET s == FlattenSeq(input) IN SubSeq(s, 1, IF Len(s) < MaxPos THEN Len(s) ELSE MaxPos)
Interval(c) == {a \in 0 .. Len(Entries) - 1 : a \div kCheckpoint1Interval = c}

\* The coder has dropped what follows the checkpoint of a last interval this short.
Dropped(a) ==
    /\ a % kCheckpoint1Interval # 0
    /\ Cardinality(Interval(a \div kCheckpoint1Interval)) <= 3
Kept == {a \in 0 .. Len(Entries) - 1 : ~Dropped(a)}

\* A finished plot holds every entry that has a position, once and in the order of
\* f7: reading it by its pointers gives back the line point that had this f7, over
\* two sorts, five pools and three kinds of parks whose boundaries do not meet.
\* Only those of a last interval with one or two deltas have lost their f7.
ProofsAreFound ==
    stage = "done" =>
        LET n == Len(Entries) IN
        /\ ParksWritten(n)
        /\ \A a, b \in Kept : a < b => Value(a) <= Value(b)
        /\ \A a, b \in 0 .. n - 1 : a < b => Position(a) # Position(b)
        /\ {Proof(a) : a \in Kept} \subseteq ToSet(Entries) /\ Cardinality({Proof(a) : a \in Kept}) = Cardinality(Kept)
        /\ {LinePoint(Position(a)) : a \in 0 .. n - 1} = {e.point : e \in ToSet(Entries)}

\* "we write the deltas between each f7": whatever the number of entries, every
\* entry behind a checkpoint has its delta in C3.
DeltasAreWritten ==
    stage = "done" =>
        \A a \in 0 .. Len(Entries) - 1 :
            LET r == a % kCheckpoint1Interval IN
            r # 0 => Len(At(pointers[10] + (a \div kCheckpoint1Interval) * C3Size)) >= r

\* Between the pointers, C1 and C2 are full: C2 has every kCheckpoint2Interval-th
\* entry of C1, and both end with a zero where the next table begins.
CheckpointsComplete ==
    stage = "done" =>
        LET entries(from, to) == (to - from) \div C1Size
            m == entries(pointers[8], pointers[9]) - 1
            l == entries(pointers[9], pointers[10]) - 1
        IN  /\ \A c \in 0 .. m : Readable(pointers[8] + c * C1Size)
            /\ \A c \in 0 .. l : Readable(pointers[9] + c * C1Size)
            /\ At(pointers[8] + m * C1Size) = 0 /\ At(pointers[9] + l * C1Size) = 0
            /\ l = cdiv(m, kCheckpoint2Interval)
            /\ \A c \in 0 .. l - 1 :
                At(pointers[9] + c * C1Size) = At(pointers[8] + c * kCheckpoint2Interval * C1Size)
=============================================================================
