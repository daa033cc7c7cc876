----------------------------- MODULE MergeStage -----------------------------
(***************************************************************************)
(* The merge of phase3::compute_stage1 (include/chia/phase3.hpp): the      *)
(* positions of a left table arrive as a stream of buffers, the entries of *)
(* a right table as a stream of jobs sorted by position, and each merge    *)
(* thread keeps a sliding window, L_buffer, of the left stream to look up  *)
(* the two positions of every right entry.                                 *)
(*                                                                         *)
(* Four kinds of threads share `mutex', `signal' and `signal_1':           *)
(*   L_read      appends the left buffers to L_input (before it, L_read_1  *)
(*               drops the entries of table 1 that phase 2 did not mark);  *)
(*   main        ends the left stream (L_is_end);                          *)
(*   merge       the M workers of the pool R_read, job j on worker j % M;  *)
(*   R_sort_read gives the jobs and ends the right stream (R_is_end).      *)
(* The pool is used as module ThreadPool shows it to be: a worker gets a   *)
(* job when it is idle and finishes it after the job before.  Behind it,   *)
(* R_add_2 turns the two new positions of an entry into its line point.    *)
(*                                                                         *)
(* A step is a critical section, or what a thread does between two of      *)
(* them.                                                                   *)
(***************************************************************************)
EXTENDS Integers, SequencesExt

CONSTANTS
    M,          \* num_threads_merge
    Streams     \* the pairs of streams to merge, see below

ASSUME MergeStageAssumption == M \in Nat \ {0}

\* What L_read_1 leaves of a block
Filtered(block) ==
    LET f[k \in 0 .. Len(block)] ==
          IF k = 0 THEN <<>>
          ELSE IF block[k].used THEN Append(f[k - 1], block[k].new_pos) ELSE f[k - 1]
    IN  f[Len(block)]
Positions(blocks) == [n \in DOMAIN blocks |-> Filtered(blocks[n])]

\* A pair of streams: the blocks of the left table, sequences of its entries, each
\* a new position and its bit in L_used (TRUE when there is no L_used); and the jobs,
\* sequences of right entries [pos, off], which count used entries only.  No two
\* entries have the same new position, the right table was sorted by position, and
\* the two entries of a match are from different buckets.
ASSUME StreamsAssumption ==
    \A s \in Streams :
        /\ s.left \in Seq(Seq([used : BOOLEAN, new_pos : Nat]))
        /\ s.jobs \in Seq(Seq([pos : Nat, off : Nat \ {0}]))
        /\ LET table == FlattenSeq(Positions(s.left)) IN
            \A a, b \in 1 .. Len(table) : a # b => table[a] # table[b]
        /\ LET table == FlattenSeq(s.jobs) IN
            \A a, b \in 1 .. Len(table) : a < b => table[a].pos <= table[b].pos

VARIABLES
    streams,
    L_given,        \* how many blocks L_read was given
    L_num_read,     \* how many entries were in them
    tmp,            \* the buffer L_read is about to append, <<>> if none
    L_input,        \* the list of buffers [offset, new_pos, copy_sync]
    L_is_end, R_is_end,
    lpc,            \* where L_read is
    mpc,            \* where each merge thread is
    given,          \* how many jobs the pool was given
    job,            \* the job each merge thread works on
    entry,          \* index of the entry it works on
    L_buffer,       \* the window [offset, new_pos] of each merge thread
    out,            \* what it has looked up for the current job
    merged,         \* history: the line points R_add_2 added, in order
    delivered       \* how many jobs the pool delivered

left == <<L_given, L_num_read, tmp, lpc>>
locals == <<job, entry, out>>
pool == <<given, merged, delivered>>
vars == <<streams, L_given, L_num_read, tmp, L_input, L_is_end, R_is_end, lpc, mpc,
          given, job, entry, L_buffer, out, merged, delivered>>

Merge == 0 .. M - 1
Blocks == streams.left
Jobs == streams.jobs
NoBuffer == <<>>

Goto(i, label) == mpc' = [mpc EXCEPT ![i] = label]
\* notify_all() on `signal', on which merge threads wait, and on `signal_1', on
\* which L_read waits
Signal == mpc' = [i \in Merge |-> IF mpc[i] = "blocked" THEN "copy" ELSE mpc[i]]
Signal1 == lpc' = IF lpc = "blocked" THEN "append" ELSE lpc

-----------------------------------------------------------------------------
(* L_read: one buffer at a time, and main after the last of them. *)

NotCopied == 0

\* The next block reaches L_read, through L_read_1 if there is L_used.
LTake ==
    /\ lpc = "idle" /\ L_given < Len(Blocks)
    /\ tmp' = [offset |-> L_num_read, new_pos |-> Filtered(Blocks[L_given + 1]), copy_sync |-> NotCopied]
    /\ L_num_read' = L_num_read + Len(tmp'.new_pos)
    /\ L_given' = L_given + 1
    /\ lpc' = "append"
    /\ UNCHANGED <<streams, L_input, L_is_end, R_is_end, mpc, L_buffer, locals, pool>>

\* (Defects, here and below: a definition in the form a plausible slip in that
\* code would give it, just before the definition itself.)
LatestUnreadForever == L_input # <<>> /\ Last(L_input).copy_sync = 0
\* The latest buffer was not copied by any merge thread yet.
LatestUnread == L_input # <<>> /\ Last(L_input).copy_sync = 0 /\ ~R_is_end

LWait ==
    /\ lpc = "append"
    /\ LatestUnread
    /\ lpc' = "blocked"
    /\ UNCHANGED <<streams, L_given, L_num_read, tmp, L_input, L_is_end, R_is_end, mpc, L_buffer, locals, pool>>

CopiedByOne(b) == b.copy_sync >= 1
CopiedByAll(b) == b.copy_sync >= M

\* pop_front() as long as the front has been copied by all
Popped(list) ==
    LET keep == {k \in 1 .. Len(list) : ~CopiedByAll(list[k])}
        first == IF keep = {} THEN Len(list) + 1 ELSE CHOOSE k \in keep : \A h \in keep : k <= h
    IN  SubSeq(list, first, Len(list))

LAppend ==
    /\ lpc = "append"
    /\ ~LatestUnread
    /\ L_input' = Append(Popped(L_input), tmp)
    /\ tmp' = NoBuffer
    /\ lpc' = "notify"
    /\ UNCHANGED <<streams, L_given, L_num_read, L_is_end, R_is_end, mpc, L_buffer, locals, pool>>

LNotify ==
    /\ lpc = "notify"
    /\ Signal
    /\ lpc' = "idle"
    /\ UNCHANGED <<streams, L_given, L_num_read, tmp, L_input, L_is_end, R_is_end, L_buffer, locals, pool>>

LEnd ==
    /\ ~L_is_end
    /\ lpc = "idle" /\ L_given = Len(Blocks)
    /\ L_is_end' = TRUE
    /\ Signal
    /\ UNCHANGED <<streams, left, L_input, R_is_end, L_buffer, locals, pool>>

LStep == LTake \/ LWait \/ LAppend \/ LNotify \/ LEnd

-----------------------------------------------------------------------------
(* R_sort_read *)

RGive ==
    /\ given < Len(Jobs)
    /\ LET i == given % M IN
        /\ mpc[i] = "idle"
        /\ job' = [job EXCEPT ![i] = given + 1]
        /\ entry' = [entry EXCEPT ![i] = 1]
        /\ out' = [out EXCEPT ![i] = <<>>]
        /\ Goto(i, "entry")
    /\ given' = given + 1
    /\ UNCHANGED <<streams, left, L_input, L_is_end, R_is_end, L_buffer, merged, delivered>>

\* After R_read.close(), which waits for every merge thread.
REnd ==
    /\ ~R_is_end
    /\ given = Len(Jobs)
    /\ \A i \in Merge : mpc[i] = "idle"
    /\ R_is_end' = TRUE
    /\ Signal1
    /\ UNCHANGED <<streams, L_given, L_num_read, tmp, L_input, L_is_end, mpc, L_buffer, locals, pool>>

RStep == RGive \/ REnd

-----------------------------------------------------------------------------
(* A merge thread *)

Entries(i) == Jobs[job[i]]
Entry(i) == Entries(i)[entry[i]]
First(i) == Entry(i).pos
Second(i) == Entry(i).pos + Entry(i).off
Window(i) == L_buffer[i].new_pos
WindowEnd(i) == L_buffer[i].offset + Len(Window(i))

Found(i) == Second(i) < WindowEnd(i)

\* The rest of the entry's turn of the loop, local to the thread.
LookedUp(i) ==
    /\ LET at(p) == Window(i)[p - L_buffer[i].offset + 1]
       IN  out' = [out EXCEPT ![i] = Append(@, <<at(First(i)), at(Second(i))>>)]
    /\ entry' = [entry EXCEPT ![i] = @ + 1]
    /\ Goto(i, "entry")
    /\ UNCHANGED job

\* The thread throws "input not sorted" when a position lies before its window.
InOrder(i) == First(i) >= L_buffer[i].offset

\* Both positions are in the window, or the left stream is copied from first.
BeginEntry(i) ==
    /\ mpc[i] = "entry" /\ entry[i] <= Len(Entries(i))
    /\ InOrder(i)
    /\ \/ Found(i) /\ LookedUp(i)
       \/ ~Found(i) /\ Goto(i, "copy") /\ UNCHANGED locals
    /\ UNCHANGED <<streams, left, L_input, L_is_end, R_is_end, L_buffer, pool>>

FollowsAlways(b, end) == TRUE
FollowsWindow(b, end) == b.offset >= end

\* The pass over L_input, element by element: the window after the first k
\* buffers, and those of them that were copied.
Pass(i) ==
    LET f[k \in 0 .. Len(L_input)] ==
          IF k = 0 THEN [new_pos |-> Window(i), copied |-> {}]
          ELSE LET b == L_input[k]
                   s == f[k - 1]
               IN  IF FollowsWindow(b, L_buffer[i].offset + Len(s.new_pos))
                   THEN [new_pos |-> s.new_pos \o b.new_pos, copied |-> s.copied \cup {k}]
                   ELSE s
    IN  f[Len(L_input)]

\* copy_sync saturates at M: the code only compares it with 0 and M, and a thread
\* spinning on an empty buffer counts it over and over.
Counted(b) == [b EXCEPT !.copy_sync = IF @ < M THEN @ + 1 ELSE M]

CopyWait(i) ==
    /\ mpc[i] = "copy"
    /\ Pass(i).copied = {} /\ ~L_is_end
    /\ Goto(i, "blocked")
    /\ UNCHANGED <<streams, left, L_input, L_is_end, R_is_end, L_buffer, locals, pool>>

Copy(i) ==
    LET pass == Pass(i) IN
    /\ mpc[i] = "copy"
    /\ pass.copied # {} \/ L_is_end
    /\ L_buffer' = [L_buffer EXCEPT ![i].new_pos = pass.new_pos]
    /\ L_input' = [k \in 1 .. Len(L_input) |->
                     IF k \in pass.copied THEN Counted(L_input[k])
                     ELSE L_input[k]]
    /\ Goto(i, "notify")
    /\ UNCHANGED <<streams, left, L_is_end, R_is_end, locals, pool>>

\* signal_1.notify_all(), made without the mutex
CopyNotify(i) ==
    /\ mpc[i] = "notify"
    /\ Signal1
    /\ Goto(i, "endcheck")
    /\ UNCHANGED <<streams, L_given, L_num_read, tmp, L_input, L_is_end, R_is_end, L_buffer, locals, pool>>

\* The loop's condition, and if(L_is_end) break: read without the mutex, after it
\* was released.  Outside of the window, breaking means to throw.
EndCheck(i) ==
    /\ mpc[i] = "endcheck"
    /\ \/ Found(i) /\ LookedUp(i)
       \/ /\ ~Found(i)
          /\ Goto(i, IF L_is_end THEN "outofbounds" ELSE "copy")
          /\ UNCHANGED locals
    /\ UNCHANGED <<streams, left, L_input, L_is_end, R_is_end, L_buffer, pool>>

\* All but the last looked up position of the window is dropped
LastSecond(i) ==
    IF Entries(i) = <<>> THEN 0 ELSE Last(Entries(i)).pos + Last(Entries(i)).off
LastFirst(i) == IF Entries(i) = <<>> THEN 0 ELSE Last(Entries(i)).pos

Shrink(i) ==
    /\ mpc[i] = "entry" /\ entry[i] > Len(Entries(i))
    /\ LET old == IF LastFirst(i) > L_buffer[i].offset THEN LastFirst(i) - L_buffer[i].offset ELSE 0
           count == IF old < Len(Window(i)) THEN old ELSE Len(Window(i))
       IN  L_buffer' = [L_buffer EXCEPT ![i] =
                          [offset |-> @.offset + count,
                           new_pos |-> SubSeq(@.new_pos, count + 1, Len(@.new_pos))]]
    /\ Goto(i, "turn")
    /\ UNCHANGED <<streams, left, L_input, L_is_end, R_is_end, locals, pool>>

\* x * (x - 1) / 2, divided before it is multiplied: both factors fit in 64 bits.
GetXEnc(x) == IF x % 2 = 0 THEN (x \div 2) * (x - 1) ELSE x * ((x - 1) \div 2)

SquareToLinePoint(x, y) == IF y > x THEN GetXEnc(y) + x ELSE GetXEnc(x) + y

\* The pool passes the result on when the jobs before were.
Deliver(i) ==
    /\ mpc[i] = "turn" /\ delivered + 1 = job[i]
    /\ merged' = merged \o [n \in DOMAIN out[i] |-> SquareToLinePoint(out[i][n][1], out[i][n][2])]
    /\ delivered' = delivered + 1
    /\ out' = [out EXCEPT ![i] = <<>>]
    /\ Goto(i, "idle")
    /\ UNCHANGED <<streams, left, L_input, L_is_end, R_is_end, given, job, entry, L_buffer>>

MergeStep(i) ==
    \/ BeginEntry(i) \/ CopyWait(i) \/ Copy(i) \/ CopyNotify(i)
    \/ EndCheck(i) \/ Shrink(i) \/ Deliver(i)

SpuriousWakeup ==
    \/ /\ lpc = "blocked"
       /\ lpc' = "append"
       /\ UNCHANGED <<streams, L_given, L_num_read, tmp, L_input, L_is_end, R_is_end, mpc, L_buffer, locals, pool>>
    \/ \E i \in Merge :
       /\ mpc[i] = "blocked"
       /\ Goto(i, "copy")
       /\ UNCHANGED <<streams, left, L_input, L_is_end, R_is_end, L_buffer, locals, pool>>

-----------------------------------------------------------------------------
Init ==
    /\ streams \in Streams
    /\ L_given = 0 /\ L_num_read = 0 /\ tmp = NoBuffer
    /\ L_input = <<>>
    /\ L_is_end = FALSE /\ R_is_end = FALSE
    /\ lpc = "idle"
    /\ mpc = [i \in Merge |-> "idle"]
    /\ given = 0 /\ delivered = 0
    /\ job = [i \in Merge |-> 0]
    /\ entry = [i \in Merge |-> 0]
    /\ L_buffer = [i \in Merge |-> [offset |-> 0, new_pos |-> <<>>]]
    /\ out = [i \in Merge |-> <<>>]
    /\ merged = <<>>

Next ==
    \/ LStep \/ RStep
    \/ \E i \in Merge : MergeStep(i)
    \/ SpuriousWakeup

Safety == Init /\ [][Next]_vars

\* Each thread goes on when it can; nothing relies on a spurious wakeup.
Spec ==
    /\ Safety
    /\ WF_vars(LStep) /\ WF_vars(RStep)
    /\ \A i \in Merge : WF_vars(MergeStep(i))

-----------------------------------------------------------------------------
(* Properties *)

Buffers == [offset : Nat, new_pos : Seq(Nat), copy_sync : Nat]

\* The type of every variable.
TypeOK ==
    /\ L_given \in 0 .. Len(Blocks) /\ L_num_read \in Nat
    /\ tmp = NoBuffer \/ tmp \in Buffers
    /\ L_input \in Seq(Buffers)
    /\ L_is_end \in BOOLEAN /\ R_is_end \in BOOLEAN
    /\ lpc \in {"idle", "append", "blocked", "notify"}
    /\ mpc \in [Merge -> {"idle", "entry", "copy", "blocked", "notify", "endcheck",
                          "turn", "outofbounds"}]
    /\ given \in 0 .. Len(Jobs) /\ delivered \in 0 .. Len(Jobs)
    /\ job \in [Merge -> 0 .. Len(Jobs)] /\ entry \in [Merge -> Nat]
    /\ L_buffer \in [Merge -> [offset : Nat, new_pos : Seq(Nat)]]
    /\ merged \in Seq(Nat)

\* The two positions a line point stands for, as Encoding::LinePointToSquare() finds
\* them again
LinePointToSquare(index) ==
    LET x == Max({n \in 0 .. index + 1 : GetXEnc(n) <= index})
    IN  {x, index - GetXEnc(x)}

LeftTable == FlattenSeq(Positions(Blocks))
RightTable == FlattenSeq(Jobs)

\* Each right entry becomes, in order, the line point of the new positions of its two
\* left entries, whatever the threads copy, drop and pop in between.
MergedIsExpected ==
    /\ Len(merged) <= Len(RightTable)
    /\ \A n \in DOMAIN merged : LET e == RightTable[n] IN
        LinePointToSquare(merged[n]) = {LeftTable[e.pos + 1], LeftTable[e.pos + e.off + 1]}

\* A buffer is popped only when no merge thread can need it any more: what
\* follows a thread's window is in L_input or still to come, so no window ever
\* has a hole.
NothingPoppedTooEarly ==
    LET appended == L_num_read - IF tmp = NoBuffer THEN 0 ELSE Len(tmp.new_pos) IN
    \A i \in Merge :
        WindowEnd(i) < appended =>
            \E k \in 1 .. Len(L_input) :
                L_input[k].offset = WindowEnd(i) /\ Len(L_input[k].new_pos) > 0

\* Position p is in one of the buffers that wait in L_input.
InInput(p) ==
    \E k \in 1 .. Len(L_input) :
        p \in L_input[k].offset .. L_input[k].offset + Len(L_input[k].new_pos) - 1

\* Jobs sorted by position never reach behind a thread's window ("input not
\* sorted" is not thrown).  And when a thread does find a position out of bounds,
\* nothing has been lost: the left stream has ended, and the position, if the left
\* table has it, is in L_input, where the thread would have found it.
FailsOnlyAtTheEnd ==
    \A i \in Merge :
        /\ mpc[i] = "entry" /\ entry[i] <= Len(Entries(i)) => InOrder(i)
        /\ mpc[i] = "outofbounds" =>
              /\ L_is_end
              /\ Second(i) < Len(LeftTable) => InInput(Second(i))

Failed == \E i \in Merge : mpc[i] = "outofbounds"

\* The two streams never wait for each other for ever: both end, or a merge
\* thread has thrown and the program with it.
BothStreamsEnd == <>(Failed \/ (L_is_end /\ R_is_end))

\* "position out of bounds" is for positions beyond the left table: right
\* entries point into it, so no merge thread ever throws it.
NeverOutOfBounds == \A i \in Merge : mpc[i] # "outofbounds"
=============================================================================
