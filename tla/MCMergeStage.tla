---------------------------- MODULE MCMergeStage ----------------------------
(* Two merge threads.  The left table has four used entries in five blocks,  *)
(* one of which the filter drops; their new positions are in no order.  The  *)
(* right table is every table of three entries sorted by position, in four   *)
(* jobs one of which is empty.  Each thread has an entry, and one a second   *)
(* job after it, so that both copy, wait for one another's buffers and drop  *)
(* what is behind them, and buffers both have copied are popped.             *)
EXTENDS MergeStage

U(p) == [used |-> TRUE, new_pos |-> p]
Unused == [used |-> FALSE, new_pos |-> 7]

Entry4 == {e \in [pos : 0 .. 2, off : 1 .. 3] : e.pos + e.off <= 3}
Sorted3 == {s \in [1 .. 3 -> Entry4] : s[1].pos <= s[2].pos /\ s[2].pos <= s[3].pos}

SmallStreams ==
    {[left |-> <<<<U(3)>>, <<Unused>>, <<U(0), Unused>>, <<U(4)>>, <<Unused, U(1)>>>>,
      jobs |-> <<<<s[1]>>, <<s[2]>>, <<>>, <<s[3]>>>>] : s \in Sorted3}

\* Four left buffers of one position; the right table needs each of them.
LongStreams ==
    {[left |-> <<<<U(2)>>, <<U(0)>>, <<U(3)>>, <<U(1)>>>>,
      jobs |-> [k \in 1 .. 3 |-> <<[pos |-> k - 1, off |-> 1]>>]]}
=============================================================================
