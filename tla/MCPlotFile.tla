----------------------------- MODULE MCPlotFile -----------------------------
(* Tables of up to twelve entries in blocks of various sizes; positions end   *)
(* at eleven, so that the last entry of the longest has none.  Parks of four  *)
(* entries, checkpoints of five, two of them to an entry of C2: parks and     *)
(* intervals end full, begin with one entry, or both.                         *)
EXTENDS PlotFile

E(k, p) == [key |-> k, point |-> p]
Twelve ==
    <<E(7, 2), E(4, 3), E(4, 8), E(11, 9), E(2, 12), E(14, 20), E(9, 21), E(18, 25),
      E(15, 26), E(12, 30), E(0, 31), E(1, 40)>>

\* The first n entries, cut into blocks of the given size
Blocks(n, size) ==
    [b \in 1 .. cdiv(n, size) |-> SubSeq(Twelve, (b - 1) * size + 1, IF b * size < n THEN b * size ELSE n)]

SomeInputs == {Blocks(n, size) : n \in {0, 1, 4, 5, 8, 9, 12}, size \in {2, 4, 5}}
=============================================================================
