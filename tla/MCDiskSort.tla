----------------------------- MODULE MCDiskSort -----------------------------
(* Keys of five bits, four buckets of four blocks of two keys each.  The     *)
(* entries come from two workers, as in the phases, or from the owner, as in *)
(* test_disk_sort.cpp; some have equal keys, and a bucket stays empty, or    *)
(* all of them do.                                                           *)
EXTENDS DiskSort

E(k, i) == [key |-> k, id |-> i]
SomeEntries == {E(k, i) : k \in 0 .. 31, i \in 1 .. 7}

SomeWork ==
    {[own |-> <<>>, pool |-> <<>>],
     [own |-> <<E(26, 7), E(9, 1), E(0, 2), E(25, 3), E(31, 4), E(1, 5)>>, pool |-> <<>>],
     [own |-> <<>>,
      pool |-> <<<<E(9, 1), E(0, 2)>>, <<E(25, 3), E(31, 4)>>, <<E(1, 5)>>, <<E(9, 6), E(26, 7)>>>>],
     [own |-> <<>>,
      pool |-> <<<<E(2, 2), E(3, 3)>>, <<E(10, 4)>>, <<E(11, 5), E(2, 6)>>, <<E(18, 7)>>, <<>>>>]}
=============================================================================
