------------------------------- MODULE Sorter -------------------------------
(***************************************************************************)
(* What DiskSort (include/chia/DiskSort.h) promises to the phases of the   *)
(* plotter, without buckets, caches, files or threads: entries are added,  *)
(* the set is sealed by finish(), and read() then emits every entry once,  *)
(* in runs of ascending keys.                                              *)
(***************************************************************************)
EXTENDS SequencesExt

CONSTANTS
    Entry       \* the entries that can be added, records with a field `key'

VARIABLES
    content,    \* the entries added so far
    sealed,     \* finish() was called
    emitted     \* the entries read so far, in order

vars == <<content, sealed, emitted>>

Init == content = {} /\ sealed = FALSE /\ emitted = <<>>

Add(e) ==
    /\ ~sealed
    /\ e \notin content
    /\ content' = content \cup {e}
    /\ UNCHANGED <<sealed, emitted>>

Seal ==
    /\ ~sealed
    /\ sealed' = TRUE
    /\ UNCHANGED <<content, emitted>>

Left == content \ ToSet(emitted)
Ascending(s) == \A i, j \in 1 .. Len(s) : i < j => s[i].key <= s[j].key

\* The next run: some of the smallest entries left, in an order their keys allow.
Emit ==
    /\ sealed
    /\ IsStrictPrefix(emitted, emitted')
    /\ Ascending(emitted')
    /\ IsInjective(emitted')
    /\ ToSet(emitted') \subseteq content
    /\ \A e \in ToSet(emitted'), f \in content \ ToSet(emitted') : e.key <= f.key
    /\ UNCHANGED <<content, sealed>>

Next == (\E e \in Entry : Add(e)) \/ Seal \/ Emit

Safety == Init /\ [][Next]_vars

\* Once the set is sealed, all of it is emitted.
Spec == Safety /\ (sealed ~> Left = {})
=============================================================================
