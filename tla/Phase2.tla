------------------------------- MODULE Phase2 -------------------------------
(***************************************************************************)
(* Backpropagation: phase2::compute() and compute_table() of               *)
(* include/chia/phase2.hpp, with bitfield, bitfield_index and the file of  *)
(* table 7, a DiskTable.                                                   *)
(*                                                                         *)
(* From the last table to the second, the workers of a pool first mark the *)
(* entries of the table before that are used; then the table is rewritten  *)
(* without its own unused entries, and with positions that count only the  *)
(* used entries of the table before: map_pool looks them up, R_count       *)
(* numbers what is left, and R_out writes it, to a file or a DiskSort.     *)
(*                                                                         *)
(* DiskTable::read() passes the blocks of a table on in order, through a   *)
(* pool as module ThreadPool describes it, and changes nothing.  `at' is   *)
(* the place an entry had in phase 1; the code does not store it.  Of the  *)
(* entries of table 1 only the number matters.                             *)
(***************************************************************************)
EXTENDS Integers, SequencesExt

CONSTANTS
    LastTable,      \* 7
    BlockSize,      \* g_read_chunk_size
    Capacity,       \* g_write_chunk_size
    WordBits,       \* 64
    kIndexBucket,   \* 1024
    Workers,        \* of the pools "mark" and "remap"
    Adders          \* of the pool "add"

ASSUME BoundsAssumption ==
    /\ LastTable \in Nat /\ LastTable >= 2
    /\ {BlockSize, Capacity, WordBits, kIndexBucket, Workers, Adders} \subseteq Nat \ {0}
    /\ kIndexBucket % WordBits = 0

VARIABLES
    input,          \* input.table
    R_index,        \* the table that is worked on
    stage,          \* "waiting" for phase 1, "mark", "rewrite", or "done"
    curr_bitfield, next_bitfield,   \* sets of bits; R_used and L_used
    index,          \* index_: the bits before every kIndexBucket-th
    given,          \* blocks of the table given to a pool
    marking,        \* what each worker has still to mark of its block
    mapping,        \* the blocks in map_pool, in order
    counting,       \* the input of R_count
    num_written,
    writing,        \* the input of R_out
    sort,           \* what each DiskSort holds
    table_7         \* the DiskTable: its cache, the file and num_entries

pools == <<marking, mapping, counting, writing>>
output == <<sort, table_7>>
vars == <<input, R_index, stage, curr_bitfield, next_bitfield, index, given, pools,
          num_written, output>>

Worker == 0 .. Workers - 1
R_table == input[R_index]
max_table_size == Max({Len(input[i]) : i \in DOMAIN input})

-----------------------------------------------------------------------------
(* DiskTable *)

NumBlocks == (Len(R_table) + BlockSize - 1) \div BlockSize

\* Block number n of the table, from 0
Block(n) ==
    LET begin == n * BlockSize
        size == IF begin + BlockSize <= Len(R_table) THEN BlockSize ELSE Len(R_table) - begin
    IN  [k \in 1 .. size |->
            [at |-> begin + k - 1, pos |-> R_table[begin + k].pos, off |-> R_table[begin + k].off]]

Flush(t) ==
    [cache |-> <<>>, file |-> t.file \o t.cache, num_entries |-> t.num_entries + Len(t.cache)]

Write(t, e) ==
    LET u == IF Len(t.cache) >= Capacity THEN Flush(t) ELSE t
    IN  [u EXCEPT !.cache = Append(@, e)]

WriteAll(t, block) ==
    LET f[k \in 0 .. Len(block)] == IF k = 0 THEN t ELSE Write(f[k - 1], block[k])
    IN  f[Len(block)]

-----------------------------------------------------------------------------
(* bitfield_index, over the bits of a bitfield *)

Count(bits, start_bit, end_bit) == Cardinality({b \in bits : start_bit <= b /\ b < end_bit})

IndexSize ==
    LET words == (max_table_size + WordBits - 1) \div WordBits
    IN  (words * WordBits + kIndexBucket - 1) \div kIndexBucket
Index(bits) == [n \in 0 .. IndexSize - 1 |-> Count(bits, 0, n * kIndexBucket)]

Lookup(pos, off) ==
    LET bucket == pos \div kIndexBucket
        aligned_pos == (pos \div WordBits) * WordBits
        before == Count(next_bitfield, bucket * kIndexBucket, aligned_pos)
        pos_count == before + Count(next_bitfield, aligned_pos, pos)
        offset_count == before + Count(next_bitfield, aligned_pos, pos + off)
    IN  [pos |-> index[bucket] + pos_count, off |-> offset_count - pos_count]

-----------------------------------------------------------------------------
(* compute_table() *)

\* There is no R_used for the last table.
Used(e) == R_index = LastTable \/ e.at \in curr_bitfield

\* ThreadPool::take() waits for the worker whose turn it is.
GiveMark ==
    LET w == given % Workers IN
    /\ stage = "mark" /\ given < NumBlocks
    /\ marking[w] = <<>>
    /\ marking' = [marking EXCEPT ![w] = Block(given)]
    /\ given' = given + 1
    /\ UNCHANGED <<input, R_index, stage, curr_bitfield, next_bitfield, index,
                   mapping, counting, writing, num_written, output>>

\* bitfield::set() is atomic.
Mark(e) == IF Used(e) THEN {e.pos, e.pos + e.off} ELSE {}

MarkEntry(w) ==
    /\ marking[w] # <<>>
    /\ next_bitfield' = next_bitfield \cup Mark(Head(marking[w]))
    /\ marking' = [marking EXCEPT ![w] = Tail(@)]
    /\ UNCHANGED <<input, R_index, stage, curr_bitfield, index, given,
                   mapping, counting, writing, num_written, output>>

AllMarked == given = NumBlocks /\ \A w \in Worker : marking[w] = <<>>

\* The pool was closed, and the index is made of what it has marked.
EndMark ==
    /\ stage = "mark" /\ AllMarked
    /\ index' = Index(next_bitfield)
    /\ stage' = "rewrite"
    /\ given' = 0
    /\ UNCHANGED <<input, R_index, curr_bitfield, next_bitfield, pools, num_written, output>>

GiveRewrite ==
    /\ stage = "rewrite" /\ given < NumBlocks
    /\ Len(mapping) < Workers
    /\ mapping' = Append(mapping, [mapped |-> FALSE, entries |-> Block(given)])
    /\ given' = given + 1
    /\ UNCHANGED <<input, R_index, stage, curr_bitfield, next_bitfield, index,
                   marking, counting, writing, num_written, output>>

\* (Defects, here and below: a definition in the form a plausible slip in that
\* code would give it, just before the definition itself.)
MovedOnly(e) == [at |-> e.at, pos |-> Lookup(e.pos, e.off).pos, off |-> e.off]
Remapped(e) ==
    LET found == Lookup(e.pos, e.off) IN [at |-> e.at, pos |-> found.pos, off |-> found.off]

\* The used entries of a block, remapped
Mapped(block) ==
    LET f[k \in 0 .. Len(block)] ==
          IF k = 0 THEN <<>>
          ELSE IF Used(block[k]) THEN Append(f[k - 1], Remapped(block[k])) ELSE f[k - 1]
    IN  f[Len(block)]

MapBlock(n) ==
    /\ n \in DOMAIN mapping /\ ~mapping[n].mapped
    /\ mapping' = [mapping EXCEPT ![n] = [mapped |-> TRUE, entries |-> Mapped(@.entries)]]
    /\ UNCHANGED <<input, R_index, stage, curr_bitfield, next_bitfield, index, given,
                   marking, counting, writing, num_written, output>>

AnyMapped == {n \in DOMAIN mapping : mapping[n].mapped}
FirstMapped == {n \in DOMAIN mapping : n = 1 /\ mapping[n].mapped}

\* map_pool delivers in order, to R_count, a Thread: two inputs at most.
DeliverMapped ==
    /\ Len(counting) < 2
    /\ \E n \in FirstMapped :
        /\ counting' = Append(counting, mapping[n].entries)
        /\ mapping' = RemoveAt(mapping, n)
    /\ UNCHANGED <<input, R_index, stage, curr_bitfield, next_bitfield, index, given,
                   marking, writing, num_written, output>>

\* R_out is a Thread or a pool.
Room == IF R_index = LastTable THEN 2 ELSE Adders

\* set_sort_key(); an entry of the last table keeps its f7 as key, left out here.
Numbered(e, n) ==
    IF R_index = LastTable THEN e ELSE [key |-> n, at |-> e.at, pos |-> e.pos, off |-> e.off]

CountBlock ==
    /\ counting # <<>> /\ Len(writing) < Room
    /\ LET block == Head(counting) IN
       /\ writing' = Append(writing, [k \in DOMAIN block |-> Numbered(block[k], num_written + k - 1)])
       /\ num_written' = num_written + Len(block)
    /\ counting' = Tail(counting)
    /\ UNCHANGED <<input, R_index, stage, curr_bitfield, next_bitfield, index, given,
                   marking, mapping, output>>

\* R_write and R_add; the caches of the DiskSort are in module DiskSort.
WriteBlock(n) ==
    /\ n \in DOMAIN writing
    /\ IF R_index = LastTable
       THEN n = 1 /\ table_7' = WriteAll(table_7, writing[n]) /\ UNCHANGED sort
       ELSE sort' = [sort EXCEPT ![R_index] = @ \cup ToSet(writing[n])] /\ UNCHANGED table_7
    /\ writing' = RemoveAt(writing, n)
    /\ UNCHANGED <<input, R_index, stage, curr_bitfield, next_bitfield, index, given,
                   marking, mapping, counting, num_written>>

Rewritten == given = NumBlocks /\ mapping = <<>> /\ counting = <<>> /\ writing = <<>>

NotCleared(bits) == bits
Cleared(bits) == {}

\* The end of compute_table(), and the loop of compute(): what was marked as used
\* is the R_used of the table before, and its L_used is the other bitfield.
NextTable ==
    /\ stage = "rewrite" /\ Rewritten
    /\ table_7' = IF R_index = LastTable THEN Flush(table_7) ELSE table_7
    /\ IF R_index = 2
       THEN /\ stage' = "done"
            /\ UNCHANGED <<R_index, curr_bitfield, next_bitfield, given, num_written>>
       ELSE /\ stage' = "mark"
            /\ R_index' = R_index - 1
            /\ curr_bitfield' = next_bitfield
            /\ next_bitfield' = Cleared(curr_bitfield)
            /\ given' = 0 /\ num_written' = 0
    /\ UNCHANGED <<input, index, pools, sort>>

\* The beginning of compute(), with the tables that phase 1 has made
Start(tables) ==
    /\ stage = "waiting"
    /\ input' = tables
    /\ stage' = "mark"
    /\ UNCHANGED <<R_index, curr_bitfield, next_bitfield, index, given, pools, num_written, output>>

\* Every position of a table leads to an entry of the table before.
Linked(tables) ==
    /\ DOMAIN tables = 1 .. LastTable
    /\ \A i \in 1 .. LastTable : Len(tables[i]) \in Nat
    /\ \A i \in 2 .. LastTable : \A n \in 1 .. Len(tables[i]) : LET e == tables[i][n] IN
        e.pos \in Nat /\ e.off \in Nat /\ e.pos + e.off < Len(tables[i - 1])

Init ==
    /\ input = <<>>
    /\ R_index = LastTable /\ stage = "waiting"
    /\ curr_bitfield = {} /\ next_bitfield = {}
    /\ index = <<>>
    /\ given = 0 /\ num_written = 0
    /\ marking = [w \in Worker |-> <<>>]
    /\ mapping = <<>> /\ counting = <<>> /\ writing = <<>>
    /\ sort = [i \in 2 .. LastTable - 1 |-> {}]
    /\ table_7 = [cache |-> <<>>, file |-> <<>>, num_entries |-> 0]

MarkSome == \E w \in Worker : MarkEntry(w)
MapSome == \E n \in 1 .. Workers : MapBlock(n)
WriteSome == \E n \in 1 .. Adders + 2 : WriteBlock(n)

Next ==
    \/ GiveMark \/ MarkSome \/ EndMark
    \/ GiveRewrite \/ MapSome \/ DeliverMapped \/ CountBlock \/ WriteSome
    \/ NextTable

\* Backpropagation by itself, for phase 1 may have made any tables that are linked
Step == Next \/ \E tables : Linked(tables) /\ Start(tables)
Safety == Init /\ [][Step]_vars

-----------------------------------------------------------------------------
(* Properties *)

\* The entries of each table that lead to an entry of the last one
NeededOf(tables) ==
    LET f[i \in 1 .. LastTable] ==
          IF i = LastTable THEN 0 .. Len(tables[i]) - 1
          ELSE UNION {{tables[i + 1][p + 1].pos, tables[i + 1][p + 1].pos + tables[i + 1][p + 1].off} : p \in f[i + 1]}
    IN  f
Needed == NeededOf(input)
\* The place of one of them among them
Place(i, p) == Cardinality({q \in Needed[i] : q < p})

\* Exactly the entries that some entry of the last table needs are marked, when
\* the marks are used: the two bitfields take turns over all tables, and what was
\* marked two tables ago, or by an entry that is itself dropped, is not among them.
MarksAreExact == stage \in {"rewrite", "done"} => next_bitfield = Needed[R_index - 1]

Written(i) == IF i = LastTable THEN ToSet(SubSeq(table_7.file, 1, table_7.num_entries)) ELSE sort[i]

\* A rewritten table has every needed entry once; its key is its place among them
\* (table 7 stays in its order), and its pos and off lead to its old two
\* entries' places among those needed of the table before, although those places
\* are given by the index in one pass and by the counter of R_count in another.
PointersPreserved ==
    (stage = "mark" /\ given = 0) \/ stage = "done" =>
    \A i \in 2 .. LastTable : i > R_index \/ stage = "done" =>
        /\ {e.at : e \in Written(i)} = Needed[i] /\ Cardinality(Written(i)) = Cardinality(Needed[i])
        /\ \A e \in Written(i) : LET old == input[i][e.at + 1] IN
            /\ i < LastTable => e.key = Place(i, e.at)
            /\ {old.pos, old.pos + old.off} \subseteq Needed[i - 1]
            /\ e.pos = Place(i - 1, old.pos)
            /\ e.pos + e.off = Place(i - 1, old.pos + old.off)
        /\ i = LastTable => \A n \in 1 .. Len(table_7.file) : table_7.file[n].at = n - 1
=============================================================================
