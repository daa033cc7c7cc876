------------------------------ MODULE MCTables ------------------------------
(* Tables of 32 entries with values of 7 bits, in buckets of 3 * 5 values    *)
(* and blocks of 32; words of 16 bits and bytes of 2, so that the meta data  *)
(* straddles words and bytes, and a batch of table 1 two blocks of the       *)
(* stream.  One plot keeps the size of its tables, so that some positions    *)
(* have no room; the other's last table has four entries.                    *)
(*                                                                         *)
(* Other behaviours check what the tables are kept in.  Records: numbers   *)
(* of all ones and of none next to each other, three entries through a     *)
(* cache of two, so that one is written over another.  Strings: numbers    *)
(* that end before, at and behind the end of a word of 16 bits, slices     *)
(* that begin at 0, in a word and at words.                                *)
EXTENDS Tables
LOCAL W == INSTANCE Words

Vectors == [t \in 0 .. 7 |-> <<0, 0, 1, 2, 4, 4, 3, 2>>[t + 1]]
Sigma == <<W!Word(101), W!Word(32), W!Word(51), W!Word(107)>>
Tau == <<W!Word(101), W!Word(32), W!Word(49), W!Word(107)>>

\* Some function in the place of blake3
Mixed(mem, num_bytes) ==
    LET h == FoldSet(LAMBDA p, a : (a + (p + 3) * (p + 3) * (p + 11) + ((p * 7919) % 101)) % 30011, num_bytes * 17, {p \in mem : p < num_bytes * ByteBits})
        bit(j) == ((((h * (2 * j + 37)) % 30011) + j * j) \div 4) % 2
    IN  {j \in 0 .. 4 * LongBits - 1 : bit(j) = 1}

SomeIds == {W!Word(n) : n \in {791, 1227}}

-----------------------------------------------------------------------------
VARIABLES part,                                                         \* of the three
    type, K34, cache, count, file, num_entries, out, written, entries,  \* see module Records
    text, s, mem, steps                                                 \* see module BitArray
records == <<type, K34, cache, count, file, num_entries, out, written, entries>>
strings == <<text, s, mem, steps>>

Ones(n) == 0 .. n - 1
Records == INSTANCE Records
    WITH Capacity <- 2, BlockSize <- 2, Patterns <- {{}, Ones(128)}, Garbage <- {Ones(128)}, MaxEntries <- 3
Strings == INSTANCE BitArray
    WITH WordBits <- LongBits, MaxSize <- 34, MaxSteps <- 5, Cuts <- {0, 5, 16, 33},
         Numbers <- {<<{1, 2}, 3>>, <<{0, 7, 15}, 16>>, <<{0, 5, 17}, 18>>}

ASSUME FilesFit == Records!BoundsFit /\ Strings!WidthsFit

MCInit ==
    /\ part \in {"tables", "records", "strings"}
    /\ TablesInit /\ (part # "tables" => id = W!Word(791))
    /\ Records!Init /\ (part # "records" => type = "entry_1" /\ ~K34)
    /\ Strings!Init

MCNext ==
    /\ \/ part = "tables" /\ TablesNext /\ UNCHANGED <<records, strings>>
       \/ part = "records" /\ Records!Next /\ UNCHANGED <<both, strings>>
       \/ part = "strings" /\ Strings!Next /\ UNCHANGED <<both, records>>
    /\ UNCHANGED part

MCSpec == MCInit /\ [][MCNext]_<<both, records, strings, part>>

\* Every record of a file is read back as it was written: see module Records.
RecordsReadBack == Records!RecordsReadBack

\* All representations of a string of bits, and all ways to read from them, agree:
\* see module BitArray.
BitsAgree == Strings!BitsAgree
=============================================================================
