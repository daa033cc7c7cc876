------------------------------- MODULE Records -------------------------------
(***************************************************************************)
(* The records of the temporary files: the read() and write() of every     *)
(* entry type in include/chia/phase1.h, phase2.h and phase3.h, in the      *)
(* plain build and in the one with CHIA_K34, and the DiskTable             *)
(* (DiskTable.h, buffer.h) that keeps them in a file.                      *)
(*                                                                         *)
(* Fields share bytes, and share them with what was in the buffer before;  *)
(* read() copies a field's bytes over whatever the memory of the entry     *)
(* held.  Numbers and buffers are the sets of bits of module Words.        *)
(***************************************************************************)
EXTENDS Words, SequencesExt

CONSTANTS
    Capacity,       \* g_write_chunk_size
    BlockSize,      \* g_read_chunk_size
    Patterns,       \* sets of bits: the numbers to try
    Garbage,        \* sets of bits: what fresh memory may hold
    MaxEntries

BoundsFit == {Capacity, BlockSize} \subseteq Nat \ {0} /\ MaxEntries \in Nat

VARIABLES
    type, K34,      \* the entry type, and whether CHIA_K34 is defined
    cache, count,   \* the write buffer, with what is left in it of earlier entries
    file, num_entries,
    out,            \* file_out is open
    written,        \* history: the entries given to write()
    entries         \* what has been read
table == <<type, K34>>
cached == <<cache, count>>
vars == <<table, cached, file, num_entries, out, written, entries>>

KBYTES == IF K34 THEN 5 ELSE 4
KBITS == IF K34 THEN 34 ELSE 32         \* KMAX, the bits of x and f7
PosBits == IF K34 THEN 35 ELSE 32
uintkx == IF K34 THEN 64 ELSE 32
uintlp == IF K34 THEN 128 ELSE 64

\* The fields of each type: its bits in use, and the bits of its variable
Field(bits, width) == [bits |-> bits, width |-> width]
x == Field(KBITS, uintkx)
pos == Field(PosBits, uintkx)
off == Field(10, 16)
y == Field(KBITS + 6, 64)
Fields ==
    [entry_1 |-> [y |-> y, x |-> x],
     entry_xm |-> [y |-> y, pos |-> pos, off |-> off, meta |-> Field(8, 8)],
     entry_7 |-> [y |-> x, pos |-> pos, off |-> off],
     tmp_entry_1 |-> [x |-> x],
     tmp_entry_x |-> [pos |-> pos, off |-> off],
     entry_x |-> [key |-> pos, pos |-> pos, off |-> off],
     entry_lp |-> [point |-> Field(2 * KBITS - 1, uintlp), key |-> pos],
     entry_np |-> [key |-> pos, pos |-> pos]]

\* One byte of the metadata stands for all of them, which are copied as they are.
disk_size ==
    CASE type = "entry_1" -> 5 + KBYTES
      [] type = "entry_xm" -> IF K34 THEN 12 ELSE 11
      [] type = "entry_7" -> IF K34 THEN 11 ELSE 10
      [] type = "tmp_entry_1" -> KBYTES
      [] type = "tmp_entry_x" -> 6
      [] type = "entry_x" -> 10
      [] type = "entry_lp" -> IF K34 THEN 13 ELSE 12
      [] type = "entry_np" -> IF K34 THEN 9 ELSE 8

-----------------------------------------------------------------------------
(* write(): of entry e, over the bytes b *)

\* const auto tmp = (v << shift) | b[o]; memcpy(b + o, &tmp, n)
StoreOver(b, o, n, v, shift) == Store(b, o, n, Or(Shl(v, shift), Load({}, b, o, 1)))

write_entry_1(e, b) == Store(Store(b, 0, 5, e.y), 5, KBYTES, e.x)

write_entry_xm(e, b) ==
    LET b1 == Store(b, 0, 5, e.y) IN
    IF K34
    THEN Store(StoreOver(Store(b1, 5, 5, e.pos), 9, 2, e.off, 6), 11, 1, e.meta)
    ELSE LET b2 == Store(b1, 4, 1, Or(Trunc(Shl(e.off, 6), 8), Trunc(Load({}, b1, 4, 1), 6)))
         IN  Store(Store(Store(b2, 5, 1, Shr(e.off, 2)), 6, 4, e.pos), 10, 1, e.meta)

write_entry_7(e, b) ==
    IF K34 THEN Store(StoreOver(Store(b, 0, 5, e.y), 4, 5, e.pos, 4), 9, 2, e.off)
    ELSE Store(Store(Store(b, 0, 4, e.y), 4, 4, e.pos), 8, 2, e.off)

write_tmp_entry_1(e, b) == Store(b, 0, KBYTES, e.x)

\* (Defects, here and below: a definition in the form a plausible slip in that
\* code would give it, just before the definition itself.)
StaleByte(b) == b
ClearByte4(b) == IF KBYTES < 5 THEN Store(b, 4, 1, {}) ELSE b
write_tmp_entry_x(e, b) == StoreOver(ClearByte4(Store(b, 0, KBYTES, e.pos)), 4, 2, e.off, 6)

write_entry_x(e, b) ==
    IF K34 THEN StoreOver(StoreOver(Store(b, 0, 5, e.key), 4, 5, e.pos, 3), 8, 2, e.off, 6)
    ELSE Store(Store(Store(b, 0, 4, e.key), 4, 4, e.pos), 8, 2, e.off)

write_entry_lp(e, b) ==
    IF K34 THEN StoreOver(Store(b, 0, 9, e.point), 8, 5, e.key, 4)
    ELSE Store(Store(b, 0, 8, e.point), 8, 4, e.key)

write_entry_np(e, b) ==
    IF K34 THEN StoreOver(Store(b, 0, 5, e.key), 4, 5, e.pos, 4)
    ELSE Store(Store(b, 0, 4, e.key), 4, 4, e.pos)

Written(e, b) ==
    CASE type = "entry_1" -> write_entry_1(e, b)
      [] type = "entry_xm" -> write_entry_xm(e, b)
      [] type = "entry_7" -> write_entry_7(e, b)
      [] type = "tmp_entry_1" -> write_tmp_entry_1(e, b)
      [] type = "tmp_entry_x" -> write_tmp_entry_x(e, b)
      [] type = "entry_x" -> write_entry_x(e, b)
      [] type = "entry_lp" -> write_entry_lp(e, b)
      [] type = "entry_np" -> write_entry_np(e, b)

-----------------------------------------------------------------------------
(* read(): of the bytes b, into an entry whose memory holds e *)

read_entry_1(e, b) ==
    [y |-> Load({}, b, 0, 5),
     x |-> Load(IF uintkx > 8 * KBYTES THEN {} ELSE e.x, b, 5, KBYTES)]

Masked(v, n) == Trunc(v, n)

read_entry_xm(e, b) ==
    IF K34
    THEN [y |-> Load({}, b, 0, 5),
          pos |-> Masked(Load(e.pos, b, 5, 5), 38),
          off |-> Shr(Load(e.off, b, 9, 2), 6),
          meta |-> Load(e.meta, b, 11, 1)]
    ELSE [y |-> Masked(Load(e.y, b, 0, 5), 38),
          off |-> Or(Shr(Load({}, b, 4, 1), 6), Shl(Load({}, b, 5, 1), 2)),
          pos |-> Load(e.pos, b, 6, 4),
          meta |-> Load(e.meta, b, 10, 1)]

read_entry_7(e, b) ==
    IF K34 THEN [y |-> Masked(Load(e.y, b, 0, 5), 36),
                 pos |-> Masked(Shr(Load(e.pos, b, 4, 5), 4), 36),
                 off |-> Load(e.off, b, 9, 2)]
    ELSE [y |-> Load(e.y, b, 0, 4), pos |-> Load(e.pos, b, 4, 4), off |-> Load(e.off, b, 8, 2)]

read_tmp_entry_1(e, b) == [x |-> Load(IF uintkx > 8 * KBYTES THEN {} ELSE e.x, b, 0, KBYTES)]

read_tmp_entry_x(e, b) ==
    [pos |-> Masked(Load(e.pos, b, 0, KBYTES), 38), off |-> Shr(Load(e.off, b, 4, 2), 6)]

read_entry_x(e, b) ==
    IF K34 THEN [key |-> Masked(Load(e.key, b, 0, 5), 35),
                 pos |-> Masked(Shr(Load(e.pos, b, 4, 5), 3), 35),
                 off |-> Shr(Load(e.off, b, 8, 2), 6)]
    ELSE [key |-> Load(e.key, b, 0, 4), pos |-> Load(e.pos, b, 4, 4), off |-> Load(e.off, b, 8, 2)]

read_entry_lp(e, b) ==
    IF K34 THEN [point |-> Masked(Load(e.point, b, 0, 9), 68), key |-> Shr(Load({}, b, 8, 5), 4)]
    ELSE [point |-> Load(e.point, b, 0, 8), key |-> Load(e.key, b, 8, 4)]

read_entry_np(e, b) ==
    IF K34 THEN [key |-> Masked(Load(e.key, b, 0, 5), 36), pos |-> Shr(Load({}, b, 4, 5), 4)]
    ELSE [key |-> Load(e.key, b, 0, 4), pos |-> Load(e.pos, b, 4, 4)]

Read(e, b) ==
    CASE type = "entry_1" -> read_entry_1(e, b)
      [] type = "entry_xm" -> read_entry_xm(e, b)
      [] type = "entry_7" -> read_entry_7(e, b)
      [] type = "tmp_entry_1" -> read_tmp_entry_1(e, b)
      [] type = "tmp_entry_x" -> read_tmp_entry_x(e, b)
      [] type = "entry_x" -> read_entry_x(e, b)
      [] type = "entry_lp" -> read_entry_lp(e, b)
      [] type = "entry_np" -> read_entry_np(e, b)

-----------------------------------------------------------------------------
(* DiskTable *)

\* The number written to a field is one the phases can give it: as wide as the
\* field is used.  One field of an entry differs from the others.
Fit(f, p) == Trunc(p, Fields[type][f].bits)
Entries ==
    {[f \in DOMAIN Fields[type] |-> Fit(f, IF f = g THEN p ELSE q)] :
        g \in DOMAIN Fields[type], p \in Patterns, q \in Patterns}
\* The memory of an entry, as wide as its variables are
Memory == {[f \in DOMAIN Fields[type] |-> Trunc(p, Fields[type][f].width)] : p \in Garbage}

Flushed == file \o SubSeq(cache, 1, count)

\* write(), which flushes a full cache first; file_out is open.
Write(e) ==
    /\ out /\ Len(written) < MaxEntries
    /\ LET full == count >= Capacity
           slot == IF full THEN 1 ELSE count + 1
       IN
       /\ file' = IF full THEN Flushed ELSE file
       /\ num_entries' = IF full THEN num_entries + count ELSE num_entries
       /\ count' = slot
       /\ cache' = [cache EXCEPT ![slot] = Written(e, @)]
    /\ written' = Append(written, e)
    /\ UNCHANGED <<table, out, entries>>

Close ==
    /\ out
    /\ file' = Flushed /\ num_entries' = num_entries + count /\ count' = 0
    /\ out' = FALSE
    /\ UNCHANGED <<table, cache, written, entries>>

\* The next block of read(), in a pool that keeps the order: a full one, or what is
\* left over.  Its entries are new memory.
ReadBlock(m) ==
    /\ ~out /\ Len(entries) < num_entries
    /\ LET offset == Len(entries)
           size == Min({BlockSize, num_entries - offset})
       IN  entries' = entries \o [k \in 1 .. size |-> Read(m, file[offset + k])]
    /\ UNCHANGED <<table, cached, file, num_entries, out, written>>

\* operator new[] gives the cache's memory as it is.
Init ==
    /\ K34 \in BOOLEAN /\ type \in DOMAIN Fields
    /\ \E p \in Garbage : cache = [n \in 1 .. Capacity |-> Trunc(p, 8 * disk_size)]
    /\ count = 0 /\ file = <<>> /\ num_entries = 0 /\ out = TRUE
    /\ written = <<>> /\ entries = <<>>

WriteSome == \E e \in Entries : Write(e)
ReadSome == \E m \in Memory : ReadBlock(m)
Next == WriteSome \/ Close \/ ReadSome

Spec == Init /\ [][Next]_vars

-----------------------------------------------------------------------------
(* Properties *)

\* What is read back is what was written, in order: every field with all of its
\* bits and none of its neighbours', of an entry before it in the same buffer, or
\* of the memory it is read into, in both builds.
RecordsReadBack ==
    ~out => /\ entries = SubSeq(written, 1, Len(entries))
            /\ num_entries = Len(written)
==============================================================================
