---------------------------- MODULE FxCalculator ----------------------------
(***************************************************************************)
(* The functions f1 to f7 of include/chia/phase1.hpp: F1Calculator and     *)
(* FxCalculator, which make the entries of the tables.                     *)
(*                                                                         *)
(* An entry of table 1 is [y, x], one of a later table [y, pos, off, meta].*)
(* The meta data is memory as module Bits has it, a set of positions, and  *)
(* belongs to whole bytes.  blake3 is external: any function of its input. *)
(***************************************************************************)
EXTENDS Bits, ChaCha8

CONSTANTS
    k, kExtraBits,
    kVectorLens,    \* 0, 0, 1, 2, 4, 4, 3, 2: from 0 on
    LogBatch,       \* 4: compute_block() makes 16 entries at a time
    LastTable,      \* 7
    Hash(_, _)      \* blake3 of a number of bytes of memory, four words

kF1BlockSizeBits == 16 * ChaChaWord

-----------------------------------------------------------------------------
(* F1Calculator *)

\* The key begins with the table's number; the last byte of the id is not used.
EncKey(id) == Or({0}, Trunc(Shl(id, ByteBits), 8 * ChaChaWord))

\* The bytes of the stream in the order in which their bits are read
BytesOf(v) == {(b \div ByteBits) * ByteBits + (ByteBits - 1 - (b % ByteBits)) : b \in v}

\* (Defects, here and below: a definition in the form a plausible slip in that
\* code would give it, just before the definition itself.)
StartOfBatch(first_x) == 0
StartBit(first_x) == (first_x * k) % kF1BlockSizeBits

\* compute_block() throws if it takes more than four blocks of the stream.
BlocksFor(first_x, num_entries) ==
    cdiv((first_x + num_entries) * k, kF1BlockSizeBits) - ((first_x * k) \div kF1BlockSizeBits)
compute_block(id, first_x, num_entries) ==
    LET buf == BytesOf(chacha8_get_keystream(chacha8_keysetup(EncKey(id), 256, {}),
                                             (first_x * k) \div kF1BlockSizeBits,
                                             BlocksFor(first_x, num_entries)))
        y(x) == SliceInt64FromBytes(buf, StartBit(first_x) + (x - first_x) * k, k)
    IN  [n \in 1 .. num_entries |->
            LET x == first_x + n - 1 IN
            [y |-> Num(Or(Shl(y(x), kExtraBits), Shr(Word(x), k - kExtraBits))), x |-> x]]

-----------------------------------------------------------------------------
(* FxCalculator *)

\* Whole bytes of memory, as memcpy() takes them
Bytes(mem, n) == {p \in mem : p < n * ByteBits}

get_meta(t, entry) == IF t = 2 THEN write_bits({}, Word(entry.x), 0, k) ELSE entry.meta

\* What is hashed: y, then the meta data of both sides
Input(t, L, R) ==
    LET meta_bits == kVectorLens[t] * k
        y == write_bits({}, Word(L.y), 0, k + kExtraBits)
        both == append_bits(append_bits({}, get_meta(t, L), 0, meta_bits), get_meta(t, R), meta_bits, meta_bits)
    IN  IF t < 4 THEN append_bits(y, both, k + kExtraBits, 2 * meta_bits)
        ELSE append_bits(append_bits(y, get_meta(t, L), k + kExtraBits, meta_bits),
                         get_meta(t, R), k + kExtraBits + meta_bits, meta_bits)

\* Up to table 3 the meta data is that of both sides, later a part of the hash.
C(t, L, R, hash) ==
    LET meta_bits == kVectorLens[t] * k
    IN  CASE t < 4 -> append_bits(append_bits({}, get_meta(t, L), 0, meta_bits), get_meta(t, R), meta_bits, meta_bits)
          [] t \in 4 .. LastTable - 1 -> slice_bits({}, hash, k + kExtraBits, kVectorLens[t + 1] * k)
          [] OTHER -> {}
CBits(t) == IF t < 4 THEN 2 * kVectorLens[t] * k ELSE IF t < LastTable THEN kVectorLens[t + 1] * k ELSE 0

evaluate(t, L, R, pos, off) ==
    LET input_bits == k + kExtraBits + 2 * kVectorLens[t] * k
        hash == Hash(Input(t, L, R), cdiv(input_bits, ByteBits))
    IN  [y |-> Num(Shr(WordAt(hash, 0), WordBits - (k + (IF t < LastTable THEN kExtraBits ELSE 0)))),
         pos |-> pos, off |-> off,
         meta |-> Bytes(C(t, L, R, hash), cdiv(CBits(t), ByteBits))]
==============================================================================
