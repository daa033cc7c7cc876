-------------------------------- MODULE Bits --------------------------------
(***************************************************************************)
(* Strings of bits in arrays of words: BitsGeneric and the functions       *)
(* behind it in include/chia/bits.hpp, the slicing of byte buffers in      *)
(* include/chia/util.hpp.                                                  *)
(*                                                                         *)
(* A BitsGeneric is a record [values, last_size].  Its words are filled    *)
(* one after another, the first bit of the string highest; the last word   *)
(* holds last_size bits, at its low end.  What write_bits() and ToBytes()  *)
(* fill is memory in the order of its bytes: a set of positions, counted   *)
(* from the highest bit of the first byte.                                 *)
(***************************************************************************)
EXTENDS Words, SequencesExt

CONSTANTS
    WordBits,       \* 64
    ByteBits        \* 8

WidthsFit == ByteBits \in Nat \ {0} /\ WordBits = 8 * ByteBits

cdiv(a, b) == (a + b - 1) \div b
ByteAlign(num_bits) == num_bits + ((ByteBits - (num_bits % ByteBits)) % ByteBits)

\* Word number n of the memory, as bswap_64() of it gives it; and back
WordAt(mem, n) == {WordBits - 1 - (p - n * WordBits) : p \in {q \in mem : q \div WordBits = n}}
AsMemory(v, n) == {n * WordBits + WordBits - 1 - b : b \in v}

GetSizeBits(v) == IF v = {} THEN 0 ELSE Max(v) + 1

-----------------------------------------------------------------------------
(* BitsGeneric *)

NoBits == [values |-> <<>>, last_size |-> 0]
GetSize(s) == IF s.values = <<>> THEN 0 ELSE (Len(s.values) - 1) * WordBits + s.last_size

SplitNumberByPrefix(v, num_bits, prefix_size) ==
    [prefix |-> Shr(v, num_bits - prefix_size), suffix |-> Trunc(v, num_bits - prefix_size)]

Filled(w, v, length) == Trunc(Or(Shl(w, length), v), WordBits)

\* AppendValue() and DoAppendValue(), for a value of at most WordBits bits
AppendValue(s, v, length) ==
    LET free_bits == WordBits - s.last_size
        n == Len(s.values)
        split == SplitNumberByPrefix(v, length, free_bits)
    IN  IF n = 0 \/ s.last_size = WordBits
        THEN [values |-> Append(s.values, v), last_size |-> length]
        ELSE IF length <= free_bits
        THEN [values |-> [s.values EXCEPT ![n] = Filled(@, v, length)],
              last_size |-> s.last_size + length]
        ELSE [values |-> Append([s.values EXCEPT ![n] = Filled(@, split.prefix, free_bits)], split.suffix),
              last_size |-> length - free_bits]

\* The constructor from a number of up to two words, size bits long
FromNumber(v, size) ==
    IF size > WordBits
    THEN AppendValue([values |-> <<Shr(v, WordBits)>>, last_size |-> size - WordBits],
                     Trunc(v, WordBits), WordBits)
    ELSE [values |-> <<v>>, last_size |-> size]

\* operator+= and operator+; the constructor that puts zeros in front
Plused(s, t) ==
    LET n == Len(t.values) IN
    FoldLeftDomain(LAMBDA r, i : AppendValue(r, t.values[i], IF i = n THEN t.last_size ELSE WordBits),
                   s, t.values)
Zeros(size) ==
    LET full == FoldLeft(LAMBDA r, i : AppendValue(r, {}, WordBits), NoBits, [i \in 1 .. size \div WordBits |-> i])
    IN  IF size % WordBits = 0 THEN full ELSE AppendValue(full, {}, size % WordBits)
Extended(s, size) == Plused(Zeros(size - GetSize(s)), s)

\* The constructor from num_bytes bytes of memory
FromBytes(mem, num_bytes, size) ==
    LET width(i) == IF (i + 1) * WordBits <= num_bytes * ByteBits THEN WordBits ELSE (num_bytes * ByteBits) % WordBits
        words == [i \in 1 .. cdiv(num_bytes * ByteBits, WordBits) |-> Shr(WordAt(mem, i - 1), WordBits - width(i - 1))]
    IN  FoldLeftDomain(LAMBDA r, i : AppendValue(r, words[i], width(i - 1)),
                       Zeros(Max({size - num_bytes * ByteBits, 0})), words)

\* (Defects, here and below: a definition in the form a plausible slip in that
\* code would give it, just before the definition itself.)
FullBucket(s, i) == WordBits
BucketSize(s, i) == IF i = Len(s.values) - 1 THEN s.last_size ELSE WordBits

\* Slice() of [start_index, end_index); words are numbered from 0 here.
Slice(s, start_index, end) ==
    LET end_index == Min({end, GetSize(s)})
        first == start_index \div WordBits
        last == end_index \div WordBits
        from == start_index % WordBits
        to == end_index % WordBits
        word(i) == s.values[i + 1]
        head == AppendValue(NoBits, SplitNumberByPrefix(word(first), WordBits, from).suffix, WordBits - from)
        middle == FoldLeft(LAMBDA r, v : AppendValue(r, v, WordBits), head, SubSeq(s.values, first + 2, last))
        size == BucketSize(s, first)
    IN  IF end_index = start_index THEN NoBits
        ELSE IF first = last
        THEN FromNumber(Shr(IF from = 0 THEN word(first) ELSE Trunc(word(first), size - from), size - to), to - from)
        ELSE IF to = 0 THEN middle
        ELSE AppendValue(middle, SplitNumberByPrefix(word(last), BucketSize(s, last), to).prefix, to)

\* SliceBitsToInt(): at most two neighbouring words
SliceBitsToInt(s, start_index, end_index) ==
    LET first == start_index \div WordBits
        last == end_index \div WordBits
        from == start_index % WordBits
        to == end_index % WordBits
        suffix == SplitNumberByPrefix(s.values[first + 1], WordBits, from).suffix
    IN  IF first = last
        THEN Trunc(Shr(s.values[first + 1], BucketSize(s, first) - to), to - from)
        ELSE IF to = 0 THEN suffix
        ELSE Or(Shl(suffix, to), SplitNumberByPrefix(s.values[last + 1], BucketSize(s, last), to).prefix)

\* operator< of two strings of the same size
LessBits(s, t) ==
    \E i \in DOMAIN s.values :
        /\ Less(s.values[i], t.values[i])
        /\ \A j \in 1 .. i - 1 : s.values[j] = t.values[j]

\* ToBytes(): the last word is written in whole bytes, up to its last bit.
ToBytes(s) ==
    UNION {LET v == s.values[n]
               aligned == IF n = Len(s.values) THEN Shl(v, WordBits - s.last_size) ELSE v
           IN  AsMemory(Trunc(aligned, WordBits), n - 1) : n \in DOMAIN s.values}

-----------------------------------------------------------------------------
(* write_bits(), append_bits(), slice_bits(): on zeroed memory, which they or into.
   Their result, the offset behind what was written, is left to the caller. *)

write_bits(mem, v, bit_offset, num_bits) ==
    LET free_bits == WordBits - (bit_offset % WordBits)
        n == bit_offset \div WordBits
        suffix_size == num_bits - free_bits
    IN  IF free_bits >= num_bits
        THEN mem \cup AsMemory(Trunc(Shl(v, free_bits - num_bits), WordBits), n)
        ELSE mem \cup AsMemory(Shr(v, suffix_size), n)
                 \cup AsMemory(Shl(Trunc(v, suffix_size), WordBits - suffix_size), n + 1)

TopOfWord(v, bits) == Shr(v, WordBits - bits)
append_bits(mem, src, bit_offset, num_bits) ==
    LET bits(i) == Min({WordBits, num_bits - i * WordBits})
        step(m, i) == write_bits(m, TopOfWord(WordAt(src, i), bits(i)), bit_offset + i * WordBits, bits(i))
    IN  FoldLeft(step, mem, [i \in 1 .. cdiv(num_bits, WordBits) |-> i - 1])

\* The pieces end where words of src end.
slice_bits(mem, src, bit_offset, num_bits) ==
    LET end == bit_offset + num_bits
        from(i) == Max({bit_offset, i * WordBits})
        to(i) == Min({end, (i + 1) * WordBits})
        piece(i) == Shr(Trunc(Shl(WordAt(src, i), from(i) % WordBits), WordBits), WordBits - (to(i) - from(i)))
        step(m, i) == write_bits(m, piece(i), from(i) - bit_offset, to(i) - from(i))
        first == bit_offset \div WordBits
    IN  FoldLeft(step, mem, [i \in 1 .. cdiv(end, WordBits) - first |-> first + i - 1])

\* Util::SliceInt64FromBytes(): one unaligned word is read.
SliceInt64FromBytes(mem, start_bit, num_bits) ==
    LET far == start_bit + num_bits > WordBits
        bytes == IF far THEN start_bit \div ByteBits ELSE 0
        skip == IF far THEN start_bit % ByteBits ELSE start_bit
        tmp == WordAt({p - bytes * ByteBits : p \in {q \in mem : q >= bytes * ByteBits}}, 0)
    IN  Shr(Trunc(Shl(tmp, skip), WordBits), WordBits - num_bits)

\* SliceInt64FromBytesFull() and SliceInt128FromBytes(): what did not fit in the word
SliceInt64FromBytesFull(mem, start_bit, num_bits) ==
    LET last_bit == start_bit + num_bits
        byte == Shr(WordAt({p - (last_bit \div ByteBits) * ByteBits :
                              p \in {q \in mem : q \div ByteBits = last_bit \div ByteBits}}, 0),
                    WordBits - ByteBits)
        r == SliceInt64FromBytes(mem, start_bit, num_bits)
    IN  IF (start_bit % ByteBits) + num_bits > WordBits
        THEN Or(r, Shr(byte, ByteBits - (last_bit % ByteBits))) ELSE r
SliceInt128FromBytes(mem, start_bit, num_bits) ==
    IF num_bits <= WordBits THEN SliceInt64FromBytesFull(mem, start_bit, num_bits)
    ELSE Or(Shl(SliceInt64FromBytesFull(mem, start_bit, num_bits - WordBits), WordBits),
            SliceInt64FromBytesFull(mem, start_bit + num_bits - WordBits, WordBits))
==============================================================================
