------------------------------ MODULE BitArray ------------------------------
(***************************************************************************)
(* A string of bits built by the functions of module Bits, three times:    *)
(* as a BitsGeneric, by write_bits() and append_bits() in zeroed memory,   *)
(* and as the sequence of bits it stands for.                              *)
(***************************************************************************)
EXTENDS Bits

CONSTANTS
    Numbers,        \* pairs <<v, n>>: a number and its length
    Cuts,           \* where slices begin and end
    MaxSize, MaxSteps

VARIABLES
    text,           \* history: the bits, first one first
    s,              \* the BitsGeneric
    mem,            \* the memory
    steps           \* history: how many there were
vars == <<text, s, mem, steps>>

Digits(v, n) == [i \in 1 .. n |-> IF n - i \in v THEN 1 ELSE 0]
Value(t) == {Len(t) - i : i \in {j \in DOMAIN t : t[j] = 1}}

AppendNumber(v, n) ==
    /\ Len(text) + n <= MaxSize
    /\ text' = text \o Digits(v, n)
    /\ IF n <= WordBits
       THEN s' = AppendValue(s, v, n) /\ mem' = write_bits(mem, v, Len(text), n)
       ELSE LET number == FromNumber(v, n) IN
            s' = Plused(s, number) /\ mem' = append_bits(mem, ToBytes(number), Len(text), n)

TakeSlice(from, to) ==
    /\ text' = SubSeq(text, from + 1, to)
    /\ s' = Slice(s, from, to)
    /\ mem' = slice_bits({}, mem, from, to - from)

\* Zeros in front: by the copying constructor, or from the bytes
Extend(n) ==
    /\ Len(text) + n <= MaxSize
    /\ text' = [i \in 1 .. n |-> 0] \o text
    /\ s' = IF Len(text) % ByteBits = 0
            THEN FromBytes(mem, Len(text) \div ByteBits, Len(text) + n)
            ELSE Extended(s, Len(text) + n)
    /\ mem' = append_bits({}, mem, n, Len(text))

Init == text = <<>> /\ s = NoBits /\ mem = {} /\ steps = 0
AppendSome == \E p \in Numbers : AppendNumber(p[1], p[2])
SliceSome == \E from, to \in Cuts \cap (0 .. Len(text)) : from < to /\ TakeSlice(from, to)
ExtendSome == \E n \in {1, WordBits} : Extend(n)
Next ==
    /\ steps < MaxSteps /\ steps' = steps + 1
    /\ AppendSome \/ SliceSome \/ ExtendSome

Spec == Init /\ [][Next]_vars

-----------------------------------------------------------------------------
(* Properties *)

\* Every way to read a number out of a string reads the bits of that slice, up to
\* the two words that SliceInt128FromBytes() can cover, whatever follows them.
SlicesAreRead ==
    \A from, to \in 0 .. Len(text) :
        LET v == Value(SubSeq(text, from + 1, to))
            n == to - from
        IN  from < to =>
            /\ from \div WordBits = to \div WordBits => SliceBitsToInt(s, from, to) = v
            /\ to \div WordBits = from \div WordBits + 1 /\ n <= WordBits => SliceBitsToInt(s, from, to) = v
            /\ (from % ByteBits) + n <= WordBits => SliceInt64FromBytes(mem, from, n) = v
            /\ n <= 2 * WordBits => SliceInt128FromBytes(mem, from, n) = v

\* However a string was put together and cut, by words of numbers that straddle
\* them, by slices that begin and end anywhere: both representations hold its bits
\* and no others, so that what follows can be or'ed in, and numbers are read out of
\* it as they went in (bits.hpp:108-612, util.hpp:188-274).
BitsAgree ==
    /\ GetSize(s) = Len(text)
    /\ ToBytes(s) = {i - 1 : i \in {j \in DOMAIN text : text[j] = 1}}
    /\ mem = ToBytes(s)
    /\ \A n \in DOMAIN s.values : s.values[n] \subseteq Ones(BucketSize(s, n - 1))
    /\ SlicesAreRead
==============================================================================
