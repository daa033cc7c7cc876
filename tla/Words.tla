-------------------------------- MODULE Words --------------------------------
(***************************************************************************)
(* Unsigned integers and memory of the code, as the sets of the bits that  *)
(* are one: bit 0 is the lowest.  A byte buffer is the little-endian       *)
(* number it holds, so bit i of byte n is the bit 8 * n + i, and memcpy()  *)
(* moves bits.  This is exact for every width, and TLC's own integers have *)
(* 32 bits only.                                                           *)
(***************************************************************************)
EXTENDS Integers, SequencesExt, TLC

\* The same function, and the same set, that TLC computes at once: an expression
\* nested in others is otherwise evaluated at every use of its value.
Tabulated(f) == f @@ <<>>
Listed(S) == {b : b \in S}

\* FoldLeft(op, v, seq) of a long sequence, as a fold of the folds of its pieces: the
\* value before a piece is there before the piece begins, so TLC does not evaluate all
\* of the steps inside each other.
FoldPieces(op(_, _), v, seq) ==
    LET piece(n) == SubSeq(seq, 8 * n + 1, Min({8 * n + 8, Len(seq)}))
        through(w, n) == CHOOSE u \in {FoldLeft(op, t, piece(n)) : t \in {w}} : TRUE
    IN  FoldLeft(through, v, [n \in 1 .. (Len(seq) + 7) \div 8 |-> n - 1])

Ones(n) == 0 .. n - 1                           \* (1 << n) - 1
Trunc(v, n) == {b \in v : b < n}                \* v & Ones(n): a conversion to n bits
Shl(v, n) == {b + n : b \in v}
Shr(v, n) == {b - n : b \in {c \in v : c >= n}}
Or(v, w) == Listed(v \cup w)
Xor(v, w) == Listed(SymDiff(v, w))

\* Addition modulo 2^n: the carries out of all positions, lowest first
Plus(v, w, n) ==
    LET carry[b \in 0 .. n] ==
            /\ b > 0
            /\ \/ b - 1 \in v /\ b - 1 \in w
               \/ b - 1 \in v \cup w /\ carry[b - 1]
    IN  {b \in Ones(n) : ((b \in v) # (b \in w)) # carry[b]}

Rotl(v, s, n) == {(b + s) % n : b \in v}

Num(v) ==
    LET num[b \in 0 .. 31] == IF b = 31 THEN 0 ELSE 2 * num[b + 1] + (IF b \in v THEN 1 ELSE 0)
    IN  num[0]
Word(n) == {b \in 0 .. 30 : (n \div 2 ^ b) % 2 = 1}

\* Comparison of two numbers: the highest bit in which they differ decides.
Less(v, w) == v # w /\ Max(Xor(v, w)) \in w

\* The order of the bytes of a word reversed
Bswap(v, bytes, byte) == {(bytes - 1 - (b \div byte)) * byte + (b % byte) : b \in v}

\* memcpy(&v, buf + o, n) and memcpy(buf + o, &v, n): bits beyond are kept.
Load(v, buf, o, n) == Or(v \ Ones(8 * n), Trunc(Shr(buf, 8 * o), 8 * n))
Store(buf, o, n, v) == Or({b \in buf : b \div 8 \notin o .. o + n - 1}, Shl(Trunc(v, 8 * n), 8 * o))
==============================================================================
