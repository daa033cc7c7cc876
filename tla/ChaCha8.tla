------------------------------- MODULE ChaCha8 -------------------------------
(***************************************************************************)
(* The stream cipher of lib/chacha8.c, which makes the values of table 1:  *)
(* a context of sixteen words, and the blocks of sixteen words it yields.  *)
(* Words are sets of bits, see module Words, and have any width that is a  *)
(* multiple of four; a byte is a quarter of a word.                        *)
(***************************************************************************)
EXTENDS Words, SequencesExt

CONSTANTS
    ChaChaWord,     \* the width of a word: 32
    sigma, tau      \* the constants for long and for short keys, four words each

\* Word number n of a buffer
U8TO32_LITTLE(buf, n) == Trunc(Shr(buf, n * ChaChaWord), ChaChaWord)
\* The words of a block in memory
U32TO8_LITTLE(x) == UNION {Shl(x[i], i * ChaChaWord) : i \in DOMAIN x}

\* k is the key, iv the nonce, none if it is empty.
chacha8_keysetup(k, kbits, iv) ==
    [i \in 0 .. 15 |->
        CASE i \in 0 .. 3 -> (IF kbits = 256 THEN sigma ELSE tau)[i + 1]
          [] i \in 4 .. 7 -> U8TO32_LITTLE(k, i - 4)
          [] i \in 8 .. 11 -> U8TO32_LITTLE(k, IF kbits = 256 THEN i - 4 ELSE i - 8)
          [] i \in 12 .. 13 -> {}               \* the block's number, set later
          [] OTHER -> U8TO32_LITTLE(iv, i - 14)]

PLUS(v, w) == Plus(v, w, ChaChaWord)
ROTATE(v, c) == Rotl(v, c, ChaChaWord)

\* One half of QUARTERROUND
HalfRound(x, a, b, c, d, s, t) ==
    LET xa == PLUS(x[a], x[b])
        xd == ROTATE(Xor(x[d], xa), s)
        xc == PLUS(x[c], xd)
    IN  [x EXCEPT ![a] = xa, ![d] = xd, ![c] = xc, ![b] = ROTATE(Xor(@, xc), t)]
QUARTERROUND(x, r) ==
    HalfRound(HalfRound(x, r[1], r[2], r[3], r[4], 16, 12), r[1], r[2], r[3], r[4], 8, 7)

DoubleRound(x) ==
    FoldPieces(QUARTERROUND, x,
        <<<<0, 4, 8, 12>>, <<1, 5, 9, 13>>, <<2, 6, 10, 14>>, <<3, 7, 11, 15>>,
          <<0, 5, 10, 15>>, <<1, 6, 11, 12>>, <<2, 7, 8, 13>>, <<3, 4, 9, 14>>>>)

Block(j) ==
    LET x == FoldLeft(LAMBDA y, i : DoubleRound(y), j, <<8, 6, 4, 2>>)
    IN  [i \in 0 .. 15 |-> PLUS(x[i], j[i])]

\* The next block's number is in two words.
NoCarry(j) == [j EXCEPT ![12] = PLUS(@, {0})]
NextNumber(j) ==
    LET low == PLUS(j[12], {0})
    IN  [j EXCEPT ![12] = low, ![13] = IF low = {} THEN PLUS(@, {0}) ELSE @]

\* n_blocks blocks from number pos on
chacha8_get_keystream(ctx, pos, n_blocks) ==
    LET first == [ctx EXCEPT ![12] = Trunc(Word(pos), ChaChaWord), ![13] = Shr(Word(pos), ChaChaWord)]
        step(s, n) == [j |-> NextNumber(s.j),
                       out |-> Or(s.out, Shl(U32TO8_LITTLE(Block(s.j)), n * 16 * ChaChaWord))]
    IN  FoldLeft(step, [j |-> first, out |-> {}], [n \in 1 .. n_blocks |-> n - 1]).out
==============================================================================
