------------------------------- MODULE XXHash -------------------------------
(***************************************************************************)
(* The checksums of lib/FSE/programs/xxhash.c: XXH32() and XXH64() of one  *)
(* buffer, and the same hash of a stream that arrives in pieces.  Words    *)
(* and buffers are the sets of bits of module Words, lengths are numbers.  *)
(* Both hashes have one shape; a record of constants says which it is.     *)
(***************************************************************************)
EXTENDS Words, SequencesExt

\* The product modulo 2^n: how many partial products meet in each column, and the
\* sums of four columns each, with what is carried from the four before.
Mul(v, w, n) ==
    LET column == Tabulated([k \in Ones(n) |-> Cardinality({i \in v : k - i \in w})])
        sum[q \in Ones(n \div 4)] ==
            column[4 * q] + 2 * column[4 * q + 1] + 4 * column[4 * q + 2] + 8 * column[4 * q + 3]
            + (IF q = 0 THEN 0 ELSE sum[q - 1] \div 16)
    IN  IF v = {} THEN {} ELSE {k \in Ones(n) : (sum[k \div 4] \div 2 ^ (k % 4)) % 2 = 1}

Neg(v, n) == Plus(Ones(n) \ v, {0}, n)

\* A constant, from its digits to the base 2^16, lowest first
Number(halves) == UNION {Shl(Word(halves[i]), 16 * (i - 1)) : i \in DOMAIN halves}

X32 == [lane |-> 4, bits |-> 32, rotation |-> 13,
        P |-> <<Number(<<31153, 40503>>), Number(<<51831, 34283>>), Number(<<44605, 49842>>),
                Number(<<60207, 10196>>), Number(<<26545, 5718>>)>>]
X64 == [lane |-> 8, bits |-> 64, rotation |-> 31,
        P |-> <<Number(<<51847, 34283, 31153, 40503>>), Number(<<60239, 10196, 44605, 49842>>),
                Number(<<31225, 40503, 26545, 5718>>), Number(<<44643, 49842, 51831, 34283>>),
                Number(<<26565, 5718, 60207, 10196>>)>>]
STRIPE(x) == 4 * x.lane

add(x, v, w) == Plus(v, w, x.bits)
mul(x, v, i) == Mul(v, x.P[i], x.bits)
rotl(x, v, r) == Rotl(v, r, x.bits)
read(buf, o, n) == Load({}, buf, o, n)

-----------------------------------------------------------------------------
(* The steps of both *)

\* XXH32_round(), XXH64_round()
XXH_round(x, acc, input) == mul(x, rotl(x, add(x, acc, mul(x, input, 2)), x.rotation), 1)
XXH64_mergeRound(acc, val) == add(X64, mul(X64, Xor(acc, XXH_round(X64, {}, val)), 1), X64.P[4])

\* The four lanes at the start, and after n stripes of a buffer from o on
Lanes(x, seed) ==
    <<add(x, add(x, seed, x.P[1]), x.P[2]), add(x, seed, x.P[2]), seed, add(x, seed, Neg(x.P[1], x.bits))>>
Stripes(x, lanes, buf, o, n) ==
    FoldLeft(LAMBDA v, i : [j \in 1 .. 4 |-> XXH_round(x, v[j], read(buf, o + i * STRIPE(x) + (j - 1) * x.lane, x.lane))],
             lanes, [i \in 1 .. n |-> i - 1])

\* What the lanes become in the end, of an input of at least a stripe
Converged(x, v) ==
    LET h == add(x, add(x, rotl(x, v[1], 1), rotl(x, v[2], 7)), add(x, rotl(x, v[3], 12), rotl(x, v[4], 18))) IN
    IF x = X32 THEN h ELSE FoldLeft(XXH64_mergeRound, h, v)

\* The rest of the input, of less than a stripe: whole lanes, a half of one, bytes
Whole32(h, k) == mul(X32, rotl(X32, add(X32, h, mul(X32, k, 3)), 17), 4)
Byte32(h, k) == mul(X32, rotl(X32, add(X32, h, mul(X32, k, 5)), 11), 1)
Whole64(h, k) == add(X64, mul(X64, rotl(X64, Xor(h, XXH_round(X64, {}, k)), 27), 1), X64.P[4])
Half64(h, k) == add(X64, mul(X64, rotl(X64, Xor(h, mul(X64, k, 1)), 23), 2), X64.P[3])
Byte64(h, k) == mul(X64, rotl(X64, Xor(h, mul(X64, k, 5)), 11), 1)
Rest(x, h, buf, o, len) ==
    LET whole == len \div x.lane
        half == IF x = X64 THEN (len % x.lane) \div 4 ELSE 0
        done == whole * x.lane + half * 4
        h1 == FoldPieces(LAMBDA g, i : LET k == read(buf, o + (i - 1) * x.lane, x.lane) IN
                                       IF x = X32 THEN Whole32(g, k) ELSE Whole64(g, k),
                         h, [i \in 1 .. whole |-> i])
        h2 == IF half = 1 THEN Half64(h1, read(buf, o + whole * x.lane, 4)) ELSE h1
    IN  FoldPieces(LAMBDA g, i : LET k == read(buf, o + i, 1) IN IF x = X32 THEN Byte32(g, k) ELSE Byte64(g, k),
                   h2, [i \in 1 .. len - done |-> done + i - 1])

Avalanche(x, h) ==
    LET s == IF x = X32 THEN <<15, 13, 16>> ELSE <<33, 29, 32>>
        mixed(g, r) == Xor(g, Shr(g, r))
    IN  mixed(mul(x, mixed(mul(x, mixed(h, s[1]), 2), s[2]), 3), s[3])

Finished(x, h, total, buf, o, len) == Avalanche(x, Rest(x, add(x, h, Word(total)), buf, o, len))

-----------------------------------------------------------------------------
(* XXH32(), XXH64() *)

XXH(x, input, len, seed) ==
    LET n == len \div STRIPE(x)
        h == IF n > 0 THEN Converged(x, Stripes(x, Lanes(x, seed), input, 0, n)) ELSE add(x, seed, x.P[5])
    IN  Finished(x, h, len, input, n * STRIPE(x), len % STRIPE(x))

-----------------------------------------------------------------------------
(* The streams: XXH32_reset(), _update(), _digest(), and those of XXH64 *)

XXH_reset(x, seed) == [total_len |-> 0, seed |-> seed, v |-> Lanes(x, seed), mem |-> {}, memsize |-> 0]

\* (Defect: the bytes kept are not counted off the input that completes them.)
KeepsOffset(x, s, input, len) ==
    LET n == len \div STRIPE(x) IN
    [s EXCEPT !.total_len = @ + len, !.v = Stripes(x, @, input, 0, n),
              !.mem = read(input, n * STRIPE(x), len % STRIPE(x)), !.memsize = len % STRIPE(x)]
XXH_update(x, s, input, len) ==
    LET missing == IF s.memsize > 0 THEN STRIPE(x) - s.memsize ELSE 0
        completed == Store(s.mem, s.memsize, missing, input)
        n == (len - missing) \div STRIPE(x)
        rest == (len - missing) % STRIPE(x)
    IN  IF s.memsize + len < STRIPE(x)
        THEN [s EXCEPT !.total_len = @ + len, !.mem = Store(@, s.memsize, len, input), !.memsize = @ + len]
        ELSE [s EXCEPT !.total_len = @ + len,
                       !.v = Stripes(x, IF s.memsize > 0 THEN Stripes(x, @, completed, 0, 1) ELSE @, input, missing, n),
                       !.mem = Store(completed, 0, rest, read(input, len - rest, rest)),
                       !.memsize = rest]

XXH_digest(x, s) ==
    LET h == IF s.total_len >= STRIPE(x) THEN Converged(x, s.v) ELSE add(x, s.seed, x.P[5]) IN
    Finished(x, h, s.total_len, s.mem, 0, s.memsize)

\* XXH32_canonicalFromHash() and XXH32_hashFromCanonical(), and those of XXH64
XXH_canonicalFromHash(x, hash) == Bswap(hash, x.lane, 8)
XXH_hashFromCanonical(x, canonical) == Bswap(canonical, x.lane, 8)
==============================================================================
