-------------------------------- MODULE Zlibh --------------------------------
(***************************************************************************)
(* The deflate Huffman coder of lib/FSE/programs/zlibh.c: one block, of    *)
(* literals only, with a code of its own or with the fixed one.            *)
(*                                                                         *)
(* Blocks are sequences of bytes; what is written is a record of the bits  *)
(* that are one, buffer, and how many there are, n.  The reader keeps the  *)
(* position of the next bit in place of its accumulator, which holds what  *)
(* it has pulled and not used; past the end of the data all bits are zero. *)
(***************************************************************************)
EXTENDS Words, SequencesExt

ZLIBH_MAX_BITS == 15
ZLIBH_MAX_BL_BITS == 7
END_BLOCK == 256
ZLIBH_L_CODES == 257
ZLIBH_BL_CODES == 19
ZLIBH_FIXLCODES == 288
REP_3_6 == 16
REPZ_3_10 == 17
REPZ_11_138 == 18
bl_order == <<16, 17, 18, 0, 8, 7, 9, 6, 10, 5, 11, 4, 12, 3, 13, 2, 14, 1, 15>>
extra_blbits(n) == IF n = REP_3_6 THEN 2 ELSE IF n = REPZ_3_10 THEN 3 ELSE IF n = REPZ_11_138 THEN 7 ELSE 0

SumOver(S, f) == MapThenSumSet(LAMBDA x : f[x], S)

\* The first len bits of a code, in the opposite order
bi_reverse(code, len) == Num({len - 1 - b : b \in Word(code)})

\* gen_codes(): canonical codes for the lengths, of the symbols that have one
gen_codes(len) ==
    LET used == {n \in DOMAIN len : len[n] # 0}
        bl_count == Tabulated([b \in 0 .. ZLIBH_MAX_BITS |-> Cardinality({n \in used : len[n] = b})])
        next_code[b \in 1 .. ZLIBH_MAX_BITS] == IF b = 1 THEN 0 ELSE 2 * (next_code[b - 1] + bl_count[b - 1])
    IN  Tabulated([n \in used |->
            bi_reverse(next_code[len[n]] + Cardinality({m \in used : m < n /\ len[m] = len[n]}), len[n])])

\* static_ltree: the lengths and the codes of the fixed block
fixed_len == [n \in 0 .. ZLIBH_FIXLCODES - 1 |-> IF n <= 143 THEN 8 ELSE IF n <= 255 THEN 9 ELSE IF n <= 279 THEN 7 ELSE 8]
static_ltree == [Len |-> fixed_len, Code |-> gen_codes(fixed_len), max_code |-> ZLIBH_FIXLCODES - 1]

-----------------------------------------------------------------------------
(* build_tree(): a heap of nodes, the sons of node k at 2k and 2k + 1.  A  *)
(* tree has the frequency, the father and the depth of every node.         *)

smaller(tree, n, m) ==
    tree.Freq[n] < tree.Freq[m] \/ (tree.Freq[n] = tree.Freq[m] /\ tree.depth[n] <= tree.depth[m])

RECURSIVE pqdownheap(_, _, _), Combined(_, _)
pqdownheap(tree, heap, k) ==
    LET left == 2 * k
        j == IF left < Len(heap) /\ smaller(tree, heap[left + 1], heap[left]) THEN left + 1 ELSE left
    IN  IF left > Len(heap) \/ smaller(tree, heap[k], heap[j]) THEN heap
        ELSE pqdownheap(tree, [heap EXCEPT ![k] = heap[j], ![j] = heap[k]], j)

\* The two nodes of least frequency get a father, until one is left; sorted lists
\* the nodes from the root down, by decreasing frequency.
Combined(tree, heap) ==
    LET n == heap[1]
        less == pqdownheap(tree, [Front(heap) EXCEPT ![1] = Last(heap)], 1)
        m == less[1]
        node == tree.node
        joined == [node |-> node + 1,
                   Freq |-> tree.Freq @@ (node :> (tree.Freq[n] + tree.Freq[m]) % 2 ^ 16),
                   depth |-> tree.depth @@ (node :> Max({tree.depth[n], tree.depth[m]}) + 1),
                   Dad |-> tree.Dad @@ (n :> node) @@ (m :> node),
                   sorted |-> <<m, n>> \o tree.sorted]
    IN  IF Len(heap) = 1 THEN [tree EXCEPT !.sorted = heap \o @]
        ELSE Combined(joined, pqdownheap(joined, [less EXCEPT ![1] = node], 1))

\* gen_bitlen(): the lengths along the tree, none above max_length; for every two
\* that would be, a leaf goes down and takes one of them as its brother, and the
\* lengths are dealt out again, the longest to the least frequent leaves.
RECURSIVE Repaired(_, _, _)
Repaired(bl_count, overflow, max_length) ==
    LET bits == Max({b \in 1 .. max_length - 1 : bl_count[b] # 0}) IN
    IF overflow <= 0 THEN bl_count
    ELSE Repaired([[[bl_count EXCEPT ![bits] = @ - 1] EXCEPT ![bits + 1] = @ + 2] EXCEPT ![max_length] = @ - 1],
                  overflow - 2, max_length)

Leaves(tree, elems) == Reverse(SelectSeq(tree.sorted, LAMBDA n : n < elems))
Lengths(leaves, bl_count, max_length) ==
    LET longer == Tabulated([b \in 1 .. max_length |-> SumOver(b + 1 .. max_length, bl_count)])
        dealt(i) == CHOOSE b \in 1 .. max_length : longer[b] < i /\ i <= longer[b] + bl_count[b]
    IN  Tabulated([n \in ToSet(leaves) |-> dealt(CHOOSE i \in DOMAIN leaves : leaves[i] = n)])
Shortened(first, leaves, max_length) ==
    LET bl_count == [b \in 1 .. max_length |-> Cardinality({i \in DOMAIN leaves : first.len[leaves[i]] = b})] IN
    IF first.overflow = 0 THEN first.len
    ELSE Lengths(leaves, Repaired(bl_count, first.overflow, max_length), max_length)
gen_bitlen(tree, elems, max_length) ==
    LET below(t, n) ==
            LET bits == t.len[tree.Dad[n]] + 1 IN
            [len |-> t.len @@ (n :> Min({bits, max_length})),
             overflow |-> t.overflow + (IF bits > max_length THEN 1 ELSE 0)]
    IN  Shortened(FoldPieces(below, [len |-> (tree.sorted[1] :> 0), overflow |-> 0], Tail(tree.sorted)),
                  Leaves(tree, elems), max_length)

CodeTree(len, used) == [Len |-> len, Code |-> gen_codes(len), max_code |-> IF used = <<>> THEN 0 ELSE Last(used)]
TreeOf(freq, elems, max_length, used) ==
    LET start == [node |-> elems, Freq |-> freq, depth |-> [n \in 0 .. elems - 1 |-> 0], Dad |-> <<>>, sorted |-> <<>>]
        heap == FoldLeft(LAMBDA h, k : pqdownheap(start, h, k), used,
                         Reverse([k \in 1 .. Len(used) \div 2 |-> k]))
        tree(bits) == CodeTree(Tabulated([n \in 0 .. elems - 1 |-> IF freq[n] # 0 THEN bits[n] ELSE 0]), used)
    IN  IF Len(used) > 1 THEN tree(gen_bitlen(Combined(start, heap), elems, max_length))
        ELSE tree([n \in ToSet(used) |-> 1])
build_tree(freq, elems, max_length) ==
    TreeOf(freq, elems, max_length, SelectSeq([i \in 1 .. elems |-> i - 1], LAMBDA n : freq[n] # 0))

-----------------------------------------------------------------------------
(* The lengths of a code, as they are sent: feed_bltree() counts and       *)
(* ZLIBH_compress_block() sends the same tokens.                           *)

Token(code, extra, bits) == [code |-> code, extra |-> extra, bits |-> bits]

\* From length n on; a chunk of equal lengths is cut where its token cannot count on.
RECURSIVE Tokens(_, _, _)
Tokens(len, n, prevlen) ==
    LET curlen == len[n]
        max_count == IF curlen = 0 THEN 138 ELSE IF curlen = prevlen THEN 6 ELSE 7
        min_count == IF curlen = 0 \/ curlen = prevlen THEN 3 ELSE 4
        end == Min({m \in n + 1 .. ZLIBH_L_CODES : m = ZLIBH_L_CODES \/ len[m] # curlen})
        count == Min({end - n, max_count})
        literal == Token(curlen, 0, 0)
        again == IF curlen = prevlen THEN count ELSE count - 1
        chunk == IF count < min_count THEN [i \in 1 .. count |-> literal]
                 ELSE IF curlen # 0
                 THEN (IF curlen # prevlen THEN <<literal>> ELSE <<>>) \o <<Token(REP_3_6, again - 3, 2)>>
                 ELSE <<IF count < 11 THEN Token(REPZ_3_10, count - 3, 3) ELSE Token(REPZ_11_138, count - 11, 7)>>
    IN  IF n = ZLIBH_L_CODES THEN <<>> ELSE chunk \o Tokens(len, n + count, curlen)

feed_bltree(tokens) ==
    Tabulated([c \in 0 .. ZLIBH_BL_CODES - 1 |-> Cardinality({i \in DOMAIN tokens : tokens[i].code = c})])

-----------------------------------------------------------------------------
(* Compression *)

\* SENDBITS() of values and their lengths, one after the other
Sent(items) ==
    LET bits[i, j \in 0 .. Len(items)] ==          \* of the items from i to j
            IF i >= j THEN IF i = j THEN items[i].bits ELSE 0
            ELSE LET m == (i + j) \div 2 IN bits[i, m] + bits[m + 1, j]
    IN  [n |-> bits[1, Len(items)],
         buffer |-> UNION {Shl(Word(items[i].value), bits[1, i - 1]) : i \in DOMAIN items}]
Item(value, bits) == [value |-> value, bits |-> bits]

\* ZLIBH_compress_block(): the kind of the block, the header of one with its own
\* code, the literals (at least one) and the end of the block
LengthsHeader(bltree, blcodes, tokens) ==
    <<Item(0, 1), Item(blcodes - 4, 4)>>
    \o [i \in 1 .. blcodes |-> Item(bltree.Len[bl_order[i]], 3)]
    \o FlattenSeq([i \in DOMAIN tokens |->
           LET t == tokens[i] IN <<Item(bltree.Code[t.code], bltree.Len[t.code]), Item(t.extra, t.bits)>>])
ZLIBH_compress_block(src, header, ltree) ==
    LET symbol(n) == Item(ltree.Code[n], ltree.Len[n])
    IN  Sent(header \o [i \in DOMAIN src |-> symbol(src[i])] \o <<symbol(END_BLOCK)>>)

\* The sizes are those the trees give, before anything is sent: the block has as
\* many bits, which together is what the caller relies on.
Block(bits, sent) == [size |-> (bits + 8) \div 8, buffer |-> sent.buffer, sent |-> sent.n]
BitsOf(freq, len) == SumOver({n \in DOMAIN freq : freq[n] # 0}, [n \in DOMAIN freq |-> freq[n] * len[n]])
Smaller(src, dynamic, fixed, header, ltree) ==
    IF dynamic < fixed THEN Block(dynamic, ZLIBH_compress_block(src, header, ltree))
    ELSE Block(fixed, ZLIBH_compress_block(src, <<Item(1, 1)>>, static_ltree))
WithLengths(src, freq, ltree, tokens, blfreq, bltree, blcodes) ==
    LET blsize == SumOver(DOMAIN blfreq, [c \in DOMAIN blfreq |-> blfreq[c] * (bltree.Len[c] + extra_blbits(c))]) + 3 * blcodes + 4
    IN  Smaller(src, blsize + BitsOf(freq, ltree.Len), BitsOf(freq, fixed_len), LengthsHeader(bltree, blcodes, tokens), ltree)
ZLIBH_compress(src) ==
    LET literals(n) == Cardinality({i \in DOMAIN src : src[i] = n}) % 2 ^ 16
        byLengths(freq, ltree, tokens, blfreq, bltree) ==
            WithLengths(src, freq, ltree, tokens, blfreq, bltree,
                        Max({4} \cup {i \in DOMAIN bl_order : bltree.Len[bl_order[i]] # 0}))
        byTokens(freq, ltree, tokens, blfreq) ==
            byLengths(freq, ltree, tokens, blfreq, build_tree(blfreq, ZLIBH_BL_CODES, ZLIBH_MAX_BL_BITS))
        byTree(freq, ltree, tokens) == byTokens(freq, ltree, tokens, feed_bltree(tokens))
        byFreq(freq, ltree) == byTree(freq, ltree, Tokens(ltree.Len, 0, -1))
        compress(freq) == byFreq(freq, build_tree(freq, ZLIBH_L_CODES, ZLIBH_MAX_BITS))
    IN  compress(Tabulated([n \in 0 .. ZLIBH_L_CODES - 1 |-> IF n = END_BLOCK THEN 1 ELSE literals(n)]))

-----------------------------------------------------------------------------
(* Decompression *)

\* inflate_table(): a table of 2^bits cells for the codes, and behind it one for
\* each beginning of so many bits that longer codes share.  A cell is a symbol, a
\* link to such a table of op index bits at val, or invalid.
invalid == [op |-> 64, bits |-> 1, val |-> 0]
CODES == "CODES"
LENS == "LENS"
RECURSIVE SubBits(_, _, _, _, _)
SubBits(count, drop, curr, left, max) ==
    LET rest == left - count[curr + drop] IN
    IF curr + drop >= max \/ rest <= 0 THEN curr ELSE SubBits(count, drop, curr + 1, 2 * rest, max)

Symbol(n, type, bits) ==
    IF type = CODES \/ n < END_BLOCK THEN [op |-> 0, bits |-> bits, val |-> n]
    ELSE IF n = END_BLOCK THEN [op |-> 96, bits |-> bits, val |-> 0]
    ELSE [op |-> 16, bits |-> bits, val |-> n]                  \* a length code: none is ever sent

\* The table of the codes that have no more than root bits, with links to those behind
\* it; firsts has, for every beginning of root bits, the first of the longer codes,
\* curr the index bits of its table and start where that begins.
TableOf(type, lens, code, used, max, root, long, firsts, curr, start) ==
    LET low(n) == code[n] % 2 ^ root
        cell(u, short, links) ==
            IF short # {} THEN LET n == CHOOSE n \in short : TRUE IN Symbol(n, type, lens[n])
            ELSE IF links # {} THEN LET h == CHOOSE h \in links : TRUE IN [op |-> curr[h], bits |-> root, val |-> start[h]]
            ELSE [invalid EXCEPT !.bits = max]
        inTable(u, h) ==
            LET n == CHOOSE m \in long : low(m) = low(h) /\ (u - start[h]) % 2 ^ (lens[m] - root) = code[m] \div 2 ^ root
            IN  Symbol(n, type, lens[n] - root)
    IN  [error |-> 0, bits |-> root,
         cells |-> [u \in 0 .. 2 ^ root + SumOver(firsts, [h \in firsts |-> 2 ^ curr[h]]) - 1 |->
                        IF u < 2 ^ root
                        THEN cell(u, {n \in used \ long : u % 2 ^ lens[n] = code[n]}, {h \in firsts : low(h) = u})
                        ELSE inTable(u, CHOOSE h \in firsts : u \in start[h] .. start[h] + 2 ^ curr[h] - 1)]]
Precedes(lens, n, m) == lens[n] < lens[m] \/ (lens[n] = lens[m] /\ n < m)
Tables(type, lens, code, used, max, root, long, firsts, curr) ==
    TableOf(type, lens, code, used, max, root, long, firsts, curr,
            Tabulated([h \in firsts |-> 2 ^ root + SumOver({m \in firsts : Precedes(lens, m, h)}, [m \in firsts |-> 2 ^ curr[m]])]))
LongCodes(type, lens, code, used, max, root, long) ==
    LET firsts == {h \in long : \A m \in long : code[m] % 2 ^ root = code[h] % 2 ^ root => m = h \/ Precedes(lens, h, m)}
        count(h) == [len \in 1 .. max |-> Cardinality({n \in long : lens[n] = len /\ ~Precedes(lens, n, h)})]
    IN  Tables(type, lens, code, used, max, root, long, Listed(firsts),
                Tabulated([h \in firsts |-> SubBits(count(h), root, lens[h] - root, 2 ^ (lens[h] - root), max)]))
CompleteTable(type, lens, code, used, max, root, left) ==
    IF \E len \in 1 .. ZLIBH_MAX_BITS : left[len] < 0 THEN [error |-> -1]
    ELSE IF left[ZLIBH_MAX_BITS] > 0 /\ (type = CODES \/ max # 1) THEN [error |-> -1]
    ELSE LongCodes(type, lens, code, used, max, root, {n \in used : lens[n] > root})
inflate_table(type, lens, bits) ==
    LET used == {n \in DOMAIN lens : lens[n] # 0}
        max == Max({lens[n] : n \in used})
        left[len \in 0 .. ZLIBH_MAX_BITS] ==
            IF len = 0 THEN 1 ELSE 2 * left[len - 1] - Cardinality({n \in used : lens[n] = len})
    IN  IF used = {} THEN [error |-> 0, bits |-> 1, cells |-> [u \in 0 .. 1 |-> invalid]]
        ELSE CompleteTable(type, lens, gen_codes(lens), used, max, Max({Min({bits, max}), Min({lens[n] : n \in used})}), left)

\* fixedtables()
lenfix == inflate_table(LENS, fixed_len, 9)

BITS(src, pos, n) == Num(Trunc(Shr(src, pos), n))

\* The lengths of the literals' code, one token at a time; none when they are wrong
RECURSIVE ReadLens(_, _, _, _), ReadSymbols(_, _, _, _)
ReadLens(src, pos, table, lens) ==
    LET here == table.cells[BITS(src, pos, table.bits)]
        next == pos + here.bits
        have == Len(lens)
        extra == extra_blbits(here.val)
        copy == IF here.val < 16 THEN 1 ELSE (IF here.val = REPZ_11_138 THEN 11 ELSE 3) + BITS(src, next, extra)
        value == IF here.val < 16 THEN here.val ELSE IF here.val = REP_3_6 THEN lens[have] ELSE 0
    IN  IF have = ZLIBH_L_CODES THEN [ok |-> TRUE, pos |-> pos, lens |-> [n \in 0 .. have - 1 |-> lens[n + 1]]]
        ELSE IF (here.val = REP_3_6 /\ have = 0) \/ have + copy > ZLIBH_L_CODES THEN [ok |-> FALSE]
        ELSE ReadLens(src, next + extra, table, lens \o [i \in 1 .. copy |-> value])

\* The literals up to the end of the block; a link leads to one more cell.
ReadSymbols(src, pos, table, out) ==
    LET first == table.cells[BITS(src, pos, table.bits)]
        link == first.op \in 1 .. 15
        second == IF link THEN pos + first.bits ELSE pos
        here == IF link THEN table.cells[first.val + BITS(src, second, first.op)] ELSE first
    IN  IF here.op = 96 THEN out
        ELSE ReadSymbols(src, second + here.bits, table, IF here.op = 0 THEN Append(out, here.val) ELSE out)

\* ZLIBH_inflate(): nothing at all for a block that is wrong
Literals(src, pos, table) == IF table.error # 0 THEN <<>> ELSE ReadSymbols(src, pos, table, <<>>)
WithCodes(src, pos, codes) ==
    LET literals(read) ==
            IF ~read.ok THEN <<>> ELSE IF read.lens[END_BLOCK] = 0 THEN <<>>
            ELSE Literals(src, read.pos, inflate_table(LENS, read.lens, 9))
    IN  IF codes.error # 0 THEN <<>> ELSE literals(ReadLens(src, pos, codes, <<>>))
ZLIBH_decompress(src) ==
    LET ncode == BITS(src, 1, 4) + 4
        len(i) == IF i <= ncode THEN BITS(src, 5 + 3 * (i - 1), 3) ELSE 0
        lens == Tabulated([n \in 0 .. ZLIBH_BL_CODES - 1 |-> len(CHOOSE i \in 1 .. ZLIBH_BL_CODES : bl_order[i] = n)])
    IN  IF 0 \in src THEN ReadSymbols(src, 1, lenfix, <<>>)
        ELSE WithCodes(src, 5 + 3 * ncode, inflate_table(CODES, lens, ZLIBH_MAX_BL_BITS))
==============================================================================
