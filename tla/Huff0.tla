-------------------------------- MODULE Huff0 --------------------------------
(***************************************************************************)
(* Huffman coding of blocks: huf_compress.c, huf_decompress.c and          *)
(* HUF_readStats() of entropy_common.c, in lib/FSE/lib, for callers that   *)
(* keep no table from one block to the next.  See FSE for how sources,     *)
(* buffers and tables are represented.                                     *)
(***************************************************************************)
EXTENDS FseBlocks

HUF_TABLELOG_MAX == 12
HUF_TABLELOG_DEFAULT == 11
HUF_SYMBOLVALUE_MAX == 255
HUF_BLOCKSIZE_MAX == 128 * 1024

HUF_optimalTableLog(maxTableLog, srcSize, maxSymbolValue) ==
    FSE_optimalTableLog(maxTableLog, srcSize, maxSymbolValue, 1)

-----------------------------------------------------------------------------
(* The tree *)

\* HUF_sort(): most frequent first, the order of symbols kept among equals
HUF_sort(count) ==
    SortSeq([i \in 1 .. Cardinality(DOMAIN count) |-> i - 1],
            LAMBDA s, t : count[s] > count[t] \/ (count[s] = count[t] /\ s < t))

\* How deep the symbols are in the tree: it joins the two nodes of the lowest counts
\* until one is left, an inner node before a symbol of the same count.
Depths(count, sorted) ==
    LET leaf(s) == [count |-> count[s], below |-> {s}]
        used == SelectSeq(sorted, LAMBDA s : count[s] > 0)
        pick(f) ==          \* lowS or lowN
            IF f.inner = <<>> \/ (f.leaves # <<>> /\ Last(f.leaves).count < Head(f.inner).count)
            THEN [node |-> Last(f.leaves), rest |-> [f EXCEPT !.leaves = Front(@)]]
            ELSE [node |-> Head(f.inner), rest |-> [f EXCEPT !.inner = Tail(@)]]
        join(f, i) ==
            LET n1 == pick(f)
                n2 == pick(n1.rest)
                below == Listed(n1.node.below \cup n2.node.below)
            IN  [n2.rest EXCEPT !.inner = Append(@, [count |-> n1.node.count + n2.node.count, below |-> below]),
                                !.depth = Tabulated([s \in DOMAIN @ |-> @[s] + (IF s \in below THEN 1 ELSE 0)])]
    IN  FoldPieces(join,
                 [leaves |-> [i \in DOMAIN used |-> leaf(used[i])], inner |-> <<>>,
                  depth |-> [s \in DOMAIN count |-> 0]],
                 [i \in 1 .. Len(used) - 1 |-> i]).depth

\* HUF_setMaxHeight(): the leaves too deep are lifted to maxNbBits, others let down
\* in exchange.  bits and count are by rank; rankLast[k] is the last rank whose
\* length is k less than the maximum.
noSymbol == -1
RECURSIVE Repay(_, _, _, _, _), GiveBack(_, _, _, _, _)
Repay(bits, count, rankLast, totalCost, maxNbBits) ==
    LET cheaper(k) == /\ rankLast[k] # noSymbol
                      /\ \/ rankLast[k - 1] = noSymbol
                         \/ count[rankLast[k]] <= 2 * count[rankLast[k - 1]]
        enough == Max({1} \cup {k \in 2 .. BIT_highbit32(totalCost) + 1 : cheaper(k)})
        k == Min({j \in enough .. HUF_TABLELOG_MAX + 1 : rankLast[j] # noSymbol})
        r == rankLast[k]
        filled == IF rankLast[k - 1] = noSymbol THEN [rankLast EXCEPT ![k - 1] = r] ELSE rankLast
        more == [bits EXCEPT ![r] = @ + 1]
        left == IF r > 0 /\ more[r - 1] = maxNbBits - k THEN r - 1 ELSE noSymbol
    IN  IF totalCost <= 0 THEN [bits |-> bits, rankLast |-> rankLast, totalCost |-> totalCost]
        ELSE Repay(Tabulated(more), count, [filled EXCEPT ![k] = left], totalCost - 2 ^ (k - 1), maxNbBits)

\* When the last exchange was too large: n is before the ranks of the full length.
GiveBack(bits, n, rankLast, totalCost, maxNbBits) ==
    LET first == Max({i \in 0 .. n : bits[i] # maxNbBits}) + 1
        r == IF rankLast[1] = noSymbol THEN first ELSE rankLast[1] + 1
    IN  IF totalCost >= 0 THEN bits
        ELSE GiveBack(Tabulated([bits EXCEPT ![r] = @ - 1]), n, [rankLast EXCEPT ![1] = r], totalCost + 1, maxNbBits)

HUF_setMaxHeight(bits, count, maxNbBits) ==
    LET last == Max(DOMAIN bits)
        largestBits == bits[last]
        tooLong == {i \in DOMAIN bits : bits[i] > maxNbBits}
        lifted == Tabulated([i \in DOMAIN bits |-> Min({bits[i], maxNbBits})])
        totalCost == Total([i \in tooLong |-> 2 ^ (largestBits - maxNbBits) - 2 ^ (largestBits - bits[i])])
                     \div 2 ^ (largestBits - maxNbBits)
        n == Max({i \in DOMAIN bits : bits[i] < maxNbBits})
        of(k) == {i \in 0 .. n : lifted[i] = maxNbBits - k}
        rankLast == [k \in 0 .. HUF_TABLELOG_MAX + 1 |-> IF k = 0 \/ of(k) = {} THEN noSymbol ELSE Max(of(k))]
        repaid == Repay(lifted, count, Tabulated(rankLast), totalCost, maxNbBits)
    IN  IF largestBits <= maxNbBits THEN bits
        ELSE GiveBack(repaid.bits, n, repaid.rankLast, repaid.totalCost, maxNbBits)

\* The codes of given lengths: those of one length follow each other in the order of
\* the symbols, after the longer ones.
Codes(nbBits, maxNbBits) ==
    LET of(n) == {s \in DOMAIN nbBits : nbBits[s] = n}
        val[n \in 1 .. maxNbBits] ==
            IF n = maxNbBits THEN 0 ELSE (val[n + 1] + Cardinality(of(n + 1))) \div 2
        first(n) == IF n \in 1 .. maxNbBits THEN val[n] ELSE 0
    IN  Tabulated([s \in DOMAIN nbBits |->
                    [nbBits |-> nbBits[s],
                     val |-> first(nbBits[s]) + Cardinality({t \in of(nbBits[s]) : t < s})]])

\* HUF_buildCTable_wksp(), for a work space of the size it needs.  bits is by rank.
CTableOfRanks(sorted, symbols, bits, huffLog) ==
    [huffLog |-> huffLog,
     codes |-> Codes(Tabulated([s \in symbols |->
                        IF \E i \in DOMAIN bits : sorted[i + 1] = s
                        THEN bits[CHOOSE i \in DOMAIN bits : sorted[i + 1] = s] ELSE 0]), huffLog)]
CTableOfBits(sorted, symbols, bits, maxNbBits) ==
    CTableOfRanks(sorted, symbols, bits, Min({Max(Range(bits)), maxNbBits}))
ByRank(f, sorted, used) == Tabulated([i \in 0 .. used - 1 |-> f[sorted[i + 1]]])
CTableOfTree(count, sorted, depth, used, maxNbBits) ==
    CTableOfBits(sorted, DOMAIN count,
                 HUF_setMaxHeight(ByRank(depth, sorted, used), ByRank(count, sorted, used), maxNbBits), maxNbBits)
HUF_buildCTable(count, maxNbBits) ==
    LET build(sorted) ==
            CTableOfTree(count, sorted, Depths(count, sorted), Cardinality({s \in DOMAIN count : count[s] > 0}), maxNbBits)
    IN  build(HUF_sort(count))

-----------------------------------------------------------------------------
(* The header: the weight of every symbol but the last one used *)

HUF_compressWeights(dstSize, weights) ==
    LET counted(hist) ==
            IF hist.largest = Len(weights) THEN Failed(1)
            ELSE IF hist.largest = 1 THEN Failed(0)
            ELSE ByCount(dstSize, weights, hist.count, FSE_optimalTableLog(6, Len(weights), hist.maxSymbolValue, 2))
    IN  IF Len(weights) <= 1 THEN Failed(0) ELSE counted(HIST_count(weights, HUF_TABLELOG_MAX))

Byte(n) == [size |-> 1, buffer |-> Word(n)]
\* Where nothing is gained by coding them, two weights to a byte
RawWeights(maxDstSize, weights, maxSymbolValue) ==
    LET nibble(i) == Shl(Word(weights[i]), 4 * (IF i % 2 = 1 THEN i ELSE i - 2))
        size == ((maxSymbolValue + 1) \div 2) + 1
    IN  IF maxSymbolValue > 128 THEN Failed(GENERIC)
        ELSE IF size > maxDstSize THEN Failed(dstSize_tooSmall)
        ELSE Behind(Byte(128 + maxSymbolValue - 1),
                    [size |-> size - 1, buffer |-> UNION {nibble(i) : i \in 1 .. maxSymbolValue}])
HUF_writeWeights(maxDstSize, weights, maxSymbolValue, coded) ==
    IF coded.size < 0 THEN coded
    ELSE IF coded.size > 1 /\ coded.size < maxSymbolValue \div 2 THEN Behind(Byte(coded.size), coded)
    ELSE RawWeights(maxDstSize, weights, maxSymbolValue)
HUF_writeCTable(maxDstSize, codes, maxSymbolValue, huffLog) ==
    LET weight(s) == IF codes[s].nbBits = 0 THEN 0 ELSE huffLog + 1 - codes[s].nbBits
        write(weights) == HUF_writeWeights(maxDstSize, weights, maxSymbolValue, HUF_compressWeights(maxDstSize - 1, weights))
    IN  write(Tabulated([i \in 1 .. maxSymbolValue |-> weight(i - 1)]))

\* HUF_readStats(): the weights, the last of which makes their total a power of two
NoStats(error) == [size |-> error, tableLog |-> 0, weights |-> <<>>]
StatsOfAll(all, tableLog, size) ==
    LET rank1 == Cardinality({i \in DOMAIN all : all[i] = 1}) IN
    IF rank1 < 2 \/ rank1 % 2 = 1 THEN NoStats(corruption_detected)
    ELSE [size |-> size, tableLog |-> tableLog, weights |-> Tabulated([s \in 0 .. Len(all) - 1 |-> all[s + 1]])]
StatsOfTotal(weights, weightTotal, tableLog, size) ==
    LET rest == 2 ^ tableLog - weightTotal IN
    IF tableLog > HUF_TABLELOG_MAX \/ 2 ^ BIT_highbit32(rest) # rest THEN NoStats(corruption_detected)
    ELSE StatsOfAll(Append(weights, BIT_highbit32(rest) + 1), tableLog, size)
StatsOf(weights, size) ==
    LET summed(weightTotal) ==
            IF weightTotal = 0 THEN NoStats(corruption_detected)
            ELSE StatsOfTotal(weights, weightTotal, BIT_highbit32(weightTotal) + 1, size)
    IN  IF \E i \in DOMAIN weights : weights[i] >= HUF_TABLELOG_MAX THEN NoStats(corruption_detected)
        ELSE summed(Total([i \in DOMAIN weights |-> 2 ^ weights[i] \div 2]))
HUF_readStats(src, srcSize) ==
    LET nibble(i) == Peek(src, 8 + 4 * (IF i % 2 = 1 THEN i ELSE i - 2), 4)
        raw(n) ==
            IF (n + 1) \div 2 + 1 > srcSize THEN NoStats(srcSize_wrong)
            ELSE StatsOf([i \in 1 .. n |-> nibble(i)], (n + 1) \div 2 + 1)
        coded(out, size) == IF out.size < 0 THEN NoStats(out.size) ELSE StatsOf(out.out, size)
        stats(iSize) ==
            IF iSize >= 128 THEN raw(iSize - 127)
            ELSE IF iSize + 1 > srcSize THEN NoStats(srcSize_wrong)
            ELSE coded(FSE_decompress_wksp(HUF_SYMBOLVALUE_MAX, Shr(src, 8), iSize, 6), iSize + 1)
    IN  IF srcSize = 0 THEN NoStats(srcSize_wrong) ELSE stats(Peek(src, 0, 8))

-----------------------------------------------------------------------------
(* Compression *)

\* From the last symbol to the first, flushed before each that begins a group of four
HUF_compress1X_usingCTable(dstSize, src, codes) ==
    LET encode(c, p) ==
            LET d == BIT_addBits(c, codes[src[p]].val, codes[src[p]].nbBits) IN
            IF p % 4 = 1 THEN BIT_flushBits(d) ELSE d
    IN  IF dstSize < 8 \/ ~BIT_fits(dstSize) THEN Failed(0)
        ELSE BIT_closeCStream(FoldPieces(encode, BIT_initCStream(dstSize), Reverse([p \in 1 .. Len(src) |-> p])))

\* Four segments, the sizes of the first three in a jump table
Segment(i, n) == LET s == (n + 3) \div 4 IN [first |-> (i - 1) * s + 1, last |-> IF i = 4 THEN n ELSE i * s]
HUF_compress4X_usingCTable(dstSize, src, codes) ==
    LET part(i) == SubSeq(src, Segment(i, Len(src)).first, Segment(i, Len(src)).last)
        add(f, i) ==
            LET one == HUF_compress1X_usingCTable(dstSize - f.size, part(i), codes) IN
            IF f.size = 0 \/ one.size = 0 THEN Failed(0)
            ELSE LET g == Behind(f, one) IN
                 IF i < 4 THEN [g EXCEPT !.buffer = Store(@, 2 * (i - 1), 2, Word(one.size))] ELSE g
    IN  IF dstSize < 17 \/ Len(src) < 12 THEN Failed(0)
        ELSE FoldLeft(add, [size |-> 6, buffer |-> {}], <<1, 2, 3, 4>>)

HUF_compressCTable(header, dstSize, src, singleStream, codes) ==
    LET block(body) == IF body.size = 0 \/ header.size + body.size >= Len(src) - 1 THEN Failed(0) ELSE Behind(header, body)
    IN  IF header.size < 0 THEN header
        ELSE IF header.size + 12 >= Len(src) THEN Failed(0)
        ELSE IF singleStream THEN block(HUF_compress1X_usingCTable(dstSize - header.size, src, codes))
        ELSE block(HUF_compress4X_usingCTable(dstSize - header.size, src, codes))

\* HUF_compress_internal(), without a table from an earlier block; for a single symbol
\* the result is that symbol.
HUF_compress_counted(dstSize, src, hist, huffLog, singleStream) ==
    LET byTree(tree) ==
            HUF_compressCTable(HUF_writeCTable(dstSize, tree.codes, hist.maxSymbolValue, tree.huffLog),
                               dstSize, src, singleStream, tree.codes)
    IN  IF hist.error # 0 THEN Failed(hist.error)
        ELSE IF hist.largest = Len(src) THEN Byte(src[1])
        ELSE IF hist.largest <= (Len(src) \div 128) + 1 THEN Failed(0)
        ELSE byTree(HUF_buildCTable(hist.count, HUF_optimalTableLog(huffLog, Len(src), hist.maxSymbolValue)))
HUF_compress_internal(dstSize, src, maxSymbolValue, huffLog, singleStream) ==
    IF src = <<>> \/ dstSize = 0 THEN Failed(0)
    ELSE IF Len(src) > HUF_BLOCKSIZE_MAX THEN Failed(srcSize_wrong)
    ELSE IF huffLog > HUF_TABLELOG_MAX THEN Failed(tableLog_tooLarge)
    ELSE IF maxSymbolValue > HUF_SYMBOLVALUE_MAX THEN Failed(maxSymbolValue_tooLarge)
    ELSE HUF_compress_counted(dstSize, src, HIST_count(src, IF maxSymbolValue = 0 THEN HUF_SYMBOLVALUE_MAX ELSE maxSymbolValue),
                              IF huffLog = 0 THEN HUF_TABLELOG_DEFAULT ELSE huffLog, singleStream)

HUF_compress1X(dstSize, src, maxSymbolValue, huffLog) == HUF_compress_internal(dstSize, src, maxSymbolValue, huffLog, TRUE)
HUF_compress2(dstSize, src, maxSymbolValue, huffLog) == HUF_compress_internal(dstSize, src, maxSymbolValue, huffLog, FALSE)
HUF_compress(maxDstSize, src) == HUF_compress2(maxDstSize, src, HUF_SYMBOLVALUE_MAX, HUF_TABLELOG_DEFAULT)

-----------------------------------------------------------------------------
(* Decoding tables *)

\* Where the cells of each weight begin, in a table of 2 ^ log cells, and then of each
\* symbol: those of one weight in the order of the symbols.
CellsOf(w, tableLog, log) == 2 ^ (w + log - tableLog - 1)
rankVal(weights, w, tableLog, log) ==
    Total([s \in {t \in DOMAIN weights : weights[t] \in 1 .. w - 1} |-> CellsOf(weights[s], tableLog, log)])
Before(weights, s) == Cardinality({t \in DOMAIN weights : t < s /\ weights[t] = weights[s]})

TableError(stats, maxTableLog) ==
    IF stats.size >= 0 /\ stats.tableLog > maxTableLog THEN tableLog_tooLarge ELSE stats.size

\* HUF_readDTableX1(): one symbol for each cell
CellsX1(w, tableLog) ==
    LET used == {s \in DOMAIN w : w[s] > 0}
        start == Tabulated([s \in used |-> rankVal(w, w[s], tableLog, tableLog) + Before(w, s) * 2 ^ (w[s] - 1)])
        owner(u) == CHOOSE s \in used : u \in start[s] .. start[s] + 2 ^ (w[s] - 1) - 1
        cell(s) == [symbols |-> <<s>>, nbBits |-> tableLog + 1 - w[s]]
    IN  [u \in 0 .. 2 ^ tableLog - 1 |-> cell(owner(u))]
HUF_readDTableX1(maxTableLog, src, srcSize) ==
    LET table(stats) == [size |-> TableError(stats, maxTableLog + 1), tableLog |-> stats.tableLog, tableType |-> 0,
                         cells |-> CellsX1(stats.weights, stats.tableLog)]
    IN  table(HUF_readStats(src, srcSize))

\* HUF_readDTableX2(): one symbol, or two where the code of the second one fits in what
\* the first leaves of the table's length
CellsX2(w, tableLog, maxTableLog, used, nbBits, rankVal0, before) ==
    LET \* the symbol s of a table, or of what is left of it after consumed bits
        length(s, consumed) == 2 ^ (maxTableLog - consumed - nbBits[s])
        from(s, consumed) == (rankVal0[w[s]] \div 2 ^ consumed) + before[s] * length(s, consumed)
        in(u, start, n) == u \in start .. start + n - 1
        \* v: the cell among those that begin with s
        pairs(v, s, minWeight) ==
            IF \/ \A t \in used : nbBits[t] > maxTableLog - nbBits[s]
               \/ minWeight > 1 /\ v < rankVal0[minWeight] \div 2 ^ nbBits[s]
            THEN {}
            ELSE {t \in used : w[t] >= minWeight /\ in(v, from(t, nbBits[s]), length(t, nbBits[s]))}
        cell(second, s) ==
            IF second = {} THEN [symbols |-> <<s>>, nbBits |-> nbBits[s]]
            ELSE [symbols |-> <<s>> \o SetToSeq(second), nbBits |-> nbBits[s] + nbBits[CHOOSE t \in second : TRUE]]
        beginsWith(u, s) == cell(pairs(u - from(s, 0), s, Max({nbBits[s] + tableLog + 1 - maxTableLog, 1})), s)
    IN  [u \in 0 .. 2 ^ maxTableLog - 1 |-> beginsWith(u, CHOOSE t \in used : in(u, from(t, 0), length(t, 0)))]
HUF_readDTableX2(maxTableLog, src, srcSize) ==
    LET cells(w, tableLog, used) ==
            CellsX2(w, tableLog, maxTableLog, used,
                    Tabulated([s \in used |-> tableLog + 1 - w[s]]),
                    Tabulated([v \in 1 .. tableLog + 1 |-> rankVal(w, v, tableLog, maxTableLog)]),
                    Tabulated([s \in used |-> Before(w, s)]))
        table(stats) ==
            [size |-> IF maxTableLog > HUF_TABLELOG_MAX THEN tableLog_tooLarge ELSE TableError(stats, maxTableLog),
             tableLog |-> maxTableLog, tableType |-> 1,
             cells |-> cells(stats.weights, stats.tableLog, {s \in DOMAIN stats.weights : stats.weights[s] > 0})]
    IN  table(HUF_readStats(src, srcSize))

-----------------------------------------------------------------------------
(* Decoding.  A decoder is a stream and what has been decoded. *)

\* HUF_decodeSymbolX1() and HUF_decodeSymbolX2()
HUF_decodeSymbol(dt, d) ==
    LET cell == dt.cells[BIT_lookBitsFast(d.bitD, dt.tableLog)] IN
    [bitD |-> BIT_skipBits(d.bitD, cell.nbBits), out |-> d.out \o cell.symbols]
\* (Defect: the bits of a cell of two symbols are not skipped at all.)
LastBitsKept(dt, d) ==
    LET cell == dt.cells[BIT_lookBitsFast(d.bitD, dt.tableLog)] IN
    [bitD |-> IF Len(cell.symbols) = 1 THEN BIT_skipBits(d.bitD, cell.nbBits) ELSE d.bitD,
     out |-> Append(d.out, cell.symbols[1])]
\* Only the first symbol of the cell: the bits of a second one are skipped as well, but
\* not beyond the container.
HUF_decodeLastSymbolX2(dt, d) ==
    LET cell == dt.cells[BIT_lookBitsFast(d.bitD, dt.tableLog)]
        skipped == BIT_skipBits(d.bitD, cell.nbBits)
    IN  [bitD |-> IF Len(cell.symbols) = 1 THEN skipped
                  ELSE IF d.bitD.bitsConsumed < REG
                  THEN [skipped EXCEPT !.bitsConsumed = Min({@, REG})] ELSE d.bitD,
         out |-> Append(d.out, cell.symbols[1])]

Reloaded(d) == [d EXCEPT !.bitD = BIT_reloadDStream(@)]
FourSymbols(dt, d) ==
    HUF_decodeSymbol(dt, HUF_decodeSymbol(dt, HUF_decodeSymbol(dt, HUF_decodeSymbol(dt, d))))

\* HUF_decodeStreamX1() and HUF_decodeStreamX2(): by fours while the stream is
\* unfinished, then one cell at a time until n symbols are there
RECURSIVE HUF_decodeStream(_, _, _), CellByCell(_, _, _)
CellByCell(dt, d, n) ==
    LET e == IF dt.tableType = 1 THEN Reloaded(d) ELSE d IN
    IF Len(d.out) < n - dt.tableType THEN CellByCell(dt, HUF_decodeSymbol(dt, e), n)
    ELSE IF Len(d.out) < n THEN HUF_decodeLastSymbolX2(dt, e) ELSE e
HUF_decodeStream(dt, d, n) ==
    LET room == n - Len(d.out) > IF dt.tableType = 1 THEN CONTAINER - 1 ELSE 3 IN
    IF BIT_status(d.bitD) = unfinished /\ room THEN HUF_decodeStream(dt, FourSymbols(dt, Reloaded(d)), n)
    ELSE CellByCell(dt, Reloaded(d), n)

\* Four streams side by side, while the last one has room; the status of the streams is
\* looked at again only when cells hold two symbols.
RECURSIVE SideBySide(_, _, _)
SideBySide(dt, ds, n) ==
    LET room == n - Len(ds[4].out) > IF dt.tableType = 1 THEN CONTAINER - 1 ELSE 3
        reloaded(es) == [i \in 1 .. 4 |-> Reloaded(es[i])]
        after(es) ==
            IF dt.tableType = 0 \/ \A i \in 1 .. 4 : BIT_status(es[i].bitD) = unfinished
            THEN SideBySide(dt, Tabulated(reloaded(es)), n) ELSE Tabulated(reloaded(es))
    IN  IF room THEN after(Tabulated([i \in 1 .. 4 |-> FourSymbols(dt, ds[i])])) ELSE ds

Decoder(src, size) == [bitD |-> BIT_initDStream(src, size), out |-> <<>>]
HUF_decompress1X_usingDTable(dstSize, cSrc, cSrcSize, dt) ==
    LET decoded(d) == IF ~BIT_endOfDStream(d.bitD) THEN Unread(corruption_detected) ELSE [size |-> dstSize, out |-> d.out]
    IN  IF BIT_initError(cSrc, cSrcSize) # 0 THEN Unread(BIT_initError(cSrc, cSrcSize))
        ELSE decoded(HUF_decodeStream(dt, Decoder(cSrc, cSrcSize), dstSize))

Ended(dstSize, ends) ==
    IF \E i \in 1 .. 4 : ~BIT_endOfDStream(ends[i].bitD) THEN Unread(corruption_detected)
    ELSE [size |-> dstSize, out |-> ends[1].out \o ends[2].out \o ends[3].out \o ends[4].out]
DecodeFour(dstSize, init, dt) ==
    LET n(i) == Segment(i, dstSize).last - Segment(i, dstSize).first + 1
        loaded == Tabulated([i \in 1 .. 4 |-> Reloaded(init[i])])
        finish(side) ==
            IF \E i \in 1 .. 3 : Len(side[i].out) > n(i) THEN Unread(corruption_detected)
            ELSE Ended(dstSize, Tabulated([i \in 1 .. 4 |-> HUF_decodeStream(dt, side[i], n(i))]))
    IN  finish(IF \A i \in 1 .. 4 : BIT_status(init[i].bitD) = unfinished THEN SideBySide(dt, loaded, n(4)) ELSE loaded)
\* Where the streams begin, and how long they are
Streams(dstSize, src, length, dt) ==
    LET wrong == {i \in 1 .. 4 : BIT_initError(src[i], length[i]) # 0} IN
    IF wrong # {} THEN Unread(BIT_initError(src[Min(wrong)], length[Min(wrong)]))
    ELSE DecodeFour(dstSize, Tabulated([i \in 1 .. 4 |-> Decoder(src[i], length[i])]), dt)
HUF_decompress4X_usingDTable(dstSize, cSrc, cSrcSize, dt) ==
    LET jump == [i \in 1 .. 3 |-> Peek(cSrc, 16 * (i - 1), 16)]
        stream(length, i) == Shr(cSrc, 8 * (6 + Total([j \in 1 .. i - 1 |-> length[j]])))
        streams(length) ==
            IF length[4] < 0 THEN Unread(corruption_detected)
            ELSE Streams(dstSize, Tabulated([i \in 1 .. 4 |-> stream(length, i)]), length, dt)
    IN  IF cSrcSize < 10 THEN Unread(corruption_detected)
        ELSE streams(Tabulated([i \in 1 .. 4 |-> IF i < 4 THEN jump[i] ELSE cSrcSize - (6 + jump[1] + jump[2] + jump[3])]))

\* A block with its header, in one or four streams, by a table already read
Decompress(streams, dstSize, cSrc, cSrcSize, dt) ==
    IF dt.size < 0 THEN Unread(dt.size)
    ELSE IF dt.size >= cSrcSize THEN Unread(srcSize_wrong)
    ELSE IF streams = 1 THEN HUF_decompress1X_usingDTable(dstSize, Shr(cSrc, 8 * dt.size), cSrcSize - dt.size, dt)
    ELSE HUF_decompress4X_usingDTable(dstSize, Shr(cSrc, 8 * dt.size), cSrcSize - dt.size, dt)
TableX1(cSrc, cSrcSize) == HUF_readDTableX1(HUF_TABLELOG_MAX - 1, cSrc, cSrcSize)
TableX2(cSrc, cSrcSize) == HUF_readDTableX2(HUF_TABLELOG_MAX, cSrc, cSrcSize)
HUF_decompress1X1(dstSize, cSrc, cSrcSize) == Decompress(1, dstSize, cSrc, cSrcSize, TableX1(cSrc, cSrcSize))
HUF_decompress1X2(dstSize, cSrc, cSrcSize) == Decompress(1, dstSize, cSrc, cSrcSize, TableX2(cSrc, cSrcSize))
HUF_decompress4X1(dstSize, cSrc, cSrcSize) == Decompress(4, dstSize, cSrc, cSrcSize, TableX1(cSrc, cSrcSize))
HUF_decompress4X2(dstSize, cSrc, cSrcSize) == Decompress(4, dstSize, cSrc, cSrcSize, TableX2(cSrc, cSrcSize))

\* The measured times of both decoders, by how well the block is compressed
algoTime ==
    <<<<0, 0, 1, 1>>, <<0, 0, 1, 1>>, <<38, 130, 1313, 74>>, <<448, 128, 1353, 74>>, <<556, 128, 1353, 74>>,
      <<714, 128, 1418, 74>>, <<883, 128, 1437, 74>>, <<897, 128, 1515, 75>>, <<926, 128, 1613, 75>>,
      <<947, 128, 1729, 77>>, <<1107, 128, 2083, 81>>, <<1177, 128, 2379, 87>>, <<1242, 128, 2415, 93>>,
      <<1349, 128, 2644, 106>>, <<1455, 128, 2422, 124>>, <<722, 128, 1891, 145>>>>
HUF_selectDecoder(dstSize, cSrcSize) ==
    LET t == algoTime[(IF cSrcSize >= dstSize THEN 15 ELSE (cSrcSize * 16) \div dstSize) + 1]
        D256 == dstSize \div 256
        double == t[3] + t[4] * D256
    IN  double + (double \div 8) < t[1] + t[2] * D256

HUF_decompress(dstSize, cSrc, cSrcSize) ==
    LET copied(n) == [i \in 1 .. dstSize |-> Peek(cSrc, IF n = 1 THEN 0 ELSE 8 * (i - 1), 8)] IN
    IF dstSize = 0 THEN Unread(dstSize_tooSmall)
    ELSE IF cSrcSize > dstSize THEN Unread(corruption_detected)
    ELSE IF cSrcSize \in {dstSize, 1} THEN [size |-> dstSize, out |-> copied(cSrcSize)]
    ELSE IF HUF_selectDecoder(dstSize, cSrcSize) THEN HUF_decompress4X2(dstSize, cSrc, cSrcSize)
    ELSE HUF_decompress4X1(dstSize, cSrc, cSrcSize)
==============================================================================
