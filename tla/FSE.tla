--------------------------------- MODULE FSE ---------------------------------
(***************************************************************************)
(* Finite state entropy coding: hist.c, fse_compress.c, fse_decompress.c,  *)
(* the count headers of entropy_common.c and the inline part of fse.h, all *)
(* in lib/FSE/lib.                                                         *)
(*                                                                         *)
(* Sources and results are sequences of symbols, compressed data are sets  *)
(* of bits; counts and tables are functions whose domains begin at 0, as   *)
(* the arrays they stand for.  A function that fills a buffer gives a      *)
(* record of its size, an error code when negative, and the contents.      *)
(***************************************************************************)
EXTENDS BitStream, Functions

FSE_MAX_TABLELOG == 14
FSE_DEFAULT_TABLELOG == 14
FSE_MIN_TABLELOG == 5
FSE_TABLELOG_ABSOLUTE_MAX == 15
FSE_MAX_SYMBOL_VALUE == 255
FSE_NCOUNTBOUND == 512
FSE_BLOCKBOUND(size) == size + (size \div 128)
FSE_COMPRESSBOUND(size) == FSE_NCOUNTBOUND + FSE_BLOCKBOUND(size)
FSE_TABLESTEP(tableSize) == (tableSize \div 2) + (tableSize \div 8) + 3

Total(f) == FoldFunction(+, 0, f)
Abs(n) == IF n < 0 THEN -n ELSE n
Failed(code) == [size |-> code, buffer |-> {}]

-----------------------------------------------------------------------------
(* HIST_count() and its variants: the four tables of the parallel one are added up
   again, so that it differs only in the check against a smaller alphabet. *)

HIST_count(src, maxSymbolValue) ==
    LET symbols == ToSet(src)
        max == IF src = <<>> THEN 0 ELSE Max(symbols)
        count == Tabulated([s \in 0 .. max |-> Cardinality({i \in DOMAIN src : src[i] = s})])
    IN  [error |-> IF maxSymbolValue \in 1 .. 254 /\ max > maxSymbolValue THEN maxSymbolValue_tooSmall ELSE 0,
         count |-> count, maxSymbolValue |-> max,
         largest |-> IF src = <<>> THEN 0 ELSE Max(Range(count))]

-----------------------------------------------------------------------------
(* The tables *)

\* The symbol of each cell: symbols of low probability from the top down, the
\* others in steps through what is left.
LowSymbols(norm) == SelectSeq([i \in 1 .. Cardinality(DOMAIN norm) |-> i - 1], LAMBDA s : norm[s] = -1)
Spread(norm, tableLog) ==
    LET tableSize == 2 ^ tableLog
        low == LowSymbols(norm)
        highThreshold == tableSize - 1 - Len(low)
        hop[p \in 0 .. tableSize - 1] ==
            LET q == (p + FSE_TABLESTEP(tableSize)) % tableSize IN
            IF q > highThreshold THEN hop[q] ELSE q
        occurrences == FlattenSeq([i \in 1 .. Cardinality(DOMAIN norm) |-> [n \in 1 .. Max({norm[i - 1], 0}) |-> i - 1]])
        lay(t, s) == [cells |-> [t.cells EXCEPT ![t.position] = s], position |-> hop[t.position]]
    IN  FoldPieces(lay,
                 [cells |-> [u \in 0 .. tableSize - 1 |-> IF u > highThreshold THEN low[tableSize - u] ELSE 0],
                  position |-> 0],
                 occurrences)

\* How many cells before u have its symbol
Earlier(cells, u) == Cardinality({v \in 0 .. u - 1 : cells[v] = cells[u]})

\* FSE_buildCTable_wksp(), for a work space of the size it needs.  deltaFindState of
\* a symbol that does not occur is what the memory holds, and never used.
FSE_buildCTable(norm, tableLog) ==
    LET tableSize == 2 ^ tableLog
        symbols == DOMAIN norm
        spread == Spread(norm, tableLog)
        width(s) == Abs(norm[s])
        cumul == Tabulated([s \in symbols |-> Total([t \in 0 .. s - 1 |-> width(t)])])
        maxBitsOut(s) == IF width(s) = 1 THEN tableLog ELSE tableLog - BIT_highbit32(norm[s] - 1)
    IN  [error |-> IF spread.position # 0 THEN GENERIC ELSE 0,
         tableLog |-> tableLog,
         stateTable |->
            LET index == Tabulated([u \in 0 .. tableSize - 1 |-> cumul[spread.cells[u]] + Earlier(spread.cells, u)])
            IN  Tabulated([i \in Range(index) |-> tableSize + (CHOOSE u \in DOMAIN index : index[u] = i)]),
         symbolTT |-> Tabulated(
            [s \in symbols |->
                [deltaNbBits |-> IF norm[s] = 0 THEN (tableLog + 1) * 2 ^ 16 - tableSize
                                 ELSE maxBitsOut(s) * 2 ^ 16
                                      - (IF width(s) = 1 THEN tableSize ELSE norm[s] * 2 ^ maxBitsOut(s)),
                 deltaFindState |-> cumul[s] - width(s)]])]

FSE_buildDTable(norm, tableLog) ==
    LET tableSize == 2 ^ tableLog
        spread == Spread(norm, tableLog)
        cell(u) ==
            LET symbol == spread.cells[u]
                nextState == Abs(norm[symbol]) + Earlier(spread.cells, u)
                nbBits == tableLog - BIT_highbit32(nextState)
            IN  [symbol |-> symbol, nbBits |-> nbBits, newState |-> nextState * 2 ^ nbBits - tableSize]
    IN  [error |-> IF tableLog > FSE_MAX_TABLELOG THEN tableLog_tooLarge
                   ELSE IF spread.position # 0 THEN GENERIC ELSE 0,
         tableLog |-> tableLog,
         fastMode |-> \A s \in DOMAIN norm : norm[s] < 2 ^ (tableLog - 1),
         cells |-> Tabulated([u \in 0 .. tableSize - 1 |-> cell(u)])]

-----------------------------------------------------------------------------
(* Encoding and decoding of one symbol *)

\* FSE_initCState2(): the smallest state of the first symbol
FSE_initCState2(ct, symbol) ==
    LET tt == ct.symbolTT[symbol]
        nbBitsOut == (tt.deltaNbBits + 2 ^ 15) \div 2 ^ 16
        value == nbBitsOut * 2 ^ 16 - tt.deltaNbBits
    IN  ct.stateTable[(value \div 2 ^ nbBitsOut) + tt.deltaFindState]

\* An encoder is a stream and its two states.
FSE_encodeSymbol(ct, e, i, symbol) ==
    LET tt == ct.symbolTT[symbol]
        nbBitsOut == (e.value[i] + tt.deltaNbBits) \div 2 ^ 16
    IN  [bitC |-> BIT_addBits(e.bitC, e.value[i], nbBitsOut),
         value |-> [e.value EXCEPT ![i] = ct.stateTable[(@ \div 2 ^ nbBitsOut) + tt.deltaFindState]]]
FSE_flushCState(ct, bitC, value) == BIT_flushBits(BIT_addBits(bitC, value, ct.tableLog))

\* A decoder is a stream, its two states and what has been decoded.
FSE_decodeSymbol(dt, fast, d, i) ==
    LET info == dt.cells[d.state[i]]
        lowBits == IF fast THEN BIT_lookBitsFast(d.bitD, info.nbBits) ELSE BIT_lookBits(d.bitD, info.nbBits)
    IN  [bitD |-> BIT_skipBits(d.bitD, info.nbBits),
         state |-> [d.state EXCEPT ![i] = info.newState + lowBits],
         out |-> Append(d.out, info.symbol)]

-----------------------------------------------------------------------------
(* Blocks, for given tables *)

\* From the last symbol to the first: those at odd positions by the first state,
\* the others by the second; the container is flushed before it can be full.
FSE_compress_usingCTable_generic(dstSize, src, ct, fast) ==
    LET n == Len(src)
        state(p) == IF p % 2 = 1 THEN 1 ELSE 2
        flushed(p) == p % 4 = 1 \/ (n % 2 = 1 /\ p = n - 2)
        flush(c) == IF fast THEN BIT_flushBitsFast(c) ELSE BIT_flushBits(c)
        encode(e, p) ==
            LET f == FSE_encodeSymbol(ct, e, state(p), src[p]) IN
            IF flushed(p) THEN [f EXCEPT !.bitC = flush(@)] ELSE f
        first == [bitC |-> BIT_initCStream(dstSize),
                  value |-> [i \in 1 .. 2 |->
                                FSE_initCState2(ct, src[IF state(n) = i THEN n ELSE n - 1])]]
        last == FoldPieces(encode, first, [k \in 1 .. n - 2 |-> n - 1 - k])
    IN  IF n <= 2 \/ ~BIT_fits(dstSize) THEN Failed(0)
        ELSE BIT_closeCStream(FSE_flushCState(ct, FSE_flushCState(ct, last.bitC, last.value[2]), last.value[1]))

FSE_compress_usingCTable(dstSize, src, ct) ==
    FSE_compress_usingCTable_generic(dstSize, src, ct, dstSize >= FSE_BLOCKBOUND(Len(src)))

\* Four symbols for one reload while the stream is unfinished, then one at a time by
\* turns: the overflow after a symbol shows that the other state holds the last one.
RECURSIVE FourPerLoop(_, _, _, _), OnePerTurn(_, _, _, _, _)
FourPerLoop(dt, fast, d, maxDstSize) ==
    LET status == BIT_status(d.bitD)
        e == [d EXCEPT !.bitD = BIT_reloadDStream(@)]
        symbol(f, i) == FSE_decodeSymbol(dt, fast, f, i)
    IN  IF status = unfinished /\ Len(d.out) < maxDstSize - 3
        THEN FourPerLoop(dt, fast, symbol(symbol(symbol(symbol(e, 1), 2), 1), 2), maxDstSize)
        ELSE e
OnePerTurn(dt, fast, d, i, maxDstSize) ==
    LET e == FSE_decodeSymbol(dt, fast, d, i)
        f == [e EXCEPT !.bitD = BIT_reloadDStream(@)]
    IN  IF Len(d.out) > maxDstSize - 2 THEN [size |-> dstSize_tooSmall, out |-> d.out]
        ELSE IF BIT_status(e.bitD) = overflow
        THEN LET all == FSE_decodeSymbol(dt, fast, f, 3 - i).out IN [size |-> Len(all), out |-> all]
        ELSE OnePerTurn(dt, fast, f, 3 - i, maxDstSize)

Unread(code) == [size |-> code, out |-> <<>>]
FSE_decompress_usingDTable(maxDstSize, cSrc, cSrcSize, dt) ==
    LET error == BIT_initError(cSrc, cSrcSize)
        \* FSE_initDState(): the two states, each with a reload
        start == BIT_initDStream(cSrc, cSrcSize)
        second == BIT_reloadDStream(BIT_skipBits(start, dt.tableLog))
        d == [bitD |-> BIT_reloadDStream(BIT_skipBits(second, dt.tableLog)),
              state |-> <<BIT_lookBits(start, dt.tableLog), BIT_lookBits(second, dt.tableLog)>>,
              out |-> <<>>]
    IN  IF error # 0 THEN Unread(error)
        ELSE OnePerTurn(dt, dt.fastMode, FourPerLoop(dt, dt.fastMode, d, maxDstSize), 1, maxDstSize)
==============================================================================
