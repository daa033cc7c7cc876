------------------------------ MODULE FseBlocks ------------------------------
(***************************************************************************)
(* Blocks that carry their own table: how counts are normalised, written   *)
(* to a header and read back (fse_compress.c and entropy_common.c in       *)
(* lib/FSE/lib), FSE_compress2() and FSE_decompress().                     *)
(*                                                                         *)
(* The scaled divisions of the normalisation are exact for blocks shorter  *)
(* than 2048 symbols, the bound of TLC's integers.                         *)
(***************************************************************************)
EXTENDS FSE

Largest(counts) == CHOOSE s \in DOMAIN counts :
    \A t \in DOMAIN counts : counts[t] < counts[s] \/ (counts[t] = counts[s] /\ s <= t)

FSE_minTableLog(srcSize, maxSymbolValue) ==
    Min({BIT_highbit32(srcSize - 1) + 1, BIT_highbit32(maxSymbolValue) + 2})
\* An unsigned number below 0 is a large one.
FSE_optimalTableLog(maxTableLog, srcSize, maxSymbolValue, minus) ==
    LET maxBitsSrc == BIT_highbit32(srcSize - 1) - minus
        asked == IF maxTableLog = 0 THEN FSE_DEFAULT_TABLELOG ELSE maxTableLog
        reduced == IF maxBitsSrc \in 0 .. asked - 1 THEN maxBitsSrc ELSE asked
    IN  Min({Max({reduced, FSE_minTableLog(srcSize, maxSymbolValue), FSE_MIN_TABLELOG}), FSE_MAX_TABLELOG})

-----------------------------------------------------------------------------
(* Normalisation: the counts of total symbols as shares of 2 ^ tableLog cells, where
   -1 is the one cell of a symbol too rare for it. *)

\* The second method, once rounding up has given away too many cells: -2 is a symbol
\* without a share so far.
UpTo(norm, count, limit) == [s \in DOMAIN count |-> IF norm[s] = -2 /\ count[s] <= limit THEN 1 ELSE norm[s]]
Unshared(norm, count) == Total([s \in {t \in DOMAIN norm : norm[t] = -2} |-> count[s]])
Distributed(norm) == Cardinality({s \in DOMAIN norm : norm[s] \in {-1, 1}})

\* T counts have D cells between them.
Dealt(norm, count, T, D) ==
    LET upto(s) == Total([t \in {u \in DOMAIN norm : u < s /\ norm[u] = -2} |-> count[t]])
        end(C) == (T + 2 * C * D + C - 1) \div (2 * T)
        ones == SelectSeq([i \in 1 .. Cardinality(DOMAIN norm) |-> i - 1], LAMBDA s : norm[s] > 0)
    IN  IF Distributed(norm) = Cardinality(DOMAIN norm)
        THEN [norm EXCEPT ![Largest(count)] = @ + D]
        ELSE IF T = 0        \* round robin over those that have a whole cell
        THEN [s \in DOMAIN norm |-> IF norm[s] <= 0 THEN norm[s]
                ELSE norm[s] + Cardinality({n \in 1 .. D : ones[((n - 1) % Len(ones)) + 1] = s})]
        ELSE [s \in DOMAIN norm |-> IF norm[s] = -2 THEN end(upto(s) + count[s]) - end(upto(s)) ELSE norm[s]]
DealtRest(norm, count, tableLog) == Dealt(norm, count, Unshared(norm, count), 2 ^ tableLog - Distributed(norm))

\* Against the risk of rounding to zero
RaisedLows(lows, count, rest, toDistribute, lowOne) ==
    IF rest \div toDistribute > lowOne THEN UpTo(lows, count, (rest * 3) \div (toDistribute * 2)) ELSE lows
FSE_normalizeM2(tableLog, count, total) ==
    LET lowThreshold == total \div 2 ^ tableLog
        lowOne == (total * 3) \div 2 ^ (tableLog + 1)
        lows == Tabulated(UpTo([s \in DOMAIN count |-> IF count[s] = 0 THEN 0 ELSE IF count[s] <= lowThreshold THEN -1 ELSE -2],
                               count, lowOne))
    IN  DealtRest(RaisedLows(lows, count, Unshared(lows, count), 2 ^ tableLog - Distributed(lows), lowOne), count, tableLog)

rtbTable == <<0, 473195, 504333, 520860, 550000, 700000, 750000, 830000>>

\* The truncated share, and one more where the rest is large enough
Proba(count, total, tableLog) ==
    LET exact == \E b \in 0 .. 11 : total = 2 ^ b
        cells == count * 2 ^ tableLog
        p == (cells - (IF exact THEN 0 ELSE 1)) \div total
    IN  IF p < 8 /\ (cells - p * total) * 2 ^ 20 > rtbTable[p + 1] * total THEN p + 1 ELSE p

\* Every symbol its share; what then is left over or missing goes to the largest.
Shares(tableLog, count, total) ==
    Tabulated([s \in DOMAIN count |->
        IF count[s] = 0 THEN 0
        ELSE IF count[s] <= total \div 2 ^ tableLog THEN -1
        ELSE Proba(count[s], total, tableLog)])
Corrected(tableLog, count, total, share, largest, stillToDistribute) ==
    IF -stillToDistribute >= share[largest] \div 2 THEN FSE_normalizeM2(tableLog, count, total)
    ELSE [share EXCEPT ![largest] = @ + stillToDistribute]
CorrectedShares(tableLog, count, total, share) ==
    Corrected(tableLog, count, total, share, IF \E s \in DOMAIN share : share[s] > 0 THEN Largest(share) ELSE 0,
              2 ^ tableLog - Total([s \in DOMAIN share |-> Abs(share[s])]))

\* FSE_normalizeCount() of at least two symbols: an error, and the normalised counts
NormError(tableLog, count, total, norm) ==
    IF tableLog < FSE_MIN_TABLELOG THEN GENERIC
    ELSE IF tableLog > FSE_MAX_TABLELOG THEN tableLog_tooLarge
    ELSE IF tableLog < FSE_minTableLog(total, Cardinality(DOMAIN count) - 1) THEN GENERIC
    ELSE IF \E s \in DOMAIN count : norm[s] = 0 /\ count[s] > 0 THEN GENERIC
    ELSE 0
Normalized(tableLog, count, total, norm) == [error |-> NormError(tableLog, count, total, norm), norm |-> norm]
FSE_normalizeCount(tableLog, count, total) ==
    Normalized(tableLog, count, total, Tabulated(CorrectedShares(tableLog, count, total, Shares(tableLog, count, total))))

-----------------------------------------------------------------------------
(* The header *)

FSE_NCountWriteBound(maxSymbolValue, tableLog) ==
    IF maxSymbolValue = 0 THEN FSE_NCOUNTBOUND ELSE (((maxSymbolValue + 1) * tableLog) \div 8) + 3

\* Bits in the order of a stream, lowest first
Put(w, value, n) == [w EXCEPT !.bits = Or(@, Shl(Trunc(Word(value), n), w.size)), !.size = @ + n]
Peek(w, at, n) == Num(Trunc(Shr(w, at), n))

\* How many bits the next count takes, and when one less is enough
Halved(remaining) == BIT_highbit32(remaining)
MaxShort(remaining) == 2 * 2 ^ Halved(remaining) - 1 - remaining

\* A run of n zeros after a zero: 24, 3 and the rest
PutZeros(w, n) ==
    LET long == FoldLeft(LAMBDA v, i : Put(v, 65535, 16), w, [i \in 1 .. n \div 24 |-> i])
        short == FoldLeft(LAMBDA v, i : Put(v, 3, 2), long, [i \in 1 .. (n % 24) \div 3 |-> i])
    IN  Put(short, (n % 24) % 3, 2)

PutCount(w, count, remaining) ==
    LET threshold == 2 ^ Halved(remaining)
        value == IF count + 1 >= threshold THEN count + 1 + MaxShort(remaining) ELSE count + 1
    IN  Put(w, value, IF value < MaxShort(remaining) THEN Halved(remaining) ELSE Halved(remaining) + 1)

RECURSIVE PutCounts(_, _, _, _, _)
PutCounts(w, norm, charnum, remaining, previous0) ==
    LET next == IF previous0 THEN Min({s \in DOMAIN norm : s >= charnum /\ norm[s] # 0}) ELSE charnum
        v == PutCount(IF previous0 THEN PutZeros(w, next - charnum) ELSE w, norm[next], remaining)
    IN  IF remaining <= 1 THEN w
        ELSE PutCounts(v, norm, next + 1, remaining - Abs(norm[next]), norm[next] = 0)

\* FSE_writeNCount(), of counts that add up.  The buffer is filled by two bytes at a
\* time, so that one that is not surely large enough may need a byte more.
FSE_writeNCount(bufferSize, norm, tableLog) ==
    LET w == PutCounts(Put([bits |-> {}, size |-> 0], tableLog - FSE_MIN_TABLELOG, 4),
                       norm, 0, 2 ^ tableLog + 1, FALSE)
        writeIsSafe == bufferSize >= FSE_NCountWriteBound(Cardinality(DOMAIN norm) - 1, tableLog)
    IN  IF tableLog > FSE_MAX_TABLELOG THEN Failed(tableLog_tooLarge)
        ELSE IF tableLog < FSE_MIN_TABLELOG THEN Failed(GENERIC)
        ELSE IF ~writeIsSafe /\ 2 * ((w.size + 15) \div 16) > bufferSize THEN Failed(dstSize_tooSmall)
        ELSE [size |-> (w.size + 7) \div 8, buffer |-> w.bits]

\* FSE_readNCount(): the counts so far, and the position in the header; what is
\* beyond its end reads as zeros.  A run of zeros, and the count behind it:
ShortRun(src, at, n) ==
    LET short == CHOOSE k \in 0 .. 7 : Peek(src, at + 2 * k, 2) # 3 /\ \A m \in 0 .. k - 1 : Peek(src, at + 2 * m, 2) = 3
    IN  [n |-> n + 3 * short + Peek(src, at + 2 * short, 2), at |-> at + 2 * short + 2]
Zeros(src, at) ==
    LET long == CHOOSE k \in 0 .. 10 : Peek(src, at + 16 * k, 16) # 65535 /\ \A m \in 0 .. k - 1 : Peek(src, at + 16 * m, 16) = 65535
    IN  ShortRun(src, at + 16 * long, 24 * long)
CountAt(src, at, nbBits, max) ==
    LET whole == Peek(src, at, nbBits + 1) IN
    IF Peek(src, at, nbBits) < max THEN [value |-> Peek(src, at, nbBits) - 1, at |-> at + nbBits]
    ELSE [value |-> (IF whole >= 2 ^ nbBits THEN whole - max ELSE whole) - 1, at |-> at + nbBits + 1]

RECURSIVE ReadCounts(_, _, _, _, _), ReadOn(_, _, _, _, _)
ReadCounts(src, at, counts, remaining, maxSymbolValue) ==
    LET behind(zeros) ==
            IF Len(counts) + zeros.n > maxSymbolValue THEN [error |-> maxSymbolValue_tooSmall, at |-> at, counts |-> counts]
            ELSE ReadOn(src, CountAt(src, zeros.at, Halved(remaining), MaxShort(remaining)),
                        counts \o [i \in 1 .. zeros.n |-> 0], remaining, maxSymbolValue)
    IN  IF remaining <= 1 \/ Len(counts) > maxSymbolValue
        THEN [error |-> IF remaining # 1 THEN corruption_detected ELSE 0, at |-> at, counts |-> counts]
        ELSE behind(IF counts # <<>> /\ Last(counts) = 0 THEN Zeros(src, at) ELSE [n |-> 0, at |-> at])
ReadOn(src, count, counts, remaining, maxSymbolValue) ==
    ReadCounts(src, count.at, Append(counts, count.value), remaining - Abs(count.value), maxSymbolValue)

NCount(tableLog, r, size, hbSize) ==
    [size |-> IF tableLog > FSE_TABLELOG_ABSOLUTE_MAX THEN tableLog_tooLarge
              ELSE IF r.error # 0 THEN r.error
              ELSE IF size > hbSize THEN corruption_detected ELSE size,
     tableLog |-> tableLog,
     norm |-> Tabulated([s \in 0 .. Len(r.counts) - 1 |-> r.counts[s + 1]])]
NCountOf(tableLog, r, hbSize) == NCount(tableLog, r, (r.at + 7) \div 8, hbSize)
FSE_readNCount(src, hbSize, maxSymbolValue) ==
    LET tableLog == Peek(src, 0, 4) + FSE_MIN_TABLELOG IN
    NCountOf(tableLog, ReadCounts(Trunc(src, 8 * hbSize), 4, <<>>, 2 ^ tableLog + 1, maxSymbolValue), hbSize)

-----------------------------------------------------------------------------
(* Whole blocks *)

\* Behind the first size bytes
Behind(header, payload) ==
    [size |-> header.size + payload.size, buffer |-> Or(header.buffer, Shl(payload.buffer, 8 * header.size))]

\* The symbols by their counts, the header before them, or what fails first
ByTable(dstSize, src, header, ct) ==
    LET block(payload) == IF payload.size = 0 THEN Failed(0) ELSE Behind(header, payload)
    IN  IF header.size < 0 THEN header
        ELSE IF ct.error # 0 THEN Failed(ct.error)
        ELSE block(FSE_compress_usingCTable(dstSize - header.size, src, ct))
ByNorm(dstSize, src, normalized, log) ==
    IF normalized.error # 0 THEN Failed(normalized.error)
    ELSE ByTable(dstSize, src, FSE_writeNCount(dstSize, normalized.norm, log), FSE_buildCTable(normalized.norm, log))
ByCount(dstSize, src, count, log) == ByNorm(dstSize, src, FSE_normalizeCount(log, count, Len(src)), log)

\* FSE_compress2() and what it calls: 0 for what it cannot make shorter, 1 for a
\* single symbol
Shorter(block, srcSize) == IF block.size >= srcSize - 1 THEN Failed(0) ELSE block
FSE_compress_counted(dstCapacity, src, hist, tableLog) ==
    IF hist.error # 0 THEN Failed(hist.error)
    ELSE IF hist.largest = Len(src) THEN Failed(1)
    ELSE IF hist.largest = 1 \/ hist.largest < Len(src) \div 128 THEN Failed(0)
    ELSE Shorter(ByCount(dstCapacity, src, hist.count, FSE_optimalTableLog(tableLog, Len(src), hist.maxSymbolValue, 2)),
                 Len(src))
FSE_compress2(dstCapacity, src, maxSymbolValue, tableLog) ==
    IF tableLog > FSE_MAX_TABLELOG THEN Failed(tableLog_tooLarge)
    ELSE IF Len(src) <= 1 THEN Failed(0)
    ELSE FSE_compress_counted(dstCapacity, src, HIST_count(src, maxSymbolValue), tableLog)

FSE_decompress_wksp(dstCapacity, cSrc, cSrcSize, maxLog) ==
    LET byTable(dt, from) ==
            IF dt.error # 0 THEN Unread(dt.error)
            ELSE FSE_decompress_usingDTable(dstCapacity, Shr(cSrc, 8 * from), cSrcSize - from, dt)
        byHeader(header) ==
            IF header.size < 0 THEN Unread(header.size)
            ELSE IF header.tableLog > maxLog THEN Unread(tableLog_tooLarge)
            ELSE byTable(FSE_buildDTable(header.norm, header.tableLog), header.size)
    IN  byHeader(FSE_readNCount(cSrc, cSrcSize, FSE_MAX_SYMBOL_VALUE))

FSE_decompress(dstCapacity, cSrc, cSrcSize) == FSE_decompress_wksp(dstCapacity, cSrc, cSrcSize, FSE_MAX_TABLELOG)
==============================================================================
