------------------------------ MODULE BitStream ------------------------------
(***************************************************************************)
(* The streams of bits that are written forwards and read backwards:       *)
(* lib/FSE/lib/bitstream.h, on a little-endian machine of 64 bits.         *)
(*                                                                         *)
(* Buffers and containers are the sets of bits of module Words; the values *)
(* put in and taken out are numbers.  Pointers are offsets.  A size_t that *)
(* is an error code is a negative number, as ERR_isError() sees it.        *)
(***************************************************************************)
EXTENDS Words, SequencesExt

CONTAINER == 8          \* sizeof(size_t)
REG == 8 * CONTAINER

\* error_public.h
GENERIC == -1
dstSize_tooSmall == -2
srcSize_wrong == -3
corruption_detected == -4
tableLog_tooLarge == -5
maxSymbolValue_tooLarge == -6
maxSymbolValue_tooSmall == -7

BIT_highbit32(val) == CHOOSE b \in 0 .. 30 : 2 ^ b <= val /\ (b = 30 \/ val < 2 ^ (b + 1))

-----------------------------------------------------------------------------
(* Writing *)

\* For a capacity greater than the container; its check is the caller's guard.
BIT_fits(dstCapacity) == dstCapacity > CONTAINER
BIT_initCStream(dstCapacity) ==
    [bitContainer |-> {}, bitPos |-> 0, ptr |-> 0, endPtr |-> dstCapacity - CONTAINER, buffer |-> {}]

\* BIT_addBits(), and BIT_addBitsFast() for a value without bits above nbBits.
BIT_addBits(c, value, nbBits) ==
    [c EXCEPT !.bitContainer = Or(@, Shl(Trunc(Word(value), nbBits), c.bitPos)), !.bitPos = @ + nbBits]

\* The whole container is stored, and overwritten from its first unfinished byte on.
BIT_flushBitsFast(c) ==
    LET nbBytes == c.bitPos \div 8 IN
    [c EXCEPT !.buffer = Store(@, c.ptr, CONTAINER, c.bitContainer),
              !.ptr = @ + nbBytes,
              !.bitPos = @ % 8,
              !.bitContainer = Shr(@, 8 * nbBytes)]
BIT_flushBits(c) ==
    LET d == BIT_flushBitsFast(c) IN [d EXCEPT !.ptr = Min({@, c.endPtr})]

\* The mark of the end, and the size: 0 when it does not fit
BIT_closeCStream(c) ==
    LET d == BIT_flushBits(BIT_addBits(c, 1, 1))
        size == IF d.ptr >= d.endPtr THEN 0 ELSE d.ptr + (IF d.bitPos > 0 THEN 1 ELSE 0)
    IN  [size |-> size, buffer |-> Trunc(d.buffer, 8 * size)]

-----------------------------------------------------------------------------
(* Reading *)

\* Of srcSize bytes; what is shorter than the container is at its low end.
lastByte(src, srcSize) == Load({}, src, srcSize - 1, 1)
BIT_initError(src, srcSize) ==
    IF srcSize < 1 THEN srcSize_wrong
    ELSE IF lastByte(src, srcSize) = {}
    THEN IF srcSize >= CONTAINER THEN GENERIC ELSE corruption_detected
    ELSE 0
BIT_initDStream(src, srcSize) ==
    LET ptr == Max({srcSize - CONTAINER, 0}) IN
    [buffer |-> src, ptr |-> ptr,
     bitContainer |-> Load({}, src, ptr, Min({srcSize, CONTAINER})),
     bitsConsumed |-> 8 - Max(lastByte(src, srcSize)) + 8 * Max({CONTAINER - srcSize, 0})]

\* BIT_lookBits(); BIT_lookBitsFast() shifts by REG - nbBits modulo REG, so that
\* for no bits at all it gives the container as it is.
Window(d) == Trunc(Shl(d.bitContainer, d.bitsConsumed % REG), REG)
BIT_lookBits(d, nbBits) == Num(Shr(Shr(Window(d), 1), (REG - 1 - nbBits) % REG))
BIT_lookBitsFast(d, nbBits) == Num(Shr(Window(d), (REG - nbBits) % REG))
BIT_skipBits(d, nbBits) == [d EXCEPT !.bitsConsumed = @ + nbBits]

\* BIT_reloadDStream(): its status, and the stream it leaves
unfinished == 0
endOfBuffer == 1
completed == 2
overflow == 3

nbBytesToReload(d) == Min({d.bitsConsumed \div 8, d.ptr})
BIT_status(d) ==
    IF d.bitsConsumed > REG THEN overflow
    ELSE IF d.ptr = 0 THEN IF d.bitsConsumed < REG THEN endOfBuffer ELSE completed
    ELSE IF d.ptr < CONTAINER /\ d.bitsConsumed \div 8 > d.ptr THEN endOfBuffer
    ELSE unfinished
BIT_reloadDStream(d) ==
    LET n == nbBytesToReload(d) IN
    IF d.bitsConsumed > REG \/ d.ptr = 0 THEN d
    ELSE [d EXCEPT !.ptr = @ - n, !.bitsConsumed = @ - 8 * n,
                   !.bitContainer = Load({}, d.buffer, d.ptr - n, CONTAINER)]

BIT_endOfDStream(d) == d.ptr = 0 /\ d.bitsConsumed = REG
==============================================================================
