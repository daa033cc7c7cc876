------------------------------- MODULE FileIO -------------------------------
(***************************************************************************)
(* Coded files: lib/FSE/programs/fileio.c.  A file is cut into blocks,     *)
(* each of them is coded, kept as it is or replaced by its only symbol,    *)
(* and a checksum of everything follows the last one.                      *)
(*                                                                         *)
(* disk gives the bytes of the files there are, under names that are       *)
(* records; standard input and output are two of them.  An action is one   *)
(* turn of the loop of FIO_compressFilename() or FIO_decompressFilename()  *)
(* with all it reads and writes.  The disk may be full at any fwrite(); the *)
(* results of fclose() are not looked at, and here it never fails.          *)
(***************************************************************************)
EXTENDS Huff0, Zlibh, XXHash

CONSTANTS KB,           \* 1024 in the code; a bound on the size of a block
          DiskFails     \* whether an output may not open, and a write not be possible
ASSUME SizeAssumption == KB \in Nat \ {0} /\ DiskFails \in BOOLEAN

VARIABLES disk, g_overwrite, g_displayLevel, g_compressor,
          step,         \* where the program is
          code,         \* its exit code
          job,          \* [decode, input, output]
          pos,          \* how much of the input has been read
          xxh,          \* the checksum so far
          reader        \* what the decoder knows: [compressor, blockSize, descriptor]
globals == <<g_overwrite, g_displayLevel, g_compressor>>
fioVars == <<disk, globals, step, code, job, pos, xxh, reader>>

File(base, ext) == [base |-> base, ext |-> ext]         \* ext: how often the name ends in .fse
stdinmark == File("stdin", 0)
stdoutmark == File("stdout", 0)
nulmark == File("/dev/null", 0)

\* Codecs, each with the second byte of its magic number
FIO_fse == "fse"
FIO_huf == "huf"
FIO_zlibh == "zlibh"
FIO_compressors == {FIO_fse, FIO_huf, FIO_zlibh}
Magic == [c \in FIO_compressors |-> <<9, CASE c = FIO_fse -> 35 [] c = FIO_huf -> 51 [] c = FIO_zlibh -> 67, 62, 24>>]

FIO_maxBlockSizeID == 6
FIO_FRAMEHEADERSIZE == 5
g_blockSizeId == 5
FIO_blockID_to_blockSize(id) == 2 ^ id * KB
FSE_CHECKSUM_SEED == {}

bt_compressed == 0
bt_raw == 1
bt_rle == 2
bt_crc == 3
FULL == 32                                              \* BIT5
Descriptor(type, full) == type * 64 + (IF full THEN FULL ELSE 0)
BlockType(descriptor) == descriptor \div 64
BE16(n) == <<n \div 256, n % 256>>

\* Bytes to bits and back
Buffer(bytes) == UNION {Shl(Word(bytes[i]), 8 * (i - 1)) : i \in DOMAIN bytes}
Bytes(buffer, size) == [i \in 1 .. size |-> Peek(buffer, 8 * (i - 1), 8)]

Input == disk[job.input]
Left == Len(Input) - pos
Next_(n) == SubSeq(Input, pos + 1, pos + Min({n, Left}))        \* fread()
Hashed(bytes) == XXH_update(X32, xxh, Buffer(bytes), Len(bytes))

\* The three bytes after the last block: 22 bits of the checksum, highest first
Checksum ==
    LET crc == Trunc(Shr(XXH_digest(X32, xxh), 5), 22) IN
    <<Num(Shr(crc, 16)) + bt_crc * 64, Num(Trunc(Shr(crc, 8), 8)), Num(Trunc(crc, 8))>>

\* EXM_THROW(), and the normal end of the program
Exit(error) == step' = "exit" /\ code' = error

\* fwrite(): all of it, or the end with an error
Written(bytes) == disk' = [disk EXCEPT ![job.output] = @ \o bytes]
WriteFails(error) == DiskFails /\ Exit(error) /\ UNCHANGED <<disk, globals, job, pos, xxh, reader>>

-----------------------------------------------------------------------------
(* get_fileHandle(): an output that is there already is replaced only when *)
(* that was asked for, or allowed when asked about.                        *)

MayOpen(allowed) ==
    \/ job.output \in {stdoutmark, nulmark} \/ job.output \notin DOMAIN disk
    \/ g_overwrite
    \/ g_displayLevel > 1 /\ allowed

\* (Defect: the output is opened first.)
OutputFirst ==
    /\ step = "open"
    /\ \E allowed \in BOOLEAN :
        IF ~MayOpen(allowed)
        THEN Exit(11) /\ UNCHANGED <<disk, xxh, pos>>
        ELSE /\ disk' = (job.output :> <<>>) @@ disk
             /\ IF job.input \notin DOMAIN disk THEN Exit(12) ELSE step' = "header" /\ UNCHANGED code
             /\ xxh' = XXH_reset(X32, FSE_CHECKSUM_SEED)
             /\ pos' = 0
    /\ UNCHANGED <<globals, job, reader>>
get_fileHandle ==
    /\ step = "open"
    /\ \E allowed, opens \in BOOLEAN :
        IF job.input \notin DOMAIN disk
        THEN Exit(12) /\ UNCHANGED <<disk, xxh, pos>>
        ELSE IF ~MayOpen(allowed)
        THEN Exit(11) /\ UNCHANGED <<disk, xxh, pos>>
        ELSE IF DiskFails /\ ~opens
        THEN Exit(13) /\ UNCHANGED <<disk, xxh, pos>>
        ELSE /\ disk' = (job.output :> <<>>) @@ disk
             /\ step' = "header"
             /\ xxh' = XXH_reset(X32, FSE_CHECKSUM_SEED)
             /\ pos' = 0
             /\ UNCHANGED code
    /\ UNCHANGED <<globals, job, reader>>

-----------------------------------------------------------------------------
(* FIO_compressFilename() *)

WriteHeader ==
    /\ step = "header" /\ ~job.decode
    /\ \/ /\ Written(Magic[g_compressor] \o <<g_blockSizeId>>)
          /\ step' = "blocks"
          /\ UNCHANGED <<globals, code, job, pos, xxh, reader>>
       \/ WriteFails(22)

\* One symbol for all, nothing for what cannot be made shorter
Compressed(compressor, src) ==
    LET capacity == FSE_COMPRESSBOUND(FIO_blockID_to_blockSize(g_blockSizeId)) IN
    CASE compressor = FIO_fse -> FSE_compress2(capacity, src, FSE_MAX_SYMBOL_VALUE, FSE_DEFAULT_TABLELOG)
      [] compressor = FIO_huf -> HUF_compress(capacity, src)
      [] compressor = FIO_zlibh -> ZLIBH_compress(src)

Coded(src, z, full) ==
    LET size == IF full THEN <<>> ELSE BE16(Len(src)) IN
    CASE z.size = 0 -> <<Descriptor(bt_raw, full)>> \o size \o src
      [] z.size = 1 -> <<Descriptor(bt_rle, full)>> \o size \o <<src[1]>>
      [] OTHER -> <<Descriptor(bt_compressed, full)>> \o size \o BE16(z.size) \o Bytes(z.buffer, z.size)

WriteBlock(src, z, full) ==
    IF z.size < 0 THEN Exit(23) /\ UNCHANGED <<disk, globals, job, pos, xxh, reader>>
    ELSE \/ /\ Written(Coded(src, z, full))
            /\ pos' = pos + Len(src)
            /\ xxh' = Hashed(src)
            /\ UNCHANGED <<globals, step, code, job, reader>>
         \/ WriteFails(IF z.size = 0 THEN 25 ELSE IF z.size = 1 THEN 26 ELSE 27)
CompressBlock ==
    /\ step = "blocks" /\ ~job.decode /\ Left > 0
    /\ LET blockSize == FIO_blockID_to_blockSize(g_blockSizeId)
           src == Next_(blockSize)
       IN  WriteBlock(src, Compressed(g_compressor, src), Len(src) = blockSize)

WriteChecksum ==
    /\ step = "blocks" /\ ~job.decode /\ Left = 0
    /\ \/ Written(Checksum) /\ Exit(0) /\ UNCHANGED <<globals, job, pos, xxh, reader>>
       \/ WriteFails(28)

-----------------------------------------------------------------------------
(* FIO_decompressFilename() *)

HeaderError ==
    IF Left < FIO_FRAMEHEADERSIZE THEN 30
    ELSE IF Next_(4) \notin Range(Magic) THEN 31
    ELSE IF Input[5] > FIO_maxBlockSizeID THEN 32
    ELSE IF Left = FIO_FRAMEHEADERSIZE THEN 34
    ELSE 0

\* The header, and the descriptor of the first block
ReadHeader ==
    /\ step = "header" /\ job.decode
    /\ IF HeaderError # 0 THEN Exit(HeaderError) /\ UNCHANGED <<pos, reader>>
       ELSE /\ step' = "blocks"
            /\ pos' = FIO_FRAMEHEADERSIZE + 1
            /\ reader' = [compressor |-> CHOOSE c \in FIO_compressors : Magic[c] = Next_(4),
                          blockSize |-> FIO_blockID_to_blockSize(Input[5]),
                          descriptor |-> Input[6]]
            /\ UNCHANGED code
    /\ UNCHANGED <<disk, globals, job, xxh>>

Decompressed(compressor, dstSize, cSrc, cSrcSize) ==
    CASE compressor = FIO_fse -> FSE_decompress(dstSize, cSrc, cSrcSize)
      [] compressor = FIO_huf -> HUF_decompress(dstSize, cSrc, cSrcSize)
      [] compressor = FIO_zlibh -> LET out == ZLIBH_decompress(cSrc) IN [size |-> Len(out), out |-> out]

\* A block, with the descriptor of what comes after it; the size of what has been
\* decoded is not compared with the size that was announced.
\* (Defect: a block is full whatever its descriptor says.)
AlwaysFull(descriptor) == TRUE
IsFull(descriptor) == (descriptor \div FULL) % 2 = 1

\* How a block of some type, decoded to plain, is written, when it ends at end
WritePlain(type, plain, end) ==
    IF plain.size < 0 THEN Exit(39) /\ UNCHANGED <<disk, globals, job, pos, xxh, reader>>
    ELSE \/ /\ Written(plain.out)
            /\ pos' = end
            /\ xxh' = Hashed(plain.out)
            /\ reader' = [reader EXCEPT !.descriptor = Input[end]]
            /\ UNCHANGED <<globals, step, code, job>>
         \/ WriteFails(IF type = bt_raw THEN 42 ELSE 41)
PlainOf(type, data, rSize) ==
    CASE type = bt_compressed -> Decompressed(reader.compressor, rSize, Buffer(data), Len(data))
      [] type = bt_raw -> [size |-> rSize, out |-> data]
      [] type = bt_rle -> [size |-> rSize, out |-> [i \in 1 .. rSize |-> data[1]]]
DecodeBlock ==
    /\ step = "blocks" /\ job.decode /\ BlockType(reader.descriptor) # bt_crc
    /\ LET type == BlockType(reader.descriptor)
           number(at) == 256 * Input[at + 1] + Input[at + 2]
           sized == pos + (IF IsFull(reader.descriptor) THEN 0 ELSE 2)
           rSize == IF IsFull(reader.descriptor) THEN reader.blockSize ELSE number(pos)
           from == sized + (IF type = bt_compressed THEN 2 ELSE 0)
           cSize == CASE type = bt_compressed -> number(sized) [] type = bt_raw -> rSize [] type = bt_rle -> 1
           error == IF Len(Input) < sized THEN 35
                    ELSE IF Len(Input) < from THEN 36
                    ELSE IF Len(Input) < from + cSize + 1 THEN 38
                    ELSE 0
       IN  IF error # 0 THEN Exit(error) /\ UNCHANGED <<disk, globals, job, pos, xxh, reader>>
           ELSE WritePlain(type, PlainOf(type, SubSeq(Input, from + 1, from + cSize), rSize), from + cSize + 1)

VerifyChecksum ==
    /\ step = "blocks" /\ job.decode /\ BlockType(reader.descriptor) = bt_crc
    /\ Exit(IF Left < 2 THEN 43
            ELSE IF Checksum # <<bt_crc * 64 + (reader.descriptor % 64)>> \o Next_(2) THEN 44
            ELSE 0)
    /\ UNCHANGED <<disk, globals, job, pos, xxh, reader>>

FIO_step == get_fileHandle \/ WriteHeader \/ CompressBlock \/ WriteChecksum
            \/ ReadHeader \/ DecodeBlock \/ VerifyChecksum
==============================================================================
