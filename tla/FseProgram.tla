----------------------------- MODULE FseProgram -----------------------------
(***************************************************************************)
(* The fse program: lib/FSE/programs/commandline.c on top of FileIO.       *)
(*                                                                         *)
(* A session runs the program one or more times; the environment can lose  *)
(* the end of a coded file, or change a byte of it, between two runs.      *)
(* -B, -i and -M stand for themselves and the number behind them.          *)
(***************************************************************************)
EXTENDS FileIO

CONSTANT Damages(_)     \* what a coded file can have turned into, between two runs
VARIABLES session,      \* the runs to come: [args, consoleIn, consoleOut]
          run,          \* the present one, and what of its arguments is still to be read
          opt,          \* the variables of main()
          before,       \* disk when the run began
          origin        \* the files that have been coded: their contents, and what they were made from
vars == <<fioVars, session, run, opt, before, origin>>

NoFile == File("", 0)
NotYet == -1            \* no exit code
IsOption(arg) == "options" \in DOMAIN arg
fse(name) == [name EXCEPT !.ext = @ + 1]

\* The variables of main() and of FIO when the program starts
Initially == [input |-> NoFile, output |-> NoFile, decode |-> FALSE, bench |-> FALSE, displayLevel |-> 2,
              compressor |-> FIO_fse, overwrite |-> FALSE, code |-> NotYet]

-----------------------------------------------------------------------------
(* Arguments *)

\* One letter of an argument that begins with '-'
Letter(o, c) ==
    CASE o.code # NotYet -> o
      [] c \in {"V", "H"} -> [o EXCEPT !.code = 0]
      [] c = "d" -> [o EXCEPT !.decode = TRUE, !.bench = FALSE]
      [] c = "b" -> [o EXCEPT !.bench = TRUE]
      [] c = "e" -> [o EXCEPT !.compressor = FIO_fse]
      [] c = "h" -> [o EXCEPT !.compressor = FIO_huf]
      [] c = "z" -> [o EXCEPT !.compressor = FIO_zlibh]
      [] c = "t" -> [o EXCEPT !.decode = TRUE, !.output = nulmark]
      [] c = "f" -> [o EXCEPT !.overwrite = TRUE]
      [] c = "v" -> [o EXCEPT !.displayLevel = @ + 1]
      [] c = "q" -> [o EXCEPT !.displayLevel = @ - 1]
      [] c \in {"k", "S", "p", "B", "i", "M"} -> o
      [] OTHER -> [o EXCEPT !.code = 1]

Argument(o, arg) ==
    IF IsOption(arg)
    THEN IF arg.options = <<>>          \* '-' alone
         THEN IF o.input = NoFile THEN [o EXCEPT !.input = stdinmark] ELSE [o EXCEPT !.output = stdoutmark]
         ELSE FoldLeft(Letter, o, arg.options)
    ELSE IF o.input = NoFile THEN [o EXCEPT !.input = arg]
    ELSE IF o.output = NoFile THEN [o EXCEPT !.output = arg]
    ELSE o

Start ==
    /\ step = "exit" /\ session # <<>>
    /\ run' = Head(session) /\ session' = Tail(session)
    /\ opt' = Initially
    /\ before' = disk
    /\ job' = [job EXCEPT !.decode = FALSE]
    /\ IF Head(session).args = <<>> THEN Exit(1) ELSE step' = "parse" /\ code' = NotYet
    /\ UNCHANGED <<disk, globals, pos, xxh, reader, origin>>

ParseArgument ==
    /\ step = "parse" /\ run.args # <<>>
    /\ LET o == Argument(opt, Head(run.args)) IN
       /\ opt' = o
       /\ IF o.code = NotYet THEN UNCHANGED <<step, code>> ELSE Exit(o.code)
    /\ run' = [run EXCEPT !.args = Tail(@)]
    /\ UNCHANGED <<disk, globals, job, pos, xxh, reader, session, before, origin>>

-----------------------------------------------------------------------------
(* The names, and the work *)

\* What the input is called without its extension; forceCompress is one from the
\* start, so that the extension never makes a run decode.
HasExtension(name) == name.ext > 0 /\ ~(name.base = "" /\ name.ext = 1)
DefaultOutput(input, decode, consoleOut) ==
    IF ~consoleOut THEN stdoutmark
    ELSE IF ~decode THEN fse(input)
    ELSE IF HasExtension(input) THEN [input EXCEPT !.ext = @ - 1]
    ELSE NoFile

Begin ==
    /\ step = "parse" /\ run.args = <<>>
    /\ LET input == IF opt.input = NoFile THEN stdinmark ELSE opt.input
           output == IF opt.output = NoFile THEN DefaultOutput(input, opt.decode, run.consoleOut) ELSE opt.output
           piped == input = stdinmark /\ output = stdoutmark
       IN  IF input = stdinmark /\ run.consoleIn
           THEN Exit(1) /\ UNCHANGED <<globals, job>>
           ELSE IF opt.bench                            \* BMK_benchFiles() writes no file
           THEN Exit(0) /\ UNCHANGED <<globals, job>>
           ELSE IF output = NoFile \/ (output = stdoutmark /\ run.consoleOut)
           THEN Exit(1) /\ UNCHANGED <<globals, job>>
           ELSE /\ job' = [decode |-> opt.decode, input |-> input, output |-> output]
                /\ g_overwrite' = opt.overwrite
                /\ g_displayLevel' = IF piped /\ opt.displayLevel = 2 THEN 1 ELSE opt.displayLevel
                /\ g_compressor' = IF opt.decode THEN FIO_fse ELSE opt.compressor
                /\ step' = "open"
                /\ UNCHANGED code
    /\ UNCHANGED <<disk, pos, xxh, reader, session, run, opt, before, origin>>

\* A step of FIO; a file that has been coded is the code of all that has been read.
Work ==
    /\ FIO_step
    /\ origin' = IF step' = "header" THEN [f \in DOMAIN origin \ {job.output} |-> origin[f]]
                 ELSE IF step' = "exit" /\ code' = 0 /\ ~job.decode THEN (job.output :> [plain |-> Input, coded |-> disk'[job.output]]) @@ origin
                 ELSE origin
    /\ UNCHANGED <<session, run, opt, before>>

-----------------------------------------------------------------------------
(* The environment, between two runs *)

Damage ==
    /\ step = "exit" /\ session # <<>>
    /\ \E f \in DOMAIN origin : \E damaged \in Damages(origin[f].coded) :
        /\ disk[f] = origin[f].coded                    \* once is enough
        /\ disk' = [disk EXCEPT ![f] = damaged]
        /\ before' = disk'
    /\ UNCHANGED <<globals, step, code, job, pos, xxh, reader, session, run, opt, origin>>

Done == step = "exit" /\ session = <<>> /\ UNCHANGED vars

\* The program before its first run
InitRun ==
    /\ step = "exit" /\ code = NotYet
    /\ g_overwrite = FALSE /\ g_displayLevel = 2 /\ g_compressor = FIO_fse
    /\ job = [decode |-> FALSE, input |-> NoFile, output |-> NoFile]
    /\ pos = 0 /\ xxh = XXH_reset(X32, FSE_CHECKSUM_SEED)
    /\ reader = [compressor |-> FIO_fse, blockSize |-> 0, descriptor |-> 0]
    /\ run = [args |-> <<>>, consoleIn |-> FALSE, consoleOut |-> FALSE]
    /\ opt = Initially
    /\ before = disk
    /\ origin = <<>>

Next == Start \/ ParseArgument \/ Begin \/ Work \/ Damage \/ Done

-----------------------------------------------------------------------------
(* What every run promises *)

\* What is decoded without an error is, byte for byte, what had been coded, with
\* any of the codecs and whatever became of the coded file in between; and a coded
\* file that is intact is decoded, unless the output cannot be written: the blocks,
\* their sizes and the checksum of FIO_decompressFilename() (fileio.c:464-624).
Decoded == step = "exit" /\ job.decode /\ run.args = <<>> /\ opt.code = NotYet /\ job.input \in DOMAIN origin
DecodedIsOriginal ==
    Decoded => /\ code = 0 /\ job.output # nulmark => disk[job.output] = origin[job.input].plain
               /\ disk[job.input] = origin[job.input].coded => code \in {0, 11, 13, 41, 42}

\* A run that is refused, for its arguments or because of the files it names,
\* leaves every file as it was: nothing is opened for writing before all of that
\* has been looked at (commandline.c:127-327, get_fileHandle() fileio.c:221-256).
RefusedTouchesNothing == step = "exit" /\ code \in {1, 11, 12, 13} => disk = before

\* A hash of a stream, however it arrives, is the hash of the whole: whenever a block
\* goes into the checksum, what is hashed so far, and any two pieces of it, for both
\* kinds of hash (xxhash.c).
HashesOf(x, whole, n) ==
    LET hash == XXH(x, Buffer(whole), n, {3})
        pieces(k) == XXH_update(x, XXH_update(x, XXH_reset(x, {3}), Buffer(SubSeq(whole, 1, k)), k),
                                Buffer(SubSeq(whole, k + 1, n)), n - k)
    IN  /\ \A k \in {n \div 3, n - n \div 5} : XXH_digest(x, pieces(k)) = hash
        /\ XXH_hashFromCanonical(x, XXH_canonicalFromHash(x, hash)) = hash
HashOfStream(whole, n, state) ==
    /\ XXH_digest(X32, state) = XXH(X32, Buffer(whole), n, FSE_CHECKSUM_SEED)
    /\ \A x \in {X32, X64} : HashesOf(x, whole, n)
StreamedHashIsWhole ==
    [][step = "blocks" /\ xxh' # xxh =>
        LET whole == IF job.decode THEN disk'[job.output] ELSE SubSeq(Input, 1, pos') IN
        HashOfStream(whole, Len(whole), xxh')]_vars

\* A block of Huff0 is read alike by the decoders of one and of two symbols per
\* cell, in four streams and in one: which of them HUF_decompress() takes depends
\* on its estimate of their speed only (huf_decompress.c:938-994).
ReadAlike(src, size, four, one) ==
    /\ four.size > 1 => /\ HUF_decompress4X1(size, four.buffer, four.size).out = src
                        /\ HUF_decompress4X2(size, four.buffer, four.size).out = src
    /\ one.size > 1 => /\ HUF_decompress1X1(size, one.buffer, one.size).out = src
                       /\ HUF_decompress1X2(size, one.buffer, one.size).out = src
AllReadAlike(src, size) ==
    ReadAlike(src, size, HUF_compress(FSE_COMPRESSBOUND(size), src),
              HUF_compress1X(FSE_COMPRESSBOUND(size), src, HUF_SYMBOLVALUE_MAX, HUF_TABLELOG_DEFAULT))
DecodersAgree ==
    [][step = "blocks" /\ ~job.decode /\ g_compressor = FIO_huf /\ pos' > pos
       => AllReadAlike(SubSeq(Input, pos + 1, pos'), pos' - pos)]_vars
==============================================================================
