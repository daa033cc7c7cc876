# Verification of chia-plotter

TLA+ models of the chia-plotter (`src/src/chia_plot.cpp` and the headers in
`src/include/chia/`), of the option parser and the coding library it comes with, checked
with TLC, and theorems about nine of them (`Thread`, `ThreadPool`, `DiskSort`, `Phase1`,
`Phase2` and both together as `Tables`, `MergeStage`, `PlotFile`, `Plotter`), proved with
TLAPS.  Paths below are relative to the repository's root `src/`, so `include/chia/Thread.h` is
`src/include/chia/Thread.h` in `PROJECT.json`, whose `map` leads from each definition to
the lines it models.

The plotter turns a plot id into a file of seven tables in four phases.  Each phase
is a pipeline of threads connected by two classes, `Thread` and `ThreadPool`; what
flows are blocks of entries, mostly through a sort on disk.  Entries refer to each
other by *position*: the number of entries before them in a stream.  So one block
that is lost, repeated or delivered out of order, at any of some forty stages,
corrupts all positions behind it, and no test of the repository would tell: the
result is a plot of normal size that gives fewer proofs, or none.  This is what most
of the properties are about.

## The system

| component | state | operations | what makes it correct |
|---|---|---|---|
| `Thread<T>` (`Thread.h`) | the slot `input`, `do_run`, `is_avail`, `is_busy`, `is_fail`, one mutex, one condition variable | `take`, `wait`, `close`, `loop` | every input executed once and in order, at most two held, no lost wakeup, `close` complete, failures reported |
| `ThreadPool<T,S,L>` (`ThreadPool.h`) | a ring of workers, `next`, each worker's `job` | `take`, `wait`, `close`, `wrapper` | results leave in input order, one worker at a time, although computed in parallel |
| `DiskSort` (`DiskSort.h`, `.hpp`, `buffer.h`) | a file per bucket, a write cache per adding thread and bucket, `is_finished` | `add`, `add_cache`, `finish`, `read`, `close` | what was added comes back once, sorted, each block with its position |
| `DiskTable` and records (`DiskTable.h`, `entries.h`, `phase1.h` to `phase3.h`) | a file, one cache, `num_entries` | `write`, `flush`, `close`, `read`; `read` and `write` of each entry type | what was written comes back in file order, field by field |
| phase 1 (`phase1.hpp`, `phase1.h`, `chacha8.c`) | the cipher's words, slicing indices, two open buckets, matching index per worker | `compute_f1`, `compute_table`, `compute_matches` | every matching pair of a table found once, at its position; every entry the value of the numbers below it |
| phase 2 (`phase2.hpp`, `bitfield*.hpp`) | two bitfields, an index over one, a counter | `compute`, `compute_table` | exactly the needed entries kept, pointers preserved |
| phase 3, stage 1 (`phase3.hpp`) | a list of left buffers, a window per merge thread, two end flags | `compute_stage1` | each right entry meets its two left entries; the two streams never block each other for ever |
| phase 3, stage 2 (`phase3.hpp`) | the park being filled, counters, the next sort | `compute_stage2` | line points and new positions agree |
| phase 4 (`phase4.hpp`) | two file offsets, three kinds of parks, `C2` | `compute` | every f7 leads to its line points by the table pointers |
| main program (`chia_plot.cpp`, `copy.h`) | options, directories, the copy thread, `gracefully_exit`, plot files | `main`, `create_plot`, `final_copy`, the SIGINT handler | no plot lost, no partial plot under a final name |
| option parser (`cxxopts.hpp`) | `argv`, two positions in it, a value and a count per option | `parse`, `parse_option`, `checked_parse_arg` | an option has the value that was said last |
| bit strings (`bits.hpp`, `util.hpp`) | words, size of the last | append, slice, join, to and from bytes | all ways to read a string agree |
| coding library (`lib/FSE/lib`) | tables, two states per stream | `FSE_compress2`, `FSE_decompress`, `HUF_compress`, `HUF_decompress` | decoding inverts coding; all decoders agree |
| fse program (`lib/FSE/programs`) | files, the checksum so far, the position in the input | command line, `FIO_compressFilename`, `FIO_decompressFilename` | what is decoded without an error is what was coded |
| encoding of deltas (`encoding.hpp`) | a cache of tables | conversions | inverses of each other |
| benchmarks, fuzzers, tests, settings | | | drivers and constants |

How they interact: a stage hands its result to the next by `output->take()`, which
blocks while the next stage is full, so back pressure runs through a whole phase up
to the thread that reads.  `DiskSort::read()` is itself three such stages.  `main`
runs the phases of one plot after another, and one more `Thread` copies the finished
plot away during the next.

Where it is hard: four conditions on one condition variable, three notifications
made after the unlock (`Thread`); a ring in which each worker compares its job with
its predecessor's (`ThreadPool`); caches flushed by destructors (`DiskSort`); buffers
freed by counting readers, and a flag read after the unlock (phase 3); positions and
offsets that are computed in one thread and relied on in another (all phases);
workers that throw; copies that fail half way, are repeated, or are cut off by a
second Ctrl-C (main program); numbers of which no width is a multiple of the next one
(cipher, meta data, records, streams of bits); a command line that is rearranged while
it is read.  `hazards` in `PROJECT.json` lists them by line, with
the properties that cover each, or why none does.

## The modules

```
  WorkQueue <==implements== Thread  <--EXTENDS-- ThreadProofs
      ^====implements====== ThreadPool <-------- ThreadPoolProofs
  Sorter   <==implements== DiskSort <----------- DiskSortProofs ----> InductionFacts
  MergeStage <---------------------------------- MergeStageProofs -------^ ^ ^
  PlotFile <------------------------------------ PlotFileProofs -----------' |
  Tables <-------------------------------------- TablesProofs ---------------'

  Words <- Bits <- FxCalculator <- Phase1 <-INSTANCE- Tables --EXTENDS--> Phase2
             ^     ChaCha8 <-'
           BitArray      Records                         (all of these: MCTables)
  Plotter <- CommandLine -> Cxxopts                      (MCPlotter)
                 ^------------------------------ PlotterProofs
  Words <- BitStream <- FSE <- FseBlocks <- Huff0 <- FileIO <- FseProgram
                              XXHash, Zlibh <---------'  (MCFseProgram)
```

`MCx.tla` instantiates module `x` for TLC, `MCx*.cfg` gives the constants values.

Modules compose by abstraction.  `Thread` is modelled down to each wait and each
notification, and shown to be a queue of capacity two; `ThreadPool` uses workers that
are such queues, and is shown to be one itself, of capacity *N*.  The models of the
phases then use queues of these lengths for their threads and pools: `DiskSort`,
`Phase1`, `Phase2` and `PlotFile` hold the inputs of a stage in a sequence and let it
be processed in any interleaving, but delivered in order.  In the same way `DiskSort`
is shown to implement `Sorter`, and `Phase1` and `PlotFile` read a `Sorter`.

Other modules compose directly.  `Tables` runs `Phase1` and hands its tables, as they
came out, to `Phase2`.  `CommandLine` runs `Cxxopts` on a command line, `main()`'s
checks on what came out, and `Plotter` with the options that passed.  `FseProgram` is
`commandline.c` on top of `FileIO`, which calls the coders.

* **WorkQueue** — the promise: `Accept`, `Execute`, in order, bounded.  An input
  whose execution throws stays in it, with all behind it.
* **Thread** — one action per critical section between two waits.  `waitSet` are the
  threads in `signal.wait()`, emptied by `NotifyAll`; `SpuriousWakeup` removes any.
  The clients are threads that call `take()` and `wait()`; the owner also `close()`.
  `accepted`, `executed` and `mark` (what was accepted when `wait()` began) are
  history.  `Faulty` are the inputs on which `execute` throws.
* **ThreadPool** — `take()` as wait, set the job, give the input; `wrapper()` as read
  the job, execute, wait for the turn, deliver, reset the job, notify.  Each worker's
  `Thread` is its slot, its busy worker and its failure.
* **Sorter**, **DiskSort** — `add` through caches owned by the workers of an adding
  pool or by the owner, flushed when full, by `finish()` and by destruction; then
  `read()`: bucket files read by one pool, blocks passed on with their offsets, sorted
  by another.  `handle` and `exists` are the files.
* **MergeStage** — `L_read`, `R_sort_read`'s giving of jobs, the merge threads
  `R_read` (pool), and the end of both streams in `compute_stage1()`, with the mutex
  and its two condition variables.  The pools in front (the filter `L_read_1`) and
  behind (`R_add_2`, with `SquareToLinePoint()`) share no state with anyone; what they
  do is part of `LTake` and `Deliver`.  `Streams` are the pairs of tables to merge.
* **Words** — unsigned numbers and memory as the sets of their bits, exact for every
  width.  **Bits** — strings of bits in words of any width: `bits.hpp` and the slicing
  of byte buffers; **BitArray** builds one string in three ways at once.
* **Records** — `read()` and `write()` of every entry type, byte by byte, in the plain
  build and with `CHIA_K34`, and the `DiskTable` whose buffers they share.
* **ChaCha8**, **FxCalculator** — the stream cipher and the functions f1 to f7, of
  which only blake3 is left open, as any function of its input (a constant).
* **Phase1** — all seven tables.  `compute_f1()` fills blocks of batches; then for
  each table the slicing thread cuts sorted blocks into buckets and pairs neighbours, a
  pool matches them, a second pool evaluates the matches, another thread writes the
  left table.  Buckets are shared pointers: references into a `heap`.  `FindMatches`
  is `FxMatcher`, with the stale index each worker keeps.
* **Phase2** — for each table from the last to the second: mark, index, remap, count,
  write, with the two bitfields swapped in between, and table 7 in a `DiskTable`.
  `Safety` is phase 2 by itself, given any tables in which every entry leads into the
  table below (`Linked`).
* **Tables** — phases 1 and 2 of one plot: phase 2 starts with what phase 1 wrote, and
  `MatchesAreReal` also says that this is `Linked`.
* **PlotFile** — `compute_stage2()` for the last table, then phase 4.  The file is a
  set of writes; `Value`, `Position`, `LinePoint` read it as a prover does.  `Encoded`
  is what the entropy coder keeps: nothing, when there are only one or two deltas.
* **Cxxopts** — `ParseResult::parse()`, one action per turn of its loop, with `argv`
  rearranged as the code does it.  Arguments are records of what `option_matcher` sees.
* **CommandLine** — the options of `main()` and its checks.  Lines are made of *words*,
  what somebody wants to say; `Written` puts a word into arguments and `Meant` says what
  an option should be, without looking at arguments.
* **Plotter** — the loop in `main()`, with option defaults and directory toggling;
  `create_plot()` as one step to a partial file, one to the `fclose()` and one to the
  `rename()` of phase 4; the copy thread with `final_copy()` and `copy_file()` chunk by
  chunk; Ctrl-C once and twice; any of these file calls may fail.
* **BitStream**, **FSE**, **FseBlocks**, **Huff0** — streams written forwards and read
  backwards; histogram, normalisation, headers, tables, coding and decoding; Huffman
  trees of limited depth, one and four streams, both decoders and the choice between
  them.  While it was written, their output was compared with that of the C code, byte
  for byte.
* **XXHash**, **Zlibh** — the checksums, at once and in pieces, and the deflate coder.
* **FileIO**, **FseProgram** — files in blocks, each coded, raw or one symbol, with a
  checksum at the end; one action per turn of the loops over blocks; `fwrite()` may
  fail.  A session is one or more runs; in between a coded file may be damaged.

* **InductionFacts** — no model, but what the proofs need and the library does not give:
  induction, recursive functions, powers, division, sequences (see *What is proved*).

Definitions such as `UncheckedClose`, placed just before the definition they
vary and marked "Defects", are not part of the models: each is a plausible slip, and
the property named with it in `mutants` fails when it takes the place of the original.

## The runs

| run | properties | instance | distinct states |
|---|---|---|---|
| `thread` | NoLostWakeup, NoTripleBuffering, ExecutedInOrder, CloseIsComplete, WaitFinishesPending, CallsReturn, ImplementsWorkQueue | two producers and the owner, four inputs, one throws | 44,987 |
| `thread_pool` | OutputInOrder, OneAtOutput, CloseIsComplete, NoLostWakeup, ImplementsWorkQueue | three workers, eight inputs, the fifth throws | 3,082 |
| `disk_sort` | FinishedIsComplete, BlocksInPlace, FilesBounded, ImplementsSorter | four buckets of four blocks, up to seven entries, two adding workers or the owner, caches of one entry | 2,273 |
| `merge_stage` | MergedIsExpected, NothingPoppedTooEarly, FailsOnlyAtTheEnd, BothStreamsEnd | two merge threads, every sorted right table of three entries, jobs of one entry for both and an empty job, a left block that the filter empties | 306,510 |
| `merge_stage_race` | NeverOutOfBounds (violated) | four left buffers, three jobs | |
| `tables` | MatchesAreReal, NoMatchLost, EntriesEvaluate, MarksAreExact, PointersPreserved, ProofsSurvive, RecordsReadBack, BitsAgree | two plots of seven tables, k = 5, two workers in each pool; three records of each type; five operations on a string of bits | 37,924 |
| `plot_file` | WritesAreDisjoint, ProofsAreFound, CheckpointsComplete | 0 to 12 entries in blocks of 2, 4 or 5, parks of four, intervals of five | 9,029 |
| `plot_file_deltas` | DeltasAreWritten (violated) | the same | |
| `plotter` | PlotNeverLost, NamedPlotsAreComplete, NothingLeftBehind, OptionsAreHeard, GracefulExit | 1,292 command lines, ten of which go on to three plots of two chunks with up to two failures | 91,719 |
| `plotter_read_error` | ReportIsTrue (violated) | the ten, only `fread()` fails | |
| `plotter_final_dir` | FinalDirDefault (violated) | the ten, nothing fails | |
| `fse_program` | DecodedIsOriginal, RefusedTouchesNothing, StreamedHashIsWhole, DecodersAgree | six files coded by each codec, damaged or not, and decoded; single runs of up to three arguments | 19,314 |

The `TypeOK` of a module is not among the properties of its run: it was checked while
the module was written, and where there are proofs it is a theorem.

Why the bounds are enough to meet the interesting cases:

* *thread*: two producers are needed to have one blocked on a full slot, one in
  hand-off and the owner in `wait()` or `close()` at once.  The second input of a
  client that gives two throws, so there are producers blocked before and after it.
* *thread_pool*: eight inputs over three workers wrap the ring twice, so that job
  numbers of different rounds meet; the eighth would go to the worker that failed.
* *disk_sort*: an empty bucket, equal keys, entries of both ends of the key range, no
  entry at all; each worker's cache overflows, or is flushed only when destroyed.
* *merge_stage*: jobs 1 and 2 go to different merge threads and both look something up,
  job 3 is empty and job 4 makes the second thread go on with the window of its first.
  So both threads wait for buffers and copy them, buffers both have copied are popped
  while a thread still has to look up what follows, and a thread may throw (finding 1).
  The left stream is long enough for one thread to be two buffers ahead of the other,
  and for buffers to be left over when the right stream ends; an empty buffer stands
  where one is popped; the new positions are in no order.
* *tables*: the full size of the plotter's own parameters is out of reach, so all of
  them shrink together: words of 16 bits and bytes of 2, buckets of 3 times 5 values,
  32 entries in table 1.  Meta data still straddles bytes and words, a batch of table 1
  two blocks of the cipher; one plot overflows the positions there are, the other's
  tables shrink to four proofs.  Bitfield words of two bits and two words per index
  bucket, seven tables, so each bitfield is used again and again after a swap.
  Which worker is next is free, so pools run in every order.  In the records part, three
  entries pass a cache of two, numbers of all ones next to numbers of none, so that a
  bit that leaks shows.  In the strings part, numbers end before, at and behind a word.
* *plot_file*: counts on both sides of every boundary of parks and intervals, zero
  included; a last entry without a position.
* *fse_program*: blocks of 64 bytes, sources of up to four blocks, chosen so that
  every branch of the coders is taken by one: skewed, even, two symbols, one symbol,
  too short to code, empty, and codes deeper than the limit.  A coded file loses its
  end at several places, or one byte of it changes.
* *plotter*: lines of options in every form (letter, name, name and `=`, letters
  together), with what looks like a flag as a value, unknown options, `--`, values of
  wrong types and at the ends of an int's range; every two such words, and every three
  of those that move arguments.  `int` has 16 bits, for TLC's own have 32.  Three plots,
  because the toggles show from the second and a third waits
  while the first is copied; two chunks, so a copy can be cut in the middle.

The bounds by name: `Quota` (inputs per client), `NumJobs`, `Work`, `Streams`,
`Ids`, `Inputs`, `MaxPlots` (an unlimited number of plots is cut there), `Size`,
`MaxFaults`, `Lines`, `MaxEntries`, `MaxSize`, `MaxSteps`, `KB`, `Damages`.  `CHECK_DEADLOCK FALSE` is set because each of these systems ends: a
closed thread, a finished phase, a returned `main()`.  That nothing stops *before* its
end is stated where it can go wrong: `CallsReturn`, `BothStreamsEnd`, `GracefulExit`,
and the liveness part of `ImplementsWorkQueue` and `ImplementsSorter`.

### Fairness

Weak fairness per thread of the program, never per action of a thread: a thread that
can go on eventually does.  The operating system's scheduler gives that, and so does a
mutex which is not held for ever; a thread blocked in a wait is not enabled.
`SpuriousWakeup`, Ctrl-C and failures have no fairness.  `Thread`: each client, the
owner's `close()`, the worker.  `ThreadPool`: the producer and each worker.
`MergeStage`: `L_read`, `R_sort_read`, each merge thread.  `DiskSort`: each stage.
`CommandLine`: `main()`, before and in the loop, and the copy thread.  `Tables` and
`PlotFile` state safety only, and no fairness: they consist of the queues whose progress
is shown above.  `FseProgram` is sequential, and the run checks that it never stops
before an exit (deadlock is checked there).

Two limits of what `CallsReturn` shows: clients have finite quotas, so it does not
exclude that producers with endless input starve one of them (nothing in the code
prevents it; the condition variable has no order), and in `Plotter` the five minute
retry ends because the number of failures is bounded.

### What disagrees

1. `phase3.hpp:143` reads `L_is_end` after the mutex was released
   (`merge_stage_race`).  A merge thread that found nothing to copy can see the end of
   the stream that was set since, leave its loop without the last buffers and throw
   "position out of bounds".  It needs `L_read` to append everything that is left, and
   `main` to set the flag, within that gap; the data race is undefined behaviour too.
2. `phase4.hpp:126` has no fallback for deltas that the entropy coder does not
   compress, as `WritePark()` has in phase 3 (`plot_file_deltas`).  When the number of
   entries is 2 or 3 modulo 10,000, the last one or two f7 values are not in the plot.
3. `copy.h:39` takes a read error for the end of the file (`plotter_read_error`): the
   truncated copy is reported as finished and the source removed.
4. `chia_plot.cpp:577`: with `--tmptoggle` and no `-d`, the documented default of the
   final directory holds for the first plot only (`plotter_final_dir`).

Met on the way, and no run of its own:

* `cxxopts.hpp:586`: the overflow check of `integer_parser()` compares with a product
  that was cut to its width, so `-n 4294967300` is read as 4 instead of being refused.
  `OptionsAreHeard` is about numbers that an unsigned int can hold.
* `chia_plot.cpp:261`: unknown options are ignored (`allow_unrecognised_options()`), and
  `-w false` turns `-w` on, for a switch takes no argument and `false` is kept for
  nobody.  What cxxopts throws is not caught, so a value of a wrong type ends the program
  in `terminate()`.
* `chia_plot.cpp:472`: when not all test files can be opened, those that were stay.
* `fse_compress.c:343`: for a source of two to four symbols the bound on the table log
  wraps below zero, and then does not bound.
* `commandline.c:273`: `forceCompress` is 1 and never changes, so a name in `.fse` alone
  does not make the program decode.  `fileio.c` ignores what `fclose()` gives, and opens
  (and empties) the output before it reads the header of a coded file.
* `encoding.hpp:62`: two threads can both miss the cache of tables and both assign; the
  table that was there first is lost (the same table, and only memory).

`phase3.hpp:43` calls `L_input` a double buffer, which nothing enforces: it
grows by all that the fastest merge thread is ahead of the slowest.

The properties of the passing runs exempt what these findings break and no more:
`ProofsAreFound` the f7 values of finding 2, `PlotNeverLost` and
`NamedPlotsAreComplete` the plots truncated by finding 3 or by the unchecked `fclose()`
of phase 4, `GracefulExit` a plot that phase 4's unchecked `rename()` has not named,
which the copy thread looks for every five minutes for ever.  `MergeStage` ends a
thread that throws in `outofbounds`, which is the end of the program;
`FailsOnlyAtTheEnd` says that it is there only by finding 1: the left stream has ended,
and the position it missed, if the left table has it, is in `L_input` at that moment.

## What is proved

For every number of clients, workers and plots, all tables, sizes of blocks and caches,
and all sets of failing inputs and calls; from the `ASSUME`s of the modules only, which
are what the code relies on (see below).  In each case the point is the inductive
invariant: a step-wise check of the property itself fails, because what makes it true
is in variables it does not mention.

**ThreadProofs**
* `TypeInvariant`, by `TypeInv`: `TypeOK` is not inductive, since it does not say that a
  client inside `take()` has counted an input, nor that a full slot holds an input.
* `WakeupsAreNotLost`, inductive relative to `TypeInv` and `Protocol`.  `Protocol` says
  how the flags follow the worker's and the owner's labels, and that nothing is
  pending and nobody else is inside a call once `close()` is past its `wait()`.
* `ProducersAreOneAhead`, `NothingIsLost`: the same way.  The slot belongs to the
  producer in hand-off; accepted = executed, in flight, in the slot.
* `CloseLeavesNothing` from `Protocol`, `NoLostWakeup` and `ExecutedInOrder`;
  `WaitFinishes` with `MarkInv`: a mark is never beyond what was accepted.
* `ThreadRefinesWorkQueue`: `Spec => Queue!Safety`, step by step (`StepRefines`).

**ThreadPoolProofs**
* `TypeInvariant`.
* `OutputIsOrdered` and `OutputIsExclusive` from `Order`: every input that was given and
  not delivered is with its worker (`Pending`), a worker has no other input (`Held`),
  its labels agree with it (`Labels`, `Giving`), and a worker at the output has the
  oldest one (`Turn`).  The point is the lemma `PassIsOldest`: if an older one were
  left, then the one just before would be, the predecessor would carry it as its
  job, and the worker could not pass.
* `ClosedIsComplete` with `Closing`: the workers `close()` has waited for stay idle.
* `RingWakeupsAreNotLost` with `RingInv`.  The arithmetic of the ring modulo *N*
  (`Division`, `PrevOfJob`, `SuccOfPrev`, ...) is stated once as lemmas.
* `PoolRefinesWorkQueue`: `Spec => Queue!Safety`.  A pool of *N* workers is a queue of
  capacity *N*: at most one input is with each worker, and only the oldest leaves.

**DiskSortProofs**
* `FilesAreComplete`, about writing: after `finish()` each entry is in the file of its bucket.  The
  invariant finds each entry in one of the places it passes: not yet given, in a
  worker's input, in a cache, in a file (`Accounted`), and says that caches which
  were destroyed, or finished, are empty (`Drained`).
* `PositionsAreRight` (`BlocksInPlace`), about reading: a block comes with the number of entries before
  it.  `Once` says that no entry is in two places, so that a file lists the entries of
  its bucket without repetition and its length is their number; `Stages`, that at each
  stage of the pipeline blocks are whole, carry the number of smaller entries, and
  are in the order of their keys, with none missing in between.
* `FilesAreBounded`, by `Handles`: a file is open only while a job of the first pool
  reads it, and has not been removed until then.
* `DiskSortTypes`: the types, and that no cache grows beyond its capacity (`Sizes`).
* `DiskSortSorts`: `Spec => Abstract!Safety`, a sort on disk is a sort.

**MergeStageProofs**
* `MergeIsRight` (`MergedIsExpected`), `BuffersAreKept` (`NothingPoppedTooEarly`) and
  `JobsStayInOrder` (`FailsOnlyAtTheEnd`), from one invariant, `Merging`, a chain:
  `L_input` is the latest blocks, one behind the other; a window is a piece of the left
  table that ends where a block of `L_input` does; `copy_sync` of a buffer is the
  number of windows that are past it; so what is popped is behind every window; so,
  the jobs being sorted, what a thread drops it will not look up again; so what it looks up
  is there.  And (`Ending`) after `L_is_end` all blocks have been appended, so a position
  that is behind the window of a thread that throws is in `L_input`.

**TablesProofs**, phase 2
* `MarksTellWhatIsNeeded` (`MarksAreExact`): an entry that is needed has its two
  positions marked, or it is still with a worker, or in a block not given yet
  (`Marks`).
* `PointersArePreserved`: a rewritten entry points to the same two entries as before, at
  their new positions.  A new position is a *rank*, the number of needed entries
  before.  Two pieces of code compute it independently: the index over the bitfield in
  one step, for pointers into a table, and the counter of `R_count` in the next,
  when that table is written.  `IndexRight` and `Pipeline` show that each arrives at
  the rank, for any lengths of words, index buckets and blocks; `Sorted` and `Filing`,
  that everything counted is written once.

**TablesProofs**, phase 1.  `FoundMatchesAreReal` (`MatchesAreReal`) and `EveryMatchIsFound`
(`NoMatchLost`) come from one inductive invariant, `Propagating`.  `NoMatchLost` speaks of
complete tables only, `MatchesAreReal` of what was found, not of what is missing;
`Propagating` says at every moment where each entry and each match is.
* `Slicing`: after any number of blocks of the sorted left table, `heap` holds the entries
  read so far in their order, cut where the value of `y` divided by *kBC* changes: one
  vector per bucket, wherever the blocks end.  The two indices, offsets and pointers of
  `read_thread` are those of the last two vectors (`SliceGood`, kept by each turn of the
  loop in `SliceEntry`).  So a pair that was given, or kept because its second bucket may
  go on in the next block, is a pair of neighbours with the number of entries before it.
* `Storing` and `Files`: what waits for `L_write` are the blocks between those written and
  those sliced, and a file, once complete, has each entry at its place in the sorted
  table.  Positions are places in the sorted table, computed by the slicing thread;
  that the file agrees with them is what makes them lead anywhere.
* `Pairing`: what was delivered, and what each job of `match_pool` has found and has still
  to find, are one after the other the matches of all complete pairs of vectors.  A match
  found by `FindMatches` is a match of the definition and conversely (`Hits`), since the
  index a worker keeps from pair to pair is reset where the last pair used it (`Clean`), and
  no entry reaches another twice because its targets differ (`TargetsDiffer`).
* `Making`: entries delivered and those in `eval_pool` are, in order, the values of these
  matches.  Two matches never become one entry of the set the next table is sorted from, for
  an entry has its position and distance (`MakingOrders`).
* `Turns`: `compute_table()` begins with nothing left of the table before, so the other
  parts hold of the next table from its start.

Then the two phases are put together.  `TablesAreHandedOver` shows that `Tables` implements
`Safety`, phase 2 by itself for any linked input.  Steps of phase 1 are stutters of it,
and at the hand-over `Files` and `Making` give `Linked` (`OutputLinked`), the one thing
the theorems on phase 2 assume of their input.  So they hold of the tables phase 1 makes:
`TablesAreMarked` and `TablesStayConnected`.

**PlotFileProofs**, for every input `R_sort` may emit, however it is cut into blocks
* `PlotInvariant`: the inductive invariant `PlotInv`.  The properties of
  `PlotFile` say nothing of a write before it reaches the file, two of them nothing before
  the plot is done; `PlotInv` says what there is of the file at any moment.  It takes the entries *e* of table 6, the
  sequence *T* of those phase 4 has read, and the counts *a*, *b*, *c*, *d* of parks, parks
  of P7, entries of C1 and C2, and intervals of C3.  Then the first *a*, *b*, *c*, *d* writes
  of each kind, each computed from *e*, *T* and its number alone, are exactly what is in the
  file, in the queues, and in what the reading thread has still to give (`Accounted`),
  and no write is there twice, for they are as many as were made.  `Counted` says the same of
  the line points that `num_written_final` counts, `Sorted` of the entries on their way to
  the second sort.  `Cut` and `Carried` say that what the two loops carry from one block to
  the next (the open park, the open interval of deltas, the offsets of both writers)
  depends only on the number of entries read.  Without this, the last park and the last
  interval, which are written after the loops, could not be placed.  The pools and
  threads only move writes along (`PipeSteps`), so the order in which they get to the
  writing thread is never mentioned.
* `WritesDisjoint` (`WritesAreDisjoint`): the writes of one kind are slots one behind the
  other, and so are the tables (`Region`, `TableRegions`): there are as many parks of P7
  as phase 4 reserves with `cdiv`, as many checkpoints, and no more intervals, because what
  phase 3 counted is what phase 4 reads.
* `CheckpointsAreComplete` (`CheckpointsComplete`), `FoundProofs` (`ProofsAreFound`):
  when phase 4 is done nothing is under way, so `PlotInv` makes the file a function of
  *e* and *T* (`Finished`), and since writes are disjoint a reader finds at each slot what
  was written there (`ReadBack`).  Deltas sum up to the values they were taken from
  (`Telescope`), within a park (`LinePointIs`) and within an interval (`ValueIs`), whose
  boundaries do not meet; and *T* has the entries of *e* once each, which is what the
  two sorts are for (`PositionsDiffer`, `ProofIs`).

**PlotterProofs**
* `PlotIsNeverLost` and `PlotNamesAreTrue`, by `Safe`: at each label of the copy thread,
  which of source, partial copy and target hold the plot, whatever calls fail and
  whenever Ctrl-C comes; and that the slot, the copy thread and `main()` work on
  different plots (`Apart`).
* `PlotsEndWhereTheyBelong` (`NothingLeftBehind`), by `Placed`: where the file of a
  plot of which no call failed is at each label, and that there is no other.

**InductionFacts** has what these proofs share.  The library states induction with an
operator as parameter; `Induction` states it for a set, from the least element that is
missing, and `Recursion` derives from it that a function on `0 .. n` solves its recursive
definition.  So `NeededOf`, `Filtered`, `Mapped`, `WriteAll` and `Within`, recursive
functions on a bounded domain, can be unfolded in a proof; and so can `SumTo`, `Sliced`
and `ReadAll` of `PlotFile` and the loop of `read_thread`, `Sliced` of `Phase1`.  The rest
is on powers of two, division, ranks, images, sequences and their concatenation.

Only model-checked, and why:
* What needs fairness, which is beyond the prover, like `ENABLED`: `CallsReturn`,
  `BothStreamsEnd`, `GracefulExit`, the liveness of `ImplementsWorkQueue` and
  `ImplementsSorter`.
* `EntriesEvaluate` and `ProofsSurvive` of `Tables`, which follow a value through all the
  tables by recursion over the tables; its records and strings; `CommandLine` and
  `FseProgram`: what they compute are folds and `RECURSIVE` operators over bits and
  arguments, which the prover cannot expand.  In the theorems on phase 1 what the
  functions f1 to f7 compute is left open for the same reason; used is only that `y` is
  a number and that an entry keeps the position and distance of its match.

## Assumptions on the inputs

* `KeyAssumption` (DiskSort): `key_size >= 2 * log_num_buckets`.  `read_bucket()`
  throws otherwise, and `main()` does not check it.
* `DistinctAssumption` (DiskSort): an entry stands for one call of `add()`, so no two
  are the same; they may well have the same key.
* `StreamsAssumption` (MergeStage): the right table is sorted by position and its offsets
  are positive, for the two entries of a match come from different buckets; new
  positions are distinct, for they were counted.
* `Linked` (Phase2, not an `ASSUME` but the condition of its start): tables with entries
  that lead into the table below.  That phase 1 writes such tables is part of
  `MatchesAreReal`, and proved (`OutputLinked`).
* `TargetsDiffer` (Phase1): no two of the *kExtraBitsPow* targets of an entry are the same.
  They differ in their first coordinate, *(i / kC + m) mod kB*, as the code has
  *kExtraBitsPow* = 64 and *kB* = 119.  Otherwise `find_matches_ex()` would find a match
  twice.
* `ThreadAssumption`, `ThreadPoolAssumption`, `MergeStageAssumption`, `ThreadsAssumption`,
  `WorkAssumption`, `BoundsAssumption`, `DeviceAssumption`: numbers of threads, sizes and
  types; the index buckets of phase 2 are whole words of the bitfield.
* `ParametersFit`, `FilesFit`, `SizeAssumption`, `NamesAssumption`: widths of words and
  bytes, and names of options, fit together as they do in the code.
* A plot whose first bucket is empty makes `read_thread` use a null pointer
  (`phase1.hpp:367`); the model stops there, and the plots of the run have none.
* Where phase 1 throws, its model stops too: more than four blocks of the cipher in a
  batch (`BatchFits`, `phase1.hpp:69`), an entry of an earlier bucket (`InputSorted`,
  `:362`), more than *kBC* matches of two buckets (`ArraysHold`, `:234`, whose arrays are
  too small by then).  None of them stops the run: without these guards it has the same
  states.
* The distance of a match has ten bits in a file.  `Phase1` keeps it whole, which is the
  same as long as two neighbouring buckets hold no more than 1,024 entries together, of
  which they have about 470; `Records` says what the ten bits of a distance keep.
* `InputAssumption` (PlotFile): line points are sorted, for `R_sort` is a `DiskSort` of them,
  no two entries are the same pair, and f7 fits in a byte, so that differences do; in the code the difference of neighbours is below 256 with a
  probability that leaves nothing to model.

## What is not modelled

* BLAKE3, BLS keys, bech32: submodules whose files are not in the repository.  BLAKE3
  is a constant of `Phase1`; whether a text is a key is one of `CommandLine`.
* Phase 3's and 4's packing of parks, and the probability tables in `encoding.hpp`, which
  are computed in floating point.  The coder they call is in `FSE`; in `PlotFile` the
  sizes of parks are constants, and the exceptions for an overfull park are left out.
* Of the coding library: tables kept from one block to the next, symbols of 16 bits
  (`fseU16.c`), 32 bit machines.  Benchmarks, fuzzers and generators around it only
  exercise it with random data.
* Of cxxopts: help texts, containers, positional options, other types than `int`,
  `bool` and `string`.
* What names of plots are, statistics, printing, Windows.
* Failures of file calls inside a phase: they throw in some stage, which ends the
  program; `ThreadPool` shows that a failed stage truncates nothing silently.
  `close()` of a failed pool can block for ever, and `Thread`'s destructor terminates
  the process; both are listed as hazards.
* A `DiskSort` that is opened read only, as the tests do.

## Plan

Done, in this order: `WorkQueue`, `Thread`, `ThreadPool` (what all else runs on);
`MergeStage` (the one place with hand-written synchronisation besides); `Sorter`,
`DiskSort`; `Plotter`; `PlotFile`; the proofs of `Thread`, `ThreadPool` and of writing in `DiskSort`; then whole plots through phases 1 and
2 (`Words`, `Bits`, `ChaCha8`, `FxCalculator`, `Phase1`, `Phase2`, `Tables`) with the
files they are kept in (`Records`); the coding library and its program; the command line
in front of `Plotter`; the other proofs.

Next, extending the model:
1. `PlotFile`: all tables of phase 3, where each pass of `compute_stage2()` begins where
   the one before ended, and its positions are the left stream of the next merge; with
   `Tables` in front of it, a whole plot.  Its parks with the deltas coded by `FSE`.
2. `Phase2`, `PlotFile`: failures of a stage.
3. `DiskSort` read only, as `check_phase_1.cpp` uses it.
4. `TMemoCache`, whose check and assignment are two critical sections.

Then, proving more: `OptionsAreHeard` of `CommandLine`, if `Cxxopts` is reduced to
positions in `argv`; `ProofsSurvive` of `Tables`, by induction over the tables, which
`TablesStayConnected` would have to be carried through.
