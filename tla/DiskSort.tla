------------------------------ MODULE DiskSort ------------------------------
(***************************************************************************)
(* DiskSort<T, Key> of include/chia/DiskSort.h and DiskSort.hpp: entries   *)
(* are scattered over bucket files by the high bits of their key, through  *)
(* a write cache per thread; finish() makes the object read only; read()   *)
(* passes the entries on in blocks of ascending keys, each block with its  *)
(* position.                                                               *)
(*                                                                         *)
(* The writers are the workers of the pool that every phase puts in front  *)
(* of a DiskSort: each worker creates a WriteCache with its first input,   *)
(* and the cache dies, flushing what it holds, when the pool is closed.    *)
(* The thread that owns the DiskSort may add() too, through the cache that *)
(* is a member of it.                                                      *)
(*                                                                         *)
(* read() is three stages, each used as modules Thread and ThreadPool show *)
(* them to be: queues of bounded length that inputs leave in order, after  *)
(* the stage has worked on them in any order.                              *)
(***************************************************************************)
EXTENDS Integers, SequencesExt

CONSTANTS
    Entry,              \* records with a field `key', which Key{}() extracts
    key_size, log_num_buckets,
    Capacity,           \* g_write_chunk_size, how many entries a cache holds per bucket
    Adders,             \* how many workers the pool of writers has
    num_threads, num_threads_read,
    Work                \* what may be added: records [own, pool], see Init

bucket_key_shift == key_size - log_num_buckets
block_key_shift == bucket_key_shift - log_num_buckets

Buckets == 0 .. 2^log_num_buckets - 1
BucketOf(e) == e.key \div 2^bucket_key_shift
BlockOf(e) == e.key \div 2^block_key_shift

Pool == 0 .. Adders - 1
Own == Adders
Caches == Pool \cup {Own}

\* Where these do not hold, add() throws "bucket index out of range", and
\* read_bucket() throws "key_shift < 0".
ASSUME KeyAssumption ==
    /\ key_size \in Nat /\ log_num_buckets \in Nat
    /\ block_key_shift >= 0
    /\ \A e \in Entry : e.key \in Nat /\ BucketOf(e) \in Buckets

ASSUME ThreadsAssumption ==
    /\ Capacity \in Nat \ {0}
    /\ Adders \in Nat \ {0} /\ num_threads \in Nat \ {0} /\ num_threads_read \in Nat \ {0}

ASSUME WorkAssumption == Work \subseteq [own : Seq(Entry), pool : Seq(Seq(Entry))]

\* An entry stands for one call of add(): records that are equal in the program are
\* different entries here, told apart by a field that is not the key.
ASSUME DistinctAssumption ==
    \A w \in Work :
        /\ IsInjective(w.own)
        /\ \A j \in DOMAIN w.pool : IsInjective(w.pool[j]) /\ ToSet(w.pool[j]) \cap ToSet(w.own) = {}
        /\ \A i, j \in DOMAIN w.pool : i # j => ToSet(w.pool[i]) \cap ToSet(w.pool[j]) = {}

VARIABLES
    work,       \* what is to be added: own, by the owner, and pool, blocks for the pool
    given,      \* how many blocks the pool was given
    todo,       \* what each writer has still to add of its block
    cache,      \* the WriteCache of each writer: an array of buffers
    destroyed,  \* how many workers' caches were destroyed
    file,       \* the entries written to each bucket's file
    handle,     \* bucket_t::file
    exists,     \* the buckets whose file is on the disk
    is_finished,
    failed,     \* write() has thrown "read only"
    next, offset,   \* the loop of read(): next bucket to give, and its position
    reading,    \* the buckets in read_pool, in order
    passing,    \* what sort_thread holds: sequences of blocks
    sorting,    \* the blocks in sort_pool, in order
    output,     \* history: the blocks delivered
    closed

adding == <<work, given, todo, cache, destroyed>>
files == <<file, handle, exists, is_finished, failed>>
stages == <<next, offset, reading, passing, sorting, output>>
vars == <<work, given, todo, cache, destroyed, file, handle, exists, is_finished, failed,
          next, offset, reading, passing, sorting, output, closed>>

NumEntries(b) == Len(file[b])

-----------------------------------------------------------------------------
(* Writing *)

\* ThreadPool::take() waits for the worker whose turn it is.
GiveBlock ==
    LET w == given % Adders IN
    /\ given < Len(work.pool)
    /\ todo[w] = <<>>
    /\ todo' = [todo EXCEPT ![w] = work.pool[given + 1]]
    /\ given' = given + 1
    /\ UNCHANGED <<work, cache, destroyed, files, stages, closed>>

Full(buffer) == Len(buffer) >= Capacity

\* add(): a full buffer is written, under the bucket's mutex, to make room.
Add(w) ==
    LET e == Head(todo[w])
        b == BucketOf(e)
    IN
    /\ todo[w] # <<>>
    /\ todo' = [todo EXCEPT ![w] = Tail(@)]
    /\ IF Full(cache[w][b])
       THEN /\ file' = [file EXCEPT ![b] = @ \o cache[w][b]]
            /\ cache' = [cache EXCEPT ![w][b] = <<e>>]
       ELSE /\ cache' = [cache EXCEPT ![w][b] = Append(@, e)]
            /\ UNCHANGED file
    /\ UNCHANGED <<work, given, destroyed, handle, exists, is_finished, failed, stages, closed>>

Flushed(w) == [b \in Buckets |-> file[b] \o cache[w][b]]
Emptied(w) == [cache EXCEPT ![w] = [b \in Buckets |-> <<>>]]
HasData(w) == \E b \in Buckets : cache[w][b] # <<>>

Added == given = Len(work.pool) /\ \A w \in Caches : todo[w] = <<>>

\* close() of the pool destroys its workers' caches: ~WriteCache() flushes, and
\* write() throws when the DiskSort is finished.
DestroyCache ==
    /\ Added
    /\ destroyed < Adders
    /\ destroyed' = destroyed + 1
    /\ IF is_finished
       THEN failed' = (failed \/ HasData(destroyed)) /\ UNCHANGED <<file, cache>>
       ELSE file' = Flushed(destroyed) /\ cache' = Emptied(destroyed) /\ UNCHANGED failed
    /\ UNCHANGED <<work, given, todo, handle, exists, is_finished, stages, closed>>

\* (Defects, here and below: a definition in the form a plausible slip in that
\* code would give it, just before the definition itself.)
AllAdded == Added
PoolClosed == Added /\ destroyed = Adders

Finish ==
    /\ ~is_finished
    /\ PoolClosed
    /\ file' = Flushed(Own)
    /\ cache' = Emptied(Own)
    /\ handle' = [b \in Buckets |-> "null"]
    /\ is_finished' = TRUE
    /\ UNCHANGED <<work, given, todo, destroyed, exists, failed, stages, closed>>

-----------------------------------------------------------------------------
(* Reading *)

\* Position of the bucket after b, when b starts at pos
AfterCapacity(pos, b) == pos + Capacity
AfterBucket(pos, b) == pos + NumEntries(b)

GiveBucket ==
    /\ is_finished
    /\ next < 2^log_num_buckets
    /\ Len(reading) < num_threads_read
    /\ reading' = Append(reading, [bucket |-> next, offset |-> offset, state |-> "given", out |-> <<>>])
    /\ offset' = AfterBucket(offset, next)
    /\ next' = next + 1
    /\ UNCHANGED <<adding, files, passing, sorting, output, closed>>

\* The first half of read_bucket(): the file is opened.
OpenBucket(k) ==
    /\ k \in DOMAIN reading /\ reading[k].state = "given"
    /\ handle' = [handle EXCEPT ![reading[k].bucket] = "rb"]
    /\ reading' = [reading EXCEPT ![k].state = "open"]
    /\ UNCHANGED <<adding, file, exists, is_finished, failed, next, offset, passing, sorting, output, closed>>

\* A hash table of blocks, moved to a sorted map.
HashOrder(S) == CHOOSE s \in [1 .. Cardinality(S) -> S] : \A i, j \in DOMAIN s : i < j => s[i] > s[j]
KeyOrder(S) == CHOOSE s \in [1 .. Cardinality(S) -> S] : \A i, j \in DOMAIN s : i < j => s[i] < s[j]

\* The entries of one block, in the order they are read in
Within(data, block) ==
    LET taken[x \in 0 .. Len(data)] ==
            IF x = 0 THEN <<>>
            ELSE IF BlockOf(data[x]) = block THEN Append(taken[x - 1], data[x])
            ELSE taken[x - 1]
    IN  taken[Len(data)]

BlocksFrom(r) ==
    LET data == file[r.bucket]
        index == KeyOrder({BlockOf(e) : e \in ToSet(data)})
        block(i) == Within(data, index[i])
        pos[i \in 1 .. Len(index)] ==
            IF i = 1 THEN r.offset ELSE pos[i - 1] + Len(block(i - 1))
    IN  [i \in 1 .. Len(index) |-> [entries |-> block(i), offset |-> pos[i], sorted |-> FALSE]]

ClosedLater == "rb"
ClosedByRemove == "null"

\* The rest of read_bucket(): the entries are read and the file is removed.
ReadBucket(k) ==
    /\ k \in DOMAIN reading /\ reading[k].state = "open"
    /\ reading' = [reading EXCEPT ![k].state = "read", ![k].out = BlocksFrom(reading[k])]
    /\ handle' = [handle EXCEPT ![reading[k].bucket] = ClosedByRemove]
    /\ exists' = exists \ {reading[k].bucket}
    /\ UNCHANGED <<adding, file, is_finished, failed, next, offset, passing, sorting, output, closed>>

\* read_pool delivers to sort_thread, a Thread: two inputs at most.
DeliverBucket ==
    /\ reading # <<>> /\ Head(reading).state = "read"
    /\ Len(passing) < 2
    /\ passing' = Append(passing, Head(reading).out)
    /\ reading' = Tail(reading)
    /\ UNCHANGED <<adding, files, next, offset, sorting, output, closed>>

\* sort_thread gives the blocks of a bucket to sort_pool, one after the other.
PassBlock ==
    /\ passing # <<>> /\ Head(passing) # <<>>
    /\ Len(sorting) < num_threads
    /\ sorting' = Append(sorting, Head(Head(passing)))
    /\ passing' = [passing EXCEPT ![1] = Tail(@)]
    /\ UNCHANGED <<adding, files, next, offset, reading, output, closed>>

PassedBucket ==
    /\ passing # <<>> /\ Head(passing) = <<>>
    /\ passing' = Tail(passing)
    /\ UNCHANGED <<adding, files, next, offset, reading, sorting, output, closed>>

\* std::sort(): equal keys end up in any order.
Orders(s) ==
    {t \in SetToSeqs(ToSet(s)) : \A i, j \in 1 .. Len(t) : i < j => t[i].key <= t[j].key}

SortBlock(k) ==
    /\ k \in DOMAIN sorting /\ ~sorting[k].sorted
    /\ \E t \in Orders(sorting[k].entries) :
        sorting' = [sorting EXCEPT ![k].entries = t, ![k].sorted = TRUE]
    /\ UNCHANGED <<adding, files, next, offset, reading, passing, output, closed>>

DeliverBlock ==
    /\ sorting # <<>> /\ Head(sorting).sorted
    /\ output' = Append(output, [entries |-> Head(sorting).entries, offset |-> Head(sorting).offset])
    /\ sorting' = Tail(sorting)
    /\ UNCHANGED <<adding, files, next, offset, reading, passing, closed>>

ReadDone ==
    is_finished /\ next = 2^log_num_buckets /\ reading = <<>> /\ passing = <<>> /\ sorting = <<>>

\* close(), called by the destructor
Close ==
    /\ ReadDone /\ ~closed
    /\ handle' = [b \in Buckets |-> "null"]
    /\ exists' = {}
    /\ closed' = TRUE
    /\ UNCHANGED <<adding, file, is_finished, failed, stages>>

-----------------------------------------------------------------------------
Init ==
    /\ work \in Work
    /\ given = 0 /\ destroyed = 0
    /\ todo = [w \in Caches |-> IF w = Own THEN work.own ELSE <<>>]
    /\ cache = [w \in Caches |-> [b \in Buckets |-> <<>>]]
    /\ file = [b \in Buckets |-> <<>>]
    /\ handle = [b \in Buckets |-> "wb"]
    /\ exists = Buckets
    /\ is_finished = FALSE /\ failed = FALSE
    /\ next = 0 /\ offset = 0
    /\ reading = <<>> /\ passing = <<>> /\ sorting = <<>>
    /\ output = <<>>
    /\ closed = FALSE

Writing == GiveBlock \/ (\E w \in Caches : Add(w)) \/ DestroyCache \/ Finish
Sort == \E k \in 1 .. num_threads : SortBlock(k)
Read == \E k \in 1 .. num_threads_read : OpenBucket(k) \/ ReadBucket(k)
Pass == PassBlock \/ PassedBucket

Next == Writing \/ GiveBucket \/ Read \/ DeliverBucket \/ Pass \/ Sort \/ DeliverBlock \/ Close

Safety == Init /\ [][Next]_vars

\* The stages go on when they can, as modules Thread and ThreadPool show.
Fairness ==
    /\ WF_vars(Writing) /\ WF_vars(GiveBucket) /\ WF_vars(Read) /\ WF_vars(DeliverBucket)
    /\ WF_vars(Pass) /\ WF_vars(Sort) /\ WF_vars(DeliverBlock) /\ WF_vars(Close)

Spec == Safety /\ Fairness

-----------------------------------------------------------------------------
(* Properties *)

Blocks == [entries : Seq(Entry), offset : Nat, sorted : BOOLEAN]

\* The type of every variable; no buffer of a cache holds more than it has room for.
TypeOK ==
    /\ given \in 0 .. Len(work.pool) /\ destroyed \in 0 .. Adders
    /\ todo \in [Caches -> Seq(Entry)]
    /\ cache \in [Caches -> [Buckets -> Seq(Entry)]]
    /\ \A w \in Caches, b \in Buckets : Len(cache[w][b]) <= Capacity
    /\ file \in [Buckets -> Seq(Entry)]
    /\ handle \in [Buckets -> {"null", "wb", "rb"}]
    /\ exists \subseteq Buckets
    /\ is_finished \in BOOLEAN /\ failed \in BOOLEAN /\ closed \in BOOLEAN
    /\ next \in 0 .. 2^log_num_buckets /\ offset \in Nat
    /\ reading \in Seq([bucket : Buckets, offset : Nat, state : {"given", "open", "read"},
                         out : Seq(Blocks)])
    /\ passing \in Seq(Seq(Blocks))
    /\ sorting \in Seq(Blocks)
    /\ output \in Seq([entries : Seq(Entry), offset : Nat])

\* finish() leaves every added entry in the file of its bucket, although the
\* caches of the pool are only flushed when they are destroyed: no entry stays
\* behind in a cache, and no write() comes too late and throws "read only".
Entries == ToSet(work.own) \cup UNION {ToSet(work.pool[j]) : j \in DOMAIN work.pool}
FinishedIsComplete ==
    /\ ~failed
    /\ is_finished => \A e \in Entries : e \in ToSet(file[BucketOf(e)])

\* Every block comes with the number of entries before it, counted over buckets
\* that are read in parallel: the phases use it as the position of the block.
BlocksInPlace ==
    \A k \in 1 .. Len(output) :
        output[k].offset = Len(FlattenSeq([i \in 1 .. k - 1 |-> output[i].entries]))

\* At most one file per bucket while writing and one per reading thread after
\* that, as the limit main() raises ("num_files_max") counts on; no open file was
\* removed before, and nothing is left behind.
OpenFiles == {b \in Buckets : handle[b] # "null"}
FilesBounded ==
    /\ is_finished => Cardinality(OpenFiles) <= num_threads_read
    /\ OpenFiles \subseteq exists
    /\ closed => exists = {}

\* The promise of the abstract sorter: what is added before finish() is emitted
\* once, all of it and in ascending order.
NotAdded ==
    (UNION {ToSet(work.pool[j]) : j \in given + 1 .. Len(work.pool)})
        \cup (UNION {ToSet(todo[w]) : w \in Caches})
Abstract == INSTANCE Sorter WITH
    content <- Entries \ NotAdded,
    sealed <- is_finished,
    emitted <- FlattenSeq([k \in 1 .. Len(output) |-> output[k].entries])
ImplementsSorter == Abstract!Spec
=============================================================================
