--------------------------- MODULE DiskSortProofs ---------------------------
(***************************************************************************)
(* Proofs about sorting on disk, for any entries, any number of buckets,   *)
(* threads and writers and any size of the caches.                         *)
(*                                                                         *)
(* Writing: finish() leaves every entry that was added in the file of its  *)
(* bucket (FinishedIsComplete).  The inductive invariant follows each      *)
(* entry from the input blocks to a writer, from the writer to its cache   *)
(* and from the cache to the file (Accounted); it needs that a cache that  *)
(* was destroyed, or belongs to a finished DiskSort, is empty and gets     *)
(* nothing more (Drained).                                                 *)
(*                                                                         *)
(* Reading gives back what was written: every block comes at its position  *)
(* (BlocksInPlace), the open files stay bounded (FilesBounded), the types  *)
(* hold, with room in every cache (TypeOK), and DiskSort implements the    *)
(* abstract sorter step by step (Abstract!Safety).  The invariant has      *)
(* three more parts.  Once: an entry is in one place, so the file of a     *)
(* bucket lists its entries without repetition, and the length of a file   *)
(* is the number of its entries.  Stages: what is in read_pool, in         *)
(* sort_thread, in sort_pool and delivered; at every stage blocks are      *)
(* whole, with the number of smaller entries as their position, and in the *)
(* order of their keys, and no entry is lost between the stages.  Handles: *)
(* a file is open while a job of read_pool reads it, and is there until    *)
(* then.                                                                   *)
(***************************************************************************)
EXTENDS DiskSort, InductionFacts

-----------------------------------------------------------------------------
(* Sequences as sets of their elements *)

LEMMA ToSetConcat ==
    ASSUME NEW S, NEW s \in Seq(S), NEW t \in Seq(S)
    PROVE  ToSet(s \o t) = ToSet(s) \cup ToSet(t)
<1>1. \A i \in DOMAIN s : i \in DOMAIN (s \o t) /\ (s \o t)[i] = s[i]
  OBVIOUS
<1>2. \A i \in DOMAIN t : Len(s) + i \in DOMAIN (s \o t) /\ (s \o t)[Len(s) + i] = t[i]
  OBVIOUS
<1>3. \A i \in DOMAIN (s \o t) :
          i \in DOMAIN s \/ (i - Len(s) \in DOMAIN t /\ (s \o t)[i] = t[i - Len(s)])
  <2> TAKE i \in DOMAIN (s \o t)
  <2>1. i \in 1 .. Len(s) + Len(t)
    OBVIOUS
  <2>2. CASE i \in 1 .. Len(s)
    BY <2>2
  <2>3. CASE i \in Len(s) + 1 .. Len(s) + Len(t)
    BY <2>3
  <2>4. QED
    BY <2>1, <2>2, <2>3
<1>4. ASSUME NEW x \in ToSet(s \o t) PROVE x \in ToSet(s) \cup ToSet(t)
  BY <1>3, <1>1, <1>4 DEF ToSet
<1>5. ToSet(s) \subseteq ToSet(s \o t) /\ ToSet(t) \subseteq ToSet(s \o t)
  BY <1>1, <1>2 DEF ToSet
<1>6. QED
  BY <1>4, <1>5

LEMMA ToSetAppend ==
    ASSUME NEW S, NEW s \in Seq(S), NEW e \in S
    PROVE  ToSet(Append(s, e)) = ToSet(s) \cup {e}
<1>1. \A i \in DOMAIN s : i \in DOMAIN Append(s, e) /\ Append(s, e)[i] = s[i]
  OBVIOUS
<1>2. Len(s) + 1 \in DOMAIN Append(s, e) /\ Append(s, e)[Len(s) + 1] = e
  OBVIOUS
<1>3. \A i \in DOMAIN Append(s, e) : i \in DOMAIN s \/ i = Len(s) + 1
  OBVIOUS
<1>4. QED
  BY <1>1, <1>2, <1>3 DEF ToSet

LEMMA ToSetHeadTail ==
    ASSUME NEW S, NEW s \in Seq(S), s # <<>>
    PROVE  /\ Head(s) \in S /\ Tail(s) \in Seq(S)
           /\ ToSet(s) = {Head(s)} \cup ToSet(Tail(s))
<1>1. Head(s) \in S /\ Tail(s) \in Seq(S)
  OBVIOUS
<1>2. 1 \in DOMAIN s /\ s[1] = Head(s)
  OBVIOUS
<1>3. \A i \in DOMAIN Tail(s) : i + 1 \in DOMAIN s /\ Tail(s)[i] = s[i + 1]
  OBVIOUS
<1>4. ASSUME NEW i \in DOMAIN s, i # 1
      PROVE  i - 1 \in DOMAIN Tail(s) /\ s[i] = Tail(s)[i - 1]
  <2>1. i - 1 \in 1 .. Len(s) - 1 /\ DOMAIN Tail(s) = 1 .. Len(s) - 1
    BY <1>4
  <2>2. Tail(s)[i - 1] = s[(i - 1) + 1]
    BY <2>1
  <2>3. QED
    BY <2>1, <2>2
<1>5. ASSUME NEW x \in ToSet(s) PROVE x \in {Head(s)} \cup ToSet(Tail(s))
  BY <1>2, <1>4, <1>5 DEF ToSet
<1>6. Head(s) \in ToSet(s) /\ ToSet(Tail(s)) \subseteq ToSet(s)
  BY <1>2, <1>3 DEF ToSet
<1>7. QED
  BY <1>1, <1>5, <1>6

LEMMA ToSetSingleton == ASSUME NEW e PROVE ToSet(<<e>>) = {e}
BY DEF ToSet

-----------------------------------------------------------------------------
(* The inductive invariant *)

TypeInv ==
    /\ work \in [own : Seq(Entry), pool : Seq(Seq(Entry))]
    /\ given \in 0 .. Len(work.pool)
    /\ destroyed \in 0 .. Adders
    /\ todo \in [Caches -> Seq(Entry)]
    /\ cache \in [Caches -> [Buckets -> Seq(Entry)]]
    /\ file \in [Buckets -> Seq(Entry)]
    /\ is_finished \in BOOLEAN

\* Every entry is in a block still to be given, with a writer, in a cache or in
\* the file of its bucket.
Ungiven(e) == \E j \in given + 1 .. Len(work.pool) : e \in ToSet(work.pool[j])
Held(e) == \E w \in Caches : e \in ToSet(todo[w]) \/ e \in ToSet(cache[w][BucketOf(e)])
Written(e) == e \in ToSet(file[BucketOf(e)])
Accounted == \A e \in Entries : Ungiven(e) \/ Held(e) \/ Written(e)

Empty(w) == \A b \in Buckets : cache[w][b] = <<>>
Drained ==
    /\ ~failed
    /\ destroyed > 0 \/ is_finished => Added
    /\ \A w \in Caches : w < destroyed \/ is_finished => Empty(w)
    /\ is_finished => destroyed = Adders

Inv == TypeInv /\ Accounted /\ Drained

LEMMA EntryBucket ==
    TypeInv => Entries \subseteq Entry /\ \A e \in Entries : BucketOf(e) \in Buckets
<1> SUFFICES ASSUME TypeInv, NEW e \in Entries PROVE e \in Entry
  BY KeyAssumption
<1>1. CASE e \in ToSet(work.own)
  BY <1>1 DEF TypeInv, ToSet
<1>2. ASSUME NEW j \in DOMAIN work.pool, e \in ToSet(work.pool[j]) PROVE e \in Entry
  BY <1>2 DEF TypeInv, ToSet
<1>3. QED
  BY <1>1, <1>2 DEF Entries

LEMMA InvImpliesFinishedIsComplete == Inv => FinishedIsComplete
<1> SUFFICES ASSUME Inv PROVE FinishedIsComplete
  OBVIOUS
<1>1. ~failed
  BY DEF Inv, Drained
<1>2. ASSUME is_finished, NEW e \in Entries PROVE Written(e)
  <2>1. ~Ungiven(e)
    BY <1>2 DEF Inv, Drained, Added, Ungiven, TypeInv
  <2>2. BucketOf(e) \in Buckets
    BY EntryBucket DEF Inv
  <2>3. ASSUME NEW w \in Caches PROVE e \notin ToSet(todo[w]) /\ e \notin ToSet(cache[w][BucketOf(e)])
    <3>1. todo[w] = <<>> /\ cache[w][BucketOf(e)] = <<>>
      BY <1>2, <2>2 DEF Inv, Drained, Added, Empty
    <3>2. ToSet(<<>>) = {}
      BY DEF ToSet
    <3>3. QED
      BY <3>1, <3>2
  <2>4. QED
    BY <2>1, <2>3 DEF Inv, Accounted, Held
<1>3. QED
  BY <1>1, <1>2 DEF FinishedIsComplete, Written

-----------------------------------------------------------------------------
LEMMA EmptyArray ==
    /\ [b \in Buckets |-> <<>>] \in [Buckets -> Seq(Entry)]
    /\ \A d \in Buckets : [b \in Buckets |-> <<>>][d] = <<>>
<1>1. <<>> \in Seq(Entry)
  OBVIOUS
<1>2. QED
  BY <1>1, Zenon

LEMMA InitInv == Init => Inv
<1> SUFFICES ASSUME Init PROVE Inv
  OBVIOUS
<1>1. TypeInv
  <2>1. work \in [own : Seq(Entry), pool : Seq(Seq(Entry))]
    BY WorkAssumption DEF Init
  <2>2. work.own \in Seq(Entry) /\ Len(work.pool) \in Nat
    BY <2>1
  <2>3. todo \in [Caches -> Seq(Entry)]
    BY <2>2 DEF Init
  <2>4. /\ cache \in [Caches -> [Buckets -> Seq(Entry)]]
        /\ file \in [Buckets -> Seq(Entry)]
    <3>1. file = [b \in Buckets |-> <<>>] /\ cache = [w \in Caches |-> [b \in Buckets |-> <<>>]]
      BY DEF Init
    <3>2. QED
      BY <3>1, EmptyArray, Zenon
  <2>5. given \in 0 .. Len(work.pool) /\ destroyed \in 0 .. Adders /\ is_finished \in BOOLEAN
    <3>1. given = 0 /\ destroyed = 0 /\ is_finished = FALSE
      BY DEF Init
    <3>2. given \in 0 .. Len(work.pool) /\ destroyed \in 0 .. Adders
      BY <2>2, <3>1, ThreadsAssumption
    <3>3. is_finished \in BOOLEAN
      BY <3>1, Zenon
    <3>4. QED
      BY <3>2, <3>3
  <2>6. QED
    BY <2>1, <2>3, <2>4, <2>5 DEF TypeInv
<1>2. Drained
  BY <1>1, ThreadsAssumption DEF Init, Drained, TypeInv, Caches, Pool, Own
<1>3. ASSUME NEW e \in Entries PROVE Ungiven(e) \/ Held(e)
  <2>1. CASE e \in ToSet(work.own)
    <3>1. Own \in Caches /\ todo[Own] = work.own
      BY DEF Init, Caches
    <3>2. QED
      BY <2>1, <3>1 DEF Held
  <2>2. ASSUME NEW j \in DOMAIN work.pool, e \in ToSet(work.pool[j]) PROVE Ungiven(e)
    <3>1. j \in given + 1 .. Len(work.pool)
      BY <1>1 DEF Init, TypeInv
    <3>2. QED
      BY <2>2, <3>1 DEF Ungiven
  <2>3. QED
    BY <2>1, <2>2 DEF Entries
<1>4. QED
  BY <1>1, <1>2, <1>3 DEF Inv, Accounted

LEMMA GiveBlockInv == Inv /\ GiveBlock => Inv'
<1> SUFFICES ASSUME Inv, GiveBlock PROVE Inv'
  OBVIOUS
<1> DEFINE w == given % Adders
<1>1. w \in Caches /\ given + 1 \in 1 .. Len(work.pool)
  BY ThreadsAssumption DEF Inv, TypeInv, GiveBlock, Caches, Pool
<1>2. /\ todo[w] = <<>>
      /\ todo' = [todo EXCEPT ![w] = work.pool[given + 1]]
      /\ given' = given + 1
      /\ UNCHANGED <<work, cache, destroyed, file, is_finished, failed>>
  BY DEF GiveBlock, files
<1> HIDE DEF w
<1>3. TypeInv'
  BY <1>1, <1>2 DEF Inv, TypeInv
<1>4. ASSUME NEW e \in Entries PROVE (Ungiven(e) \/ Held(e) \/ Written(e))'
  <2>1. CASE Ungiven(e)
    <3>1. PICK j \in given + 1 .. Len(work.pool) : e \in ToSet(work.pool[j])
      BY <2>1 DEF Ungiven
    <3>2. CASE j = given + 1
      <4>1. e \in ToSet(todo'[w])
        BY <3>1, <3>2, <1>1, <1>2 DEF Inv, TypeInv
      <4>2. QED
        BY <4>1, <1>1 DEF Held
    <3>3. CASE j # given + 1
      BY <3>1, <3>3, <1>2 DEF Inv, TypeInv, Ungiven
    <3>4. QED
      BY <3>2, <3>3
  <2>2. CASE Held(e)
    <3>1. PICK x \in Caches : e \in ToSet(todo[x]) \/ e \in ToSet(cache[x][BucketOf(e)])
      BY <2>2 DEF Held
    <3>2. ToSet(<<>>) = {}
      BY DEF ToSet
    <3>3. e \in ToSet(todo'[x]) \/ e \in ToSet(cache'[x][BucketOf(e)])
      BY <3>1, <3>2, <1>1, <1>2 DEF Inv, TypeInv
    <3>4. QED
      BY <3>3 DEF Held
  <2>3. CASE Written(e)
    BY <2>3, <1>2 DEF Written
  <2>4. QED
    BY <2>1, <2>2, <2>3 DEF Inv, Accounted
<1>5. Entries' = Entries
  BY <1>2 DEF Entries
<1>6. ~Added
  BY <1>1 DEF Added, Inv, TypeInv
<1>7. Drained'
  BY <1>2, <1>6 DEF Inv, TypeInv, Drained, Empty
<1>8. QED
  BY <1>3, <1>4, <1>5, <1>7 DEF Inv, Accounted

LEMMA AddInv == ASSUME NEW w \in Caches PROVE Inv /\ Add(w) => Inv'
<1> SUFFICES ASSUME Inv, Add(w) PROVE Inv'
  OBVIOUS
<1> DEFINE a == Head(todo[w])
           b == BucketOf(a)
<1>1. todo[w] \in Seq(Entry) /\ todo[w] # <<>>
  BY DEF Inv, TypeInv, Add
<1>2. /\ a \in Entry /\ b \in Buckets
      /\ Tail(todo[w]) \in Seq(Entry)
      /\ ToSet(todo[w]) = {a} \cup ToSet(Tail(todo[w]))
  BY <1>1, ToSetHeadTail, KeyAssumption
<1>3. /\ todo' = [todo EXCEPT ![w] = Tail(todo[w])]
      /\ UNCHANGED <<work, given, destroyed, is_finished, failed>>
      /\ \/ /\ file' = [file EXCEPT ![b] = file[b] \o cache[w][b]]
            /\ cache' = [cache EXCEPT ![w][b] = <<a>>]
         \/ /\ cache' = [cache EXCEPT ![w][b] = Append(cache[w][b], a)]
            /\ file' = file
  BY DEF Add
<1> HIDE DEF a, b
<1>4. cache[w] \in [Buckets -> Seq(Entry)] /\ cache[w][b] \in Seq(Entry) /\ file[b] \in Seq(Entry)
  BY <1>2 DEF Inv, TypeInv
<1>5. /\ todo' \in [Caches -> Seq(Entry)]
      /\ todo'[w] = Tail(todo[w])
      /\ \A x \in Caches : x # w => todo'[x] = todo[x]
  BY <1>2, <1>3 DEF Inv, TypeInv
<1> DEFINE Result(buffer, data) ==
             /\ cache' = [cache EXCEPT ![w] = [cache[w] EXCEPT ![b] = buffer]]
             /\ file' = [file EXCEPT ![b] = data]
<1>6. ASSUME NEW buffer \in Seq(Entry), NEW data \in Seq(Entry),
             Result(buffer, data),
             a \in ToSet(buffer),
             ToSet(file[b]) \subseteq ToSet(data),
             ToSet(cache[w][b]) \subseteq ToSet(buffer) \cup ToSet(data)
      PROVE  /\ cache' \in [Caches -> [Buckets -> Seq(Entry)]]
             /\ file' \in [Buckets -> Seq(Entry)]
             /\ a \in ToSet(cache'[w][b])
             /\ \A d \in Buckets : ToSet(file[d]) \subseteq ToSet(file'[d])
             /\ \A x \in Caches, d \in Buckets :
                   ToSet(cache[x][d]) \subseteq ToSet(cache'[x][d]) \cup ToSet(file'[d])
             /\ \A x \in Caches : x # w => cache'[x] = cache[x]
  <2> DEFINE new == [cache[w] EXCEPT ![b] = buffer]
  <2>1. new \in [Buckets -> Seq(Entry)] /\ new[b] = buffer /\ \A d \in Buckets : d # b => new[d] = cache[w][d]
    BY <1>2, <1>4
  <2>2. cache' = [cache EXCEPT ![w] = new] /\ file' = [file EXCEPT ![b] = data]
    BY <1>6
  <2> HIDE DEF new
  <2>3. /\ cache' \in [Caches -> [Buckets -> Seq(Entry)]]
        /\ cache'[w] = new /\ \A x \in Caches : x # w => cache'[x] = cache[x]
    BY <2>1, <2>2 DEF Inv, TypeInv
  <2>4. /\ file' \in [Buckets -> Seq(Entry)]
        /\ file'[b] = data /\ \A d \in Buckets : d # b => file'[d] = file[d]
    BY <1>2, <2>2 DEF Inv, TypeInv
  <2>5. a \in ToSet(cache'[w][b])
    BY <1>6, <2>1, <2>3
  <2>6. \A d \in Buckets : ToSet(file[d]) \subseteq ToSet(file'[d])
    BY <1>6, <2>4
  <2>7. ASSUME NEW x \in Caches, NEW d \in Buckets
        PROVE  ToSet(cache[x][d]) \subseteq ToSet(cache'[x][d]) \cup ToSet(file'[d])
    <3>1. CASE x # w
      BY <3>1, <2>3
    <3>2. CASE x = w /\ d # b
      BY <3>2, <2>1, <2>3
    <3>3. CASE x = w /\ d = b
      BY <3>3, <1>6, <2>1, <2>3, <2>4
    <3>4. QED
      BY <3>1, <3>2, <3>3
  <2>8. QED
    BY <2>3, <2>4, <2>5, <2>6, <2>7
<1> HIDE DEF Result
<1>7. \E buffer, data \in Seq(Entry) :
          /\ Result(buffer, data)
          /\ a \in ToSet(buffer)
          /\ ToSet(file[b]) \subseteq ToSet(data)
          /\ ToSet(cache[w][b]) \subseteq ToSet(buffer) \cup ToSet(data)
  <2>1. CASE /\ file' = [file EXCEPT ![b] = file[b] \o cache[w][b]]
             /\ cache' = [cache EXCEPT ![w][b] = <<a>>]
    <3>1. Result(<<a>>, file[b] \o cache[w][b])
      BY <2>1 DEF Result
    <3>2. <<a>> \in Seq(Entry) /\ file[b] \o cache[w][b] \in Seq(Entry)
      BY <1>2, <1>4
    <3>3. ToSet(<<a>>) = {a} /\ ToSet(file[b] \o cache[w][b]) = ToSet(file[b]) \cup ToSet(cache[w][b])
      BY <1>4, ToSetConcat, ToSetSingleton
    <3>4. QED
      BY <3>1, <3>2, <3>3
  <2>2. CASE /\ cache' = [cache EXCEPT ![w][b] = Append(cache[w][b], a)]
             /\ file' = file
    <3>1. Result(Append(cache[w][b], a), file[b])
      BY <2>2, <1>4 DEF Result, Inv, TypeInv
    <3>2. Append(cache[w][b], a) \in Seq(Entry)
      BY <1>2, <1>4
    <3>3. ToSet(Append(cache[w][b], a)) = ToSet(cache[w][b]) \cup {a}
      BY <1>2, <1>4, ToSetAppend
    <3>4. QED
      BY <3>1, <3>2, <3>3, <1>4
  <2>3. QED
    BY <1>3, <2>1, <2>2
<1>8. /\ cache' \in [Caches -> [Buckets -> Seq(Entry)]]
      /\ file' \in [Buckets -> Seq(Entry)]
      /\ a \in ToSet(cache'[w][b])
      /\ \A d \in Buckets : ToSet(file[d]) \subseteq ToSet(file'[d])
      /\ \A x \in Caches, d \in Buckets :
            ToSet(cache[x][d]) \subseteq ToSet(cache'[x][d]) \cup ToSet(file'[d])
  BY <1>6, <1>7
<1>9. TypeInv'
  BY <1>3, <1>5, <1>8 DEF Inv, TypeInv
<1>10. ASSUME NEW e \in Entries PROVE (Ungiven(e) \/ Held(e) \/ Written(e))'
  <2>1. BucketOf(e) \in Buckets
    BY EntryBucket DEF Inv
  <2>2. CASE Ungiven(e)
    BY <2>2, <1>3 DEF Ungiven
  <2>3. CASE Written(e)
    BY <2>1, <2>3, <1>8 DEF Written
  <2>4. ASSUME NEW x \in Caches, e \in ToSet(todo[x]) PROVE (Held(e))'
    <3>1. CASE e \in ToSet(todo'[x])
      BY <3>1 DEF Held
    <3>2. CASE e = a
      BY <3>2, <1>8 DEF Held, b
    <3>3. QED
      BY <2>4, <3>1, <3>2, <1>2, <1>5
  <2>5. ASSUME NEW x \in Caches, e \in ToSet(cache[x][BucketOf(e)])
        PROVE  (Held(e) \/ Written(e))'
    BY <2>1, <2>5, <1>8 DEF Held, Written
  <2>6. QED
    BY <2>2, <2>3, <2>4, <2>5 DEF Inv, Accounted, Held
<1>11. Entries' = Entries
  BY <1>3 DEF Entries
<1>12. ~Added
  BY <1>1 DEF Added
<1>13. Drained'
  <2>1. ~is_finished /\ destroyed = 0
    BY <1>12 DEF Inv, Drained, TypeInv
  <2>2. QED
    BY <1>3, <2>1 DEF Inv, Drained, TypeInv, Caches, Pool, Own
<1>14. QED
  BY <1>9, <1>10, <1>11, <1>13 DEF Inv, Accounted

LEMMA FlushedFile ==
    ASSUME TypeInv, NEW w \in Caches, file' = [b \in Buckets |-> file[b] \o cache[w][b]]
    PROVE  /\ file' \in [Buckets -> Seq(Entry)]
           /\ \A d \in Buckets : ToSet(file'[d]) = ToSet(file[d]) \cup ToSet(cache[w][d])
<1>1. ASSUME NEW d \in Buckets
      PROVE  /\ file'[d] = file[d] \o cache[w][d]
             /\ file[d] \in Seq(Entry) /\ cache[w][d] \in Seq(Entry)
  BY DEF TypeInv
<1>2. ASSUME NEW d \in Buckets PROVE file[d] \o cache[w][d] \in Seq(Entry)
  <2>1. \A s, t \in Seq(Entry) : s \o t \in Seq(Entry)
    OBVIOUS
  <2>2. QED
    BY <1>1, <2>1, Zenon
<1>3. QED
  BY <1>1, <1>2, ToSetConcat

\* A flush moves what a cache holds to the files.
LEMMA FlushKeepsAccount ==
    ASSUME Inv, NEW w \in Caches,
           UNCHANGED <<work, given, todo>>,
           \A x \in Caches : x # w => cache'[x] = cache[x],
           \A d \in Buckets : ToSet(file'[d]) = ToSet(file[d]) \cup ToSet(cache[w][d])
    PROVE  Accounted'
<1>1. Entries' = Entries
  BY DEF Entries
<1>2. ASSUME NEW e \in Entries PROVE (Ungiven(e) \/ Held(e) \/ Written(e))'
  <2>1. BucketOf(e) \in Buckets
    BY EntryBucket DEF Inv
  <2>2. CASE Ungiven(e)
    BY <2>2 DEF Ungiven
  <2>3. CASE Written(e)
    BY <2>1, <2>3 DEF Written
  <2>4. ASSUME NEW x \in Caches, e \in ToSet(todo[x]) PROVE (Held(e))'
    BY <2>4 DEF Held
  <2>5. ASSUME NEW x \in Caches, e \in ToSet(cache[x][BucketOf(e)])
        PROVE  (Held(e) \/ Written(e))'
    BY <2>1, <2>5 DEF Held, Written
  <2>6. QED
    BY <2>2, <2>3, <2>4, <2>5 DEF Inv, Accounted, Held
<1>3. QED
  BY <1>1, <1>2 DEF Accounted

LEMMA DestroyCacheInv == Inv /\ DestroyCache => Inv'
<1> SUFFICES ASSUME Inv, DestroyCache PROVE Inv'
  OBVIOUS
<1>1. destroyed \in Caches /\ ~is_finished
  BY ThreadsAssumption DEF Inv, TypeInv, DestroyCache, Drained, Caches, Pool
<1>2. /\ Added
      /\ destroyed' = destroyed + 1
      /\ file' = [b \in Buckets |-> file[b] \o cache[destroyed][b]]
      /\ cache' = [cache EXCEPT ![destroyed] = [b \in Buckets |-> <<>>]]
      /\ UNCHANGED <<work, given, todo, is_finished, failed>>
  BY <1>1 DEF DestroyCache, Flushed, Emptied
<1> DEFINE none == [b \in Buckets |-> <<>>]
<1>3. none \in [Buckets -> Seq(Entry)] /\ \A b \in Buckets : none[b] = <<>>
  BY EmptyArray
<1>4. cache' = [cache EXCEPT ![destroyed] = none]
  BY <1>2
<1> HIDE DEF none
<1>5. /\ cache' \in [Caches -> [Buckets -> Seq(Entry)]]
      /\ cache'[destroyed] = none
      /\ \A x \in Caches : x # destroyed => cache'[x] = cache[x]
  BY <1>1, <1>3, <1>4 DEF Inv, TypeInv
<1>6. /\ file' \in [Buckets -> Seq(Entry)]
      /\ \A d \in Buckets : ToSet(file'[d]) = ToSet(file[d]) \cup ToSet(cache[destroyed][d])
  BY <1>1, <1>2, FlushedFile DEF Inv
<1>7. TypeInv'
  BY <1>1, <1>2, <1>5, <1>6, ThreadsAssumption DEF Inv, TypeInv, DestroyCache
<1>8. Accounted'
  BY <1>1, <1>2, <1>5, <1>6, FlushKeepsAccount DEF Inv
<1>9. Drained'
  <2>1. Added' /\ ~failed' /\ ~is_finished'
    BY <1>1, <1>2 DEF Added, Inv, Drained
  <2>2. ASSUME NEW x \in Caches, x < destroyed' PROVE (Empty(x))'
    <3>1. CASE x = destroyed
      BY <3>1, <1>3, <1>5 DEF Empty
    <3>2. CASE x # destroyed
      <4>1. x < destroyed
        BY <2>2, <3>2, <1>2, ThreadsAssumption DEF Inv, TypeInv, Caches, Pool, Own
      <4>2. QED
        BY <4>1, <3>2, <1>5 DEF Inv, Drained, Empty
    <3>3. QED
      BY <3>1, <3>2
  <2>3. QED
    BY <2>1, <2>2 DEF Drained
<1>10. QED
  BY <1>7, <1>8, <1>9 DEF Inv

LEMMA FinishInv == Inv /\ Finish => Inv'
<1> SUFFICES ASSUME Inv, Finish PROVE Inv'
  OBVIOUS
<1>1. Own \in Caches /\ Added /\ destroyed = Adders
  BY DEF Finish, PoolClosed, Caches
<1>2. /\ file' = Flushed(Own)
      /\ cache' = [cache EXCEPT ![Own] = [b \in Buckets |-> <<>>]]
      /\ is_finished'
      /\ UNCHANGED <<work, given, todo, destroyed, failed>>
  BY DEF Finish, Emptied
<1> DEFINE none == [b \in Buckets |-> <<>>]
<1>3. none \in [Buckets -> Seq(Entry)] /\ \A b \in Buckets : none[b] = <<>>
  BY EmptyArray
<1>4. cache' = [cache EXCEPT ![Own] = none]
  BY <1>2
<1> HIDE DEF none
<1>5. /\ cache' \in [Caches -> [Buckets -> Seq(Entry)]]
      /\ cache'[Own] = none
      /\ \A x \in Caches : x # Own => cache'[x] = cache[x]
  BY <1>1, <1>3, <1>4 DEF Inv, TypeInv
<1>6. /\ file' \in [Buckets -> Seq(Entry)]
      /\ \A d \in Buckets : ToSet(file'[d]) = ToSet(file[d]) \cup ToSet(cache[Own][d])
  BY <1>1, <1>2, FlushedFile DEF Flushed, Inv
<1>7. TypeInv'
  <2>1. is_finished' \in BOOLEAN
    BY DEF Finish
  <2>2. QED
    BY <1>2, <1>5, <1>6, <2>1 DEF Inv, TypeInv
<1>8. Accounted'
  BY <1>1, <1>2, <1>5, <1>6, FlushKeepsAccount DEF Inv
<1>9. Drained'
  <2>1. Added' /\ ~failed'
    BY <1>1, <1>2 DEF Added, Inv, Drained
  <2>2. ASSUME NEW x \in Caches PROVE (Empty(x))'
    <3>1. CASE x = Own
      BY <3>1, <1>3, <1>5 DEF Empty
    <3>2. CASE x # Own
      <4>1. x < destroyed
        BY <3>2, <1>1, ThreadsAssumption DEF Caches, Pool, Own
      <4>2. QED
        BY <4>1, <3>2, <1>5 DEF Inv, Drained, Empty
    <3>3. QED
      BY <3>1, <3>2
  <2>3. QED
    BY <1>1, <1>2, <2>1, <2>2 DEF Drained
<1>10. QED
  BY <1>7, <1>8, <1>9 DEF Inv

\* Every other step leaves the writers' side alone.
LEMMA OtherInv ==
    Inv /\ UNCHANGED <<adding, file, is_finished, failed>> => Inv'
<1> SUFFICES ASSUME Inv, UNCHANGED <<adding, file, is_finished, failed>> PROVE Inv'
  OBVIOUS
<1>1. UNCHANGED <<work, given, todo, cache, destroyed, file, is_finished, failed>>
  BY DEF adding
<1>2. TypeInv'
  BY <1>1 DEF Inv, TypeInv
<1>3. Drained'
  BY <1>1 DEF Inv, Drained, Added, Empty
<1>4. Accounted'
  BY <1>1 DEF Inv, Accounted, Entries, Ungiven, Held, Written
<1>5. QED
  BY <1>2, <1>3, <1>4 DEF Inv

LEMMA NextInv == Inv /\ [Next]_vars => Inv'
<1> SUFFICES ASSUME Inv, [Next]_vars PROVE Inv'
  OBVIOUS
<1>1. CASE Writing
  BY <1>1, GiveBlockInv, AddInv, DestroyCacheInv, FinishInv DEF Writing
<1>2. CASE GiveBucket \/ DeliverBucket \/ DeliverBlock \/ Close
  BY <1>2, OtherInv DEF GiveBucket, DeliverBucket, DeliverBlock, Close, files
<1>3. CASE Pass
  BY <1>3, OtherInv DEF Pass, PassBlock, PassedBucket, files
<1>4. CASE Read
  BY <1>4, OtherInv DEF Read, OpenBucket, ReadBucket
<1>5. CASE Sort
  BY <1>5, OtherInv DEF Sort, SortBlock, files
<1>6. CASE UNCHANGED vars
  BY <1>6, OtherInv DEF vars, adding
<1>7. QED
  BY <1>1, <1>2, <1>3, <1>4, <1>5, <1>6 DEF Next

\* finish() leaves every added entry in the file of its bucket: no write cache
\* of the pool (DiskSort.hpp, ~WriteCache) keeps one back or flushes too late.
THEOREM FilesAreComplete == Spec => []FinishedIsComplete
<1>1. Safety => []Inv
  BY InitInv, NextInv, PTL DEF Safety
<1>2. QED
  BY <1>1, InvImpliesFinishedIsComplete, PTL DEF Spec

-----------------------------------------------------------------------------
(* Keys, blocks and buckets *)

\* A block lies in one bucket, and both are in the order of the keys.
LEMMA BlockOrder ==
    ASSUME NEW e \in Entry, NEW f \in Entry
    PROVE  /\ BlockOf(e) \in Nat /\ BucketOf(e) \in Nat
           /\ BlockOf(e) < BlockOf(f) => e.key < f.key
           /\ BucketOf(e) < BucketOf(f) => BlockOf(e) < BlockOf(f)
           /\ BlockOf(e) = BlockOf(f) => BucketOf(e) = BucketOf(f)
<1> DEFINE d == 2^block_key_shift
           c == 2^log_num_buckets
<1>1. e.key \in Nat /\ f.key \in Nat
  BY KeyAssumption
<1>2. /\ block_key_shift \in Nat /\ log_num_buckets \in Nat
      /\ bucket_key_shift = block_key_shift + log_num_buckets
  BY KeyAssumption DEF block_key_shift, bucket_key_shift
<1>3. d \in Nat \ {0} /\ c \in Nat \ {0}
  BY <1>2, PowerOfTwo
<1>4. 2^bucket_key_shift = d * c
  BY <1>2, PowerSum
<1>5. BlockOf(e) = e.key \div d /\ BlockOf(f) = f.key \div d
  BY DEF BlockOf
<1>6. BucketOf(e) = e.key \div (d * c) /\ BucketOf(f) = f.key \div (d * c)
  BY <1>4 DEF BucketOf
<1> HIDE DEF c, d
<1>7. BlockOf(e) \in Nat /\ BlockOf(f) \in Nat
  BY <1>1, <1>3, <1>5, Division
<1>8. f.key <= e.key => BlockOf(f) <= BlockOf(e)
  BY <1>1, <1>3, <1>5, Division
<1>9. BucketOf(e) = BlockOf(e) \div c /\ BucketOf(f) = BlockOf(f) \div c
  BY ZenonT(60), <1>1, <1>3, <1>5, <1>6, Division
<1>10. BucketOf(e) \in Nat /\ BucketOf(f) \in Nat
  BY <1>3, <1>7, <1>9, Division
<1>11. BlockOf(f) <= BlockOf(e) => BucketOf(f) <= BucketOf(e)
  BY <1>3, <1>7, <1>9, Division
<1>12. QED
  BY <1>1, <1>7, <1>8, <1>9, <1>10, <1>11

-----------------------------------------------------------------------------
(* What read_bucket() makes of the entries of a bucket *)

\* The loop over the entries of a bucket gives a block all that belong to it.
LEMMA WithinBlock ==
    ASSUME NEW data \in Seq(Entry), NEW block
    PROVE  /\ Within(data, block) \in Seq(Entry)
           /\ ToSet(Within(data, block)) = {e \in ToSet(data) : BlockOf(e) = block}
           /\ IsInjective(data) => IsInjective(Within(data, block))
<1> DEFINE W == Seq(Entry)
           none == <<>>
           n == Len(data)
           step == [x \in 1 .. n |-> [v \in W |-> IF BlockOf(data[x]) = block THEN Append(v, data[x]) ELSE v]]
           Takes(t) == t = [x \in 0 .. n |-> IF x = 0 THEN <<>>
                                             ELSE IF BlockOf(data[x]) = block THEN Append(t[x - 1], data[x])
                                             ELSE t[x - 1]]
           taken == CHOOSE t : Takes(t)
<1>1. n \in Nat /\ none \in W /\ \A x \in 1 .. n : data[x] \in Entry
  OBVIOUS
<1>2. \E t : Takes(t)
  <2>1. step \in [1 .. n -> [W -> W]]
    BY <1>1
  <2>2. \A x \in 1 .. n, v \in W :
            step[x][v] = IF BlockOf(data[x]) = block THEN Append(v, data[x]) ELSE v
    OBVIOUS
  <2> HIDE DEF step, W, none, n
  <2>3. PICK g \in [0 .. n -> W] : Solves(g, none, step, n)
    BY <1>1, <2>1, Recursion
  <2>4. g[0] = <<>>
    BY <2>3 DEF Solves, none
  <2>5. ASSUME NEW x \in 1 .. n
        PROVE  g[x] = IF BlockOf(data[x]) = block THEN Append(g[x - 1], data[x]) ELSE g[x - 1]
    <3>1. x - 1 \in 0 .. n
      BY <1>1
    <3>2. g[x - 1] \in W
      BY <3>1
    <3>3. g[x] = step[x][g[x - 1]]
      BY <2>3 DEF Solves
    <3>4. QED
      BY <3>2, <3>3, <2>2
  <2> DEFINE h == [x \in 0 .. n |-> IF x = 0 THEN <<>>
                                    ELSE IF BlockOf(data[x]) = block THEN Append(g[x - 1], data[x])
                                    ELSE g[x - 1]]
  <2>6. \A x \in 0 .. n : g[x] = IF x = 0 THEN <<>>
                                    ELSE IF BlockOf(data[x]) = block THEN Append(g[x - 1], data[x])
                                    ELSE g[x - 1]
    <3>1. \A x \in 0 .. n : x = 0 \/ x \in 1 .. n
      BY <1>1
    <3>2. \A x \in 1 .. n : x # 0
      BY <1>1
    <3>3. QED
      BY <3>1, <3>2, <2>4, <2>5, Zenon
  <2>7. \A x \in 0 .. n : h[x] = g[x]
    BY <2>6, Zenon
  <2>8. g = h
    <3>1. DOMAIN h = 0 .. n /\ h = [x \in DOMAIN h |-> h[x]]
      BY Zenon
    <3> HIDE DEF h
    <3>2. DOMAIN g = 0 .. n /\ g = [x \in DOMAIN g |-> g[x]]
      OBVIOUS
    <3>3. QED
      BY <3>1, <3>2, <2>7
  <2>9. Takes(g)
    BY <2>8, Zenon
  <2> HIDE DEF Takes
  <2>10. QED
    BY <2>9
<1>3. Takes(taken)
  BY <1>2, Zenon
<1>4. Within(data, block) = taken[n]
  BY DEF Within
<1> HIDE DEF taken
<1>5. /\ taken[0] = <<>>
      /\ \A x \in 1 .. n :
            taken[x] = IF BlockOf(data[x]) = block THEN Append(taken[x - 1], data[x]) ELSE taken[x - 1]
  <2> DEFINE h == [x \in 0 .. n |-> IF x = 0 THEN <<>>
                                    ELSE IF BlockOf(data[x]) = block THEN Append(taken[x - 1], data[x])
                                    ELSE taken[x - 1]]
  <2>1. taken = h
    BY <1>3, Zenon
  <2>2. \A x \in 0 .. n : h[x] = IF x = 0 THEN <<>>
                                    ELSE IF BlockOf(data[x]) = block THEN Append(taken[x - 1], data[x])
                                    ELSE taken[x - 1]
    BY Zenon
  <2> HIDE DEF h, n
  <2>3. \A x \in 1 .. n : x \in 0 .. n /\ x # 0
    BY <1>1
  <2>4. 0 \in 0 .. n
    BY <1>1
  <2>5. QED
    BY <2>1, <2>2, <2>3, <2>4
<1> HIDE DEF Takes
\* What is taken of the first x entries
<1> DEFINE Good(x) ==
              /\ taken[x] \in Seq(Entry)
              /\ ToSet(taken[x]) = {e \in {data[y] : y \in 1 .. x} : BlockOf(e) = block}
              /\ IsInjective(data) => IsInjective(taken[x])
           S == {x \in 0 .. n : Good(x)}
<1>6. 0 \in S
  <2>1. {data[y] : y \in 1 .. 0} = {}
    OBVIOUS
  <2>2. <<>> \in Seq(Entry) /\ ToSet(<<>>) = {} /\ IsInjective(<<>>)
    BY DEF ToSet, IsInjective
  <2>3. Good(0)
    BY <1>5, <2>1, <2>2
  <2> HIDE DEF Good
  <2>4. QED
    BY <1>1, <2>3
<1>7. ASSUME NEW x \in 1 .. n, x - 1 \in S PROVE x \in S
  <2>1. Good(x - 1)
    BY <1>7, Zenon
  <2> DEFINE s == taken[x - 1]
             e == data[x]
             A == {data[y] : y \in 1 .. x - 1}
  <2>2. s \in Seq(Entry) /\ ToSet(s) = {f \in A : BlockOf(f) = block} /\ (IsInjective(data) => IsInjective(s))
    BY <2>1
  <2>3. {data[y] : y \in 1 .. x} = A \cup {e}
    BY <1>1
  <2>4. e \in Entry
    BY <1>1
  <2>5. IsInjective(data) => e \notin A
    <3>1. \A y \in 1 .. x - 1 : y \in DOMAIN data /\ y # x /\ x \in DOMAIN data
      OBVIOUS
    <3>2. QED
      BY <3>1 DEF IsInjective
  <2>6. taken[x] = IF BlockOf(e) = block THEN Append(s, e) ELSE s
    BY <1>5
  <2>7. Good(x)
    <3> HIDE DEF s, e, A
    <3>1. CASE BlockOf(e) = block
      <4>1. taken[x] = Append(s, e)
        BY <2>6, <3>1
      <4>2. Append(s, e) \in Seq(Entry)
        BY <2>2, <2>4
      <4>3. ToSet(Append(s, e)) = ToSet(s) \cup {e}
        BY <2>2, <2>4, ToSetAppend
      <4>4. IsInjective(data) => IsInjective(Append(s, e))
        BY <2>2, <2>4, <2>5, InjectiveAppend
      <4>5. ToSet(taken[x]) = {f \in A \cup {e} : BlockOf(f) = block}
        BY <3>1, <4>1, <4>3, <2>2
      <4>6. QED
        BY <4>1, <4>2, <4>4, <4>5, <2>3
    <3>2. CASE BlockOf(e) # block
      <4>1. taken[x] = s
        BY <2>6, <3>2
      <4>2. ToSet(taken[x]) = {f \in A \cup {e} : BlockOf(f) = block}
        BY <3>2, <4>1, <2>2
      <4>3. QED
        BY <4>1, <4>2, <2>2, <2>3
    <3>3. QED
      BY <3>1, <3>2
  <2> HIDE DEF Good
  <2>8. x \in 0 .. n
    BY <1>1
  <2>9. QED
    BY <2>7, <2>8
<1>8. Good(n)
  <2> HIDE DEF S
  <2>1. \A x \in 0 .. n : x \in S
    BY <1>1, <1>6, <1>7, Induction
  <2>2. n \in S
    BY <1>1, <2>1
  <2> HIDE DEF Good
  <2>3. QED
    BY <2>2 DEF S
<1>9. {data[y] : y \in 1 .. n} = ToSet(data)
  BY DEF ToSet
<1>10. QED
  BY <1>4, <1>8, <1>9

\* A finite set of numbers has an ascending enumeration, the order of std::map.
Ascends(s) == \A i, j \in DOMAIN s : i < j => s[i] < s[j]

LEMMA AscendingExists ==
    ASSUME NEW n \in Nat
    PROVE  \A S \in SUBSET Nat : IsFiniteSet(S) /\ Cardinality(S) = n => \E s \in [1 .. n -> S] : Ascends(s)
<1> DEFINE HasOrder(S, k) == \E s \in [1 .. k -> S] : Ascends(s)
           Good == {k \in 0 .. n : \A S \in SUBSET Nat : IsFiniteSet(S) /\ Cardinality(S) = k => HasOrder(S, k)}
<1>1. 0 \in Good
  <2>1. ASSUME NEW S \in SUBSET Nat PROVE HasOrder(S, 0)
    <3>1. [i \in 1 .. 0 |-> 0] \in [1 .. 0 -> S] /\ Ascends([i \in 1 .. 0 |-> 0])
      BY DEF Ascends
    <3>2. QED
      BY <3>1
  <2> HIDE DEF HasOrder
  <2>2. QED
    BY <2>1
<1>2. ASSUME NEW k \in 1 .. n, k - 1 \in Good PROVE k \in Good
  <2>1. ASSUME NEW S \in SUBSET Nat, IsFiniteSet(S), Cardinality(S) = k PROVE HasOrder(S, k)
    <3>1. S # {}
      BY <2>1, FS_EmptySet
    <3>2. PICK least \in S : \A x \in S : least <= x
      BY <3>1, LeastElement
    <3> DEFINE T == S \ {least}
    <3>3. T \in SUBSET Nat /\ IsFiniteSet(T) /\ Cardinality(T) = k - 1
      BY <2>1, FS_RemoveElement
    <3>4. \A x \in T : least < x /\ x \in S
      BY <3>2
    <3> HIDE DEF T
    <3>5. PICK t \in [1 .. k - 1 -> T] : Ascends(t)
      BY <1>2, <3>3
    <3> DEFINE s == [i \in 1 .. k |-> IF i = 1 THEN least ELSE t[i - 1]]
    <3>6. s \in [1 .. k -> S]
      BY <3>4
    <3>7. ASSUME NEW i \in 1 .. k, NEW j \in 1 .. k, i < j PROVE s[i] < s[j]
      <4>1. j - 1 \in 1 .. k - 1 /\ s[j] = t[j - 1] /\ t[j - 1] \in T
        BY <3>7
      <4>2. CASE i = 1
        BY <4>1, <4>2, <3>4
      <4>3. CASE i # 1
        <5>1. i - 1 \in 1 .. k - 1 /\ s[i] = t[i - 1] /\ i - 1 < j - 1
          BY <3>7, <4>3
        <5>2. t[i - 1] < t[j - 1]
          BY <4>1, <5>1, <3>5 DEF Ascends
        <5>3. QED
          BY <4>1, <5>1, <5>2
      <4>4. QED
        BY <4>2, <4>3
    <3>8. DOMAIN s = 1 .. k
      OBVIOUS
    <3> HIDE DEF s
    <3>9. Ascends(s)
      BY <3>7, <3>8 DEF Ascends
    <3>10. QED
      BY <3>6, <3>9
  <2> HIDE DEF HasOrder
  <2>2. QED
    BY <2>1
<1>3. n \in Good
  <2> HIDE DEF Good
  <2>1. \A k \in 0 .. n : k \in Good
    BY <1>1, <1>2, Induction
  <2>2. QED
    BY <2>1
<1>4. QED
  BY <1>3

LEMMA KeyOrderIsOrder ==
    ASSUME NEW S \in SUBSET Nat, IsFiniteSet(S)
    PROVE  /\ Cardinality(S) \in Nat
           /\ KeyOrder(S) \in [1 .. Cardinality(S) -> S]
           /\ \A i, j \in 1 .. Cardinality(S) : i < j => KeyOrder(S)[i] < KeyOrder(S)[j]
           /\ \A x \in S : \E i \in 1 .. Cardinality(S) : KeyOrder(S)[i] = x
<1> DEFINE n == Cardinality(S)
           s == KeyOrder(S)
<1>1. n \in Nat
  BY FS_CardinalityType
<1>2. s \in [1 .. n -> S] /\ Ascends(s)
  <2>1. \E t \in [1 .. n -> S] : Ascends(t)
    BY <1>1, AscendingExists
  <2>2. s = CHOOSE t \in [1 .. n -> S] : Ascends(t)
    BY DEF KeyOrder, Ascends
  <2> HIDE DEF s, n
  <2>3. QED
    BY <2>1, <2>2
<1> HIDE DEF s, n
<1>3. \A i, j \in 1 .. n : i < j => s[i] < s[j]
  BY <1>2 DEF Ascends
<1>4. ASSUME NEW i \in 1 .. n, NEW j \in 1 .. n, s[i] = s[j] PROVE i = j
  <2>1. s[i] \in Nat /\ s[j] \in Nat
    BY <1>2
  <2>2. QED
    BY <2>1, <1>1, <1>3, <1>4
<1>5. s \in Injection(1 .. n, S)
  BY <1>2, <1>4 DEF Injection, IsInjective
<1>6. IsFiniteSet(1 .. n) /\ Cardinality(1 .. n) = n
  BY <1>1, FS_Interval
<1>7. s \in Surjection(1 .. n, S)
  BY <1>5, <1>6, FS_Injection DEF n
<1>8. \A x \in S : \E i \in 1 .. n : s[i] = x
  BY <1>7 DEF Surjection
<1>9. QED
  BY <1>1, <1>2, <1>3, <1>8 DEF s, n

\* The entries of a bucket and of a block, and those before them
InBucket(all, b) == {e \in all : BucketOf(e) = b}
BelowBucket(all, b) == {e \in all : BucketOf(e) < b}
InBlock(all, k) == {e \in all : BlockOf(e) = k}
Below(all, k) == {e \in all : BlockOf(e) < k}

\* A block of the pipeline is a whole block at its position, and in order once sorted.
KeyOf(block) == BlockOf(block.entries[1])
BucketIs(block, b) == BucketOf(block.entries[1]) = b
InOrder(s) == \A i, j \in 1 .. Len(s) : i < j => s[i].key <= s[j].key
Whole(block, all) ==
    /\ block \in Blocks
    /\ block.entries # <<>>
    /\ IsInjective(block.entries)
    /\ ToSet(block.entries) = InBlock(all, KeyOf(block))
    /\ block.offset = Cardinality(Below(all, KeyOf(block)))
    /\ block.sorted => InOrder(block.entries)
Rising(blocks) == \A i, j \in DOMAIN blocks : i < j => KeyOf(blocks[i]) < KeyOf(blocks[j])

\* The blocks of bucket b, all of them and in ascending order
Listing(blocks, b, all) ==
    /\ \A i \in DOMAIN blocks : Whole(blocks[i], all) /\ BucketIs(blocks[i], b)
    /\ Rising(blocks)
    /\ \A e \in InBucket(all, b) : \E i \in DOMAIN blocks : e \in ToSet(blocks[i].entries)

KnownEntries(all) == all \subseteq Entry /\ IsFiniteSet(all)

LEMMA Counted ==
    ASSUME NEW all, KnownEntries(all), NEW S \in SUBSET all, NEW T \in SUBSET all, S \cap T = {}
    PROVE  /\ Cardinality(S) \in Nat /\ Cardinality(T) \in Nat
           /\ Cardinality(S \cup T) = Cardinality(S) + Cardinality(T)
<1>1. IsFiniteSet(S) /\ IsFiniteSet(T)
  BY FS_Subset DEF KnownEntries
<1>2. Cardinality(S) \in Nat /\ Cardinality(T) \in Nat
  BY <1>1, FS_CardinalityType
<1>3. Cardinality(S \cup T) = Cardinality(S) + Cardinality(T) - Cardinality(S \cap T)
  BY <1>1, FS_Union
<1>4. Cardinality(S \cap T) = 0
  BY FS_EmptySet
<1>5. QED
  BY <1>2, <1>3, <1>4

LEMMA CountIsNatural ==
    ASSUME NEW all, KnownEntries(all), NEW S \in SUBSET all PROVE Cardinality(S) \in Nat
BY FS_Subset, FS_CardinalityType DEF KnownEntries

LEMMA BlocksListed ==
    ASSUME NEW all, KnownEntries(all), NEW b \in Buckets, NEW r, r.bucket = b,
           r.offset = Cardinality(BelowBucket(all, b)),
           file[b] \in Seq(Entry), IsInjective(file[b]), ToSet(file[b]) = InBucket(all, b)
    PROVE  BlocksFrom(r) \in Seq(Blocks) /\ Listing(BlocksFrom(r), b, all)
<1> DEFINE data == file[b]
           S == {BlockOf(e) : e \in ToSet(data)}
           n == Cardinality(S)
           index == KeyOrder(S)
           block(i) == Within(data, index[i])
           len == [i \in 1 .. n |-> Len(block(i))]
           Places(p) == p = [i \in 1 .. n |-> IF i = 1 THEN r.offset ELSE p[i - 1] + Len(block(i - 1))]
           pos == CHOOSE p : Places(p)
<1>1. InBucket(all, b) \subseteq Entry /\ InBucket(all, b) \subseteq all /\ IsFiniteSet(InBucket(all, b))
  BY FS_Subset DEF InBucket, KnownEntries
<1>2. S \in SUBSET Nat /\ IsFiniteSet(S)
  <2>1. S \in SUBSET Nat
    BY <1>1, BlockOrder
  <2> DEFINE f == [e \in InBucket(all, b) |-> BlockOf(e)]
  <2>2. f \in Surjection(InBucket(all, b), S)
    BY DEF Surjection
  <2> HIDE DEF f, S
  <2>3. IsFiniteSet(S)
    BY <1>1, <2>2, FS_Surjection
  <2>4. QED
    BY <2>1, <2>3
<1>3. /\ n \in Nat
      /\ index \in [1 .. n -> S]
      /\ \A i, j \in 1 .. n : i < j => index[i] < index[j]
      /\ \A x \in S : \E i \in 1 .. n : index[i] = x
  <2> HIDE DEF S
  <2>1. QED
    BY <1>2, KeyOrderIsOrder
<1>4. \A x \in S : \E e \in InBucket(all, b) : BlockOf(e) = x
  OBVIOUS
<1>5. \A e \in InBucket(all, b) : BlockOf(e) \in S
  OBVIOUS
<1>6. Len(index) = n
  <2> HIDE DEF index, n
  <2>1. QED
    BY <1>3
<1>7. \A i \in 1 .. n :
          /\ block(i) \in Seq(Entry)
          /\ ToSet(block(i)) = {e \in InBucket(all, b) : BlockOf(e) = index[i]}
          /\ IsInjective(block(i))
  <2> HIDE DEF index, n
  <2>1. QED
    BY WithinBlock
<1>8. BlocksFrom(r) = [i \in 1 .. n |-> [entries |-> block(i), offset |-> pos[i], sorted |-> FALSE]]
  BY ZenonT(60), <1>6 DEF BlocksFrom
<1> HIDE DEF S, n, index, block, pos
\* Block index[i] is whole in the bucket, and what is below it is known.
<1>9. ASSUME NEW i \in 1 .. n
      PROVE  /\ ToSet(block(i)) = InBlock(all, index[i]) /\ block(i) # <<>>
             /\ index[i] \in Nat
             /\ block(i)[1] \in InBucket(all, b) /\ BlockOf(block(i)[1]) = index[i]
             /\ len[i] = Cardinality(InBlock(all, index[i]))
  <2>1. index[i] \in S /\ index[i] \in Nat
    BY <1>2, <1>3
  <2>2. PICK e \in InBucket(all, b) : BlockOf(e) = index[i]
    BY <2>1, <1>4
  <2>3. \A f \in all : BlockOf(f) = index[i] => BucketOf(f) = b
    BY <2>2, <1>1, BlockOrder DEF KnownEntries, InBucket
  <2>4. ToSet(block(i)) = InBlock(all, index[i])
    BY <2>3, <1>7 DEF InBlock, InBucket
  <2>5. e \in ToSet(block(i))
    BY <2>2, <1>7
  <2>6. block(i) # <<>>
    <3>1. ToSet(<<>>) = {}
      BY DEF ToSet
    <3>2. QED
      BY <2>5, <3>1
  <2>7. block(i)[1] \in ToSet(block(i))
    BY <2>6, <1>7, FirstElement
  <2>8. Len(block(i)) = Cardinality(ToSet(block(i)))
    BY <1>7, InjectiveLength
  <2>9. QED
    BY <2>1, <2>4, <2>6, <2>7, <2>8, <1>7
<1>10. \A i \in 1 .. n : len[i] \in Nat /\ len[i] = Len(block(i))
  BY <1>7
<1> HIDE DEF len
<1>11. ASSUME 1 \in 1 .. n PROVE Below(all, index[1]) = BelowBucket(all, b)
  <2>1. ASSUME NEW e \in all, BlockOf(e) < index[1] PROVE BucketOf(e) < b
    <3> DEFINE first == block(1)[1]
    <3>1. first \in Entry /\ BucketOf(first) = b /\ BlockOf(first) = index[1] /\ e \in Entry
      BY <1>9, <1>11, <1>1 DEF InBucket, KnownEntries
    <3>2. BucketOf(e) <= b
      BY <3>1, <2>1, BlockOrder
    <3>3. BucketOf(e) # b
      <4>1. SUFFICES ASSUME BucketOf(e) = b PROVE FALSE
        OBVIOUS
      <4>2. PICK i \in 1 .. n : index[i] = BlockOf(e)
        BY <4>1, <1>3, <1>5 DEF InBucket
      <4>3. i = 1 \/ index[1] < index[i]
        BY <1>3, <1>11
      <4>4. index[1] \in Nat /\ index[i] \in Nat
        BY <1>9, <1>11
      <4>5. QED
        BY <4>2, <4>3, <4>4, <2>1
    <3>4. BucketOf(e) \in Nat /\ b \in Nat
      BY <3>1, BlockOrder
    <3>5. QED
      BY <3>2, <3>3, <3>4
  <2>2. ASSUME NEW e \in all, BucketOf(e) < b PROVE BlockOf(e) < index[1]
    BY <1>9, <1>11, <1>1, <2>2, BlockOrder DEF InBucket, KnownEntries
  <2>3. QED
    BY <2>1, <2>2 DEF Below, BelowBucket
<1>12. ASSUME NEW i \in 2 .. n
       PROVE  /\ Below(all, index[i]) = Below(all, index[i - 1]) \cup InBlock(all, index[i - 1])
              /\ Below(all, index[i - 1]) \cap InBlock(all, index[i - 1]) = {}
  <2>1. i - 1 \in 1 .. n /\ i \in 1 .. n /\ i - 1 < i
    BY <1>3
  <2>2. index[i - 1] < index[i] /\ index[i - 1] \in Nat /\ index[i] \in Nat
    BY <2>1, <1>3, <1>9
  <2>3. ASSUME NEW e \in all, BlockOf(e) < index[i], ~(BlockOf(e) <= index[i - 1]) PROVE FALSE
    <3> DEFINE low == block(i - 1)[1]
               high == block(i)[1]
    <3>1. /\ low \in Entry /\ BucketOf(low) = b /\ BlockOf(low) = index[i - 1]
          /\ high \in Entry /\ BucketOf(high) = b /\ BlockOf(high) = index[i] /\ e \in Entry
      BY <2>1, <1>9, <1>1 DEF InBucket, KnownEntries
    <3> HIDE DEF low, high
    <3>2. ~(BucketOf(e) < BucketOf(low)) /\ ~(BucketOf(high) < BucketOf(e))
      BY <2>2, <2>3, <3>1, BlockOrder
    <3>3. BucketOf(e) = b
      BY <3>1, <3>2, BlockOrder
    <3>4. PICK j \in 1 .. n : index[j] = BlockOf(e)
      BY <3>3, <1>3, <1>5 DEF InBucket
    <3>5. index[j] < index[i] /\ index[i - 1] < index[j] /\ index[j] \in Nat
      BY <3>1, <3>4, <2>2, <2>3, BlockOrder
    <3>6. ~(i <= j) /\ ~(j <= i - 1)
      BY SMTT(40), <3>5, <2>1, <2>2, <1>3
    <3>7. QED
      BY <3>6
  <2>4. \A e \in all : BlockOf(e) \in Nat
    BY BlockOrder DEF KnownEntries
  <2>5. Below(all, index[i]) = Below(all, index[i - 1]) \cup InBlock(all, index[i - 1])
    BY <2>2, <2>3, <2>4 DEF Below, InBlock
  <2>6. Below(all, index[i - 1]) \cap InBlock(all, index[i - 1]) = {}
    BY <2>2, <2>4 DEF Below, InBlock
  <2>7. QED
    BY <2>5, <2>6
\* The positions
<1>13. \E p : Places(p)
  <2> DEFINE step == [i \in 1 .. n |-> [v \in Nat |-> IF i = 1 THEN r.offset ELSE v + len[i - 1]]]
  <2>1. r.offset \in Nat
    <3>1. BelowBucket(all, b) \subseteq all
      BY DEF BelowBucket
    <3>2. QED
      BY <3>1, CountIsNatural
  <2>2. step \in [1 .. n -> [Nat -> Nat]]
    <3>1. \A i \in 1 .. n : i # 1 => len[i - 1] \in Nat
      BY <1>3, <1>10
    <3>2. QED
      BY <2>1, <3>1
  <2>3. \A i \in 1 .. n, v \in Nat : step[i][v] = IF i = 1 THEN r.offset ELSE v + len[i - 1]
    OBVIOUS
  <2>4. 0 \in Nat
    OBVIOUS
  <2> HIDE DEF step
  <2>5. PICK g \in [0 .. n -> Nat] : Solves(g, 0, step, n)
    BY <1>3, <2>2, <2>4, Recursion
  <2> DEFINE p == [i \in 1 .. n |-> g[i]]
  <2>6. ASSUME NEW i \in 1 .. n PROVE p[i] = IF i = 1 THEN r.offset ELSE p[i - 1] + Len(block(i - 1))
    <3>1. i - 1 \in 0 .. n
      BY <1>3
    <3>2. g[i - 1] \in Nat
      BY <3>1
    <3>3. g[i] = IF i = 1 THEN r.offset ELSE g[i - 1] + len[i - 1]
      BY <3>2, <2>3, <2>5 DEF Solves
    <3>4. i # 1 => i - 1 \in 1 .. n
      BY <3>1
    <3>5. p[i] = g[i] /\ (i # 1 => p[i - 1] = g[i - 1])
      BY <3>4
    <3> HIDE DEF p
    <3>6. QED
      BY <3>3, <3>4, <3>5, <1>10
  <2>7. Places(p)
    <3> DEFINE h == [i \in 1 .. n |-> IF i = 1 THEN r.offset ELSE p[i - 1] + Len(block(i - 1))]
    <3>1. DOMAIN p = 1 .. n /\ p = [i \in DOMAIN p |-> p[i]]
      OBVIOUS
    <3> HIDE DEF p
    <3>2. \A i \in 1 .. n : h[i] = p[i]
      BY <2>6, Zenon
    <3>3. DOMAIN h = 1 .. n /\ h = [i \in DOMAIN h |-> h[i]]
      BY Zenon
    <3>4. p = h
      <4> HIDE DEF h
      <4>1. QED
        BY <3>1, <3>2, <3>3
    <3>5. QED
      BY <3>4, Zenon
  <2> HIDE DEF Places, p
  <2>8. QED
    BY <2>7
<1>14. \A i \in 1 .. n : pos[i] = IF i = 1 THEN r.offset ELSE pos[i - 1] + len[i - 1]
  <2>1. Places(pos)
    BY <1>13, Zenon DEF pos
  <2> DEFINE h == [i \in 1 .. n |-> IF i = 1 THEN r.offset ELSE pos[i - 1] + Len(block(i - 1))]
  <2>2. pos = h
    BY <2>1, Zenon
  <2>3. \A i \in 1 .. n : h[i] = IF i = 1 THEN r.offset ELSE pos[i - 1] + Len(block(i - 1))
    BY Zenon
  <2>4. \A i \in 1 .. n : i # 1 => i - 1 \in 1 .. n
    BY <1>3
  <2> HIDE DEF h
  <2>5. QED
    BY <2>2, <2>3, <2>4, <1>10
<1> HIDE DEF Places
<1>15. ASSUME NEW i \in 1 .. n PROVE pos[i] = Cardinality(Below(all, index[i])) /\ pos[i] \in Nat
  <2> DEFINE Right == {j \in 0 .. n : j = 0 \/ pos[j] = Cardinality(Below(all, index[j]))}
  <2>1. 0 \in Right
    BY <1>3
  <2>2. ASSUME NEW j \in 1 .. n, j - 1 \in Right PROVE j \in Right
    <3>1. CASE j = 1
      <4>1. pos[1] = Cardinality(Below(all, index[1]))
        BY <3>1, <1>11, <1>14
      <4>2. QED
        BY <3>1, <4>1
    <3>2. CASE j # 1
      <4>1. j \in 2 .. n /\ j - 1 \in 1 .. n /\ j - 1 # 0
        BY <3>2, <1>3
      <4>2. pos[j - 1] = Cardinality(Below(all, index[j - 1]))
        BY <4>1, <2>2
      <4>3. pos[j] = Cardinality(Below(all, index[j - 1])) + Cardinality(InBlock(all, index[j - 1]))
        BY <4>1, <4>2, <1>9, <1>14, <3>2
      <4>4. Below(all, index[j - 1]) \subseteq all /\ InBlock(all, index[j - 1]) \subseteq all
        BY DEF Below, InBlock
      <4>5. Cardinality(Below(all, index[j - 1]) \cup InBlock(all, index[j - 1]))
              = Cardinality(Below(all, index[j - 1])) + Cardinality(InBlock(all, index[j - 1]))
        <5> DEFINE A == Below(all, index[j - 1])
                   B == InBlock(all, index[j - 1])
        <5>1. A \subseteq all /\ B \subseteq all /\ A \cap B = {}
          BY <4>1, <4>4, <1>12
        <5> HIDE DEF A, B
        <5>2. Cardinality(A \cup B) = Cardinality(A) + Cardinality(B)
          BY <5>1, Counted
        <5>3. QED
          BY <5>2 DEF A, B
      <4>6. pos[j] = Cardinality(Below(all, index[j]))
        BY <4>1, <4>3, <4>5, <1>12
      <4>7. QED
        BY <4>6
    <3>3. QED
      BY <3>1, <3>2
  <2> HIDE DEF Right
  <2>3. \A j \in 0 .. n : j \in Right
    BY <1>3, <2>1, <2>2, Induction
  <2>4. pos[i] = Cardinality(Below(all, index[i]))
    <3>1. i \in 0 .. n /\ i # 0
      BY <1>3
    <3>2. QED
      BY <2>3, <3>1 DEF Right
  <2>5. Below(all, index[i]) \subseteq all
    BY DEF Below
  <2>6. QED
    BY <2>4, <2>5, CountIsNatural
<1> DEFINE out == BlocksFrom(r)
<1>16. \A i \in 1 .. n : out[i] = [entries |-> block(i), offset |-> pos[i], sorted |-> FALSE]
  BY <1>8, Zenon
<1>17. DOMAIN out = 1 .. n /\ out = [i \in DOMAIN out |-> out[i]]
  BY <1>8, Zenon
<1> HIDE DEF out
<1>18. ASSUME NEW i \in 1 .. n
       PROVE  /\ out[i] \in Blocks /\ Whole(out[i], all) /\ BucketIs(out[i], b) /\ KeyOf(out[i]) = index[i]
              /\ out[i].entries = block(i)
  <2>1. /\ out[i].entries = block(i) /\ out[i].offset = pos[i] /\ out[i].sorted = FALSE
        /\ out[i] = [entries |-> block(i), offset |-> pos[i], sorted |-> FALSE]
    BY <1>16
  <2>2. KeyOf(out[i]) = index[i] /\ BucketIs(out[i], b)
    BY <2>1, <1>9 DEF KeyOf, BucketIs, InBucket
  <2>3. out[i] \in Blocks
    BY <2>1, <1>7, <1>15 DEF Blocks
  <2>4. Whole(out[i], all)
    <3>1. ~out[i].sorted
      BY <2>1
    <3>2. QED
      BY <2>1, <2>2, <2>3, <3>1, <1>7, <1>9, <1>15 DEF Whole
  <2>5. QED
    BY <2>1, <2>2, <2>3, <2>4
<1>19. out \in Seq(Blocks)
  <2>1. out \in [1 .. n -> Blocks]
    BY <1>17, <1>18
  <2>2. QED
    BY <2>1, <1>3
<1>20. Rising(out)
  BY <1>3, <1>17, <1>18 DEF Rising
<1>21. ASSUME NEW e \in InBucket(all, b) PROVE \E i \in DOMAIN out : e \in ToSet(out[i].entries)
  <2>1. PICK i \in 1 .. n : index[i] = BlockOf(e)
    BY <1>3, <1>5
  <2>2. e \in ToSet(block(i))
    BY <2>1, <1>7
  <2>3. QED
    BY <2>2, <1>17, <1>18
<1>22. Listing(out, b, all)
  BY <1>17, <1>18, <1>20, <1>21 DEF Listing
<1>23. QED
  BY <1>19, <1>22 DEF out

-----------------------------------------------------------------------------
(* Every entry is in one place *)

TodoOnce(w) ==
    /\ IsInjective(todo[w])
    /\ \A e \in ToSet(todo[w]) :
          /\ e \in Entries /\ ~Ungiven(e)
          /\ \A x \in Caches : x # w => e \notin ToSet(todo[x])
          /\ \A x \in Caches, b \in Buckets : e \notin ToSet(cache[x][b])
          /\ \A b \in Buckets : e \notin ToSet(file[b])
CacheOnce(w, b) ==
    /\ IsInjective(cache[w][b])
    /\ \A e \in ToSet(cache[w][b]) :
          /\ e \in Entries /\ ~Ungiven(e) /\ BucketOf(e) = b
          /\ \A x \in Caches : x # w => e \notin ToSet(cache[x][b])
          /\ e \notin ToSet(file[b])
FileOnce(b) ==
    /\ IsInjective(file[b])
    /\ \A e \in ToSet(file[b]) : e \in Entries /\ ~Ungiven(e) /\ BucketOf(e) = b
Once ==
    /\ work \in Work
    /\ \A w \in Caches : TodoOnce(w)
    /\ \A w \in Caches, b \in Buckets : CacheOnce(w, b)
    /\ \A b \in Buckets : FileOnce(b)

LEMMA InitOnce == Init => Once
<1> SUFFICES ASSUME Init PROVE Once
  OBVIOUS
<1>1. work \in Work /\ given = 0
  BY DEF Init
<1>2. /\ IsInjective(work.own)
      /\ \A j \in DOMAIN work.pool : ToSet(work.pool[j]) \cap ToSet(work.own) = {}
  BY <1>1, DistinctAssumption
<1>3. \A w \in Caches : todo[w] = IF w = Own THEN work.own ELSE <<>>
  BY DEF Init
<1>4. \A w \in Caches, b \in Buckets : cache[w][b] = <<>> /\ file[b] = <<>>
  <2>1. file = [b \in Buckets |-> <<>>] /\ cache = [w \in Caches |-> [b \in Buckets |-> <<>>]]
    BY DEF Init
  <2>2. QED
    BY <2>1, EmptyArray, Zenon
<1>5. Own \in Caches
  BY DEF Caches
<1>6. ASSUME NEW w \in Caches PROVE TodoOnce(w)
  <2>1. CASE w = Own
    <3>1. todo[w] = work.own
      BY <2>1, <1>3
    <3>2. \A x \in Caches : x # w => ToSet(todo[x]) = {}
      BY <2>1, <1>3, EmptySequence
    <3>3. \A e \in ToSet(todo[w]) : e \in Entries
      BY <3>1 DEF Entries
    <3>4. \A e \in ToSet(todo[w]) : ~Ungiven(e)
      <4>1. \A j \in given + 1 .. Len(work.pool) : j \in DOMAIN work.pool
        <5>1. work.pool \in Seq(Seq(Entry))
          BY <1>1, WorkAssumption
        <5>2. QED
          BY <1>1, <5>1
      <4>2. QED
        BY <3>1, <4>1, <1>2 DEF Ungiven
    <3>5. QED
      BY <3>1, <3>2, <3>3, <3>4, <1>2, <1>4, EmptySequence DEF TodoOnce
  <2>2. CASE w # Own
    <3>1. ToSet(todo[w]) = {} /\ IsInjective(todo[w])
      BY <2>2, <1>3, EmptySequence
    <3>2. QED
      BY <3>1 DEF TodoOnce
  <2>3. QED
    BY <2>1, <2>2
<1>7. \A w \in Caches, b \in Buckets : CacheOnce(w, b)
  BY <1>4, EmptySequence DEF CacheOnce
<1>8. \A b \in Buckets : FileOnce(b)
  BY <1>4, <1>5, EmptySequence DEF FileOnce
<1>9. QED
  BY <1>1, <1>6, <1>7, <1>8 DEF Once

\* Where the entries are given by sets: every step of the writers moves some on.
LEMMA GiveBlockOnce == Inv /\ Once /\ GiveBlock => Once'
<1> SUFFICES ASSUME Inv, Once, GiveBlock PROVE Once'
  OBVIOUS
<1> DEFINE w == given % Adders
           new == work.pool[given + 1]
<1>1. w \in Caches /\ given + 1 \in DOMAIN work.pool /\ given \in Nat
      /\ \A j \in given + 1 .. Len(work.pool) : j \in DOMAIN work.pool
  BY ThreadsAssumption DEF Inv, TypeInv, GiveBlock, Caches, Pool
<1>2. /\ todo[w] = <<>>
      /\ todo' = [todo EXCEPT ![w] = new]
      /\ given' = given + 1
      /\ UNCHANGED <<work, cache, file>>
  BY DEF GiveBlock, files
<1>3. /\ IsInjective(new)
      /\ \A j \in DOMAIN work.pool : j # given + 1 => ToSet(work.pool[j]) \cap ToSet(new) = {}
  BY <1>1, DistinctAssumption DEF Once
<1>4. \A e \in ToSet(new) : Ungiven(e) /\ e \in Entries
  <2>1. given + 1 \in given + 1 .. Len(work.pool)
    BY DEF GiveBlock, Inv, TypeInv
  <2>2. \A e \in ToSet(new) : Ungiven(e)
    BY <2>1 DEF Ungiven
  <2>3. \A e \in ToSet(new) : e \in Entries
    BY <1>1 DEF Entries
  <2>4. QED
    BY <2>2, <2>3
<1> HIDE DEF w, new
<1>5. todo'[w] = new /\ \A x \in Caches : x # w => todo'[x] = todo[x]
  BY <1>1, <1>2 DEF Inv, TypeInv
<1>6. \A e : Ungiven(e)' => Ungiven(e)
  BY <1>1, <1>2 DEF Ungiven, Inv, TypeInv
<1>7. \A e \in ToSet(new) : ~Ungiven(e)'
  <2>1. \A j \in given' + 1 .. Len(work.pool) : j \in DOMAIN work.pool /\ j # given + 1
    BY <1>1, <1>2 DEF Inv, TypeInv
  <2>2. QED
    BY <2>1, <1>2, <1>3 DEF Ungiven
<1>8. Entries' = Entries
  BY <1>2 DEF Entries
<1>9. ASSUME NEW x \in Caches PROVE TodoOnce(x)'
  <2>1. CASE x = w
    <3>1. \A e \in ToSet(new) :
              /\ \A y \in Caches : e \notin ToSet(todo[y])
              /\ \A y \in Caches, b \in Buckets : e \notin ToSet(cache[y][b])
              /\ \A b \in Buckets : e \notin ToSet(file[b])
      BY <1>4 DEF Once, TodoOnce, CacheOnce, FileOnce
    <3>2. QED
      BY <2>1, <3>1, <1>2, <1>3, <1>4, <1>5, <1>7, <1>8 DEF TodoOnce
  <2>2. CASE x # w
    <3>1. \A e \in ToSet(todo[x]) : e \notin ToSet(new)
      BY <1>4 DEF Once, TodoOnce
    <3>2. todo'[x] = todo[x]
      BY <2>2, <1>5
    <3>3. \A e \in ToSet(todo[x]), y \in Caches : y # x => e \notin ToSet(todo'[y])
      BY <3>1, <1>5 DEF Once, TodoOnce
    <3>4. QED
      BY <3>2, <3>3, <1>2, <1>6, <1>8 DEF Once, TodoOnce
  <2>3. QED
    BY <2>1, <2>2
<1>10. \A x \in Caches, b \in Buckets : CacheOnce(x, b)'
  BY <1>2, <1>6, <1>8 DEF Once, CacheOnce
<1>11. \A b \in Buckets : FileOnce(b)'
  BY <1>2, <1>6, <1>8 DEF Once, FileOnce
<1>12. work' \in Work
  BY <1>2 DEF Once
<1>13. QED
  BY <1>9, <1>10, <1>11, <1>12 DEF Once

LEMMA AddEffect ==
    ASSUME Inv, Once, NEW w \in Caches, Add(w)
    PROVE  LET a == Head(todo[w])
               b == BucketOf(a)
           IN  /\ a \in ToSet(todo[w]) /\ b \in Buckets
               /\ UNCHANGED <<work, given, is_finished>>
               /\ IsInjective(todo'[w]) /\ a \notin ToSet(todo'[w])
               /\ ToSet(todo[w]) = {a} \cup ToSet(todo'[w])
               /\ \A x \in Caches : x # w => todo'[x] = todo[x]
               /\ IsInjective(cache'[w][b]) /\ a \in ToSet(cache'[w][b])
               /\ IsInjective(file'[b])
               /\ \A x \in Caches, d \in Buckets : x # w \/ d # b => cache'[x][d] = cache[x][d]
               /\ \A d \in Buckets : d # b => file'[d] = file[d]
               /\ \/ /\ ToSet(cache'[w][b]) = {a}
                     /\ ToSet(file'[b]) = ToSet(file[b]) \cup ToSet(cache[w][b])
                  \/ /\ ToSet(cache'[w][b]) = {a} \cup ToSet(cache[w][b])
                     /\ file'[b] = file[b]
<1> DEFINE a == Head(todo[w])
           b == BucketOf(a)
<1>1. todo[w] \in Seq(Entry) /\ todo[w] # <<>> /\ IsInjective(todo[w])
  BY DEF Inv, TypeInv, Add, Once, TodoOnce
<1>2. /\ a \in Entry /\ b \in Buckets
      /\ Tail(todo[w]) \in Seq(Entry)
      /\ ToSet(todo[w]) = {a} \cup ToSet(Tail(todo[w]))
      /\ IsInjective(Tail(todo[w])) /\ a \notin ToSet(Tail(todo[w]))
  BY <1>1, ToSetHeadTail, InjectiveTail, KeyAssumption
<1>3. /\ todo' = [todo EXCEPT ![w] = Tail(todo[w])]
      /\ UNCHANGED <<work, given, is_finished>>
      /\ \/ /\ file' = [file EXCEPT ![b] = file[b] \o cache[w][b]]
            /\ cache' = [cache EXCEPT ![w][b] = <<a>>]
         \/ /\ cache' = [cache EXCEPT ![w][b] = Append(cache[w][b], a)]
            /\ file' = file
  BY DEF Add
<1> HIDE DEF a, b
<1>4. /\ cache[w] \in [Buckets -> Seq(Entry)] /\ cache[w][b] \in Seq(Entry) /\ file[b] \in Seq(Entry)
      /\ cache \in [Caches -> [Buckets -> Seq(Entry)]] /\ file \in [Buckets -> Seq(Entry)]
  BY <1>2 DEF Inv, TypeInv
<1>5. /\ todo'[w] = Tail(todo[w])
      /\ \A x \in Caches : x # w => todo'[x] = todo[x]
  BY <1>3 DEF Inv, TypeInv
<1>6. /\ IsInjective(cache[w][b]) /\ a \notin ToSet(cache[w][b])
      /\ IsInjective(file[b]) /\ ToSet(file[b]) \cap ToSet(cache[w][b]) = {}
  BY SMTT(40), <1>2 DEF Once, TodoOnce, CacheOnce, FileOnce
<1>7. CASE /\ file' = [file EXCEPT ![b] = file[b] \o cache[w][b]]
           /\ cache' = [cache EXCEPT ![w][b] = <<a>>]
  <2>1. cache'[w][b] = <<a>> /\ \A x \in Caches, d \in Buckets : x # w \/ d # b => cache'[x][d] = cache[x][d]
    BY <1>2, <1>4, <1>7
  <2>2. file'[b] = file[b] \o cache[w][b] /\ \A d \in Buckets : d # b => file'[d] = file[d]
    BY <1>2, <1>4, <1>7
  <2>3. ToSet(<<a>>) = {a} /\ IsInjective(<<a>>)
    BY ToSetSingleton DEF IsInjective
  <2>4. ToSet(file'[b]) = ToSet(file[b]) \cup ToSet(cache[w][b])
    BY <2>2, <1>4, ToSetConcat
  <2>5. IsInjective(file'[b])
    BY SMTT(40), <2>2, <1>4, <1>6, InjectiveConcat
  <2> USE DEF a, b
  <2>6. QED
    BY Zenon, <1>2, <1>3, <1>5, <2>1, <2>2, <2>3, <2>4, <2>5
<1>8. CASE /\ cache' = [cache EXCEPT ![w][b] = Append(cache[w][b], a)]
           /\ file' = file
  <2>1. /\ cache'[w][b] = Append(cache[w][b], a)
        /\ \A x \in Caches, d \in Buckets : x # w \/ d # b => cache'[x][d] = cache[x][d]
    BY <1>2, <1>4, <1>8
  <2>2. ToSet(cache'[w][b]) = {a} \cup ToSet(cache[w][b])
    BY <2>1, <1>2, <1>4, ToSetAppend
  <2>3. IsInjective(cache'[w][b])
    BY <2>1, <1>2, <1>4, <1>6, InjectiveAppend
  <2> USE DEF a, b
  <2>4. QED
    BY <1>2, <1>3, <1>5, <1>6, <1>8, <2>1, <2>2, <2>3
<1>9. QED
  BY <1>3, <1>7, <1>8

LEMMA AddOnce == ASSUME NEW w \in Caches PROVE Inv /\ Once /\ Add(w) => Once'
<1> SUFFICES ASSUME Inv, Once, Add(w) PROVE Once'
  OBVIOUS
<1> DEFINE a == Head(todo[w])
           b == BucketOf(a)
<1>1. /\ a \in ToSet(todo[w]) /\ b \in Buckets
      /\ UNCHANGED <<work, given, is_finished>>
      /\ IsInjective(todo'[w]) /\ a \notin ToSet(todo'[w])
      /\ ToSet(todo[w]) = {a} \cup ToSet(todo'[w])
      /\ \A x \in Caches : x # w => todo'[x] = todo[x]
      /\ IsInjective(cache'[w][b])
      /\ IsInjective(file'[b])
      /\ \A x \in Caches, d \in Buckets : x # w \/ d # b => cache'[x][d] = cache[x][d]
      /\ \A d \in Buckets : d # b => file'[d] = file[d]
  BY AddEffect
<1>2. /\ ToSet(cache'[w][b]) \subseteq {a} \cup ToSet(cache[w][b])
      /\ ToSet(file'[b]) \subseteq ToSet(file[b]) \cup ToSet(cache[w][b])
      /\ ToSet(cache'[w][b]) = {a} \/ ToSet(file'[b]) = ToSet(file[b])
  BY AddEffect, Zenon
<1>3. b = BucketOf(a)
  OBVIOUS
<1> HIDE DEF a, b
<1>4. Entries' = Entries /\ \A e : Ungiven(e)' <=> Ungiven(e)
  BY <1>1 DEF Entries, Ungiven
<1>5. ASSUME NEW x \in Caches, NEW e \in ToSet(todo'[x])
      PROVE  /\ e \in ToSet(todo[x]) /\ e # a
             /\ \A y \in Caches, d \in Buckets : e \notin ToSet(cache'[y][d])
             /\ \A d \in Buckets : e \notin ToSet(file'[d])
             /\ \A y \in Caches : y # x => e \notin ToSet(todo'[y])
  <2>1. e \in ToSet(todo[x])
    BY <1>1, <1>5
  <2>2. e # a
    BY <1>1, <1>5, <2>1 DEF Once, TodoOnce
  <2>3. \A y \in Caches, d \in Buckets : e \notin ToSet(cache[y][d]) /\ e \notin ToSet(file[d])
    BY <2>1 DEF Once, TodoOnce
  <2>4. \A y \in Caches, d \in Buckets : e \notin ToSet(cache'[y][d])
    BY <2>2, <2>3, <1>1, <1>2
  <2>5. \A d \in Buckets : e \notin ToSet(file'[d])
    BY <2>3, <1>1, <1>2
  <2>6. \A y \in Caches : y # x => e \notin ToSet(todo'[y])
    BY <2>1, <1>1 DEF Once, TodoOnce
  <2>7. QED
    BY <2>1, <2>2, <2>4, <2>5, <2>6
<1>6. ASSUME NEW x \in Caches PROVE TodoOnce(x)'
  <2>1. IsInjective(todo'[x])
    BY <1>1 DEF Once, TodoOnce
  <2>2. \A e \in ToSet(todo'[x]) : e \in Entries /\ ~Ungiven(e)
    BY <1>5 DEF Once, TodoOnce
  <2>3. QED
    BY <2>1, <2>2, <1>4, <1>5 DEF TodoOnce
<1>7. ASSUME NEW x \in Caches, NEW d \in Buckets PROVE CacheOnce(x, d)'
  <2>1. IsInjective(cache'[x][d])
    BY <1>1 DEF Once, CacheOnce
  <2>2. ASSUME NEW e \in ToSet(cache'[x][d])
        PROVE  /\ e \in Entries /\ ~Ungiven(e) /\ BucketOf(e) = d
               /\ \A y \in Caches : y # x => e \notin ToSet(cache'[y][d])
               /\ e \notin ToSet(file'[d])
    <3>1. CASE e = a /\ x = w /\ d = b
      <4>1. e \in Entries /\ ~Ungiven(e) /\ \A y \in Caches : e \notin ToSet(cache[y][d]) /\ e \notin ToSet(file[d])
        BY <3>1, <1>1 DEF Once, TodoOnce
      <4>2. QED
        BY <3>1, <4>1, <1>1, <1>2, <1>3
    <3>2. CASE ~(e = a /\ x = w /\ d = b)
      <4>1. e \in ToSet(cache[x][d])
        BY <3>2, <2>2, <1>1, <1>2
      <4>2. /\ e \in Entries /\ ~Ungiven(e) /\ BucketOf(e) = d
            /\ \A y \in Caches : y # x => e \notin ToSet(cache[y][d])
            /\ e \notin ToSet(file[d])
        BY <4>1 DEF Once, CacheOnce
      <4>3. e # a
        BY <4>1, <1>1 DEF Once, TodoOnce
      <4>4. \A y \in Caches : y # x => e \notin ToSet(cache'[y][d])
        BY <4>2, <4>3, <1>1, <1>2
      <4>5. e \notin ToSet(file'[d])
        BY <4>2, <4>3, <2>2, <1>1, <1>2
      <4>6. QED
        BY <4>2, <4>4, <4>5
    <3>3. QED
      BY <3>1, <3>2
  <2>3. QED
    BY <2>1, <2>2, <1>4 DEF CacheOnce
<1>8. ASSUME NEW d \in Buckets PROVE FileOnce(d)'
  <2>1. IsInjective(file'[d])
    BY <1>1 DEF Once, FileOnce
  <2>2. ASSUME NEW e \in ToSet(file'[d]) PROVE e \in Entries /\ ~Ungiven(e) /\ BucketOf(e) = d
    BY <2>2, <1>1, <1>2 DEF Once, FileOnce, CacheOnce
  <2>3. QED
    BY <2>1, <2>2, <1>4 DEF FileOnce
<1>9. work' \in Work
  BY <1>1 DEF Once
<1>10. QED
  BY <1>6, <1>7, <1>8, <1>9 DEF Once

\* Writing out a cache that is emptied with it
LEMMA FlushOnce ==
    ASSUME Inv, Once, NEW w \in Caches,
           UNCHANGED <<work, given, todo>>,
           file' = Flushed(w), cache' = Emptied(w)
    PROVE  Once'
<1> DEFINE none == [b \in Buckets |-> <<>>]
<1>1. none \in [Buckets -> Seq(Entry)] /\ \A b \in Buckets : none[b] = <<>>
  BY EmptyArray
<1>2. cache' = [cache EXCEPT ![w] = none]
  BY DEF Emptied
<1> HIDE DEF none
<1>3. /\ \A b \in Buckets : cache'[w][b] = <<>>
      /\ \A x \in Caches, b \in Buckets : x # w => cache'[x][b] = cache[x][b]
  BY <1>1, <1>2 DEF Inv, TypeInv
<1>4. \A b \in Buckets : ToSet(file'[b]) = ToSet(file[b]) \cup ToSet(cache[w][b])
  BY FlushedFile DEF Flushed, Inv
<1>5. ASSUME NEW b \in Buckets PROVE IsInjective(file'[b])
  <2>1. file'[b] = file[b] \o cache[w][b]
    BY DEF Flushed
  <2>2. file[b] \in Seq(Entry) /\ cache[w][b] \in Seq(Entry)
    BY DEF Inv, TypeInv
  <2>3. IsInjective(file[b]) /\ IsInjective(cache[w][b]) /\ ToSet(file[b]) \cap ToSet(cache[w][b]) = {}
    BY DEF Once, CacheOnce, FileOnce
  <2>4. QED
    BY <2>1, <2>2, <2>3, InjectiveConcat
<1>6. Entries' = Entries /\ \A e : Ungiven(e)' <=> Ungiven(e)
  BY DEF Entries, Ungiven
<1>7. ASSUME NEW x \in Caches PROVE TodoOnce(x)'
  <2>1. \A e \in ToSet(todo[x]), y \in Caches, b \in Buckets : e \notin ToSet(cache'[y][b])
    BY <1>3, EmptySequence DEF Once, TodoOnce
  <2>2. \A e \in ToSet(todo[x]), b \in Buckets : e \notin ToSet(file'[b])
    BY <1>4 DEF Once, TodoOnce
  <2>3. QED
    BY <2>1, <2>2, <1>6 DEF Once, TodoOnce
<1>8. ASSUME NEW x \in Caches, NEW b \in Buckets PROVE CacheOnce(x, b)'
  <2>1. CASE x = w
    <3>1. ToSet(cache'[x][b]) = {} /\ IsInjective(cache'[x][b])
      BY <2>1, <1>3, EmptySequence
    <3>2. QED
      BY <3>1 DEF CacheOnce
  <2>2. CASE x # w
    <3>1. cache'[x][b] = cache[x][b]
      BY <2>2, <1>3
    <3>2. \A e \in ToSet(cache[x][b]), y \in Caches : y # x => e \notin ToSet(cache'[y][b])
      BY <1>3, EmptySequence DEF Once, CacheOnce
    <3>3. \A e \in ToSet(cache[x][b]) : e \notin ToSet(file'[b])
      BY <2>2, <1>4 DEF Once, CacheOnce
    <3>4. QED
      BY <3>1, <3>2, <3>3, <1>6 DEF Once, CacheOnce
  <2>3. QED
    BY <2>1, <2>2
<1>9. ASSUME NEW b \in Buckets PROVE FileOnce(b)'
  BY <1>4, <1>5, <1>6 DEF Once, FileOnce, CacheOnce
<1>10. work' \in Work
  BY DEF Once
<1>11. QED
  BY <1>7, <1>8, <1>9, <1>10 DEF Once

LEMMA NextOnce == Inv /\ Once /\ [Next]_vars => Once'
<1> SUFFICES ASSUME Inv, Once, [Next]_vars PROVE Once'
  OBVIOUS
<1>0. ASSUME UNCHANGED <<adding, file>> PROVE Once'
  <2>1. UNCHANGED <<work, given, todo, cache, file>>
    BY <1>0 DEF adding
  <2>2. Entries' = Entries /\ \A e : Ungiven(e)' <=> Ungiven(e)
    BY <2>1 DEF Entries, Ungiven
  <2>3. QED
    BY <2>1, <2>2 DEF Once, TodoOnce, CacheOnce, FileOnce
<1>1. CASE GiveBlock
  BY <1>1, GiveBlockOnce
<1>2. ASSUME NEW w \in Caches, Add(w) PROVE Once'
  BY <1>2, AddOnce
<1>3. CASE DestroyCache
  <2>1. destroyed \in Caches /\ ~is_finished
    BY <1>3, ThreadsAssumption DEF Inv, TypeInv, DestroyCache, Drained, Caches, Pool
  <2>2. UNCHANGED <<work, given, todo>> /\ file' = Flushed(destroyed) /\ cache' = Emptied(destroyed)
    BY <1>3, <2>1 DEF DestroyCache
  <2>3. QED
    BY <2>1, <2>2, FlushOnce
<1>4. CASE Finish
  <2>1. Own \in Caches
    BY DEF Caches
  <2>2. QED
    BY <1>4, <2>1, FlushOnce DEF Finish
<1>5. CASE GiveBucket \/ DeliverBucket \/ DeliverBlock \/ Close
  BY <1>5, <1>0 DEF GiveBucket, DeliverBucket, DeliverBlock, Close, files
<1>6. CASE Pass
  BY <1>6, <1>0 DEF Pass, PassBlock, PassedBucket, files
<1>7. CASE Read
  BY <1>7, <1>0 DEF Read, OpenBucket, ReadBucket
<1>8. CASE Sort
  BY <1>8, <1>0 DEF Sort, SortBlock, files
<1>9. CASE UNCHANGED vars
  BY <1>9, <1>0 DEF vars, adding
<1>10. QED
  BY <1>1, <1>2, <1>3, <1>4, <1>5, <1>6, <1>7, <1>8, <1>9 DEF Next, Writing

-----------------------------------------------------------------------------
(* The stages of read() *)

LEMMA EntriesKnown == TypeInv => KnownEntries(Entries)
<1> SUFFICES ASSUME TypeInv PROVE KnownEntries(Entries)
  OBVIOUS
<1>1. Entries \subseteq Entry
  BY EntryBucket
<1>2. work.own \in Seq(Entry) /\ work.pool \in Seq(Seq(Entry))
  BY DEF TypeInv
<1> DEFINE n == Len(work.pool)
           f == [j \in 1 .. n |-> ToSet(work.pool[j])]
           S == {ToSet(work.pool[j]) : j \in DOMAIN work.pool}
<1>3. n \in Nat /\ DOMAIN work.pool = 1 .. n /\ \A j \in 1 .. n : work.pool[j] \in Seq(Entry)
  BY <1>2
<1>4. f \in Surjection(1 .. n, S)
  BY <1>3 DEF Surjection
<1>5. ExistsSurjection(1 .. n, S)
  BY <1>4 DEF ExistsSurjection
<1>6. IsFiniteSet(S)
  <2> HIDE DEF S, n
  <2>1. QED
    BY <1>3, <1>5, FS_NatSurjection
<1>7. \A T \in S : IsFiniteSet(T)
  BY <1>3, FiniteElements
<1>8. IsFiniteSet(UNION S)
  <2> HIDE DEF S
  <2>1. QED
    BY <1>6, <1>7, FS_UNION
<1>9. IsFiniteSet(ToSet(work.own))
  BY <1>2, FiniteElements
<1>10. Entries = ToSet(work.own) \cup UNION S
  BY DEF Entries
<1>11. IsFiniteSet(Entries)
  <2> HIDE DEF S
  <2>1. QED
    BY <1>8, <1>9, <1>10, FS_Union
<1>12. QED
  BY <1>1, <1>11 DEF KnownEntries

\* The file of a bucket holds exactly its entries once writing has finished.
LEMMA FinishedFiles ==
    ASSUME Inv, Once, is_finished, NEW b \in Buckets
    PROVE  file[b] \in Seq(Entry) /\ IsInjective(file[b]) /\ ToSet(file[b]) = InBucket(Entries, b)
<1>1. file[b] \in Seq(Entry) /\ IsInjective(file[b])
  BY DEF Inv, TypeInv, Once, FileOnce
<1>2. ToSet(file[b]) \subseteq InBucket(Entries, b)
  BY DEF Once, FileOnce, InBucket
<1>3. InBucket(Entries, b) \subseteq ToSet(file[b])
  BY InvImpliesFinishedIsComplete DEF FinishedIsComplete, InBucket
<1>4. QED
  BY <1>1, <1>2, <1>3

Jobs == [bucket : Buckets, offset : Nat, state : {"given", "open", "read"}, out : Seq(Blocks)]
Outputs == [entries : Seq(Entry), offset : Nat]
StageTypes ==
    /\ next \in Nat /\ next <= 2^log_num_buckets /\ offset \in Nat
    /\ reading \in Seq(Jobs) /\ passing \in Seq(Seq(Blocks)) /\ sorting \in Seq(Blocks)
    /\ output \in Seq(Outputs)

First == next - Len(reading)
Emitted == FlattenSeq([k \in 1 .. Len(output) |-> output[k].entries])
InPassing == UNION {ToSet(passing[p]) : p \in DOMAIN passing}
InPipeline == ToSet(sorting) \cup InPassing

\* read_pool has the buckets before `next', in order, each with its position.
ReadingOk ==
    /\ ~is_finished => next = 0 /\ offset = 0 /\ reading = <<>> /\ passing = <<>> /\ sorting = <<>>
    /\ Len(reading) <= next
    /\ offset = Cardinality(BelowBucket(Entries, next))
    /\ \A k \in DOMAIN reading :
          /\ reading[k].bucket = First + k - 1
          /\ reading[k].offset = Cardinality(BelowBucket(Entries, reading[k].bucket))
          /\ reading[k].state = "read" => Listing(reading[k].out, reading[k].bucket, Entries)

\* sort_thread has whole blocks of the buckets before those, in order, and sort_pool
\* has blocks before those.
PassingOk ==
    \A p \in DOMAIN passing :
        /\ \A q \in DOMAIN passing[p] :
              Whole(passing[p][q], Entries) /\ BucketIs(passing[p][q], First - Len(passing) + p - 1)
        /\ Rising(passing[p])
SortingOk ==
    /\ \A i \in DOMAIN sorting : Whole(sorting[i], Entries) /\ BucketOf(sorting[i].entries[1]) < First
    /\ Rising(sorting)
    /\ \A i \in DOMAIN sorting : \A block \in InPassing : KeyOf(sorting[i]) < KeyOf(block)

\* What is delivered is in order, before the rest, and nothing is lost in between.
EmittedOk ==
    /\ InOrder(Emitted) /\ IsInjective(Emitted) /\ ToSet(Emitted) \subseteq Entries
    /\ \A e \in ToSet(Emitted) : BucketOf(e) < First /\ \A block \in InPipeline : BlockOf(e) < KeyOf(block)
    /\ \A e \in Entries :
          BucketOf(e) < First =>
              e \in ToSet(Emitted) \/ \E block \in InPipeline : e \in ToSet(block.entries)

Stages == StageTypes /\ ReadingOk /\ PassingOk /\ SortingOk /\ EmittedOk /\ BlocksInPlace

LEMMA BucketRange == 2^log_num_buckets \in Nat /\ Buckets \subseteq Nat
<1>1. 2^log_num_buckets \in Nat
  BY PowerOfTwo, KeyAssumption
<1>2. QED
  BY <1>1 DEF Buckets

LEMMA EmittedEmpty == output = <<>> => Emitted = <<>>
<1> SUFFICES ASSUME output = <<>> PROVE Emitted = <<>>
  OBVIOUS
<1>1. Len(output) = 0
  OBVIOUS
<1>2. [k \in 1 .. Len(output) |-> output[k].entries] \in [1 .. 0 -> Seq(Entry)]
  BY <1>1
<1>3. QED
  BY <1>1, <1>2, FlattenEmpty DEF Emitted

LEMMA NothingInStages ==
    ASSUME next = 0, reading = <<>>, passing = <<>>, sorting = <<>>, output = <<>>, TypeInv
    PROVE  /\ First = 0 /\ PassingOk /\ SortingOk /\ EmittedOk /\ BlocksInPlace
           /\ BelowBucket(Entries, 0) = {} /\ Cardinality(BelowBucket(Entries, 0)) = 0
<1>1. First = 0 /\ Emitted = <<>> /\ InPassing = {} /\ InPipeline = {}
  <2>1. First = 0 /\ Emitted = <<>>
    <3>1. Len(reading) = 0
      OBVIOUS
    <3>2. First = next - 0
      BY <3>1, Zenon DEF First
    <3>3. First = 0
      BY <3>2
    <3>4. QED
      BY <3>3, EmittedEmpty, Zenon
  <2>2. InPassing = {}
    BY DEF InPassing
  <2>3. QED
    BY <2>1, <2>2, EmptySequence DEF InPipeline
<1>2. PassingOk /\ SortingOk /\ BlocksInPlace
  BY <1>1 DEF PassingOk, SortingOk, BlocksInPlace, Rising
<1>3. \A e \in Entries : BucketOf(e) \in Nat
  BY EntryBucket, BlockOrder
<1>4. EmittedOk
  BY <1>1, <1>3, EmptySequence DEF EmittedOk, InOrder
<1>5. BelowBucket(Entries, 0) = {}
  BY <1>3 DEF BelowBucket
<1>6. QED
  BY <1>1, <1>2, <1>4, <1>5, FS_EmptySet

LEMMA InitStages == Init => Stages
<1> SUFFICES ASSUME Init PROVE Stages
  OBVIOUS
<1>1. /\ next = 0 /\ offset = 0 /\ reading = <<>> /\ passing = <<>> /\ sorting = <<>> /\ output = <<>>
  BY DEF Init
<1>2. TypeInv
  BY InitInv DEF Inv
<1>3. StageTypes
  BY <1>1, BucketRange DEF StageTypes
<1>4. ReadingOk
  BY <1>1, <1>2, NothingInStages DEF ReadingOk
<1>5. QED
  BY <1>1, <1>2, <1>3, <1>4, NothingInStages DEF Stages

\* Steps of the writers
LEMMA WritingStages ==
    ASSUME Inv, Stages, UNCHANGED <<work, stages>>, is_finished => is_finished'
    PROVE  Stages'
<1>1. UNCHANGED <<next, offset, reading, passing, sorting, output>> /\ Entries' = Entries
  BY DEF stages, Entries
<1>2. StageTypes'
  BY <1>1 DEF Stages, StageTypes
<1>3. First' = First /\ Emitted' = Emitted /\ InPassing' = InPassing /\ InPipeline' = InPipeline
  BY <1>1 DEF First, Emitted, InPassing, InPipeline
<1>4. ReadingOk'
  BY <1>1, <1>3 DEF Stages, ReadingOk
<1>5. PassingOk' /\ SortingOk'
  BY <1>1, <1>3 DEF Stages, PassingOk, SortingOk
<1>6. EmittedOk'
  BY <1>1, <1>3 DEF Stages, EmittedOk
<1>7. BlocksInPlace'
  BY <1>1 DEF Stages, BlocksInPlace
<1>8. QED
  BY <1>2, <1>4, <1>5, <1>6, <1>7 DEF Stages

\* Steps of read_pool that deliver nothing
LEMMA ReadingStages ==
    ASSUME Stages, Entries' = Entries, First' = First, UNCHANGED <<passing, sorting, output>>,
           StageTypes', ReadingOk'
    PROVE  Stages'
<1>1. Emitted' = Emitted /\ InPassing' = InPassing /\ InPipeline' = InPipeline
  BY DEF Emitted, InPassing, InPipeline
<1>2. PassingOk' /\ SortingOk'
  BY <1>1 DEF Stages, PassingOk, SortingOk
<1>3. EmittedOk'
  BY <1>1 DEF Stages, EmittedOk
<1>4. BlocksInPlace'
  BY DEF Stages, BlocksInPlace
<1>5. QED
  BY <1>2, <1>3, <1>4 DEF Stages

LEMMA GiveBucketStages == Inv /\ Once /\ Stages /\ GiveBucket => Stages'
<1> SUFFICES ASSUME Inv, Once, Stages, GiveBucket PROVE Stages'
  OBVIOUS
<1> DEFINE new == [bucket |-> next, offset |-> offset, state |-> "given", out |-> <<>>]
           n == Len(reading)
<1>1. /\ is_finished /\ next < 2^log_num_buckets
      /\ reading' = Append(reading, new)
      /\ offset' = offset + Len(file[next])
      /\ next' = next + 1
      /\ UNCHANGED <<is_finished, work, passing, sorting, output>>
  BY DEF GiveBucket, AfterBucket, NumEntries, adding, files
<1>2. next \in Nat /\ offset \in Nat /\ reading \in Seq(Jobs)
  BY DEF Stages, StageTypes
<1>3. next \in Buckets
  BY <1>1, <1>2, BucketRange DEF Buckets
<1>4. Entries' = Entries /\ KnownEntries(Entries)
  BY <1>1, EntriesKnown DEF Entries, Inv
<1>5. offset' = Cardinality(BelowBucket(Entries, next + 1)) /\ offset' \in Nat
  <2> DEFINE A == BelowBucket(Entries, next)
             B == InBucket(Entries, next)
  <2>1. Len(file[next]) = Cardinality(B)
    BY <1>1, <1>3, FinishedFiles, InjectiveLength
  <2>2. BelowBucket(Entries, next + 1) = A \cup B /\ A \cap B = {} /\ A \subseteq Entries /\ B \subseteq Entries
    <3>1. \A e \in Entries : BucketOf(e) \in Nat
      BY <1>4, BlockOrder DEF KnownEntries
    <3>2. \A m \in Nat : m < next + 1 <=> m < next \/ m = next
      BY <1>2
    <3>3. QED
      BY <3>1, <3>2, <1>2 DEF BelowBucket, InBucket
  <2>3. offset = Cardinality(A)
    BY DEF Stages, ReadingOk
  <2> HIDE DEF A, B
  <2>4. Cardinality(A \cup B) = Cardinality(A) + Cardinality(B) /\ Cardinality(B) \in Nat
    BY <2>2, <1>4, Counted
  <2>5. offset + Len(file[next]) = Cardinality(A \cup B)
    BY <2>1, <2>3, <2>4
  <2>6. offset' = Cardinality(A \cup B)
    BY <2>5, <1>1
  <2>7. offset' \in Nat
    BY <2>1, <2>4, <1>1, <1>2
  <2>8. QED
    BY <2>2, <2>6, <2>7
<1>6. new \in Jobs /\ new.bucket = next /\ new.offset = offset /\ new.state = "given"
  BY <1>2, <1>3 DEF Jobs
<1> HIDE DEF new
<1>7. /\ reading' \in Seq(Jobs) /\ Len(reading') = n + 1 /\ n \in Nat
      /\ \A k \in 1 .. n : reading'[k] = reading[k]
      /\ reading'[n + 1] = new
  BY <1>1, <1>2, <1>6
<1>8. StageTypes'
  BY <1>1, <1>2, <1>5, <1>7, BucketRange DEF Stages, StageTypes
<1>9. First' = First /\ First = next - n
  BY <1>1, <1>2, <1>7 DEF First
<1>10. ReadingOk'
  <2>1. offset = Cardinality(BelowBucket(Entries, next)) /\ Len(reading) <= next
    BY DEF Stages, ReadingOk
  <2>2. ASSUME NEW k \in DOMAIN reading'
        PROVE  /\ reading'[k].bucket = First + k - 1
               /\ reading'[k].offset = Cardinality(BelowBucket(Entries, reading'[k].bucket))
               /\ reading'[k].state = "read" => Listing(reading'[k].out, reading'[k].bucket, Entries)
    <3>1. k \in 1 .. n \/ k = n + 1
      BY <1>7
    <3>2. CASE k \in 1 .. n
      BY <3>2, <1>2, <1>7 DEF Stages, ReadingOk
    <3>3. CASE k = n + 1
      BY <3>3, <2>1, <1>2, <1>6, <1>7, <1>9
    <3>4. QED
      BY <3>1, <3>2, <3>3
  <2>3. Len(reading') <= next'
    BY <2>1, <1>1, <1>2, <1>7
  <2>4. QED
    BY <2>2, <2>3, <1>1, <1>4, <1>5, <1>9 DEF ReadingOk
<1>11. QED
  BY <1>1, <1>4, <1>8, <1>9, <1>10, ReadingStages

LEMMA OpenBucketStages ==
    ASSUME NEW k \in Nat PROVE Inv /\ Stages /\ OpenBucket(k) => Stages'
<1> SUFFICES ASSUME Inv, Stages, OpenBucket(k) PROVE Stages'
  OBVIOUS
<1>1. /\ k \in DOMAIN reading /\ reading[k].state = "given"
      /\ reading' = [reading EXCEPT ![k].state = "open"]
      /\ UNCHANGED <<work, is_finished, next, offset, passing, sorting, output>>
  BY DEF OpenBucket, adding
<1>2. reading \in Seq(Jobs) /\ reading[k] \in Jobs
  BY <1>1 DEF Stages, StageTypes
<1> DEFINE job == [reading[k] EXCEPT !.state = "open"]
<1>3. /\ job \in Jobs /\ job.bucket = reading[k].bucket /\ job.offset = reading[k].offset
      /\ job.state # "read" /\ reading' = [reading EXCEPT ![k] = job]
  BY <1>1, <1>2 DEF Jobs
<1> HIDE DEF job
<1>4. /\ reading' \in Seq(Jobs) /\ Len(reading') = Len(reading) /\ DOMAIN reading' = DOMAIN reading
      /\ reading'[k] = job /\ \A i \in DOMAIN reading : i # k => reading'[i] = reading[i]
  BY <1>1, <1>2, <1>3
<1>5. StageTypes'
  BY <1>1, <1>4 DEF Stages, StageTypes
<1>6. First' = First /\ Entries' = Entries
  BY <1>1, <1>4 DEF First, Entries
<1>7. is_finished /\ is_finished'
  BY <1>1 DEF Stages, ReadingOk
<1>8. ASSUME NEW i \in DOMAIN reading'
      PROVE  /\ reading'[i].bucket = First + i - 1
             /\ reading'[i].offset = Cardinality(BelowBucket(Entries, reading'[i].bucket))
             /\ reading'[i].state = "read" => Listing(reading'[i].out, reading'[i].bucket, Entries)
  <2>1. CASE i = k
    BY <2>1, <1>1, <1>3, <1>4 DEF Stages, ReadingOk
  <2>2. CASE i # k
    BY <2>2, <1>4 DEF Stages, ReadingOk
  <2>3. QED
    BY <2>1, <2>2
<1>9. ReadingOk'
  <2>1. Len(reading') <= next' /\ offset' = Cardinality(BelowBucket(Entries, next'))
    BY <1>1, <1>4 DEF Stages, ReadingOk
  <2>2. QED
    BY <2>1, <1>6, <1>7, <1>8 DEF ReadingOk
<1>10. QED
  BY <1>1, <1>5, <1>6, <1>9, ReadingStages

LEMMA ReadBucketStages ==
    ASSUME NEW k \in Nat PROVE Inv /\ Once /\ Stages /\ ReadBucket(k) => Stages'
<1> SUFFICES ASSUME Inv, Once, Stages, ReadBucket(k) PROVE Stages'
  OBVIOUS
<1>1. /\ k \in DOMAIN reading /\ reading[k].state = "open"
      /\ reading' = [reading EXCEPT ![k].state = "read", ![k].out = BlocksFrom(reading[k])]
      /\ UNCHANGED <<work, is_finished, next, offset, passing, sorting, output>>
  BY DEF ReadBucket, adding
<1>2. reading \in Seq(Jobs) /\ reading[k] \in Jobs
  BY <1>1 DEF Stages, StageTypes
<1>3. is_finished /\ is_finished'
  BY <1>1 DEF Stages, ReadingOk
<1> DEFINE out == BlocksFrom(reading[k])
           b == reading[k].bucket
           job == [reading[k] EXCEPT !.state = "read", !.out = out]
<1>4. out \in Seq(Blocks) /\ Listing(out, b, Entries)
  <2>1. b \in Buckets /\ reading[k].offset = Cardinality(BelowBucket(Entries, b))
    BY <1>1, <1>2 DEF Stages, ReadingOk, Jobs
  <2>2. KnownEntries(Entries)
    BY EntriesKnown DEF Inv
  <2>3. file[b] \in Seq(Entry) /\ IsInjective(file[b]) /\ ToSet(file[b]) = InBucket(Entries, b)
    BY <1>3, <2>1, FinishedFiles
  <2>4. QED
    BY <2>1, <2>2, <2>3, BlocksListed
<1> HIDE DEF out
<1>5. /\ job \in Jobs /\ job.bucket = b /\ job.offset = reading[k].offset /\ job.out = out
  BY <1>1, <1>2, <1>4 DEF Jobs
<1>12. reading' = [reading EXCEPT ![k] = job]
  BY <1>1, Zenon DEF out
<1> HIDE DEF job
<1>6. /\ reading' \in Seq(Jobs) /\ Len(reading') = Len(reading) /\ DOMAIN reading' = DOMAIN reading
      /\ reading'[k] = job /\ \A i \in DOMAIN reading : i # k => reading'[i] = reading[i]
  <2>1. k \in DOMAIN reading /\ job \in Jobs
    BY <1>1, <1>5
  <2>2. QED
    BY <2>1, <1>2, <1>12
<1>7. StageTypes'
  BY <1>1, <1>6 DEF Stages, StageTypes
<1>8. First' = First /\ Entries' = Entries
  BY <1>1, <1>6 DEF First, Entries
<1>9. ASSUME NEW i \in DOMAIN reading'
      PROVE  /\ reading'[i].bucket = First + i - 1
             /\ reading'[i].offset = Cardinality(BelowBucket(Entries, reading'[i].bucket))
             /\ reading'[i].state = "read" => Listing(reading'[i].out, reading'[i].bucket, Entries)
  <2>1. CASE i = k
    BY <2>1, <1>1, <1>4, <1>5, <1>6 DEF Stages, ReadingOk
  <2>2. CASE i # k
    BY <2>2, <1>6 DEF Stages, ReadingOk
  <2>3. QED
    BY <2>1, <2>2
<1>10. ReadingOk'
  <2>1. Len(reading') <= next' /\ offset' = Cardinality(BelowBucket(Entries, next'))
    BY <1>1, <1>6 DEF Stages, ReadingOk
  <2>2. QED
    BY <2>1, <1>3, <1>8, <1>9 DEF ReadingOk
<1>11. QED
  BY <1>1, <1>7, <1>8, <1>10, ReadingStages

LEMMA WholeBlock ==
    ASSUME NEW all, KnownEntries(all), NEW block, Whole(block, all)
    PROVE  /\ block \in Blocks /\ block.entries \in Seq(Entry)
           /\ block.entries[1] \in ToSet(block.entries) /\ block.entries[1] \in Entry
           /\ KeyOf(block) \in Nat /\ BucketOf(block.entries[1]) \in Nat
           /\ \A e \in ToSet(block.entries) :
                 e \in all /\ BlockOf(e) = KeyOf(block) /\ BucketOf(e) = BucketOf(block.entries[1])
<1>1. block \in Blocks /\ block.entries \in Seq(Entry) /\ block.entries # <<>>
  BY DEF Whole, Blocks
<1>2. block.entries[1] \in ToSet(block.entries) /\ block.entries[1] \in Entry
  BY <1>1, FirstElement
<1>3. KeyOf(block) \in Nat /\ BucketOf(block.entries[1]) \in Nat
  BY <1>2, BlockOrder DEF KeyOf
<1>4. ASSUME NEW e \in ToSet(block.entries)
      PROVE  e \in all /\ BlockOf(e) = KeyOf(block) /\ BucketOf(e) = BucketOf(block.entries[1])
  <2>1. e \in all /\ BlockOf(e) = KeyOf(block) /\ e \in Entry
    BY DEF Whole, InBlock, KnownEntries
  <2>2. BlockOf(e) = BlockOf(block.entries[1])
    BY <2>1 DEF KeyOf
  <2>3. QED
    BY <2>1, <2>2, <1>2, BlockOrder
<1>5. QED
  BY <1>1, <1>2, <1>3, <1>4

LEMMA BucketsApart ==
    ASSUME NEW all, KnownEntries(all), NEW low, Whole(low, all), NEW high, Whole(high, all),
           BucketOf(low.entries[1]) < BucketOf(high.entries[1])
    PROVE  KeyOf(low) < KeyOf(high)
BY WholeBlock, BlockOrder DEF KeyOf

\* The blocks in the stages are whole.
LEMMA StagesWhole ==
    ASSUME Stages
    PROVE  /\ \A block \in InPassing : Whole(block, Entries) /\ BucketOf(block.entries[1]) < First
           /\ \A block \in InPipeline : Whole(block, Entries) /\ BucketOf(block.entries[1]) < First
           /\ First \in Nat
<1>1. First \in Nat
  BY DEF Stages, StageTypes, ReadingOk, First
<1>2. ASSUME NEW block \in InPassing
      PROVE  Whole(block, Entries) /\ BucketOf(block.entries[1]) < First
  <2>1. PICK p \in DOMAIN passing : block \in ToSet(passing[p])
    BY DEF InPassing
  <2>2. PICK q \in DOMAIN passing[p] : block = passing[p][q]
    BY <2>1 DEF ToSet
  <2>3. p \in 1 .. Len(passing) /\ Len(passing) \in Nat
    BY DEF Stages, StageTypes
  <2>4. Whole(block, Entries) /\ BucketOf(block.entries[1]) = First - Len(passing) + p - 1
    BY <2>1, <2>2 DEF Stages, PassingOk, BucketIs
  <2>5. First - Len(passing) + p - 1 < First
    BY <1>1, <2>3
  <2>6. QED
    BY <2>4, <2>5
<1>3. \A block \in ToSet(sorting) : Whole(block, Entries) /\ BucketOf(block.entries[1]) < First
  BY DEF Stages, SortingOk, ToSet
<1>4. QED
  BY <1>1, <1>2, <1>3 DEF InPipeline

LEMMA DeliverBucketStages == Inv /\ Stages /\ DeliverBucket => Stages'
<1> SUFFICES ASSUME Inv, Stages, DeliverBucket PROVE Stages'
  OBVIOUS
<1> DEFINE r == Len(reading)
           n == Len(passing)
           out == Head(reading).out
<1>1. /\ reading # <<>> /\ Head(reading).state = "read"
      /\ passing' = Append(passing, out) /\ reading' = Tail(reading)
      /\ UNCHANGED <<work, is_finished, next, offset, sorting, output>>
  BY DEF DeliverBucket, adding, files
<1>2. reading \in Seq(Jobs) /\ passing \in Seq(Seq(Blocks)) /\ next \in Nat
  BY DEF Stages, StageTypes
<1>3. /\ r \in Nat \ {0} /\ reading[1] = Head(reading) /\ reading[1] \in Jobs /\ 1 \in DOMAIN reading
      /\ reading' \in Seq(Jobs) /\ Len(reading') = r - 1 /\ DOMAIN reading' = 1 .. r - 1
      /\ \A k \in 1 .. r - 1 : reading'[k] = reading[k + 1] /\ k + 1 \in DOMAIN reading
  BY <1>1, <1>2, TailElements
<1>4. is_finished /\ is_finished'
  BY <1>1 DEF Stages, ReadingOk
<1>5. Listing(out, First, Entries) /\ out \in Seq(Blocks)
  <2>1. reading[1].bucket = First + 1 - 1 /\ Listing(reading[1].out, reading[1].bucket, Entries)
    BY <1>1, <1>3 DEF Stages, ReadingOk
  <2>2. First \in Nat
    BY StagesWhole
  <2>3. QED
    BY <2>1, <2>2, <1>3 DEF Jobs
<1> HIDE DEF out
<1>6. Entries' = Entries /\ KnownEntries(Entries) /\ First \in Nat
  BY <1>1, EntriesKnown, StagesWhole DEF Entries, Inv
<1>7. First' = First + 1
  BY <1>1, <1>2, <1>3 DEF First
<1>8. /\ passing' \in Seq(Seq(Blocks)) /\ Len(passing') = n + 1 /\ n \in Nat
      /\ DOMAIN passing = 1 .. n /\ DOMAIN passing' = 1 .. n + 1
      /\ \A p \in 1 .. n : passing'[p] = passing[p]
      /\ passing'[n + 1] = out
  BY <1>1, <1>2, <1>5, AppendedElement
<1>9. StageTypes'
  BY <1>1, <1>3, <1>8 DEF Stages, StageTypes
<1>10. ReadingOk'
  <2>1. Len(reading') <= next' /\ offset' = Cardinality(BelowBucket(Entries, next'))
    <3>1. r <= next /\ offset = Cardinality(BelowBucket(Entries, next))
      BY DEF Stages, ReadingOk
    <3>2. r - 1 <= next
      BY <3>1, <1>2, <1>3
    <3>3. QED
      BY <3>1, <3>2, <1>1, <1>3
  <2>2. ASSUME NEW k \in DOMAIN reading'
        PROVE  /\ reading'[k].bucket = First' + k - 1
               /\ reading'[k].offset = Cardinality(BelowBucket(Entries, reading'[k].bucket))
               /\ reading'[k].state = "read" => Listing(reading'[k].out, reading'[k].bucket, Entries)
    <3>1. k \in Nat /\ reading'[k] = reading[k + 1] /\ k + 1 \in DOMAIN reading
      BY <1>3
    <3>2. /\ reading[k + 1].bucket = First + (k + 1) - 1
          /\ reading[k + 1].offset = Cardinality(BelowBucket(Entries, reading[k + 1].bucket))
          /\ reading[k + 1].state = "read" => Listing(reading[k + 1].out, reading[k + 1].bucket, Entries)
      BY <3>1 DEF Stages, ReadingOk
    <3>3. First + (k + 1) - 1 = First' + k - 1
      BY <3>1, <1>6, <1>7
    <3>4. QED
      BY <3>1, <3>2, <3>3
  <2>3. QED
    BY <2>1, <2>2, <1>4, <1>6 DEF ReadingOk
<1>11. PassingOk'
  <2>1. ASSUME NEW p \in DOMAIN passing'
        PROVE  /\ \A q \in DOMAIN passing'[p] :
                     Whole(passing'[p][q], Entries) /\ BucketIs(passing'[p][q], First' - Len(passing') + p - 1)
               /\ Rising(passing'[p])
    <3>1. p \in 1 .. n \/ p = n + 1
      BY <1>8
    <3>2. CASE p \in 1 .. n
      <4>1. First' - Len(passing') + p - 1 = First - Len(passing) + p - 1
        BY <3>2, <1>6, <1>7, <1>8
      <4>2. QED
        BY <3>2, <4>1, <1>8 DEF Stages, PassingOk
    <3>3. CASE p = n + 1
      <4>1. First' - Len(passing') + p - 1 = First
        BY <3>3, <1>6, <1>7, <1>8
      <4>2. QED
        BY <3>3, <4>1, <1>5, <1>8 DEF Listing
    <3>4. QED
      BY <3>1, <3>2, <3>3
  <2>2. QED
    BY <2>1, <1>6 DEF PassingOk
<1>12. /\ InPassing' = InPassing \cup ToSet(out)
       /\ InPipeline' = InPipeline \cup ToSet(out)
  <2>1. InPassing' = InPassing \cup ToSet(out)
    <3>1. \A p \in 1 .. n + 1 : p \in 1 .. n \/ p = n + 1
      BY <1>8
    <3>2. \A p \in 1 .. n : p \in 1 .. n + 1
      BY <1>8
    <3>3. n + 1 \in 1 .. n + 1
      BY <1>8
    <3>4. InPassing' \subseteq InPassing \cup ToSet(out)
      BY <3>1, <1>8 DEF InPassing
    <3>5. InPassing \subseteq InPassing' /\ ToSet(out) \subseteq InPassing'
      BY <3>2, <3>3, <1>8 DEF InPassing
    <3>6. QED
      BY <3>4, <3>5
  <2>2. QED
    BY <2>1, <1>1 DEF InPipeline
<1>13. \A block \in ToSet(out) : Whole(block, Entries) /\ BucketOf(block.entries[1]) = First
  BY <1>5 DEF Listing, BucketIs, ToSet
<1>14. SortingOk'
  <2>1. \A i \in DOMAIN sorting : \A block \in ToSet(out) : KeyOf(sorting[i]) < KeyOf(block)
    <3>1. \A i \in DOMAIN sorting : Whole(sorting[i], Entries) /\ BucketOf(sorting[i].entries[1]) < First
      BY DEF Stages, SortingOk
    <3>2. QED
      BY <3>1, <1>6, <1>13, BucketsApart
  <2>2. \A i \in DOMAIN sorting :
           Whole(sorting[i], Entries) /\ BucketOf(sorting[i].entries[1]) < First'
    <3>1. ASSUME NEW i \in DOMAIN sorting
          PROVE  Whole(sorting[i], Entries) /\ BucketOf(sorting[i].entries[1]) < First'
      <4>1. Whole(sorting[i], Entries) /\ BucketOf(sorting[i].entries[1]) < First
        BY DEF Stages, SortingOk
      <4>2. BucketOf(sorting[i].entries[1]) \in Nat
        BY <4>1, <1>6, WholeBlock
      <4>3. QED
        BY <4>1, <4>2, <1>6, <1>7
    <3>2. QED
      BY <3>1
  <2>3. QED
    BY <2>1, <2>2, <1>1, <1>6, <1>12 DEF Stages, SortingOk
<1>15. Emitted' = Emitted
  BY <1>1 DEF Emitted
<1>16. EmittedOk'
  <2>1. ASSUME NEW e \in ToSet(Emitted)
        PROVE  BucketOf(e) < First' /\ \A block \in InPipeline' : BlockOf(e) < KeyOf(block)
    <3>1. e \in Entry /\ BucketOf(e) < First /\ \A block \in InPipeline : BlockOf(e) < KeyOf(block)
      BY <1>6 DEF Stages, EmittedOk, KnownEntries
    <3>2. BucketOf(e) \in Nat
      BY <3>1, BlockOrder
    <3>3. \A block \in ToSet(out) : BlockOf(e) < KeyOf(block)
      BY <3>1, <1>6, <1>13, WholeBlock, BlockOrder DEF KeyOf
    <3>4. QED
      BY <3>1, <3>2, <3>3, <1>6, <1>7, <1>12
  <2>2. ASSUME NEW e \in Entries, BucketOf(e) < First'
        PROVE  e \in ToSet(Emitted) \/ \E block \in InPipeline' : e \in ToSet(block.entries)
    <3>1. BucketOf(e) \in Nat
      BY <1>6, BlockOrder DEF KnownEntries
    <3>2. CASE BucketOf(e) < First
      BY <3>2, <1>12 DEF Stages, EmittedOk
    <3>3. CASE BucketOf(e) = First
      <4>1. PICK i \in DOMAIN out : e \in ToSet(out[i].entries)
        BY <3>3, <1>5 DEF Listing, InBucket
      <4>2. QED
        BY <4>1, <1>12 DEF ToSet
    <3>4. QED
      BY <2>2, <3>1, <3>2, <3>3, <1>6, <1>7
  <2>3. InOrder(Emitted) /\ IsInjective(Emitted) /\ ToSet(Emitted) \subseteq Entries
    BY DEF Stages, EmittedOk
  <2>4. QED
    BY <2>1, <2>2, <2>3, <1>6, <1>15 DEF EmittedOk
<1>17. BlocksInPlace'
  BY <1>1 DEF Stages, BlocksInPlace
<1>18. QED
  BY <1>9, <1>10, <1>11, <1>14, <1>16, <1>17 DEF Stages

\* Steps that leave read_pool alone
LEMMA SameReading ==
    ASSUME Stages, Inv, UNCHANGED <<work, is_finished, next, offset, reading>>, is_finished
    PROVE  ReadingOk' /\ First' = First /\ Entries' = Entries /\ KnownEntries(Entries)
<1>1. First' = First /\ Entries' = Entries
  BY DEF First, Entries
<1>2. KnownEntries(Entries)
  BY EntriesKnown DEF Inv
<1>3. ReadingOk'
  BY <1>1 DEF Stages, ReadingOk
<1>4. QED
  BY <1>1, <1>2, <1>3

\* Steps that only move blocks from one stage to the next, or sort them
LEMMA SamePipeline ==
    ASSUME Stages, Entries' = Entries, First' = First, UNCHANGED output,
           \A block \in InPipeline' : \E old \in InPipeline : KeyOf(block) = KeyOf(old),
           \A old \in InPipeline : \E block \in InPipeline' : ToSet(block.entries) = ToSet(old.entries)
    PROVE  EmittedOk' /\ BlocksInPlace'
<1>1. Emitted' = Emitted
  BY DEF Emitted
<1>2. \A e \in ToSet(Emitted) :
          BucketOf(e) < First /\ \A block \in InPipeline' : BlockOf(e) < KeyOf(block)
  BY DEF Stages, EmittedOk
<1>3. \A e \in Entries :
          BucketOf(e) < First =>
              e \in ToSet(Emitted) \/ \E block \in InPipeline' : e \in ToSet(block.entries)
  BY DEF Stages, EmittedOk
<1>4. InOrder(Emitted) /\ IsInjective(Emitted) /\ ToSet(Emitted) \subseteq Entries
  BY DEF Stages, EmittedOk
<1>5. EmittedOk'
  BY <1>1, <1>2, <1>3, <1>4 DEF EmittedOk
<1>6. BlocksInPlace'
  BY DEF Stages, BlocksInPlace
<1>7. QED
  BY <1>5, <1>6

LEMMA PassedBucketStages == Inv /\ Stages /\ PassedBucket => Stages'
<1> SUFFICES ASSUME Inv, Stages, PassedBucket PROVE Stages'
  OBVIOUS
<1> DEFINE n == Len(passing)
<1>1. /\ passing # <<>> /\ Head(passing) = <<>>
      /\ passing' = Tail(passing)
      /\ UNCHANGED <<work, is_finished, next, offset, reading, sorting, output>>
  BY DEF PassedBucket, adding, files
<1>2. passing \in Seq(Seq(Blocks))
  BY DEF Stages, StageTypes
<1>3. /\ n \in Nat \ {0} /\ DOMAIN passing = 1 .. n /\ passing[1] = <<>>
      /\ passing' \in Seq(Seq(Blocks)) /\ Len(passing') = n - 1 /\ DOMAIN passing' = 1 .. n - 1
      /\ \A p \in 1 .. n - 1 : passing'[p] = passing[p + 1]
  BY <1>1, <1>2, TailElements
<1>4. is_finished
  BY <1>1 DEF Stages, ReadingOk
<1>5. ReadingOk' /\ First' = First /\ Entries' = Entries /\ First \in Nat
  BY <1>1, <1>4, SameReading, StagesWhole
<1>6. StageTypes'
  BY <1>1, <1>3 DEF Stages, StageTypes
<1>7. InPassing' = InPassing
  <2>1. \A p \in 1 .. n - 1 : p + 1 \in 1 .. n
    BY <1>3
  <2>2. \A p \in 1 .. n : p = 1 \/ (p - 1 \in 1 .. n - 1 /\ passing'[p - 1] = passing[p])
    <3>1. ASSUME NEW p \in 1 .. n, p # 1 PROVE p - 1 \in 1 .. n - 1 /\ passing'[p - 1] = passing[p]
      <4>1. p - 1 \in 1 .. n - 1 /\ (p - 1) + 1 = p
        BY <3>1, <1>3
      <4>2. QED
        BY <4>1, <1>3
    <3>2. QED
      BY <3>1
  <2>3. InPassing' \subseteq InPassing
    BY <2>1, <1>3 DEF InPassing
  <2>4. ToSet(passing[1]) = {}
    BY <1>3, EmptySequence
  <2>5. InPassing \subseteq InPassing'
    BY ZenonT(60), <2>2, <2>4, <1>3 DEF InPassing
  <2>6. QED
    BY <2>3, <2>5
<1>8. InPipeline' = InPipeline
  BY <1>1, <1>7 DEF InPipeline
<1>9. PassingOk'
  <2>1. ASSUME NEW p \in DOMAIN passing'
        PROVE  /\ \A q \in DOMAIN passing'[p] :
                     Whole(passing'[p][q], Entries) /\ BucketIs(passing'[p][q], First' - Len(passing') + p - 1)
               /\ Rising(passing'[p])
    <3>1. p \in Nat /\ p + 1 \in DOMAIN passing /\ passing'[p] = passing[p + 1]
      BY <1>3
    <3>2. First' - Len(passing') + p - 1 = First - Len(passing) + (p + 1) - 1
      BY <3>1, <1>3, <1>5
    <3>3. QED
      BY <3>1, <3>2 DEF Stages, PassingOk
  <2>2. QED
    BY <2>1, <1>5 DEF PassingOk
<1>10. SortingOk'
  BY <1>1, <1>5, <1>7 DEF Stages, SortingOk
<1>11. EmittedOk' /\ BlocksInPlace'
  BY <1>1, <1>5, <1>8, SamePipeline
<1>12. QED
  BY <1>5, <1>6, <1>9, <1>10, <1>11 DEF Stages

LEMMA PassBlockStages == Inv /\ Stages /\ PassBlock => Stages'
<1> SUFFICES ASSUME Inv, Stages, PassBlock PROVE Stages'
  OBVIOUS
<1> DEFINE n == Len(passing)
           m == Len(sorting)
           first == passing[1]
           block == first[1]
<1>1. /\ passing # <<>> /\ Head(passing) # <<>>
      /\ sorting' = Append(sorting, Head(Head(passing)))
      /\ passing' = [passing EXCEPT ![1] = Tail(@)]
      /\ UNCHANGED <<work, is_finished, next, offset, reading, output>>
  BY DEF PassBlock, adding, files
<1>2. passing \in Seq(Seq(Blocks)) /\ sorting \in Seq(Blocks)
  BY DEF Stages, StageTypes
<1>3. n \in Nat \ {0} /\ DOMAIN passing = 1 .. n /\ first = Head(passing) /\ first \in Seq(Blocks)
  BY <1>1, <1>2, TailElements
<1>4. /\ Len(first) \in Nat \ {0} /\ DOMAIN first = 1 .. Len(first) /\ block = Head(first) /\ block \in Blocks
      /\ Tail(first) \in Seq(Blocks) /\ DOMAIN Tail(first) = 1 .. Len(first) - 1
      /\ \A q \in 1 .. Len(first) - 1 : Tail(first)[q] = first[q + 1]
  BY <1>1, <1>3, TailElements
<1>5. /\ passing' \in Seq(Seq(Blocks)) /\ Len(passing') = n /\ DOMAIN passing' = 1 .. n
      /\ passing'[1] = Tail(first)
      /\ \A p \in 1 .. n : p # 1 => passing'[p] = passing[p]
  BY <1>1, <1>2, <1>3, <1>4
<1>6. /\ sorting' \in Seq(Blocks) /\ DOMAIN sorting' = 1 .. m + 1 /\ m \in Nat /\ DOMAIN sorting = 1 .. m
      /\ \A i \in 1 .. m : sorting'[i] = sorting[i]
      /\ sorting'[m + 1] = block
  <2>1. sorting' = Append(sorting, block)
    BY <1>1, <1>3, <1>4
  <2> HIDE DEF block
  <2>2. QED
    BY <2>1, <1>2, <1>4, AppendedElement
<1>7. is_finished
  BY <1>1 DEF Stages, ReadingOk
<1>8. ReadingOk' /\ First' = First /\ Entries' = Entries /\ KnownEntries(Entries) /\ First \in Nat
  BY <1>1, <1>7, SameReading, StagesWhole
<1>9. StageTypes'
  BY <1>1, <1>5, <1>6 DEF Stages, StageTypes
\* The block leaves sort_thread ahead of all the others.
<1>10. /\ block \in InPassing /\ Whole(block, Entries)
       /\ BucketOf(block.entries[1]) = First - n /\ BucketOf(block.entries[1]) < First
  <2>1. 1 \in DOMAIN passing /\ 1 \in DOMAIN first
    BY <1>3, <1>4
  <2>2. Whole(block, Entries) /\ BucketOf(block.entries[1]) = First - n + 1 - 1
    BY <2>1 DEF Stages, PassingOk, BucketIs
  <2>3. block \in InPassing
    BY <2>1 DEF InPassing, ToSet
  <2>4. First - n + 1 - 1 = First - n /\ First - n < First
    BY <1>3, <1>8
  <2>5. QED
    BY <2>2, <2>3, <2>4
<1>11. ASSUME NEW other \in InPassing'
       PROVE  other \in InPassing /\ KeyOf(block) < KeyOf(other)
  <2>1. PICK p \in 1 .. n : other \in ToSet(passing'[p])
    BY <1>5 DEF InPassing
  <2>2. PICK q \in DOMAIN passing'[p] : other = passing'[p][q]
    BY <2>1 DEF ToSet
  <2>3. CASE p = 1
    <3>1. q \in 1 .. Len(first) - 1 /\ other = first[q + 1]
      BY <2>2, <2>3, <1>4, <1>5
    <3>2. q + 1 \in DOMAIN first /\ 1 \in DOMAIN first /\ 1 < q + 1
      BY <3>1, <1>4
    <3>3. Rising(first)
      BY <2>3 DEF Stages, PassingOk
    <3>4. KeyOf(block) < KeyOf(other)
      BY <3>1, <3>2, <3>3 DEF Rising
    <3>5. other \in InPassing
      BY <2>3, <3>1, <3>2, <1>3 DEF InPassing, ToSet
    <3>6. QED
      BY <3>4, <3>5
  <2>4. CASE p # 1
    <3>1. passing'[p] = passing[p] /\ p \in DOMAIN passing
      BY <2>4, <1>3, <1>5
    <3>2. other \in InPassing
      BY <2>1, <3>1 DEF InPassing
    <3>3. Whole(other, Entries) /\ BucketOf(other.entries[1]) = First - n + p - 1
      BY <2>2, <3>1 DEF Stages, PassingOk, BucketIs
    <3>4. First - n < First - n + p - 1
      BY <2>4, <1>3, <1>8
    <3>5. BucketOf(block.entries[1]) < BucketOf(other.entries[1])
      BY <3>3, <3>4, <1>10
    <3>6. QED
      BY <3>2, <3>3, <3>5, <1>8, <1>10, BucketsApart
  <2>5. QED
    BY <2>3, <2>4
<1>12. ASSUME NEW other \in InPassing, other # block PROVE other \in InPassing'
  <2>1. PICK p \in 1 .. n : other \in ToSet(passing[p])
    BY <1>3 DEF InPassing
  <2>2. PICK q \in DOMAIN passing[p] : other = passing[p][q]
    BY <2>1 DEF ToSet
  <2>3. CASE p = 1
    <3>1. q \in 1 .. Len(first) /\ q # 1
      BY <2>2, <2>3, <1>4, <1>12
    <3>2. q - 1 \in 1 .. Len(first) - 1 /\ (q - 1) + 1 = q
      BY <3>1, <1>4
    <3>3. q - 1 \in DOMAIN passing'[1] /\ passing'[1][q - 1] = other
      BY <2>2, <2>3, <3>2, <1>4, <1>5
    <3>4. QED
      BY <2>3, <3>3, <1>5 DEF InPassing, ToSet
  <2>4. CASE p # 1
    BY <2>1, <2>4, <1>5 DEF InPassing
  <2>5. QED
    BY <2>3, <2>4
<1> HIDE DEF block, first
<1>13. ToSet(sorting') = ToSet(sorting) \cup {block}
  BY <1>6 DEF ToSet
<1>14. InPipeline' = InPipeline
  BY <1>10, <1>11, <1>12, <1>13 DEF InPipeline
<1>15. PassingOk'
  <2>1. ASSUME NEW p \in DOMAIN passing'
        PROVE  /\ \A q \in DOMAIN passing'[p] :
                     Whole(passing'[p][q], Entries) /\ BucketIs(passing'[p][q], First' - Len(passing') + p - 1)
               /\ Rising(passing'[p])
    <3>1. p \in DOMAIN passing /\ First' - Len(passing') + p - 1 = First - Len(passing) + p - 1
      BY <1>3, <1>5, <1>8
    <3>2. /\ \A q \in DOMAIN passing[p] :
                Whole(passing[p][q], Entries) /\ BucketIs(passing[p][q], First - Len(passing) + p - 1)
          /\ Rising(passing[p])
      BY <3>1 DEF Stages, PassingOk
    <3>3. CASE p = 1
      <4>1. passing[1] = first
        BY DEF first
      <4>2. \A q \in 1 .. Len(first) - 1 : q + 1 \in DOMAIN first
        BY <1>4
      <4>3. \A q \in DOMAIN Tail(first) :
               Whole(Tail(first)[q], Entries) /\ BucketIs(Tail(first)[q], First - Len(passing) + p - 1)
        BY <3>2, <3>3, <4>1, <4>2, <1>4
      <4>4. Rising(Tail(first))
        <5>1. ASSUME NEW i \in DOMAIN Tail(first), NEW j \in DOMAIN Tail(first), i < j
              PROVE  KeyOf(Tail(first)[i]) < KeyOf(Tail(first)[j])
          <6>1. i + 1 \in DOMAIN first /\ j + 1 \in DOMAIN first /\ i + 1 < j + 1
            BY <5>1, <1>4
          <6>2. KeyOf(first[i + 1]) < KeyOf(first[j + 1])
            BY <6>1, <3>2, <3>3, <4>1 DEF Rising
          <6>3. QED
            BY <6>2, <1>4
        <5>2. QED
          BY <5>1 DEF Rising
      <4>5. QED
        BY <3>1, <3>3, <4>3, <4>4, <1>5
    <3>4. CASE p # 1
      BY <3>1, <3>2, <3>4, <1>3, <1>5
    <3>5. QED
      BY <3>3, <3>4
  <2>2. QED
    BY <2>1, <1>8 DEF PassingOk
<1>16. SortingOk'
  <2>1. \A i \in 1 .. m : /\ Whole(sorting[i], Entries) /\ BucketOf(sorting[i].entries[1]) < First
                          /\ \A other \in InPassing : KeyOf(sorting[i]) < KeyOf(other)
    BY <1>6 DEF Stages, SortingOk
  <2>2. \A i \in 1 .. m + 1 : i \in 1 .. m \/ i = m + 1
    BY <1>6
  <2>3. \A i \in DOMAIN sorting' : /\ Whole(sorting'[i], Entries) /\ BucketOf(sorting'[i].entries[1]) < First
                                   /\ \A other \in InPassing' : KeyOf(sorting'[i]) < KeyOf(other)
    BY <2>1, <2>2, <1>6, <1>10, <1>11
  <2>4. ASSUME NEW i \in 1 .. m + 1, NEW j \in 1 .. m + 1, i < j
        PROVE  KeyOf(sorting'[i]) < KeyOf(sorting'[j])
    <3>1. i \in 1 .. m
      BY <2>4, <1>6
    <3>2. CASE j \in 1 .. m
      BY <2>4, <3>1, <3>2, <1>6 DEF Stages, SortingOk, Rising
    <3>3. CASE j = m + 1
      BY <3>1, <3>3, <2>1, <1>6, <1>10
    <3>4. QED
      BY <3>2, <3>3, <2>2
  <2>5. Rising(sorting')
    BY <2>4, <1>6 DEF Rising
  <2>6. QED
    BY <2>3, <2>5, <1>8 DEF SortingOk
<1>17. EmittedOk' /\ BlocksInPlace'
  BY <1>1, <1>8, <1>14, SamePipeline
<1>18. QED
  BY <1>8, <1>9, <1>15, <1>16, <1>17 DEF Stages

\* std::sort() keeps the elements of a block.
LEMMA SortedBlock ==
    ASSUME NEW s \in Seq(Entry), NEW t \in Orders(s)
    PROVE  /\ t \in Seq(Entry) /\ ToSet(t) = ToSet(s) /\ IsInjective(t) /\ InOrder(t)
           /\ s # <<>> => t # <<>>
<1> DEFINE S == ToSet(s)
           n == Cardinality(S)
           D == 1 .. n
<1>1. S \subseteq Entry /\ IsFiniteSet(S)
  BY Elements, FiniteElements
<1>2. n \in Nat
  BY <1>1, FS_CardinalityType
<1>3. t \in [D -> S] /\ (\A i, j \in D : i # j => t[i] # t[j])
  BY DEF Orders, SetToSeqs
<1>4. InOrder(t)
  BY DEF Orders, InOrder
<1>5. IsFiniteSet(D) /\ Cardinality(D) = n
  BY <1>2, FS_Interval
<1> HIDE DEF S, n
<1>6. t \in Seq(Entry) /\ Len(t) = n /\ DOMAIN t = D
  <2>1. t \in [1 .. n -> Entry]
    BY <1>1, <1>3
  <2>2. QED
    BY <1>2, <2>1
<1>7. t \in Injection(D, S)
  BY <1>3 DEF Injection, IsInjective
<1> HIDE DEF D
<1>8. t \in Surjection(D, S)
  BY <1>1, <1>5, <1>7, FS_Injection DEF n
<1>9. ToSet(t) = S
  BY <1>6, <1>8 DEF Surjection, ToSet
<1>10. IsInjective(t)
  BY <1>3, <1>6 DEF IsInjective
<1>11. s # <<>> => t # <<>>
  <2>1. ASSUME s # <<>> PROVE t # <<>>
    <3>1. s[1] \in S
      BY <2>1, FirstElement DEF S
    <3>2. ToSet(t) # {}
      BY <3>1, <1>9
    <3>3. QED
      BY <3>2, EmptySequence
  <2>2. QED
    BY <2>1
<1>12. QED
  BY <1>4, <1>6, <1>9, <1>10, <1>11 DEF S

LEMMA SortBlockStages ==
    ASSUME NEW k \in Nat PROVE Inv /\ Stages /\ SortBlock(k) => Stages'
<1> SUFFICES ASSUME Inv, Stages, SortBlock(k) PROVE Stages'
  OBVIOUS
<1> DEFINE block == sorting[k]
<1>1. /\ k \in DOMAIN sorting
      /\ UNCHANGED <<work, is_finished, next, offset, reading, passing, output>>
  BY DEF SortBlock, adding, files
<1>2. PICK t \in Orders(block.entries) :
          sorting' = [sorting EXCEPT ![k].entries = t, ![k].sorted = TRUE]
  BY DEF SortBlock
<1>3. sorting \in Seq(Blocks) /\ block \in Blocks /\ block.entries \in Seq(Entry)
  <2>1. sorting \in Seq(Blocks) /\ block \in Blocks
    BY <1>1 DEF Stages, StageTypes
  <2>2. QED
    BY <2>1 DEF Blocks
<1>4. is_finished
  BY <1>1 DEF Stages, ReadingOk
<1>5. ReadingOk' /\ First' = First /\ Entries' = Entries /\ KnownEntries(Entries) /\ First \in Nat
  BY <1>1, <1>4, SameReading, StagesWhole
<1>6. Whole(block, Entries) /\ BucketOf(block.entries[1]) < First
  BY <1>1 DEF Stages, SortingOk
<1>7. /\ t \in Seq(Entry) /\ ToSet(t) = ToSet(block.entries) /\ IsInjective(t) /\ InOrder(t)
      /\ t # <<>>
  BY <1>2, <1>3, <1>6, SortedBlock DEF Whole
<1> DEFINE new == [block EXCEPT !.entries = t, !.sorted = TRUE]
<1>8. sorting' = [sorting EXCEPT ![k] = new]
  BY <1>2, Zenon
<1>9. /\ new \in Blocks /\ new.entries = t /\ new.offset = block.offset
  BY <1>3, <1>7 DEF Blocks
<1>10. KeyOf(new) = KeyOf(block) /\ BucketOf(t[1]) = BucketOf(block.entries[1])
  <2>1. t[1] \in ToSet(block.entries)
    BY <1>7, FirstElement
  <2>2. BlockOf(t[1]) = KeyOf(block) /\ BucketOf(t[1]) = BucketOf(block.entries[1])
    BY <2>1, <1>5, <1>6, WholeBlock
  <2>3. QED
    BY <2>2, <1>9 DEF KeyOf
<1> HIDE DEF new
<1>11. Whole(new, Entries) /\ BucketOf(new.entries[1]) < First
  BY <1>6, <1>7, <1>9, <1>10 DEF Whole
<1>12. /\ sorting' \in Seq(Blocks) /\ DOMAIN sorting' = DOMAIN sorting
       /\ sorting'[k] = new /\ \A i \in DOMAIN sorting : i # k => sorting'[i] = sorting[i]
  <2> HIDE DEF block
  <2>1. QED
    BY <1>1, <1>3, <1>8, <1>9
<1>13. StageTypes'
  BY <1>1, <1>12 DEF Stages, StageTypes
<1>14. InPassing' = InPassing
  BY <1>1 DEF InPassing
<1>15. PassingOk'
  BY <1>1, <1>5 DEF Stages, PassingOk
<1>16. \A i \in DOMAIN sorting : KeyOf(sorting'[i]) = KeyOf(sorting[i])
  BY <1>10, <1>12
<1>17. SortingOk'
  <2>1. \A i \in DOMAIN sorting' :
            Whole(sorting'[i], Entries) /\ BucketOf(sorting'[i].entries[1]) < First
    BY <1>11, <1>12 DEF Stages, SortingOk
  <2>2. Rising(sorting')
    BY <1>12, <1>16 DEF Stages, SortingOk, Rising
  <2>3. \A i \in DOMAIN sorting' : \A other \in InPassing : KeyOf(sorting'[i]) < KeyOf(other)
    BY <1>12, <1>16 DEF Stages, SortingOk
  <2>4. QED
    BY <2>1, <2>2, <2>3, <1>5, <1>14 DEF SortingOk
<1>18. \A other \in InPipeline' : \E old \in InPipeline : KeyOf(other) = KeyOf(old)
  BY <1>12, <1>14, <1>16 DEF InPipeline, ToSet
<1>19. \A old \in InPipeline : \E other \in InPipeline' : ToSet(other.entries) = ToSet(old.entries)
  <2>1. ASSUME NEW i \in DOMAIN sorting
        PROVE  sorting'[i] \in InPipeline' /\ ToSet(sorting'[i].entries) = ToSet(sorting[i].entries)
    <3>1. sorting'[i] \in InPipeline'
      BY <1>12 DEF InPipeline, ToSet
    <3>2. ToSet(sorting'[i].entries) = ToSet(sorting[i].entries)
      BY <1>7, <1>9, <1>12
    <3>3. QED
      BY <3>1, <3>2
  <2>2. ASSUME NEW old \in InPipeline
        PROVE  \E other \in InPipeline' : ToSet(other.entries) = ToSet(old.entries)
    <3>1. CASE old \in ToSet(sorting)
      <4>1. PICK i \in DOMAIN sorting : old = sorting[i]
        BY <3>1 DEF ToSet
      <4>2. QED
        BY <4>1, <2>1
    <3>2. CASE old \in InPassing
      BY <3>2, <1>14 DEF InPipeline
    <3>3. QED
      BY <3>1, <3>2 DEF InPipeline
  <2>3. QED
    BY <2>2
<1>20. EmittedOk' /\ BlocksInPlace'
  BY <1>1, <1>5, <1>18, <1>19, SamePipeline
<1>21. QED
  BY <1>5, <1>13, <1>15, <1>17, <1>20 DEF Stages

\* What is emitted before a block is all that is below it.
LEMMA FirstBlock ==
    ASSUME Stages, KnownEntries(Entries), NEW block, block \in InPipeline,
           \A other \in InPipeline : KeyOf(block) <= KeyOf(other)
    PROVE  ToSet(Emitted) = Below(Entries, KeyOf(block))
<1>1. Whole(block, Entries) /\ BucketOf(block.entries[1]) < First /\ First \in Nat
  BY StagesWhole
<1>2. block.entries[1] \in Entry /\ KeyOf(block) \in Nat /\ BucketOf(block.entries[1]) \in Nat
  BY <1>1, WholeBlock
<1>3. ToSet(Emitted) \subseteq Below(Entries, KeyOf(block))
  BY DEF Stages, EmittedOk, Below
<1>4. ASSUME NEW e \in Entries, BlockOf(e) < KeyOf(block) PROVE e \in ToSet(Emitted)
  <2>1. e \in Entry /\ BlockOf(e) \in Nat /\ BucketOf(e) \in Nat
    BY BlockOrder DEF KnownEntries
  <2>2. ~(BucketOf(block.entries[1]) < BucketOf(e))
    BY <2>1, <1>2, <1>4, BlockOrder DEF KeyOf
  <2>3. BucketOf(e) < First
    BY <2>1, <2>2, <1>1, <1>2
  <2>4. ASSUME NEW other \in InPipeline, e \in ToSet(other.entries) PROVE FALSE
    <3>1. Whole(other, Entries)
      BY StagesWhole
    <3>2. BlockOf(e) = KeyOf(other)
      BY <2>4, <3>1, WholeBlock
    <3>3. QED
      BY <2>1, <3>2, <1>2, <1>4
  <2>5. QED
    BY <2>3, <2>4 DEF Stages, EmittedOk
<1>5. QED
  BY <1>3, <1>4 DEF Below

LEMMA OrderedConcat ==
    ASSUME NEW s \in Seq(Entry), NEW t \in Seq(Entry), InOrder(s), InOrder(t),
           \A e \in ToSet(s) : \A f \in ToSet(t) : e.key <= f.key
    PROVE  InOrder(s \o t)
<1>1. Len(s) \in Nat /\ Len(t) \in Nat /\ Len(s \o t) = Len(s) + Len(t)
  OBVIOUS
<1>2. \A i \in 1 .. Len(s) : (s \o t)[i] = s[i] /\ s[i] \in ToSet(s)
  BY DEF ToSet
<1>3. \A i \in Len(s) + 1 .. Len(s) + Len(t) :
          (s \o t)[i] = t[i - Len(s)] /\ t[i - Len(s)] \in ToSet(t) /\ i - Len(s) \in 1 .. Len(t)
  BY DEF ToSet
<1>4. ASSUME NEW i \in 1 .. Len(s) + Len(t), NEW j \in 1 .. Len(s) + Len(t), i < j
      PROVE  (s \o t)[i].key <= (s \o t)[j].key
  <2>1. CASE j \in 1 .. Len(s)
    <3>1. i \in 1 .. Len(s)
      BY <2>1, <1>1, <1>4
    <3>2. s[i].key <= s[j].key
      BY <2>1, <3>1, <1>4 DEF InOrder
    <3>3. QED
      BY <2>1, <3>1, <3>2, <1>2
  <2>2. CASE i \in 1 .. Len(s) /\ j \in Len(s) + 1 .. Len(s) + Len(t)
    BY <2>2, <1>2, <1>3
  <2>3. CASE i \in Len(s) + 1 .. Len(s) + Len(t) /\ j \in Len(s) + 1 .. Len(s) + Len(t)
    <3>1. i - Len(s) < j - Len(s)
      BY <1>1, <1>4
    <3>2. t[i - Len(s)].key <= t[j - Len(s)].key
      BY <2>3, <3>1, <1>3 DEF InOrder
    <3>3. QED
      BY <2>3, <3>2, <1>3
  <2>4. QED
    BY <2>1, <2>2, <2>3, <1>1
<1>5. QED
  BY <1>1, <1>4 DEF InOrder

LEMMA EmittedSequence == StageTypes => Emitted \in Seq(Entry)
<1> SUFFICES ASSUME StageTypes PROVE Emitted \in Seq(Entry)
  OBVIOUS
<1> DEFINE n == Len(output)
           ss == [k \in 1 .. n |-> output[k].entries]
           more == [k \in 1 .. n + 1 |-> IF k \in 1 .. n THEN ss[k] ELSE <<>>]
<1>1. n \in Nat /\ \A k \in 1 .. n : output[k] \in Outputs
  BY DEF StageTypes
<1>2. ss \in [1 .. n -> Seq(Entry)]
  BY <1>1 DEF Outputs
<1>3. <<>> \in Seq(Entry)
  OBVIOUS
<1>4. Emitted = FlattenSeq(ss)
  BY DEF Emitted
<1> HIDE DEF n, ss
<1>5. more \in [1 .. n + 1 -> Seq(Entry)] /\ \A k \in 1 .. n : more[k] = ss[k]
  BY <1>1, <1>2, <1>3
<1> HIDE DEF more
<1>6. FlattenSeq(ss) \in Seq(Entry)
  BY <1>1, <1>2, <1>5, FlattenAppend
<1>7. QED
  BY <1>4, <1>6

LEMMA DeliverBlockStages ==
    Inv /\ Stages /\ DeliverBlock => Stages' /\ Emitted' = Emitted \o Head(sorting).entries
<1> SUFFICES ASSUME Inv, Stages, DeliverBlock
             PROVE  Stages' /\ Emitted' = Emitted \o Head(sorting).entries
  OBVIOUS
<1> DEFINE n == Len(output)
           m == Len(sorting)
           block == Head(sorting)
           out == [entries |-> block.entries, offset |-> block.offset]
<1>1. /\ sorting # <<>> /\ block.sorted
      /\ output' = Append(output, out)
      /\ sorting' = Tail(sorting)
      /\ UNCHANGED <<work, is_finished, next, offset, reading, passing>>
  BY DEF DeliverBlock, adding, files
<1>2. sorting \in Seq(Blocks) /\ output \in Seq(Outputs) /\ StageTypes
  BY DEF Stages, StageTypes
<1>3. /\ m \in Nat \ {0} /\ DOMAIN sorting = 1 .. m /\ sorting[1] = block /\ block \in Blocks
      /\ sorting' \in Seq(Blocks) /\ DOMAIN sorting' = 1 .. m - 1
      /\ \A i \in 1 .. m - 1 : sorting'[i] = sorting[i + 1]
  BY <1>1, <1>2, TailElements
<1>4. out \in Outputs /\ out.entries = block.entries /\ out.offset = block.offset
  BY <1>3 DEF Outputs, Blocks
<1> HIDE DEF out, block
<1>5. /\ output' \in Seq(Outputs) /\ Len(output') = n + 1 /\ n \in Nat
      /\ DOMAIN output = 1 .. n
      /\ \A k \in 1 .. n : output'[k] = output[k] /\ output[k] \in Outputs
      /\ output'[n + 1] = out
  BY <1>1, <1>2, <1>4, AppendedElement
<1>6. is_finished
  BY <1>1 DEF Stages, ReadingOk
<1>7. ReadingOk' /\ First' = First /\ Entries' = Entries /\ KnownEntries(Entries) /\ First \in Nat
  BY <1>1, <1>6, SameReading, StagesWhole
<1>8. StageTypes'
  BY <1>1, <1>3, <1>5 DEF Stages, StageTypes
<1>9. InPassing' = InPassing
  BY <1>1 DEF InPassing
<1>10. PassingOk'
  BY <1>1, <1>7 DEF Stages, PassingOk
<1>11. \A i \in 1 .. m - 1 : i + 1 \in 1 .. m /\ 1 < i + 1
  BY <1>3
\* The block is below all that is left.
<1>12. /\ block \in InPipeline /\ Whole(block, Entries) /\ BucketOf(block.entries[1]) < First
  BY <1>3 DEF InPipeline, ToSet, Stages, SortingOk
<1>13. ASSUME NEW other \in InPipeline' PROVE other \in InPipeline /\ KeyOf(block) < KeyOf(other)
  <2>1. CASE other \in InPassing
    BY <2>1, <1>3 DEF InPipeline, Stages, SortingOk
  <2>2. CASE other \in ToSet(sorting')
    <3>1. PICK i \in 1 .. m - 1 : other = sorting'[i]
      BY <2>2, <1>3 DEF ToSet
    <3>2. other = sorting[i + 1] /\ i + 1 \in 1 .. m /\ 1 < i + 1
      BY <3>1, <1>3, <1>11
    <3>3. other \in InPipeline
      BY <3>2, <1>3 DEF InPipeline, ToSet
    <3>4. KeyOf(block) < KeyOf(other)
      BY <3>2, <1>3 DEF Stages, SortingOk, Rising
    <3>5. QED
      BY <3>3, <3>4
  <2>3. QED
    BY <2>1, <2>2, <1>9 DEF InPipeline
<1>14. ASSUME NEW other \in InPipeline, other # block PROVE other \in InPipeline'
  <2>1. CASE other \in InPassing
    BY <2>1, <1>9 DEF InPipeline
  <2>2. CASE other \in ToSet(sorting)
    <3>1. PICK i \in 1 .. m : other = sorting[i]
      BY <2>2, <1>3 DEF ToSet
    <3>2. i - 1 \in 1 .. m - 1 /\ (i - 1) + 1 = i
      BY <3>1, <1>3, <1>14
    <3>3. sorting'[i - 1] = other
      BY <3>1, <3>2, <1>3
    <3>4. QED
      BY <3>2, <3>3, <1>3 DEF InPipeline, ToSet
  <2>3. QED
    BY <2>1, <2>2 DEF InPipeline
<1>15. SortingOk'
  <2>1. \A i \in DOMAIN sorting' :
            /\ Whole(sorting'[i], Entries) /\ BucketOf(sorting'[i].entries[1]) < First
            /\ \A other \in InPassing : KeyOf(sorting'[i]) < KeyOf(other)
    BY <1>3, <1>11 DEF Stages, SortingOk
  <2>2. ASSUME NEW i \in 1 .. m - 1, NEW j \in 1 .. m - 1, i < j
        PROVE  KeyOf(sorting'[i]) < KeyOf(sorting'[j])
    <3>1. i + 1 \in DOMAIN sorting /\ j + 1 \in DOMAIN sorting /\ i + 1 < j + 1
      BY <2>2, <1>3, <1>11
    <3>2. KeyOf(sorting[i + 1]) < KeyOf(sorting[j + 1])
      BY <3>1 DEF Stages, SortingOk, Rising
    <3>3. QED
      BY <3>2, <1>3
  <2>3. Rising(sorting')
    BY <2>2, <1>3 DEF Rising
  <2>4. QED
    BY <2>1, <2>3, <1>7, <1>9 DEF SortingOk
<1>16. KeyOf(block) \in Nat
  BY <1>7, <1>12, WholeBlock
<1>17. ToSet(Emitted) = Below(Entries, KeyOf(block))
  <2>1. \A other \in InPipeline : KeyOf(block) <= KeyOf(other)
    BY <1>7, <1>13, <1>14, <1>16, StagesWhole, WholeBlock
  <2>2. QED
    BY <2>1, <1>7, <1>12, FirstBlock
<1> DEFINE ss == [k \in 1 .. n |-> output[k].entries]
           tt == [k \in 1 .. n + 1 |-> output'[k].entries]
<1>18. /\ ss \in [1 .. n -> Seq(Entry)] /\ tt \in [1 .. n + 1 -> Seq(Entry)]
       /\ \A k \in 1 .. n : tt[k] = ss[k]
       /\ tt[n + 1] = block.entries
  <2>1. \A k \in 1 .. n : k \in 1 .. n + 1
    BY <1>5
  <2>2. \A k \in 1 .. n + 1 : output'[k] \in Outputs
    BY <1>5
  <2>3. n + 1 \in 1 .. n + 1
    BY <1>5
  <2>4. QED
    BY <2>1, <2>2, <2>3, <1>4, <1>5 DEF Outputs
<1>19. Emitted = FlattenSeq(ss) /\ Emitted' = FlattenSeq(tt)
  BY <1>5 DEF Emitted
<1> HIDE DEF ss, tt
<1>20. Emitted \in Seq(Entry) /\ Emitted' = Emitted \o block.entries
  <2>1. n \in Nat
    BY <1>5
  <2> HIDE DEF n
  <2>2. FlattenSeq(ss) \in Seq(Entry) /\ FlattenSeq(tt) = FlattenSeq(ss) \o tt[n + 1]
    BY <2>1, <1>18, FlattenAppend
  <2>3. QED
    BY <2>2, <1>18, <1>19
<1>21. InOrder(Emitted) /\ IsInjective(Emitted) /\ ToSet(Emitted) \subseteq Entries
  BY DEF Stages, EmittedOk
<1>22. Len(Emitted) = block.offset
  <2>1. Cardinality(ToSet(Emitted)) = Len(Emitted)
    BY <1>20, <1>21, InjectiveLength
  <2>2. QED
    BY <2>1, <1>12, <1>17 DEF Whole
<1>23. BlocksInPlace'
  <2>1. ASSUME NEW k \in 1 .. n + 1
        PROVE  output'[k].offset = Len(FlattenSeq([i \in 1 .. k - 1 |-> output'[i].entries]))
    <3>1. CASE k = n + 1
      <4>1. [i \in 1 .. k - 1 |-> output'[i].entries] = ss
        BY <3>1, <1>5 DEF ss
      <4>2. output'[k].offset = block.offset
        BY <3>1, <1>4, <1>5
      <4>3. QED
        BY <4>1, <4>2, <1>19, <1>22
    <3>2. CASE k # n + 1
      <4>1. k \in 1 .. n /\ \A i \in 1 .. k - 1 : i \in 1 .. n
        BY <3>2, <1>5
      <4>2. [i \in 1 .. k - 1 |-> output'[i].entries] = [i \in 1 .. k - 1 |-> output[i].entries]
        BY <4>1, <1>5
      <4>3. output[k].offset = Len(FlattenSeq([i \in 1 .. k - 1 |-> output[i].entries]))
        BY <4>1 DEF Stages, BlocksInPlace
      <4>4. QED
        BY <4>1, <4>2, <4>3, <1>5
    <3>3. QED
      BY <3>1, <3>2
  <2>2. QED
    BY <2>1, <1>5 DEF BlocksInPlace
<1>24. block.entries \in Seq(Entry) /\ InOrder(block.entries) /\ IsInjective(block.entries)
  BY <1>1, <1>12 DEF Whole, Blocks, block
<1>25. \A e \in ToSet(block.entries) :
           e \in Entries /\ e \in Entry /\ BlockOf(e) = KeyOf(block) /\ BucketOf(e) < First
  BY <1>7, <1>12, WholeBlock DEF KnownEntries
<1>26. \A e \in ToSet(Emitted) : e \in Entry /\ BlockOf(e) < KeyOf(block)
  BY <1>7, <1>17 DEF Below, KnownEntries
<1>27. InOrder(Emitted')
  <2>1. \A e \in ToSet(Emitted) : \A f \in ToSet(block.entries) : e.key <= f.key
    <3>1. ASSUME NEW e \in ToSet(Emitted), NEW f \in ToSet(block.entries) PROVE e.key <= f.key
      <4>1. e \in Entry /\ f \in Entry /\ BlockOf(e) < BlockOf(f)
        BY <1>25, <1>26
      <4>2. e.key < f.key /\ e.key \in Nat /\ f.key \in Nat
        BY <4>1, BlockOrder, KeyAssumption
      <4>3. QED
        BY <4>2
    <3>2. QED
      BY <3>1
  <2>2. QED
    BY <2>1, <1>20, <1>21, <1>24, OrderedConcat
<1>28. ToSet(Emitted') = ToSet(Emitted) \cup ToSet(block.entries)
  BY <1>20, <1>24, ToSetConcat
<1>29. IsInjective(Emitted')
  <2>1. ToSet(Emitted) \cap ToSet(block.entries) = {}
    <3>1. ASSUME NEW e \in ToSet(Emitted), e \in ToSet(block.entries) PROVE FALSE
      <4>1. BlockOf(e) < KeyOf(block) /\ BlockOf(e) = KeyOf(block)
        BY <3>1, <1>25, <1>26
      <4>2. QED
        BY <4>1, <1>16
    <3>2. QED
      BY <3>1
  <2>2. QED
    BY <2>1, <1>20, <1>21, <1>24, InjectiveConcat
<1>30. EmittedOk'
  <2>1. \A e \in ToSet(Emitted') :
            BucketOf(e) < First /\ \A other \in InPipeline' : BlockOf(e) < KeyOf(other)
    BY <1>13, <1>25, <1>28 DEF Stages, EmittedOk
  <2>2. ASSUME NEW e \in Entries, BucketOf(e) < First
        PROVE  e \in ToSet(Emitted') \/ \E other \in InPipeline' : e \in ToSet(other.entries)
    <3>1. e \in ToSet(Emitted) \/ \E other \in InPipeline : e \in ToSet(other.entries)
      BY <2>2 DEF Stages, EmittedOk
    <3>2. QED
      BY <3>1, <1>14, <1>28
  <2>3. ToSet(Emitted') \subseteq Entries
    BY <1>21, <1>25, <1>28
  <2>4. QED
    BY <2>1, <2>2, <2>3, <1>7, <1>27, <1>29 DEF EmittedOk
<1>31. QED
  BY <1>7, <1>8, <1>10, <1>15, <1>20, <1>23, <1>30 DEF Stages, block

LEMMA NextStages == Inv /\ Once /\ Stages /\ [Next]_vars => Stages'
<1> SUFFICES ASSUME Inv, Once, Stages, [Next]_vars PROVE Stages'
  OBVIOUS
<1>1. CASE GiveBlock \/ (\E w \in Caches : Add(w)) \/ DestroyCache
  <2>1. CASE GiveBlock
    BY <2>1, WritingStages DEF GiveBlock, files
  <2>2. CASE \E w \in Caches : Add(w)
    BY <2>2, WritingStages DEF Add
  <2>3. CASE DestroyCache
    BY <2>3, WritingStages DEF DestroyCache
  <2>4. QED
    BY <1>1, <2>1, <2>2, <2>3
<1>2. CASE Finish
  BY <1>2, WritingStages DEF Finish, stages
<1>3. CASE GiveBucket
  BY <1>3, GiveBucketStages
<1>4. CASE Read
  BY <1>4, OpenBucketStages, ReadBucketStages DEF Read
<1>5. CASE DeliverBucket
  BY <1>5, DeliverBucketStages
<1>6. CASE Pass
  BY <1>6, PassBlockStages, PassedBucketStages DEF Pass
<1>7. CASE Sort
  BY <1>7, SortBlockStages DEF Sort
<1>8. CASE DeliverBlock
  BY <1>8, DeliverBlockStages
<1>9. CASE Close
  BY <1>9, WritingStages DEF Close, adding
<1>10. CASE UNCHANGED vars
  BY <1>10, WritingStages DEF vars, stages
<1>11. QED
  BY <1>1, <1>2, <1>3, <1>4, <1>5, <1>6, <1>7, <1>8, <1>9, <1>10 DEF Next, Writing

\* The invariant of writing and reading
THEOREM ReadStages == Safety => [](Inv /\ Once /\ Stages)
<1>1. Init => Inv /\ Once /\ Stages
  BY InitInv, InitOnce, InitStages
<1>2. Inv /\ Once /\ Stages /\ [Next]_vars => (Inv /\ Once /\ Stages)'
  BY NextInv, NextOnce, NextStages
<1>3. QED
  BY <1>1, <1>2, PTL DEF Safety

\* Every block that read() delivers carries the number of entries before it, although
\* the buckets are read in parallel: read() counts the entries of each bucket, and
\* read_bucket() those of each block, without looking at what was delivered.
THEOREM PositionsAreRight == Spec => []BlocksInPlace
<1>1. Inv /\ Once /\ Stages => BlocksInPlace
  BY DEF Stages
<1>2. QED
  BY <1>1, ReadStages, PTL DEF Spec

-----------------------------------------------------------------------------
(* Files *)

\* A file is open while a job of read_pool reads it, and is there until then.
Handles ==
    /\ handle \in [Buckets -> {"null", "wb", "rb"}]
    /\ Len(reading) <= num_threads_read
    /\ ~is_finished => exists = Buckets /\ ~closed
    /\ is_finished =>
          /\ \A b \in Buckets :
                handle[b] # "null" =>
                    \E k \in DOMAIN reading : reading[k].bucket = b /\ reading[k].state = "open"
          /\ \A k \in DOMAIN reading : reading[k].state # "read" => reading[k].bucket \in exists
          /\ ~closed => \A b \in Buckets : b >= next => b \in exists
    /\ closed => exists = {} /\ reading = <<>> /\ next = 2^log_num_buckets

LEMMA InitHandles == Init => Handles
<1> SUFFICES ASSUME Init PROVE Handles
  OBVIOUS
<1>1. /\ handle = [b \in Buckets |-> "wb"] /\ exists = Buckets
      /\ ~is_finished /\ ~closed /\ reading = <<>>
  BY DEF Init
<1>2. Len(reading) <= num_threads_read
  BY <1>1, ThreadsAssumption
<1>3. QED
  BY <1>1, <1>2 DEF Handles

LEMMA OpenFilesHaveJobs ==
    ASSUME Stages, Handles, is_finished
    PROVE  Cardinality(OpenFiles) <= num_threads_read
<1> DEFINE n == Len(reading)
           D == 1 .. n
           job == [b \in OpenFiles |-> CHOOSE k \in D : reading[k].bucket = b]
<1>1. n \in Nat /\ DOMAIN reading = D /\ n <= num_threads_read
  BY DEF Stages, StageTypes, Handles
<1>2. \A b \in OpenFiles : \E k \in D : reading[k].bucket = b
  BY <1>1 DEF Handles, OpenFiles
<1>3. \A b \in OpenFiles : job[b] \in D /\ reading[job[b]].bucket = b
  BY <1>2
<1>4. IsFiniteSet(D) /\ Cardinality(D) = n
  <2>1. n \in Nat
    BY <1>1
  <2> HIDE DEF n
  <2>2. IsFiniteSet(D) /\ Cardinality(D) = IF 1 > n THEN 0 ELSE n - 1 + 1
    BY <2>1, FS_Interval
  <2>3. QED
    BY <2>1, <2>2
<1>5. job \in [OpenFiles -> D]
  BY <1>3
<1> HIDE DEF job, D, n
<1>6. job \in Injection(OpenFiles, D)
  BY <1>3, <1>5 DEF Injection, IsInjective
<1>7. IsFiniteSet(OpenFiles) /\ Cardinality(OpenFiles) <= n
  BY <1>4, <1>6, FS_Injection
<1>8. Cardinality(OpenFiles) \in Nat
  BY <1>7, FS_CardinalityType
<1>9. QED
  BY <1>1, <1>7, <1>8, ThreadsAssumption

LEMMA HandlesBound == Stages /\ Handles => FilesBounded
<1> SUFFICES ASSUME Stages, Handles PROVE FilesBounded
  OBVIOUS
<1>1. is_finished => Cardinality(OpenFiles) <= num_threads_read
  BY OpenFilesHaveJobs
<1>2. OpenFiles \subseteq exists
  BY DEF Handles, OpenFiles
<1>3. closed => exists = {}
  BY DEF Handles
<1>4. QED
  BY <1>1, <1>2, <1>3 DEF FilesBounded

LEMMA WritingHandles ==
    Handles /\ UNCHANGED <<handle, exists, is_finished, next, reading, closed>> => Handles'
<1> SUFFICES ASSUME Handles, UNCHANGED <<handle, exists, is_finished, next, reading, closed>>
             PROVE  Handles'
  OBVIOUS
<1>1. QED
  BY DEF Handles

LEMMA FinishHandles == Stages /\ Handles /\ Finish => Handles'
<1> SUFFICES ASSUME Stages, Handles, Finish PROVE Handles'
  OBVIOUS
<1>1. /\ ~is_finished /\ is_finished' /\ handle' = [b \in Buckets |-> "null"]
      /\ UNCHANGED <<exists, next, reading, closed>>
  BY DEF Finish, stages
<1>2. reading = <<>> /\ exists = Buckets /\ ~closed
  BY <1>1 DEF Stages, ReadingOk, Handles
<1>3. \A b \in Buckets : handle'[b] = "null"
  BY <1>1
<1>4. handle' \in [Buckets -> {"null", "wb", "rb"}]
  BY <1>1
<1>5. QED
  BY <1>1, <1>2, <1>3, <1>4 DEF Handles

LEMMA GiveBucketHandles == Stages /\ Handles /\ GiveBucket => Handles'
<1> SUFFICES ASSUME Stages, Handles, GiveBucket PROVE Handles'
  OBVIOUS
<1> DEFINE new == [bucket |-> next, offset |-> offset, state |-> "given", out |-> <<>>]
           n == Len(reading)
<1>1. /\ is_finished /\ next < 2^log_num_buckets /\ n < num_threads_read
      /\ reading' = Append(reading, new)
      /\ next' = next + 1
      /\ UNCHANGED <<handle, exists, is_finished, closed>>
  BY DEF GiveBucket, files
<1>2. next \in Nat /\ offset \in Nat /\ reading \in Seq(Jobs)
  BY DEF Stages, StageTypes
<1>3. next \in Buckets /\ ~closed
  BY <1>1, <1>2, BucketRange DEF Buckets, Handles
<1>4. new \in Jobs /\ new.bucket = next
  BY <1>2, <1>3 DEF Jobs
<1> HIDE DEF new
<1>5. /\ Len(reading') = n + 1 /\ n \in Nat /\ DOMAIN reading = 1 .. n /\ DOMAIN reading' = 1 .. n + 1
      /\ \A k \in 1 .. n : reading'[k] = reading[k]
      /\ reading'[n + 1] = new
  BY <1>1, <1>2, <1>4, AppendedElement
<1>6. Len(reading') <= num_threads_read
  BY <1>1, <1>5, ThreadsAssumption
<1>7. \A k \in 1 .. n + 1 : k \in 1 .. n \/ k = n + 1
  BY <1>5
<1>8. \A k \in 1 .. n : k \in 1 .. n + 1
  BY <1>5
<1>9. \A b \in Buckets : handle[b] # "null" =>
          \E k \in DOMAIN reading' : reading'[k].bucket = b /\ reading'[k].state = "open"
  BY <1>1, <1>5, <1>8 DEF Handles
<1>10. next \in exists
  BY <1>1, <1>2, <1>3 DEF Handles
<1>11. \A k \in DOMAIN reading' : reading'[k].state # "read" => reading'[k].bucket \in exists
  BY <1>1, <1>4, <1>5, <1>7, <1>10 DEF Handles
<1>12. \A b \in Buckets : b >= next + 1 => b \in exists
  <2>1. \A b \in Buckets : b >= next + 1 => b >= next
    BY <1>2, BucketRange
  <2>2. QED
    BY <2>1, <1>1, <1>3 DEF Handles
<1>13. QED
  BY <1>1, <1>3, <1>6, <1>9, <1>11, <1>12 DEF Handles

LEMMA OpenBucketHandles ==
    ASSUME NEW k \in Nat PROVE Stages /\ Handles /\ OpenBucket(k) => Handles'
<1> SUFFICES ASSUME Stages, Handles, OpenBucket(k) PROVE Handles'
  OBVIOUS
<1> DEFINE b == reading[k].bucket
           job == [reading[k] EXCEPT !.state = "open"]
<1>1. /\ k \in DOMAIN reading /\ reading[k].state = "given"
      /\ reading' = [reading EXCEPT ![k].state = "open"]
      /\ handle' = [handle EXCEPT ![b] = "rb"]
      /\ UNCHANGED <<exists, is_finished, next, closed>>
  BY DEF OpenBucket
<1>2. reading \in Seq(Jobs) /\ reading[k] \in Jobs
  BY <1>1 DEF Stages, StageTypes
<1>3. job \in Jobs /\ job.bucket = b /\ job.state = "open" /\ b \in Buckets
  BY <1>2 DEF Jobs
<1>4. reading' = [reading EXCEPT ![k] = job]
  BY <1>1, Zenon
<1> HIDE DEF job
<1>5. /\ Len(reading') = Len(reading) /\ DOMAIN reading' = DOMAIN reading
      /\ reading'[k] = job /\ \A i \in DOMAIN reading : i # k => reading'[i] = reading[i]
  <2>1. k \in DOMAIN reading /\ job \in Jobs
    BY <1>1, <1>3
  <2>2. QED
    BY <2>1, <1>2, <1>4
<1>6. is_finished /\ ~closed /\ b \in exists
  BY <1>1 DEF Stages, ReadingOk, Handles
<1>7. handle' \in [Buckets -> {"null", "wb", "rb"}]
  BY <1>1 DEF Handles
<1>8. ASSUME NEW d \in Buckets, handle'[d] # "null"
      PROVE  \E i \in DOMAIN reading' : reading'[i].bucket = d /\ reading'[i].state = "open"
  <2>1. CASE d = b
    BY <2>1, <1>1, <1>3, <1>5
  <2>2. CASE d # b
    <3>1. handle[d] # "null"
      BY <2>2, <1>1, <1>8 DEF Handles
    <3>2. PICK i \in DOMAIN reading : reading[i].bucket = d /\ reading[i].state = "open"
      BY <3>1, <1>6 DEF Handles
    <3>3. i # k
      BY <3>2, <1>1
    <3>4. QED
      BY <3>2, <3>3, <1>5
  <2>3. QED
    BY <2>1, <2>2
<1>9. \A i \in DOMAIN reading' : reading'[i].state # "read" => reading'[i].bucket \in exists
  BY <1>3, <1>5, <1>6 DEF Handles
<1>10. Len(reading') <= num_threads_read
  BY <1>5 DEF Handles
<1>11. ~closed => \A d \in Buckets : d >= next => d \in exists
  BY <1>6 DEF Handles
<1>12. QED
  BY <1>1, <1>6, <1>7, <1>8, <1>9, <1>10, <1>11 DEF Handles

LEMMA ReadBucketHandles ==
    ASSUME NEW k \in Nat PROVE Stages /\ Handles /\ ReadBucket(k) => Handles'
<1> SUFFICES ASSUME Stages, Handles, ReadBucket(k) PROVE Handles'
  OBVIOUS
<1> DEFINE b == reading[k].bucket
           job == [reading[k] EXCEPT !.state = "read", !.out = BlocksFrom(reading[k])]
<1>1. /\ k \in DOMAIN reading /\ reading[k].state = "open"
      /\ reading' = [reading EXCEPT ![k].state = "read", ![k].out = BlocksFrom(reading[k])]
      /\ handle' = [handle EXCEPT ![b] = "null"]
      /\ exists' = exists \ {b}
      /\ UNCHANGED <<is_finished, next, closed>>
  BY DEF ReadBucket, ClosedByRemove
<1>2. reading \in Seq(Jobs) /\ reading[k] \in Jobs
  BY <1>1 DEF Stages, StageTypes
<1>3. job.bucket = b /\ job.state = "read" /\ b \in Buckets
  BY <1>2 DEF Jobs
<1>4. reading' = [reading EXCEPT ![k] = job]
  BY <1>1, Zenon
<1> HIDE DEF job
<1>5. /\ Len(reading') = Len(reading) /\ DOMAIN reading' = DOMAIN reading
      /\ reading'[k] = job /\ \A i \in DOMAIN reading : i # k => reading'[i] = reading[i]
  <2>1. k \in DOMAIN reading
    BY <1>1
  <2>2. QED
    BY <2>1, <1>2, <1>4
<1>6. is_finished /\ ~closed
  BY <1>1 DEF Stages, ReadingOk, Handles
<1>7. handle' \in [Buckets -> {"null", "wb", "rb"}]
  BY <1>1 DEF Handles
\* The buckets in read_pool are different, and below `next'.
<1>8. b < next /\ \A i \in DOMAIN reading : i # k => reading[i].bucket # b
  <2>1. First \in Nat /\ Len(reading) \in Nat /\ DOMAIN reading = 1 .. Len(reading)
        /\ next \in Nat /\ First = next - Len(reading)
    BY <1>2, StagesWhole DEF First, Stages, StageTypes
  <2>2. \A i \in DOMAIN reading : reading[i].bucket = First + i - 1
    BY DEF Stages, ReadingOk
  <2>3. \A i \in 1 .. Len(reading) : First + i - 1 < next
    BY <2>1
  <2>4. \A i \in 1 .. Len(reading) : i # k => First + i - 1 # First + k - 1
    BY <2>1
  <2>5. QED
    BY <2>1, <2>2, <2>3, <2>4, <1>1
<1>9. ASSUME NEW d \in Buckets, handle'[d] # "null"
      PROVE  \E i \in DOMAIN reading' : reading'[i].bucket = d /\ reading'[i].state = "open"
  <2>1. d # b
    BY <1>1, <1>9 DEF Handles
  <2>2. handle[d] # "null"
    BY <2>1, <1>1, <1>9 DEF Handles
  <2>3. PICK i \in DOMAIN reading : reading[i].bucket = d /\ reading[i].state = "open"
    BY <2>2, <1>6 DEF Handles
  <2>4. i # k
    BY <2>1, <2>3
  <2>5. QED
    BY <2>3, <2>4, <1>5
<1>10. \A i \in DOMAIN reading' : reading'[i].state # "read" => reading'[i].bucket \in exists'
  BY <1>1, <1>3, <1>5, <1>6, <1>8 DEF Handles
<1>11. Len(reading') <= num_threads_read
  BY <1>5 DEF Handles
<1>12. \A d \in Buckets : d >= next => d \in exists'
  <2>1. next \in Nat /\ b \in Nat
    BY <1>3, BucketRange DEF Stages, StageTypes
  <2>2. \A d \in Buckets : d >= next => d # b
    BY <2>1, <1>8
  <2>3. QED
    BY <2>2, <1>1, <1>6 DEF Handles
<1>13. QED
  BY <1>1, <1>6, <1>7, <1>9, <1>10, <1>11, <1>12 DEF Handles

LEMMA DeliverBucketHandles == Stages /\ Handles /\ DeliverBucket => Handles'
<1> SUFFICES ASSUME Stages, Handles, DeliverBucket PROVE Handles'
  OBVIOUS
<1> DEFINE r == Len(reading)
<1>1. /\ reading # <<>> /\ Head(reading).state = "read"
      /\ reading' = Tail(reading)
      /\ UNCHANGED <<handle, exists, is_finished, next, closed>>
  BY DEF DeliverBucket, files
<1>2. reading \in Seq(Jobs)
  BY DEF Stages, StageTypes
<1>3. /\ r \in Nat \ {0} /\ reading[1] = Head(reading) /\ DOMAIN reading = 1 .. r
      /\ Len(reading') = r - 1 /\ DOMAIN reading' = 1 .. r - 1
      /\ \A k \in 1 .. r - 1 : reading'[k] = reading[k + 1]
  BY <1>1, <1>2, TailElements
<1>4. is_finished /\ ~closed
  BY <1>1 DEF Stages, ReadingOk, Handles
<1>5. ASSUME NEW d \in Buckets, handle[d] # "null"
      PROVE  \E i \in DOMAIN reading' : reading'[i].bucket = d /\ reading'[i].state = "open"
  <2>1. PICK i \in 1 .. r : reading[i].bucket = d /\ reading[i].state = "open"
    BY <1>3, <1>4, <1>5 DEF Handles
  <2>2. i # 1
    BY <2>1, <1>1, <1>3
  <2>3. i - 1 \in 1 .. r - 1 /\ (i - 1) + 1 = i
    BY <2>2, <1>3
  <2>4. reading'[i - 1] = reading[i]
    BY <2>3, <1>3
  <2>5. QED
    BY <2>1, <2>3, <2>4, <1>3
<1>6. \A i \in DOMAIN reading' : reading'[i].state # "read" => reading'[i].bucket \in exists
  <2>1. \A i \in 1 .. r - 1 : i + 1 \in 1 .. r
    BY <1>3
  <2>2. QED
    BY <2>1, <1>3, <1>4 DEF Handles
<1>7. Len(reading') <= num_threads_read
  BY <1>3, ThreadsAssumption DEF Handles
<1>8. QED
  BY <1>1, <1>4, <1>5, <1>6, <1>7 DEF Handles

LEMMA CloseHandles == Stages /\ Handles /\ Close => Handles'
<1> SUFFICES ASSUME Stages, Handles, Close PROVE Handles'
  OBVIOUS
<1>1. /\ is_finished /\ next = 2^log_num_buckets /\ reading = <<>>
      /\ handle' = [b \in Buckets |-> "null"] /\ exists' = {} /\ closed'
      /\ UNCHANGED <<is_finished, next, reading>>
  BY DEF Close, ReadDone, stages
<1>2. \A b \in Buckets : handle'[b] = "null"
  BY <1>1
<1>3. handle' \in [Buckets -> {"null", "wb", "rb"}]
  BY <1>1
<1>4. Len(reading') <= num_threads_read
  BY <1>1 DEF Handles
<1>5. QED
  BY <1>1, <1>2, <1>3, <1>4 DEF Handles

LEMMA NextHandles == Stages /\ Handles /\ [Next]_vars => Handles'
<1> SUFFICES ASSUME Stages, Handles, [Next]_vars PROVE Handles'
  OBVIOUS
<1>1. CASE GiveBlock
  BY <1>1, WritingHandles DEF GiveBlock, files, stages
<1>2. CASE \E w \in Caches : Add(w)
  BY <1>2, WritingHandles DEF Add, stages
<1>3. CASE DestroyCache
  BY <1>3, WritingHandles DEF DestroyCache, stages
<1>4. CASE Finish
  BY <1>4, FinishHandles
<1>5. CASE GiveBucket
  BY <1>5, GiveBucketHandles
<1>6. CASE Read
  BY <1>6, OpenBucketHandles, ReadBucketHandles DEF Read
<1>7. CASE DeliverBucket
  BY <1>7, DeliverBucketHandles
<1>8. CASE Pass
  BY <1>8, WritingHandles DEF Pass, PassBlock, PassedBucket, files
<1>9. CASE Sort
  BY <1>9, WritingHandles DEF Sort, SortBlock, files
<1>10. CASE DeliverBlock
  BY <1>10, WritingHandles DEF DeliverBlock, files
<1>11. CASE Close
  BY <1>11, CloseHandles
<1>12. CASE UNCHANGED vars
  BY <1>12, WritingHandles DEF vars
<1>13. QED
  BY <1>1, <1>2, <1>3, <1>4, <1>5, <1>6, <1>7, <1>8, <1>9, <1>10, <1>11, <1>12 DEF Next, Writing

\* After finish(), no more files are open than read_pool has threads; a file is open
\* only while it is on the disk, and close() leaves none behind.
THEOREM FilesAreBounded == Spec => []FilesBounded
<1>1. Init => Handles
  BY InitHandles
<1>2. (Inv /\ Once /\ Stages) /\ Handles /\ [Next]_vars => Handles'
  BY NextHandles
<1>3. (Inv /\ Once /\ Stages) /\ Handles => FilesBounded
  BY HandlesBound
<1>4. QED
  BY <1>1, <1>2, <1>3, ReadStages, PTL DEF Spec, Safety

-----------------------------------------------------------------------------
(* The abstract sorter *)

IsNotAdded == \A e : e \in NotAdded <=> Ungiven(e) \/ \E w \in Caches : e \in ToSet(todo[w])

LEMMA NotAddedIs == IsNotAdded
<1> DEFINE P == {ToSet(work.pool[j]) : j \in given + 1 .. Len(work.pool)}
           T == {ToSet(todo[w]) : w \in Caches}
<1>1. \A e : e \in UNION P <=> Ungiven(e)
  BY Zenon DEF Ungiven
<1>2. \A e : e \in UNION T <=> \E w \in Caches : e \in ToSet(todo[w])
  BY Zenon
<1>3. NotAdded = (UNION P) \cup (UNION T)
  BY Zenon DEF NotAdded
<1> HIDE DEF P, T
<1>4. ASSUME NEW e PROVE e \in NotAdded <=> Ungiven(e) \/ \E w \in Caches : e \in ToSet(todo[w])
  <2>1. e \in NotAdded <=> e \in UNION P \/ e \in UNION T
    BY <1>3
  <2>2. QED
    BY <2>1, <1>1, <1>2, Zenon
<1>5. QED
  BY <1>4, Zenon DEF IsNotAdded

LEMMA InitSorter == Init => Abstract!Init
<1> SUFFICES ASSUME Init PROVE Abstract!Init
  OBVIOUS
<1>1. TypeInv /\ work \in Work /\ given = 0 /\ output = <<>> /\ is_finished = FALSE
  BY InitInv DEF Inv, Init
<1>2. todo[Own] = work.own /\ Own \in Caches
  BY DEF Init, Caches
<1>3. \A j \in DOMAIN work.pool : j \in given + 1 .. Len(work.pool)
  BY <1>1 DEF TypeInv
<1>4. Entries \ NotAdded = {}
  BY <1>2, <1>3, NotAddedIs DEF Entries, Ungiven, IsNotAdded
<1>5. Emitted = <<>>
  BY <1>1, EmittedEmpty
<1>6. QED
  BY <1>1, <1>4, <1>5 DEF Abstract!Init, Emitted

LEMMA GiveBlockSorter == Inv /\ GiveBlock => NotAdded' = NotAdded
<1> SUFFICES ASSUME Inv, GiveBlock PROVE NotAdded' = NotAdded
  OBVIOUS
<1> DEFINE w == given % Adders
           new == work.pool[given + 1]
<1>1. w \in Caches /\ given \in Nat /\ given + 1 \in 1 .. Len(work.pool) /\ Len(work.pool) \in Nat
  BY ThreadsAssumption DEF Inv, TypeInv, GiveBlock, Caches, Pool
<1>2. /\ todo[w] = <<>>
      /\ todo' = [todo EXCEPT ![w] = new]
      /\ given' = given + 1
      /\ work' = work
  BY DEF GiveBlock
<1> HIDE DEF w, new
<1>3. todo'[w] = new /\ \A x \in Caches : x # w => todo'[x] = todo[x]
  BY <1>1, <1>2 DEF Inv, TypeInv
<1>4. \A j : j \in given + 1 .. Len(work.pool) <=> j = given + 1 \/ j \in given' + 1 .. Len(work.pool)
  BY <1>1, <1>2
<1>5. \A e : Ungiven(e) <=> e \in ToSet(new) \/ Ungiven(e)'
  BY <1>2, <1>4 DEF Ungiven, new
<1>6. ToSet(todo[w]) = {}
  BY <1>2, EmptySequence
<1>7. \A e : (\E x \in Caches : e \in ToSet(todo'[x])) <=>
                e \in ToSet(new) \/ \E x \in Caches : e \in ToSet(todo[x])
  BY <1>1, <1>3, <1>6
<1>8. \A e : e \in NotAdded' <=> Ungiven(e)' \/ \E x \in Caches : e \in ToSet(todo'[x])
  <2>1. IsNotAdded'
    BY NotAddedIs, PTL
  <2>2. QED
    BY <2>1 DEF IsNotAdded
<1>9. QED
  BY <1>5, <1>7, <1>8, NotAddedIs DEF IsNotAdded

LEMMA SameSorter ==
    UNCHANGED <<work, given, todo, is_finished, output>> => UNCHANGED Abstract!vars
<1> SUFFICES ASSUME UNCHANGED <<work, given, todo, is_finished, output>>
             PROVE  UNCHANGED Abstract!vars
  OBVIOUS
<1>1. Entries' = Entries /\ NotAdded' = NotAdded
  BY DEF Entries, NotAdded
<1>2. Emitted' = Emitted
  BY DEF Emitted
<1>3. QED
  BY <1>1, <1>2 DEF Abstract!vars, Emitted

LEMMA AddSorter ==
    ASSUME NEW w \in Caches PROVE Inv /\ Once /\ Add(w) => \E e \in Entry : Abstract!Add(e)
<1> SUFFICES ASSUME Inv, Once, Add(w) PROVE \E e \in Entry : Abstract!Add(e)
  OBVIOUS
<1> DEFINE a == Head(todo[w])
<1>1. /\ a \in ToSet(todo[w]) /\ a \notin ToSet(todo'[w])
      /\ ToSet(todo[w]) = {a} \cup ToSet(todo'[w])
      /\ \A x \in Caches : x # w => todo'[x] = todo[x]
      /\ UNCHANGED <<work, given, is_finished>>
  BY AddEffect
<1> HIDE DEF a
<1>2. a \in Entries /\ ~Ungiven(a) /\ \A x \in Caches : x # w => a \notin ToSet(todo[x])
  BY <1>1 DEF Once, TodoOnce
<1>3. a \in Entry
  BY <1>2, EntryBucket DEF Inv
<1>4. ~is_finished
  <2>1. todo[w] # <<>>
    BY <1>1, EmptySequence
  <2>2. QED
    BY <2>1 DEF Inv, Drained, Added
<1>5. Entries' = Entries /\ \A e : Ungiven(e)' <=> Ungiven(e)
  BY <1>1 DEF Entries, Ungiven
<1>6. IsNotAdded /\ IsNotAdded'
  BY NotAddedIs, PTL
<1>7. a \in NotAdded /\ a \notin NotAdded'
  <2>1. a \in NotAdded
    BY <1>1, <1>6 DEF IsNotAdded
  <2>2. \A x \in Caches : a \notin ToSet(todo'[x])
    BY <1>1, <1>2
  <2>3. a \notin NotAdded'
    BY <2>2, <1>2, <1>5, <1>6 DEF IsNotAdded
  <2>4. QED
    BY <2>1, <2>3
<1>8. ASSUME NEW e, e # a PROVE e \in NotAdded' <=> e \in NotAdded
  <2>1. \A x \in Caches : e \in ToSet(todo'[x]) <=> e \in ToSet(todo[x])
    BY <1>1, <1>8
  <2>2. QED
    BY <2>1, <1>5, <1>6 DEF IsNotAdded
<1>9. Entries' \ NotAdded' = (Entries \ NotAdded) \cup {a}
  BY <1>2, <1>5, <1>7, <1>8
<1>10. Emitted' = Emitted
  BY DEF Emitted, Add, stages
<1>11. Abstract!Add(a)
  BY <1>1, <1>4, <1>7, <1>9, <1>10 DEF Abstract!Add, Emitted
<1>12. QED
  BY <1>3, <1>11

LEMMA FinishSorter == Finish => Abstract!Seal
<1> SUFFICES ASSUME Finish PROVE Abstract!Seal
  OBVIOUS
<1>1. ~is_finished /\ is_finished' = TRUE /\ UNCHANGED <<work, given, todo, output>>
  BY DEF Finish, stages
<1>2. Entries' = Entries /\ NotAdded' = NotAdded
  BY <1>1 DEF Entries, NotAdded
<1>3. Emitted' = Emitted
  BY <1>1 DEF Emitted
<1>4. QED
  BY <1>1, <1>2, <1>3 DEF Abstract!Seal, Emitted

\* What is emitted comes before the rest.
EmittedFirst ==
    \A e \in ToSet(Emitted), f \in Entries \ ToSet(Emitted) : e.key <= f.key

LEMMA EmittedIsFirst == Inv /\ Stages => EmittedFirst
<1> SUFFICES ASSUME Inv, Stages, NEW e \in ToSet(Emitted), NEW f \in Entries \ ToSet(Emitted)
             PROVE  e.key <= f.key
  BY DEF EmittedFirst
<1>1. KnownEntries(Entries) /\ First \in Nat
  BY EntriesKnown, StagesWhole DEF Inv
<1>2. /\ BucketOf(e) < First /\ \A block \in InPipeline : BlockOf(e) < KeyOf(block)
      /\ BucketOf(f) < First => \E block \in InPipeline : f \in ToSet(block.entries)
      /\ e \in Entries
  BY DEF Stages, EmittedOk
<1>3. e \in Entry /\ f \in Entry
  BY <1>1, <1>2 DEF KnownEntries
<1>4. BlockOf(e) < BlockOf(f)
  <2>1. CASE BucketOf(f) < First
    <3>1. PICK block \in InPipeline : f \in ToSet(block.entries)
      BY <2>1, <1>2
    <3>2. BlockOf(f) = KeyOf(block)
      BY <3>1, <1>1, StagesWhole, WholeBlock
    <3>3. QED
      BY <3>2, <1>2
  <2>2. CASE ~(BucketOf(f) < First)
    <3>1. BucketOf(e) \in Nat /\ BucketOf(f) \in Nat
      BY <1>3, BlockOrder
    <3>2. BucketOf(e) < BucketOf(f)
      BY <2>2, <3>1, <1>1, <1>2
    <3>3. QED
      BY <3>2, <1>3, BlockOrder
  <2>3. QED
    BY <2>1, <2>2
<1>5. e.key < f.key /\ e.key \in Nat /\ f.key \in Nat
  BY <1>3, <1>4, BlockOrder, KeyAssumption
<1>6. QED
  BY <1>5

LEMMA DeliverBlockSorter ==
    Inv /\ Once /\ Stages /\ DeliverBlock /\ Stages' /\ EmittedFirst' => Abstract!Emit
<1> SUFFICES ASSUME Inv, Once, Stages, DeliverBlock, Stages', EmittedFirst' PROVE Abstract!Emit
  OBVIOUS
<1> DEFINE t == Head(sorting).entries
<1>1. sorting # <<>> /\ UNCHANGED <<work, given, todo, is_finished>>
  BY DEF DeliverBlock, adding, files
<1>2. Emitted' = Emitted \o t
  BY DeliverBlockStages
<1>3. is_finished
  BY <1>1 DEF Stages, ReadingOk
<1>4. Entries' = Entries /\ NotAdded' = NotAdded
  BY <1>1 DEF Entries, NotAdded
<1>5. NotAdded = {}
  <2>1. given = Len(work.pool) /\ \A w \in Caches : todo[w] = <<>>
    BY <1>3 DEF Inv, Drained, Added
  <2>2. \A e : ~Ungiven(e)
    BY <2>1 DEF Ungiven, Inv, TypeInv
  <2>3. QED
    BY <2>1, <2>2, NotAddedIs, EmptySequence DEF IsNotAdded
<1>6. t \in Seq(Entry) /\ t # <<>>
  <2>1. sorting \in Seq(Blocks)
    BY DEF Stages, StageTypes
  <2>2. 1 \in DOMAIN sorting /\ sorting[1] = Head(sorting)
    BY <2>1, <1>1
  <2>3. Whole(Head(sorting), Entries)
    BY <2>2 DEF Stages, SortingOk
  <2>4. QED
    BY <2>3 DEF Whole, Blocks
<1> HIDE DEF t
<1>7. IsStrictPrefix(Emitted, Emitted')
  <2>1. Emitted \in Seq(Entry)
    BY EmittedSequence DEF Stages
  <2>2. QED
    BY <2>1, <1>2, <1>6, LongerSequence
<1>8. InOrder(Emitted') /\ IsInjective(Emitted') /\ ToSet(Emitted') \subseteq Entries
  BY <1>4 DEF Stages, EmittedOk
<1>9. \A e \in ToSet(Emitted'), f \in Entries \ ToSet(Emitted') : e.key <= f.key
  BY <1>4 DEF EmittedFirst
<1>10. Entries \ NotAdded = Entries
  BY <1>5
<1>11. Abstract!Ascending(Emitted')
  BY <1>8 DEF Abstract!Ascending, InOrder
<1>12. /\ ToSet(Emitted') \subseteq Entries \ NotAdded
       /\ \A e \in ToSet(Emitted'), f \in (Entries \ NotAdded) \ ToSet(Emitted') : e.key <= f.key
       /\ Entries' \ NotAdded' = Entries \ NotAdded
  BY <1>4, <1>8, <1>9, <1>10
<1>13. IsInjective(Emitted')
  BY <1>8
<1>14. /\ Abstract!ToSet(Emitted') = ToSet(Emitted')
       /\ Abstract!IsInjective(Emitted')
       /\ Abstract!IsStrictPrefix(Emitted, Emitted')
  BY <1>7, <1>13 DEF ToSet, IsInjective, IsStrictPrefix, IsPrefix, Abstract!ToSet,
                     Abstract!IsInjective, Abstract!IsStrictPrefix, Abstract!IsPrefix
<1>15. QED
  BY <1>1, <1>3, <1>11, <1>12, <1>14 DEF Abstract!Emit, Emitted

LEMMA NextSorter ==
    Inv /\ Once /\ Stages /\ [Next]_vars /\ Stages' /\ EmittedFirst'
        => [Abstract!Next]_(Abstract!vars)
<1> SUFFICES ASSUME Inv, Once, Stages, [Next]_vars, Stages', EmittedFirst'
             PROVE  [Abstract!Next]_(Abstract!vars)
  OBVIOUS
<1>1. CASE GiveBlock
  <2>1. NotAdded' = NotAdded
    BY <1>1, GiveBlockSorter
  <2>2. Entries' = Entries /\ Emitted' = Emitted /\ is_finished' = is_finished
    BY <1>1 DEF GiveBlock, Entries, Emitted, stages, files
  <2>3. QED
    BY <2>1, <2>2 DEF Abstract!vars, Emitted
<1>2. CASE \E w \in Caches : Add(w)
  BY <1>2, AddSorter DEF Abstract!Next
<1>3. CASE Finish
  BY <1>3, FinishSorter DEF Abstract!Next
<1>4. CASE DeliverBlock
  BY <1>4, DeliverBlockSorter DEF Abstract!Next
<1>5. CASE DestroyCache
  BY <1>5, SameSorter DEF DestroyCache, stages
<1>6. CASE GiveBucket
  BY <1>6, SameSorter DEF GiveBucket, adding, files
<1>7. CASE Read
  BY <1>7, SameSorter DEF Read, OpenBucket, ReadBucket, adding
<1>8. CASE DeliverBucket
  BY <1>8, SameSorter DEF DeliverBucket, adding, files
<1>9. CASE Pass
  BY <1>9, SameSorter DEF Pass, PassBlock, PassedBucket, adding, files
<1>10. CASE Sort
  BY <1>10, SameSorter DEF Sort, SortBlock, adding, files
<1>11. CASE Close
  BY <1>11, SameSorter DEF Close, adding, stages
<1>12. CASE UNCHANGED vars
  BY <1>12, SameSorter DEF vars
<1>13. QED
  BY <1>1, <1>2, <1>3, <1>4, <1>5, <1>6, <1>7, <1>8, <1>9, <1>10, <1>11, <1>12 DEF Next, Writing

\* DiskSort implements the sorter: read() delivers what add() was given before
\* finish(), each entry once, in runs of ascending keys.  Writing out a cache, reading
\* a bucket, sorting a block and handing blocks on are stuttering steps.
THEOREM DiskSortSorts == Spec => Abstract!Safety
<1>1. Init => Abstract!Init
  BY InitSorter
<1>2. Inv /\ Once /\ Stages => EmittedFirst
  BY EmittedIsFirst
<1>3. (Inv /\ Once /\ Stages) /\ [Next]_vars /\ (Inv /\ Once /\ Stages)' /\ EmittedFirst'
          => [Abstract!Next]_(Abstract!vars)
  BY NextSorter
<1>4. QED
  BY <1>1, <1>2, <1>3, ReadStages, PTL DEF Spec, Safety, Abstract!Safety

-----------------------------------------------------------------------------
(* Types, and the room in the caches *)

Sizes ==
    /\ failed \in BOOLEAN /\ closed \in BOOLEAN
    /\ exists \subseteq Buckets
    /\ \A w \in Caches, b \in Buckets : Len(cache[w][b]) <= Capacity

LEMMA InitSizes == Init => Sizes
<1> SUFFICES ASSUME Init PROVE Sizes
  OBVIOUS
<1>1. cache = [w \in Caches |-> [b \in Buckets |-> <<>>]]
  BY DEF Init
<1>2. \A w \in Caches, b \in Buckets : cache[w][b] = <<>>
  BY <1>1, EmptyArray, Zenon
<1>3. Len(<<>>) <= Capacity
  BY ThreadsAssumption
<1>4. failed = FALSE /\ closed = FALSE /\ exists = Buckets
  BY DEF Init
<1>5. QED
  BY <1>2, <1>3, <1>4 DEF Sizes

LEMMA AddSizes == ASSUME NEW w \in Caches PROVE Inv /\ Sizes /\ Add(w) => Sizes'
<1> SUFFICES ASSUME Inv, Sizes, Add(w) PROVE Sizes'
  OBVIOUS
<1> DEFINE e == Head(todo[w])
           b == BucketOf(e)
<1>1. UNCHANGED <<failed, closed, exists>>
  BY DEF Add
<1>2. cache \in [Caches -> [Buckets -> Seq(Entry)]]
  BY DEF Inv, TypeInv
<1>3. \/ Full(cache[w][b]) /\ cache' = [cache EXCEPT ![w][b] = <<e>>]
      \/ ~Full(cache[w][b]) /\ cache' = [cache EXCEPT ![w][b] = Append(@, e)]
  BY DEF Add
<1> HIDE DEF e, b
<1>4. ASSUME NEW x \in Caches, NEW d \in Buckets PROVE Len(cache'[x][d]) <= Capacity
  <2>1. Len(cache[x][d]) <= Capacity
    BY DEF Sizes
  <2>2. CASE cache'[x][d] = cache[x][d]
    BY <2>1, <2>2
  <2>3. CASE x = w /\ d = b
    <3>1. CASE cache' = [cache EXCEPT ![w][b] = <<e>>]
      <4>1. cache'[x][d] = <<e>>
        BY <2>3, <3>1, <1>2
      <4>2. Len(<<e>>) = 1
        OBVIOUS
      <4>3. QED
        BY <4>1, <4>2, ThreadsAssumption
    <3>2. CASE ~Full(cache[w][b]) /\ cache' = [cache EXCEPT ![w][b] = Append(@, e)]
      <4>1. cache'[x][d] = Append(cache[x][d], e) /\ cache[x][d] \in Seq(Entry)
        BY <2>3, <3>2, <1>2
      <4>2. Len(cache'[x][d]) = Len(cache[x][d]) + 1 /\ Len(cache[x][d]) \in Nat
        BY <4>1
      <4>3. Len(cache[x][d]) < Capacity
        BY <2>3, <3>2, <4>2, ThreadsAssumption DEF Full
      <4>4. QED
        BY <4>2, <4>3, ThreadsAssumption
    <3>3. QED
      BY <3>1, <3>2, <1>3
  <2>4. x # w \/ d # b => cache'[x][d] = cache[x][d]
    BY <1>2, <1>3
  <2>5. QED
    BY <2>2, <2>3, <2>4
<1>5. QED
  BY <1>1, <1>4 DEF Sizes

LEMMA EmptiedSizes ==
    ASSUME Inv, Sizes, NEW w \in Caches, cache' = Emptied(w)
    PROVE  \A x \in Caches, d \in Buckets : Len(cache'[x][d]) <= Capacity
<1> DEFINE none == [b \in Buckets |-> <<>>]
<1>1. cache \in [Caches -> [Buckets -> Seq(Entry)]]
  BY DEF Inv, TypeInv
<1>2. cache' = [cache EXCEPT ![w] = none]
  BY DEF Emptied
<1>3. \A d \in Buckets : none[d] = <<>>
  BY EmptyArray
<1> HIDE DEF none
<1>4. ASSUME NEW x \in Caches, NEW d \in Buckets PROVE Len(cache'[x][d]) <= Capacity
  <2>1. CASE x = w
    <3>1. cache'[x][d] = <<>>
      BY <2>1, <1>1, <1>2, <1>3
    <3>2. Len(<<>>) = 0
      OBVIOUS
    <3>3. QED
      BY <3>1, <3>2, ThreadsAssumption
  <2>2. CASE x # w
    BY <2>2, <1>1, <1>2 DEF Sizes
  <2>3. QED
    BY <2>1, <2>2
<1>5. QED
  BY <1>4

LEMMA NextSizes == Inv /\ Handles /\ Sizes /\ [Next]_vars => Sizes'
<1> SUFFICES ASSUME Inv, Handles, Sizes, [Next]_vars PROVE Sizes'
  OBVIOUS
<1>1. CASE \E w \in Caches : Add(w)
  BY <1>1, AddSizes
<1>2. CASE DestroyCache
  <2>1. destroyed \in Caches /\ UNCHANGED <<closed, exists>>
    BY <1>2, ThreadsAssumption DEF DestroyCache, Inv, TypeInv, Caches, Pool
  <2>2. \/ failed' = (failed \/ HasData(destroyed)) /\ cache' = cache
        \/ failed' = failed /\ cache' = Emptied(destroyed)
    BY <1>2 DEF DestroyCache
  <2>3. failed' \in BOOLEAN
    BY <2>2 DEF Sizes
  <2>4. \A x \in Caches, d \in Buckets : Len(cache'[x][d]) <= Capacity
    <3>1. CASE cache' = cache
      BY <3>1 DEF Sizes
    <3>2. CASE cache' = Emptied(destroyed)
      BY <3>2, <2>1, EmptiedSizes
    <3>3. QED
      BY <3>1, <3>2, <2>2
  <2>5. QED
    BY <2>1, <2>3, <2>4 DEF Sizes
<1>3. CASE Finish
  <2>1. Own \in Caches /\ cache' = Emptied(Own) /\ UNCHANGED <<failed, closed, exists>>
    BY <1>3 DEF Finish, Caches
  <2>2. \A x \in Caches, d \in Buckets : Len(cache'[x][d]) <= Capacity
    BY <2>1, EmptiedSizes
  <2>3. QED
    BY <2>1, <2>2 DEF Sizes
<1>4. CASE Read
  <2>1. UNCHANGED <<failed, closed, cache>> /\ exists' \subseteq exists
    BY <1>4 DEF Read, OpenBucket, ReadBucket, adding
  <2>2. QED
    BY <2>1 DEF Sizes
<1>5. CASE Close
  <2>1. UNCHANGED <<failed, cache>> /\ exists' = {} /\ closed' = TRUE
    BY <1>5 DEF Close, adding
  <2>2. QED
    BY <2>1 DEF Sizes
<1>6. CASE UNCHANGED <<failed, closed, cache, exists>>
  BY <1>6 DEF Sizes
<1>7. CASE GiveBlock
  BY <1>6, <1>7 DEF GiveBlock, files
<1>8. CASE GiveBucket \/ DeliverBucket \/ DeliverBlock
  BY <1>6, <1>8 DEF GiveBucket, DeliverBucket, DeliverBlock, adding, files
<1>9. CASE Pass \/ Sort
  BY <1>6, <1>9 DEF Pass, PassBlock, PassedBucket, Sort, SortBlock, adding, files
<1>10. CASE UNCHANGED vars
  BY <1>6, <1>10 DEF vars
<1>11. QED
  BY <1>1, <1>2, <1>3, <1>4, <1>5, <1>7, <1>8, <1>9, <1>10 DEF Next, Writing

LEMMA TypesHold == Inv /\ Stages /\ Handles /\ Sizes => TypeOK
<1> SUFFICES ASSUME Inv, Stages, Handles, Sizes PROVE TypeOK
  OBVIOUS
<1>1. /\ given \in 0 .. Len(work.pool) /\ destroyed \in 0 .. Adders
      /\ todo \in [Caches -> Seq(Entry)] /\ cache \in [Caches -> [Buckets -> Seq(Entry)]]
      /\ file \in [Buckets -> Seq(Entry)] /\ is_finished \in BOOLEAN
  BY DEF Inv, TypeInv
<1>2. /\ next \in 0 .. 2^log_num_buckets /\ offset \in Nat
  BY BucketRange DEF Stages, StageTypes
<1>3. /\ reading \in Seq([bucket : Buckets, offset : Nat, state : {"given", "open", "read"}, out : Seq(Blocks)])
      /\ passing \in Seq(Seq(Blocks)) /\ sorting \in Seq(Blocks)
      /\ output \in Seq([entries : Seq(Entry), offset : Nat])
  BY DEF Stages, StageTypes, Jobs, Outputs
<1>4. handle \in [Buckets -> {"null", "wb", "rb"}]
  BY DEF Handles
<1>5. QED
  BY <1>1, <1>2, <1>3, <1>4 DEF TypeOK, Sizes

\* The types hold, and add() never puts more into a buffer of a write cache than it
\* has room for.
THEOREM DiskSortTypes == Spec => []TypeOK
<1>1. Init => Handles /\ Sizes
  BY InitHandles, InitSizes
<1>2. (Inv /\ Once /\ Stages) /\ (Handles /\ Sizes) /\ [Next]_vars => (Handles /\ Sizes)'
  BY NextHandles, NextSizes
<1>3. (Inv /\ Once /\ Stages) /\ (Handles /\ Sizes) => TypeOK
  BY TypesHold
<1>4. QED
  BY <1>1, <1>2, <1>3, ReadStages, PTL DEF Spec, Safety
=============================================================================
