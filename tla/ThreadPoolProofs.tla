-------------------------- MODULE ThreadPoolProofs --------------------------
(***************************************************************************)
(* Proofs about ThreadPool for any number of workers, any number of inputs *)
(* and any set of inputs that throw.                                       *)
(***************************************************************************)
EXTENDS ThreadPool, TLAPS

USE DEF Goto

-----------------------------------------------------------------------------
(* The ring *)

LEMMA Division ==
    ASSUME NEW n \in Nat \ {0}, NEW a \in Nat
    PROVE  a % n \in 0 .. n - 1 /\ a \div n \in Nat /\ a = n * (a \div n) + (a % n)
OBVIOUS

LEMMA Remainder ==
    ASSUME NEW n \in Nat \ {0}, NEW a \in Nat, NEW q \in Nat, NEW r \in 0 .. n - 1,
           a = n * q + r
    PROVE  a % n = r
OBVIOUS

\* The predecessor on the ring of the worker of input d is the worker of d - 1.
LEMMA PrevOfJob ==
    ASSUME NEW n \in Nat \ {0}, NEW d \in Nat \ {0}
    PROVE  ((d % n) + n - 1) % n = (d - 1) % n
<1> DEFINE q == d \div n
           r == d % n
<1>1. r \in 0 .. n - 1 /\ q \in Nat /\ d = n * q + r
  BY Division
<1> HIDE DEF q, r
<1>2. CASE r >= 1
  <2>1. d - 1 = n * q + (r - 1) /\ r - 1 \in 0 .. n - 1
    BY <1>1, <1>2
  <2>2. (d - 1) % n = r - 1
    BY <2>1, <1>1, Remainder
  <2>3. r + n - 1 = n * 1 + (r - 1)
    BY <1>1
  <2>4. (r + n - 1) % n = r - 1
    BY <2>1, <2>3, <1>1, Remainder
  <2>5. QED
    BY <2>2, <2>4 DEF r
<1>3. CASE r = 0
  <2>1. q >= 1
    BY <1>1, <1>3
  <2>2. d - 1 = n * (q - 1) + (n - 1) /\ q - 1 \in Nat
    BY <1>1, <1>3, <2>1
  <2>3. (d - 1) % n = n - 1
    BY <2>2, <1>1, Remainder
  <2>4. (r + n - 1) % n = n - 1
    BY <1>3
  <2>5. QED
    BY <2>3, <2>4 DEF r
<1>4. QED
  BY <1>1, <1>2, <1>3

\* The input given n inputs ago went to the same worker.
LEMMA OnceAround ==
    ASSUME NEW n \in Nat \ {0}, NEW a \in Nat, a >= n
    PROVE  (a - n) % n = a % n
<1> DEFINE q == a \div n
           r == a % n
<1>1. r \in 0 .. n - 1 /\ q \in Nat /\ a = n * q + r
  BY Division
<1> HIDE DEF q, r
<1>2. q >= 1
  BY <1>1
<1>3. a - n = n * (q - 1) + r /\ q - 1 \in Nat /\ a - n \in Nat
  BY <1>1, <1>2
<1>4. (a - n) % n = r
  BY <1>1, <1>3, Remainder
<1>5. QED
  BY <1>4 DEF r

LEMMA SuccOfPrev ==
    ASSUME NEW i \in Workers
    PROVE  Prev(i) \in Workers /\ Succ(Prev(i)) = i
<1> USE ThreadPoolAssumption DEF Workers, Prev, Succ
<1>1. CASE i = 0
  <2>1. (i + N - 1) % N = N - 1
    BY <1>1
  <2>2. N % N = 0
    BY Remainder
  <2>3. QED
    BY <1>1, <2>1, <2>2
<1>2. CASE i >= 1
  <2>1. i + N - 1 = N * 1 + (i - 1) /\ i - 1 \in 0 .. N - 1
    BY <1>2
  <2>2. (i + N - 1) % N = i - 1
    BY <2>1, Remainder
  <2>3. QED
    BY <1>2, <2>2
<1>3. QED
  BY <1>1, <1>2

LEMMA JobWorker == \A d \in Jobs : d % N \in Workers
BY ThreadPoolAssumption, Division DEF Jobs, Workers

LEMMA NextWorker == ASSUME TypeOK PROVE next % N \in Workers
BY ThreadPoolAssumption, Division DEF TypeOK, Workers

-----------------------------------------------------------------------------
(* Types *)

Underway == {"start", "execute", "turn", "output", "failed"}

TypeInv ==
    /\ TypeOK
    /\ \A i \in Workers : wpc[i] \in Underway => tmp[i] \in Jobs
    /\ ppc \in {"setjob", "give"} => next \in Jobs

LEMMA InitTypeInv == Init => TypeInv
<1> SUFFICES ASSUME Init PROVE TypeInv
  OBVIOUS
<1> USE ThreadPoolAssumption DEF Init
<1>1. outputs \in Seq(Jobs)
  OBVIOUS
<1>2. QED
  BY <1>1 DEF TypeInv, TypeOK, Underway, Workers, NoJob

LEMMA NextTypeInv == TypeInv /\ [Next]_vars => TypeInv'
<1> SUFFICES ASSUME TypeInv, [Next]_vars PROVE TypeInv'
  OBVIOUS
<1> USE ThreadPoolAssumption DEF TypeInv, TypeOK, Underway
<1>0. next % N \in Workers
  BY NextWorker
<1>1. CASE UNCHANGED vars
  BY <1>1 DEF vars
<1>2. CASE TakeWait \/ TakeThrows
  BY <1>2 DEF TakeWait, TakeThrows, Jobs
<1>3. CASE TakeSetJob
  BY <1>0, <1>3 DEF TakeSetJob
<1>4. CASE TakeGive
  BY <1>0, <1>4 DEF TakeGive, Jobs
<1>5. CASE BeginClose \/ CloseWait \/ CloseThrows \/ CloseDone
  BY <1>5 DEF BeginClose, CloseWait, CloseThrows, CloseDone
<1>6. ASSUME NEW i \in Workers, Start(i) \/ ReadJob(i) \/ Execute(i) \/ Throw(i) PROVE TypeInv'
  BY <1>6 DEF Start, InputGiven, ReadJob, Execute, Throw
<1>7. ASSUME NEW i \in Workers, TurnWait(i) \/ TurnPass(i) \/ SpuriousWakeup(i) PROVE TypeInv'
  BY <1>7 DEF TurnWait, TurnPass, SpuriousWakeup
<1>8. ASSUME NEW i \in Workers, Deliver(i) PROVE TypeInv'
  BY <1>8 DEF Deliver
<1>9. ASSUME NEW i \in Workers, Reset(i) \/ Notify(i) PROVE TypeInv'
  BY <1>9 DEF Reset, Notify, SuccessorWoken, NoInput
<1>10. QED
  BY <1>1, <1>2, <1>3, <1>4, <1>5, <1>6, <1>7, <1>8, <1>9 DEF Next, Producer, WorkerStep

\* Every variable keeps its type.
THEOREM TypeInvariant == Spec => []TypeOK
<1>1. TypeInv => TypeOK
  BY DEF TypeInv
<1>2. QED
  BY <1>1, InitTypeInv, NextTypeInv, PTL DEF Spec, Safety

-----------------------------------------------------------------------------
(* The order of delivery *)

Delivered == Len(outputs)

\* Worker i has input d: in its slot, or underway in wrapper().
Has(i, d) ==
    \/ slot[i] = d /\ wpc[i] = "idle"
    \/ tmp[i] = d /\ wpc[i] \in Underway

\* An input a worker has is its own, is not delivered yet, and labels the worker.
Held ==
    \A i \in Workers : \A d \in Jobs :
        Has(i, d) => d % N = i /\ Delivered <= d /\ d < next /\ job[i] = d

\* A worker with a full slot is outside wrapper(), and a worker that has read its
\* label works under it.
Labels ==
    \A i \in Workers :
        /\ slot[i] # NoInput => wpc[i] = "idle"
        /\ wpc[i] \in {"execute", "turn", "output"} => myjob[i] = tmp[i]

\* Everything given and not delivered is held by its worker.
Pending == \A d \in Jobs : Delivered <= d /\ d < next => Has(d % N, d)

\* A worker at the output has the oldest input.
Turn == \A i \in Workers : wpc[i] = "output" => tmp[i] = Delivered

\* While take() hands an input over, the worker it goes to is idle.
Giving ==
    /\ ppc \in {"setjob", "give"} => Idle(next % N)
    /\ ppc = "give" => job[next % N] = next

Order == Held /\ Labels /\ Pending /\ Turn /\ Giving /\ OutputInOrder

LEMMA InitOrder == Init => Order
<1> SUFFICES ASSUME Init PROVE Order
  OBVIOUS
<1>1. /\ next = 0 /\ outputs = <<>> /\ ppc = "ready"
      /\ \A i \in Workers : wpc[i] = "idle" /\ slot[i] = NoInput
  BY DEF Init
<1>2. Held /\ Labels /\ Pending /\ Turn /\ Giving
  BY <1>1 DEF Held, Labels, Pending, Turn, Giving, Has, Underway, Delivered, Jobs, NoInput
<1>3. OutputInOrder
  BY <1>1 DEF OutputInOrder
<1>4. QED
  BY <1>2, <1>3 DEF Order

\* The step the order rests on: a worker that may pass has the oldest input.
LEMMA PassIsOldest ==
    ASSUME TypeInv, Order, NEW i \in Workers, wpc[i] = "turn", MyTurn(i)
    PROVE  tmp[i] = Delivered
<1> DEFINE d == tmp[i]
<1> USE ThreadPoolAssumption
<1>1. d \in Jobs /\ Has(i, d)
  BY DEF TypeInv, Underway, Has
<1>2. d % N = i /\ Delivered <= d /\ d < next /\ myjob[i] = d
  BY <1>1 DEF Order, Held, Labels
<1>3. Delivered \in Nat
  BY DEF TypeInv, TypeOK, Delivered
<1> HIDE DEF d
<1>4. SUFFICES ASSUME Delivered < d PROVE FALSE
  BY <1>1, <1>2, <1>3 DEF d, Jobs
<1>5. d \in Nat \ {0} /\ d - 1 \in Jobs /\ Delivered <= d - 1 /\ d - 1 < next
  BY <1>1, <1>2, <1>3, <1>4 DEF Jobs, TypeInv, TypeOK
<1>6. Prev(i) = (d - 1) % N
  BY <1>2, <1>5, PrevOfJob DEF Prev
<1>7. job[Prev(i)] = d - 1
  <2>1. Has(Prev(i), d - 1)
    BY <1>5, <1>6 DEF Order, Pending
  <2>2. Prev(i) \in Workers
    BY SuccOfPrev
  <2>3. QED
    BY <1>5, <2>1, <2>2 DEF Order, Held
<1>8. QED
  BY <1>1, <1>2, <1>7 DEF MyTurn, Jobs

LEMMA NextOrder == TypeInv /\ Order /\ [Next]_vars => Order'
<1> SUFFICES ASSUME TypeInv, Order, [Next]_vars PROVE Order'
  OBVIOUS
<1> USE ThreadPoolAssumption DEF TypeInv, TypeOK, Underway
<1>0. next % N \in Workers /\ Delivered \in Nat
  BY NextWorker DEF Delivered
<1>1. CASE UNCHANGED <<next, job, slot, tmp, myjob, wpc, outputs>> /\ ppc' \notin {"setjob", "give"}
  BY <1>1 DEF Order, Held, Labels, Pending, Turn, Giving, Has, Idle, Delivered, OutputInOrder
<1>2. CASE UNCHANGED <<next, job, slot, tmp, myjob, wpc, outputs, ppc>>
  BY <1>2 DEF Order, Held, Labels, Pending, Turn, Giving, Has, Idle, Delivered, OutputInOrder
<1>3. CASE TakeWait
  BY <1>3 DEF TakeWait, WorkerFree, Order, Held, Labels, Pending, Turn, Giving, Has, Idle,
              Delivered, OutputInOrder
<1>4. CASE TakeSetJob
  <2>1. Idle(next % N)
    BY <1>4 DEF TakeSetJob, Order, Giving
  <2>2. \A d \in Jobs : ~Has(next % N, d)
    BY <1>0, <2>1 DEF Idle, Has, Jobs, NoInput
  <2>3. \A i \in Workers : \A d \in Jobs : Has(i, d)' <=> Has(i, d)
    BY <1>4 DEF TakeSetJob, Has
  <2>4. \A i \in Workers \ {next % N} : job'[i] = job[i]
    BY <1>0, <1>4 DEF TakeSetJob
  <2>5. Held'
    BY <1>4, <2>2, <2>3, <2>4 DEF TakeSetJob, Order, Held, Delivered
  <2>6. Labels' /\ Turn' /\ OutputInOrder'
    BY <1>4 DEF TakeSetJob, Order, Labels, Turn, OutputInOrder, Delivered
  <2>7. Pending'
    BY <1>4, <2>3 DEF TakeSetJob, Order, Pending, Has, Delivered
  <2>8. Giving'
    BY <1>0, <1>4, <2>1 DEF TakeSetJob, Giving, Idle
  <2>9. QED
    BY <2>5, <2>6, <2>7, <2>8 DEF Order
<1>5. CASE TakeGive
  <2>1. Idle(next % N) /\ job[next % N] = next /\ next \in Jobs
    BY <1>5 DEF TakeGive, Order, Giving
  <2>2. \A i \in Workers : \A d \in Jobs : Has(i, d)' => Has(i, d) \/ (i = next % N /\ d = next)
    BY <1>0, <1>5 DEF TakeGive, Has
  <2>3. \A d \in Jobs : d < next /\ Has(d % N, d) => Has(d % N, d)'
    <3> SUFFICES ASSUME NEW d \in Jobs, d < next, Has(d % N, d) PROVE Has(d % N, d)'
      OBVIOUS
    <3>1. d % N \in Workers
      BY JobWorker
    <3>2. d % N # next % N
      BY <1>0, <2>1 DEF Idle, Has, Jobs, NoInput
    <3>3. QED
      BY <1>0, <1>5, <3>1, <3>2 DEF TakeGive, Has
  <2>4. ASSUME NEW d \in Jobs, d = next PROVE Has(d % N, d)'
    BY <1>0, <1>5, <2>1, <2>4 DEF TakeGive, Has, Idle
  <2>5. Delivered' = Delivered /\ next' = next + 1 /\ job' = job /\ Delivered <= next
    BY <1>5 DEF TakeGive, Delivered, Order, OutputInOrder
  <2>6. Held'
    BY <1>0, <2>1, <2>2, <2>5 DEF Order, Held, Jobs
  <2>7. Pending'
    <3> SUFFICES ASSUME NEW d \in Jobs, Delivered' <= d, d < next' PROVE Has(d % N, d)'
      BY <1>5 DEF Pending, TakeGive, Has
    <3>1. CASE d = next
      BY <2>4, <3>1
    <3>2. CASE d # next
      BY <2>3, <2>5, <3>2 DEF Order, Pending, Jobs
    <3>3. QED
      BY <3>1, <3>2
  <2>8. Labels' /\ Turn' /\ OutputInOrder' /\ Giving'
    BY <1>0, <1>5, <2>1 DEF TakeGive, Order, Labels, Turn, OutputInOrder, Delivered, Giving, Idle
  <2>9. QED
    BY <2>6, <2>7, <2>8 DEF Order
<1>6. ASSUME NEW i \in Workers, Start(i) PROVE Order'
  <2>1. /\ slot[i] \in Jobs /\ wpc[i] = "idle"
        /\ tmp' = [tmp EXCEPT ![i] = slot[i]] /\ slot' = [slot EXCEPT ![i] = NoInput]
        /\ wpc' = [wpc EXCEPT ![i] = "start"]
        /\ UNCHANGED <<next, job, myjob, ppc, outputs>>
    BY <1>6 DEF Start, InputGiven
  <2>2. \A k \in Workers : \A d \in Jobs : Has(k, d)' <=> Has(k, d)
    BY <2>1 DEF Has, NoInput, Jobs
  <2>3. Held' /\ OutputInOrder'
    BY <2>1, <2>2 DEF Order, Held, Delivered, OutputInOrder
  <2>4. Pending'
    <3>1. \A d \in Jobs : d % N \in Workers
      BY JobWorker
    <3>2. \A d \in Jobs : Has(d % N, d)' <=> Has(d % N, d)
      BY <2>2, <3>1
    <3>3. QED
      BY <2>1, <3>2 DEF Order, Pending, Delivered, Has
  <2>5. Labels' /\ Turn'
    BY <2>1 DEF Order, Labels, Turn, Delivered, NoInput
  <2>6. Giving'
    <3>1. ppc \in {"setjob", "give"} => i # next % N
      BY <2>1 DEF Order, Giving, Idle, Jobs, NoInput
    <3>2. QED
      BY <1>0, <2>1, <3>1 DEF Order, Giving, Idle
  <2>7. QED
    BY <2>3, <2>4, <2>5, <2>6 DEF Order
<1>7. ASSUME NEW i \in Workers, NEW label \in Underway, wpc[i] \in Underway,
             wpc' = [wpc EXCEPT ![i] = label],
             label = "output" => tmp[i] = Delivered,
             label \in {"execute", "turn", "output"} => myjob'[i] = tmp[i],
             \A k \in Workers \ {i} : myjob'[k] = myjob[k],
             UNCHANGED <<next, job, slot, tmp, ppc, outputs>>
      PROVE  Order'
  <2>1. \A k \in Workers : \A d \in Jobs : Has(k, d)' <=> Has(k, d)
    BY <1>7 DEF Has
  <2>2. \A d \in Jobs : d % N \in Workers
    BY JobWorker
  <2>3. Held' /\ OutputInOrder'
    BY <1>7, <2>1 DEF Order, Held, Delivered, OutputInOrder
  <2>4. Pending'
    <3>1. \A d \in Jobs : Has(d % N, d)' <=> Has(d % N, d)
      BY <2>1, <2>2
    <3>2. QED
      BY <1>7, <3>1 DEF Order, Pending, Delivered, Has
  <2>5. Labels' /\ Turn'
    BY <1>7 DEF Order, Labels, Turn, Delivered
  <2>6. Giving'
    BY <1>0, <1>7 DEF Order, Giving, Idle
  <2>7. QED
    BY <2>3, <2>4, <2>5, <2>6 DEF Order
<1>8. ASSUME NEW i \in Workers, ReadJob(i) PROVE Order'
  <2>1. job[i] = tmp[i]
    BY <1>8 DEF ReadJob, Order, Held, Has
  <2>2. QED
    BY <1>7, <1>8, <2>1 DEF ReadJob
<1>9. ASSUME NEW i \in Workers, Execute(i) \/ Throw(i) PROVE Order'
  <2>1. wpc[i] = "execute" => myjob[i] = tmp[i]
    BY DEF Order, Labels
  <2>2. QED
    BY <1>7, <1>9, <2>1 DEF Execute, Throw
<1>10. ASSUME NEW i \in Workers, TurnPass(i) PROVE Order'
  <2>1. tmp[i] = Delivered /\ myjob[i] = tmp[i]
    BY <1>10, PassIsOldest DEF TurnPass, Order, Labels
  <2>2. QED
    BY <1>7, <1>10, <2>1 DEF TurnPass
<1>11. ASSUME NEW i \in Workers, Deliver(i) PROVE Order'
  <2>1. /\ tmp[i] = Delivered /\ tmp[i] \in Jobs /\ wpc[i] = "output"
        /\ tmp[i] % N = i /\ tmp[i] < next
        /\ wpc' = [wpc EXCEPT ![i] = "reset"]
        /\ outputs' = Append(outputs, tmp[i])
        /\ UNCHANGED <<next, job, slot, tmp, myjob, ppc>>
    BY <1>11 DEF Deliver, Order, Turn, Held, Has
  <2>2. Delivered' = Delivered + 1
    BY <2>1 DEF Delivered
  <2>3. \A k \in Workers \ {i} : \A d \in Jobs : Has(k, d)' <=> Has(k, d)
    BY <2>1 DEF Has
  <2>4. \A d \in Jobs : ~Has(i, d)'
    BY <2>1 DEF Has
  <2>5. \A k \in Workers \ {i} : \A d \in Jobs : Has(k, d) => d # Delivered
    BY <2>1 DEF Order, Held
  <2>6. Held'
    BY <1>0, <2>1, <2>2, <2>3, <2>4, <2>5 DEF Order, Held, Jobs
  <2>7. Pending'
    <3> SUFFICES ASSUME NEW d \in Jobs, Delivered + 1 <= d, d < next PROVE Has(d % N, d)'
      BY <2>1, <2>2 DEF Pending, Has
    <3>1. d % N \in Workers
      BY JobWorker
    <3>5. Delivered <= d
      BY <1>0 DEF Jobs
    <3>4. Has(d % N, d)
      BY <3>5 DEF Order, Pending
    <3>2. ~Has(i, d)
      BY <1>0, <2>1 DEF Has, Order, Labels, Jobs
    <3>3. QED
      BY <2>3, <3>1, <3>2, <3>4
  <2>8. Turn'
    <3>1. \A k \in Workers \ {i} : wpc[k] # "output"
      <4> SUFFICES ASSUME NEW k \in Workers \ {i}, wpc[k] = "output" PROVE FALSE
        OBVIOUS
      <4>1. tmp[k] = Delivered /\ Has(k, tmp[k])
        BY DEF Order, Turn, Has
      <4>2. QED
        BY <2>1, <2>5, <4>1
    <3>2. QED
      BY <2>1, <3>1 DEF Turn
  <2>9. Labels' /\ Giving'
    BY <1>0, <2>1 DEF Order, Labels, Giving, Idle
  <2>10. OutputInOrder'
    BY <1>0, <2>1, <2>2 DEF Order, OutputInOrder, Delivered, Jobs
  <2>11. QED
    BY <2>6, <2>7, <2>8, <2>9, <2>10 DEF Order
<1>12. ASSUME NEW i \in Workers, Reset(i) \/ Notify(i) PROVE Order'
  <2>1. /\ wpc[i] \in {"reset", "notify"} /\ wpc'[i] \in {"notify", "idle"}
        /\ \A k \in Workers \ {i} : wpc'[k] = wpc[k] /\ job'[k] = job[k] /\ tmp'[k] = tmp[k]
        /\ UNCHANGED <<next, slot, myjob, ppc, outputs>>
    BY <1>12 DEF Reset, Notify
  <2>2. slot[i] = NoInput
    BY <2>1 DEF Order, Labels
  <2>3. \A k \in Workers : \A d \in Jobs : Has(k, d)' <=> Has(k, d)
    BY <2>1, <2>2 DEF Has, Jobs, NoInput
  <2>4. \A d \in Jobs : ~Has(i, d)
    BY <2>1 DEF Has
  <2>5. Held' /\ OutputInOrder'
    BY <2>1, <2>3, <2>4 DEF Order, Held, Delivered, OutputInOrder
  <2>6. Pending'
    <3>1. \A d \in Jobs : Has(d % N, d)' <=> Has(d % N, d)
      BY <2>3, JobWorker
    <3>2. QED
      BY <2>1, <3>1 DEF Order, Pending, Delivered, Has
  <2>7. Labels' /\ Turn'
    BY <2>1, <2>2 DEF Order, Labels, Turn, Delivered
  <2>8. Giving'
    <3>1. ppc \in {"setjob", "give"} => i # next % N
      BY <2>1 DEF Order, Giving, Idle
    <3>2. QED
      BY <1>0, <2>1, <3>1 DEF Order, Giving, Idle
  <2>9. QED
    BY <2>5, <2>6, <2>7, <2>8 DEF Order
<1>13. CASE TakeThrows \/ BeginClose \/ CloseWait \/ CloseThrows \/ CloseDone
  BY <1>1, <1>13 DEF TakeThrows, BeginClose, CloseWait, CloseThrows, CloseDone
<1>14. ASSUME NEW i \in Workers, TurnWait(i) \/ SpuriousWakeup(i) PROVE Order'
  BY <1>2, <1>14 DEF TurnWait, SpuriousWakeup
<1>15. CASE UNCHANGED vars
  BY <1>2, <1>15 DEF vars
<1>16. QED
  BY <1>3, <1>4, <1>5, <1>6, <1>8, <1>9, <1>10, <1>11, <1>12, <1>13, <1>14, <1>15
     DEF Next, Producer, WorkerStep

LEMMA OrderInvariant == Spec => [](TypeInv /\ Order)
BY InitTypeInv, NextTypeInv, InitOrder, NextOrder, PTL DEF Spec, Safety

\* Results leave in the order of the inputs, whatever the interleaving and
\* whichever workers fail.
THEOREM OutputIsOrdered == Spec => []OutputInOrder
<1>1. Order => OutputInOrder
  BY DEF Order
<1>2. QED
  BY <1>1, OrderInvariant, PTL

\* At most one worker is at the output.
THEOREM OutputIsExclusive == Spec => []OneAtOutput
<1>1. TypeInv /\ Order => OneAtOutput
  BY DEF TypeInv, Underway, Order, Turn, Held, Has, OneAtOutput
<1>2. QED
  BY <1>1, OrderInvariant, PTL

-----------------------------------------------------------------------------
(* close() *)

\* The workers close() has waited for stay idle: nobody gives them input.
Closing ==
    /\ ppc = "closing" => \A i \in Workers : i < closeAt => Idle(i)
    /\ ppc = "closed" => \A i \in Workers : Idle(i)

LEMMA NextClosing == TypeInv /\ Closing /\ [Next]_vars => Closing'
<1> SUFFICES ASSUME TypeInv, Closing, [Next]_vars PROVE Closing'
  OBVIOUS
<1> USE ThreadPoolAssumption DEF TypeInv, TypeOK, Closing, Idle
<1>1. CASE UNCHANGED vars
  BY <1>1 DEF vars
<1>2. CASE TakeWait \/ TakeThrows \/ TakeSetJob \/ TakeGive \/ CloseThrows
  BY <1>2 DEF TakeWait, TakeThrows, TakeSetJob, TakeGive, CloseThrows
<1>3. CASE BeginClose
  BY <1>3 DEF BeginClose, Workers
<1>4. CASE CloseWait
  BY <1>4 DEF CloseWait, Finished, Workers
<1>5. CASE CloseDone
  BY <1>5 DEF CloseDone, Workers
<1>6. ASSUME NEW i \in Workers, WorkerStep(i) PROVE Closing'
  <2>1. /\ ~Idle(i) /\ UNCHANGED <<ppc, closeAt>>
        /\ \A k \in Workers \ {i} : wpc'[k] = wpc[k] /\ slot'[k] = slot[k]
    BY <1>6 DEF WorkerStep, Start, InputGiven, ReadJob, Execute, Throw, TurnWait, TurnPass,
                Deliver, Reset, Notify
  <2>2. QED
    BY <2>1
<1>7. ASSUME NEW i \in Workers, SpuriousWakeup(i) PROVE Closing'
  BY <1>7 DEF SpuriousWakeup
<1>8. QED
  BY <1>1, <1>2, <1>3, <1>4, <1>5, <1>6, <1>7 DEF Next, Producer

\* A normal return of close() means that everything given was delivered.
THEOREM ClosedIsComplete == Spec => []CloseIsComplete
<1>1. Init => Closing
  BY DEF Init, Closing
<1>2. TypeInv /\ Order /\ Closing => CloseIsComplete
  <2> SUFFICES ASSUME TypeInv, Order, Closing, ppc = "closed", Delivered # next PROVE FALSE
    BY DEF CloseIsComplete, Delivered
  <2>1. Delivered \in Jobs /\ Delivered < next
    <3>1. Delivered \in Nat /\ next \in 0 .. NumJobs
      BY DEF TypeInv, TypeOK, Delivered
    <3>2. Delivered <= next
      BY DEF Order, OutputInOrder, Delivered
    <3>3. QED
      BY ThreadPoolAssumption, <3>1, <3>2 DEF Jobs
  <2>2. PICK d \in Jobs : Delivered <= d /\ d < next
    BY <2>1 DEF Jobs
  <2>3. Has(d % N, d)
    BY <2>2 DEF Order, Pending
  <2>4. Idle(d % N)
    BY JobWorker DEF Closing
  <2>5. QED
    BY <2>3, <2>4 DEF Has, Idle, Underway, Jobs, NoInput
<1>3. QED
  BY <1>1, <1>2, InitTypeInv, NextTypeInv, InitOrder, NextOrder, NextClosing,
     PTL DEF Spec, Safety

-----------------------------------------------------------------------------
(* Wakeups on the ring *)

\* Only workers that wait for their turn are blocked, and the label of a worker
\* without input is NoJob (so that its successor may pass).
Ring ==
    /\ \A i \in blocked : wpc[i] = "turn"
    /\ \A i \in Workers : wpc[i] = "notify" => job[i] = NoJob
    /\ \A i \in Workers : Idle(i) /\ ~(ppc = "give" /\ i = next % N) => job[i] = NoJob

RingInv == Ring /\ NoLostWakeup

LEMMA NextRingInv == TypeInv /\ Order /\ RingInv /\ [Next]_vars => RingInv'
<1> SUFFICES ASSUME TypeInv, Order, RingInv, [Next]_vars PROVE RingInv'
  OBVIOUS
<1> USE ThreadPoolAssumption DEF TypeInv, TypeOK, RingInv, Ring, NoLostWakeup, MyTurn
<1>0. next % N \in Workers /\ \A i \in Workers : Prev(i) \in Workers /\ Succ(Prev(i)) = i
  BY NextWorker, SuccOfPrev
<1>1. CASE UNCHANGED <<next, job, slot, myjob, wpc, blocked>> /\ ppc # "give" /\ ppc' # "give"
  BY <1>1 DEF Idle
<1>2. CASE TakeSetJob
  <2>1. Idle(next % N) /\ job[next % N] = NoJob
    BY <1>0, <1>2 DEF TakeSetJob, Order, Giving
  <2>2. \A i \in blocked : Prev(i) # next % N
    BY <2>1 DEF Idle, NoJob, Jobs
  <2>3. \A k \in Workers \ {next % N} : job'[k] = job[k]
    BY <1>0, <1>2 DEF TakeSetJob
  <2>4. NoLostWakeup'
    BY <1>0, <1>2, <2>2, <2>3 DEF TakeSetJob
  <2>5. Ring'
    BY <1>0, <1>2, <2>1, <2>3 DEF TakeSetJob, Idle
  <2>6. QED
    BY <2>4, <2>5
<1>3. CASE TakeGive
  <2>1. slot'[next % N] # NoInput /\ \A k \in Workers \ {next % N} : slot'[k] = slot[k]
    BY <1>0, <1>3 DEF TakeGive, NoInput, Jobs
  <2>2. QED
    BY <1>0, <1>3, <2>1 DEF TakeGive, Idle
<1>4. ASSUME NEW i \in Workers, Start(i) PROVE RingInv'
  BY <1>0, <1>4 DEF Start, InputGiven, Idle
<1>5. ASSUME NEW i \in Workers, ReadJob(i) PROVE RingInv'
  BY <1>0, <1>5 DEF ReadJob, Idle
<1>6. ASSUME NEW i \in Workers, Execute(i) \/ Throw(i) \/ TurnPass(i) \/ Deliver(i) PROVE RingInv'
  BY ZenonT(60), <1>0, <1>6 DEF Execute, Throw, TurnPass, Deliver, Idle
<1>7. ASSUME NEW i \in Workers, TurnWait(i) PROVE RingInv'
  BY <1>0, <1>7 DEF TurnWait, Idle
<1>8. ASSUME NEW i \in Workers, Reset(i) PROVE RingInv'
  BY <1>0, <1>8 DEF Reset, Idle
<1>9. ASSUME NEW i \in Workers, Notify(i) PROVE RingInv'
  <2>1. Ring'
    BY <1>0, <1>9 DEF Notify, SuccessorWoken, Idle
  <2>2. NoLostWakeup'
    <3> SUFFICES ASSUME NEW k \in Workers, k \in blocked'
                 PROVE  ~MyTurn(k)' \/ wpc'[Prev(k)] = "notify"
      BY <1>9 DEF Notify, SuccessorWoken
    <3>1. k \in blocked /\ k # Succ(i)
      BY <1>9 DEF Notify, SuccessorWoken
    <3>2. Prev(k) # i
      BY <1>0, <3>1
    <3>3. QED
      BY <1>0, <1>9, <3>1, <3>2 DEF Notify
  <2>3. QED
    BY <2>1, <2>2
<1>10. ASSUME NEW i \in Workers, SpuriousWakeup(i) PROVE RingInv'
  BY <1>0, <1>10 DEF SpuriousWakeup, Idle
<1>11. CASE TakeWait \/ TakeThrows \/ BeginClose \/ CloseWait \/ CloseThrows \/ CloseDone
  BY <1>1, <1>11 DEF TakeWait, TakeThrows, BeginClose, CloseWait, CloseThrows, CloseDone
<1>12. CASE UNCHANGED vars
  BY <1>12 DEF vars, Idle
<1>13. QED
  BY <1>2, <1>3, <1>4, <1>5, <1>6, <1>7, <1>8, <1>9, <1>10, <1>11, <1>12
     DEF Next, Producer, WorkerStep

\* No worker sleeps through its turn.
THEOREM RingWakeupsAreNotLost == Spec => []NoLostWakeup
<1>1. Init => RingInv
  BY DEF Init, RingInv, Ring, NoLostWakeup
<1>2. RingInv => NoLostWakeup
  BY DEF RingInv
<1>3. QED
  BY <1>1, <1>2, InitTypeInv, NextTypeInv, InitOrder, NextOrder, NextRingInv,
     PTL DEF Spec, Safety
-----------------------------------------------------------------------------
(* Refinement *)

LEMMA AppendAccepted ==
    ASSUME NEW n \in Nat
    PROVE  [k \in 1 .. n + 1 |-> k - 1] = Append([k \in 1 .. n |-> k - 1], n)
<1>1. [k \in 1 .. n |-> k - 1] \in Seq(Nat) /\ Len([k \in 1 .. n |-> k - 1]) = n
  OBVIOUS
<1>2. QED
  BY <1>1

LEMMA StepRefines ==
    TypeInv /\ Order /\ [Next]_vars => [Queue!Next]_(Queue!vars)
<1> DEFINE accepted == [k \in 1 .. next |-> k - 1]
<1> SUFFICES ASSUME TypeInv, Order, [Next]_vars
             PROVE  Queue!Next \/ UNCHANGED <<next, outputs>>
  BY DEF Queue!vars
<1>0. /\ next \in Nat /\ Delivered \in Nat /\ Delivered <= next
      /\ Len(accepted) = next /\ DOMAIN accepted = 1 .. next
      /\ N \in Nat \ {0} /\ NumJobs \in Nat
  BY ThreadPoolAssumption DEF Delivered, TypeInv, TypeOK, Order, OutputInOrder
<1>1. CASE TakeGive
  <2>1. next \in Jobs /\ Idle(next % N) /\ next % N \in Workers
    BY <1>1, NextWorker DEF TakeGive, TypeInv, Order, Giving
  \* The worker of the next input is idle, so the input it had N inputs ago is out.
  <2>2. next - Delivered < N
    <3> SUFFICES ASSUME next - Delivered >= N PROVE FALSE
      BY <1>0
    <3>1. next >= N
      BY <1>0
    <3>2. /\ next - N \in Jobs /\ Delivered <= next - N /\ next - N < next
      BY <1>0, <2>1, <3>1 DEF Jobs
    <3>3. (next - N) % N = next % N
      BY <1>0, <3>1, OnceAround
    <3>4. Has(next % N, next - N)
      BY <3>2, <3>3 DEF Order, Pending
    <3>5. QED
      BY <2>1, <3>2, <3>4 DEF Has, Idle, Jobs, NoInput, Underway
  <2>3. accepted' = Append(accepted, next)
    <3> HIDE DEF accepted
    <3>1. accepted' = [k \in 1 .. next + 1 |-> k - 1]
      BY <1>1 DEF TakeGive, accepted
    <3>2. QED
      BY <1>0, <3>1, AppendAccepted DEF accepted
  <2>4. PICK x \in Jobs : x = next
    BY <2>1
  <2>5. Queue!Accept(x)
    <3> HIDE DEF accepted
    <3>1. outputs' = outputs /\ Len(accepted) - Len(outputs) < N
      BY <1>0, <1>1, <2>2 DEF TakeGive, Delivered
    <3>2. QED
      BY <2>3, <2>4, <3>1 DEF Queue!Accept, Queue!Backlog, accepted
  <2>6. QED
    BY <2>5 DEF Queue!Next
<1>2. ASSUME NEW i \in Workers, Deliver(i) PROVE Queue!Next
  <2>1. /\ tmp[i] = Delivered /\ tmp[i] < next /\ tmp[i] \notin Faulty
        /\ outputs' = Append(outputs, tmp[i]) /\ next' = next
    BY <1>2 DEF Deliver, TypeInv, Order, Turn, Held, Has, Underway
  <2>2. accepted[Delivered + 1] = Delivered
    BY <1>0, <2>1
  <2>3. QED
    BY <1>0, <2>1, <2>2 DEF Queue!Next, Queue!Execute, Queue!Backlog, Queue!Oldest, Delivered
<1>3. CASE TakeWait \/ TakeThrows \/ TakeSetJob \/ BeginClose \/ CloseWait \/ CloseThrows \/ CloseDone
  BY <1>3 DEF TakeWait, TakeThrows, TakeSetJob, BeginClose, CloseWait, CloseThrows, CloseDone
<1>4. ASSUME NEW i \in Workers,
             \/ Start(i) \/ ReadJob(i) \/ Execute(i) \/ Throw(i)
             \/ TurnWait(i) \/ TurnPass(i) \/ Reset(i) \/ Notify(i) \/ SpuriousWakeup(i)
      PROVE  UNCHANGED <<next, outputs>>
  BY <1>4 DEF Start, ReadJob, Execute, Throw, TurnWait, TurnPass, Reset, Notify, SpuriousWakeup
<1>5. CASE UNCHANGED vars
  BY <1>5 DEF vars
<1>6. QED
  BY <1>1, <1>2, <1>3, <1>4, <1>5 DEF Next, Producer, WorkerStep

\* Every behaviour of the ring of workers is one of a queue that holds at most N
\* inputs and lets them out in their order (its fairness, checked by TLC, apart):
\* take() never puts input k in before input k - N is out.
THEOREM PoolRefinesWorkQueue == Spec => Queue!Safety
<1>1. Init => Queue!Init
  <2> SUFFICES ASSUME Init PROVE Queue!Init
    OBVIOUS
  <2>1. [k \in 1 .. next |-> k - 1] = <<>>
    BY DEF Init
  <2>2. QED
    BY <2>1 DEF Init, Queue!Init
<1>2. QED
  BY <1>1, StepRefines, InitTypeInv, NextTypeInv, InitOrder, NextOrder,
     PTL DEF Spec, Safety, Queue!Safety
=============================================================================
