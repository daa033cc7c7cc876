----------------------------- MODULE ThreadPool -----------------------------
(***************************************************************************)
(* ThreadPool<T, S, L> of include/chia/ThreadPool.h: N workers execute the *)
(* inputs in parallel and pass the results to `output' in the order of the *)
(* inputs.  Input number j goes to worker j % N; a worker may deliver when *)
(* its predecessor on the ring is past the job before.                     *)
(*                                                                         *)
(* Each worker is a Thread<T> (module Thread), used here through what that *)
(* module shows of it: take() is only called after wait() has returned, on *)
(* an idle worker, so it fills the empty slot and returns; the input then  *)
(* goes from the slot to the worker, which runs wrapper() on it.  A worker *)
(* whose wrapper() throws stops, and wait() throws at the caller.          *)
(*                                                                         *)
(* The producer is the one thread that calls take() and close() (both "NOT *)
(* thread-safe").                                                          *)
(***************************************************************************)
EXTENDS Integers, Sequences

CONSTANTS
    N,          \* num_threads
    NumJobs,    \* how many inputs the producer gives at most (bounds the model)
    Faulty      \* the inputs on which execute() or output->take() throws

ASSUME ThreadPoolAssumption ==
    /\ N \in Nat \ {0}
    /\ NumJobs \in Nat
    /\ Faulty \subseteq 0 .. NumJobs - 1

Workers == 0 .. N - 1
Jobs == 0 .. NumJobs - 1
\* uint64_t(-1): greater than every job number
NoJob == NumJobs
NoInput == -1

Prev(i) == (i + N - 1) % N
Succ(i) == (i + 1) % N

VARIABLES
    next,       \* number of the next input
    job,        \* thread_t::job of each worker
    slot,       \* the input in the worker's slot, given and not yet taken
    tmp,        \* the input the worker executes
    myjob,      \* the local `job' of wrapper()
    wpc,        \* where each worker is in wrapper(); "idle" outside of it
    blocked,    \* the workers waiting on their predecessor's signal
    ppc,        \* where the producer is
    closeAt,    \* loop index of wait() inside close()
    outputs     \* history: the inputs whose result was delivered, in order

vars == <<next, job, slot, tmp, myjob, wpc, blocked, ppc, closeAt, outputs>>

\* Thread::wait() returns, or throws because the worker failed.
Idle(i) == wpc[i] = "idle" /\ slot[i] = NoInput
Failed(i) == wpc[i] = "failed"

Goto(i, label) == wpc' = [wpc EXCEPT ![i] = label]

-----------------------------------------------------------------------------
(* take() *)

\* As WorkerFree, without thread->wait(): the slot is free, the worker may run.
SlotFree(i) == slot[i] = NoInput
WorkerFree(i) == Idle(i)

TakeWait ==
    /\ ppc = "ready" /\ next < NumJobs
    /\ WorkerFree(next % N)
    /\ ppc' = "setjob"
    /\ UNCHANGED <<next, job, slot, tmp, myjob, wpc, blocked, closeAt, outputs>>

TakeThrows ==
    /\ ppc = "ready" /\ next < NumJobs
    /\ Failed(next % N)
    /\ ppc' = "threw"
    /\ UNCHANGED <<next, job, slot, tmp, myjob, wpc, blocked, closeAt, outputs>>

TakeSetJob ==
    /\ ppc = "setjob"
    /\ job' = [job EXCEPT ![next % N] = next]
    /\ ppc' = "give"
    /\ UNCHANGED <<next, slot, tmp, myjob, wpc, blocked, closeAt, outputs>>

TakeGive ==
    /\ ppc = "give"
    /\ slot' = [slot EXCEPT ![next % N] = next]
    /\ next' = next + 1
    /\ ppc' = "ready"
    /\ UNCHANGED <<job, tmp, myjob, wpc, blocked, closeAt, outputs>>

-----------------------------------------------------------------------------
(* close(): wait() for every worker in turn, then stop them; they are idle   *)
(* by then, so stopping them changes nothing more.                           *)

BeginClose ==
    /\ ppc = "ready"
    /\ ppc' = "closing"
    /\ closeAt' = 0
    /\ UNCHANGED <<next, job, slot, tmp, myjob, wpc, blocked, outputs>>

\* close() that takes a stopped worker for a finished one
FinishedOrFailed(i) == Idle(i) \/ Failed(i)
Finished(i) == Idle(i)

CloseWait ==
    /\ ppc = "closing" /\ closeAt < N
    /\ Finished(closeAt)
    /\ closeAt' = closeAt + 1
    /\ UNCHANGED <<next, job, slot, tmp, myjob, wpc, blocked, ppc, outputs>>

CloseThrows ==
    /\ ppc = "closing" /\ closeAt < N
    /\ Failed(closeAt)
    /\ ppc' = "threw"
    /\ UNCHANGED <<next, job, slot, tmp, myjob, wpc, blocked, closeAt, outputs>>

CloseDone ==
    /\ ppc = "closing" /\ closeAt = N
    /\ ppc' = "closed"
    /\ UNCHANGED <<next, job, slot, tmp, myjob, wpc, blocked, closeAt, outputs>>

Producer ==
    \/ TakeWait \/ TakeThrows \/ TakeSetJob \/ TakeGive
    \/ CloseWait \/ CloseThrows \/ CloseDone

-----------------------------------------------------------------------------
(* wrapper() *)

InputGiven(i) == slot[i] # NoInput

\* Thread::loop() takes the input out of the slot and calls wrapper().
Start(i) ==
    /\ wpc[i] = "idle" /\ InputGiven(i)
    /\ tmp' = [tmp EXCEPT ![i] = slot[i]]
    /\ slot' = [slot EXCEPT ![i] = NoInput]
    /\ Goto(i, "start")
    /\ UNCHANGED <<next, job, myjob, blocked, ppc, closeAt, outputs>>

ReadJob(i) ==
    /\ wpc[i] = "start"
    /\ myjob' = [myjob EXCEPT ![i] = job[i]]
    /\ Goto(i, "execute")
    /\ UNCHANGED <<next, job, slot, tmp, blocked, ppc, closeAt, outputs>>

Execute(i) ==
    /\ wpc[i] = "execute"
    /\ Goto(i, "turn")
    /\ UNCHANGED <<next, job, slot, tmp, myjob, blocked, ppc, closeAt, outputs>>

\* A faulty input throws in execute() or, later, in output->take(): job stays
\* set and nobody is notified.
Throw(i) ==
    /\ wpc[i] \in {"execute", "output"}
    /\ tmp[i] \in Faulty
    /\ Goto(i, "failed")
    /\ UNCHANGED <<next, job, slot, tmp, myjob, blocked, ppc, closeAt, outputs>>

MyTurnAlways(i) == TRUE
MyTurnOrNext(i) == ~(job[Prev(i)] + 1 < myjob[i])
MyTurn(i) == ~(job[Prev(i)] < myjob[i])

TurnWait(i) ==
    /\ wpc[i] = "turn" /\ i \notin blocked
    /\ ~MyTurn(i)
    /\ blocked' = blocked \cup {i}
    /\ UNCHANGED <<next, job, slot, tmp, myjob, wpc, ppc, closeAt, outputs>>

TurnPass(i) ==
    /\ wpc[i] = "turn" /\ i \notin blocked
    /\ MyTurn(i)
    /\ Goto(i, "output")
    /\ UNCHANGED <<next, job, slot, tmp, myjob, blocked, ppc, closeAt, outputs>>

\* output->take(out): the worker is inside it from "output" on.
Deliver(i) ==
    /\ wpc[i] = "output"
    /\ tmp[i] \notin Faulty
    /\ outputs' = Append(outputs, tmp[i])
    /\ Goto(i, "reset")
    /\ UNCHANGED <<next, job, slot, tmp, myjob, blocked, ppc, closeAt>>

Reset(i) ==
    /\ wpc[i] = "reset"
    /\ job' = [job EXCEPT ![i] = NoJob]
    /\ Goto(i, "notify")
    /\ UNCHANGED <<next, slot, tmp, myjob, blocked, ppc, closeAt, outputs>>

SuccessorForgotten(i) == blocked
SuccessorWoken(i) == blocked \ {Succ(i)}

Notify(i) ==
    /\ wpc[i] = "notify"
    /\ blocked' = SuccessorWoken(i)
    /\ tmp' = [tmp EXCEPT ![i] = NoInput]
    /\ Goto(i, "idle")
    /\ UNCHANGED <<next, job, slot, myjob, ppc, closeAt, outputs>>

WorkerStep(i) ==
    \/ Start(i) \/ ReadJob(i) \/ Execute(i) \/ Throw(i)
    \/ TurnWait(i) \/ TurnPass(i) \/ Deliver(i) \/ Reset(i) \/ Notify(i)

SpuriousWakeup(i) ==
    /\ i \in blocked
    /\ blocked' = blocked \ {i}
    /\ UNCHANGED <<next, job, slot, tmp, myjob, wpc, ppc, closeAt, outputs>>

-----------------------------------------------------------------------------
Init ==
    /\ next = 0
    /\ job = [i \in Workers |-> NoJob]
    /\ slot = [i \in Workers |-> NoInput]
    /\ tmp = [i \in Workers |-> NoInput]
    /\ myjob = [i \in Workers |-> NoJob]
    /\ wpc = [i \in Workers |-> "idle"]
    /\ blocked = {}
    /\ ppc = "ready" /\ closeAt = 0
    /\ outputs = <<>>

Next ==
    \/ Producer \/ BeginClose
    \/ \E i \in Workers : WorkerStep(i) \/ SpuriousWakeup(i)

Safety == Init /\ [][Next]_vars

\* Every worker goes on when it can, and so does the producer inside take() and
\* close(); nobody has to call close().
Fairness ==
    /\ WF_vars(Producer)
    /\ \A i \in Workers : WF_vars(WorkerStep(i))

Spec == Safety /\ Fairness

-----------------------------------------------------------------------------
(* Properties *)

\* The type of every variable.
TypeOK ==
    /\ next \in 0 .. NumJobs
    /\ job \in [Workers -> Jobs \cup {NoJob}]
    /\ slot \in [Workers -> Jobs \cup {NoInput}]
    /\ tmp \in [Workers -> Jobs \cup {NoInput}]
    /\ myjob \in [Workers -> Jobs \cup {NoJob}]
    /\ wpc \in [Workers -> {"idle", "start", "execute", "turn", "output",
                            "reset", "notify", "failed"}]
    /\ blocked \subseteq Workers
    /\ ppc \in {"ready", "setjob", "give", "closing", "closed", "threw"}
    /\ closeAt \in 0 .. N
    /\ outputs \in Seq(Jobs)

\* Results leave in the order of the inputs, none missing and none twice, even
\* when some worker has failed: what follows a failed input is never delivered.
OutputInOrder ==
    /\ Len(outputs) <= next
    /\ \A k \in 1 .. Len(outputs) : outputs[k] = k - 1

\* "only one thread can be at this position": inside output->take().
OneAtOutput ==
    \A i, k \in Workers : wpc[i] = "output" /\ wpc[k] = "output" => i = k

\* close() returns normally only when every input given was delivered: a failed
\* worker can stop the program but not truncate what it produces.
CloseIsComplete == ppc = "closed" => Len(outputs) = next

\* No lost wakeup on the ring: a blocked worker's predecessor is still on an
\* earlier job, or has a notify_all() to make.
NoLostWakeup ==
    \A i \in blocked : ~MyTurn(i) \/ wpc[Prev(i)] = "notify"

\* The pool is a queue of at most N inputs: each leaves in its turn, up to the
\* first that throws, and no later one overtakes it.
Queue == INSTANCE WorkQueue WITH
    Work <- Jobs, Capacity <- N,
    accepted <- [k \in 1 .. next |-> k - 1], executed <- outputs
ImplementsWorkQueue == Queue!Spec
=============================================================================
