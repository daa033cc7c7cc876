------------------------------- MODULE Thread -------------------------------
(***************************************************************************)
(* Thread<T> of include/chia/Thread.h: a worker thread fed through one     *)
(* slot, `input', guarded by one mutex and one condition variable that     *)
(* everybody shares.                                                       *)
(*                                                                         *)
(* A step is what a thread does between acquiring the mutex and releasing  *)
(* it, in signal.wait() or in unlock(); a notify_all() made after the      *)
(* unlock is a step of its own.  waitSet holds the threads blocked in      *)
(* signal.wait(): notify_all() empties it, C++ also allows a thread to     *)
(* leave it for no reason, and a thread that left it acquires the mutex    *)
(* again in the next step of the loop it waits in.                         *)
(***************************************************************************)
EXTENDS Naturals, Sequences

CONSTANTS
    Client,     \* the threads that call take() and wait()
    Owner,      \* the one of them that calls close()
    Worker,     \* the thread that runs loop()
    Quota,      \* how many inputs each client gives at most (bounds the model)
    Faulty      \* the inputs on which execute() throws a std::exception

Item == UNION {{c} \X (1 .. Quota[c]) : c \in Client}
NoItem == <<>>

ASSUME ThreadAssumption ==
    /\ Owner \in Client
    /\ Worker \notin Client
    /\ Quota \in [Client -> Nat]
    /\ Faulty \subseteq Item

VARIABLES
    do_run, is_fail, is_busy, is_avail,
    input,      \* the slot
    tmp,        \* the local of loop(): the input being executed
    joinable,   \* thread.joinable()
    waitSet,    \* the threads blocked in signal.wait(lock)
    pc,         \* where each client is
    wpc,        \* where the worker is
    closing,    \* close() has been called
    sent,       \* how many inputs each client has given to take()
    accepted,   \* history: inputs put in the slot, in order
    executed,   \* history: inputs whose execute() returned, in order
    mark        \* history: Len(accepted) when the client's wait() began

flags == <<do_run, is_fail>>
slot == <<is_avail, input>>
worker == <<is_busy, tmp, wpc, executed>>
calls == <<joinable, closing, sent, mark>>
vars == <<do_run, is_fail, is_busy, is_avail, input, tmp, joinable, waitSet,
          pc, wpc, closing, sent, accepted, executed, mark>>

Goto(c, label) == pc' = [pc EXCEPT ![c] = label]
Awake(t) == t \notin waitSet
NotifyAll == waitSet' = {}
\* notify_all() followed by wait(): t is the only one left in the wait set
NotifyAllAndBlock(t) == waitSet' = {t}
Block(t) == waitSet' = waitSet \cup {t}

-----------------------------------------------------------------------------
(* The conditions the code waits on. *)

\* (Defects, here and below: a definition in the form a plausible slip in that
\* code would give it, just before the definition itself.)
SlotTakenWhenBusy == do_run /\ is_busy
SlotTaken == do_run /\ is_avail

HandoffNeverPending == FALSE
HandoffPending == do_run /\ is_avail /\ is_busy

PendingInputIfBusy == do_run /\ is_busy
PendingInput == do_run /\ (is_avail \/ is_busy)

-----------------------------------------------------------------------------
(* take(): two waits around the hand-over of one input. *)

BeginTake(c) ==
    /\ pc[c] = "idle"
    /\ ~closing
    /\ sent[c] < Quota[c]
    /\ sent' = [sent EXCEPT ![c] = @ + 1]
    /\ Goto(c, "take")
    /\ UNCHANGED <<flags, slot, worker, joinable, waitSet, closing, accepted, mark>>

TakeBlocked(c) ==
    /\ pc[c] = "take" /\ Awake(c)
    /\ SlotTaken
    /\ Block(c)
    /\ UNCHANGED <<flags, slot, worker, calls, pc, accepted>>

\* The worker has stopped: the input is dropped without a word.
TakeDropped(c) ==
    /\ pc[c] = "take" /\ Awake(c)
    /\ ~do_run
    /\ Goto(c, "idle")
    /\ UNCHANGED <<flags, slot, worker, calls, waitSet, accepted>>

NotifyForgotten == "idle"
NotifyAfterUnlock == "notify"

TakeAccepted(c) ==
    /\ pc[c] = "take" /\ Awake(c)
    /\ do_run /\ ~SlotTaken
    /\ is_avail' = TRUE
    /\ input' = <<c, sent[c]>>
    /\ accepted' = Append(accepted, <<c, sent[c]>>)
    /\ IF is_busy
       THEN NotifyAllAndBlock(c) /\ Goto(c, "handoff")
       ELSE Goto(c, NotifyAfterUnlock) /\ UNCHANGED waitSet
    /\ UNCHANGED <<flags, worker, calls>>

HandoffBlocked(c) ==
    /\ pc[c] = "handoff" /\ Awake(c)
    /\ HandoffPending
    /\ NotifyAllAndBlock(c)
    /\ UNCHANGED <<flags, slot, worker, calls, pc, accepted>>

HandoffDone(c) ==
    /\ pc[c] = "handoff" /\ Awake(c)
    /\ ~HandoffPending
    /\ Goto(c, "idle")
    /\ UNCHANGED <<flags, slot, worker, calls, waitSet, accepted>>

TakeNotify(c) ==
    /\ pc[c] = "notify"
    /\ NotifyAll
    /\ Goto(c, "idle")
    /\ UNCHANGED <<flags, slot, worker, calls, accepted>>

Take(c) ==
    \/ TakeBlocked(c) \/ TakeDropped(c) \/ TakeAccepted(c)
    \/ HandoffBlocked(c) \/ HandoffDone(c) \/ TakeNotify(c)

-----------------------------------------------------------------------------
(* wait() *)

BeginWait(c) ==
    /\ pc[c] = "idle"
    /\ ~closing
    /\ mark' = [mark EXCEPT ![c] = Len(accepted)]
    /\ Goto(c, "wait")
    /\ UNCHANGED <<flags, slot, worker, joinable, closing, sent, waitSet, accepted>>

WaitBlocked(c) ==
    /\ pc[c] = "wait" /\ Awake(c)
    /\ PendingInput
    /\ Block(c)
    /\ UNCHANGED <<flags, slot, worker, calls, pc, accepted>>

FailureSwallowed == FALSE
FailureReported == is_fail

\* close() goes on after its wait(); a failure is thrown at the caller.
WaitDone(c) ==
    /\ pc[c] = "wait" /\ Awake(c)
    /\ ~PendingInput
    /\ Goto(c, IF FailureReported THEN "threw"
               ELSE IF c = Owner /\ closing THEN "close" ELSE "idle")
    /\ mark' = [mark EXCEPT ![c] = 0]
    /\ UNCHANGED <<flags, slot, worker, joinable, closing, sent, waitSet, accepted>>

Wait(c) == WaitBlocked(c) \/ WaitDone(c)

-----------------------------------------------------------------------------
(* close(), called when no other client is inside a call ("NOT thread-safe"): *)
(* by the program, then by the destructor.                                    *)

BeginClose ==
    /\ pc[Owner] = "idle"
    /\ \A c \in Client \ {Owner} : pc[c] \in {"idle", "threw"}
    /\ closing' = TRUE
    /\ mark' = [mark EXCEPT ![Owner] = Len(accepted)]
    /\ Goto(Owner, "wait")
    /\ UNCHANGED <<flags, slot, worker, joinable, sent, waitSet, accepted>>

CloseStop ==
    /\ pc[Owner] = "close"
    /\ do_run' = FALSE
    /\ Goto(Owner, IF joinable THEN "closeNotify" ELSE "idle")
    /\ UNCHANGED <<is_fail, slot, worker, calls, waitSet, accepted>>

CloseNotify ==
    /\ pc[Owner] = "closeNotify"
    /\ NotifyAll
    /\ Goto(Owner, "join")
    /\ UNCHANGED <<flags, slot, worker, calls, accepted>>

CloseJoin ==
    /\ pc[Owner] = "join"
    /\ wpc = "exit"
    /\ joinable' = FALSE
    /\ Goto(Owner, "idle")
    /\ UNCHANGED <<flags, slot, worker, closing, sent, mark, waitSet, accepted>>

Close == CloseStop \/ CloseNotify \/ CloseJoin

-----------------------------------------------------------------------------
(* loop(): one pass of the worker through its critical section, entered with *)
(* the values do_run and is_busy have there, up to signal.wait(), unlock()   *)
(* or the return.                                                            *)

LoopIdle(run, busy) ==
    /\ run /\ ~is_avail
    /\ is_busy' = busy
    /\ wpc' = "loop"
    /\ tmp' = NoItem
    /\ NotifyAllAndBlock(Worker)
    /\ UNCHANGED slot

InputReady == is_avail

LoopTake(run) ==
    /\ run /\ InputReady
    /\ tmp' = input
    /\ input' = NoItem
    /\ is_avail' = FALSE
    /\ is_busy' = TRUE
    /\ wpc' = "taken"
    /\ UNCHANGED waitSet

WaitersLeftAlone == UNCHANGED waitSet
WaitersReleased == NotifyAll

LoopExit(run, busy) ==
    /\ ~run
    /\ is_busy' = busy
    /\ wpc' = "exit"
    /\ tmp' = NoItem
    /\ WaitersReleased
    /\ UNCHANGED slot

Loop(run, busy) == LoopIdle(run, busy) \/ LoopTake(run) \/ LoopExit(run, busy)

WorkerLoop ==
    /\ wpc = "loop" /\ Awake(Worker)
    /\ Loop(do_run, is_busy)
    /\ UNCHANGED <<flags, calls, pc, accepted, executed>>

WorkerNotify ==
    /\ wpc = "taken"
    /\ NotifyAll
    /\ wpc' = "execute"
    /\ UNCHANGED <<flags, slot, is_busy, tmp, calls, pc, accepted, executed>>

WorkerExecuted ==
    /\ wpc = "execute"
    /\ tmp \notin Faulty
    /\ executed' = Append(executed, tmp)
    /\ Loop(do_run, FALSE)
    /\ UNCHANGED <<flags, calls, pc, accepted>>

RunOnAfterFailure == do_run
RunAfterFailure == FALSE

WorkerThrew ==
    /\ wpc = "execute"
    /\ tmp \in Faulty
    /\ do_run' = RunAfterFailure
    /\ is_fail' = TRUE
    /\ Loop(RunAfterFailure, FALSE)
    /\ UNCHANGED <<calls, pc, accepted, executed>>

WorkerStep == WorkerLoop \/ WorkerNotify \/ WorkerExecuted \/ WorkerThrew

-----------------------------------------------------------------------------
SpuriousWakeup(t) ==
    /\ t \in waitSet
    /\ waitSet' = waitSet \ {t}
    /\ UNCHANGED <<flags, slot, worker, calls, pc, accepted>>

Init ==
    /\ do_run = TRUE /\ is_fail = FALSE /\ is_busy = FALSE /\ is_avail = FALSE
    /\ input = NoItem /\ tmp = NoItem
    /\ joinable = TRUE /\ closing = FALSE
    /\ waitSet = {}
    /\ pc = [c \in Client |-> "idle"]
    /\ wpc = "loop"
    /\ sent = [c \in Client |-> 0]
    /\ accepted = <<>> /\ executed = <<>>
    /\ mark = [c \in Client |-> 0]

ClientStep(c) == Take(c) \/ Wait(c)

Next ==
    \/ \E c \in Client : BeginTake(c) \/ BeginWait(c) \/ ClientStep(c)
    \/ BeginClose \/ Close
    \/ WorkerStep
    \/ \E t \in Client \cup {Worker} : SpuriousWakeup(t)

Safety == Init /\ [][Next]_vars

\* Every thread that can go on inside a call goes on; nobody is obliged to
\* call, and nothing relies on a spurious wakeup.
Fairness ==
    /\ \A c \in Client : WF_vars(ClientStep(c))
    /\ WF_vars(Close)
    /\ WF_vars(WorkerStep)

Spec == Safety /\ Fairness

-----------------------------------------------------------------------------
(* Properties *)

ClientLabel ==
    {"idle", "take", "handoff", "notify", "wait", "close", "closeNotify", "join", "threw"}

\* The type of every variable of the class, of its callers and of the history.
StateOK ==
    /\ do_run \in BOOLEAN /\ is_fail \in BOOLEAN
    /\ is_busy \in BOOLEAN /\ is_avail \in BOOLEAN
    /\ input \in Item \cup {NoItem} /\ tmp \in Item \cup {NoItem}
    /\ joinable \in BOOLEAN /\ closing \in BOOLEAN
    /\ waitSet \subseteq Client \cup {Worker}
    /\ pc \in [Client -> ClientLabel]
    /\ wpc \in {"loop", "taken", "execute", "exit"}
    /\ sent \in [Client -> Nat] /\ \A c \in Client : sent[c] <= Quota[c]
    /\ mark \in [Client -> Nat]
HistoryOK == accepted \in Seq(Item) /\ executed \in Seq(Item)
TypeOK == StateOK /\ HistoryOK

\* A notify_all() some thread still has to make on its way out of the mutex.
NotifyOwed ==
    \/ wpc = "taken"
    \/ \E c \in Client : pc[c] \in {"notify", "closeNotify"}

\* No lost wakeup: whoever is blocked on `signal' still has its reason to be,
\* or a notify_all() is on its way (the notify_all() calls of take(), close()
\* and loop(), three of them made after the unlock).
NoLostWakeup ==
    \/ NotifyOwed
    \/ \A t \in waitSet :
        \/ t = Worker /\ do_run /\ ~is_avail
        \/ t \in Client /\ pc[t] = "take" /\ SlotTaken
        \/ t \in Client /\ pc[t] = "handoff" /\ HandoffPending
        \/ t \in Client /\ pc[t] = "wait" /\ PendingInput

\* "no triple buffering": the input in the slot belongs to a client that is
\* still inside take() as long as the worker executes an earlier one, so a
\* producer is never more than one input ahead of the worker.
NoTripleBuffering == is_avail /\ is_busy => pc[input[1]] = "handoff"

\* Nothing accepted is lost, repeated or reordered: the accepted inputs are
\* the executed ones, then the one being executed, then the one in the slot;
\* after a failure the failed input and the slot stay behind.
InFlight == IF is_busy \/ is_fail THEN 1 ELSE 0
Waiting == IF is_avail THEN 1 ELSE 0
ExecutedInOrder ==
    /\ Len(accepted) = Len(executed) + InFlight + Waiting
    /\ \A i \in 1 .. Len(executed) : executed[i] = accepted[i]
    /\ is_avail => input = accepted[Len(accepted)]
    /\ is_busy => tmp = accepted[Len(executed) + 1]

\* "wait for thread to finish all pending input": wait() returns without an
\* exception only after every input accepted before the call was executed,
\* the wait() that close() starts with included.
WaitFinishesPending ==
    [][\A c \in Client :
        pc[c] = "wait" /\ pc'[c] \in {"idle", "close"} => Len(executed) >= mark[c]]_vars

\* A joined worker leaves nothing behind: after close() every accepted input
\* has been executed, and no thread is blocked on the object about to go.
CloseIsComplete ==
    ~joinable => executed = accepted /\ waitSet = {} /\ wpc = "exit"

\* Every take(), wait() and close() ends, even when the worker fails with
\* clients blocked on it.
CallsReturn == \A c \in Client : (pc[c] # "idle") ~> (pc[c] \in {"idle", "threw"})

\* The promise of the abstract queue, one input in the slot and one being
\* executed, fairness included.
Queue == INSTANCE WorkQueue WITH Work <- Item, Capacity <- 2
ImplementsWorkQueue == Queue!Spec
=============================================================================
