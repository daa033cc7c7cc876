---------------------------- MODULE ThreadProofs ----------------------------
(***************************************************************************)
(* Proofs about Thread for any set of clients, any quota and any set of    *)
(* inputs on which execute() throws.                                       *)
(***************************************************************************)
EXTENDS Thread, TLAPS

USE DEF flags, slot, worker, calls, Goto, Awake, NotifyAll, NotifyAllAndBlock, Block

\* Every step is a step of one client, of the owner closing, of the worker in
\* one of the three ways out of its critical section, or a spurious wakeup.
LEMMA NextCases ==
    ASSUME Next
    PROVE  \/ \E c \in Client :
                \/ BeginTake(c) \/ TakeBlocked(c) \/ TakeDropped(c) \/ TakeAccepted(c)
                \/ HandoffBlocked(c) \/ HandoffDone(c) \/ TakeNotify(c)
                \/ BeginWait(c) \/ WaitBlocked(c) \/ WaitDone(c)
           \/ BeginClose \/ CloseStop \/ CloseNotify \/ CloseJoin
           \/ WorkerLoop \/ WorkerNotify \/ WorkerExecuted \/ WorkerThrew
           \/ \E t \in Client \cup {Worker} : SpuriousWakeup(t)
BY DEF Next, ClientStep, Take, Wait, Close, WorkerStep

-----------------------------------------------------------------------------
(* Types *)

\* What StateOK needs to be inductive: a client inside take() has counted its
\* input, and what is in the slot or being executed is an input.
TypeInv ==
    /\ StateOK
    /\ HistoryOK
    /\ \A c \in Client : pc[c] = "take" => sent[c] >= 1
    /\ is_avail => input \in Item
    /\ wpc \in {"taken", "execute"} => tmp \in Item

LEMMA InitTypeInv == Init => TypeInv
<1> SUFFICES ASSUME Init PROVE TypeInv
  OBVIOUS
<1> USE ThreadAssumption DEF Init
<1>1. HistoryOK
  BY DEF HistoryOK
<1>2. pc \in [Client -> ClientLabel]
  BY DEF ClientLabel
<1>3. sent \in [Client -> Nat] /\ mark \in [Client -> Nat]
  OBVIOUS
<1>4. ASSUME NEW c \in Client PROVE sent[c] <= Quota[c]
  <2>1. sent[c] = 0 /\ Quota[c] \in Nat
    OBVIOUS
  <2>2. QED
    BY <2>1
<1>5. StateOK
  BY <1>2, <1>3, <1>4 DEF StateOK
<1>6. QED
  BY <1>1, <1>5 DEF TypeInv

\* The worker's critical section, entered from loop() or after execute().
LEMMA LoopTypeInv ==
    ASSUME TypeInv, NEW run \in BOOLEAN, NEW busy \in BOOLEAN, Loop(run, busy)
    PROVE  /\ input' \in Item \cup {NoItem} /\ tmp' \in Item \cup {NoItem}
           /\ is_busy' \in BOOLEAN /\ is_avail' \in BOOLEAN
           /\ waitSet' \subseteq Client \cup {Worker}
           /\ wpc' \in {"loop", "taken", "execute", "exit"}
           /\ is_avail' => input' \in Item
           /\ wpc' \in {"taken", "execute"} => tmp' \in Item
<1>1. CASE LoopIdle(run, busy)
  BY <1>1 DEF TypeInv, StateOK, LoopIdle
<1>2. CASE LoopTake(run)
  BY <1>2 DEF TypeInv, StateOK, LoopTake, InputReady
<1>3. CASE LoopExit(run, busy)
  BY <1>3 DEF TypeInv, StateOK, LoopExit, WaitersReleased
<1>4. QED
  BY <1>1, <1>2, <1>3 DEF Loop

LEMMA NextTypeInv == TypeInv /\ [Next]_vars => TypeInv'
<1> SUFFICES ASSUME TypeInv, [Next]_vars PROVE TypeInv'
  OBVIOUS
<1> USE ThreadAssumption DEF TypeInv
<1>1. CASE UNCHANGED vars
  BY <1>1 DEF vars, StateOK, HistoryOK
<1>2. ASSUME NEW c \in Client,
             \/ BeginTake(c) \/ TakeBlocked(c) \/ TakeDropped(c)
             \/ HandoffBlocked(c) \/ HandoffDone(c) \/ TakeNotify(c)
      PROVE  TypeInv'
  <2> USE DEF BeginTake, TakeBlocked, TakeDropped, HandoffBlocked, HandoffDone, TakeNotify
  <2>1. HistoryOK'
    BY <1>2 DEF HistoryOK
  <2>2. StateOK'
    BY <1>2 DEF StateOK, ClientLabel
  <2>3. QED
    BY <1>2, <2>1, <2>2 DEF StateOK
<1>3. ASSUME NEW c \in Client, TakeAccepted(c) PROVE TypeInv'
  <2>1. sent[c] \in 1 .. Quota[c]
    BY <1>3 DEF TakeAccepted, StateOK
  <2>2. <<c, sent[c]>> \in Item
    BY <2>1 DEF Item
  <2>3. HistoryOK'
    BY <1>3, <2>2 DEF TakeAccepted, HistoryOK
  <2>4. StateOK'
    BY <1>3, <2>2 DEF TakeAccepted, NotifyAfterUnlock, StateOK, ClientLabel
  <2>5. QED
    BY <1>3, <2>2, <2>3, <2>4 DEF TakeAccepted, NotifyAfterUnlock, StateOK
<1>4. ASSUME NEW c \in Client, BeginWait(c) PROVE TypeInv'
  <2>1. HistoryOK'
    BY <1>4 DEF BeginWait, HistoryOK
  <2>2. Len(accepted) \in Nat
    BY DEF HistoryOK
  <2>3. StateOK'
    BY <1>4, <2>2 DEF BeginWait, StateOK, ClientLabel
  <2>4. QED
    BY <1>4, <2>1, <2>3 DEF BeginWait, StateOK
<1>5. ASSUME NEW c \in Client, WaitBlocked(c) PROVE TypeInv'
  BY <1>5 DEF WaitBlocked, StateOK, HistoryOK
<1>6. ASSUME NEW c \in Client, WaitDone(c) PROVE TypeInv'
  <2>1. PICK label \in {"threw", "close", "idle"} : pc' = [pc EXCEPT ![c] = label]
    BY <1>6 DEF WaitDone
  <2>2. QED
    BY <1>6, <2>1 DEF WaitDone, StateOK, HistoryOK, ClientLabel
<1>7. CASE BeginClose \/ CloseStop \/ CloseNotify \/ CloseJoin
  <2> USE DEF BeginClose, CloseStop, CloseNotify, CloseJoin
  <2>1. HistoryOK'
    BY <1>7 DEF HistoryOK
  <2>2. Len(accepted) \in Nat
    BY DEF HistoryOK
  <2>3. StateOK'
    BY ZenonT(60), <1>7, <2>2 DEF StateOK, ClientLabel
  <2>4. QED
    BY <1>7, <2>1, <2>3 DEF StateOK
<1>8. CASE WorkerLoop
  <2>1. HistoryOK'
    BY <1>8 DEF WorkerLoop, HistoryOK
  <2>2. QED
    BY <1>8, <2>1, LoopTypeInv DEF WorkerLoop, StateOK
<1>9. CASE WorkerNotify
  <2>1. HistoryOK'
    BY <1>9 DEF WorkerNotify, HistoryOK
  <2>2. QED
    BY <1>9, <2>1 DEF WorkerNotify, StateOK
<1>10. CASE WorkerExecuted
  <2>1. HistoryOK'
    BY <1>10 DEF WorkerExecuted, HistoryOK
  <2>2. QED
    BY <1>10, <2>1, LoopTypeInv DEF WorkerExecuted, StateOK
<1>11. CASE WorkerThrew
  <2>1. HistoryOK'
    BY <1>11 DEF WorkerThrew, HistoryOK
  <2>2. QED
    BY <1>11, <2>1, LoopTypeInv DEF WorkerThrew, RunAfterFailure, StateOK
<1>12. ASSUME NEW t \in Client \cup {Worker}, SpuriousWakeup(t) PROVE TypeInv'
  BY <1>12 DEF SpuriousWakeup, StateOK, HistoryOK
<1>13. QED
  BY <1>1, <1>2, <1>3, <1>4, <1>5, <1>6, <1>7, <1>8, <1>9, <1>10, <1>11, <1>12,
     NextCases

\* Every variable keeps its type, whatever the clients do.
THEOREM TypeInvariant == Spec => []TypeOK
<1>1. TypeInv => TypeOK
  BY DEF TypeInv, TypeOK
<1>2. QED
  BY <1>1, InitTypeInv, NextTypeInv, PTL DEF Spec, Safety

-----------------------------------------------------------------------------
(* The protocol of the flags *)

ClosingLabel == {"close", "closeNotify", "join"}

\* How the flags follow the worker and the owner: is_busy and do_run say where
\* the worker is, and once close() is past its wait() nothing is pending and
\* nobody else is inside a call.
Protocol ==
    /\ wpc = "loop" => ~is_busy
    /\ wpc \in {"taken", "execute"} => is_busy /\ do_run
    /\ wpc = "exit" => ~is_busy /\ ~do_run
    /\ is_fail => wpc = "exit"
    /\ closing => \A c \in Client \ {Owner} : pc[c] \in {"idle", "threw"}
    /\ closing => pc[Owner] \in ClosingLabel \cup {"wait", "idle", "threw"}
    /\ closing /\ pc[Owner] = "idle" => ~joinable
    /\ \A c \in Client : pc[c] \in ClosingLabel => c = Owner /\ closing
    /\ pc[Owner] \in ClosingLabel => ~is_avail /\ ~is_busy /\ ~is_fail
    /\ pc[Owner] \in {"closeNotify", "join"} => ~do_run
    /\ ~do_run /\ ~is_fail => closing /\ ~is_avail /\ ~is_busy
    /\ ~joinable => closing /\ ~do_run /\ ~is_fail /\ wpc = "exit"
    /\ ~joinable => pc[Owner] \notin {"closeNotify", "join"}

LEMMA InitProtocol == Init => Protocol
BY ThreadAssumption DEF Init, Protocol, ClosingLabel

LEMMA NextProtocol == TypeInv /\ Protocol /\ [Next]_vars => Protocol'
<1> SUFFICES ASSUME TypeInv, Protocol, [Next]_vars PROVE Protocol'
  OBVIOUS
<1> USE ThreadAssumption DEF TypeInv, StateOK, ClientLabel, ClosingLabel
<1>1. CASE UNCHANGED vars
  BY <1>1 DEF vars, Protocol
<1>2. ASSUME NEW c \in Client, BeginTake(c) PROVE Protocol'
  BY <1>2 DEF BeginTake, Protocol
<1>3. ASSUME NEW c \in Client, TakeBlocked(c) \/ TakeDropped(c) PROVE Protocol'
  BY <1>3 DEF TakeBlocked, TakeDropped, Protocol
<1>4. ASSUME NEW c \in Client, TakeAccepted(c) PROVE Protocol'
  BY <1>4 DEF TakeAccepted, NotifyAfterUnlock, Protocol
<1>5. ASSUME NEW c \in Client, HandoffBlocked(c) \/ HandoffDone(c) \/ TakeNotify(c) PROVE Protocol'
  BY <1>5 DEF HandoffBlocked, HandoffDone, TakeNotify, Protocol
<1>6. ASSUME NEW c \in Client, BeginWait(c) \/ WaitBlocked(c) PROVE Protocol'
  BY <1>6 DEF BeginWait, WaitBlocked, Protocol
<1>7. ASSUME NEW c \in Client, WaitDone(c) PROVE Protocol'
  BY <1>7 DEF WaitDone, FailureReported, PendingInput, Protocol
<1>8. CASE BeginClose
  BY <1>8 DEF BeginClose, Protocol
<1>9. CASE CloseStop
  BY <1>9 DEF CloseStop, Protocol
<1>10. CASE CloseNotify \/ CloseJoin
  BY <1>10 DEF CloseNotify, CloseJoin, Protocol
<1>11. CASE WorkerLoop
  BY <1>11 DEF WorkerLoop, Loop, LoopIdle, LoopTake, LoopExit, InputReady, Protocol
<1>12. CASE WorkerNotify
  BY <1>12 DEF WorkerNotify, Protocol
<1>13. CASE WorkerExecuted
  BY <1>13 DEF WorkerExecuted, Loop, LoopIdle, LoopTake, LoopExit, InputReady, Protocol
<1>14. CASE WorkerThrew
  BY <1>14 DEF WorkerThrew, RunAfterFailure, Loop, LoopIdle, LoopTake, LoopExit, Protocol
<1>15. ASSUME NEW t \in Client \cup {Worker}, SpuriousWakeup(t) PROVE Protocol'
  BY <1>15 DEF SpuriousWakeup, Protocol
<1>16. QED
  BY <1>1, <1>2, <1>3, <1>4, <1>5, <1>6, <1>7, <1>8, <1>9, <1>10, <1>11,
     <1>12, <1>13, <1>14, <1>15, NextCases

-----------------------------------------------------------------------------
(* Wakeups *)

LEMMA NextNoLostWakeup ==
    TypeInv /\ Protocol /\ NoLostWakeup /\ [Next]_vars => NoLostWakeup'
<1> SUFFICES ASSUME TypeInv, Protocol, NoLostWakeup, [Next]_vars PROVE NoLostWakeup'
  OBVIOUS
<1> USE ThreadAssumption
    DEF TypeInv, StateOK, ClientLabel, NoLostWakeup, NotifyOwed, SlotTaken, HandoffPending, PendingInput
<1>1. CASE UNCHANGED vars
  BY <1>1 DEF vars
<1>2. ASSUME NEW c \in Client, BeginTake(c) PROVE NoLostWakeup'
  BY <1>2 DEF BeginTake
<1>3. ASSUME NEW c \in Client, TakeBlocked(c) PROVE NoLostWakeup'
  BY <1>3 DEF TakeBlocked
<1>4. ASSUME NEW c \in Client, TakeDropped(c) PROVE NoLostWakeup'
  BY <1>4 DEF TakeDropped
<1>5. ASSUME NEW c \in Client, TakeAccepted(c) PROVE NoLostWakeup'
  BY <1>5 DEF TakeAccepted, NotifyAfterUnlock
<1>6. ASSUME NEW c \in Client, HandoffBlocked(c) PROVE NoLostWakeup'
  BY <1>6 DEF HandoffBlocked
<1>7. ASSUME NEW c \in Client, HandoffDone(c) PROVE NoLostWakeup'
  BY <1>7 DEF HandoffDone
<1>8. ASSUME NEW c \in Client, TakeNotify(c) PROVE NoLostWakeup'
  BY <1>8 DEF TakeNotify
<1>9. ASSUME NEW c \in Client, BeginWait(c) PROVE NoLostWakeup'
  BY <1>9 DEF BeginWait
<1>10. ASSUME NEW c \in Client, WaitBlocked(c) PROVE NoLostWakeup'
  BY <1>10 DEF WaitBlocked
<1>11. ASSUME NEW c \in Client, WaitDone(c) PROVE NoLostWakeup'
  BY <1>11 DEF WaitDone, FailureReported
<1>12. CASE BeginClose
  BY <1>12 DEF BeginClose
<1>13. CASE CloseStop
  BY <1>13 DEF CloseStop, Protocol, ClosingLabel
<1>14. CASE CloseNotify \/ CloseJoin
  BY <1>14 DEF CloseNotify, CloseJoin
<1>15. CASE WorkerLoop
  BY <1>15 DEF WorkerLoop, Loop, LoopIdle, LoopTake, LoopExit, WaitersReleased
<1>16. CASE WorkerNotify
  BY <1>16 DEF WorkerNotify
<1>17. CASE WorkerExecuted
  BY <1>17 DEF WorkerExecuted, Loop, LoopIdle, LoopTake, LoopExit, WaitersReleased
<1>18. CASE WorkerThrew
  BY <1>18 DEF WorkerThrew, RunAfterFailure, Loop, LoopIdle, LoopTake, LoopExit, WaitersReleased
<1>19. ASSUME NEW t \in Client \cup {Worker}, SpuriousWakeup(t) PROVE NoLostWakeup'
  BY <1>19 DEF SpuriousWakeup
<1>20. QED
  BY <1>1, <1>2, <1>3, <1>4, <1>5, <1>6, <1>7, <1>8, <1>9, <1>10, <1>11,
     <1>12, <1>13, <1>14, <1>15, <1>16, <1>17, <1>18, <1>19, NextCases

\* Nobody sleeps on `signal' without a reason or a notify_all() to come.
THEOREM WakeupsAreNotLost == Spec => []NoLostWakeup
<1>1. Init => NoLostWakeup
  BY DEF Init, NoLostWakeup
<1>2. QED
  BY <1>1, InitTypeInv, NextTypeInv, InitProtocol, NextProtocol, NextNoLostWakeup,
     PTL DEF Spec, Safety

-----------------------------------------------------------------------------
(* Buffering *)

\* The worker leaves its critical section with the slot empty or itself idle.
LEMMA LoopNotBoth ==
    ASSUME TypeInv, NEW run \in BOOLEAN, NEW busy \in BOOLEAN, ~busy, Loop(run, busy)
    PROVE  ~(is_avail' /\ is_busy')
BY DEF Loop, LoopIdle, LoopTake, LoopExit

LEMMA NextNoTripleBuffering ==
    TypeInv /\ Protocol /\ NoTripleBuffering /\ [Next]_vars => NoTripleBuffering'
<1> SUFFICES ASSUME TypeInv, Protocol, NoTripleBuffering, [Next]_vars
             PROVE  NoTripleBuffering'
  OBVIOUS
<1> USE ThreadAssumption
    DEF TypeInv, StateOK, ClientLabel, Protocol, ClosingLabel, NoTripleBuffering
<1>0. is_avail => input[1] \in Client
  BY DEF Item
<1>1. CASE UNCHANGED vars
  BY <1>1 DEF vars
<1>2. ASSUME NEW c \in Client,
             \/ BeginTake(c) \/ TakeBlocked(c) \/ TakeDropped(c)
             \/ HandoffBlocked(c) \/ TakeNotify(c)
      PROVE  NoTripleBuffering'
  BY ZenonT(60), <1>0, <1>2 DEF BeginTake, TakeBlocked, TakeDropped, HandoffBlocked, TakeNotify
<1>3. ASSUME NEW c \in Client, TakeAccepted(c) PROVE NoTripleBuffering'
  <2>1. CASE is_busy
    <3>1. input'[1] = c /\ pc'[c] = "handoff"
      BY <1>3, <2>1 DEF TakeAccepted
    <3>2. QED
      BY <3>1
  <2>2. CASE ~is_busy
    BY <1>3, <2>2 DEF TakeAccepted
  <2>3. QED
    BY <2>1, <2>2
<1>4. ASSUME NEW c \in Client, HandoffDone(c) PROVE NoTripleBuffering'
  <2>1. is_busy => do_run
    OBVIOUS
  <2>2. ~(is_avail /\ is_busy)
    BY <1>4, <2>1 DEF HandoffDone, HandoffPending
  <2>3. QED
    BY <1>4, <2>2 DEF HandoffDone
<1>5. ASSUME NEW c \in Client, BeginWait(c) \/ WaitBlocked(c) \/ WaitDone(c)
      PROVE  NoTripleBuffering'
  <2>1. /\ UNCHANGED <<is_avail, is_busy, input>>
        /\ \E label : pc' = [pc EXCEPT ![c] = label]
        /\ pc[c] # "handoff"
    BY <1>5 DEF BeginWait, WaitBlocked, WaitDone
  <2>2. QED
    BY <1>0, <2>1
<1>6. CASE BeginClose \/ CloseStop \/ CloseNotify \/ CloseJoin
  BY <1>0, <1>6 DEF BeginClose, CloseStop, CloseNotify, CloseJoin
<1>7. CASE WorkerLoop
  BY <1>7, LoopNotBoth DEF WorkerLoop
<1>8. CASE WorkerNotify
  BY <1>8 DEF WorkerNotify
<1>9. CASE WorkerExecuted
  <2>1. Loop(do_run, FALSE)
    BY <1>9 DEF WorkerExecuted
  <2>2. ~(is_avail' /\ is_busy')
    BY <2>1, LoopNotBoth
  <2>3. QED
    BY <2>2
<1>10. CASE WorkerThrew
  <2>1. Loop(FALSE, FALSE)
    BY <1>10 DEF WorkerThrew, RunAfterFailure
  <2>2. ~(is_avail' /\ is_busy')
    BY <2>1, LoopNotBoth
  <2>3. QED
    BY <2>2
<1>11. ASSUME NEW t \in Client \cup {Worker}, SpuriousWakeup(t) PROVE NoTripleBuffering'
  BY <1>11 DEF SpuriousWakeup
<1>12. QED
  BY <1>1, <1>2, <1>3, <1>4, <1>5, <1>6, <1>7, <1>8, <1>9, <1>10, <1>11, NextCases

\* take() never leaves its input in the slot behind a busy worker.
THEOREM ProducersAreOneAhead == Spec => []NoTripleBuffering
<1>1. Init => NoTripleBuffering
  BY DEF Init, NoTripleBuffering
<1>2. QED
  BY <1>1, InitTypeInv, NextTypeInv, InitProtocol, NextProtocol, NextNoTripleBuffering,
     PTL DEF Spec, Safety

-----------------------------------------------------------------------------
(* Order and completeness *)

\* What the worker's critical section does to the history's bookkeeping, given
\* that `n' inputs were executed before it.
LEMMA LoopOrder ==
    ASSUME TypeInv, NEW run \in BOOLEAN, Loop(run, FALSE), NEW n \in Nat,
           Len(accepted) = n + Waiting,
           is_avail => input = accepted[Len(accepted)]
    PROVE  /\ is_avail' => input' = accepted[Len(accepted)]
           /\ is_busy' => tmp' = accepted[n + 1]
           /\ run => Len(accepted) = n + (IF is_busy' THEN 1 ELSE 0) + Waiting'
           /\ ~run => ~is_busy' /\ UNCHANGED <<is_avail, input>>
<1> USE DEF TypeInv, StateOK, HistoryOK, Waiting
<1>1. CASE LoopIdle(run, FALSE)
  BY <1>1 DEF LoopIdle
<1>2. CASE LoopTake(run)
  BY <1>2 DEF LoopTake, InputReady
<1>3. CASE LoopExit(run, FALSE)
  BY <1>3 DEF LoopExit
<1>4. QED
  BY <1>1, <1>2, <1>3 DEF Loop

LEMMA NextExecutedInOrder ==
    TypeInv /\ Protocol /\ ExecutedInOrder /\ [Next]_vars => ExecutedInOrder'
<1> SUFFICES ASSUME TypeInv, Protocol, ExecutedInOrder, [Next]_vars
             PROVE  ExecutedInOrder'
  OBVIOUS
<1> USE ThreadAssumption
<1>0. /\ Len(accepted) \in Nat /\ Len(executed) \in Nat
      /\ is_busy \in BOOLEAN /\ is_avail \in BOOLEAN
      /\ is_fail \in BOOLEAN /\ do_run \in BOOLEAN
  BY DEF TypeInv, StateOK, HistoryOK
<1>1. CASE UNCHANGED <<is_busy, is_fail, is_avail, input, tmp, accepted, executed>>
  BY <1>1 DEF ExecutedInOrder, InFlight, Waiting
<1>2. ASSUME NEW c \in Client, TakeAccepted(c) PROVE ExecutedInOrder'
  <2>1. ~is_avail
    BY <1>2 DEF TakeAccepted, SlotTaken
  <2>2. /\ is_avail' /\ input' = <<c, sent[c]>>
        /\ accepted' = Append(accepted, <<c, sent[c]>>)
        /\ UNCHANGED <<is_busy, is_fail, tmp, executed>>
    BY <1>2 DEF TakeAccepted
  <2>3. /\ Len(accepted') = Len(accepted) + 1
        /\ accepted'[Len(accepted) + 1] = <<c, sent[c]>>
        /\ \A i \in 1 .. Len(accepted) : accepted'[i] = accepted[i]
    BY <2>2, <1>0 DEF TypeInv, HistoryOK
  <2>4. QED
    BY <1>0, <2>1, <2>2, <2>3 DEF ExecutedInOrder, InFlight, Waiting
<1>3. CASE WorkerLoop
  <2>1. Loop(do_run, is_busy) /\ ~is_busy /\ ~is_fail /\ UNCHANGED <<is_fail, accepted, executed>>
    BY <1>3 DEF WorkerLoop, Protocol
  <2>2. Len(accepted) = Len(executed) + Waiting
    <3>1. InFlight = 0
      BY <2>1 DEF InFlight
    <3>2. QED
      BY <1>0, <3>1 DEF ExecutedInOrder, Waiting
  <2>3. CASE LoopIdle(do_run, is_busy) \/ LoopExit(do_run, is_busy)
    <3>1. ~is_busy' /\ UNCHANGED <<is_avail, input>>
      BY <2>1, <2>3 DEF LoopIdle, LoopExit
    <3>2. QED
      BY <1>0, <2>1, <2>2, <3>1 DEF ExecutedInOrder, InFlight, Waiting
  <2>4. CASE LoopTake(do_run)
    <3>1. is_avail /\ ~is_avail' /\ is_busy' /\ tmp' = input
      BY <2>4 DEF LoopTake, InputReady
    <3>2. Len(accepted) = Len(executed) + 1
      BY <1>0, <2>2, <3>1 DEF Waiting
    <3>3. QED
      BY <1>0, <2>1, <3>1, <3>2 DEF ExecutedInOrder, InFlight, Waiting
  <2>5. QED
    BY <2>1, <2>3, <2>4 DEF Loop
<1>4. CASE WorkerNotify
  BY <1>1, <1>4 DEF WorkerNotify
<1>5. CASE WorkerExecuted
  <2>1. /\ is_busy /\ do_run /\ ~is_fail /\ tmp \in Item
        /\ Loop(do_run, FALSE)
        /\ executed' = Append(executed, tmp)
        /\ UNCHANGED <<is_fail, accepted>>
    BY <1>5 DEF WorkerExecuted, Protocol, TypeInv
  <2>2. /\ Len(executed') = Len(executed) + 1
        /\ executed'[Len(executed) + 1] = tmp
        /\ \A i \in 1 .. Len(executed) : executed'[i] = executed[i]
    BY <2>1, <1>0 DEF TypeInv, HistoryOK
  <2>3. Len(accepted) = Len(executed') + Waiting
    BY <1>0, <2>1, <2>2 DEF ExecutedInOrder, InFlight, Waiting
  <2>4. \A i \in 1 .. Len(executed') : executed'[i] = accepted'[i]
    BY <1>0, <2>1, <2>2 DEF ExecutedInOrder
  <2>5. Len(executed') \in Nat
    BY <1>0, <2>2
  <2>6. is_avail => input = accepted[Len(accepted)]
    BY DEF ExecutedInOrder
  <2>7. /\ is_avail' => input' = accepted[Len(accepted)]
        /\ is_busy' => tmp' = accepted[Len(executed') + 1]
        /\ Len(accepted) = Len(executed') + (IF is_busy' THEN 1 ELSE 0) + Waiting'
    BY <1>0, <2>1, <2>3, <2>5, <2>6, LoopOrder
  <2>8. QED
    BY <2>1, <2>4, <2>7 DEF ExecutedInOrder, InFlight, Waiting
<1>6. CASE WorkerThrew
  <2>0. Loop(FALSE, FALSE)
    BY <1>6 DEF WorkerThrew, RunAfterFailure
  <2>1. /\ is_busy /\ ~is_fail /\ is_fail'
        /\ ~is_busy' /\ UNCHANGED <<is_avail, input, accepted, executed>>
    BY <1>6, <2>0 DEF WorkerThrew, Protocol, Loop, LoopIdle, LoopTake, LoopExit
  <2>2. QED
    BY <1>0, <2>1 DEF ExecutedInOrder, InFlight, Waiting
<1>7. ASSUME NEW c \in Client,
             \/ BeginTake(c) \/ TakeBlocked(c) \/ TakeDropped(c)
             \/ HandoffBlocked(c) \/ HandoffDone(c) \/ TakeNotify(c)
      PROVE  ExecutedInOrder'
  BY <1>1, <1>7 DEF BeginTake, TakeBlocked, TakeDropped, HandoffBlocked, HandoffDone, TakeNotify
<1>8. ASSUME NEW c \in Client, BeginWait(c) \/ WaitBlocked(c) \/ WaitDone(c)
      PROVE  ExecutedInOrder'
  BY <1>1, <1>8 DEF BeginWait, WaitBlocked, WaitDone
<1>9. CASE BeginClose \/ CloseStop \/ CloseNotify \/ CloseJoin
  BY <1>1, <1>9 DEF BeginClose, CloseStop, CloseNotify, CloseJoin
<1>10. ASSUME NEW t \in Client \cup {Worker}, SpuriousWakeup(t) PROVE ExecutedInOrder'
  BY <1>1, <1>10 DEF SpuriousWakeup
<1>11. CASE UNCHANGED vars
  BY <1>1, <1>11 DEF vars
<1>12. QED
  BY <1>2, <1>3, <1>4, <1>5, <1>6, <1>7, <1>8, <1>9, <1>10, <1>11, NextCases

\* What take() accepts is executed once, in order, and nothing else is.
THEOREM NothingIsLost == Spec => []ExecutedInOrder
<1>1. Init => ExecutedInOrder
  BY DEF Init, ExecutedInOrder, InFlight, Waiting
<1>2. QED
  BY <1>1, InitTypeInv, NextTypeInv, InitProtocol, NextProtocol, NextExecutedInOrder,
     PTL DEF Spec, Safety

LEMMA SeqEqual ==
    ASSUME NEW S, NEW s \in Seq(S), NEW t \in Seq(S), Len(s) = Len(t),
           \A i \in 1 .. Len(s) : s[i] = t[i]
    PROVE  s = t
OBVIOUS

\* close() leaves nothing behind: once the worker is joined everything accepted
\* has been executed and nobody sleeps on the object.
THEOREM CloseLeavesNothing == Spec => []CloseIsComplete
<1>1. TypeInv /\ Protocol /\ NoLostWakeup /\ ExecutedInOrder => CloseIsComplete
  <2> SUFFICES ASSUME TypeInv, Protocol, NoLostWakeup, ExecutedInOrder, ~joinable
               PROVE  executed = accepted /\ waitSet = {} /\ wpc = "exit"
    BY DEF CloseIsComplete
  <2>1. /\ wpc = "exit" /\ ~do_run /\ ~is_fail /\ ~is_avail /\ ~is_busy
        /\ \A c \in Client : pc[c] \notin {"notify", "closeNotify"}
    BY ThreadAssumption DEF Protocol, ClosingLabel
  <2>2. waitSet = {}
    BY <2>1 DEF NoLostWakeup, NotifyOwed, SlotTaken, HandoffPending, PendingInput
  <2>3. /\ Len(accepted) = Len(executed)
        /\ \A i \in 1 .. Len(executed) : executed[i] = accepted[i]
        /\ accepted \in Seq(Item) /\ executed \in Seq(Item)
    BY <2>1 DEF ExecutedInOrder, InFlight, Waiting, TypeInv, HistoryOK
  <2>4. executed = accepted
    BY <2>3, SeqEqual
  <2>5. QED
    BY <2>1, <2>2, <2>4
<1>2. Init => NoLostWakeup /\ ExecutedInOrder
  BY DEF Init, NoLostWakeup, ExecutedInOrder, InFlight, Waiting
<1>3. QED
  BY <1>1, <1>2, InitTypeInv, NextTypeInv, InitProtocol, NextProtocol,
     NextNoLostWakeup, NextExecutedInOrder, PTL DEF Spec, Safety

\* A client inside wait() was told of no more inputs than were accepted.
MarkInv == \A c \in Client : mark[c] <= Len(accepted)

LEMMA NextMarkInv == TypeInv /\ MarkInv /\ [Next]_vars => MarkInv'
<1> SUFFICES ASSUME TypeInv, MarkInv, [Next]_vars PROVE MarkInv'
  OBVIOUS
<1> USE ThreadAssumption DEF MarkInv
<1>0. Len(accepted) \in Nat /\ mark \in [Client -> Nat]
  BY DEF TypeInv, StateOK, HistoryOK
<1>1. CASE UNCHANGED <<mark, accepted>>
  BY <1>1
<1>2. ASSUME NEW c \in Client, TakeAccepted(c) PROVE MarkInv'
  <2>1. UNCHANGED mark /\ accepted' = Append(accepted, <<c, sent[c]>>)
    BY <1>2 DEF TakeAccepted
  <2>2. Len(accepted') = Len(accepted) + 1
    BY <2>1 DEF TypeInv, HistoryOK
  <2>3. QED
    BY <1>0, <2>1, <2>2
<1>3. ASSUME NEW c \in Client, BeginWait(c) \/ WaitDone(c) PROVE MarkInv'
  <2>1. /\ UNCHANGED accepted
        /\ mark' = [mark EXCEPT ![c] = Len(accepted)] \/ mark' = [mark EXCEPT ![c] = 0]
    BY <1>3 DEF BeginWait, WaitDone
  <2>2. QED
    BY SMTT(40), <1>0, <2>1
<1>4. CASE BeginClose
  BY <1>0, <1>4 DEF BeginClose
<1>5. ASSUME NEW c \in Client,
             \/ BeginTake(c) \/ TakeBlocked(c) \/ TakeDropped(c) \/ HandoffBlocked(c)
             \/ HandoffDone(c) \/ TakeNotify(c) \/ WaitBlocked(c)
      PROVE  MarkInv'
  BY <1>1, <1>5 DEF BeginTake, TakeBlocked, TakeDropped, HandoffBlocked, HandoffDone,
                    TakeNotify, WaitBlocked
<1>6. CASE CloseStop \/ CloseNotify \/ CloseJoin
  BY <1>1, <1>6 DEF CloseStop, CloseNotify, CloseJoin
<1>7. CASE WorkerLoop \/ WorkerNotify \/ WorkerExecuted \/ WorkerThrew
  BY <1>1, <1>7 DEF WorkerLoop, WorkerNotify, WorkerExecuted, WorkerThrew
<1>8. ASSUME NEW t \in Client \cup {Worker}, SpuriousWakeup(t) PROVE MarkInv'
  BY <1>1, <1>8 DEF SpuriousWakeup
<1>9. CASE UNCHANGED vars
  BY <1>1, <1>9 DEF vars
<1>10. QED
  BY <1>2, <1>3, <1>4, <1>5, <1>6, <1>7, <1>8, <1>9, NextCases

\* wait() finishes the pending input: a normal return finds everything that was
\* accepted before the call executed.
THEOREM WaitFinishes == Spec => WaitFinishesPending
<1> DEFINE Promise ==
        \A c \in Client :
            pc[c] = "wait" /\ pc'[c] \in {"idle", "close"} => Len(executed) >= mark[c]
<1>1. TypeInv /\ Protocol /\ ExecutedInOrder /\ MarkInv /\ [Next]_vars => [Promise]_vars
  <2> SUFFICES ASSUME TypeInv, Protocol, ExecutedInOrder, MarkInv, [Next]_vars,
                      NEW c \in Client, pc[c] = "wait", pc'[c] \in {"idle", "close"}
               PROVE  Len(executed) >= mark[c]
    OBVIOUS
  <2> USE ThreadAssumption DEF StateOK
  <2>0. pc \in [Client -> ClientLabel] /\ Len(accepted) \in Nat /\ Len(executed) \in Nat
        /\ mark \in [Client -> Nat]
    BY DEF TypeInv, HistoryOK
  <2>1. WaitDone(c)
    <3>2. ASSUME NEW d \in Client,
                 \/ BeginTake(d) \/ TakeBlocked(d) \/ TakeDropped(d) \/ TakeAccepted(d)
                 \/ HandoffBlocked(d) \/ HandoffDone(d) \/ TakeNotify(d)
                 \/ BeginWait(d) \/ WaitBlocked(d)
          PROVE  FALSE
      BY <2>0, <3>2 DEF BeginTake, TakeBlocked, TakeDropped, TakeAccepted, HandoffBlocked,
                  HandoffDone, TakeNotify, BeginWait, WaitBlocked
    <3>3. CASE BeginClose \/ CloseStop \/ CloseNotify \/ CloseJoin
      BY <2>0, <3>3 DEF BeginClose, CloseStop, CloseNotify, CloseJoin
    <3>4. CASE WorkerLoop \/ WorkerNotify \/ WorkerExecuted \/ WorkerThrew
      BY <3>4 DEF WorkerLoop, WorkerNotify, WorkerExecuted, WorkerThrew
    <3>5. ASSUME NEW t \in Client \cup {Worker}, SpuriousWakeup(t) PROVE FALSE
      BY <3>5 DEF SpuriousWakeup
    <3>6. CASE UNCHANGED vars
      BY <3>6 DEF vars
    <3>7. ASSUME NEW d \in Client, WaitDone(d) PROVE d = c
      BY <2>0, <3>7 DEF WaitDone
    <3>8. QED
      BY <3>2, <3>3, <3>4, <3>5, <3>6, <3>7, NextCases
  <2>2. ~is_avail /\ ~is_busy /\ ~is_fail
    <3>1. ~is_fail /\ ~PendingInput
      BY <2>0, <2>1 DEF WaitDone, FailureReported
    <3>2. QED
      BY <3>1 DEF PendingInput, Protocol
  <2>3. Len(accepted) = Len(executed)
    BY <2>0, <2>2 DEF ExecutedInOrder, InFlight, Waiting
  <2>4. QED
    BY <2>0, <2>3 DEF MarkInv
<1>2. Init => ExecutedInOrder /\ MarkInv
  BY DEF Init, ExecutedInOrder, InFlight, Waiting, MarkInv
<1>3. QED
  BY <1>1, <1>2, InitTypeInv, NextTypeInv, InitProtocol, NextProtocol,
     NextExecutedInOrder, NextMarkInv, PTL DEF Spec, Safety, WaitFinishesPending

-----------------------------------------------------------------------------
(* Refinement *)

LEMMA StepRefines ==
    TypeInv /\ Protocol /\ ExecutedInOrder /\ [Next]_vars => [Queue!Next]_(Queue!vars)
<1> SUFFICES ASSUME TypeInv, Protocol, ExecutedInOrder, [Next]_vars
             PROVE  Queue!Next \/ UNCHANGED <<accepted, executed>>
  BY DEF Queue!vars
<1> USE ThreadAssumption
<1>0. Len(accepted) \in Nat /\ Len(executed) \in Nat
  BY DEF TypeInv, HistoryOK
<1>1. ASSUME NEW c \in Client, TakeAccepted(c) PROVE Queue!Next
  <2>1. /\ sent[c] \in 1 .. Quota[c]
        /\ do_run /\ ~is_avail
        /\ accepted' = Append(accepted, <<c, sent[c]>>)
        /\ UNCHANGED executed
    BY <1>1 DEF TakeAccepted, SlotTaken, TypeInv, StateOK
  <2>2. <<c, sent[c]>> \in Item /\ ~is_fail
    BY <1>1, <2>1 DEF Item, Protocol
  <2>3. Len(accepted) - Len(executed) < 2
    BY <1>0, <2>1 DEF ExecutedInOrder, InFlight, Waiting
  <2>4. QED
    BY <2>1, <2>2, <2>3 DEF Queue!Next, Queue!Accept, Queue!Backlog
<1>2. CASE WorkerExecuted
  <2>1. /\ is_busy /\ ~is_fail /\ tmp \notin Faulty
        /\ executed' = Append(executed, tmp)
        /\ UNCHANGED accepted
    BY <1>2 DEF WorkerExecuted, Protocol
  <2>2. tmp = accepted[Len(executed) + 1] /\ Len(accepted) - Len(executed) > 0
    BY <1>0, <2>1 DEF ExecutedInOrder, InFlight, Waiting
  <2>3. QED
    BY <2>1, <2>2 DEF Queue!Next, Queue!Execute, Queue!Backlog, Queue!Oldest
<1>3. CASE WorkerThrew
  BY <1>3 DEF WorkerThrew
<1>4. ASSUME NEW c \in Client,
             \/ BeginTake(c) \/ TakeBlocked(c) \/ TakeDropped(c) \/ HandoffBlocked(c)
             \/ HandoffDone(c) \/ TakeNotify(c)
             \/ BeginWait(c) \/ WaitBlocked(c) \/ WaitDone(c)
      PROVE  UNCHANGED <<accepted, executed>>
  BY <1>4 DEF BeginTake, TakeBlocked, TakeDropped, HandoffBlocked, HandoffDone,
              TakeNotify, BeginWait, WaitBlocked, WaitDone
<1>5. CASE BeginClose \/ CloseStop \/ CloseNotify \/ CloseJoin
  BY <1>5 DEF BeginClose, CloseStop, CloseNotify, CloseJoin
<1>6. CASE WorkerLoop \/ WorkerNotify
  BY <1>6 DEF WorkerLoop, WorkerNotify
<1>7. ASSUME NEW t \in Client \cup {Worker}, SpuriousWakeup(t)
      PROVE  UNCHANGED <<accepted, executed>>
  BY <1>7 DEF SpuriousWakeup
<1>8. CASE UNCHANGED vars
  BY <1>8 DEF vars
<1>9. QED
  BY <1>1, <1>2, <1>3, <1>4, <1>5, <1>6, <1>7, <1>8, NextCases

\* Every behaviour of the worker with its mutex and wakeups is one of the
\* abstract queue (its fairness, checked by TLC, apart).
THEOREM ThreadRefinesWorkQueue == Spec => Queue!Safety
<1>1. Init => Queue!Init
  BY DEF Init, Queue!Init
<1>2. Init => ExecutedInOrder
  BY DEF Init, ExecutedInOrder, InFlight, Waiting
<1>3. QED
  BY <1>1, <1>2, StepRefines, InitTypeInv, NextTypeInv, InitProtocol, NextProtocol,
     NextExecutedInOrder, PTL DEF Spec, Safety, Queue!Safety
=============================================================================
