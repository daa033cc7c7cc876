----------------------------- MODULE WorkQueue -----------------------------
(***************************************************************************)
(* What a Thread<T> (include/chia/Thread.h) and a ThreadPool<T, S, L>      *)
(* (include/chia/ThreadPool.h) promise to the code that uses them, without *)
(* mutexes, flags or condition variables: whatever is accepted leaves them *)
(* once, in the order of acceptance, and only so many inputs are held at a *)
(* time.  An input whose execution throws never leaves, and neither does   *)
(* what was accepted after it.                                             *)
(***************************************************************************)
EXTENDS Naturals, Sequences

CONSTANTS
    Work,       \* the inputs take() may be given
    Faulty,     \* the inputs on which execute() throws
    Capacity    \* how many inputs are held at most

VARIABLES
    accepted,   \* every input accepted so far, in order
    executed    \* every input that left, in order

vars == <<accepted, executed>>

Backlog == Len(accepted) - Len(executed)
Oldest == accepted[Len(executed) + 1]

Init == accepted = <<>> /\ executed = <<>>

Accept(x) ==
    /\ Backlog < Capacity
    /\ accepted' = Append(accepted, x)
    /\ UNCHANGED executed

Execute ==
    /\ Backlog > 0
    /\ Oldest \notin Faulty
    /\ executed' = Append(executed, Oldest)
    /\ UNCHANGED accepted

Next == (\E x \in Work : Accept(x)) \/ Execute

Safety == Init /\ [][Next]_vars

\* What can be executed is executed; nobody is obliged to give more work.
Spec == Safety /\ WF_vars(Execute)
=============================================================================
