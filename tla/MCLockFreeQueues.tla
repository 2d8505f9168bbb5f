-------------------------- MODULE MCLockFreeQueues --------------------------
(* The two lock-free queues.  They share no state, so a behaviour runs the  *)
(* one or the other: the states to check are the sum of theirs.             *)
EXTENDS MpscQueue, SpscQueue

VARIABLE running    \* the queue this behaviour uses

vars == <<running, mpscVars, spscVars>>

Init == MpscInit /\ SpscInit /\ running \in {"mpsc", "spsc"}

Mpsc(Step) == running = "mpsc" /\ Step /\ UNCHANGED <<running, spscVars>>
Spsc(Step) == running = "spsc" /\ Step /\ UNCHANGED <<running, mpscVars>>

Next == Mpsc(MpscNext) \/ Spsc(SpscNext)

\* MpscFairSpec's fairness, in the behaviours that use that queue.
Fairness ==
    /\ \A p \in Producers : WF_vars(Mpsc(Link(p)))
    /\ WF_vars(Mpsc(ConsumerStep))

Spec == Init /\ [][Next]_vars /\ Fairness
=============================================================================
