----------------------------- MODULE ThreadPool -----------------------------
(***************************************************************************)
(* ThreadPool (thread_pool.H): workers around one task queue, callers that *)
(* submit tasks with and without back-pressure, a caller that waits for    *)
(* the pool to be idle, and the owner that retunes, resizes and stops it.  *)
(*                                                                         *)
(* All of it is behind one mutex, and nothing that a wait's predicate      *)
(* reads changes without it (but for active_tasks, see Finish), so a       *)
(* critical section is one step and so is "test the predicate and sleep".  *)
(* Notifications after the unlock are steps of their own.                  *)
(***************************************************************************)
EXTENDS Naturals, Sequences, FiniteSets, SequencesExt

CONSTANTS
    Workers,       \* the threads that the pool may start
    Callers,       \* threads that submit tasks
    Waiters,       \* threads that call wait_all_for
    Limits,        \* the pairs <<soft, hard>> given to set_queue_limits
    MaxCalls,      \* bound: submissions
    MaxControls,   \* bound: calls of set_queue_limits and resize
    RetunesBusy    \* set_queue_limits is also called while callers are blocked

ASSUME PoolAssumption ==
    /\ IsFiniteSet(Workers) /\ Workers # {}
    /\ IsFiniteSet(Callers)
    /\ Limits \subseteq (Nat \ {0}) \X (Nat \ {0}) /\ Limits # {}
    /\ MaxCalls \in Nat /\ MaxControls \in Nat
    /\ RetunesBusy \in BOOLEAN

VARIABLES
    tasks,       \* tasks, the queue
    stop,        \* stop
    active,      \* active_tasks
    limits,      \* <<soft_limit_, hard_limit_>>
    worker,      \* where each worker is
    caller,      \* where each caller is in its call
    calls,       \* how many calls have been made
    waiter,      \* where each waiter is
    owner,       \* where the owner is in shutdown or resize
    restart,     \* the workers that resize will start; none in shutdown
    controls,    \* how many calls of the bounded kind the owner has made
    accepted,    \* history: how many tasks were pushed; a task is its number
    begun        \* history: how many were begun

queue == <<tasks, accepted>>
submitters == <<caller, calls>>
ownership == <<owner, restart, controls>>
vars == <<queue, stop, active, limits, worker, submitters, waiter, ownership,
          begun>>

Soft == limits[1]
Hard == limits[2]
Idle == tasks = <<>> /\ active = 0

Init ==
    /\ tasks = <<>> /\ accepted = 0 /\ begun = 0
    /\ stop = FALSE
    /\ active = 0
    /\ limits \in Limits
    /\ \E W \in (SUBSET Workers) \ {{}} :
         worker = [w \in Workers |-> IF w \in W THEN "looping" ELSE "none"]
    /\ caller = [c \in Callers |-> "idle"]
    /\ calls = 0
    /\ waiter = [t \in Waiters |-> "idle"]
    /\ owner = "idle"
    /\ restart = {}
    /\ controls = 0

\* notify_all on a condition variable, by what its waiters then do.
Woken(threads) == [t \in DOMAIN threads |-> IF threads[t] = "waiting" THEN "woken" ELSE threads[t]]
Asleep(threads) == {t \in DOMAIN threads : threads[t] = "waiting"}

-----------------------------------------------------------------------------
(* worker_loop.                                                            *)

\* condition.wait, its predicate false.
Rest(w) ==
    /\ worker[w] \in {"looping", "woken"}
    /\ ~stop /\ tasks = <<>>
    /\ worker' = [worker EXCEPT ![w] = "waiting"]
    /\ UNCHANGED <<queue, stop, active, limits, submitters, waiter,
                   ownership, begun>>

\* Mutant: a stopped pool's workers leave at once.
ExitAtOnce(w) ==
    /\ worker[w] \in {"looping", "woken"}
    /\ stop
    /\ worker' = [worker EXCEPT ![w] = "exited"]
    /\ UNCHANGED <<queue, stop, active, limits, submitters, waiter,
                   ownership, begun>>

Exit(w) ==
    /\ worker[w] \in {"looping", "woken"}
    /\ stop /\ tasks = <<>>
    /\ worker' = [worker EXCEPT ![w] = "exited"]
    /\ UNCHANGED <<queue, stop, active, limits, submitters, waiter,
                   ownership, begun>>

\* Mutant: the size is compared after the pop.
TakeLate(w) ==
    /\ worker[w] \in {"looping", "woken"}
    /\ tasks # <<>>
    /\ tasks' = Tail(tasks)
    /\ active' = active + 1
    /\ begun' = begun + 1
    /\ worker' = [worker EXCEPT ![w] = IF Len(tasks') = Soft THEN "telling" ELSE "executing"]
    /\ UNCHANGED <<accepted, stop, limits, submitters, waiter, ownership>>

\* Mutant: the newest task is taken.
TakeNewest(w) ==
    /\ worker[w] \in {"looping", "woken"}
    /\ tasks # <<>>
    /\ tasks' = Front(tasks)
    /\ active' = active + 1
    /\ begun' = begun + 1
    /\ worker' = [worker EXCEPT ![w] = IF Len(tasks) = Soft THEN "telling" ELSE "executing"]
    /\ UNCHANGED <<accepted, stop, limits, submitters, waiter, ownership>>

\* The oldest task is taken.  Callers are told of the room it leaves if the
\* queue held as many tasks as the soft limit.
Take(w) ==
    /\ worker[w] \in {"looping", "woken"}
    /\ tasks # <<>>
    /\ tasks' = Tail(tasks)
    /\ active' = active + 1
    /\ begun' = begun + 1
    /\ worker' = [worker EXCEPT ![w] = IF Len(tasks) = Soft THEN "telling" ELSE "executing"]
    /\ UNCHANGED <<accepted, stop, limits, submitters, waiter, ownership>>

\* space_available.notify_all(), after the unlock.
TellSpace(w) ==
    /\ worker[w] = "telling"
    /\ caller' = Woken(caller)
    /\ worker' = [worker EXCEPT ![w] = "executing"]
    /\ UNCHANGED <<queue, stop, active, limits, calls, waiter,
                   ownership, begun>>

\* The task returns or throws into its future, and active_tasks goes down
\* without the lock.
Finish(w) ==
    /\ worker[w] = "executing"
    /\ active' = active - 1
    /\ worker' = [worker EXCEPT ![w] = "finished"]
    /\ UNCHANGED <<queue, stop, limits, submitters, waiter, ownership, begun>>

\* Mutant: the task is counted down a second time.
TellIdleCounting(w) ==
    /\ worker[w] = "finished"
    /\ active' = active - 1
    /\ waiter' = IF Idle THEN Woken(waiter) ELSE waiter
    /\ worker' = [worker EXCEPT ![w] = "looping"]
    /\ UNCHANGED <<queue, stop, limits, submitters, ownership, begun>>

\* Mutant: wait_all_for is told of a stopped pool only.
TellStopped(w) ==
    /\ worker[w] = "finished"
    /\ waiter' = IF Idle /\ stop THEN Woken(waiter) ELSE waiter
    /\ worker' = [worker EXCEPT ![w] = "looping"]
    /\ UNCHANGED <<queue, stop, active, limits, submitters, ownership, begun>>

\* Under the lock, the worker looks whether the pool is idle and tells so.
TellIdle(w) ==
    /\ worker[w] = "finished"
    /\ waiter' = IF Idle THEN Woken(waiter) ELSE waiter
    /\ worker' = [worker EXCEPT ![w] = "looping"]
    /\ UNCHANGED <<queue, stop, active, limits, submitters, ownership, begun>>

-----------------------------------------------------------------------------
(* Submitting.                                                             *)

\* Callers keep out of the way of resize, as its documentation demands.
MayCall(c) == caller[c] = "idle" /\ calls < MaxCalls /\ restart = {}

Count == calls' = calls + 1
Goto(c, label) == caller' = [caller EXCEPT ![c] = label]

\* n tasks are pushed.
Push(n) ==
    /\ tasks' = tasks \o [i \in 1 .. n |-> accepted + i]
    /\ accepted' = accepted + n

Others == <<stop, active, limits, worker, waiter, ownership, begun>>

\* enqueue, enqueue_detached and enqueue_batch, which throw once stopped.
Enqueue(c, n) ==
    /\ MayCall(c)
    /\ Count
    /\ \/ stop /\ UNCHANGED <<queue, caller>>
       \/ /\ ~stop
          /\ Push(n)
          /\ Goto(c, IF n = 1 THEN "notifying" ELSE "notifying all")
    /\ UNCHANGED Others

\* What follows the wait for space: throw, or push.
AfterSpace(c) ==
    \/ /\ stop \/ Len(tasks) >= Hard
       /\ Goto(c, "idle")
       /\ UNCHANGED queue
    \/ /\ ~stop /\ Len(tasks) < Hard
       /\ Push(1)
       /\ Goto(c, "notifying")

Space == stop \/ Len(tasks) < Soft

\* enqueue_bounded: at the hard limit it throws at once, at the soft limit it waits.
EnqueueBounded(c) ==
    /\ MayCall(c)
    /\ Count
    /\ \/ Len(tasks) >= Hard /\ UNCHANGED <<queue, caller>>
       \/ Len(tasks) < Hard /\ ~Space /\ Goto(c, "waiting") /\ UNCHANGED queue
       \/ Len(tasks) < Hard /\ Space /\ AfterSpace(c)
    /\ UNCHANGED Others

\* The waiting caller has been notified and looks again.
SpaceTest(c) ==
    /\ caller[c] = "woken"
    /\ UNCHANGED calls
    /\ \/ ~Space /\ Goto(c, "waiting") /\ UNCHANGED queue
       \/ Space /\ AfterSpace(c)
    /\ UNCHANGED Others

\* try_enqueue looks at the queue in one critical section ...
TryEnqueue(c) ==
    /\ MayCall(c)
    /\ Count
    /\ Goto(c, IF stop \/ Len(tasks) >= Soft THEN "idle" ELSE "trying")
    /\ UNCHANGED <<queue, Others>>

\* ... and pushes in another, where it is enqueue and knows no limit.
TryPush(c) ==
    /\ caller[c] = "trying"
    /\ UNCHANGED calls
    /\ \/ stop /\ Goto(c, "idle") /\ UNCHANGED queue
       \/ ~stop /\ Push(1) /\ Goto(c, "notifying")
    /\ UNCHANGED Others

\* Mutant: a push that finds the queue not empty notifies nobody.
NotifyFirstOnly(c) ==
    /\ caller[c] \in {"notifying", "notifying all"}
    /\ Goto(c, "idle")
    /\ \/ Len(tasks) > 1 /\ UNCHANGED worker
       \/ Len(tasks) <= 1 /\ worker' = Woken(worker)
    /\ UNCHANGED <<queue, stop, active, limits, calls, waiter, ownership, begun>>

\* condition.notify_one() or, for a batch, notify_all(), after the unlock.
Notify(c) ==
    /\ caller[c] \in {"notifying", "notifying all"}
    /\ Goto(c, "idle")
    /\ \/ caller[c] = "notifying all" /\ worker' = Woken(worker)
       \/ /\ caller[c] = "notifying"
          /\ \/ Asleep(worker) = {} /\ UNCHANGED worker
             \/ \E w \in Asleep(worker) : worker' = [worker EXCEPT ![w] = "woken"]
    /\ UNCHANGED <<queue, stop, active, limits, calls, waiter, ownership, begun>>

-----------------------------------------------------------------------------
(* wait_all_for.                                                           *)

\* Called or woken, it tests for an idle pool, and sleeps or returns.
WaitAll(t) ==
    /\ waiter[t] \in {"idle", "woken"}
    /\ waiter' = [waiter EXCEPT ![t] = IF Idle THEN "idle" ELSE "waiting"]
    /\ UNCHANGED <<queue, stop, active, limits, worker, submitters,
                   ownership, begun>>

TimeOut(t) ==
    /\ waiter[t] = "waiting"
    /\ waiter' = [waiter EXCEPT ![t] = "idle"]
    /\ UNCHANGED <<queue, stop, active, limits, worker, submitters,
                   ownership, begun>>

-----------------------------------------------------------------------------
(* The owner.                                                              *)

SetQueueLimits(l) ==
    /\ owner = "idle"
    /\ controls < MaxControls
    /\ RetunesBusy \/ \A c \in Callers : caller[c] \notin {"waiting", "woken"}
    /\ controls' = controls + 1
    /\ limits' = l
    /\ UNCHANGED <<queue, stop, active, worker, submitters, waiter,
                   owner, restart, begun>>

\* shutdown() and the destructor set the flag; again, nothing happens.
Shutdown ==
    /\ owner = "idle"
    /\ ~stop
    /\ stop' = TRUE
    /\ owner' = "stopping"
    /\ UNCHANGED <<queue, active, limits, worker, submitters, waiter,
                   restart, controls, begun>>

Started == {w \in Workers : worker[w] # "none"}

\* resize stops the pool in the same way to start it again with W.
Resize(W) ==
    /\ owner = "idle"
    /\ controls < MaxControls
    /\ Cardinality(W) # Cardinality(Started)
    /\ ~stop
    /\ \A c \in Callers : caller[c] = "idle"
    /\ controls' = controls + 1
    /\ restart' = W
    /\ stop' = TRUE
    /\ owner' = "stopping"
    /\ UNCHANGED <<queue, active, limits, worker, submitters, waiter, begun>>

\* Mutant: only one worker is told to stop.
StopOne ==
    /\ owner = "stopping"
    /\ owner' = "joining"
    /\ \/ Asleep(worker) = {} /\ UNCHANGED worker
       \/ \E w \in Asleep(worker) : worker' = [worker EXCEPT ![w] = "woken"]
    /\ UNCHANGED <<queue, stop, active, limits, submitters, waiter,
                   restart, controls, begun>>

\* condition.notify_all(), after the unlock.
StopAll ==
    /\ owner = "stopping"
    /\ owner' = "joining"
    /\ worker' = Woken(worker)
    /\ UNCHANGED <<queue, stop, active, limits, submitters, waiter,
                   restart, controls, begun>>

\* Every worker has been joined: shutdown returns, or resize starts the new ones.
Join ==
    /\ owner = "joining"
    /\ \A w \in Started : worker[w] = "exited"
    /\ \/ /\ restart = {}
          /\ owner' = "down"
          /\ worker' = [w \in Workers |-> "none"]
          /\ UNCHANGED <<stop, restart>>
       \/ /\ restart # {}
          /\ owner' = "idle"
          /\ worker' = [w \in Workers |-> IF w \in restart THEN "looping" ELSE "none"]
          /\ stop' = FALSE
          /\ restart' = {}
    /\ UNCHANGED <<queue, active, limits, submitters, waiter, controls, begun>>

-----------------------------------------------------------------------------
\* A condition variable may wake a waiter that nobody notified.
SpuriousWake ==
    /\ UNCHANGED <<queue, stop, active, limits, calls, ownership, begun>>
    /\ \/ /\ \E w \in Asleep(worker) : worker' = [worker EXCEPT ![w] = "woken"]
          /\ UNCHANGED <<caller, waiter>>
       \/ /\ \E c \in Asleep(caller) : caller' = [caller EXCEPT ![c] = "woken"]
          /\ UNCHANGED <<worker, waiter>>
       \/ /\ \E t \in Asleep(waiter) : waiter' = [waiter EXCEPT ![t] = "woken"]
          /\ UNCHANGED <<worker, caller>>

-----------------------------------------------------------------------------
WorkerStep(w) ==
    \/ Rest(w) \/ Exit(w) \/ Take(w) \/ TellSpace(w) \/ Finish(w) \/ TellIdle(w)
CallerStep(c) == SpaceTest(c) \/ TryPush(c) \/ Notify(c)
OwnerStep == StopAll \/ Join

Next ==
    \/ \E w \in Workers : WorkerStep(w)
    \/ \E c \in Callers :
         \/ \E n \in {1, 2} : Enqueue(c, n)
         \/ EnqueueBounded(c) \/ TryEnqueue(c) \/ CallerStep(c)
    \/ \E t \in Waiters : WaitAll(t) \/ TimeOut(t)
    \/ \E l \in Limits : SetQueueLimits(l)
    \/ Shutdown
    \/ \E W \in (SUBSET Workers) \ {{}} : Resize(W)
    \/ OwnerStep
    \/ SpuriousWake

Spec == Init /\ [][Next]_vars

\* A thread that can run does: tasks end, and the mutex is nobody's for long.
Fairness ==
    /\ \A w \in Workers : WF_vars(WorkerStep(w))
    /\ \A c \in Callers : WF_vars(CallerStep(c))
    /\ WF_vars(OwnerStep)

FairSpec == Spec /\ Fairness

-----------------------------------------------------------------------------
(* Properties.                                                             *)

TypeOK ==
    /\ tasks \in Seq(Nat) /\ accepted \in Nat /\ begun \in Nat
    /\ stop \in BOOLEAN
    /\ active \in 0 .. Cardinality(Workers)
    /\ limits \in Limits
    /\ worker \in [Workers -> {"none", "looping", "waiting", "woken", "telling",
                               "executing", "finished", "exited"}]
    /\ caller \in [Callers -> {"idle", "waiting", "woken", "trying", "notifying",
                               "notifying all"}]
    /\ calls \in 0 .. MaxCalls
    /\ waiter \in [Waiters -> {"idle", "waiting", "woken"}]
    /\ owner \in {"idle", "stopping", "joining", "down"}
    /\ restart \subseteq Workers
    /\ controls \in 0 .. MaxControls

\* Every task that a submission accepted is begun exactly once and in the
\* order of submission, across stops and resizes.
FifoExecution == tasks = [i \in 1 .. accepted - begun |-> begun + i]

\* When shutdown() returns, every task ever accepted has been executed to its end.
ShutdownCompletes == owner = "down" => tasks = <<>> /\ active = 0

\* No notification of a task is lost: while workers sleep, every queued task
\* has a worker already woken or a caller about to notify one.
WorkerWakeups ==
    /\ Asleep(worker) # {}
    /\ \A c \in Callers : caller[c] # "notifying all"
    => Len(tasks) <= Cardinality({w \in Workers : worker[w] = "woken"})
                       + Cardinality({c \in Callers : caller[c] = "notifying"})

\* Nobody waits for space that is there: a caller blocked in enqueue_bounded
\* while the queue is below the soft limit is about to be told by a worker.
SpaceWakeups ==
    Asleep(caller) # {} /\ Len(tasks) < Soft =>
        \E w \in Workers : worker[w] = "telling"

\* Nobody waits for a pool that is idle already: a worker is about to look.
IdleWakeups ==
    Asleep(waiter) # {} /\ Idle => \E w \in Workers : worker[w] = "finished"

\* "If pending_tasks() >= soft_limit: blocks until space available": a caller
\* blocked in enqueue_bounded gets out of it.
BlockedReturn == \A c \in Callers : caller[c] = "waiting" ~> caller[c] = "idle"

\* shutdown() and resize() come to an end.
StopsReturn == owner = "stopping" ~> owner \in {"idle", "down"}
=============================================================================
