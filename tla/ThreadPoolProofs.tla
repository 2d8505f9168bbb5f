-------------------------- MODULE ThreadPoolProofs --------------------------
(***************************************************************************)
(* What ThreadPool guarantees for any number of workers, callers, waiters, *)
(* limits and calls: tasks are begun once and in order, shutdown() returns *)
(* after the last of them, and no wake-up of its three condition variables *)
(* is lost.                                                                *)
(***************************************************************************)
EXTENDS ThreadPool, CountingLemmas, SequenceTheorems

WorkerLabels == {"none", "looping", "waiting", "woken", "telling", "executing",
                 "finished", "exited"}
CallerLabels == {"idle", "waiting", "woken", "trying", "notifying", "notifying all"}
WaiterLabels == {"idle", "waiting", "woken"}

\* The workers that have begun a task and not counted it down.
Executing == {w \in Workers : worker[w] \in {"telling", "executing"}}

ActiveCounts == active = Cardinality(Executing)

\* TypeOK but for stop, whose type gets steps of its own (a Boolean among
\* other values is beyond the SMT solver).
DataTypes ==
    /\ tasks \in Seq(Nat) /\ accepted \in Nat /\ begun \in Nat
    /\ active = Cardinality(Executing)
    /\ limits \in Limits
    /\ worker \in [Workers -> WorkerLabels]
    /\ caller \in [Callers -> CallerLabels]
    /\ calls \in 0 .. MaxCalls
    /\ waiter \in [Waiters -> WaiterLabels]
    /\ owner \in {"idle", "stopping", "joining", "down"}
    /\ restart \subseteq Workers
    /\ controls \in 0 .. MaxControls

StopType == stop \in BOOLEAN

TypeInv == DataTypes /\ StopType

USE DEF Goto, Count

LEMMA PoolConstants ==
  /\ IsFiniteSet(Workers) /\ Workers # {}
  /\ IsFiniteSet(Callers)
  /\ MaxCalls \in Nat /\ MaxControls \in Nat
  BY PoolAssumption, Zenon

-----------------------------------------------------------------------------
(* Types.                                                                  *)

LEMMA WokenType ==
  ASSUME NEW S, NEW L, "woken" \in L, NEW f \in [S -> L]
  PROVE  /\ Woken(f) \in [S -> L]
         /\ \A t \in S : Woken(f)[t] = IF f[t] = "waiting" THEN "woken" ELSE f[t]
  BY DEF Woken

LEMMA WokenWorkers ==
  ASSUME worker \in [Workers -> WorkerLabels]
  PROVE  /\ Woken(worker) \in [Workers -> WorkerLabels]
         /\ \A w \in Workers :
               Woken(worker)[w] = IF worker[w] = "waiting" THEN "woken" ELSE worker[w]
  BY DEF Woken, WorkerLabels

LEMMA ExecutingFinite == IsFiniteSet(Executing) /\ IsFiniteSet(Executing')
  <1>1. Executing \subseteq Workers /\ Executing' \subseteq Workers
    BY DEF Executing
  <1> QED BY <1>1, PoolConstants, FS_Subset

\* n pushed tasks are numbered from the last one on.
LEMMA PushType ==
  ASSUME tasks \in Seq(Nat), accepted \in Nat, NEW n \in Nat, Push(n)
  PROVE  /\ tasks' \in Seq(Nat) /\ accepted' \in Nat
         /\ accepted' = accepted + n
         /\ Len(tasks') = Len(tasks) + n
         /\ \A i \in 1 .. Len(tasks) + n :
               tasks'[i] = IF i <= Len(tasks) THEN tasks[i]
                                              ELSE accepted + (i - Len(tasks))
  <1> DEFINE new == [i \in 1 .. n |-> accepted + i]
  <1>1. new \in Seq(Nat) /\ Len(new) = n
    OBVIOUS
  <1>2. tasks' = tasks \o new /\ accepted' = accepted + n
    BY DEF Push
  <1>3. \A i \in 1 .. n : new[i] = accepted + i
    OBVIOUS
  <1> HIDE DEF new
  <1>4. /\ tasks \o new \in Seq(Nat)
        /\ Len(tasks \o new) = Len(tasks) + Len(new)
        /\ \A i \in 1 .. Len(tasks) + Len(new) : (tasks \o new)[i] =
              IF i <= Len(tasks) THEN tasks[i] ELSE new[i - Len(tasks)]
    BY <1>1, ConcatProperties
  <1>5. \A i \in 1 .. Len(tasks) + n : i > Len(tasks) => i - Len(tasks) \in 1 .. n
    BY LenProperties
  <1> QED BY <1>1, <1>2, <1>3, <1>4, <1>5

LEMMA InitTypes == Init => TypeInv
  <1> SUFFICES ASSUME Init PROVE TypeInv
    OBVIOUS
  <1>1. PICK W \in (SUBSET Workers) \ {{}} :
           worker = [w \in Workers |-> IF w \in W THEN "looping" ELSE "none"]
    BY DEF Init
  <1>2. Executing = {}
    BY <1>1 DEF Executing
  <1>3. active = Cardinality(Executing)
    BY <1>2, FS_EmptySet DEF Init
  <1>4. worker \in [Workers -> WorkerLabels]
    BY <1>1 DEF WorkerLabels
  <1>5. /\ caller \in [Callers -> CallerLabels]
        /\ waiter \in [Waiters -> WaiterLabels]
    BY DEF Init, CallerLabels, WaiterLabels
  <1>6. DataTypes
    BY <1>3, <1>4, <1>5, PoolConstants DEF Init, DataTypes
  <1>7. StopType
    BY DEF Init, StopType
  <1> QED BY <1>6, <1>7 DEF TypeInv

LEMMA TypesImplyTypeOK == TypeInv => TypeOK
  <1> SUFFICES ASSUME TypeInv PROVE TypeOK
    OBVIOUS
  <1>1. Cardinality(Executing) \in 0 .. Cardinality(Workers)
    <2>1. Executing \subseteq Workers
      BY DEF Executing
    <2> QED BY <2>1, PoolConstants, CardSub
  <1>2. active \in 0 .. Cardinality(Workers)
    BY <1>1 DEF TypeInv, DataTypes
  <1> QED
    BY <1>2, Zenon
    DEF TypeInv, TypeOK, DataTypes, StopType, WorkerLabels, CallerLabels, WaiterLabels

\* A worker's own step: it goes to one label, and the callers or waiters may
\* be woken.
LEMMA WorkerTypes ==
  ASSUME DataTypes, NEW w \in Workers, WorkerStep(w)
  PROVE  DataTypes'
  <1> USE DEF DataTypes, WorkerLabels
  <1>f. /\ IsFiniteSet(Executing) /\ IsFiniteSet(Executing')
        /\ Cardinality(Executing) \in Nat /\ Cardinality(Executing') \in Nat
    BY ExecutingFinite, FS_CardinalityType
  <1>1. CASE Rest(w) \/ Exit(w)
    <2>1. Executing' = Executing
      BY <1>1 DEF Rest, Exit, Executing
    <2> QED BY <1>1, <2>1 DEF Rest, Exit, queue, submitters, ownership
  <1>2. CASE Take(w)
    <2>1. Executing' = Executing \cup {w} /\ w \notin Executing
      BY <1>2 DEF Take, Executing
    <2>2. active' = Cardinality(Executing')
      BY <1>2, <1>f, <2>1, FS_AddElement DEF Take
    <2>3. tasks' \in Seq(Nat)
      BY <1>2, HeadTailProperties DEF Take
    <2>4. worker' \in [Workers -> WorkerLabels]
      BY <1>2 DEF Take
    <2> QED BY <1>2, <2>2, <2>3, <2>4 DEF Take, submitters, ownership
  <1>3. CASE TellSpace(w)
    <2>1. Executing' = Executing
      BY <1>3 DEF TellSpace, Executing
    <2>2. caller' \in [Callers -> CallerLabels]
      BY <1>3, WokenType DEF TellSpace, CallerLabels
    <2> QED BY <1>3, <2>1, <2>2 DEF TellSpace, queue, ownership
  <1>4. CASE Finish(w)
    <2>1. Executing' = Executing \ {w} /\ w \in Executing
      BY <1>4 DEF Finish, Executing
    <2>2. active' = Cardinality(Executing')
      BY <1>4, <1>f, <2>1, FS_RemoveElement DEF Finish
    <2> QED BY <1>4, <2>2 DEF Finish, queue, submitters, ownership
  <1>5. CASE TellIdle(w)
    <2>1. Executing' = Executing
      BY <1>5 DEF TellIdle, Executing
    <2>2. waiter' \in [Waiters -> WaiterLabels]
      BY <1>5, WokenType DEF TellIdle, WaiterLabels
    <2> QED BY <1>5, <2>1, <2>2 DEF TellIdle, queue, submitters, ownership
  <1> QED BY <1>1, <1>2, <1>3, <1>4, <1>5 DEF WorkerStep

\* What the callers' steps have in common: n tasks (or none) are pushed while
\* the pool is not stopped, and the caller goes to the label that owes the
\* workers their notification.
Submits(c, n, label) ==
    /\ ~stop
    /\ Push(n)
    /\ caller' = [caller EXCEPT ![c] = label]

Refrains(c) ==
    /\ UNCHANGED queue
    /\ \/ UNCHANGED caller
       \/ /\ caller[c] \in {"idle", "woken", "trying"}
          /\ \E label \in {"idle", "waiting", "trying"} :
                /\ caller' = [caller EXCEPT ![c] = label]
                /\ label = "waiting" => ~(Len(tasks) < Soft)

Counts(c) ==
    /\ calls' \in {calls, calls + 1} /\ calls' \in 0 .. MaxCalls
    /\ caller[c] \in {"idle", "woken", "trying"}

Effect(c) ==
    \/ Refrains(c)
    \/ Submits(c, 1, "notifying")
    \/ Submits(c, 2, "notifying all")

Submission(c) == Counts(c) /\ Effect(c) /\ UNCHANGED Others

Submitting(c) ==
    \/ \E n \in {1, 2} : Enqueue(c, n)
    \/ EnqueueBounded(c) \/ TryEnqueue(c) \/ SpaceTest(c) \/ TryPush(c)

LEMMA CallersSubmit ==
  ASSUME DataTypes, NEW c \in Callers, Submitting(c)
  PROVE  Submission(c)
  <1>1. ASSUME NEW n \in {1, 2}, Enqueue(c, n)
        PROVE  Submission(c)
    <2>1. Counts(c)
      <3>1. MayCall(c) /\ calls' = calls + 1
        BY <1>1, Zenon DEF Enqueue, Count
      <3> QED BY <3>1, PoolConstants DEF MayCall, Counts, DataTypes
    <2>2. Effect(c)
      BY <1>1 DEF Enqueue, MayCall, Effect, Refrains, Submits
    <2> QED BY <1>1, <2>1, <2>2 DEF Enqueue, Submission
  <1>2. CASE EnqueueBounded(c)
    <2>1. Counts(c)
      BY <1>2, PoolConstants DEF EnqueueBounded, MayCall, Counts, DataTypes
    <2>2. Effect(c)
      BY <1>2 DEF EnqueueBounded, MayCall, AfterSpace, Space, Effect, Refrains, Submits
    <2> QED BY <1>2, <2>1, <2>2 DEF EnqueueBounded, Submission
  <1>3. CASE TryEnqueue(c)
    <2>1. Counts(c)
      BY <1>3, PoolConstants DEF TryEnqueue, MayCall, Counts, DataTypes
    <2>2. Effect(c)
      BY <1>3 DEF TryEnqueue, MayCall, Effect, Refrains, queue
    <2> QED BY <1>3, <2>1, <2>2 DEF TryEnqueue, Submission
  <1>4. CASE SpaceTest(c)
    <2>1. Counts(c)
      BY <1>4, PoolConstants DEF SpaceTest, Counts, DataTypes
    <2>2. Effect(c)
      BY <1>4 DEF SpaceTest, AfterSpace, Space, Effect, Refrains, Submits
    <2> QED BY <1>4, <2>1, <2>2 DEF SpaceTest, Submission
  <1>5. CASE TryPush(c)
    <2>1. Counts(c)
      BY <1>5, PoolConstants DEF TryPush, Counts, DataTypes
    <2>2. Effect(c)
      BY <1>5 DEF TryPush, Effect, Refrains, Submits
    <2> QED BY <1>5, <2>1, <2>2 DEF TryPush, Submission
  <1> QED BY <1>1, <1>2, <1>3, <1>4, <1>5 DEF Submitting

LEMMA SubmissionTypes ==
  ASSUME DataTypes, NEW c \in Callers, Submission(c)
  PROVE  DataTypes'
  <1> USE DEF DataTypes, CallerLabels
  <1>1. Executing' = Executing
    BY DEF Submission, Others, Executing
  <1>2. calls' \in 0 .. MaxCalls
    BY DEF Submission, Counts
  <1>3. /\ tasks' \in Seq(Nat) /\ accepted' \in Nat
        /\ caller' \in [Callers -> CallerLabels]
    <2>1. CASE Refrains(c)
      BY <2>1 DEF Refrains, queue
    <2>2. CASE Submits(c, 1, "notifying")
      BY <2>2, PushType DEF Submits
    <2>3. CASE Submits(c, 2, "notifying all")
      BY <2>3, PushType DEF Submits
    <2> QED BY <2>1, <2>2, <2>3 DEF Submission, Effect
  <1> QED BY <1>1, <1>2, <1>3 DEF Submission, Others, ownership

LEMMA NotifyTypes ==
  ASSUME DataTypes, NEW c \in Callers, Notify(c)
  PROVE  DataTypes' /\ Executing' = Executing
  <1> USE DEF DataTypes, CallerLabels, WorkerLabels
  <1>1. CASE caller[c] = "notifying all" /\ worker' = Woken(worker)
    <2>1. /\ worker' \in [Workers -> WorkerLabels]
          /\ \A w \in Workers :
                worker'[w] = IF worker[w] = "waiting" THEN "woken" ELSE worker[w]
      BY <1>1, WokenWorkers
    <2>2. Executing' = Executing
      BY <2>1 DEF Executing
    <2> QED BY <2>1, <2>2 DEF Notify, queue, ownership
  <1>2. CASE UNCHANGED worker
    BY <1>2 DEF Notify, queue, ownership, Executing
  <1>3. CASE \E w \in Asleep(worker) : worker' = [worker EXCEPT ![w] = "woken"]
    <2>1. PICK w \in Workers : /\ worker[w] = "waiting"
                               /\ worker' = [worker EXCEPT ![w] = "woken"]
      BY <1>3 DEF Asleep
    <2>2. Executing' = Executing
      BY <2>1 DEF Executing
    <2> QED BY <2>1, <2>2 DEF Notify, queue, ownership
  <1> QED BY <1>1, <1>2, <1>3 DEF Notify

LEMMA OwnerTypes ==
  ASSUME DataTypes, StopAll \/ Join
  PROVE  DataTypes' /\ Executing' = Executing
  <1> USE DEF DataTypes, WorkerLabels
  <1>1. CASE StopAll
    <2>1. /\ worker' \in [Workers -> WorkerLabels]
          /\ \A w \in Workers :
                worker'[w] = IF worker[w] = "waiting" THEN "woken" ELSE worker[w]
      BY <1>1, WokenWorkers DEF StopAll
    <2>2. Executing' = Executing
      BY <2>1 DEF Executing
    <2> QED BY <1>1, <2>1, <2>2 DEF StopAll, queue, submitters
  <1>2. CASE Join
    <2>1. Executing = {}
      BY <1>2 DEF Join, Started, Executing
    <2>2. worker' \in [Workers -> {"none", "looping"}]
      BY <1>2 DEF Join
    <2>3. Executing' = {}
      BY <2>2 DEF Executing
    <2>4. owner' \in {"idle", "down"} /\ restart' = {}
      BY <1>2 DEF Join
    <2> QED BY <1>2, <2>1, <2>2, <2>3, <2>4 DEF Join, queue, submitters
  <1> QED BY <1>1, <1>2

LEMMA WaiterTypes ==
  ASSUME DataTypes, NEW t \in Waiters, WaitAll(t) \/ TimeOut(t)
  PROVE  DataTypes' /\ Executing' = Executing
  <1>1. Executing' = Executing
    BY DEF WaitAll, TimeOut, Executing
  <1>2. waiter' \in [Waiters -> WaiterLabels]
    BY DEF WaitAll, TimeOut, DataTypes, WaiterLabels
  <1>3. UNCHANGED <<queue, active, limits, worker, submitters, ownership, begun>>
    BY DEF WaitAll, TimeOut
  <1> QED BY <1>1, <1>2, <1>3 DEF DataTypes, queue, submitters, ownership

LEMMA ControlTypes ==
  ASSUME DataTypes,
         \/ \E l \in Limits : SetQueueLimits(l)
         \/ Shutdown
         \/ \E W \in (SUBSET Workers) \ {{}} : Resize(W)
  PROVE  DataTypes' /\ Executing' = Executing
  <1> USE PoolConstants DEF DataTypes, queue, submitters
  <1>1. ASSUME NEW l \in Limits, SetQueueLimits(l)
        PROVE  DataTypes' /\ Executing' = Executing
    BY <1>1 DEF SetQueueLimits, Executing
  <1>2. CASE Shutdown
    BY <1>2 DEF Shutdown, Executing
  <1>3. ASSUME NEW W \in (SUBSET Workers) \ {{}}, Resize(W)
        PROVE  DataTypes' /\ Executing' = Executing
    <2>1. /\ controls < MaxControls /\ controls' = controls + 1
          /\ restart' = W /\ owner' = "stopping"
          /\ UNCHANGED <<queue, active, limits, worker, submitters, waiter, begun>>
      BY <1>3, Zenon DEF Resize
    <2> QED BY <2>1 DEF Executing
  <1> QED BY <1>1, <1>2, <1>3

LEMMA SpuriousTypes ==
  ASSUME DataTypes, SpuriousWake
  PROVE  DataTypes' /\ Executing' = Executing
  <1> USE DEF DataTypes, WorkerLabels, CallerLabels, WaiterLabels, Asleep
  <1>1. CASE /\ \E w \in Asleep(worker) : worker' = [worker EXCEPT ![w] = "woken"]
             /\ UNCHANGED <<caller, waiter>>
    BY <1>1 DEF SpuriousWake, queue, ownership, Executing
  <1>2. CASE /\ \E c \in Asleep(caller) : caller' = [caller EXCEPT ![c] = "woken"]
             /\ UNCHANGED <<worker, waiter>>
    BY <1>2 DEF SpuriousWake, queue, ownership, Executing
  <1>3. CASE /\ \E t \in Asleep(waiter) : waiter' = [waiter EXCEPT ![t] = "woken"]
             /\ UNCHANGED <<worker, caller>>
    BY <1>3 DEF SpuriousWake, queue, ownership, Executing
  <1> QED BY <1>1, <1>2, <1>3 DEF SpuriousWake

Stops == Shutdown \/ \E W \in (SUBSET Workers) \ {{}} : Resize(W)

\* What becomes of the stop flag.
LEMMA StopSteps ==
  ASSUME [Next]_vars
  PROVE  \/ UNCHANGED stop
         \/ stop' = TRUE /\ Stops
         \/ stop' = FALSE /\ Join
  <1>1. ASSUME NEW w \in Workers, WorkerStep(w)
        PROVE  UNCHANGED stop
    BY <1>1 DEF WorkerStep, Rest, Exit, Take, TellSpace, Finish, TellIdle
  <1>2. ASSUME NEW c \in Callers,
               \/ \E n \in {1, 2} : Enqueue(c, n)
               \/ EnqueueBounded(c) \/ TryEnqueue(c) \/ CallerStep(c)
        PROVE  UNCHANGED stop
    BY <1>2 DEF Enqueue, EnqueueBounded, TryEnqueue, CallerStep, SpaceTest, TryPush,
                Notify, Others
  <1>3. ASSUME NEW t \in Waiters, WaitAll(t) \/ TimeOut(t)
        PROVE  UNCHANGED stop
    BY <1>3 DEF WaitAll, TimeOut
  <1>4. ASSUME NEW l \in Limits, SetQueueLimits(l)
        PROVE  UNCHANGED stop
    BY <1>4 DEF SetQueueLimits
  <1>5. CASE StopAll \/ SpuriousWake \/ UNCHANGED vars
    BY <1>5 DEF StopAll, SpuriousWake, vars
  <1>6. CASE Shutdown
    BY <1>6, Zenon DEF Shutdown, Stops
  <1>7. ASSUME NEW W \in (SUBSET Workers) \ {{}}, Resize(W)
        PROVE  stop' = TRUE
    BY <1>7, Zenon DEF Resize
  <1>8. CASE Join
    BY <1>8, Zenon DEF Join
  <1> QED
    BY <1>1, <1>2, <1>3, <1>4, <1>5, <1>6, <1>7, <1>8, Zenon DEF Next, OwnerStep, Stops

LEMMA NextTypes == TypeInv /\ [Next]_vars => TypeInv'
  <1> SUFFICES ASSUME TypeInv, [Next]_vars
               PROVE  TypeInv'
    OBVIOUS
  <1>1. DataTypes
    BY DEF TypeInv
  <1>2. StopType'
    BY StopSteps, Zenon DEF TypeInv, StopType
  <1> SUFFICES DataTypes'
    BY <1>2 DEF TypeInv
  <1>3. CASE UNCHANGED vars
    <2>1. UNCHANGED <<tasks, accepted, active, limits, worker, caller, calls,
                      waiter, owner, restart, controls, begun>>
      BY <1>3 DEF vars, queue, submitters, ownership
    <2>2. Executing' = Executing
      BY <2>1 DEF Executing
    <2> QED BY <1>1, <2>1, <2>2 DEF DataTypes
  <1>4. ASSUME NEW w \in Workers, WorkerStep(w)
        PROVE  DataTypes'
    BY <1>1, <1>4, WorkerTypes
  <1>5. ASSUME NEW c \in Callers, Submitting(c) \/ Notify(c)
        PROVE  DataTypes'
    BY <1>1, <1>5, CallersSubmit, SubmissionTypes, NotifyTypes
  <1>6. ASSUME NEW t \in Waiters, WaitAll(t) \/ TimeOut(t)
        PROVE  DataTypes'
    BY <1>1, <1>6, WaiterTypes
  <1>7. CASE \/ \E l \in Limits : SetQueueLimits(l)
             \/ Shutdown
             \/ \E W \in (SUBSET Workers) \ {{}} : Resize(W)
    BY <1>1, <1>7, ControlTypes
  <1>8. CASE OwnerStep \/ SpuriousWake
    BY <1>1, <1>8, OwnerTypes, SpuriousTypes DEF OwnerStep
  <1> QED
    BY <1>3, <1>4, <1>5, <1>6, <1>7, <1>8, Zenon DEF Next, CallerStep, Submitting

\* Every variable keeps its type; active_tasks, which goes down without the
\* lock, never leaves the range from 0 to the number of workers.
THEOREM TypeCorrect == Spec => []TypeOK
  <1>1. Spec => []TypeInv
    BY InitTypes, NextTypes, PTL DEF Spec
  <1> QED BY <1>1, TypesImplyTypeOK, PTL

-----------------------------------------------------------------------------
(* The order of execution.                                                 *)

\* FifoExecution by the elements of the queue, which is how a step changes it.
Queued ==
    /\ Len(tasks) = accepted - begun
    /\ \A i \in 1 .. Len(tasks) : tasks[i] = begun + i

LEMMA QueuedIsFifo ==
  ASSUME TypeInv, Queued
  PROVE  FifoExecution
  <1>1. /\ tasks \in Seq(Nat) /\ Len(tasks) \in Nat
        /\ tasks \in [1 .. Len(tasks) -> Nat]
    BY LenProperties DEF TypeInv, DataTypes
  <1> QED BY <1>1 DEF Queued, FifoExecution

\* The steps that neither push nor take a task.
LEMMA QueueSteps ==
  ASSUME TypeInv, [Next]_vars
  PROVE  \/ UNCHANGED <<tasks, accepted, begun>>
         \/ \E w \in Workers : Take(w)
         \/ \E c \in Callers, n \in {1, 2} :
               /\ Push(n) /\ ~stop /\ UNCHANGED <<begun, worker>>
               /\ caller' = [caller EXCEPT ![c] = IF n = 1 THEN "notifying"
                                                          ELSE "notifying all"]
               /\ caller[c] \in {"idle", "woken", "trying"}
  <1>1. ASSUME NEW w \in Workers, WorkerStep(w), ~Take(w)
        PROVE  UNCHANGED <<tasks, accepted, begun>>
    BY <1>1 DEF WorkerStep, Rest, Exit, TellSpace, Finish, TellIdle, queue
  <1>2. ASSUME NEW c \in Callers, Submitting(c)
        PROVE  \/ UNCHANGED <<tasks, accepted, begun>>
               \/ \E n \in {1, 2} :
                    /\ Push(n) /\ ~stop /\ UNCHANGED <<begun, worker>>
                    /\ caller' = [caller EXCEPT ![c] = IF n = 1 THEN "notifying"
                                                               ELSE "notifying all"]
                    /\ caller[c] \in {"idle", "woken", "trying"}
    <2>1. Submission(c)
      BY <1>2, CallersSubmit DEF TypeInv
    <2>2. UNCHANGED <<begun, worker>> /\ caller[c] \in {"idle", "woken", "trying"}
      BY <2>1 DEF Submission, Others, Counts
    <2>3. CASE Refrains(c)
      BY <2>2, <2>3 DEF Refrains, queue
    <2>4. CASE Submits(c, 1, "notifying")
      BY <2>2, <2>4 DEF Submits
    <2>5. CASE Submits(c, 2, "notifying all")
      <3>1. (IF 2 = 1 THEN "notifying" ELSE "notifying all") = "notifying all"
        OBVIOUS
      <3> QED BY <2>2, <2>5, <3>1, Zenon DEF Submits
    <2> QED BY <2>1, <2>3, <2>4, <2>5 DEF Submission, Effect
  <1>3. ASSUME NEW c \in Callers, Notify(c)
        PROVE  UNCHANGED <<tasks, accepted, begun>>
    BY <1>3 DEF Notify, queue
  <1>4. ASSUME NEW t \in Waiters, WaitAll(t) \/ TimeOut(t)
        PROVE  UNCHANGED <<tasks, accepted, begun>>
    BY <1>4 DEF WaitAll, TimeOut, queue
  <1>5. ASSUME NEW l \in Limits, SetQueueLimits(l)
        PROVE  UNCHANGED <<tasks, accepted, begun>>
    BY <1>5 DEF SetQueueLimits, queue
  <1>6. ASSUME NEW W \in (SUBSET Workers) \ {{}}, Resize(W)
        PROVE  UNCHANGED <<tasks, accepted, begun>>
    BY <1>6 DEF Resize, queue
  <1>7. Shutdown \/ OwnerStep \/ SpuriousWake \/ UNCHANGED vars
        => UNCHANGED <<tasks, accepted, begun>>
    BY DEF Shutdown, OwnerStep, StopAll, Join, SpuriousWake, vars, queue
  <1> QED
    BY <1>1, <1>2, <1>3, <1>4, <1>5, <1>6, <1>7, Zenon
    DEF Next, CallerStep, Submitting

LEMMA NextQueued ==
  ASSUME TypeInv, Queued, [Next]_vars
  PROVE  Queued'
  <1>1. tasks \in Seq(Nat) /\ Len(tasks) \in Nat /\ accepted \in Nat /\ begun \in Nat
    BY LenProperties DEF TypeInv, DataTypes
  <1>2. CASE UNCHANGED <<tasks, accepted, begun>>
    BY <1>2 DEF Queued
  <1>3. ASSUME NEW w \in Workers, Take(w)
        PROVE  Queued'
    <2>1. /\ tasks # <<>> /\ tasks' = Tail(tasks)
          /\ begun' = begun + 1 /\ accepted' = accepted
      BY <1>3 DEF Take
    <2>2. /\ Len(tasks') = Len(tasks) - 1
          /\ \A i \in 1 .. Len(tasks') : tasks'[i] = tasks[i + 1]
      BY <1>1, <2>1, HeadTailProperties
    <2>3. \A i \in 1 .. Len(tasks') : i + 1 \in 1 .. Len(tasks)
      BY <1>1, <2>2
    <2> QED BY <1>1, <2>1, <2>2, <2>3 DEF Queued
  <1>4. ASSUME NEW n \in {1, 2}, Push(n), UNCHANGED begun
        PROVE  Queued'
    <2>1. /\ accepted' = accepted + n
          /\ Len(tasks') = Len(tasks) + n
          /\ \A i \in 1 .. Len(tasks) + n :
                tasks'[i] = IF i <= Len(tasks) THEN tasks[i]
                                               ELSE accepted + (i - Len(tasks))
      BY <1>1, <1>4, PushType
    <2>2. accepted = begun + Len(tasks)
      BY <1>1 DEF Queued
    <2> QED BY <1>1, <1>4, <2>1, <2>2 DEF Queued
  <1> QED BY <1>2, <1>3, <1>4, QueueSteps, Zenon

\* Tasks are begun once each and in the order of their submission, for any
\* number of workers and across every stop and resize.
THEOREM TasksInOrder == Spec => []FifoExecution
  <1>1. Init => Queued
    BY DEF Init, Queued
  <1>2. Spec => [](TypeInv /\ Queued)
    BY <1>1, InitTypes, NextTypes, NextQueued, PTL DEF Spec
  <1> QED BY <1>2, QueuedIsFifo, PTL

-----------------------------------------------------------------------------
(* Stopping.                                                               *)

\* The pool is stopped exactly while the owner is in shutdown or resize, or
\* has shut it down; a worker that has left, left an empty queue behind; and
\* the pool has threads until it is down, when it has none.
StopPhase == stop <=> owner # "idle"
ExitsEmpty ==
    \A w \in Workers : worker[w] = "exited" => owner # "idle" /\ tasks = <<>>
HasThreads ==
    /\ owner # "down" => \E w \in Workers : worker[w] # "none"
    /\ owner = "down" => \A w \in Workers : worker[w] = "none"

PhaseInv == StopPhase /\ ExitsEmpty /\ HasThreads /\ ShutdownCompletes

\* A step that is not a worker's own and not the join at most wakes workers.
WorkersWoken ==
    \A w \in Workers : \/ worker'[w] = worker[w]
                       \/ worker[w] = "waiting" /\ worker'[w] = "woken"

LEMMA OtherSteps ==
  ASSUME TypeInv, [Next]_vars, ~ \E w \in Workers : WorkerStep(w), ~Join
  PROVE  /\ WorkersWoken /\ UNCHANGED active
         /\ \/ UNCHANGED owner
            \/ owner = "idle" /\ owner' = "stopping" /\ Stops
            \/ owner = "stopping" /\ owner' = "joining"
  <1> DEFINE Still == UNCHANGED <<worker, owner, active>>
  <1>t. worker \in [Workers -> WorkerLabels]
    BY DEF TypeInv, DataTypes
  <1>0. Still => WorkersWoken
    BY DEF WorkersWoken
  <1>1. ASSUME NEW c \in Callers, Submitting(c)
        PROVE  Still
    BY <1>1, CallersSubmit DEF TypeInv, Submission, Others, ownership
  <1>2. ASSUME NEW c \in Callers, Notify(c)
        PROVE  WorkersWoken /\ UNCHANGED <<owner, active>>
    <2>1. UNCHANGED <<owner, active>>
      BY <1>2 DEF Notify, ownership
    <2>2. CASE worker' = Woken(worker)
      BY <1>t, <2>1, <2>2, WokenWorkers DEF WorkersWoken
    <2>3. CASE UNCHANGED worker
      BY <2>1, <2>3 DEF WorkersWoken
    <2>4. CASE \E w \in Asleep(worker) : worker' = [worker EXCEPT ![w] = "woken"]
      BY <1>t, <2>1, <2>4 DEF WorkersWoken, Asleep
    <2> QED BY <1>2, <2>2, <2>3, <2>4 DEF Notify
  <1>3. ASSUME NEW t \in Waiters, WaitAll(t) \/ TimeOut(t)
        PROVE  Still
    BY <1>3 DEF WaitAll, TimeOut, ownership
  <1>4. ASSUME NEW l \in Limits, SetQueueLimits(l)
        PROVE  Still
    BY <1>4 DEF SetQueueLimits
  <1>5. UNCHANGED vars => Still
    BY DEF vars, ownership
  <1>6. Shutdown \/ (\E W \in (SUBSET Workers) \ {{}} : Resize(W))
           => UNCHANGED <<worker, active>> /\ owner = "idle" /\ owner' = "stopping" /\ Stops
    BY Zenon DEF Shutdown, Resize, Stops
  <1>7. StopAll => /\ WorkersWoken /\ UNCHANGED active
                   /\ owner = "stopping" /\ owner' = "joining"
    BY <1>t, WokenWorkers DEF StopAll, WorkersWoken
  <1>8. SpuriousWake => WorkersWoken /\ UNCHANGED <<owner, active>>
    BY <1>t DEF SpuriousWake, WorkersWoken, Asleep, ownership
  <1>9. UNCHANGED worker => WorkersWoken
    BY DEF WorkersWoken
  <1> QED
    BY <1>0, <1>1, <1>2, <1>3, <1>4, <1>5, <1>6, <1>7, <1>8, <1>9
    DEF Next, CallerStep, Submitting, OwnerStep

LEMMA WorkerPhase ==
  ASSUME TypeInv, PhaseInv, NEW w \in Workers, WorkerStep(w)
  PROVE  PhaseInv'
  <1> USE DEF TypeInv, DataTypes, WorkerLabels
  <1>1. /\ worker[w] # "none" /\ worker[w] # "exited"
        /\ worker'[w] # "none" /\ UNCHANGED owner
        /\ \A u \in Workers \ {w} : worker'[u] = worker[u]
    BY DEF WorkerStep, Rest, Exit, Take, TellSpace, Finish, TellIdle, ownership
  <1>2. UNCHANGED stop
    BY DEF WorkerStep, Rest, Exit, Take, TellSpace, Finish, TellIdle
  <1>3. StopPhase'
    BY <1>1, <1>2, Zenon DEF PhaseInv, StopPhase
  <1>4. HasThreads' /\ ShutdownCompletes'
    <2>1. owner # "down"
      BY <1>1 DEF PhaseInv, HasThreads
    <2> QED BY <1>1, <2>1 DEF HasThreads, ShutdownCompletes
  <1>5. ExitsEmpty'
    <2>1. CASE Exit(w)
      <3>1. owner # "idle" /\ tasks = <<>> /\ UNCHANGED <<owner, tasks>>
        BY <2>1, Zenon DEF Exit, PhaseInv, StopPhase, queue, ownership
      <3> QED BY <3>1 DEF ExitsEmpty
    <2>2. CASE Take(w)
      <3>1. \A u \in Workers : worker'[u] # "exited"
        BY <1>1, <2>2 DEF Take, PhaseInv, ExitsEmpty
      <3> QED BY <3>1 DEF ExitsEmpty
    <2>3. CASE Rest(w) \/ TellSpace(w) \/ Finish(w) \/ TellIdle(w)
      <3>1. UNCHANGED tasks /\ worker'[w] # "exited"
        BY <2>3 DEF Rest, TellSpace, Finish, TellIdle, queue
      <3> QED BY <1>1, <3>1 DEF PhaseInv, ExitsEmpty
    <2> QED BY <2>1, <2>2, <2>3 DEF WorkerStep
  <1> QED BY <1>3, <1>4, <1>5 DEF PhaseInv

LEMMA JoinPhase ==
  ASSUME TypeInv, PhaseInv, Join
  PROVE  PhaseInv'
  <1> USE DEF TypeInv, DataTypes, WorkerLabels
  <1>1. PICK w \in Workers : worker[w] # "none"
    BY DEF Join, PhaseInv, HasThreads
  <1>2. tasks = <<>> /\ tasks' = <<>> /\ active' = active
    BY <1>1 DEF Join, Started, PhaseInv, ExitsEmpty, queue
  <1>3. active = 0
    <2>1. Executing = {}
      BY DEF Join, Started, Executing
    <2> QED BY <2>1, FS_EmptySet
  <1>4. /\ \A u \in Workers : worker'[u] # "exited"
        /\ owner' = "down" => \A u \in Workers : worker'[u] = "none"
        /\ owner' # "down" => owner' = "idle" /\ \E u \in Workers : worker'[u] # "none"
    BY DEF Join
  <1>5. StopPhase'
    <2>1. stop
      BY Zenon DEF Join, PhaseInv, StopPhase
    <2> QED BY <2>1, Zenon DEF Join, StopPhase
  <1> QED
    BY <1>2, <1>3, <1>4, <1>5
    DEF PhaseInv, ExitsEmpty, HasThreads, ShutdownCompletes

LEMMA OtherPhase ==
  ASSUME TypeInv, PhaseInv, [Next]_vars, ~ \E w \in Workers : WorkerStep(w), ~Join
  PROVE  PhaseInv'
  <1>1. /\ WorkersWoken /\ UNCHANGED active
        /\ \/ UNCHANGED owner
           \/ owner = "idle" /\ owner' = "stopping" /\ Stops
           \/ owner = "stopping" /\ owner' = "joining"
    BY OtherSteps
  <1>2. \/ UNCHANGED tasks
        \/ owner = "idle" /\ UNCHANGED worker
    <2>1. ~ \E w \in Workers : Take(w)
      BY Zenon DEF WorkerStep
    <2> QED BY <2>1, QueueSteps, Zenon DEF PhaseInv, StopPhase
  <1>3. StopPhase'
    <2>1. CASE Stops
      <3>1. stop' = TRUE /\ owner' = "stopping"
        BY <2>1, Zenon DEF Stops, Shutdown, Resize
      <3>2. owner' # "idle"
        BY <3>1
      <3> QED BY <3>1, <3>2, Zenon DEF StopPhase
    <2>2. CASE ~Stops
      <3>1. UNCHANGED stop
        BY <2>2, StopSteps, Zenon
      <3>2. owner' # "idle" <=> owner # "idle"
        BY <1>1, <2>2
      <3> QED BY <3>1, <3>2, Zenon DEF PhaseInv, StopPhase
    <2> QED BY <2>1, <2>2
  <1>4. ExitsEmpty'
    BY <1>1, <1>2 DEF WorkersWoken, PhaseInv, ExitsEmpty
  <1>5. HasThreads' /\ ShutdownCompletes'
    BY <1>1, <1>2 DEF WorkersWoken, PhaseInv, HasThreads, ShutdownCompletes
  <1> QED BY <1>3, <1>4, <1>5 DEF PhaseInv

LEMMA InitPhase == Init => PhaseInv
  <1> SUFFICES ASSUME Init PROVE PhaseInv
    OBVIOUS
  <1>1. /\ \E w \in Workers : worker[w] # "none"
        /\ \A w \in Workers : worker[w] # "exited"
        /\ owner = "idle"
    BY DEF Init
  <1>2. StopPhase
    BY Zenon DEF Init, StopPhase
  <1> QED BY <1>1, <1>2 DEF PhaseInv, ExitsEmpty, HasThreads, ShutdownCompletes

PoolInv == TypeInv /\ PhaseInv

LEMMA PoolInvariant == Spec => []PoolInv
  <1>1. Init => PoolInv
    BY InitTypes, InitPhase DEF PoolInv
  <1>2. PoolInv /\ [Next]_vars => PoolInv'
    BY NextTypes, WorkerPhase, JoinPhase, OtherPhase DEF PoolInv
  <1> QED BY <1>1, <1>2, PTL DEF Spec

\* When shutdown() returns, every task ever accepted has been executed to its
\* end: no worker leaves a queue that is not empty, and none is still running
\* when the last has been joined.
THEOREM NothingLeftBehind == Spec => []ShutdownCompletes
  BY PoolInvariant, PTL DEF PoolInv, PhaseInv

-----------------------------------------------------------------------------
(* Wake-ups of the workers.                                                *)

AwakeWorkers == {w \in Workers : worker[w] = "woken"}
Owing == {c \in Callers : caller[c] = "notifying"}
NobodyOwesAll == \A c \in Callers : caller[c] # "notifying all"
Covered == Len(tasks) <= Cardinality(AwakeWorkers) + Cardinality(Owing)

\* A step keeps WorkerWakeups when it leaves no worker asleep, leaves the
\* queue empty, or keeps the account of tasks against woken workers and
\* notifications that are owed.
Accounted ==
    Balanced(AwakeWorkers, Owing, Len(tasks), AwakeWorkers', Owing', Len(tasks'))

Keeps ==
    \/ Asleep(worker)' = {}
    \/ ~NobodyOwesAll'
    \/ tasks' = <<>>
    \/ Asleep(worker) # {} /\ NobodyOwesAll /\ Accounted

LEMMA AccountsFinite ==
  /\ IsFiniteSet(AwakeWorkers) /\ IsFiniteSet(AwakeWorkers')
  /\ IsFiniteSet(Owing) /\ IsFiniteSet(Owing')
  <1>1. /\ AwakeWorkers \subseteq Workers /\ AwakeWorkers' \subseteq Workers
        /\ Owing \subseteq Callers /\ Owing' \subseteq Callers
    BY DEF AwakeWorkers, Owing
  <1> QED BY <1>1, PoolConstants, FS_Subset

LEMMA KeepsWakeups ==
  ASSUME TypeInv, TypeInv', WorkerWakeups, Keeps
  PROVE  WorkerWakeups'
  <1>1. Len(tasks) \in Nat /\ Len(tasks') \in Nat
    BY LenProperties DEF TypeInv, DataTypes
  <1>2. WorkerWakeups' <=> (Asleep(worker)' # {} /\ NobodyOwesAll' => Covered')
    BY DEF WorkerWakeups, NobodyOwesAll, Covered, AwakeWorkers, Owing
  <1>3. Cardinality(AwakeWorkers') \in Nat /\ Cardinality(Owing') \in Nat
    BY AccountsFinite, FS_CardinalityType
  <1>4. CASE tasks' = <<>>
    BY <1>2, <1>3, <1>4 DEF Covered
  <1>5. CASE Asleep(worker) # {} /\ NobodyOwesAll /\ Accounted
    <2>1. Covered
      BY <1>5 DEF WorkerWakeups, NobodyOwesAll, Covered, AwakeWorkers, Owing
    <2>2. Covered'
      BY <1>1, <1>5, <2>1, AccountsFinite, BalancedCovers DEF Accounted, Covered
    <2> QED BY <1>2, <2>2
  <1> QED BY <1>2, <1>4, <1>5 DEF Keeps

\* Nothing that the account is made of is lost.
LEMMA StillKeeps ==
  ASSUME TypeInv, TypeInv', UNCHANGED tasks,
         AwakeWorkers \subseteq AwakeWorkers', Owing \subseteq Owing',
         Asleep(worker)' \subseteq Asleep(worker), NobodyOwesAll' => NobodyOwesAll
  PROVE  Keeps
  <1>1. Len(tasks) \in Nat /\ Len(tasks') = Len(tasks)
    BY LenProperties DEF TypeInv, DataTypes
  <1>2. Accounted
    BY <1>1 DEF Accounted, Balanced
  <1> QED BY <1>2 DEF Keeps

LEMMA WorkerKeeps ==
  ASSUME TypeInv, TypeInv', NEW w \in Workers, WorkerStep(w)
  PROVE  Keeps
  <1> USE DEF WorkerLabels
  <1>t. /\ worker \in [Workers -> WorkerLabels] /\ worker' \in [Workers -> WorkerLabels]
        /\ caller \in [Callers -> CallerLabels]
        /\ tasks \in Seq(Nat) /\ Len(tasks) \in Nat
    BY LenProperties DEF TypeInv, DataTypes
  <1>1. CASE Rest(w) \/ Exit(w)
    BY <1>1 DEF Rest, Exit, queue, Keeps
  <1>2. CASE Take(w)
    <2>1. /\ UNCHANGED caller /\ Asleep(worker)' = Asleep(worker)
          /\ AwakeWorkers \ {w} \subseteq AwakeWorkers'
      BY <1>t, <1>2 DEF Take, submitters, Asleep, AwakeWorkers
    <2>2. Len(tasks') = Len(tasks) - 1
      BY <1>t, <1>2, HeadTailProperties DEF Take
    <2>3. Owing' = Owing /\ (NobodyOwesAll' => NobodyOwesAll)
      BY <2>1 DEF Owing, NobodyOwesAll
    <2>4. Len(tasks') <= Len(tasks) - 1
      BY <1>t, <2>2
    <2>5. Accounted
      BY <2>1, <2>3, <2>4, Zenon DEF Accounted, Balanced
    <2> QED BY <2>1, <2>3, <2>5 DEF Keeps
  <1>3. CASE TellSpace(w) \/ Finish(w) \/ TellIdle(w)
    <2>1. /\ UNCHANGED tasks /\ Asleep(worker)' = Asleep(worker)
          /\ AwakeWorkers \subseteq AwakeWorkers'
      BY <1>t, <1>3 DEF TellSpace, Finish, TellIdle, queue, Asleep, AwakeWorkers
    <2>2. UNCHANGED caller \/ caller' = Woken(caller)
      BY <1>3 DEF TellSpace, Finish, TellIdle, submitters
    <2>3. Owing \subseteq Owing' /\ (NobodyOwesAll' => NobodyOwesAll)
      BY <1>t, <2>2 DEF Woken, Owing, NobodyOwesAll
    <2> QED BY <2>1, <2>3, StillKeeps
  <1> QED BY <1>1, <1>2, <1>3 DEF WorkerStep

LEMMA CallerKeeps ==
  ASSUME TypeInv, TypeInv', NEW c \in Callers, Submitting(c)
  PROVE  Keeps
  <1>t. /\ caller \in [Callers -> CallerLabels]
        /\ tasks \in Seq(Nat) /\ accepted \in Nat /\ Len(tasks) \in Nat
    BY LenProperties DEF TypeInv, DataTypes
  <1>1. Submission(c)
    BY CallersSubmit DEF TypeInv
  <1>2. UNCHANGED worker /\ caller[c] \in {"idle", "woken", "trying"}
    BY <1>1 DEF Submission, Others, Counts
  <1>3. AwakeWorkers' = AwakeWorkers /\ Asleep(worker)' = Asleep(worker)
    BY <1>2 DEF AwakeWorkers, Asleep
  <1>4. CASE Refrains(c)
    <2>1. Owing \subseteq Owing' /\ (NobodyOwesAll' => NobodyOwesAll) /\ UNCHANGED tasks
      BY <1>t, <1>2, <1>4 DEF Refrains, queue, Owing, NobodyOwesAll
    <2> QED BY <1>3, <2>1, StillKeeps
  <1>5. CASE Submits(c, 1, "notifying")
    <2>1. /\ c \notin Owing /\ Owing \cup {c} \subseteq Owing'
          /\ NobodyOwesAll' => NobodyOwesAll
      BY <1>t, <1>2, <1>5 DEF Submits, Owing, NobodyOwesAll
    <2>2. Len(tasks') = Len(tasks) + 1
      BY <1>t, <1>5, PushType DEF Submits
    <2>3. Accounted
      BY <1>t, <1>3, <2>1, <2>2 DEF Accounted, Balanced
    <2> QED BY <1>3, <2>1, <2>3 DEF Keeps
  <1>6. CASE Submits(c, 2, "notifying all")
    <2>1. ~NobodyOwesAll'
      BY <1>t, <1>6 DEF Submits, NobodyOwesAll
    <2> QED BY <2>1 DEF Keeps
  <1> QED BY <1>1, <1>4, <1>5, <1>6 DEF Submission, Effect

LEMMA NotifyKeeps ==
  ASSUME TypeInv, TypeInv', NEW c \in Callers, Notify(c)
  PROVE  Keeps
  <1> USE DEF WorkerLabels
  <1>t. /\ worker \in [Workers -> WorkerLabels]
        /\ caller \in [Callers -> CallerLabels]
        /\ tasks \in Seq(Nat) /\ Len(tasks) \in Nat
    BY LenProperties DEF TypeInv, DataTypes
  <1>1. /\ UNCHANGED tasks
        /\ caller' = [caller EXCEPT ![c] = "idle"]
    BY DEF Notify, queue
  <1>2. CASE worker' = Woken(worker)
    <2>1. Asleep(worker)' = {}
      BY <1>t, <1>2 DEF Woken, Asleep
    <2> QED BY <2>1 DEF Keeps
  <1>3. CASE Asleep(worker) = {} /\ UNCHANGED worker
    BY <1>3 DEF Asleep, Keeps
  <1>4. CASE /\ caller[c] = "notifying"
             /\ \E w \in Asleep(worker) : worker' = [worker EXCEPT ![w] = "woken"]
    <2>1. PICK w \in Workers : /\ worker[w] = "waiting" /\ w \in Asleep(worker)
                               /\ worker' = [worker EXCEPT ![w] = "woken"]
      BY <1>t, <1>4 DEF Asleep
    <2>2. w \notin AwakeWorkers /\ AwakeWorkers \cup {w} \subseteq AwakeWorkers'
      BY <1>t, <2>1 DEF AwakeWorkers
    <2>3. Owing \ {c} \subseteq Owing' /\ (NobodyOwesAll' => NobodyOwesAll)
      BY <1>t, <1>1, <1>4 DEF Owing, NobodyOwesAll
    <2>4. Len(tasks') <= Len(tasks)
      BY <1>t, <1>1
    <2>5. Accounted
      BY <2>2, <2>3, <2>4, Zenon DEF Accounted, Balanced
    <2> QED BY <2>1, <2>3, <2>5 DEF Keeps
  <1> QED BY <1>2, <1>3, <1>4 DEF Notify

LEMMA NextKeeps ==
  ASSUME TypeInv, TypeInv', [Next]_vars
  PROVE  Keeps
  <1> USE DEF WorkerLabels
  <1>t. /\ worker \in [Workers -> WorkerLabels]
        /\ caller \in [Callers -> CallerLabels]
    BY DEF TypeInv, DataTypes
  <1>1. ASSUME UNCHANGED <<tasks, worker, caller>>
        PROVE  Keeps
    BY <1>1, StillKeeps DEF AwakeWorkers, Owing, NobodyOwesAll, Asleep
  <1>2. ASSUME NEW t \in Waiters, WaitAll(t) \/ TimeOut(t)
        PROVE  Keeps
    BY <1>1, <1>2 DEF WaitAll, TimeOut, queue, submitters
  <1>3. ASSUME NEW l \in Limits, SetQueueLimits(l)
        PROVE  Keeps
    BY <1>1, <1>3 DEF SetQueueLimits, queue, submitters
  <1>4. CASE Stops \/ UNCHANGED vars
    <2>1. UNCHANGED <<tasks, worker, caller>>
      BY <1>4, Zenon DEF Stops, Shutdown, Resize, queue, submitters, vars
    <2> QED BY <1>1, <2>1
  <1>5. CASE OwnerStep
    <2>1. Asleep(worker)' = {}
      BY <1>t, <1>5 DEF OwnerStep, StopAll, Join, Woken, Asleep
    <2> QED BY <2>1 DEF Keeps
  <1>6. CASE SpuriousWake
    <2>1. /\ UNCHANGED tasks
          /\ AwakeWorkers \subseteq AwakeWorkers' /\ Owing \subseteq Owing'
          /\ Asleep(worker)' \subseteq Asleep(worker) /\ (NobodyOwesAll' => NobodyOwesAll)
      BY <1>t, <1>6
      DEF SpuriousWake, queue, AwakeWorkers, Owing, NobodyOwesAll, Asleep
    <2> QED BY <2>1, StillKeeps
  <1> QED
    BY <1>2, <1>3, <1>4, <1>5, <1>6, WorkerKeeps, CallerKeeps, NotifyKeeps, Zenon
    DEF Next, CallerStep, Submitting, Stops

\* No notification of a task is lost, for any number of workers and callers:
\* while workers sleep, the tasks in the queue are covered by the workers
\* already woken and the callers about to notify one.
THEOREM WorkersAreWoken == Spec => []WorkerWakeups
  <1>1. Init => WorkerWakeups
    <2> SUFFICES ASSUME Init PROVE WorkerWakeups
      OBVIOUS
    <2>1. Cardinality(AwakeWorkers) \in Nat /\ Cardinality(Owing) \in Nat
      BY AccountsFinite, FS_CardinalityType
    <2> QED BY <2>1 DEF Init, WorkerWakeups, AwakeWorkers, Owing
  <1>2. TypeInv /\ WorkerWakeups /\ [Next]_vars => WorkerWakeups'
    BY NextTypes, NextKeeps, KeepsWakeups
  <1>3. Spec => [](TypeInv /\ WorkerWakeups)
    BY <1>1, <1>2, InitTypes, NextTypes, PTL DEF Spec
  <1> QED BY <1>3, PTL

-----------------------------------------------------------------------------
(* Wake-ups of the callers that wait for space.                            *)

LimitsSetEarly == ~RetunesBusy

Pushes(c) == Submits(c, 1, "notifying") \/ Submits(c, 2, "notifying all")

LEMMA SubmitsGrows ==
  ASSUME tasks \in Seq(Nat), accepted \in Nat, NEW c \in Callers,
         Pushes(c)
  PROVE  Len(tasks) < Len(tasks') /\ Len(tasks) \in Nat /\ Len(tasks') \in Nat
  <1>1. PICK n \in {1, 2} : Push(n)
    BY Zenon DEF Pushes, Submits
  <1>2. n \in Nat /\ 0 < n /\ Len(tasks) \in Nat
    BY LenProperties
  <1>3. Len(tasks') = Len(tasks) + n
    BY <1>1, <1>2, PushType
  <1> QED BY <1>2, <1>3

LEMMA WorkerSpace ==
  ASSUME TypeInv, TypeInv', SpaceWakeups, NEW w \in Workers, WorkerStep(w)
  PROVE  SpaceWakeups'
  <1> USE DEF Soft
  <1>t. /\ worker \in [Workers -> WorkerLabels] /\ caller \in [Callers -> CallerLabels]
        /\ tasks \in Seq(Nat) /\ Len(tasks) \in Nat /\ limits[1] \in Nat
    <2>1. limits[1] \in Nat
      BY PoolAssumption DEF TypeInv, DataTypes
    <2> QED BY <2>1, LenProperties DEF TypeInv, DataTypes
  <1>1. CASE Take(w)
    <2>1. /\ UNCHANGED <<caller, limits>> /\ Len(tasks') = Len(tasks) - 1
          /\ worker[w] # "telling"
      BY <1>t, <1>1, HeadTailProperties DEF Take, submitters
    <2>2. CASE Len(tasks) = Soft
      <3>1. worker'[w] = "telling"
        BY <1>t, <1>1, <2>2 DEF Take
      <3> QED BY <3>1 DEF SpaceWakeups
    <2>3. CASE Len(tasks) # Soft
      <3>1. \A u \in Workers : worker[u] = "telling" => worker'[u] = "telling"
        BY <1>t, <1>1, <2>1 DEF Take
      <3>2. Asleep(caller)' = Asleep(caller)
        BY <2>1 DEF Asleep
      <3> QED BY <1>t, <2>1, <2>3, <3>1, <3>2 DEF SpaceWakeups
    <2> QED BY <2>2, <2>3
  <1>2. CASE TellSpace(w)
    <2>1. Asleep(caller)' = {}
      BY <1>t, <1>2 DEF TellSpace, Woken, Asleep
    <2> QED BY <2>1 DEF SpaceWakeups, Asleep
  <1>3. CASE Rest(w) \/ Exit(w) \/ Finish(w) \/ TellIdle(w)
    <2>1. /\ UNCHANGED <<tasks, limits, caller>>
          /\ \A u \in Workers : worker[u] = "telling" => worker'[u] = "telling"
      BY <1>t, <1>3 DEF Rest, Exit, Finish, TellIdle, queue, submitters
    <2> QED BY <2>1 DEF SpaceWakeups, Asleep
  <1> QED BY <1>1, <1>2, <1>3 DEF WorkerStep

\* What the other steps may do to a caller that waits for space: put it to
\* sleep while there is none, or wake it.
LEMMA OtherSpace ==
  ASSUME TypeInv, TypeInv', LimitsSetEarly, [Next]_vars,
         ~ \E w \in Workers : WorkerStep(w)
  PROVE  \/ Asleep(caller)' = {}
         \/ /\ UNCHANGED limits
            /\ Len(tasks) <= Len(tasks')
            /\ \/ Asleep(caller)' \subseteq Asleep(caller)
               \/ UNCHANGED tasks /\ ~(Len(tasks) < Soft)
  <1>t. /\ caller \in [Callers -> CallerLabels] /\ caller' \in [Callers -> CallerLabels]
        /\ tasks \in Seq(Nat) /\ Len(tasks) \in Nat /\ accepted \in Nat
    BY LenProperties DEF TypeInv, DataTypes
  <1> DEFINE Still == UNCHANGED <<tasks, limits, caller>>
  <1>s. Still => /\ UNCHANGED limits /\ Len(tasks) <= Len(tasks')
                 /\ Asleep(caller)' \subseteq Asleep(caller)
    BY <1>t DEF Asleep
  <1>1. ASSUME NEW c \in Callers, Submitting(c)
        PROVE  /\ UNCHANGED limits
               /\ Len(tasks) <= Len(tasks')
               /\ \/ Asleep(caller)' \subseteq Asleep(caller)
                  \/ UNCHANGED tasks /\ ~(Len(tasks) < Soft)
    <2>1. Submission(c)
      BY <1>1, CallersSubmit DEF TypeInv
    <2>2. UNCHANGED limits
      BY <2>1 DEF Submission, Others
    <2>3. CASE Refrains(c)
      BY <1>t, <2>2, <2>3 DEF Refrains, queue, Asleep
    <2>4. CASE Pushes(c)
      <3>1. Len(tasks) <= Len(tasks')
        BY <1>t, <2>4, SubmitsGrows
      <3>2. Asleep(caller)' \subseteq Asleep(caller)
        BY <1>t, <2>4 DEF Pushes, Submits, Asleep
      <3> QED BY <2>2, <3>1, <3>2
    <2> QED BY <2>1, <2>3, <2>4, Zenon DEF Submission, Effect, Pushes
  <1>2. ASSUME NEW c \in Callers, Notify(c)
        PROVE  /\ UNCHANGED <<tasks, limits>>
               /\ Asleep(caller)' \subseteq Asleep(caller)
    BY <1>t, <1>2 DEF Notify, queue, Asleep
  <1>3. ASSUME NEW t \in Waiters, WaitAll(t) \/ TimeOut(t)
        PROVE  Still
    BY <1>3 DEF WaitAll, TimeOut, queue, submitters
  <1>4. ASSUME NEW l \in Limits, SetQueueLimits(l)
        PROVE  Asleep(caller)' = {}
    <2>1. (\A c \in Callers : caller[c] \notin {"waiting", "woken"}) /\ UNCHANGED caller
      BY <1>4, Zenon DEF LimitsSetEarly, SetQueueLimits, submitters
    <2> QED BY <1>t, <2>1 DEF Asleep
  <1>5. Stops \/ OwnerStep \/ UNCHANGED vars => Still
    BY Zenon DEF Stops, Shutdown, Resize, OwnerStep, StopAll, Join, queue, submitters, vars
  <1>6. SpuriousWake => /\ UNCHANGED <<tasks, limits>>
                        /\ Asleep(caller)' \subseteq Asleep(caller)
    BY <1>t DEF SpuriousWake, queue, Asleep
  <1>7. UNCHANGED tasks => Len(tasks) <= Len(tasks')
    BY <1>t
  <1> HIDE DEF Still
  <1> QED
    BY <1>s, <1>1, <1>2, <1>3, <1>4, <1>5, <1>6, <1>7, Zenon
    DEF Next, CallerStep, Submitting, Stops

LEMMA NextSpace ==
  ASSUME TypeInv, TypeInv', LimitsSetEarly, SpaceWakeups, [Next]_vars
  PROVE  SpaceWakeups'
  <1>t. /\ worker \in [Workers -> WorkerLabels]
        /\ Len(tasks) \in Nat /\ Len(tasks') \in Nat
        /\ limits[1] \in Nat /\ limits'[1] \in Nat
    <2>1. limits[1] \in Nat /\ limits'[1] \in Nat
      BY PoolAssumption DEF TypeInv, DataTypes
    <2> QED BY <2>1, LenProperties DEF TypeInv, DataTypes
  <1>1. CASE \E w \in Workers : WorkerStep(w)
    BY <1>1, WorkerSpace
  <1>2. CASE ~ \E w \in Workers : WorkerStep(w)
    <2>1. CASE Asleep(caller)' = {}
      BY <2>1 DEF SpaceWakeups, Asleep
    <2>2. CASE Asleep(caller)' # {}
      <3>1. ~(Asleep(caller) # {} /\ Len(tasks) < Soft)
              => Soft' <= Len(tasks')
        BY <1>t, <1>2, <2>2, OtherSpace DEF Soft
      <3>2. (\E w \in Workers : worker[w] = "telling") =>
              ~Join /\ \E w \in Workers : worker'[w] = "telling"
        <4>1. Join => \A w \in Workers : worker[w] # "telling"
          BY DEF Join, Started
        <4>2. ~Join => WorkersWoken
          BY <1>2, OtherSteps
        <4> QED BY <4>1, <4>2 DEF WorkersWoken
      <3> QED BY <1>t, <3>1, <3>2 DEF SpaceWakeups, Soft
    <2> QED BY <2>1, <2>2
  <1> QED BY <1>1, <1>2

\* Nobody waits for space that is there, as long as the limits are set while
\* nobody waits: a caller blocked in enqueue_bounded while the queue is below
\* the soft limit is about to be told by a worker.
THEOREM CallersAreTold ==
  ASSUME ~RetunesBusy
  PROVE  Spec => []SpaceWakeups
  <1>1. Init => SpaceWakeups
    BY DEF Init, SpaceWakeups, Asleep
  <1>2. TypeInv /\ SpaceWakeups /\ [Next]_vars => SpaceWakeups'
    BY NextTypes, NextSpace DEF LimitsSetEarly
  <1>3. Spec => [](TypeInv /\ SpaceWakeups)
    BY <1>1, <1>2, InitTypes, NextTypes, PTL DEF Spec
  <1> QED BY <1>3, PTL

-----------------------------------------------------------------------------
(* Wake-ups of the threads that wait for an idle pool.                     *)

LEMMA WorkerIdle ==
  ASSUME TypeInv, TypeInv', IdleWakeups, NEW w \in Workers, WorkerStep(w)
  PROVE  IdleWakeups'
  <1>t. /\ worker \in [Workers -> WorkerLabels] /\ waiter \in [Waiters -> WaiterLabels]
        /\ active \in Nat
    BY ExecutingFinite, FS_CardinalityType DEF TypeInv, DataTypes
  <1>1. CASE Take(w)
    <2>1. active' # 0
      BY <1>t, <1>1 DEF Take
    <2> QED BY <2>1 DEF IdleWakeups, Idle
  <1>2. CASE Finish(w)
    <2>1. worker'[w] = "finished"
      BY <1>t, <1>2 DEF Finish
    <2> QED BY <2>1 DEF IdleWakeups
  <1>3. CASE TellIdle(w)
    <2>1. UNCHANGED <<tasks, active>>
      BY <1>3 DEF TellIdle, queue
    <2>2. CASE Idle
      <3>1. Asleep(waiter)' = {}
        BY <1>t, <1>3, <2>2 DEF TellIdle, Woken, Asleep
      <3> QED BY <3>1 DEF IdleWakeups, Asleep
    <2>3. CASE ~Idle
      BY <2>1, <2>3 DEF IdleWakeups, Idle
    <2> QED BY <2>2, <2>3
  <1>4. CASE Rest(w) \/ Exit(w) \/ TellSpace(w)
    <2>1. /\ UNCHANGED <<tasks, active, waiter>>
          /\ \A u \in Workers : worker[u] = "finished" => worker'[u] = "finished"
      BY <1>t, <1>4 DEF Rest, Exit, TellSpace, queue
    <2> QED BY <2>1 DEF IdleWakeups, Idle, Asleep
  <1> QED BY <1>1, <1>2, <1>3, <1>4 DEF WorkerStep

\* What the other steps may do to a thread that waits for an idle pool.
LEMMA OtherIdle ==
  ASSUME TypeInv, TypeInv', [Next]_vars, ~ \E w \in Workers : WorkerStep(w)
  PROVE  \/ ~Idle'
         \/ (Idle' => Idle) /\ Asleep(waiter)' \subseteq Asleep(waiter)
  <1>t. /\ waiter \in [Waiters -> WaiterLabels]
        /\ tasks \in Seq(Nat) /\ Len(tasks) \in Nat /\ accepted \in Nat
    BY LenProperties DEF TypeInv, DataTypes
  <1> DEFINE Still == UNCHANGED <<tasks, active, waiter>>
  <1>s. Still => (Idle' => Idle) /\ Asleep(waiter)' \subseteq Asleep(waiter)
    BY DEF Idle, Asleep
  <1>1. ASSUME NEW c \in Callers, Submitting(c)
        PROVE  ~Idle' \/ Still
    <2>1. Submission(c)
      BY <1>1, CallersSubmit DEF TypeInv
    <2>2. UNCHANGED <<active, waiter>>
      BY <2>1 DEF Submission, Others
    <2>3. CASE Refrains(c)
      BY <2>2, <2>3 DEF Refrains, queue
    <2>4. CASE Pushes(c)
      <3>1. Len(tasks') # 0
        BY <1>t, <2>4, SubmitsGrows
      <3> QED BY <3>1 DEF Idle
    <2> QED BY <2>1, <2>3, <2>4, Zenon DEF Submission, Effect, Pushes
  <1>2. ASSUME NEW c \in Callers, Notify(c)
        PROVE  Still
    BY <1>2 DEF Notify, queue
  <1>3. ASSUME NEW t \in Waiters, WaitAll(t) \/ TimeOut(t)
        PROVE  ~Idle' \/ ((Idle' => Idle) /\ Asleep(waiter)' \subseteq Asleep(waiter))
    BY <1>t, <1>3 DEF WaitAll, TimeOut, queue, Idle, Asleep
  <1>4. ASSUME NEW l \in Limits, SetQueueLimits(l)
        PROVE  Still
    BY <1>4 DEF SetQueueLimits, queue
  <1>5. Stops \/ OwnerStep \/ UNCHANGED vars => Still
    BY Zenon DEF Stops, Shutdown, Resize, OwnerStep, StopAll, Join, queue, vars
  <1>6. SpuriousWake => (Idle' => Idle) /\ Asleep(waiter)' \subseteq Asleep(waiter)
    BY <1>t DEF SpuriousWake, queue, Idle, Asleep
  <1> HIDE DEF Still
  <1> QED
    BY <1>s, <1>1, <1>2, <1>3, <1>4, <1>5, <1>6, Zenon
    DEF Next, CallerStep, Submitting, Stops

LEMMA NextIdle ==
  ASSUME TypeInv, TypeInv', IdleWakeups, [Next]_vars
  PROVE  IdleWakeups'
  <1>1. CASE \E w \in Workers : WorkerStep(w)
    BY <1>1, WorkerIdle
  <1>2. CASE ~ \E w \in Workers : WorkerStep(w)
    <2>1. ASSUME NEW w \in Workers, worker[w] = "finished"
          PROVE  worker'[w] = "finished"
      <3>1. ~Join
        BY <2>1 DEF Join, Started
      <3>2. WorkersWoken
        BY <1>2, <3>1, OtherSteps
      <3> QED BY <2>1, <3>2 DEF WorkersWoken
    <2> QED BY <1>2, <2>1, OtherIdle DEF IdleWakeups
  <1> QED BY <1>1, <1>2

\* Nobody waits for a pool that is idle already: while a thread is blocked in
\* wait_all_for and the pool is idle, a worker is about to look and tell.
THEOREM WaitersAreTold == Spec => []IdleWakeups
  <1>1. Init => IdleWakeups
    BY DEF Init, IdleWakeups, Asleep
  <1>2. TypeInv /\ IdleWakeups /\ [Next]_vars => IdleWakeups'
    BY NextTypes, NextIdle
  <1>3. Spec => [](TypeInv /\ IdleWakeups)
    BY <1>1, <1>2, InitTypes, NextTypes, PTL DEF Spec
  <1> QED BY <1>3, PTL
=============================================================================
