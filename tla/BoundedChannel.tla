--------------------------- MODULE BoundedChannel ---------------------------
(***************************************************************************)
(* BoundedChannel<T> (concurrency_utils.H) with the cancellation machinery *)
(* it blocks on: CancellationState, CancellationToken::notify_on_cancel    *)
(* and CancellationSource::request_cancel (thread_pool.H).                 *)
(*                                                                         *)
(* The channel is a deque behind one mutex with two condition variables.   *)
(* A step is either a whole critical section that never waits, or one of   *)
(* the points where another thread can get in: taking the mutex, testing   *)
(* the predicate, going to sleep, waking, notifying after the unlock.  The *)
(* stop flag of the cancellation state is not protected by the mutex, so   *)
(* testing it and going to sleep are two steps.                            *)
(***************************************************************************)
EXTENDS Naturals, Sequences, FiniteSets

CONSTANTS Senders,      \* threads that call send, emplace and try_send
          Receivers,    \* threads that call recv and try_recv
          Cancellable,  \* threads whose blocking calls take the token
          Capacity,     \* the constructor's argument
          MaxSends,     \* bound: calls that each sender makes
          MaxRecvs,     \* bound: calls that each receiver makes
          MayThrow      \* whether copying or moving an element can throw

NoThread == "no thread"
Threads == Senders \cup Receivers

ASSUME ChannelAssumption ==
    /\ IsFiniteSet(Senders) /\ IsFiniteSet(Receivers)
    /\ Senders \cap Receivers = {}
    /\ NoThread \notin Threads
    /\ Cancellable \subseteq Threads
    /\ Capacity \in Nat \ {0}
    /\ MaxSends \in Nat /\ MaxRecvs \in Nat
    /\ MayThrow \in BOOLEAN

VARIABLES
    queue,         \* queue_
    closed,        \* closed_
    mutex,         \* the holder of mutex_
    pc,            \* where each thread is in its call
    calls,         \* how many calls each thread has started
    stop,          \* CancellationState::stop_requested
    observers,     \* the threads registered in CancellationState::observers
    canceller,     \* where request_cancel() is
    toNotify,      \* its copy of the observers
    taken,         \* history: the elements received, in order
    elementThrew   \* history: an element's copy or move has thrown

vars == <<queue, closed, mutex, pc, calls, stop, observers, canceller,
          toNotify, taken, elementThrew>>

Element == Senders \X (1 .. MaxSends)
MayCall(t) == calls[t] < IF t \in Senders THEN MaxSends ELSE MaxRecvs

Init ==
    /\ queue = <<>>
    /\ closed = FALSE
    /\ mutex = NoThread
    /\ pc = [t \in Threads |-> "idle"]
    /\ calls = [t \in Threads |-> 0]
    /\ stop = FALSE
    /\ observers = {}
    /\ canceller = "ready"
    /\ toNotify = {}
    /\ taken = <<>>
    /\ elementThrew = FALSE

At(t, label) == pc[t] = label
Goto(t, label) == pc' = [pc EXCEPT ![t] = label]

\* The two condition variables, each by the threads that can wait on it.
NotFull == Senders
NotEmpty == Receivers
CvOf(t) == IF t \in Senders THEN NotFull ELSE NotEmpty
WaitingOn(cv) == {t \in cv : At(t, "waiting")}

\* The predicate a thread waits for.
Ready(t) ==
    \/ closed
    \/ t \in Senders /\ Len(queue) < Capacity
    \/ t \in Receivers /\ queue # <<>>

\* notify_one() on cv, by a thread that goes to label: some waiter, if there is one, wakes.
NotifyOne(cv, t, label) ==
    IF WaitingOn(cv) = {}
    THEN Goto(t, label)
    ELSE \E w \in WaitingOn(cv) : pc' = [pc EXCEPT ![w] = "woken", ![t] = label]

\* notify_all() on every condition variable of cvs.
Awaken(cvs) ==
    [t \in Threads |-> IF At(t, "waiting") /\ CvOf(t) \in cvs
                       THEN "woken" ELSE pc[t]]

-----------------------------------------------------------------------------
(* The life of a blocking call.                                            *)

\* send, emplace or recv is called; it will take the mutex first.
Call(t) ==
    /\ At(t, "idle")
    /\ MayCall(t)
    /\ calls' = [calls EXCEPT ![t] = @ + 1]
    /\ Goto(t, "entering")
    /\ UNCHANGED <<queue, closed, mutex, stop, observers, canceller, toNotify,
                   taken, elementThrew>>

\* Mutant: calls without a token register as well.
AcquireRegistersAll(t) ==
    /\ pc[t] \in {"entering", "woken"}
    /\ mutex = NoThread
    /\ mutex' = t
    /\ Goto(t, IF At(t, "entering") THEN "testing" ELSE "looping")
    /\ UNCHANGED <<queue, closed, calls, stop, observers, canceller, toNotify,
                   taken, elementThrew>>

\* The mutex is acquired, at the start of the call or on waking up.  A call
\* without a token goes straight to the loop of condition_variable::wait.
Acquire(t) ==
    /\ pc[t] \in {"entering", "woken"}
    /\ mutex = NoThread
    /\ mutex' = t
    /\ Goto(t, IF At(t, "entering") /\ t \in Cancellable THEN "testing" ELSE "looping")
    /\ UNCHANGED <<queue, closed, calls, stop, observers, canceller, toNotify,
                   taken, elementThrew>>

\* Mutant: the registration outlives the call.
LeaveRegistered(t) ==
    /\ mutex' = NoThread
    /\ UNCHANGED <<observers, calls, stop, canceller, toNotify>>

\* What every exit from the critical section does.
Leave(t) ==
    /\ mutex' = NoThread
    /\ observers' = observers \ {t}
    /\ UNCHANGED <<calls, stop, canceller, toNotify>>

\* The predicate holds: push or pop and unlock, or report a closed channel.
Proceed(t) ==
    /\ pc[t] \in {"testing", "looping"}
    /\ Ready(t)
    /\ Leave(t)
    /\ UNCHANGED <<closed, elementThrew>>
    /\ \/ /\ t \in Senders /\ ~closed
          /\ queue' = Append(queue, <<t, calls[t]>>)
          /\ Goto(t, "notifying")
          /\ UNCHANGED taken
       \/ /\ t \in Receivers /\ queue # <<>>
          /\ queue' = Tail(queue)
          /\ taken' = Append(taken, Head(queue))
          /\ Goto(t, "notifying")
       \/ /\ IF t \in Senders THEN closed ELSE queue = <<>>
          /\ Goto(t, "idle")
          /\ UNCHANGED <<queue, taken>>

\* Mutant: recv pops before it copies the element out.
ThrowAfterPop(t) ==
    /\ MayThrow
    /\ pc[t] \in {"testing", "looping"}
    /\ Ready(t)
    /\ IF t \in Senders THEN ~closed ELSE queue # <<>>
    /\ Leave(t)
    /\ Goto(t, "idle")
    /\ elementThrew' = TRUE
    /\ queue' = IF t \in Senders THEN queue ELSE Tail(queue)
    /\ UNCHANGED <<closed, taken>>

\* The same, but the element's copy or move throws: the call ends with the
\* exception, the queue as it was, and nobody notified.
Throw(t) ==
    /\ MayThrow
    /\ pc[t] \in {"testing", "looping"}
    /\ Ready(t)
    /\ IF t \in Senders THEN ~closed ELSE queue # <<>>
    /\ Leave(t)
    /\ Goto(t, "idle")
    /\ elementThrew' = TRUE
    /\ UNCHANGED <<queue, closed, taken>>

\* notify_one() after the unlock.
Notify(t) ==
    /\ At(t, "notifying")
    /\ NotifyOne(IF t \in Senders THEN NotEmpty ELSE NotFull, t, "idle")
    /\ UNCHANGED <<queue, closed, mutex, calls, stop, observers, canceller,
                   toNotify, taken, elementThrew>>

\* wait_with_cancellation finds the predicate false and calls notify_on_cancel.
MustWait(t) ==
    /\ At(t, "testing")
    /\ ~Ready(t)
    /\ Goto(t, "registering")
    /\ UNCHANGED <<queue, closed, mutex, calls, stop, observers, canceller,
                   toNotify, taken, elementThrew>>

\* notify_on_cancel registers, unless cancellation has already been requested.
Register(t) ==
    /\ At(t, "registering")
    /\ ~stop
    /\ observers' = observers \cup {t}
    /\ Goto(t, "registered")
    /\ UNCHANGED <<queue, closed, mutex, calls, stop, canceller, toNotify,
                   taken, elementThrew>>

\* The second look at the flag: cancelled meanwhile, the thread takes itself
\* out, wakes everyone on its condition variable, and the call throws.
Unregister(t) ==
    /\ At(t, "registered")
    /\ stop
    /\ Leave(t)
    /\ pc' = [Awaken({CvOf(t)}) EXCEPT ![t] = "idle"]
    /\ UNCHANGED <<queue, closed, taken, elementThrew>>

Registered(t) ==
    /\ At(t, "registered")
    /\ ~stop
    /\ Goto(t, "looping")
    /\ UNCHANGED <<queue, closed, mutex, calls, stop, observers, canceller,
                   toNotify, taken, elementThrew>>

\* Mutant: the wait throws on cancellation without looking at the predicate.
CancelUntested(t) ==
    /\ t \in Cancellable /\ stop
    /\ At(t, "registering") \/ At(t, "looping")
    /\ Leave(t)
    /\ Goto(t, "idle")
    /\ UNCHANGED <<queue, closed, taken, elementThrew>>

\* operation_canceled is thrown: before waiting, or out of the wait.
Cancel(t) ==
    /\ t \in Cancellable /\ stop
    /\ At(t, "registering") \/ (At(t, "looping") /\ ~Ready(t))
    /\ Leave(t)
    /\ Goto(t, "idle")
    /\ UNCHANGED <<queue, closed, taken, elementThrew>>

\* condition_variable::wait has found its predicate false and is about to sleep.
Decide(t) ==
    /\ At(t, "looping")
    /\ ~Ready(t)
    /\ ~(t \in Cancellable /\ stop)
    /\ Goto(t, "sleeping")
    /\ UNCHANGED <<queue, closed, mutex, calls, stop, observers, canceller,
                   toNotify, taken, elementThrew>>

\* It releases the mutex and joins the waiters, in one atomic step.
Sleep(t) ==
    /\ At(t, "sleeping")
    /\ mutex' = NoThread
    /\ Goto(t, "waiting")
    /\ UNCHANGED <<queue, closed, calls, stop, observers, canceller, toNotify,
                   taken, elementThrew>>

\* A condition variable may wake a waiter that nobody notified.
SpuriousWake(t) ==
    /\ At(t, "waiting")
    /\ Goto(t, "woken")
    /\ UNCHANGED <<queue, closed, mutex, calls, stop, observers, canceller,
                   toNotify, taken, elementThrew>>

-----------------------------------------------------------------------------
(* Calls that never wait: one critical section, notification included.     *)

TrySend(t) ==
    /\ t \in Senders /\ At(t, "idle")
    /\ MayCall(t)
    /\ mutex = NoThread
    /\ calls' = [calls EXCEPT ![t] = @ + 1]
    /\ IF closed \/ Len(queue) >= Capacity
       THEN UNCHANGED <<queue, pc>>
       ELSE /\ queue' = Append(queue, <<t, calls'[t]>>)
            /\ NotifyOne(NotEmpty, t, "idle")
    /\ UNCHANGED <<closed, mutex, stop, observers, canceller, toNotify, taken,
                   elementThrew>>

\* Mutant: the newest element is taken.
TryRecvNewest(t) ==
    /\ t \in Receivers /\ At(t, "idle")
    /\ MayCall(t)
    /\ mutex = NoThread
    /\ calls' = [calls EXCEPT ![t] = @ + 1]
    /\ IF queue = <<>>
       THEN UNCHANGED <<queue, taken, pc>>
       ELSE /\ queue' = SubSeq(queue, 1, Len(queue) - 1)
            /\ taken' = Append(taken, queue[Len(queue)])
            /\ NotifyOne(NotFull, t, "idle")
    /\ UNCHANGED <<closed, mutex, stop, observers, canceller, toNotify,
                   elementThrew>>

\* Mutant: no sender is told that there is room.
TryRecvSilent(t) ==
    /\ t \in Receivers /\ At(t, "idle")
    /\ MayCall(t)
    /\ mutex = NoThread
    /\ calls' = [calls EXCEPT ![t] = @ + 1]
    /\ IF queue = <<>>
       THEN UNCHANGED <<queue, taken>>
       ELSE /\ queue' = Tail(queue)
            /\ taken' = Append(taken, Head(queue))
    /\ UNCHANGED <<closed, mutex, pc, stop, observers, canceller, toNotify,
                   elementThrew>>

TryRecv(t) ==
    /\ t \in Receivers /\ At(t, "idle")
    /\ MayCall(t)
    /\ mutex = NoThread
    /\ calls' = [calls EXCEPT ![t] = @ + 1]
    /\ IF queue = <<>>
       THEN UNCHANGED <<queue, taken, pc>>
       ELSE /\ queue' = Tail(queue)
            /\ taken' = Append(taken, Head(queue))
            /\ NotifyOne(NotFull, t, "idle")
    /\ UNCHANGED <<closed, mutex, stop, observers, canceller, toNotify,
                   elementThrew>>

\* Mutant: close() wakes the receivers only.
CloseTellsReceivers ==
    /\ mutex = NoThread
    /\ ~closed
    /\ closed' = TRUE
    /\ pc' = Awaken({NotEmpty})
    /\ UNCHANGED <<queue, mutex, calls, stop, observers, canceller, toNotify,
                   taken, elementThrew>>

Close ==
    /\ mutex = NoThread
    /\ ~closed
    /\ closed' = TRUE
    /\ pc' = Awaken({NotEmpty, NotFull})
    /\ UNCHANGED <<queue, mutex, calls, stop, observers, canceller, toNotify,
                   taken, elementThrew>>

-----------------------------------------------------------------------------
(* CancellationSource::request_cancel, which never takes the channel's mutex. *)

RequestCancel ==
    /\ canceller = "ready"
    /\ stop' = TRUE
    /\ canceller' = "stored"
    /\ UNCHANGED <<queue, closed, mutex, pc, calls, observers, toNotify, taken,
                   elementThrew>>

CopyObservers ==
    /\ canceller = "stored"
    /\ toNotify' = {CvOf(t) : t \in observers}
    /\ canceller' = "notifying"
    /\ UNCHANGED <<queue, closed, mutex, pc, calls, stop, observers, taken,
                   elementThrew>>

NotifyObserver ==
    /\ canceller = "notifying"
    /\ \E cv \in toNotify :
         /\ pc' = Awaken({cv})
         /\ toNotify' = toNotify \ {cv}
    /\ UNCHANGED <<queue, closed, mutex, calls, stop, observers, canceller,
                   taken, elementThrew>>

-----------------------------------------------------------------------------
\* What a thread does once its call has begun.
Step(t) ==
    \/ Proceed(t) \/ Throw(t) \/ Notify(t)
    \/ MustWait(t) \/ Register(t) \/ Unregister(t) \/ Registered(t)
    \/ Cancel(t) \/ Decide(t) \/ Sleep(t)

Next ==
    \/ \E t \in Threads :
         \/ Call(t) \/ Acquire(t) \/ Step(t) \/ SpuriousWake(t)
         \/ TrySend(t) \/ TryRecv(t)
    \/ Close
    \/ RequestCancel \/ CopyObservers \/ NotifyObserver

Spec == Init /\ [][Next]_vars

\* A running thread keeps running, request_cancel returns once called, and
\* the mutex does not starve a thread that asks for it for ever.
Fairness ==
    /\ \A t \in Threads : WF_vars(Step(t)) /\ SF_vars(Acquire(t))
    /\ WF_vars(CopyObservers \/ NotifyObserver)

FairSpec == Spec /\ Fairness

-----------------------------------------------------------------------------
(* Properties.                                                             *)

Labels == {"idle", "entering", "testing", "registering", "registered",
           "looping", "sleeping", "waiting", "woken", "notifying"}

TypeOK ==
    /\ queue \in Seq(Element)
    /\ closed \in BOOLEAN
    /\ mutex \in Threads \cup {NoThread}
    /\ pc \in [Threads -> Labels]
    /\ calls \in [Threads -> Nat]
    /\ \A s \in Senders : calls[s] <= MaxSends
    /\ stop \in BOOLEAN
    /\ observers \subseteq Cancellable
    /\ canceller \in {"ready", "stored", "notifying"}
    /\ toNotify \subseteq {NotEmpty, NotFull}
    /\ taken \in Seq(Element)
    /\ elementThrew \in BOOLEAN

\* A thread inside a call has counted it.
Started == \A t \in Threads : pc[t] # "idle" => calls[t] >= 1

\* Only calls with a token look for cancellation before they wait.
TokenCalls ==
    \A t \in Threads :
        pc[t] \in {"testing", "registering", "registered"} => t \in Cancellable

InCriticalSection(t) ==
    pc[t] \in {"testing", "registering", "registered", "looping", "sleeping"}

\* Every thread between its lock and its unlock is the holder of mutex_, so
\* no two calls are ever inside the channel, on any path in or out of a wait.
MutexHeldInside == \A t \in Threads : InCriticalSection(t) <=> mutex = t

\* close() leaves nobody behind: once the channel is closed no thread sleeps
\* on it or is on its way to sleep.
ClosedNobodySleeps ==
    closed => \A t \in Threads : pc[t] \notin {"sleeping", "waiting"}

\* Receivers that have a wake-up to act upon, and senders that owe one.
Awake(role) == {t \in role : pc[t] \in {"woken", "looping"}}
Owing(role) == {t \in role : At(t, "notifying")}

\* No wake-up of a receiver is lost: as long as receivers sleep, each queued
\* element has a receiver already awake or a sender about to notify.  It
\* needs every path that consumes a notification to take an element or to
\* have found none (cancellation included).
ReceiverWakeups ==
    ~elementThrew /\ WaitingOn(NotEmpty) # {} =>
        Len(queue) <= Cardinality(Awake(Receivers)) + Cardinality(Owing(Senders))

\* The same for senders: as long as some sleep, every free place has a
\* sender already awake or a receiver about to notify.
SenderWakeups ==
    ~elementThrew /\ WaitingOn(NotFull) # {} =>
        Capacity - Len(queue) <=
            Cardinality(Awake(Senders)) + Cardinality(Owing(Receivers))

\* A thread is registered with the cancellation state only inside a blocking
\* call, so the state never keeps a condition variable past the call.
ObserversAreCallers ==
    \A t \in observers : pc[t] \in {"registered", "looping", "sleeping",
                                    "waiting", "woken"}

\* The elements of one sender are received in the order it sent them, and
\* none twice, whichever receivers take them.
SenderOrder ==
    \A i, j \in 1 .. Len(taken) :
        i < j /\ taken[i][1] = taken[j][1] => taken[i][2] < taken[j][2]

\* The channel is a closable bounded queue: every step of a thread puts one
\* element, takes the oldest, closes, or changes nothing the queue shows.
Fifo == INSTANCE BoundedFifo WITH contents <- queue
ImplementsFifo == Fifo!Spec

\* close() ends every blocked call: a thread asleep when the channel is
\* closed gets out of its call.
CloseReleases ==
    \A t \in Threads : closed /\ pc[t] # "idle" ~> pc[t] = "idle"

\* "throw operation_canceled if cancellation is requested while a sender or
\* receiver is blocked" (concurrency_utils.H, the header comment).
CancellationReleases ==
    \A t \in Cancellable : stop /\ At(t, "waiting") ~> ~At(t, "waiting")
=============================================================================
