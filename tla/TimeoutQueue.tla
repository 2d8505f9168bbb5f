---------------------------- MODULE TimeoutQueue ----------------------------
(***************************************************************************)
(* TimeoutQueue (timeoutQueue.H, timeoutQueue.C): events in a heap         *)
(* (BinHeap) keyed by the time they are due, a thread that sleeps until    *)
(* the first of them is due and runs it with the mutex released, and       *)
(* clients that schedule, reschedule, cancel and delete events from any    *)
(* thread, an event's own EventFct included.                               *)
(*                                                                         *)
(* A step is a critical section of mtx, or what a thread does after it     *)
(* has unlocked.  Both of the thread's clocks are one clock; callbacks     *)
(* and EventFct appear by the calls they make, which a client can make at  *)
(* the same moment.  A notification rouses a thread, which then needs      *)
(* steps of its own to get the mutex back.                                 *)
(***************************************************************************)
EXTENDS BinHeap, FiniteSets

CONSTANTS Events,      \* the events, each allocated once
          Clients,     \* the threads that call the queue
          MaxTime,     \* bound: the clock stops there
          MaxCalls,    \* bound: calls that change the queue, in all
          Requeues     \* whether events are scheduled again while they run

NoEvent == "no event"

ASSUME TimeoutAssumption ==
    /\ IsFiniteSet(Events) /\ IsFiniteSet(Clients)
    /\ NoEvent \notin Events
    /\ MaxTime \in Nat /\ MaxCalls \in Nat
    /\ Requeues \in BOOLEAN

VARIABLES
    now,              \* the clock
    due,              \* the events' trigger times, their keys in the heap
    status,           \* Event::execution_status
    prio_queue,       \* the heap of events, from root to last
    event_map,        \* the events found by id
    event_registry,   \* the events that the queue manages
    isShutdown,
    isPaused,
    executedCount,
    canceledCount,
    worker,           \* where triggerEvent() is
    original,         \* its original_trigger_time
    current,          \* its event_to_execute
    emptied,          \* its became_empty
    pc,               \* where each client is in its call
    calls,            \* how many calls have been made
    accepted,         \* history: insertions into the heap, since reset_stats
    requeued,         \* history: current was scheduled while it ran
    rekeyed           \* history: a key has been changed in the heap

queueVars == <<prio_queue, event_map, event_registry, status, rekeyed>>
workerVars == <<worker, original, current, emptied>>
vars == <<now, due, queueVars, isShutdown, isPaused, executedCount,
          canceledCount, workerVars, pc, calls, accepted, requeued>>

Time == 0 .. MaxTime
Statuses == {"Out_Queue", "In_Queue", "Canceled", "Executing", "Executed",
             "To_Delete", "Deleted"}

Init ==
    /\ now = 0
    /\ due = [e \in Events |-> 0]
    /\ status = [e \in Events |-> "Out_Queue"]
    /\ prio_queue = <<>>
    /\ event_map = {}
    /\ event_registry = {}
    /\ isShutdown = FALSE
    /\ isPaused = FALSE
    /\ executedCount = 0
    /\ canceledCount = 0
    /\ worker = "awake"
    /\ original = 0
    /\ current = NoEvent
    /\ emptied = FALSE
    /\ pc = [c \in Clients |-> "idle"]
    /\ calls = 0
    /\ accepted = 0
    /\ requeued = FALSE
    /\ rekeyed = FALSE

\* The events in the heap, and the one on top of it.
Queued == ToSet(prio_queue)
Top == prio_queue[1]

\* What prio_queue.remove and getMin leave.
Without(e) == IF e \in Queued THEN HeapRemove(due, prio_queue, e) ELSE prio_queue

\* EventFct is running, outside the mutex.
Runs(e) == worker = "running" /\ current = e

\* cond.notify_one() and notify_all(): only the worker waits on cond.
NotifyWorker ==
    worker' = CASE worker = "sleeping" -> "awake"
                [] worker = "timed wait" -> "roused"
                [] OTHER -> worker

\* emptyCondition.notify_all().
Wake(waits) == [c \in Clients |-> IF waits[c] = "waiting" THEN "woken"
                                                         ELSE waits[c]]

\* The process has not been terminated.
Up == worker # "terminated"

-----------------------------------------------------------------------------
(* The clients.  Each call is a critical section; "notify" is the rest of   *)
(* a call that has emptied the heap or not and has yet to notify.           *)

\* A call that changes the queue begins.
Call(c) == Up /\ pc[c] = "idle" /\ calls < MaxCalls /\ calls' = calls + 1

Returns == UNCHANGED pc
NotifyLater(c, empty) ==
    pc' = [pc EXCEPT ![c] = IF empty THEN "notify empty" ELSE "notify"]

\* Mutant of Enqueue: the worker is not notified.
EnqueueSilent(e, t) ==
    /\ due' = [due EXCEPT ![e] = t]
    /\ status' = [status EXCEPT ![e] = "In_Queue"]
    /\ prio_queue' = HeapInsert(due', Without(e), e)
    /\ event_map' = event_map \cup {e}
    /\ accepted' = IF e \in Queued THEN accepted ELSE accepted + 1
    /\ requeued' = (requeued \/ Runs(e))
    /\ UNCHANGED <<worker, rekeyed>>

\* The event enters the heap with the given time and the worker is notified.
Enqueue(e, t) ==
    /\ due' = [due EXCEPT ![e] = t]
    /\ status' = [status EXCEPT ![e] = "In_Queue"]
    /\ prio_queue' = HeapInsert(due', Without(e), e)
    /\ event_map' = event_map \cup {e}
    /\ accepted' = IF e \in Queued THEN accepted ELSE accepted + 1
    /\ requeued' = (requeued \/ Runs(e))
    /\ UNCHANGED rekeyed
    /\ NotifyWorker

\* Mutant of Dequeue: the event stays in the map of ids.
DequeueKeepsId(e, outcome) ==
    /\ prio_queue' = Without(e)
    /\ rekeyed' = (rekeyed /\ prio_queue' # <<>>)
    /\ event_registry' = event_registry \ {e}
    /\ status' = [status EXCEPT ![e] = outcome]
    /\ UNCHANGED event_map

\* The event leaves the heap, the map and the registry; a heap that was out
\* of order is in order when nothing is left of it.
Dequeue(e, outcome) ==
    /\ prio_queue' = Without(e)
    /\ rekeyed' = (rekeyed /\ prio_queue' # <<>>)
    /\ event_map' = event_map \ {e}
    /\ event_registry' = event_registry \ {e}
    /\ status' = [status EXCEPT ![e] = outcome]

\* schedule_event of a queued event: the event has its new time, written
\* before the mutex is taken, when the call throws; the heap stays as it was.
Rekey(e, t) ==
    /\ status[e] = "In_Queue"
    /\ due' = [due EXCEPT ![e] = t]
    /\ rekeyed' = (rekeyed \/ t # due[e])
    /\ UNCHANGED <<status, prio_queue, event_map, accepted, requeued, worker>>

\* schedule_event after shutdown leaves the event out of the heap.
TurnAway(e, t) ==
    /\ status[e] # "In_Queue" /\ isShutdown
    /\ due' = [due EXCEPT ![e] = t]
    /\ requeued' = (requeued \/ Runs(e))
    /\ UNCHANGED <<status, prio_queue, event_map, accepted, worker, rekeyed>>

\* schedule_event and schedule_after_ms, of an event that its caller still
\* owns; an EventFct may schedule its own event.  The time is written without
\* the mutex, in one step with the rest: outside the heap nobody reads it
\* before the event is inserted, and in the heap the rest is the throw.
Schedule(c, e, t) ==
    /\ Call(c)
    /\ status[e] # "Deleted"
    /\ status[e] = "To_Delete" => Runs(e)
    /\ Runs(e) => Requeues
    /\ event_registry' = event_registry \cup {e}
    /\ \/ Rekey(e, t)
       \/ TurnAway(e, t)
       \/ status[e] # "In_Queue" /\ ~isShutdown /\ Enqueue(e, t)
    /\ Returns
    /\ UNCHANGED <<now, isShutdown, isPaused, executedCount, canceledCount,
                   original, current, emptied>>

\* reschedule_event; it throws when the event is not in the registry.
Reschedule(c, e, t) ==
    /\ Call(c)
    /\ e \in event_registry /\ ~isShutdown
    /\ Runs(e) => Requeues
    /\ Enqueue(e, t)
    /\ Returns
    /\ UNCHANGED <<now, event_registry, isShutdown, isPaused, executedCount,
                   canceledCount, original, current, emptied>>

\* cancel_event and cancel_by_id of a queued event; of any other they
\* return false and change nothing.
Cancel(c, e) ==
    /\ Call(c)
    /\ e \in event_registry /\ status[e] = "In_Queue"
    /\ Dequeue(e, "Canceled")
    /\ canceledCount' = canceledCount + 1
    /\ NotifyLater(c, prio_queue' = <<>>)
    /\ UNCHANGED <<now, due, isShutdown, isPaused, executedCount, workerVars,
                   accepted, requeued>>

\* The event is deleted without having been dequeued.
DeleteOnly(e) ==
    /\ status' = [status EXCEPT ![e] = "Deleted"]
    /\ UNCHANGED <<prio_queue, event_map, event_registry, rekeyed>>

\* Mutant of CancelDelete: a running event is deleted at once as well.
CancelDeleteNow(c, e) ==
    /\ Call(c)
    /\ e \in event_registry /\ status[e] # "Deleted"
    /\ IF status[e] = "In_Queue"
       THEN /\ Dequeue(e, "Deleted")
            /\ canceledCount' = canceledCount + 1
            /\ NotifyLater(c, prio_queue' = <<>>)
       ELSE /\ DeleteOnly(e)
            /\ NotifyLater(c, FALSE)
            /\ UNCHANGED canceledCount
    /\ UNCHANGED <<now, due, isShutdown, isPaused, executedCount, workerVars,
                   accepted, requeued>>

\* cancel_delete_event: a running event is left to the worker, any other is
\* deleted at once, one that shutdown kept out of the heap without leaving
\* the registry; it throws when the event is not in the registry.
CancelDelete(c, e) ==
    /\ Call(c)
    /\ e \in event_registry /\ status[e] # "Deleted"
    /\ CASE status[e] = "Executing" ->
              /\ Dequeue(e, "To_Delete")
              /\ Returns
              /\ UNCHANGED canceledCount
         [] status[e] = "In_Queue" ->
              /\ Dequeue(e, "Deleted")
              /\ canceledCount' = canceledCount + 1
              /\ NotifyLater(c, prio_queue' = <<>>)
         [] OTHER ->
              /\ DeleteOnly(e)
              /\ NotifyLater(c, FALSE)
              /\ UNCHANGED canceledCount
    /\ UNCHANGED <<now, due, isShutdown, isPaused, executedCount, workerVars,
                   accepted, requeued>>

\* clear_all unlocks around the callback of every event it cancels.
ClearAll(c) ==
    /\ Call(c)
    /\ pc' = [pc EXCEPT ![c] = "clearing"]
    /\ UNCHANGED <<now, due, queueVars, isShutdown, isPaused, executedCount,
                   canceledCount, workerVars, accepted, requeued>>

ClearOne(c) ==
    /\ Up /\ pc[c] = "clearing"
    /\ prio_queue # <<>> /\ Dequeue(Top, "Canceled")
    /\ canceledCount' = canceledCount + 1
    /\ UNCHANGED <<now, due, isShutdown, isPaused, executedCount, workerVars,
                   pc, calls, accepted, requeued>>

\* Mutant of ClearEnd: only the worker is notified.
ClearEndSilent(c) ==
    /\ Up /\ pc[c] = "clearing" /\ prio_queue = <<>>
    /\ NotifyWorker
    /\ pc' = [pc EXCEPT ![c] = "idle"]
    /\ UNCHANGED <<now, due, queueVars, isShutdown, isPaused, executedCount,
                   canceledCount, original, current, emptied, calls, accepted,
                   requeued>>

ClearEnd(c) ==
    /\ Up /\ pc[c] = "clearing" /\ prio_queue = <<>>
    /\ NotifyWorker
    /\ pc' = [Wake(pc) EXCEPT ![c] = "idle"]
    /\ UNCHANGED <<now, due, queueVars, isShutdown, isPaused, executedCount,
                   canceledCount, original, current, emptied, calls, accepted,
                   requeued>>

\* What follows the critical section: the callback, then the notifications.
NotifyAfter(c) ==
    /\ Up /\ pc[c] \in {"notify", "notify empty"}
    /\ NotifyWorker
    /\ pc' = [IF pc[c] = "notify empty" THEN Wake(pc) ELSE pc
                 EXCEPT ![c] = "idle"]
    /\ UNCHANGED <<now, due, queueVars, isShutdown, isPaused, executedCount,
                   canceledCount, original, current, emptied, calls, accepted,
                   requeued>>

\* Mutant of Shutdown: the flag is set and nobody is notified.
ShutdownSilent(c) ==
    /\ Call(c)
    /\ isShutdown' = TRUE
    /\ Returns
    /\ UNCHANGED <<now, due, queueVars, isPaused, executedCount, canceledCount,
                   workerVars, accepted, requeued>>

\* shutdown and the destructor.
Shutdown(c) ==
    /\ Call(c)
    /\ isShutdown' = TRUE
    /\ NotifyWorker
    /\ Returns
    /\ UNCHANGED <<now, due, queueVars, isPaused, executedCount, canceledCount,
                   original, current, emptied, accepted, requeued>>

Pause(c) ==
    /\ Call(c)
    /\ isPaused' = TRUE
    /\ Returns
    /\ UNCHANGED <<now, due, queueVars, isShutdown, executedCount,
                   canceledCount, workerVars, accepted, requeued>>

Resume(c) ==
    /\ Call(c)
    /\ isPaused' = FALSE
    /\ NotifyWorker
    /\ Returns
    /\ UNCHANGED <<now, due, queueVars, isShutdown, executedCount,
                   canceledCount, original, current, emptied, accepted,
                   requeued>>

\* wait_until_empty: its first test, and those after it.
WaitUntilEmpty(c) ==
    /\ \/ Call(c) /\ prio_queue # <<>>
       \/ Up /\ pc[c] = "woken" /\ UNCHANGED calls
    /\ pc' = [pc EXCEPT ![c] = IF prio_queue = <<>> \/ isShutdown
                               THEN "idle" ELSE "waiting"]
    /\ UNCHANGED <<now, due, queueVars, isShutdown, isPaused, executedCount,
                   canceledCount, workerVars, accepted, requeued>>

\* wait_until_empty with a timeout gives up.
WaitTimesOut(c) ==
    /\ Up /\ pc[c] = "waiting"
    /\ pc' = [pc EXCEPT ![c] = "idle"]
    /\ UNCHANGED <<now, due, queueVars, isShutdown, isPaused, executedCount,
                   canceledCount, workerVars, calls, accepted, requeued>>

\* reset_stats; what is queued or running has not been counted yet.
ResetStats(c) ==
    /\ Call(c)
    /\ executedCount' = 0
    /\ canceledCount' = 0
    /\ accepted' = Len(prio_queue) + Cardinality({e \in Events : Runs(e)})
    /\ Returns
    /\ UNCHANGED <<now, due, queueVars, isShutdown, isPaused, workerVars,
                   requeued>>

-----------------------------------------------------------------------------
(* The worker: triggerEvent().                                             *)

WorkerFrame == UNCHANGED <<now, due, isShutdown, isPaused, calls, accepted>>

\* The top of the loop, up to the wait that releases the mutex.
Decide ==
    /\ worker \in {"awake", "roused"}
    /\ worker' = IF isShutdown THEN "draining"
                 ELSE IF prio_queue = <<>> \/ isPaused THEN "sleeping"
                 ELSE "timed wait"
    /\ original' = IF worker' = "timed wait" THEN due[Top] ELSE original
    /\ UNCHANGED <<queueVars, executedCount, canceledCount, current, emptied,
                   pc, requeued>>
    /\ WorkerFrame

\* Mutant of NotYet: the new first event's time is not looked at.
NotYetEmpty == prio_queue = <<>>

\* The event that is first now is not one to run at the time waited for.
NotYet == prio_queue = <<>> \/ due[Top] > original

\* wait_until has reached its deadline; the heap may have changed meanwhile.
TimedOut ==
    /\ worker \in {"timed wait", "roused"}
    /\ now >= original
    /\ IF isShutdown \/ isPaused \/ NotYet
       THEN /\ worker' = IF isShutdown THEN "draining" ELSE "awake"
            /\ UNCHANGED <<prio_queue, status, rekeyed, current, requeued>>
       ELSE /\ prio_queue' = Without(Top)
            /\ rekeyed' = (rekeyed /\ prio_queue' # <<>>)
            /\ status' = [status EXCEPT ![Top] = "Executing"]
            /\ current' = Top
            /\ requeued' = FALSE
            /\ worker' = "running"
    /\ UNCHANGED <<event_map, event_registry, executedCount, canceledCount,
                   original, emptied, pc>>
    /\ WorkerFrame

\* EventFct has returned or thrown, and the mutex is taken again.  A status
\* read from a deleted event, or an exception of event_map.remove, ends the
\* process: nothing catches it.
Finish ==
    /\ worker = "running"
    /\ executedCount' = executedCount + 1
    /\ emptied' = (prio_queue = <<>>)
    /\ \/ /\ status[current] = "To_Delete"
          /\ status' = [status EXCEPT ![current] = "Deleted"]
          /\ worker' = "finished"
          /\ UNCHANGED <<prio_queue, event_map, event_registry, rekeyed>>
       \/ /\ status[current] = "In_Queue"
          /\ worker' = "finished"
          /\ UNCHANGED queueVars
       \/ /\ status[current] \in {"Executing", "Canceled"}
          /\ current \in event_map
          /\ Dequeue(current, "Executed")
          /\ worker' = "finished"
       \/ /\ \/ status[current] = "Deleted"
             \/ status[current] \in {"Executing", "Canceled"}
                /\ current \notin event_map
          /\ worker' = "terminated"
          /\ UNCHANGED queueVars
    /\ UNCHANGED <<canceledCount, original, current, pc, requeued>>
    /\ WorkerFrame

\* The completion callback, then the notification, with the mutex released.
AfterFinish ==
    /\ worker = "finished"
    /\ pc' = IF emptied THEN Wake(pc) ELSE pc
    /\ worker' = "awake"
    /\ current' = NoEvent
    /\ emptied' = FALSE
    /\ UNCHANGED <<queueVars, executedCount, canceledCount, original, requeued>>
    /\ WorkerFrame

\* Mutant of Drain: the first event is read and not taken out.
DrainTop ==
    /\ worker = "draining"
    /\ IF prio_queue = <<>>
       THEN /\ worker' = "ended"
            /\ pc' = Wake(pc)
            /\ UNCHANGED <<queueVars, canceledCount>>
       ELSE /\ canceledCount' = canceledCount + 1
            /\ UNCHANGED <<queueVars, worker, pc>>
    /\ UNCHANGED <<executedCount, original, current, emptied, requeued>>
    /\ WorkerFrame

\* Shutdown cancels what is left, one event per critical section.
Drain ==
    /\ worker = "draining"
    /\ IF prio_queue = <<>>
       THEN /\ worker' = "ended"
            /\ pc' = Wake(pc)
            /\ UNCHANGED <<queueVars, canceledCount>>
       ELSE /\ Dequeue(Top, "Canceled")
            /\ canceledCount' = canceledCount + 1
            /\ UNCHANGED <<worker, pc>>
    /\ UNCHANGED <<executedCount, original, current, emptied, requeued>>
    /\ WorkerFrame

Tick ==
    /\ Up /\ now < MaxTime
    /\ now' = now + 1
    /\ UNCHANGED <<due, queueVars, isShutdown, isPaused, executedCount,
                   canceledCount, workerVars, pc, calls, accepted, requeued>>

WorkerStep == Decide \/ TimedOut \/ Finish \/ AfterFinish \/ Drain

\* What a client has begun and finishes by itself.
ClientContinues(c) ==
    \/ ClearOne(c)
    \/ ClearEnd(c)
    \/ NotifyAfter(c)
    \/ pc[c] = "woken" /\ WaitUntilEmpty(c)

Next ==
    \/ \E c \in Clients, e \in Events :
          \/ \E t \in Time : Schedule(c, e, t) \/ Reschedule(c, e, t)
          \/ Cancel(c, e)
          \/ CancelDelete(c, e)
    \/ \E c \in Clients :
          \/ ClearAll(c) \/ ClearOne(c) \/ ClearEnd(c)
          \/ NotifyAfter(c)
          \/ Shutdown(c) \/ Pause(c) \/ Resume(c)
          \/ WaitUntilEmpty(c) \/ WaitTimesOut(c)
          \/ ResetStats(c)
    \/ WorkerStep
    \/ Tick

Spec == Init /\ [][Next]_vars
-----------------------------------------------------------------------------
(* Properties.                                                             *)

(* Types, and what the worker holds at each point of its loop.               *)
TimeoutTypeOK ==
    /\ now \in Time /\ due \in [Events -> Time] /\ original \in Time
    /\ status \in [Events -> Statuses]
    /\ Queued \subseteq Events /\ rekeyed \in BOOLEAN
    /\ event_map \subseteq Events
    /\ event_registry \subseteq Events
    /\ isShutdown \in BOOLEAN /\ isPaused \in BOOLEAN
    /\ accepted \in 0 .. MaxCalls
    /\ executedCount \in 0 .. accepted /\ canceledCount \in 0 .. accepted
    /\ worker \in {"awake", "sleeping", "timed wait", "roused", "running",
                   "finished", "draining", "ended", "terminated"}
    /\ current \in Events \cup {NoEvent}
    /\ worker \in {"running", "finished"} => current # NoEvent
    /\ emptied \in BOOLEAN /\ requeued \in BOOLEAN
    /\ pc \in [Clients -> {"idle", "notify", "notify empty", "clearing",
                           "waiting", "woken"}]
    /\ calls \in 0 .. MaxCalls

(* The heap, the map of ids, the registry and the events' status are four    *)
(* records of the same thing, changed by eight operations, two of which      *)
(* release the mutex half-way: the heap holds exactly the events in state    *)
(* In_Queue, the map and the registry know all of those, neither of the two  *)
(* ever holds a deleted event (but for one that came after shutdown, which   *)
(* the registry alone keeps), and every insertion is accounted for once:     *)
(* executed, canceled, still queued, or running.                             *)
Bookkeeping ==
    /\ Queued = {e \in Events : status[e] = "In_Queue"}
    /\ Queued \subseteq event_map \cap event_registry
    /\ \A e \in event_map \cup event_registry :
          status[e] = "Deleted" => isShutdown /\ e \notin event_map
    /\ accepted = executedCount + canceledCount + Len(prio_queue)
                      + Cardinality({e \in Events : Runs(e)})

(* The worker runs an event with the mutex released.  As long as nobody puts *)
(* that event back into the queue while it runs, no client can delete it or  *)
(* take it out of the map under the worker's feet, and the worker survives.  *)
WorkerSafe ==
    requeued
    \/ /\ Up
       /\ worker = "running" =>
             \/ status[current] = "To_Delete"
             \/ /\ status[current] = "Executing"
                /\ current \in event_map \cap event_registry

\* The worker starts the event that was on top.
Starts == worker' = "running" /\ worker # "running"

(* The worker decides on an event after a wait in which the heap may have    *)
(* changed in every way: it never starts one before its time, nor once the   *)
(* queue is paused or shut down, whatever the calls and their errors; nor    *)
(* while an earlier one is queued, unless schedule_event of a queued event   *)
(* has changed a key in the heap since the heap was last empty: then it may. *)
StartsInTime ==
    [][Starts => /\ due[current'] <= now
                 /\ rekeyed \/ \A e \in Queued : due[current'] <= due[e]
                 /\ ~isPaused /\ ~isShutdown]_vars

(* No wake-up of wait_until_empty is lost: while a thread sleeps in it and   *)
(* the heap is empty, somebody is still on its way to notify; and nobody     *)
(* sleeps in it when the worker has ended.                                   *)
EmptyWakeups ==
    (\E c \in Clients : pc[c] = "waiting") =>
    /\ worker # "ended"
    /\ prio_queue = <<>> =>
          \/ \E c \in Clients : pc[c] \in {"notify empty", "clearing"}
          \/ worker \in {"running", "draining", "terminated"}
          \/ worker = "finished" /\ emptied

-----------------------------------------------------------------------------
(* Every thread goes on with what it has begun, EventFct and the callbacks  *)
(* return, and time passes.                                                 *)
FairSpec ==
    /\ Spec
    /\ WF_vars(WorkerStep)
    /\ \A c \in Clients : WF_vars(ClientContinues(c))
    /\ WF_vars(Tick)

(* A queued event leaves the queue, unless the queue is paused: whatever     *)
(* was scheduled, rescheduled or canceled before it, the worker does not     *)
(* sleep through its time.                                                   *)
EventsFire ==
    \A e \in Events :
        e \in Queued ~> e \notin Queued \/ isPaused \/ ~Up

(* After shutdown the worker cancels what is left and ends, and every thread *)
(* in wait_until_empty returns.                                              *)
ShutdownDrains ==
    isShutdown ~> \/ ~Up
                  \/ /\ worker = "ended" /\ prio_queue = <<>>
                     /\ \A c \in Clients : pc[c] # "waiting"
=============================================================================
