---------------------------- MODULE BoundedFifo ----------------------------
(***************************************************************************)
(* What a closable first-in first-out queue of bounded capacity promises,  *)
(* with no thread, lock or condition variable in sight.  It is the         *)
(* abstract specification that the channel of concurrency_utils.H and the  *)
(* queues of the library are shown to implement.                           *)
(***************************************************************************)
EXTENDS Naturals, Sequences

CONSTANTS Element,    \* everything that may be put
          Capacity    \* how many elements the queue holds at most

VARIABLES contents,   \* the queued elements, oldest first
          taken,      \* every element handed out so far, in that order
          closed      \* no element is accepted any more

vars == <<contents, taken, closed>>

Init ==
    /\ contents = <<>>
    /\ taken = <<>>
    /\ closed = FALSE

\* An element enters at the back of an open queue that has room.
Put(e) ==
    /\ ~closed
    /\ Len(contents) < Capacity
    /\ contents' = Append(contents, e)
    /\ UNCHANGED <<taken, closed>>

\* The oldest element leaves, whether or not the queue is closed.
Take ==
    /\ contents # <<>>
    /\ taken' = Append(taken, Head(contents))
    /\ contents' = Tail(contents)
    /\ UNCHANGED closed

Close ==
    /\ closed' = TRUE
    /\ UNCHANGED <<contents, taken>>

Next ==
    \/ \E e \in Element : Put(e)
    \/ Take
    \/ Close

Spec == Init /\ [][Next]_vars
=============================================================================
