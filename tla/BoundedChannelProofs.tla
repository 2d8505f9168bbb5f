------------------------ MODULE BoundedChannelProofs ------------------------
(***************************************************************************)
(* What BoundedChannel guarantees for any number of threads, any capacity  *)
(* and any number of calls: mutual exclusion, that close() leaves nobody   *)
(* asleep, that no wake-up is lost while no element throws, and that the   *)
(* channel implements the abstract bounded queue.                          *)
(***************************************************************************)
EXTENDS BoundedChannel, CountingLemmas, SequenceTheorems

TypeInv == TypeOK /\ Started /\ TokenCalls

USE DEF At, Goto, Threads

-----------------------------------------------------------------------------
(* Types.                                                                  *)

LEMMA AppendType ==
  ASSUME NEW S, NEW seq \in Seq(S), NEW e \in S
  PROVE  Append(seq, e) \in Seq(S)
  OBVIOUS

LEMMA InitTypes == Init => TypeInv
  <1> SUFFICES ASSUME Init PROVE TypeInv
    OBVIOUS
  <1>1. queue \in Seq(Element) /\ taken \in Seq(Element)
    BY DEF Init
  <1>2. pc \in [Threads -> Labels] /\ calls \in [Threads -> Nat]
    BY DEF Init, Labels
  <1>3. \A s \in Senders : calls[s] <= MaxSends
    BY ChannelAssumption DEF Init
  <1>4. TypeOK
    BY <1>1, <1>2, <1>3 DEF Init, TypeOK
  <1>5. Started /\ TokenCalls
    BY DEF Init, Started, TokenCalls
  <1> QED BY <1>4, <1>5 DEF TypeInv

\* Waking waiters keeps every thread at a label.
LEMMA AwakenType ==
  ASSUME TypeOK, NEW cvs
  PROVE  Awaken(cvs) \in [Threads -> Labels]
  BY DEF TypeOK, Awaken, Labels

LEMMA NotifyOneType ==
  ASSUME TypeOK, NEW cv, cv \subseteq Threads, NEW t \in Threads,
         NEW label \in Labels, NotifyOne(cv, t, label)
  PROVE  /\ pc' \in [Threads -> Labels]
         /\ pc'[t] = label \/ pc'[t] = "woken"
         /\ pc[t] # "waiting" => pc'[t] = label
         /\ \A u \in Threads \ {t} :
               pc'[u] = pc[u] \/ (pc[u] = "waiting" /\ pc'[u] = "woken")
  <1> USE DEF TypeOK, Labels
  <1>1. CASE WaitingOn(cv) = {}
    BY <1>1 DEF NotifyOne
  <1>2. CASE WaitingOn(cv) # {}
    <2>1. PICK w \in WaitingOn(cv) : pc' = [pc EXCEPT ![w] = "woken", ![t] = label]
      BY <1>2 DEF NotifyOne
    <2>2. w \in Threads /\ pc[w] = "waiting"
      BY <2>1 DEF WaitingOn
    <2> QED BY <2>1, <2>2
  <1> QED BY <1>1, <1>2

LEMMA StepTypes ==
  ASSUME TypeInv, NEW t \in Threads, Step(t)
  PROVE  TypeInv'
  <1> USE ChannelAssumption DEF TypeInv, TypeOK, Started, TokenCalls, Labels
  <1>1. CASE Proceed(t)
    <2>1. CASE t \in Senders /\ ~closed /\ queue' = Append(queue, <<t, calls[t]>>)
               /\ Goto(t, "notifying") /\ UNCHANGED taken
      BY <1>1, <2>1 DEF Proceed, Leave, Element
    <2>2. CASE t \in Receivers /\ queue # <<>> /\ queue' = Tail(queue)
               /\ taken' = Append(taken, Head(queue)) /\ Goto(t, "notifying")
      <3>1. Head(queue) \in Element /\ Tail(queue) \in Seq(Element)
        BY <2>2
      <3>2. queue' \in Seq(Element) /\ taken' \in Seq(Element)
        BY <2>2, <3>1
      <3> QED BY <1>1, <2>2, <3>2 DEF Proceed, Leave
    <2>3. CASE Goto(t, "idle") /\ UNCHANGED <<queue, taken>>
      BY <1>1, <2>3 DEF Proceed, Leave
    <2> QED BY <1>1, <2>1, <2>2, <2>3 DEF Proceed
  <1>2. CASE Throw(t)
    BY <1>2 DEF Throw, Leave
  <1>3. CASE Notify(t)
    <2>1. \E cv : cv \subseteq Threads /\ NotifyOne(cv, t, "idle")
      BY <1>3 DEF Notify, NotEmpty, NotFull
    <2>2. /\ pc' \in [Threads -> Labels]
          /\ pc'[t] = "idle"
          /\ \A u \in Threads \ {t} :
                pc'[u] = pc[u] \/ (pc[u] = "waiting" /\ pc'[u] = "woken")
      BY <1>3, <2>1, NotifyOneType DEF Notify
    <2> QED BY <1>3, <2>2 DEF Notify
  <1>4. CASE MustWait(t) \/ Registered(t) \/ Decide(t) \/ Sleep(t)
    BY <1>4 DEF MustWait, Registered, Decide, Sleep
  <1>5. CASE Register(t)
    BY <1>5 DEF Register
  <1>6. CASE Unregister(t)
    BY <1>6, AwakenType DEF Unregister, Leave, Awaken
  <1>7. CASE Cancel(t)
    BY <1>7 DEF Cancel, Leave
  <1> QED BY <1>1, <1>2, <1>3, <1>4, <1>5, <1>6, <1>7 DEF Step

LEMMA NextTypes == TypeInv /\ [Next]_vars => TypeInv'
  <1> SUFFICES ASSUME TypeInv, [Next]_vars
               PROVE  TypeInv'
    OBVIOUS
  <1> USE ChannelAssumption DEF TypeInv, TypeOK, Started, TokenCalls, Labels
  <1>1. ASSUME NEW t \in Threads, Call(t) \/ Acquire(t) \/ SpuriousWake(t)
        PROVE  TypeInv'
    <2>1. CASE Call(t)
      BY <2>1 DEF Call, MayCall
    <2>2. CASE Acquire(t)
      BY <2>2 DEF Acquire
    <2>3. CASE SpuriousWake(t)
      BY <2>3 DEF SpuriousWake
    <2> QED BY <1>1, <2>1, <2>2, <2>3
  <1>2. ASSUME NEW t \in Threads, TrySend(t)
        PROVE  TypeInv'
    <2>1. calls' \in [Threads -> Nat] /\ \A s \in Senders : calls'[s] <= MaxSends
      BY <1>2 DEF TrySend, MayCall
    <2>2. queue' \in Seq(Element)
      <3>1. <<t, calls'[t]>> \in Element
        BY <1>2, <2>1 DEF TrySend, Element
      <3>2. queue' = queue \/ queue' = Append(queue, <<t, calls'[t]>>)
        BY <1>2 DEF TrySend
      <3>3. Append(queue, <<t, calls'[t]>>) \in Seq(Element)
        BY <3>1, AppendType
      <3> QED BY <3>2, <3>3
    <2>3. UNCHANGED pc \/ NotifyOne(NotEmpty, t, "idle")
      BY <1>2, Zenon DEF TrySend
    <2>4. /\ pc' \in [Threads -> Labels]
          /\ \A u \in Threads :
                pc'[u] = pc[u] \/ (pc[u] = "waiting" /\ pc'[u] = "woken")
      <3>1. CASE UNCHANGED pc
        BY <3>1
      <3>2. CASE NotifyOne(NotEmpty, t, "idle")
        BY <1>2, <3>2, NotifyOneType DEF TrySend, NotEmpty
      <3> QED BY <2>3, <3>1, <3>2
    <2> QED BY <1>2, <2>1, <2>2, <2>4 DEF TrySend
  <1>3. ASSUME NEW t \in Threads, TryRecv(t)
        PROVE  TypeInv'
    <2>1. calls' \in [Threads -> Nat] /\ \A s \in Senders : calls'[s] <= MaxSends
      BY <1>3 DEF TryRecv, MayCall
    <2>2. queue # <<>> => Head(queue) \in Element /\ Tail(queue) \in Seq(Element)
      OBVIOUS
    <2>3. queue' \in Seq(Element) /\ taken' \in Seq(Element)
      <3>1. \/ queue' = queue /\ taken' = taken
            \/ queue # <<>> /\ queue' = Tail(queue) /\ taken' = Append(taken, Head(queue))
        BY <1>3 DEF TryRecv
      <3>2. queue # <<>> => Append(taken, Head(queue)) \in Seq(Element)
        BY <2>2, AppendType
      <3> QED BY <2>2, <3>1, <3>2
    <2>4. UNCHANGED pc \/ NotifyOne(NotFull, t, "idle")
      BY <1>3, Zenon DEF TryRecv
    <2>5. /\ pc' \in [Threads -> Labels]
          /\ \A u \in Threads :
                pc'[u] = pc[u] \/ (pc[u] = "waiting" /\ pc'[u] = "woken")
      <3>1. CASE UNCHANGED pc
        BY <3>1
      <3>2. CASE NotifyOne(NotFull, t, "idle")
        BY <1>3, <3>2, NotifyOneType DEF TryRecv, NotFull
      <3> QED BY <2>4, <3>1, <3>2
    <2> QED BY <1>3, <2>1, <2>3, <2>5 DEF TryRecv
  <1>4. CASE Close
    BY <1>4, AwakenType DEF Close, Awaken
  <1>5. CASE RequestCancel \/ CopyObservers
    BY <1>5 DEF RequestCancel, CopyObservers, CvOf
  <1>6. CASE NotifyObserver
    BY <1>6, AwakenType DEF NotifyObserver, Awaken
  <1>7. CASE UNCHANGED vars
    BY <1>7 DEF vars
  <1> QED BY <1>1, <1>2, <1>3, <1>4, <1>5, <1>6, <1>7, StepTypes DEF Next

\* Every variable keeps its type, for every number of threads and calls.
THEOREM TypeCorrect == Spec => []TypeOK
  <1>1. Spec => []TypeInv
    BY InitTypes, NextTypes, PTL DEF Spec
  <1> QED BY <1>1, PTL DEF TypeInv

-----------------------------------------------------------------------------
(* Mutual exclusion, and what a thread that is about to sleep still knows.  *)

\* The predicate a thread found false stays false until it lets go of the
\* mutex, because whatever could make it true needs the mutex.
UnreadyInside ==
    \A t \in Threads :
        pc[t] \in {"registering", "registered", "sleeping"} => ~Ready(t)

LockInv == TypeInv /\ MutexHeldInside /\ UnreadyInside /\ ClosedNobodySleeps

\* What a notification does to the program counters, in one formula.
Wakes(P, Q) ==
    \A u \in Threads : Q[u] = P[u] \/ (P[u] = "waiting" /\ Q[u] = "woken")

LEMMA InitLock == Init => LockInv
  BY InitTypes, ChannelAssumption
  DEF Init, LockInv, MutexHeldInside, UnreadyInside, ClosedNobodySleeps, InCriticalSection

LEMMA StepLock ==
  ASSUME LockInv, TypeInv', NEW t \in Threads, Step(t)
  PROVE  LockInv'
  <1> USE ChannelAssumption
      DEF LockInv, MutexHeldInside, UnreadyInside, ClosedNobodySleeps, InCriticalSection
  <1> USE DEF TypeInv, TypeOK, Labels
  <1>1. CASE Proceed(t)
    <2>1. /\ pc' = [pc EXCEPT ![t] = "notifying"] \/ pc' = [pc EXCEPT ![t] = "idle"]
          /\ mutex = t /\ mutex' = NoThread /\ closed' = closed
      BY <1>1 DEF Proceed, Leave
    <2> QED BY <2>1
  <1>2. CASE Throw(t)
    BY <1>2 DEF Throw, Leave
  <1>3. CASE Notify(t)
    <2>1. \E cv : cv \subseteq Threads /\ NotifyOne(cv, t, "idle")
      BY <1>3 DEF Notify, NotEmpty, NotFull
    <2>2. /\ pc'[t] = "idle"
          /\ \A u \in Threads \ {t} :
                pc'[u] = pc[u] \/ (pc[u] = "waiting" /\ pc'[u] = "woken")
      BY <1>3, <2>1, NotifyOneType DEF Notify
    <2>3. \A u \in Threads : Ready(u)' <=> Ready(u)
      BY <1>3 DEF Notify, Ready
    <2> QED BY <1>3, <2>2, <2>3 DEF Notify
  <1>4. CASE MustWait(t)
    BY <1>4 DEF MustWait, Ready
  <1>5. CASE Registered(t)
    BY <1>5 DEF Registered, Ready
  <1>6. CASE Decide(t)
    BY <1>6 DEF Decide, Ready
  <1>7. CASE Sleep(t)
    BY <1>7 DEF Sleep, Ready
  <1>8. CASE Register(t)
    BY <1>8 DEF Register, Ready
  <1>9. CASE Unregister(t)
    BY <1>9 DEF Unregister, Leave, Awaken, Ready
  <1>10. CASE Cancel(t)
    BY <1>10 DEF Cancel, Leave, Ready
  <1> QED BY <1>1, <1>2, <1>3, <1>4, <1>5, <1>6, <1>7, <1>8, <1>9, <1>10 DEF Step

LEMMA NextLock == LockInv /\ [Next]_vars => LockInv'
  <1> SUFFICES ASSUME LockInv, [Next]_vars
               PROVE  LockInv'
    OBVIOUS
  <1>0. TypeInv'
    BY NextTypes DEF LockInv
  <1> USE <1>0, ChannelAssumption
      DEF LockInv, MutexHeldInside, UnreadyInside, ClosedNobodySleeps, InCriticalSection
  <1>1. ASSUME NEW t \in Threads, Call(t)
        PROVE  LockInv'
    BY <1>1 DEF Call, Ready, TypeInv, TypeOK, Labels
  <1>2. ASSUME NEW t \in Threads, Acquire(t)
        PROVE  LockInv'
    BY <1>2 DEF Acquire, Ready, TypeInv, TypeOK, Labels
  <1>3. ASSUME NEW t \in Threads, SpuriousWake(t)
        PROVE  LockInv'
    BY <1>3 DEF SpuriousWake, Ready, TypeInv, TypeOK, Labels
  <1>4. ASSUME NEW t \in Threads, TrySend(t) \/ TryRecv(t)
        PROVE  LockInv'
    <2>1. /\ mutex = NoThread /\ mutex' = NoThread /\ closed' = closed
          /\ pc[t] = "idle"
      BY <1>4 DEF TrySend, TryRecv
    <2>2. pc' = pc \/ NotifyOne(NotEmpty, t, "idle") \/ NotifyOne(NotFull, t, "idle")
      BY <1>4 DEF TrySend, TryRecv
    <2>3. Wakes(pc, pc')
      <3>1. CASE pc' = pc
        BY <3>1 DEF Wakes
      <3>2. CASE NotifyOne(NotEmpty, t, "idle") \/ NotifyOne(NotFull, t, "idle")
        <4>1. \E cv : cv \subseteq Threads /\ NotifyOne(cv, t, "idle")
          BY <3>2 DEF NotEmpty, NotFull
        <4> QED BY <4>1, <2>1, NotifyOneType DEF Wakes, TypeInv, Labels
      <3> QED BY <2>2, <3>1, <3>2
    <2> QED BY <2>1, <2>3 DEF Wakes
  <1>5. CASE Close
    BY <1>5 DEF Close, Awaken, CvOf, TypeInv, TypeOK, Labels
  <1>6. CASE RequestCancel \/ CopyObservers
    BY <1>6 DEF RequestCancel, CopyObservers, Ready
  <1>7. CASE NotifyObserver
    BY <1>7 DEF NotifyObserver, Awaken, Ready
  <1>8. CASE UNCHANGED vars
    BY <1>8 DEF vars, Ready
  <1> QED BY <1>1, <1>2, <1>3, <1>4, <1>5, <1>6, <1>7, <1>8, StepLock DEF Next

\* No two calls are ever inside the channel, on any path through a wait.
THEOREM MutualExclusion == Spec => []MutexHeldInside
  <1>1. Spec => []LockInv
    BY InitLock, NextLock, PTL DEF Spec
  <1> QED BY <1>1, PTL DEF LockInv

\* After close() no thread sleeps on the channel or goes to sleep.
THEOREM NobodySleepsOnClosed == Spec => []ClosedNobodySleeps
  <1>1. Spec => []LockInv
    BY InitLock, NextLock, PTL DEF Spec
  <1> QED BY <1>1, PTL DEF LockInv

-----------------------------------------------------------------------------
(* No wake-up is lost.  For each role (receivers or senders) the argument   *)
(* keeps an account: the load (queued elements, free places) is covered by  *)
(* the threads of that role that are awake and the threads of the other     *)
(* role that still owe a notification.                                      *)

Account(role, peer, load, next) ==
    \/ role = Receivers /\ peer = Senders /\ load = Len(queue) /\ next = Len(queue')
    \/ /\ role = Senders /\ peer = Receivers
       /\ load = Capacity - Len(queue) /\ next = Capacity - Len(queue')

\* One step of a behaviour keeps the account of a role whose threads still
\* sleep after it.
LEMMA StepBalanced ==
  ASSUME LockInv, LockInv', [Next]_vars,
         NEW role, NEW peer, NEW load, NEW next,
         Account(role, peer, load, next),
         ~elementThrew', WaitingOn(role)' # {}
  PROVE  \/ next <= 0
         \/ /\ WaitingOn(role) # {}
            /\ Balanced(Awake(role), Owing(peer), load, Awake(role)', Owing(peer)', next)
  <1> USE DEF Awake, Owing, WaitingOn, Account
  <1>q. Len(queue) \in Nat /\ Len(queue') \in Nat /\ Capacity \in Nat
    BY ChannelAssumption DEF LockInv, TypeInv, TypeOK
  <1>t. pc \in [Threads -> Labels] /\ pc' \in [Threads -> Labels]
    BY DEF LockInv, TypeInv, TypeOK
  <1>r. role \subseteq Threads /\ peer \subseteq Threads /\ role \cap peer = {}
    BY ChannelAssumption
  <1> USE <1>q, <1>t, <1>r
  <1> DEFINE Kept == /\ Awake(role) \subseteq Awake(role)'
                     /\ Owing(peer) \subseteq Owing(peer)'
                     /\ WaitingOn(role)' \subseteq WaitingOn(role)
  <1>0. ASSUME Kept, queue' = queue
        PROVE  WaitingOn(role) # {} /\ Balanced(Awake(role), Owing(peer), load, Awake(role)', Owing(peer)', next)
    BY <1>0 DEF Balanced
  <1>1. ASSUME NEW t \in Threads, Call(t)
        PROVE  Kept /\ queue' = queue
    BY <1>1 DEF Call
  <1>2. ASSUME NEW t \in Threads, Acquire(t)
        PROVE  Kept /\ queue' = queue
    BY <1>2 DEF Acquire
  <1>3. ASSUME NEW t \in Threads, SpuriousWake(t)
        PROVE  Kept /\ queue' = queue
    BY <1>3 DEF SpuriousWake
  <1>4. ASSUME NEW t \in Threads, MustWait(t) \/ Register(t) \/ Registered(t)
        PROVE  Kept /\ queue' = queue
    BY <1>4 DEF MustWait, Register, Registered
  <1>5. ASSUME NEW t \in Threads, Unregister(t)
        PROVE  Kept /\ queue' = queue
    BY <1>5 DEF Unregister, Awaken
  <1>6. CASE Close \/ NotifyObserver
    <2>1. Kept /\ queue' = queue
      BY <1>6 DEF Close, NotifyObserver, Awaken
    <2> QED BY <1>0, <2>1
  <1>7. CASE RequestCancel \/ CopyObservers \/ UNCHANGED vars
    <2>1. Kept /\ queue' = queue
      BY <1>7 DEF RequestCancel, CopyObservers, vars
    <2> QED BY <1>0, <2>1
  <1> DEFINE Goal == \/ next <= 0
                     \/ /\ WaitingOn(role) # {}
                        /\ Balanced(Awake(role), Owing(peer), load,
                                    Awake(role)', Owing(peer)', next)
  <1>8. ASSUME NEW t \in Threads, Proceed(t)
        PROVE  Goal
    <2>1. CASE t \in Senders /\ ~closed /\ queue' = Append(queue, <<t, calls[t]>>)
               /\ Goto(t, "notifying")
      <3>1. Len(queue') = Len(queue) + 1
        BY <2>1 DEF LockInv, TypeInv, TypeOK
      <3>2. pc[t] \in {"testing", "looping"}
        BY <1>8 DEF Proceed
      <3>3. CASE role = Receivers /\ peer = Senders /\ load = Len(queue) /\ next = Len(queue')
        <4>1. /\ t \notin Owing(peer) /\ Awake(role) \subseteq Awake(role)'
              /\ Owing(peer) \cup {t} \subseteq Owing(peer)'
              /\ WaitingOn(role)' \subseteq WaitingOn(role)
          BY <2>1, <3>2, <3>3
        <4>2. next <= load + 1
          BY <3>1, <3>3
        <4>3. Balanced(Awake(role), Owing(peer), load, Awake(role)', Owing(peer)', next)
          BY <4>1, <4>2 DEF Balanced
        <4> QED BY <4>1, <4>3
      <3>4. CASE role = Senders /\ peer = Receivers /\ load = Capacity - Len(queue)
                 /\ next = Capacity - Len(queue')
        <4>1. /\ Awake(role) \ {t} \subseteq Awake(role)'
              /\ Owing(peer) \subseteq Owing(peer)'
              /\ WaitingOn(role)' \subseteq WaitingOn(role)
          BY <2>1, <3>2, <3>4
        <4>2. next <= load - 1
          BY <3>1, <3>4
        <4>3. Balanced(Awake(role), Owing(peer), load, Awake(role)', Owing(peer)', next)
          BY <4>1, <4>2 DEF Balanced
        <4> QED BY <4>1, <4>3
      <3> QED BY <3>3, <3>4
    <2>2. CASE t \in Receivers /\ queue # <<>> /\ queue' = Tail(queue)
               /\ Goto(t, "notifying")
      <3>1. Len(queue') = Len(queue) - 1
        BY <2>2 DEF LockInv, TypeInv, TypeOK
      <3>2. pc[t] \in {"testing", "looping"}
        BY <1>8 DEF Proceed
      <3>3. CASE role = Receivers /\ peer = Senders /\ load = Len(queue) /\ next = Len(queue')
        <4>1. /\ Awake(role) \ {t} \subseteq Awake(role)'
              /\ Owing(peer) \subseteq Owing(peer)'
              /\ WaitingOn(role)' \subseteq WaitingOn(role)
          BY <2>2, <3>2, <3>3
        <4>2. next <= load - 1
          BY <3>1, <3>3
        <4>3. Balanced(Awake(role), Owing(peer), load, Awake(role)', Owing(peer)', next)
          BY <4>1, <4>2 DEF Balanced
        <4> QED BY <4>1, <4>3
      <3>4. CASE role = Senders /\ peer = Receivers /\ load = Capacity - Len(queue)
                 /\ next = Capacity - Len(queue')
        <4>1. /\ t \notin Owing(peer) /\ Awake(role) \subseteq Awake(role)'
              /\ Owing(peer) \cup {t} \subseteq Owing(peer)'
              /\ WaitingOn(role)' \subseteq WaitingOn(role)
          BY <2>2, <3>2, <3>4
        <4>2. next <= load + 1
          BY <3>1, <3>4
        <4>3. Balanced(Awake(role), Owing(peer), load, Awake(role)', Owing(peer)', next)
          BY <4>1, <4>2 DEF Balanced
        <4> QED BY <4>1, <4>3
      <3> QED BY <3>3, <3>4
    <2>3. CASE (IF t \in Senders THEN closed ELSE queue = <<>>)
      <3>1. closed
        BY <1>8, <2>3, ChannelAssumption DEF Proceed, Ready
      <3>2. closed'
        BY <1>8, <3>1 DEF Proceed
      <3> QED BY <3>2 DEF LockInv, ClosedNobodySleeps
    <2> QED BY <1>8, <2>1, <2>2, <2>3 DEF Proceed
  <1>9. ASSUME NEW t \in Threads, Throw(t)
        PROVE  Goal
    BY <1>9 DEF Throw
  <1>10. ASSUME NEW t \in Threads, Cancel(t) \/ Decide(t) \/ Sleep(t)
         PROVE  Goal
    <2>1. queue' = queue
      BY <1>10 DEF Cancel, Decide, Sleep
    <2>2. CASE t \in role
      <3>1. ~Ready(t)
        BY <1>10 DEF Cancel, Decide, Sleep, LockInv, UnreadyInside
      <3>2. next <= 0
        <4>1. CASE role = Receivers /\ next = Len(queue')
          <5>1. queue = <<>>
            BY <2>2, <3>1, <4>1 DEF Ready
          <5> QED BY <2>1, <4>1, <5>1
        <4>2. CASE role = Senders /\ next = Capacity - Len(queue')
          <5>1. ~(Len(queue) < Capacity)
            BY <2>2, <3>1, <4>2 DEF Ready
          <5> QED BY <2>1, <4>2, <5>1
        <4> QED BY <4>1, <4>2
      <3> QED BY <3>2
    <2>3. CASE t \notin role
      <3>1. Kept
        BY <1>10, <2>3 DEF Cancel, Decide, Sleep
      <3> QED BY <1>0, <2>1, <3>1
    <2> QED BY <2>2, <2>3
  <1>11. ASSUME NEW t \in Threads, Notify(t)
         PROVE  Goal
    <2>1. /\ queue' = queue /\ pc[t] = "notifying"
          /\ \/ t \in Senders /\ NotifyOne(Receivers, t, "idle")
             \/ t \in Receivers /\ NotifyOne(Senders, t, "idle")
      BY <1>11 DEF Notify, NotEmpty, NotFull
    <2>2. CASE t \in role
      <3>1. /\ pc'[t] = "idle"
            /\ \A u \in Threads \ {t} :
                  pc'[u] = pc[u] \/ (pc[u] = "waiting" /\ pc'[u] = "woken")
        <4>1. \E cv : cv \subseteq Threads /\ NotifyOne(cv, t, "idle")
          BY <2>1
        <4> QED BY <2>1, <4>1, NotifyOneType DEF LockInv, TypeInv, Labels
      <3>2. \A u \in peer : pc'[u] = pc[u] \/ (pc[u] = "waiting" /\ pc'[u] = "woken")
        BY <2>2, <3>1
      <3>3. Kept
        BY <2>1, <3>1, <3>2
      <3> QED BY <1>0, <2>1, <3>3
    <2>3. CASE t \in peer
      <3>1. NotifyOne(role, t, "idle")
        BY <2>1, <2>3, ChannelAssumption
      <3>2. CASE WaitingOn(role) = {}
        <4>1. pc' = [pc EXCEPT ![t] = "idle"]
          BY <3>1, <3>2 DEF NotifyOne
        <4>2. WaitingOn(role)' = {}
          BY <3>2, <4>1
        <4> QED BY <4>2
      <3>3. CASE WaitingOn(role) # {}
        <4>1. PICK w \in WaitingOn(role) : pc' = [pc EXCEPT ![w] = "woken", ![t] = "idle"]
          BY <3>1, <3>3 DEF NotifyOne
        <4>2. /\ w \notin Awake(role) /\ Awake(role) \cup {w} \subseteq Awake(role)'
              /\ Owing(peer) \ {t} \subseteq Owing(peer)'
          BY <2>1, <2>3, <4>1
        <4>3. next = load
          BY <2>1
        <4>4. Balanced(Awake(role), Owing(peer), load, Awake(role)', Owing(peer)', next)
          <5>1. next <= load
            BY <4>3
          <5> QED BY <4>2, <5>1 DEF Balanced
        <4> QED BY <3>3, <4>4
      <3> QED BY <3>2, <3>3
    <2> QED BY <2>2, <2>3
  <1>12. ASSUME NEW t \in Threads, TrySend(t)
         PROVE  Goal
    <2>1. CASE closed \/ Len(queue) >= Capacity
      <3>1. queue' = queue /\ pc' = pc
        BY <1>12, <2>1 DEF TrySend
      <3>2. Kept
        BY <3>1
      <3> QED BY <1>0, <3>1, <3>2
    <2>2. CASE ~(closed \/ Len(queue) >= Capacity)
      <3>1. queue' = Append(queue, <<t, calls'[t]>>) /\ NotifyOne(Receivers, t, "idle")
            /\ pc[t] = "idle"
        BY <1>12, <2>2 DEF TrySend, NotEmpty
      <3>2. Len(queue') = Len(queue) + 1
        BY <3>1 DEF LockInv, TypeInv, TypeOK
      <3>3. CASE WaitingOn(Receivers) = {}
        <4>1. pc' = [pc EXCEPT ![t] = "idle"]
          BY <3>1, <3>3 DEF NotifyOne
        <4>2. Kept
          BY <3>1, <4>1
        <4>3. CASE role = Receivers /\ next = Len(queue')
          BY <3>3, <4>2, <4>3
        <4>4. CASE next = Capacity - Len(queue') /\ load = Capacity - Len(queue)
          BY <3>2, <4>2, <4>4 DEF Balanced
        <4> QED BY <4>3, <4>4
      <3>4. CASE WaitingOn(Receivers) # {}
        <4>1. PICK w \in WaitingOn(Receivers) : pc' = [pc EXCEPT ![w] = "woken", ![t] = "idle"]
          BY <3>1, <3>4 DEF NotifyOne
        <4>2. Kept
          BY <3>1, <4>1
        <4>3. CASE role = Receivers /\ next = Len(queue') /\ load = Len(queue)
          <5>1. w \notin Awake(role) /\ Awake(role) \cup {w} \subseteq Awake(role)'
            BY <3>1, <4>1, <4>3
          <5> QED BY <3>2, <4>2, <4>3, <5>1 DEF Balanced
        <4>4. CASE next = Capacity - Len(queue') /\ load = Capacity - Len(queue)
          BY <3>2, <4>2, <4>4 DEF Balanced
        <4> QED BY <4>3, <4>4
      <3> QED BY <3>3, <3>4
    <2> QED BY <2>1, <2>2
  <1>13. ASSUME NEW t \in Threads, TryRecv(t)
         PROVE  Goal
    <2>1. CASE queue = <<>>
      <3>1. queue' = queue /\ pc' = pc
        BY <1>13, <2>1 DEF TryRecv
      <3>2. Kept
        BY <3>1
      <3> QED BY <1>0, <3>1, <3>2
    <2>2. CASE queue # <<>>
      <3>1. queue' = Tail(queue) /\ NotifyOne(Senders, t, "idle") /\ pc[t] = "idle"
        BY <1>13, <2>2 DEF TryRecv, NotFull
      <3>2. Len(queue') = Len(queue) - 1
        BY <2>2, <3>1 DEF LockInv, TypeInv, TypeOK
      <3>3. CASE WaitingOn(Senders) = {}
        <4>1. pc' = [pc EXCEPT ![t] = "idle"]
          BY <3>1, <3>3 DEF NotifyOne
        <4>2. Kept
          BY <3>1, <4>1
        <4>3. CASE role = Senders /\ next = Capacity - Len(queue')
          BY <3>3, <4>2, <4>3
        <4>4. CASE next = Len(queue') /\ load = Len(queue)
          BY <3>2, <4>2, <4>4 DEF Balanced
        <4> QED BY <4>3, <4>4
      <3>4. CASE WaitingOn(Senders) # {}
        <4>1. PICK w \in WaitingOn(Senders) : pc' = [pc EXCEPT ![w] = "woken", ![t] = "idle"]
          BY <3>1, <3>4 DEF NotifyOne
        <4>2. Kept
          BY <3>1, <4>1
        <4>3. CASE role = Senders /\ next = Capacity - Len(queue') /\ load = Capacity - Len(queue)
          <5>1. w \notin Awake(role) /\ Awake(role) \cup {w} \subseteq Awake(role)'
            BY <3>1, <4>1, <4>3
          <5> QED BY <3>2, <4>2, <4>3, <5>1 DEF Balanced
        <4>4. CASE next = Len(queue') /\ load = Len(queue)
          BY <3>2, <4>2, <4>4 DEF Balanced
        <4> QED BY <4>3, <4>4
      <3> QED BY <3>3, <3>4
    <2> QED BY <2>1, <2>2
  <1> QED
    BY <1>0, <1>1, <1>2, <1>3, <1>4, <1>5, <1>6, <1>7, <1>8, <1>9, <1>10, <1>11,
       <1>12, <1>13 DEF Next, Step

WakeInv == LockInv /\ ReceiverWakeups /\ SenderWakeups

LEMMA RolesFinite ==
  ASSUME NEW role, role \subseteq Senders \/ role \subseteq Receivers
  PROVE  IsFiniteSet(Awake(role)) /\ IsFiniteSet(Owing(role))
  <1>1. IsFiniteSet(role)
    BY ChannelAssumption, FS_Subset
  <1>2. Awake(role) \subseteq role /\ Owing(role) \subseteq role
    BY DEF Awake, Owing
  <1> QED BY <1>1, <1>2, FS_Subset

LEMMA RolesFiniteNext ==
  ASSUME NEW role, role \subseteq Senders \/ role \subseteq Receivers
  PROVE  IsFiniteSet(Awake(role)') /\ IsFiniteSet(Owing(role)')
  <1>1. IsFiniteSet(role)
    BY ChannelAssumption, FS_Subset
  <1>2. Awake(role)' \subseteq role /\ Owing(role)' \subseteq role
    BY DEF Awake, Owing
  <1> QED BY <1>1, <1>2, FS_Subset

\* A step keeps the account of one role covered.
LEMMA StepCovers ==
  ASSUME LockInv, LockInv', [Next]_vars,
         NEW role, NEW peer, NEW load \in Int, NEW next \in Int,
         Account(role, peer, load, next),
         ~elementThrew', WaitingOn(role)' # {},
         WaitingOn(role) # {} => load <= Cardinality(Awake(role)) + Cardinality(Owing(peer))
  PROVE  next <= Cardinality(Awake(role)') + Cardinality(Owing(peer)')
  <1>1. /\ IsFiniteSet(Awake(role)) /\ IsFiniteSet(Owing(peer))
        /\ IsFiniteSet(Awake(role)') /\ IsFiniteSet(Owing(peer)')
    BY RolesFinite, RolesFiniteNext DEF Account
  <1>2. /\ Cardinality(Awake(role)') \in Nat
        /\ Cardinality(Owing(peer)') \in Nat
    BY <1>1, FS_CardinalityType
  <1>3. CASE next <= 0
    BY <1>2, <1>3
  <1>4. CASE /\ WaitingOn(role) # {}
             /\ Balanced(Awake(role), Owing(peer), load, Awake(role)', Owing(peer)', next)
    BY <1>1, <1>4, BalancedCovers
  <1> QED BY <1>3, <1>4, StepBalanced

LEMMA NextWake == WakeInv /\ [Next]_vars => WakeInv'
  <1> SUFFICES ASSUME WakeInv, [Next]_vars
               PROVE  WakeInv'
    OBVIOUS
  <1>1. LockInv /\ LockInv'
    BY NextLock DEF WakeInv
  <1>2. Len(queue) \in Nat /\ Len(queue') \in Nat /\ Capacity \in Nat
    BY <1>1, ChannelAssumption DEF LockInv, TypeInv, TypeOK
  <1>3. ~elementThrew' => ~elementThrew
    BY DEF Next, vars, Call, Acquire, Step, SpuriousWake, TrySend, TryRecv, Close,
           RequestCancel, CopyObservers, NotifyObserver, Proceed, Throw, Notify,
           MustWait, Register, Unregister, Registered, Cancel, Decide, Sleep
  <1>4. ReceiverWakeups'
    <2> SUFFICES ASSUME ~elementThrew', WaitingOn(Receivers)' # {}
                 PROVE  Len(queue') <= Cardinality(Awake(Receivers)')
                                       + Cardinality(Owing(Senders)')
      BY DEF ReceiverWakeups, NotEmpty
    <2>1. WaitingOn(Receivers) # {} =>
            Len(queue) <= Cardinality(Awake(Receivers)) + Cardinality(Owing(Senders))
      BY <1>3 DEF WakeInv, ReceiverWakeups, NotEmpty
    <2>2. Account(Receivers, Senders, Len(queue), Len(queue'))
      BY DEF Account
    <2> QED BY <1>1, <1>2, <2>1, <2>2, StepCovers
  <1>5. SenderWakeups'
    <2> SUFFICES ASSUME ~elementThrew', WaitingOn(Senders)' # {}
                 PROVE  Capacity - Len(queue') <= Cardinality(Awake(Senders)')
                                                  + Cardinality(Owing(Receivers)')
      BY DEF SenderWakeups, NotFull
    <2>1. WaitingOn(Senders) # {} =>
            Capacity - Len(queue) <= Cardinality(Awake(Senders)) + Cardinality(Owing(Receivers))
      BY <1>3 DEF WakeInv, SenderWakeups, NotFull
    <2>2. Account(Senders, Receivers, Capacity - Len(queue), Capacity - Len(queue'))
      BY DEF Account
    <2>3. Capacity - Len(queue) \in Int /\ Capacity - Len(queue') \in Int
      BY <1>2
    <2> QED BY <1>1, <2>1, <2>2, <2>3, StepCovers
  <1> QED BY <1>1, <1>4, <1>5 DEF WakeInv

LEMMA InitWake == Init => WakeInv
  <1> SUFFICES ASSUME Init PROVE WakeInv
    OBVIOUS
  <1>1. WaitingOn(Receivers) = {} /\ WaitingOn(Senders) = {}
    BY DEF Init, WaitingOn
  <1> QED BY <1>1, InitLock DEF WakeInv, ReceiverWakeups, SenderWakeups, NotEmpty, NotFull

\* While no element has thrown, a queued element is never left to receivers
\* that are all asleep with nobody about to wake one.
THEOREM NoReceiverWakeupLost == Spec => []ReceiverWakeups
  <1>1. Spec => []WakeInv
    BY InitWake, NextWake, PTL DEF Spec
  <1> QED BY <1>1, PTL DEF WakeInv

\* While no element has thrown, a free place is never left to senders that
\* are all asleep with nobody about to wake one.
THEOREM NoSenderWakeupLost == Spec => []SenderWakeups
  <1>1. Spec => []WakeInv
    BY InitWake, NextWake, PTL DEF Spec
  <1> QED BY <1>1, PTL DEF WakeInv

-----------------------------------------------------------------------------
(* The channel implements the bounded queue.                               *)

LEMMA StepRefines ==
  ASSUME LockInv, [Next]_vars
  PROVE  [Fifo!Next]_(Fifo!vars)
  <1> USE DEF Fifo!Next, Fifo!vars, Fifo!Put, Fifo!Take, Fifo!Close
  <1>1. ASSUME NEW t \in Threads, Proceed(t)
        PROVE  [Fifo!Next]_(Fifo!vars)
    <2>1. CASE t \in Senders /\ ~closed /\ queue' = Append(queue, <<t, calls[t]>>)
               /\ taken' = taken
      <3>1. Len(queue) < Capacity
        BY <1>1, <2>1, ChannelAssumption DEF Proceed, Ready
      <3>2. pc[t] # "idle"
        BY <1>1 DEF Proceed
      <3>3. <<t, calls[t]>> \in Element
        BY <2>1, <3>2, ChannelAssumption DEF Element, LockInv, TypeInv, TypeOK, Started
      <3>4. closed' = closed
        BY <1>1 DEF Proceed
      <3> QED BY <2>1, <3>1, <3>3, <3>4
    <2>2. CASE queue # <<>> /\ queue' = Tail(queue) /\ taken' = Append(taken, Head(queue))
      BY <1>1, <2>2 DEF Proceed
    <2>3. CASE queue' = queue /\ taken' = taken
      BY <1>1, <2>3 DEF Proceed
    <2> QED BY <1>1, <2>1, <2>2, <2>3 DEF Proceed
  <1>2. ASSUME NEW t \in Threads, TrySend(t)
        PROVE  [Fifo!Next]_(Fifo!vars)
    <2>1. CASE closed \/ Len(queue) >= Capacity
      BY <1>2, <2>1 DEF TrySend
    <2>2. CASE ~(closed \/ Len(queue) >= Capacity)
      <3>1. calls'[t] \in 1 .. MaxSends
        BY <1>2, ChannelAssumption DEF TrySend, MayCall, LockInv, TypeInv, TypeOK
      <3>2. <<t, calls'[t]>> \in Element
        BY <1>2, <3>1 DEF TrySend, Element
      <3>3. Len(queue) < Capacity
        BY <2>2, ChannelAssumption DEF LockInv, TypeInv, TypeOK
      <3> QED BY <1>2, <2>2, <3>2, <3>3 DEF TrySend
    <2> QED BY <2>1, <2>2
  <1>3. ASSUME NEW t \in Threads, TryRecv(t)
        PROVE  [Fifo!Next]_(Fifo!vars)
    BY <1>3 DEF TryRecv
  <1>4. CASE Close
    BY <1>4 DEF Close
  <1>5. ASSUME NEW t \in Threads,
               Call(t) \/ Acquire(t) \/ SpuriousWake(t) \/ Throw(t) \/ Notify(t)
               \/ MustWait(t) \/ Register(t) \/ Unregister(t) \/ Registered(t)
               \/ Cancel(t) \/ Decide(t) \/ Sleep(t)
        PROVE  UNCHANGED <<queue, taken, closed>>
    BY <1>5 DEF Call, Acquire, SpuriousWake, Throw, Notify, MustWait, Register,
                Unregister, Registered, Cancel, Decide, Sleep
  <1>6. CASE RequestCancel \/ CopyObservers \/ NotifyObserver \/ UNCHANGED vars
    BY <1>6 DEF RequestCancel, CopyObservers, NotifyObserver, vars
  <1> QED BY <1>1, <1>2, <1>3, <1>4, <1>5, <1>6 DEF Next, Step

\* Whatever the threads, calls, cancellations and exceptions, the channel
\* behaves as one closable bounded FIFO queue.
THEOREM ChannelImplementsFifo == Spec => ImplementsFifo
  <1>1. Init => Fifo!Init
    BY DEF Init, Fifo!Init
  <1>2. LockInv /\ [Next]_vars => [Fifo!Next]_(Fifo!vars)
    BY StepRefines
  <1>3. Spec => []LockInv
    BY InitLock, NextLock, PTL DEF Spec
  <1> QED BY <1>1, <1>2, <1>3, PTL DEF Spec, ImplementsFifo, Fifo!Spec

-----------------------------------------------------------------------------
(* What a step does to the program counters.                               *)

\* TrySend and TryRecv move only waiters that they wake.
LEMMA TryWakes ==
  ASSUME TypeInv, NEW t \in Threads, TrySend(t) \/ TryRecv(t)
  PROVE  Wakes(pc, pc')
  <1>1. pc[t] = "idle"
    BY DEF TrySend, TryRecv
  <1>2. pc' = pc \/ NotifyOne(NotEmpty, t, "idle") \/ NotifyOne(NotFull, t, "idle")
    BY DEF TrySend, TryRecv
  <1>3. CASE pc' = pc
    BY <1>3 DEF Wakes
  <1>4. CASE NotifyOne(NotEmpty, t, "idle") \/ NotifyOne(NotFull, t, "idle")
    <2>1. \E cv : cv \subseteq Threads /\ NotifyOne(cv, t, "idle")
      BY <1>4 DEF NotEmpty, NotFull
    <2> QED BY <1>1, <2>1, NotifyOneType DEF Wakes, TypeInv, Labels
  <1> QED BY <1>2, <1>3, <1>4

\* Notify puts its thread to rest and moves no other, but for one it wakes.
LEMMA NotifyWakes ==
  ASSUME TypeInv, NEW t \in Threads, Notify(t)
  PROVE  /\ pc[t] = "notifying" /\ pc'[t] = "idle"
         /\ \A u \in Threads \ {t} :
               pc'[u] = pc[u] \/ (pc[u] = "waiting" /\ pc'[u] = "woken")
  <1>1. \E cv : cv \subseteq Threads /\ NotifyOne(cv, t, "idle")
    BY DEF Notify, NotEmpty, NotFull
  <1> QED BY <1>1, NotifyOneType DEF Notify, TypeInv, Labels

-----------------------------------------------------------------------------
(* Registrations end with the call.                                        *)

\* The labels at which ObserversAreCallers allows a registration.
Enrolled == {"registered", "looping", "sleeping", "waiting", "woken"}

LEMMA NextObservers ==
  ASSUME TypeInv, ObserversAreCallers, [Next]_vars
  PROVE  ObserversAreCallers'
  <1> USE DEF Enrolled, ObserversAreCallers
  <1>t. pc \in [Threads -> Labels] /\ observers \subseteq Threads
    BY ChannelAssumption DEF TypeInv, TypeOK
  <1>1. ASSUME NEW t \in Threads, Call(t) \/ Acquire(t) \/ SpuriousWake(t)
        PROVE  ObserversAreCallers'
    BY <1>t, <1>1 DEF Call, Acquire, SpuriousWake
  <1>2. ASSUME NEW t \in Threads, TrySend(t) \/ TryRecv(t)
        PROVE  ObserversAreCallers'
    <2>1. Wakes(pc, pc') /\ observers' = observers
      BY <1>2, TryWakes DEF TrySend, TryRecv
    <2> QED BY <1>t, <2>1 DEF Wakes
  <1>3. ASSUME NEW t \in Threads, Proceed(t) \/ Throw(t) \/ Cancel(t)
        PROVE  ObserversAreCallers'
    <2>1. observers' = observers \ {t} /\ \A u \in Threads \ {t} : pc'[u] = pc[u]
      BY <1>t, <1>3 DEF Proceed, Throw, Cancel, Leave
    <2> QED BY <1>t, <2>1
  <1>4. ASSUME NEW t \in Threads, Unregister(t)
        PROVE  ObserversAreCallers'
    <2>1. /\ observers' = observers \ {t}
          /\ \A u \in Threads \ {t} :
                pc'[u] = pc[u] \/ (pc[u] = "waiting" /\ pc'[u] = "woken")
      BY <1>t, <1>4 DEF Unregister, Leave, Awaken
    <2> QED BY <1>t, <2>1
  <1>5. ASSUME NEW t \in Threads, Notify(t)
        PROVE  ObserversAreCallers'
    <2>1. observers' = observers
      BY <1>5 DEF Notify
    <2> QED BY <1>t, <1>5, <2>1, NotifyWakes
  <1>6. ASSUME NEW t \in Threads,
               MustWait(t) \/ Register(t) \/ Registered(t) \/ Decide(t) \/ Sleep(t)
        PROVE  ObserversAreCallers'
    BY <1>t, <1>6 DEF MustWait, Register, Registered, Decide, Sleep
  <1>7. CASE Close \/ NotifyObserver
    BY <1>t, <1>7 DEF Close, NotifyObserver, Awaken
  <1>8. CASE RequestCancel \/ CopyObservers \/ UNCHANGED vars
    BY <1>8 DEF RequestCancel, CopyObservers, vars
  <1> QED
    BY <1>1, <1>2, <1>3, <1>4, <1>5, <1>6, <1>7, <1>8 DEF Next, Step

\* A registration with the cancellation state never outlives the blocking
\* call that made it, on any of its exits.
THEOREM RegistrationsEnd == Spec => []ObserversAreCallers
  <1>1. Init => ObserversAreCallers
    BY DEF Init, ObserversAreCallers
  <1>2. Spec => [](TypeInv /\ ObserversAreCallers)
    BY <1>1, InitTypes, NextTypes, NextObservers, PTL DEF Spec
  <1> QED BY <1>2, PTL

-----------------------------------------------------------------------------
(* The order of each sender's elements.                                    *)

\* Everything ever put into the channel, in the order it was put.
Sent == taken \o queue

\* A sender that has started a call and has not put its element yet.
Pending(t) == pc[t] \notin {"idle", "notifying"}

\* The elements of each sender carry increasing numbers, none above that of
\* its latest call, and all below it while that call has still to put its own.
Ascending ==
    \A i, j \in 1 .. Len(Sent) :
        i < j /\ Sent[i][1] = Sent[j][1] => Sent[i][2] < Sent[j][2]
Numbered ==
    \A i \in 1 .. Len(Sent), s \in Senders :
        Sent[i][1] = s => /\ Sent[i][2] <= calls[s]
                          /\ Pending(s) => Sent[i][2] < calls[s]

OrderInv == Ascending /\ Numbered

LEMMA SentType ==
  ASSUME TypeInv
  PROVE  /\ Sent \in Seq(Element)
         /\ Len(Sent) = Len(taken) + Len(queue)
         /\ Len(Sent) \in Nat /\ Len(taken) \in Nat /\ Len(queue) \in Nat
         /\ \A i \in 1 .. Len(Sent) :
               Sent[i] = IF i <= Len(taken) THEN taken[i] ELSE queue[i - Len(taken)]
  <1>1. taken \in Seq(Element) /\ queue \in Seq(Element)
    BY DEF TypeInv, TypeOK
  <1> QED BY <1>1, ConcatProperties, LenProperties DEF Sent

LEMMA SentNumbers ==
  ASSUME TypeInv
  PROVE  /\ \A i \in 1 .. Len(Sent) : Sent[i][1] \in Senders /\ Sent[i][2] \in Nat
         /\ \A s \in Senders : calls[s] \in Nat
  <1>1. \A i \in 1 .. Len(Sent) : Sent[i] \in Element
    BY SentType, ElementOfSeq
  <1>2. \A i \in 1 .. Len(Sent) : Sent[i][1] \in Senders /\ Sent[i][2] \in 1 .. MaxSends
    BY <1>1 DEF Element
  <1> QED BY <1>2, ChannelAssumption DEF TypeInv, TypeOK

\* Taking the oldest element leaves what was sent as it was.
LEMMA TakeKeepsSent ==
  ASSUME TypeInv, queue # <<>>,
         queue' = Tail(queue), taken' = Append(taken, Head(queue))
  PROVE  Sent' = Sent
  <1>1. taken \in Seq(Element) /\ queue \in Seq(Element)
    BY DEF TypeInv, TypeOK
  <1>2. /\ Head(queue) \in Element /\ Tail(queue) \in Seq(Element)
        /\ <<Head(queue)>> \in Seq(Element)
        /\ queue = <<Head(queue)>> \o Tail(queue)
        /\ Append(taken, Head(queue)) = taken \o <<Head(queue)>>
    BY <1>1, HeadTailProperties, HeadTailAppend, AppendIsConcat, ConcatProperties
  <1>3. (taken \o <<Head(queue)>>) \o Tail(queue)
            = taken \o (<<Head(queue)>> \o Tail(queue))
    BY <1>1, <1>2, ConcatAssociative
  <1> QED BY <1>2, <1>3, Zenon DEF Sent

\* Putting an element appends it to what was sent.
LEMMA PutExtendsSent ==
  ASSUME TypeInv, TypeInv', NEW e \in Element, queue' = Append(queue, e), taken' = taken
  PROVE  /\ Len(Sent') = Len(Sent) + 1
         /\ \A i \in 1 .. Len(Sent) : Sent'[i] = Sent[i]
         /\ Sent'[Len(Sent) + 1] = e
  <1>1. queue \in Seq(Element) /\ queue' \in Seq(Element)
    BY DEF TypeInv, TypeOK
  <1>2. /\ Len(queue') = Len(queue) + 1
        /\ \A i \in 1 .. Len(queue) : queue'[i] = queue[i]
        /\ queue'[Len(queue) + 1] = e
    BY <1>1, AppendProperties
  <1>3. /\ Len(Sent) = Len(taken) + Len(queue)
        /\ Len(taken) \in Nat /\ Len(queue) \in Nat
        /\ \A i \in 1 .. Len(Sent) :
              Sent[i] = IF i <= Len(taken) THEN taken[i] ELSE queue[i - Len(taken)]
    BY SentType
  <1>4. /\ Len(Sent') = Len(taken) + Len(queue')
        /\ \A i \in 1 .. Len(taken) + Len(queue') :
              Sent'[i] = IF i <= Len(taken) THEN taken[i] ELSE queue'[i - Len(taken)]
    <2>1. taken \in Seq(Element) /\ Sent' = taken \o queue'
      BY DEF TypeInv, TypeOK, Sent
    <2> QED BY <1>1, <2>1, ConcatProperties
  <1> HIDE DEF Element
  <1>5. Len(Sent') = Len(Sent) + 1
    BY <1>2, <1>3, <1>4
  <1>6. ASSUME NEW i \in 1 .. Len(Sent)
        PROVE  Sent'[i] = Sent[i]
    <2>1. i \in 1 .. Len(taken) + Len(queue')
      BY <1>2, <1>3
    <2>2. CASE i <= Len(taken)
      BY <1>3, <1>4, <2>1, <2>2
    <2>3. CASE ~(i <= Len(taken))
      <3>1. i - Len(taken) \in 1 .. Len(queue)
        BY <1>3, <2>3
      <3>2. Sent'[i] = queue'[i - Len(taken)]
        BY <1>4, <2>1, <2>3
      <3>3. Sent[i] = queue[i - Len(taken)]
        BY <1>3, <2>3
      <3> QED BY <1>2, <3>1, <3>2, <3>3
    <2> QED BY <2>2, <2>3
  <1>7. Sent'[Len(Sent) + 1] = e
    <2>1. Len(Sent) + 1 \in 1 .. Len(taken) + Len(queue')
          /\ ~(Len(Sent) + 1 <= Len(taken))
          /\ (Len(Sent) + 1) - Len(taken) = Len(queue) + 1
      BY <1>2, <1>3
    <2> QED BY <1>2, <1>4, <2>1
  <1> QED BY <1>5, <1>6, <1>7

\* Putting the element of a sender's latest call keeps the order.
LEMMA PutOrder ==
  ASSUME TypeInv, TypeInv', OrderInv, NEW s \in Senders,
         queue' = Append(queue, <<s, calls'[s]>>), taken' = taken,
         <<s, calls'[s]>> \in Element,
         \A u \in Senders : calls'[u] \in Nat /\ calls[u] <= calls'[u],
         \A u \in Senders : Pending(u)' => u # s /\ Pending(u),
         \A i \in 1 .. Len(Sent) : Sent[i][1] = s => Sent[i][2] < calls'[s]
  PROVE  OrderInv'
  <1> DEFINE e == <<s, calls'[s]>>
             n == Len(Sent)
  <1>1. n \in Nat
    BY SentType
  <1>2. /\ Len(Sent') = n + 1
        /\ \A i \in 1 .. n : Sent'[i] = Sent[i]
        /\ Sent'[n + 1] = e
    BY PutExtendsSent
  <1>3. e[1] = s /\ e[2] = calls'[s]
    OBVIOUS
  <1>4. /\ \A i \in 1 .. n : Sent[i][1] \in Senders /\ Sent[i][2] \in Nat
        /\ \A u \in Senders : calls[u] \in Nat
    BY SentNumbers
  <1>5. \A i \in 1 .. n + 1 : i \in 1 .. n \/ i = n + 1
    BY <1>1
  <1> HIDE DEF e, n
  <1>6. Ascending'
    <2> SUFFICES ASSUME NEW i \in 1 .. n + 1, NEW j \in 1 .. n + 1,
                        i < j, Sent'[i][1] = Sent'[j][1]
                 PROVE  Sent'[i][2] < Sent'[j][2]
      BY <1>2 DEF Ascending
    <2>1. i \in 1 .. n
      BY <1>1
    <2>2. CASE j \in 1 .. n
      BY <1>2, <2>1, <2>2 DEF OrderInv, Ascending, n
    <2>3. CASE j = n + 1
      BY <1>2, <1>3, <2>1, <2>3 DEF n
    <2> QED BY <1>5, <2>2, <2>3
  <1>7. Numbered'
    <2> SUFFICES ASSUME NEW i \in 1 .. n + 1, NEW u \in Senders, Sent'[i][1] = u
                 PROVE  /\ Sent'[i][2] <= calls'[u]
                        /\ Pending(u)' => Sent'[i][2] < calls'[u]
      BY <1>2 DEF Numbered
    <2>1. CASE i \in 1 .. n
      <3>1. Sent'[i] = Sent[i] /\ Sent[i][1] = u /\ Sent[i][2] \in Nat
        BY <1>2, <1>4, <2>1
      <3>2. /\ Sent[i][2] <= calls[u]
            /\ Pending(u) => Sent[i][2] < calls[u]
        BY <2>1, <3>1 DEF OrderInv, Numbered, n
      <3>3. calls[u] \in Nat /\ calls'[u] \in Nat /\ calls[u] <= calls'[u]
        BY <1>4
      <3> QED BY <3>1, <3>2, <3>3
    <2>2. CASE i = n + 1
      BY <1>2, <1>3, <2>2
    <2> QED BY <1>5, <2>1, <2>2
  <1> QED BY <1>6, <1>7 DEF OrderInv

\* A step that puts nothing keeps it, if no thread starts to wait to put
\* an element without a call of its own.
LEMMA KeepOrder ==
  ASSUME TypeInv, OrderInv, Sent' = Sent,
         \A u \in Senders :
            /\ calls'[u] \in Nat /\ calls[u] <= calls'[u]
            /\ Pending(u)' => Pending(u) \/ calls[u] < calls'[u]
  PROVE  OrderInv'
  <1>1. Ascending'
    BY DEF OrderInv, Ascending
  <1>2. Numbered'
    <2> SUFFICES ASSUME NEW i \in 1 .. Len(Sent), NEW u \in Senders, Sent[i][1] = u
                 PROVE  /\ Sent[i][2] <= calls'[u]
                        /\ Pending(u)' => Sent[i][2] < calls'[u]
      BY DEF Numbered
    <2>1. Sent[i][2] \in Nat /\ calls[u] \in Nat
      BY SentNumbers
    <2>2. /\ Sent[i][2] <= calls[u]
          /\ Pending(u) => Sent[i][2] < calls[u]
      BY DEF OrderInv, Numbered
    <2> QED BY <2>1, <2>2
  <1> QED BY <1>1, <1>2 DEF OrderInv

LEMMA StepOrder ==
  ASSUME TypeInv, TypeInv', OrderInv, NEW t \in Threads, Step(t)
  PROVE  OrderInv'
  <1>t. /\ pc \in [Threads -> Labels]
        /\ \A u \in Senders : calls[u] \in Nat
    BY SentNumbers DEF TypeInv, TypeOK
  <1>1. CASE Proceed(t)
    <2>1. /\ UNCHANGED calls /\ Pending(t)
          /\ \A u \in Threads \ {t} : pc'[u] = pc[u]
      BY <1>t, <1>1 DEF Proceed, Leave, Pending
    <2>2. CASE t \in Senders /\ ~closed /\ queue' = Append(queue, <<t, calls[t]>>)
               /\ Goto(t, "notifying") /\ UNCHANGED taken
      <3>1. <<t, calls'[t]>> \in Element
        <4>1. calls[t] >= 1 /\ calls[t] <= MaxSends /\ calls[t] \in Nat
          BY <1>t, <2>1, <2>2 DEF TypeInv, TypeOK, Started, Pending
        <4>2. calls[t] \in 1 .. MaxSends
          BY <4>1, ChannelAssumption
        <4> QED BY <2>1, <2>2, <4>2 DEF Element
      <3>2. \A u \in Senders : Pending(u)' => u # t /\ Pending(u)
        BY <1>t, <2>1, <2>2 DEF Pending
      <3>3. \A i \in 1 .. Len(Sent) : Sent[i][1] = t => Sent[i][2] < calls'[t]
        BY <2>1, <2>2 DEF OrderInv, Numbered
      <3>4. \A u \in Senders : calls'[u] \in Nat /\ calls[u] <= calls'[u]
        BY <1>t, <2>1
      <3> QED BY <2>1, <2>2, <3>1, <3>2, <3>3, <3>4, PutOrder
    <2>3. CASE t \in Receivers /\ queue # <<>> /\ queue' = Tail(queue)
               /\ taken' = Append(taken, Head(queue)) /\ Goto(t, "notifying")
      <3>1. Sent' = Sent
        BY <2>3, TakeKeepsSent
      <3>2. \A u \in Senders : Pending(u)' => Pending(u)
        BY <1>t, <2>1, <2>3 DEF Pending
      <3> QED BY <1>t, <2>1, <3>1, <3>2, KeepOrder
    <2>4. CASE Goto(t, "idle") /\ UNCHANGED <<queue, taken>>
      <3>1. \A u \in Senders : Pending(u)' => Pending(u)
        BY <1>t, <2>1, <2>4 DEF Pending
      <3>2. Sent' = Sent
        BY <2>4 DEF Sent
      <3> QED BY <1>t, <2>1, <3>1, <3>2, KeepOrder
    <2> QED BY <1>1, <2>2, <2>3, <2>4 DEF Proceed
  <1>2. CASE ~Proceed(t)
    <2>1. UNCHANGED <<queue, taken, calls>>
      BY <1>2 DEF Step, Throw, Notify, MustWait, Register, Unregister, Registered,
                  Cancel, Decide, Sleep, Leave
    <2>2. \A u \in Threads : Pending(u)' => Pending(u)
      <3>1. CASE Notify(t)
        BY <1>t, <3>1, NotifyWakes DEF Pending
      <3>2. CASE Unregister(t)
        BY <1>t, <3>2 DEF Unregister, Awaken, Pending
      <3>3. CASE Throw(t) \/ MustWait(t) \/ Register(t) \/ Registered(t)
                 \/ Cancel(t) \/ Decide(t) \/ Sleep(t)
        BY <1>t, <3>3
        DEF Throw, MustWait, Register, Registered, Cancel, Decide, Sleep, Pending
      <3> QED BY <1>2, <3>1, <3>2, <3>3 DEF Step
    <2>3. Sent' = Sent
      BY <2>1 DEF Sent
    <2> QED BY <1>t, <2>1, <2>2, <2>3, KeepOrder
  <1> QED BY <1>1, <1>2

LEMMA NextOrder ==
  ASSUME TypeInv, TypeInv', OrderInv, [Next]_vars
  PROVE  OrderInv'
  <1>t. /\ pc \in [Threads -> Labels] /\ calls \in [Threads -> Nat]
        /\ \A u \in Senders : calls[u] \in Nat
    BY DEF TypeInv, TypeOK
  <1> DEFINE Same == UNCHANGED <<queue, taken, calls>>
                     /\ \A u \in Threads : Pending(u)' => Pending(u)
  <1>s. ASSUME Same PROVE OrderInv'
    <2>1. Sent' = Sent
      BY <1>s DEF Sent
    <2> QED BY <1>s, <1>t, <2>1, KeepOrder
  <1>1. ASSUME NEW t \in Threads, Call(t)
        PROVE  OrderInv'
    <2>1. /\ calls' = [calls EXCEPT ![t] = calls[t] + 1]
          /\ UNCHANGED <<queue, taken>>
          /\ \A u \in Threads \ {t} : pc'[u] = pc[u]
      BY <1>1, <1>t DEF Call
    <2>2. \A u \in Senders : /\ calls'[u] \in Nat /\ calls[u] <= calls'[u]
                             /\ u = t => calls[u] < calls'[u]
      BY <1>t, <2>1
    <2>3. \A u \in Senders : Pending(u)' => Pending(u) \/ u = t
      BY <2>1 DEF Pending
    <2>4. Sent' = Sent
      BY <2>1 DEF Sent
    <2> QED BY <2>2, <2>3, <2>4, KeepOrder
  <1>2. ASSUME NEW t \in Threads, Acquire(t) \/ SpuriousWake(t)
        PROVE  Same
    BY <1>2, <1>t DEF Acquire, SpuriousWake, Pending
  <1>3. ASSUME NEW t \in Threads, TrySend(t)
        PROVE  OrderInv'
    <2>1. /\ t \in Senders /\ pc[t] = "idle"
          /\ calls' = [calls EXCEPT ![t] = calls[t] + 1]
          /\ calls[t] < MaxSends /\ UNCHANGED taken
      BY <1>3 DEF TrySend, MayCall
    <2>2. \A u \in Senders : Pending(u)' => u # t /\ Pending(u)
      BY <1>3, <2>1, TryWakes DEF Wakes, Pending
    <2>3. /\ \A u \in Senders : calls'[u] \in Nat /\ calls[u] <= calls'[u]
          /\ calls'[t] \in 1 .. MaxSends /\ calls'[t] = calls[t] + 1
      BY <1>t, <2>1, ChannelAssumption
    <2>4. CASE UNCHANGED queue
      <3>1. Sent' = Sent
        BY <2>1, <2>4 DEF Sent
      <3> QED BY <2>2, <2>3, <3>1, KeepOrder
    <2>5. CASE queue' = Append(queue, <<t, calls'[t]>>)
      <3>1. <<t, calls'[t]>> \in Element
        BY <2>1, <2>3 DEF Element
      <3>2. \A i \in 1 .. Len(Sent) : Sent[i][1] = t => Sent[i][2] < calls'[t]
        <4>1. \A i \in 1 .. Len(Sent) : Sent[i][2] \in Nat
          BY SentNumbers
        <4>2. \A i \in 1 .. Len(Sent) : Sent[i][1] = t => Sent[i][2] <= calls[t]
          BY <2>1 DEF OrderInv, Numbered
        <4> QED BY <1>t, <2>1, <2>3, <4>1, <4>2
      <3> QED BY <2>1, <2>2, <2>3, <2>5, <3>1, <3>2, PutOrder
    <2> QED BY <1>3, <2>4, <2>5 DEF TrySend
  <1>4. ASSUME NEW t \in Threads, TryRecv(t)
        PROVE  OrderInv'
    <2>1. calls' = [calls EXCEPT ![t] = calls[t] + 1]
      BY <1>4 DEF TryRecv
    <2>2. \A u \in Senders : Pending(u)' => Pending(u)
      BY <1>4, TryWakes DEF Wakes, Pending
    <2>3. \A u \in Senders : calls'[u] \in Nat /\ calls[u] <= calls'[u]
      BY <1>t, <2>1
    <2>4. \/ UNCHANGED <<queue, taken>>
          \/ queue # <<>> /\ queue' = Tail(queue) /\ taken' = Append(taken, Head(queue))
      BY <1>4 DEF TryRecv
    <2>5. Sent' = Sent
      BY <2>4, TakeKeepsSent DEF Sent
    <2> QED BY <2>2, <2>3, <2>5, KeepOrder
  <1>5. CASE Close \/ NotifyObserver
    <2>1. Same
      BY <1>5, <1>t DEF Close, NotifyObserver, Awaken, Pending
    <2> QED BY <1>s, <2>1
  <1>6. CASE RequestCancel \/ CopyObservers \/ UNCHANGED vars
    <2>1. Same
      BY <1>6 DEF RequestCancel, CopyObservers, vars, Pending
    <2> QED BY <1>s, <2>1
  <1> QED BY <1>s, <1>1, <1>2, <1>3, <1>4, <1>5, <1>6, StepOrder DEF Next

\* The elements of one sender are received in the order of its calls and
\* none twice, whichever calls it used and whichever receivers take them.
THEOREM SendersKeepOrder == Spec => []SenderOrder
  <1>1. Init => OrderInv
    <2> SUFFICES ASSUME Init PROVE OrderInv
      OBVIOUS
    <2>1. Len(Sent) = 0
      BY DEF Init, Sent
    <2> QED BY <2>1 DEF OrderInv, Ascending, Numbered
  <1>2. Spec => [](TypeInv /\ OrderInv)
    BY <1>1, InitTypes, NextTypes, NextOrder, PTL DEF Spec
  <1>3. TypeInv /\ OrderInv => SenderOrder
    <2> SUFFICES ASSUME TypeInv, OrderInv,
                        NEW i \in 1 .. Len(taken), NEW j \in 1 .. Len(taken),
                        i < j, taken[i][1] = taken[j][1]
                 PROVE  taken[i][2] < taken[j][2]
      BY DEF SenderOrder
    <2>1. /\ i \in 1 .. Len(Sent) /\ j \in 1 .. Len(Sent)
          /\ Sent[i] = taken[i] /\ Sent[j] = taken[j]
      BY SentType
    <2> QED BY <2>1 DEF OrderInv, Ascending
  <1> QED BY <1>2, <1>3, PTL
=============================================================================
