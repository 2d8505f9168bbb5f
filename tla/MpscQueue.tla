----------------------------- MODULE MpscQueue -----------------------------
(***************************************************************************)
(* MpscQueue<T> (tpl_mpsc_queue.H): an unbounded queue of linked nodes     *)
(* that many producers and one consumer use without locks.                 *)
(*                                                                         *)
(* A producer exchanges head_ and then links the node it found there to    *)
(* its own; between the two the chain that starts at tail_ is broken.  The *)
(* stub node, a member of the queue, takes the place of the last node so   *)
(* that the consumer can detach it.  Every step makes at most one access   *)
(* to memory that another thread writes; what only one thread can see (a   *)
(* node before the exchange, tail_) goes with the access before it.  Heap  *)
(* nodes come from a finite set and are used again once they are deleted.  *)
(***************************************************************************)
EXTENDS Naturals, Sequences, FiniteSets, SequencesExt

CONSTANTS Producers,   \* threads that call push and emplace
          Nodes,       \* the addresses the allocator gives out
          MaxPushes    \* bound: calls that each producer makes

Stub == "stub_"
Null == "nullptr"
NoValue == <<>>

ASSUME MpscAssumption ==
    /\ IsFiniteSet(Producers) /\ IsFiniteSet(Nodes)
    /\ Stub \notin Nodes /\ Null \notin Nodes
    /\ MaxPushes \in Nat

VARIABLES
    next,        \* Node::next
    value,       \* Node::value
    head,        \* head_
    tail,        \* tail_
    allocated,   \* the heap nodes that exist
    pushes,      \* how many calls each producer has started
    linking,     \* per producer inside push_node: its n and its prev
    consumer,    \* where the consumer is in try_pop
    ctail,       \* pop_node's local tail
    cprev,       \* push_node's prev, when it pushes the stub
    alive,       \* the destructor has not run
    chain,       \* history: the nodes from tail_ on, by their exchanges
    taken,       \* history: the elements detached, in order
    excuse       \* history: try_pop has met a moment that excuses "empty"

producerVars == <<pushes, linking>>
consumerVars == <<tail, consumer, ctail, cprev, taken>>
mpscVars == <<next, value, head, allocated, alive, chain, excuse,
              producerVars, consumerVars>>

Pushed == Producers \X (1 .. MaxPushes)
Live == allocated \cup {Stub}
Idle == [n |-> Null, prev |-> Null]
Linking(p) == linking[p] # Idle

\* What the queue holds, oldest first: pushes count from their exchange on.
Contents ==
    LET nodes == RemoveFirst(chain, Stub)
    IN  [i \in DOMAIN nodes |-> value[nodes[i]]]

InFlight == \E p \in Producers : Linking(p)

\* The two situations in which the documentation lets try_pop fail.
MayLookEmpty == chain = <<Stub>> \/ InFlight

MpscInit ==
    /\ next = [n \in Nodes \cup {Stub} |-> Null]
    /\ value = [n \in Nodes |-> NoValue]
    /\ head = Stub
    /\ tail = Stub
    /\ allocated = {}
    /\ pushes = [p \in Producers |-> 0]
    /\ linking = [p \in Producers |-> Idle]
    /\ consumer = "idle"
    /\ ctail = Null
    /\ cprev = Null
    /\ alive = TRUE
    /\ chain = <<Stub>>
    /\ taken = <<>>
    /\ excuse = FALSE

\* Last conjunct of every step: what the running try_pop has witnessed.
Witnessed == excuse' = (consumer' # "idle" /\ (excuse \/ MayLookEmpty'))

-----------------------------------------------------------------------------
(* The producers.                                                          *)

\* emplace: the node is built, its next reset, and it becomes head_.
Exchange(p) ==
    /\ alive /\ ~Linking(p) /\ pushes[p] < MaxPushes
    /\ pushes' = [pushes EXCEPT ![p] = @ + 1]
    /\ \E n \in Nodes \ allocated :
          /\ allocated' = allocated \cup {n}
          /\ value' = [value EXCEPT ![n] = <<p, pushes[p] + 1>>]
          /\ next' = [next EXCEPT ![n] = Null]
          /\ linking' = [linking EXCEPT ![p] = [n |-> n, prev |-> head]]
          /\ head' = n
          /\ chain' = Append(chain, n)
    /\ UNCHANGED <<alive, consumerVars>>
    /\ Witnessed

\* prev->next.store(n).
Link(p) ==
    /\ Linking(p)
    /\ next' = [next EXCEPT ![linking[p].prev] = linking[p].n]
    /\ linking' = [linking EXCEPT ![p] = Idle]
    /\ UNCHANGED <<value, head, allocated, pushes, alive, chain, consumerVars>>
    /\ Witnessed

-----------------------------------------------------------------------------
(* The consumer: try_pop, with pop_node's loads one by one.                *)

ConsumerFrame == UNCHANGED <<value, allocated, producerVars, alive>>

\* Mutant of Detach: tail_ is not moved.
DetachUnmoved(n, nx) ==
    /\ ctail' = n
    /\ taken' = Append(taken, value[n])
    /\ consumer' = "own"
    /\ UNCHANGED <<tail, chain>>

\* pop_node returns node n, with the node nx loaded as its successor.
Detach(n, nx) ==
    /\ tail' = nx
    /\ chain' = Tail(chain)
    /\ ctail' = n
    /\ taken' = Append(taken, value[n])
    /\ consumer' = "own"

\* pop_node returns nullptr, or goes on, and has detached nothing.
Goto(label, t) ==
    /\ consumer' = label
    /\ ctail' = t
    /\ UNCHANGED taken

\* Mutant of LoadNext: a null successor of the stub is not tested.
LoadNextUntested ==
    /\ alive /\ consumer = "idle"
    /\ tail = Stub
    /\ Goto("load next", next[Stub])
    /\ tail' = next[Stub]
    /\ chain' = Tail(chain)
    /\ UNCHANGED <<next, head, cprev>>
    /\ ConsumerFrame
    /\ Witnessed

\* next = tail->next.load(), and the decision before the second load.
LoadNext ==
    /\ alive /\ consumer = "idle"
    /\ IF tail = Stub
       THEN IF next[Stub] = Null
            THEN Goto("empty", tail) /\ UNCHANGED <<tail, chain>>
            ELSE /\ Goto("load next", next[Stub])
                 /\ tail' = next[Stub]
                 /\ chain' = Tail(chain)
       ELSE IF next[tail] = Null
            THEN Goto("load head", tail) /\ UNCHANGED <<tail, chain>>
            ELSE Detach(tail, next[tail])
    /\ UNCHANGED <<next, head, cprev>>
    /\ ConsumerFrame
    /\ Witnessed

\* next = next->next.load(), once the stub has been skipped.
LoadNextOfNext ==
    /\ consumer = "load next"
    /\ IF next[ctail] = Null
       THEN Goto("load head", ctail) /\ UNCHANGED <<tail, chain>>
       ELSE Detach(ctail, next[ctail])
    /\ UNCHANGED <<next, head, cprev>>
    /\ ConsumerFrame
    /\ Witnessed

\* Mutants of LoadHead: the last node waits for a successor; it is detached
\* without a stub behind it.
LoadHeadGivesUp ==
    /\ consumer = "load head"
    /\ Goto("empty", ctail)
    /\ UNCHANGED <<next, head, tail, chain, cprev>>
    /\ ConsumerFrame
    /\ Witnessed

LoadHeadDetaches ==
    /\ consumer = "load head"
    /\ IF ctail # head
       THEN Goto("empty", ctail) /\ UNCHANGED <<tail, chain>>
       ELSE Detach(ctail, Stub)
    /\ UNCHANGED <<next, head, cprev>>
    /\ ConsumerFrame
    /\ Witnessed

\* head = head_.load(): is a producer between its exchange and its store?
LoadHead ==
    /\ consumer = "load head"
    /\ Goto(IF ctail # head THEN "empty" ELSE "reset stub", ctail)
    /\ UNCHANGED <<next, head, tail, chain, cprev>>
    /\ ConsumerFrame
    /\ Witnessed

\* Mutant of ResetStub: the stub keeps the successor it had.
StubNotReset ==
    /\ consumer = "reset stub"
    /\ Goto("exchange stub", ctail)
    /\ UNCHANGED <<next, head, tail, chain, cprev>>
    /\ ConsumerFrame
    /\ Witnessed

\* push_node(&stub_), in its three accesses.
ResetStub ==
    /\ consumer = "reset stub"
    /\ next' = [next EXCEPT ![Stub] = Null]
    /\ Goto("exchange stub", ctail)
    /\ UNCHANGED <<head, tail, chain, cprev>>
    /\ ConsumerFrame
    /\ Witnessed

ExchangeStub ==
    /\ consumer = "exchange stub"
    /\ cprev' = head
    /\ head' = Stub
    /\ chain' = Append(chain, Stub)
    /\ Goto("link stub", ctail)
    /\ UNCHANGED <<next, tail>>
    /\ ConsumerFrame
    /\ Witnessed

LinkStub ==
    /\ consumer = "link stub"
    /\ next' = [next EXCEPT ![cprev] = Stub]
    /\ cprev' = Null
    /\ Goto("reload next", ctail)
    /\ UNCHANGED <<head, tail, chain>>
    /\ ConsumerFrame
    /\ Witnessed

ReloadNext ==
    /\ consumer = "reload next"
    /\ IF next[ctail] = Null
       THEN Goto("empty", ctail) /\ UNCHANGED <<tail, chain>>
       ELSE Detach(ctail, next[ctail])
    /\ UNCHANGED <<next, head, cprev>>
    /\ ConsumerFrame
    /\ Witnessed

\* try_pop moves the value out and deletes the node, also when the move throws.
DeleteNode ==
    /\ consumer = "own"
    /\ allocated' = allocated \ {ctail}
    /\ Goto("idle", Null)
    /\ UNCHANGED <<next, value, head, tail, chain, cprev, producerVars, alive>>
    /\ Witnessed

\* try_pop tells its caller that there was nothing to pop.
ReturnEmpty ==
    /\ consumer = "empty"
    /\ Goto("idle", Null)
    /\ UNCHANGED <<next, head, tail, chain, cprev>>
    /\ ConsumerFrame
    /\ Witnessed

\* is_empty, which only the consumer may call.
IsEmpty == tail = Stub /\ next[tail] = Null

Quiescent == consumer = "idle" /\ ~InFlight

\* The nodes the destructor's loop visits: from tail_ along next, in the
\* least set that is closed under it.
Visited ==
    {n \in Nodes \cup {Stub} :
        \A S \in SUBSET (Nodes \cup {Stub, Null}) :
            tail \in S /\ (\A m \in S \ {Null} : next[m] \in S) => n \in S}

\* ~MpscQueue: the loop deletes what it visits, except the stub.
Destroy ==
    /\ alive /\ Quiescent
    /\ alive' = FALSE
    /\ allocated' = allocated \ (Visited \ {Stub})
    /\ UNCHANGED <<next, value, head, chain, producerVars, consumerVars>>
    /\ Witnessed

ConsumerStep ==
    \/ LoadNext
    \/ LoadNextOfNext
    \/ LoadHead
    \/ ResetStub
    \/ ExchangeStub
    \/ LinkStub
    \/ ReloadNext
    \/ DeleteNode
    \/ ReturnEmpty

MpscNext ==
    \/ \E p \in Producers : Exchange(p) \/ Link(p)
    \/ ConsumerStep
    \/ Destroy

MpscSpec == MpscInit /\ [][MpscNext]_mpscVars
-----------------------------------------------------------------------------
(* Properties.                                                             *)

(* Types; inside push_node a producer holds a node and the node before it,  *)
(* and the consumer holds a node exactly while pop_node works on one.       *)
MpscTypeOK ==
    /\ next \in [Nodes \cup {Stub} -> Nodes \cup {Stub, Null}]
    /\ value \in [Nodes -> Pushed \cup {NoValue}]
    /\ head \in Nodes \cup {Stub}
    /\ tail \in Nodes \cup {Stub}
    /\ allocated \subseteq Nodes
    /\ pushes \in [Producers -> 0 .. MaxPushes]
    /\ linking \in [Producers ->
                       {Idle} \cup [n : Nodes, prev : Nodes \cup {Stub}]]
    /\ consumer \in {"idle", "load next", "load head", "reset stub",
                     "exchange stub", "link stub", "reload next", "own",
                     "empty"}
    /\ ctail \in Nodes \cup {Stub, Null}
    /\ (ctail = Null) <=> (consumer = "idle")
    /\ cprev \in Nodes \cup {Stub, Null}
    /\ (cprev # Null) <=> (consumer = "link stub")
    /\ alive \in BOOLEAN
    /\ taken \in Seq(Pushed)
    /\ excuse \in BOOLEAN

(* The linked list behind the queue: head_ and tail_ are the ends of the     *)
(* chain, each of its nodes occurs once and is linked to the one after it,   *)
(* or will be by the one thread that is between its exchange and its store.  *)
ChainLinked ==
    alive =>
    /\ chain # <<>> /\ Head(chain) = tail /\ Last(chain) = head
    /\ next[head] = Null
    /\ Cardinality(ToSet(chain)) = Len(chain)
    /\ \A i \in 1 .. Len(chain) - 1 :
          LET links == {p \in Producers :
                           linking[p] = [n |-> chain[i + 1], prev |-> chain[i]]}
              stubs == {s \in {Stub} : s = chain[i + 1] /\ cprev = chain[i]}
          IN  IF next[chain[i]] = Null
              THEN Cardinality(links \cup stubs) = 1
              ELSE next[chain[i]] = chain[i + 1] /\ links \cup stubs = {}

(* The consumer deletes a node as soon as it has read it, while producers    *)
(* may still hold pointers into the chain.  No thread ever holds a pointer   *)
(* it will dereference to a node that has been deleted: neither a producer   *)
(* about to store prev->next, nor the consumer, nor the queue itself; and    *)
(* the destructor, wherever it meets the stub, leaves no node behind.        *)
NodeLifetime ==
    /\ \A p \in Producers : Linking(p) => linking[p].prev \in Live
    /\ consumer # "idle" => ctail \in Live
    /\ consumer = "link stub" => cprev \in Live
    /\ alive => ToSet(chain) \subseteq Live
    /\ ~alive => allocated = {}

(* "Returning nullptr means either the queue is genuinely empty, or a        *)
(* producer's push_node was caught between its exchange and its store":      *)
(* at some moment of a try_pop that fails the queue was empty or a push was  *)
(* in flight; is_empty answers no only if something is queued and yes only   *)
(* if nothing is or a push is in flight.                                     *)
HonestEmpty ==
    /\ consumer = "empty" => excuse
    /\ alive /\ consumer = "idle" =>
          IF IsEmpty THEN MayLookEmpty ELSE Contents # <<>>

(* The queue is a first-in first-out queue in the order of the exchanges,    *)
(* which is the order of each producer's own pushes: no interleaving loses,  *)
(* repeats or reorders an element, wherever the stub stands in the chain.    *)
MpscFifo == INSTANCE BoundedFifo
    WITH Element <- Pushed, Capacity <- Cardinality(Nodes),
         contents <- Contents, closed <- FALSE
MpscImplementsFifo == MpscFifo!Init /\ [][MpscFifo!Next]_(MpscFifo!vars)

-----------------------------------------------------------------------------
(* Producers finish the push they have begun, and the consumer polls.      *)
MpscFairSpec ==
    /\ MpscSpec
    /\ \A p \in Producers : WF_mpscVars(Link(p))
    /\ WF_mpscVars(ConsumerStep)

(* Every element pushed is popped by a consumer that keeps polling, unless   *)
(* the queue is destroyed before: the last node never gets stuck for want    *)
(* of a successor.                                                           *)
EveryPushArrives ==
    \A e \in Pushed :
        (alive /\ e \in ToSet(Contents)) ~> (e \in ToSet(taken) \/ ~alive)
=============================================================================
