--------------------------- MODULE MCTimeoutQueue ---------------------------
(* TimeoutQueue with a few events and clients.                              *)
EXTENDS TimeoutQueue

-----------------------------------------------------------------------------
(* The heap's operations on larger heaps than two events make: those of up  *)
(* to MaxNodes nodes, called by their places, in every order of three keys. *)

MaxNodes == 6
SomeKeys == 0 .. 2

\* h is in order and has the given nodes, each once.
IsHeapOf(key, h, nodes) ==
    /\ Len(h) = Cardinality(nodes) /\ ToSet(h) = nodes
    /\ InHeapOrder(key, h)

(* Every operation leaves a heap in order that has lost no other node; a     *)
(* node that takes the place of another one may have to go up.               *)
ASSUME HeapOperations ==
    \A n \in 1 .. MaxNodes : \A key \in [1 .. n -> SomeKeys] :
        LET h == [k \in 1 .. n |-> k]
        IN  InHeapOrder(key, h) =>
              /\ IsHeapOf(key, HeapGetMin(key, h), 2 .. n)
              /\ \A x \in 1 .. n : IsHeapOf(key, HeapRemove(key, h, x), (1 .. n) \ {x})
              /\ \A t \in SomeKeys :
                    /\ \A x \in 1 .. n :
                          LET changed == [key EXCEPT ![x] = t]
                          IN  IsHeapOf(changed, HeapUpdate(changed, h, x), 1 .. n)
                    /\ LET more == [x \in 1 .. n + 1 |-> IF x \in 1 .. n THEN key[x] ELSE t]
                       IN  IsHeapOf(more, HeapInsert(more, h, n + 1), 1 .. n + 1)
=============================================================================
