------------------------------ MODULE BinHeap ------------------------------
(***************************************************************************)
(* GenBinHeap (tpl_binHeap.H): a binary heap of nodes linked by pointers.  *)
(* A heap is the sequence of its nodes in level order: root is at place 1, *)
(* last is at the last one, the children of place k are at 2k and 2k + 1,  *)
(* and key[x] is the key of node x.  What the operations do is stated for  *)
(* any heap, in order or not: they compare keys and never check the order. *)
(***************************************************************************)
EXTENDS Naturals, Sequences, SequencesExt

\* No node has a smaller key than its parent.
InHeapOrder(key, h) == \A k \in 2 .. Len(h) : key[h[k \div 2]] <= key[h[k]]

\* Where a node is.
PlaceOf(h, x) == CHOOSE k \in DOMAIN h : h[k] = x

-----------------------------------------------------------------------------
(* Sifting.  A node changes places with the next node on its way until the *)
(* way ends, which leaves every node that it meets one place back.          *)

\* The places from p on, when next[k] follows k: the least set that holds p
\* and what follows each of its members.
Way(h, next, p) ==
    {k \in DOMAIN h : \A S \in SUBSET DOMAIN h :
        p \in S /\ (\A i \in S : next[i] \in S) => k \in S}

\* The node at p goes its way, which ends where next[k] = k.
Sift(h, next, p) ==
    [k \in DOMAIN h |->
        h[CASE k \notin Way(h, next, p) -> k
            [] k \in Way(h, next, p) /\ next[k] = k -> p
            [] OTHER -> next[k]]]

\* Upwards, past every parent whose key is greater.
Above(key, h, p) ==
    [k \in DOMAIN h |->
        IF k > 1 /\ key[h[p]] < key[h[k \div 2]] THEN k \div 2 ELSE k]

SiftUp(key, h, p) == Sift(h, Above(key, h, p), p)

\* The child with the smaller key; the left one of two equal ones.
LesserChild(key, h, k) ==
    IF 2 * k + 1 <= Len(h) /\ key[h[2 * k + 1]] < key[h[2 * k]]
    THEN 2 * k + 1 ELSE 2 * k

\* Downwards, past the lesser child unless its key is greater.
Below(key, h, p) ==
    [k \in DOMAIN h |->
        IF 2 * k > Len(h) \/ key[h[p]] < key[h[LesserChild(key, h, k)]]
        THEN k ELSE LesserChild(key, h, k)]

SiftDown(key, h, p) == Sift(h, Below(key, h, p), p)

-----------------------------------------------------------------------------
(* The operations.                                                         *)

\* insert: the node becomes the last one and goes up.
HeapInsert(key, h, x) == SiftUp(key, Append(h, x), Len(h) + 1)

\* update: the node's key is another one, and it goes down or up.
HeapUpdate(key, h, x) ==
    LET down == SiftDown(key, h, PlaceOf(h, x))
    IN  SiftUp(key, down, PlaceOf(down, x))

\* getMin: the last node replaces the root and goes down.
HeapGetMin(key, h) ==
    IF Len(h) = 1 THEN <<>>
    ELSE SiftDown(key, [Front(h) EXCEPT ![1] = Last(h)], 1)

\* remove: the last node replaces the given one and is updated there.
HeapRemove(key, h, x) ==
    CASE x = h[1] -> HeapGetMin(key, h)
      [] x = Last(h) /\ x # h[1] -> Front(h)
      [] OTHER -> HeapUpdate(key, [Front(h) EXCEPT ![PlaceOf(h, x)] = Last(h)],
                             Last(h))
=============================================================================
