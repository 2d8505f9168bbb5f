------------------------- MODULE TimeoutQueueProofs -------------------------
(***************************************************************************)
(* What TimeoutQueue guarantees for any number of events and clients, any  *)
(* times and any number of calls: its four records of the events agree,    *)
(* the worker survives the events it runs, no event starts before its      *)
(* time, and no thread is left waiting for a queue that is empty.  The     *)
(* facts about heaps of any size, in order or not, come first.             *)
(***************************************************************************)
EXTENDS TimeoutQueue, CountingLemmas, SequenceTheorems

-----------------------------------------------------------------------------
(* The heap: sifting loses no node and restores the order.                 *)

LEMMA Half ==
  /\ \A k \in Nat : k > 1 => k \div 2 \in Nat /\ 1 <= k \div 2 /\ k \div 2 < k
  /\ \A k, a \in Nat : k \div 2 = a <=> k = 2 * a \/ k = 2 * a + 1
  OBVIOUS

LEMMA HeapShape ==
  ASSUME NEW S, NEW h \in Seq(S)
  PROVE  /\ Len(h) \in Nat /\ DOMAIN h = 1 .. Len(h)
         /\ \A k \in DOMAIN h : h[k] \in S /\ k \in Nat /\ 1 <= k /\ k <= Len(h)
  BY LenProperties, ElementOfSeq

\* The way of a node starts at its place, follows next, and every other
\* place on it follows one before.
LEMMA WayFacts ==
  ASSUME NEW S, NEW h \in Seq(S), NEW p \in DOMAIN h,
         NEW next \in [DOMAIN h -> DOMAIN h]
  PROVE  /\ Way(h, next, p) \subseteq DOMAIN h
         /\ p \in Way(h, next, p)
         /\ \A k \in Way(h, next, p) : next[k] \in Way(h, next, p)
         /\ \A T \in SUBSET DOMAIN h :
               p \in T /\ (\A i \in T : next[i] \in T) => Way(h, next, p) \subseteq T
         /\ \A k \in Way(h, next, p) :
               k = p \/ \E l \in Way(h, next, p) : l # k /\ next[l] = k
  <1> DEFINE W == Way(h, next, p)
             T == {k \in W : k = p \/ \E l \in W : l # k /\ next[l] = k}
  <1>1. W \subseteq DOMAIN h /\ p \in W
    BY DEF Way
  <1>2. \A k \in W : next[k] \in W
    BY DEF Way
  <1>3. \A U \in SUBSET DOMAIN h :
           p \in U /\ (\A i \in U : next[i] \in U) => W \subseteq U
    BY DEF Way
  <1>4. T \in SUBSET DOMAIN h /\ p \in T
    BY <1>1
  <1>5. \A i \in T : next[i] \in T
    BY <1>2
  <1>6. W \subseteq T
    <2> HIDE DEF W, T
    <2> QED BY <1>3, <1>4, <1>5
  <1> QED BY <1>1, <1>2, <1>3, <1>6

LEMMA SiftValue ==
  ASSUME NEW S, NEW h \in Seq(S), NEW p \in DOMAIN h,
         NEW next \in [DOMAIN h -> DOMAIN h]
  PROVE  /\ Sift(h, next, p) \in Seq(S) /\ Len(Sift(h, next, p)) = Len(h)
         /\ DOMAIN Sift(h, next, p) = DOMAIN h
         /\ \A k \in DOMAIN h :
               /\ k \notin Way(h, next, p) => Sift(h, next, p)[k] = h[k]
               /\ k \in Way(h, next, p) /\ next[k] = k => Sift(h, next, p)[k] = h[p]
               /\ k \in Way(h, next, p) /\ next[k] # k => Sift(h, next, p)[k] = h[next[k]]
  <1> DEFINE src == [k \in DOMAIN h |->
                       CASE k \notin Way(h, next, p) -> k
                         [] k \in Way(h, next, p) /\ next[k] = k -> p
                         [] OTHER -> next[k]]
             g == [k \in DOMAIN h |-> h[src[k]]]
  <1>1. src \in [DOMAIN h -> DOMAIN h]
    <2>1. \A k \in DOMAIN h : next[k] \in DOMAIN h
      OBVIOUS
    <2> QED BY <2>1
  <1>2. Sift(h, next, p) = g
    BY DEF Sift
  <1>3. g \in [1 .. Len(h) -> S] /\ Len(h) \in Nat
    <2> HIDE DEF src
    <2> QED BY <1>1, HeapShape
  <1>4. g \in Seq(S) /\ Len(g) = Len(h) /\ DOMAIN g = DOMAIN h
    <2> HIDE DEF g
    <2>1. g \in Seq(S)
      BY <1>3, SeqDef
    <2> QED BY <1>3, <2>1, LenProperties, HeapShape
  <1>5. \A k \in DOMAIN h : g[k] = h[src[k]]
    OBVIOUS
  <1>6. \A k \in DOMAIN h :
           /\ k \notin Way(h, next, p) => src[k] = k
           /\ k \in Way(h, next, p) /\ next[k] = k => src[k] = p
           /\ k \in Way(h, next, p) /\ next[k] # k => src[k] = next[k]
    OBVIOUS
  <1> HIDE DEF g, src
  <1> QED BY <1>2, <1>4, <1>5, <1>6

\* A way that ends leaves every node in the heap.
LEMMA SiftKeeps ==
  ASSUME NEW S, NEW h \in Seq(S), NEW p \in DOMAIN h,
         NEW next \in [DOMAIN h -> DOMAIN h],
         NEW z \in Way(h, next, p), next[z] = z
  PROVE  ToSet(Sift(h, next, p)) = ToSet(h)
  <1> DEFINE g == Sift(h, next, p)
             W == Way(h, next, p)
  <1>1. /\ W \subseteq DOMAIN h /\ p \in W
        /\ \A k \in W : k = p \/ \E l \in W : l # k /\ next[l] = k
    BY WayFacts
  <1>2. /\ DOMAIN g = DOMAIN h
        /\ \A k \in DOMAIN h : /\ k \notin W => g[k] = h[k]
                               /\ k \in W /\ next[k] = k => g[k] = h[p]
                               /\ k \in W /\ next[k] # k => g[k] = h[next[k]]
    BY SiftValue
  <1> HIDE DEF g, W
  <1>3. \A k \in DOMAIN h : \E j \in DOMAIN h : g[k] = h[j]
    BY <1>2
  <1>4. \A k \in DOMAIN h : \E j \in DOMAIN h : h[k] = g[j]
    <2> SUFFICES ASSUME NEW k \in DOMAIN h PROVE \E j \in DOMAIN h : h[k] = g[j]
      OBVIOUS
    <2>1. CASE k \notin W
      BY <1>2, <2>1
    <2>2. CASE k = p
      <3>1. z \in W
        BY DEF W
      <3> QED BY <1>1, <1>2, <2>2, <3>1
    <2>3. CASE k \in W /\ k # p
      <3>1. PICK l \in W : l # k /\ next[l] = k
        BY <1>1, <2>3
      <3> QED BY <1>1, <1>2, <3>1
    <2> QED BY <2>1, <2>2, <2>3
  <1>5. ToSet(g) = ToSet(h)
    <2>1. ToSet(g) = {g[k] : k \in DOMAIN h} /\ ToSet(h) = {h[k] : k \in DOMAIN h}
      BY <1>2 DEF ToSet
    <2>2. {g[k] : k \in DOMAIN h} \subseteq {h[k] : k \in DOMAIN h}
      BY <1>3
    <2>3. {h[k] : k \in DOMAIN h} \subseteq {g[k] : k \in DOMAIN h}
      BY <1>4
    <2> QED BY <2>1, <2>2, <2>3, Zenon
  <1> QED BY <1>5 DEF g

\* Upwards: the way goes from children to parents and ends.
LEMMA AboveFacts ==
  ASSUME NEW S, NEW key \in [S -> Nat], NEW h \in Seq(S), NEW p \in DOMAIN h
  PROVE  /\ Above(key, h, p) \in [DOMAIN h -> DOMAIN h]
         /\ \A k \in DOMAIN h :
               \/ Above(key, h, p)[k] = k /\ (k > 1 => key[h[k \div 2]] <= key[h[p]])
               \/ /\ Above(key, h, p)[k] = k \div 2 /\ k > 1
                  /\ key[h[p]] < key[h[k \div 2]]
         /\ \A k \in Way(h, Above(key, h, p), p) : k <= p
         /\ \E z \in Way(h, Above(key, h, p), p) : Above(key, h, p)[z] = z
  <1> DEFINE next == Above(key, h, p)
             W == Way(h, next, p)
  <1>0. /\ Len(h) \in Nat /\ DOMAIN h = 1 .. Len(h)
        /\ \A k \in DOMAIN h : h[k] \in S /\ key[h[k]] \in Nat
    BY HeapShape
  <1>1. \A k \in DOMAIN h :
          \/ next[k] = k /\ (k > 1 => key[h[k \div 2]] <= key[h[p]])
          \/ next[k] = k \div 2 /\ k > 1 /\ key[h[p]] < key[h[k \div 2]]
    BY <1>0, Half DEF Above
  <1>2. next \in [DOMAIN h -> DOMAIN h]
    <2>1. \A k \in DOMAIN h : k > 1 => k \div 2 \in DOMAIN h
      BY <1>0, Half
    <2> QED BY <2>1 DEF Above
  <1> HIDE DEF next
  <1>3. /\ W \subseteq DOMAIN h /\ p \in W
        /\ \A k \in W : next[k] \in W
        /\ \A T \in SUBSET DOMAIN h :
               p \in T /\ (\A i \in T : next[i] \in T) => W \subseteq T
    BY <1>2, WayFacts
  <1> HIDE DEF W
  <1>4. \A k \in DOMAIN h : next[k] \in DOMAIN h /\ next[k] <= k
    BY <1>0, <1>1, <1>2, Half
  <1>5. W \subseteq {k \in DOMAIN h : k <= p}
    <2> DEFINE T == {k \in DOMAIN h : k <= p}
    <2>1. T \in SUBSET DOMAIN h /\ p \in T /\ \A i \in T : next[i] \in T
      BY <1>0, <1>4
    <2> HIDE DEF T
    <2>2. W \subseteq T
      BY <1>3, <2>1
    <2> QED BY <2>2 DEF T
  <1>6. \E z \in W : next[z] = z
    <2>1. PICK z \in W : \A n \in W : z <= n
      BY <1>0, <1>3, LeastNatural
    <2>2. z \in DOMAIN h /\ next[z] \in DOMAIN h /\ next[z] <= z /\ z <= next[z]
      BY <1>3, <1>4, <2>1
    <2> QED BY <1>0, <2>1, <2>2
  <1> QED BY <1>1, <1>2, <1>5, <1>6 DEF next, W

\* Downwards: the way goes from parents to lesser children and ends.
LEMMA BelowFacts ==
  ASSUME NEW S, NEW key \in [S -> Nat], NEW h \in Seq(S), NEW p \in DOMAIN h
  PROVE  /\ Below(key, h, p) \in [DOMAIN h -> DOMAIN h]
         /\ \A k \in DOMAIN h :
               \/ /\ Below(key, h, p)[k] = k
                  /\ \A i \in DOMAIN h : i > 1 /\ i \div 2 = k => key[h[p]] <= key[h[i]]
               \/ /\ Below(key, h, p)[k] > 1 /\ Below(key, h, p)[k] \div 2 = k
                  /\ key[h[Below(key, h, p)[k]]] <= key[h[p]]
                  /\ \A i \in DOMAIN h : i > 1 /\ i \div 2 = k =>
                        key[h[Below(key, h, p)[k]]] <= key[h[i]]
         /\ \A k \in Way(h, Below(key, h, p), p) : p <= k
         /\ \E z \in Way(h, Below(key, h, p), p) : Below(key, h, p)[z] = z
  <1> DEFINE next == Below(key, h, p)
             W == Way(h, next, p)
             C(k) == LesserChild(key, h, k)
  <1>0. /\ Len(h) \in Nat /\ DOMAIN h = 1 .. Len(h)
        /\ \A k \in DOMAIN h : h[k] \in S /\ key[h[k]] \in Nat
    BY HeapShape
  <1>c. ASSUME NEW k \in DOMAIN h, 2 * k <= Len(h)
        PROVE  /\ C(k) \in DOMAIN h /\ C(k) > 1 /\ C(k) \div 2 = k
               /\ \A i \in DOMAIN h : i > 1 /\ i \div 2 = k => key[h[C(k)]] <= key[h[i]]
    <2>0. k \in Nat /\ 1 <= k /\ k <= Len(h)
      BY <1>0
    <2>1. C(k) \in DOMAIN h /\ C(k) > 1 /\ C(k) \div 2 = k
      <3>1. C(k) \in Nat /\ (C(k) = 2 * k \/ (C(k) = 2 * k + 1 /\ C(k) <= Len(h)))
        BY <2>0 DEF LesserChild
      <3>2. C(k) \div 2 = k
        <4> HIDE DEF C
        <4> QED BY <2>0, <3>1, Half
      <3> HIDE DEF C
      <3> QED BY <1>0, <1>c, <2>0, <3>1, <3>2
    <2>2. ASSUME NEW i \in DOMAIN h, i > 1, i \div 2 = k
          PROVE  key[h[C(k)]] <= key[h[i]]
      <3>1. i = 2 * k \/ i = 2 * k + 1
        <4>1. i \in Nat
          BY <1>0
        <4> QED BY <2>0, <2>2, <4>1, Half
      <3>2. 2 * k \in DOMAIN h /\ key[h[2 * k]] \in Nat
        BY <1>0, <1>c
      <3>3. 2 * k + 1 \in DOMAIN h => key[h[2 * k + 1]] \in Nat
        BY <1>0
      <3>4. 2 * k + 1 \in DOMAIN h <=> 2 * k + 1 <= Len(h)
        BY <1>0
      <3>5. C(k) = IF 2 * k + 1 <= Len(h) /\ key[h[2 * k + 1]] < key[h[2 * k]]
                   THEN 2 * k + 1 ELSE 2 * k
        BY DEF LesserChild
      <3> HIDE DEF C
      <3>6. CASE i = 2 * k
        BY <3>2, <3>3, <3>4, <3>5, <3>6
      <3>7. CASE i = 2 * k + 1
        <4>1. 2 * k + 1 <= Len(h) /\ key[h[i]] \in Nat
          BY <1>0, <2>2, <3>7
        <4>2. CASE key[h[2 * k + 1]] < key[h[2 * k]]
          <5>1. C(k) = i
            BY <3>5, <3>7, <4>1, <4>2
          <5> QED BY <4>1, <5>1
        <4>3. CASE ~(key[h[2 * k + 1]] < key[h[2 * k]])
          <5>1. C(k) = 2 * k
            BY <3>5, <4>3
          <5> QED BY <3>2, <3>7, <4>1, <4>3, <5>1
        <4> QED BY <4>2, <4>3
      <3> QED BY <3>1, <3>6, <3>7
    <2> QED BY <2>1, <2>2
  <1> HIDE DEF C
  <1>d. \A k \in DOMAIN h : next[k] = IF 2 * k > Len(h) \/ key[h[p]] < key[h[C(k)]]
                                       THEN k ELSE C(k)
    BY DEF Below, C
  <1>1. \A k \in DOMAIN h :
          \/ /\ next[k] = k
             /\ \A i \in DOMAIN h : i > 1 /\ i \div 2 = k => key[h[p]] <= key[h[i]]
          \/ /\ next[k] > 1 /\ next[k] \div 2 = k
             /\ key[h[next[k]]] <= key[h[p]]
             /\ \A i \in DOMAIN h : i > 1 /\ i \div 2 = k => key[h[next[k]]] <= key[h[i]]
    <2> HIDE DEF next
    <2> SUFFICES ASSUME NEW k \in DOMAIN h
                 PROVE  \/ /\ next[k] = k
                           /\ \A i \in DOMAIN h : i > 1 /\ i \div 2 = k =>
                                  key[h[p]] <= key[h[i]]
                        \/ /\ next[k] > 1 /\ next[k] \div 2 = k
                           /\ key[h[next[k]]] <= key[h[p]]
                           /\ \A i \in DOMAIN h : i > 1 /\ i \div 2 = k =>
                                  key[h[next[k]]] <= key[h[i]]
      OBVIOUS
    <2>1. CASE 2 * k > Len(h)
      <3>1. \A i \in DOMAIN h : ~(i > 1 /\ i \div 2 = k)
        BY <1>0, <2>1, Half
      <3> QED BY <1>d, <2>1, <3>1
    <2>2. CASE 2 * k <= Len(h) /\ key[h[p]] < key[h[C(k)]]
      <3>1. \A i \in DOMAIN h : i > 1 /\ i \div 2 = k => key[h[p]] <= key[h[i]]
        BY <1>0, <1>c, <2>2
      <3> QED BY <1>d, <2>2, <3>1
    <2>3. CASE 2 * k <= Len(h) /\ ~(key[h[p]] < key[h[C(k)]])
      <3>1. next[k] = C(k)
        BY <1>0, <1>d, <2>3
      <3>2. key[h[C(k)]] <= key[h[p]]
        BY <1>0, <1>c, <2>3
      <3> QED BY <1>c, <2>3, <3>1, <3>2
    <2> QED BY <1>0, <2>1, <2>2, <2>3
  <1>2. next \in [DOMAIN h -> DOMAIN h]
    <2>1. \A k \in DOMAIN h : ~(2 * k > Len(h)) => C(k) \in DOMAIN h
      BY <1>0, <1>c
    <2> QED BY <2>1 DEF Below, C
  <1> HIDE DEF next
  <1>3. /\ W \subseteq DOMAIN h /\ p \in W
        /\ \A k \in W : next[k] \in W
        /\ \A T \in SUBSET DOMAIN h :
               p \in T /\ (\A i \in T : next[i] \in T) => W \subseteq T
    BY <1>2, WayFacts
  <1> HIDE DEF W
  <1>4. \A k \in DOMAIN h : next[k] \in DOMAIN h /\ k <= next[k]
    <2> SUFFICES ASSUME NEW k \in DOMAIN h PROVE next[k] \in DOMAIN h /\ k <= next[k]
      OBVIOUS
    <2>1. next[k] \in DOMAIN h /\ (next[k] = k \/ (next[k] > 1 /\ next[k] \div 2 = k))
      BY <1>1, <1>2
    <2> QED BY <1>0, <2>1, Half
  <1>5. W \subseteq {k \in DOMAIN h : p <= k}
    <2> DEFINE T == {k \in DOMAIN h : p <= k}
    <2>1. T \in SUBSET DOMAIN h /\ p \in T /\ \A i \in T : next[i] \in T
      BY <1>0, <1>4
    <2> HIDE DEF T
    <2>2. W \subseteq T
      BY <1>3, <2>1
    <2> QED BY <2>2 DEF T
  <1>6. \E z \in W : next[z] = z
    <2> DEFINE D == {Len(h) - k : k \in W}
    <2>1. D \subseteq Nat /\ D # {}
      BY <1>0, <1>3
    <2>2. PICK d \in D : \A n \in D : d <= n
      <3> HIDE DEF D
      <3> QED BY <2>1, LeastNatural
    <2>3. PICK z \in W : d = Len(h) - z
      OBVIOUS
    <2>4. next[z] \in W /\ z \in DOMAIN h /\ next[z] \in DOMAIN h /\ z <= next[z]
      BY <1>3, <1>4
    <2>5. Len(h) - z <= Len(h) - next[z]
      BY <2>2, <2>3, <2>4
    <2> QED BY <1>0, <2>4, <2>5
  <1> QED BY <1>1, <1>2, <1>5, <1>6 DEF next, W

\* The heap is in order but for the node at p; its parent is in order with
\* its children; and it is in order with its children itself.
OrderedBut(key, h, p) ==
    \A i \in DOMAIN h : i > 1 /\ i # p /\ i \div 2 # p => key[h[i \div 2]] <= key[h[i]]
ParentUnder(key, h, p) ==
    \A i \in DOMAIN h : i > 1 /\ i \div 2 = p /\ p > 1 => key[h[p \div 2]] <= key[h[i]]
ChildrenOver(key, h, p) ==
    \A i \in DOMAIN h : i > 1 /\ i \div 2 = p => key[h[p]] <= key[h[i]]

LEMMA OrderForm ==
  ASSUME NEW S, NEW h \in Seq(S), NEW key
  PROVE  InHeapOrder(key, h) <=>
           \A i \in DOMAIN h : i > 1 => key[h[i \div 2]] <= key[h[i]]
  <1>1. Len(h) \in Nat /\ DOMAIN h = 1 .. Len(h)
    BY HeapShape
  <1>2. \A i : i \in 2 .. Len(h) <=> i \in DOMAIN h /\ i > 1
    BY <1>1
  <1> QED BY <1>2 DEF InHeapOrder

\* A node that goes up until its parent is not greater leaves the heap in
\* order.
LEMMA SiftUpOrders ==
  ASSUME NEW S, NEW key \in [S -> Nat], NEW h \in Seq(S), NEW p \in DOMAIN h,
         OrderedBut(key, h, p), ParentUnder(key, h, p), ChildrenOver(key, h, p)
  PROVE  InHeapOrder(key, SiftUp(key, h, p))
  <1> DEFINE next == Above(key, h, p)
             W == Way(h, next, p)
             g == Sift(h, next, p)
  <1>0. /\ Len(h) \in Nat /\ DOMAIN h = 1 .. Len(h)
        /\ \A k \in DOMAIN h : h[k] \in S /\ k \in Nat /\ 1 <= k
        /\ \A k \in DOMAIN h : key[h[k]] \in Nat
    BY HeapShape
  <1>1. /\ next \in [DOMAIN h -> DOMAIN h]
        /\ \A k \in DOMAIN h :
             \/ next[k] = k /\ (k > 1 => key[h[k \div 2]] <= key[h[p]])
             \/ next[k] = k \div 2 /\ k > 1 /\ key[h[p]] < key[h[k \div 2]]
        /\ \A k \in W : k <= p
    BY AboveFacts
  <1> HIDE DEF next
  <1>2. /\ W \subseteq DOMAIN h /\ p \in W
        /\ \A k \in W : next[k] \in W
        /\ \A k \in W : k = p \/ \E l \in W : l # k /\ next[l] = k
    BY <1>1, WayFacts
  <1>3. /\ g \in Seq(S) /\ DOMAIN g = DOMAIN h
        /\ \A k \in DOMAIN h : /\ k \notin W => g[k] = h[k]
                               /\ k \in W /\ next[k] = k => g[k] = h[p]
                               /\ k \in W /\ next[k] # k => g[k] = h[next[k]]
    BY <1>1, SiftValue
  <1> HIDE DEF W, g
  <1>4. ASSUME NEW i \in DOMAIN h, i > 1
        PROVE  key[g[i \div 2]] <= key[g[i]]
    <2> DEFINE a == i \div 2
    <2>1. a \in DOMAIN h /\ a < i /\ a \in Nat /\ i \in Nat
      BY <1>0, <1>4, Half
    <2> HIDE DEF a
    <2> SUFFICES key[g[a]] <= key[g[i]]
      BY DEF a
    <2>e. i # p /\ a # p => key[h[a]] <= key[h[i]]
      BY <1>4 DEF OrderedBut, a
    <2>p. a = p => key[h[p]] <= key[h[i]]
      BY <1>4 DEF ChildrenOver, a
    <2>g. a = p /\ p > 1 => key[h[p \div 2]] <= key[h[i]]
      BY <1>4 DEF ParentUnder, a
    <2>f. a > 1 /\ a # p => a \div 2 \in DOMAIN h /\
             (a \div 2 # p => key[h[a \div 2]] <= key[h[a]])
      BY <1>0, <2>1, Half DEF OrderedBut
    <2>h. i \in W => a # p /\ a \div 2 # p
      BY <1>0, <1>1, <2>1, Half
    <2>i. \/ next[i] = i /\ key[h[a]] <= key[h[p]]
          \/ next[i] = a /\ key[h[p]] < key[h[a]]
      BY <1>1, <1>4 DEF a
    <2>j. \/ next[a] = a
          \/ next[a] = a \div 2 /\ next[a] # a /\ a > 1 /\ a \div 2 \in DOMAIN h
             /\ key[h[p]] < key[h[a \div 2]]
      BY <1>0, <1>1, <2>1, Half
    <2>k. /\ key[h[a]] \in Nat /\ key[h[i]] \in Nat /\ key[h[p]] \in Nat
          /\ a \div 2 \in DOMAIN h => key[h[a \div 2]] \in Nat
      BY <1>0, <2>1
    <2>1a. CASE i \notin W /\ a \notin W
      <3>1. g[i] = h[i] /\ g[a] = h[a] /\ i # p /\ a # p
        BY <1>2, <1>3, <2>1, <2>1a
      <3> QED BY <2>e, <3>1
    <2>2. CASE i \in W
      <3>1. CASE next[i] = i
        <4>1. g[i] = h[p] /\ key[h[a]] <= key[h[p]]
          BY <1>3, <2>1, <2>2, <2>i, <3>1
        <4>2. CASE a \notin W
          <5>1. g[a] = h[a]
            BY <1>3, <2>1, <4>2
          <5> QED BY <4>1, <5>1
        <4>3. CASE a \in W /\ next[a] = a
          <5>1. g[a] = h[p]
            BY <1>3, <2>1, <4>3
          <5> QED BY <2>k, <4>1, <5>1
        <4>4. CASE a \in W /\ next[a] # a
          <5>1. g[a] = h[a \div 2] /\ key[h[a \div 2]] <= key[h[a]]
                /\ key[h[a \div 2]] \in Nat
            BY <1>3, <2>1, <2>2, <2>f, <2>h, <2>j, <2>k, <4>4
          <5> QED BY <2>k, <4>1, <5>1
        <4> QED BY <4>2, <4>3, <4>4
      <3>2. CASE next[i] # i
        <4>1. g[i] = h[a] /\ next[i] = a /\ key[h[p]] < key[h[a]] /\ a \in W
          BY <1>2, <1>3, <2>1, <2>2, <2>i, <3>2
        <4>3. CASE next[a] = a
          <5>1. g[a] = h[p]
            BY <1>3, <2>1, <4>1, <4>3
          <5> QED BY <2>k, <4>1, <5>1
        <4>4. CASE next[a] # a
          <5>1. g[a] = h[a \div 2] /\ key[h[a \div 2]] <= key[h[a]]
            BY <1>3, <2>1, <2>2, <2>f, <2>h, <2>j, <4>1, <4>4
          <5> QED BY <4>1, <5>1
        <4> QED BY <4>3, <4>4
      <3> QED BY <3>1, <3>2
    <2>3. CASE i \notin W /\ a \in W
      <3>1. g[i] = h[i] /\ i # p
        BY <1>2, <1>3, <2>1, <2>3
      <3>2. CASE a = p /\ next[a] = a
        <4>1. g[a] = h[p]
          BY <1>3, <2>1, <2>3, <3>2
        <4> QED BY <2>p, <3>1, <3>2, <4>1
      <3>3. CASE a = p /\ next[a] # a
        <4>1. g[a] = h[p \div 2] /\ p > 1
          BY <1>3, <2>1, <2>3, <2>j, <3>3
        <4> QED BY <2>g, <3>1, <3>3, <4>1
      <3>4. CASE a # p /\ next[a] = a
        <4>1. g[a] = h[p] /\ key[h[a]] <= key[h[i]]
          BY <1>3, <2>1, <2>3, <2>e, <3>1, <3>4
        <4>2. PICK l \in W : l # a /\ next[l] = a
          BY <1>2, <2>3, <3>4
        <4>3. key[h[p]] < key[h[a]]
          BY <1>1, <1>2, <4>2
        <4> QED BY <2>k, <3>1, <4>1, <4>3
      <3>5. CASE a # p /\ next[a] # a
        <4>0. a <= p
          BY <1>1, <2>3
        <4>1. a \div 2 # p
          BY <1>0, <2>1, <2>j, <3>5, <4>0, Half
        <4>2. g[a] = h[a \div 2] /\ key[h[a \div 2]] <= key[h[a]]
              /\ key[h[a \div 2]] \in Nat /\ key[h[a]] <= key[h[i]]
          BY <1>3, <2>1, <2>3, <2>e, <2>f, <2>j, <2>k, <3>1, <3>5, <4>1
        <4> QED BY <2>k, <3>1, <4>2
      <3> QED BY <3>2, <3>3, <3>4, <3>5
    <2> QED BY <2>1a, <2>2, <2>3
  <1>5. InHeapOrder(key, g)
    BY <1>3, <1>4, OrderForm
  <1> QED BY <1>5 DEF SiftUp, g, next

\* A node that goes down either stays, no child being less, or leaves the
\* heap in order.
LEMMA SiftDownOrders ==
  ASSUME NEW S, NEW key \in [S -> Nat], NEW h \in Seq(S), NEW p \in DOMAIN h,
         OrderedBut(key, h, p), ParentUnder(key, h, p)
  PROVE  \/ SiftDown(key, h, p) = h /\ ChildrenOver(key, h, p)
         \/ InHeapOrder(key, SiftDown(key, h, p))
  <1> DEFINE next == Below(key, h, p)
             W == Way(h, next, p)
             g == Sift(h, next, p)
  <1>0. /\ Len(h) \in Nat /\ DOMAIN h = 1 .. Len(h)
        /\ \A k \in DOMAIN h : h[k] \in S /\ k \in Nat /\ 1 <= k
        /\ \A k \in DOMAIN h : key[h[k]] \in Nat
    BY HeapShape
  <1>1. /\ next \in [DOMAIN h -> DOMAIN h]
        /\ \A k \in DOMAIN h :
             \/ /\ next[k] = k
                /\ \A i \in DOMAIN h : i > 1 /\ i \div 2 = k => key[h[p]] <= key[h[i]]
             \/ /\ next[k] > 1 /\ next[k] \div 2 = k
                /\ key[h[next[k]]] <= key[h[p]]
                /\ \A i \in DOMAIN h : i > 1 /\ i \div 2 = k => key[h[next[k]]] <= key[h[i]]
        /\ \A k \in W : p <= k
    BY BelowFacts
  <1> HIDE DEF next
  <1>2. /\ W \subseteq DOMAIN h /\ p \in W
        /\ \A k \in W : next[k] \in W
        /\ \A T \in SUBSET DOMAIN h :
              p \in T /\ (\A i \in T : next[i] \in T) => W \subseteq T
        /\ \A k \in W : k = p \/ \E l \in W : l # k /\ next[l] = k
    BY <1>1, WayFacts
  <1>3. /\ g \in Seq(S) /\ Len(g) = Len(h) /\ DOMAIN g = DOMAIN h
        /\ \A k \in DOMAIN h : /\ k \notin W => g[k] = h[k]
                               /\ k \in W /\ next[k] = k => g[k] = h[p]
                               /\ k \in W /\ next[k] # k => g[k] = h[next[k]]
    <2>1. next \in [DOMAIN h -> DOMAIN h]
      BY <1>1
    <2> QED BY <2>1, SiftValue
  <1> HIDE DEF W, g
  <1>4. CASE next[p] = p
    <2>1. W \subseteq {p}
      BY <1>2, <1>4
    <2>2. \A k \in DOMAIN h : g[k] = h[k]
      BY <1>2, <1>3, <1>4, <2>1
    <2>3. g = h
      BY <1>3, <2>2, SeqEqual, <1>0
    <2>4. ChildrenOver(key, h, p)
      BY <1>0, <1>1, <1>4, Half DEF ChildrenOver
    <2> QED BY <2>3, <2>4 DEF SiftDown, g, next
  <1>5. ASSUME next[p] # p, NEW i \in DOMAIN h, i > 1
        PROVE  key[g[i \div 2]] <= key[g[i]]
    <2> DEFINE a == i \div 2
    <2>1. a \in DOMAIN h /\ a < i /\ a \in Nat /\ i \in Nat
      BY <1>0, <1>5, Half
    <2> HIDE DEF a
    <2> SUFFICES key[g[a]] <= key[g[i]]
      BY DEF a
    <2>e. i # p /\ a # p => key[h[a]] <= key[h[i]]
      BY <1>5 DEF OrderedBut, a
    <2>k. key[h[a]] \in Nat /\ key[h[i]] \in Nat /\ key[h[p]] \in Nat
      BY <1>0, <2>1
    <2>p. i \in W => i = p \/ (a \in W /\ next[a] = i)
      <3> SUFFICES ASSUME i \in W, i # p PROVE a \in W /\ next[a] = i
        OBVIOUS
      <3>1. PICK l \in W : l # i /\ next[l] = i
        BY <1>2
      <3>2. l = a
        BY <1>1, <1>2, <3>1 DEF a
      <3> QED BY <3>1, <3>2
    <2>n. \/ next[a] = a /\ key[h[p]] <= key[h[i]]
          \/ next[a] # a /\ next[a] \in DOMAIN h /\ key[h[next[a]]] <= key[h[p]]
             /\ key[h[next[a]]] <= key[h[i]]
      <3>1. next[a] \in DOMAIN h
        BY <1>1, <2>1
      <3>2. next[a] = a \/ (next[a] > 1 /\ next[a] \div 2 = a)
        BY <1>1, <2>1
      <3>3. next[a] > 1 /\ next[a] \div 2 = a => next[a] # a
        BY <1>0, <2>1, <3>1, Half
      <3>4. CASE next[a] = a
        <4>1. \A j \in DOMAIN h : j > 1 /\ j \div 2 = a => key[h[p]] <= key[h[j]]
          BY <1>1, <2>1, <3>3, <3>4
        <4> QED BY <1>5, <3>4, <4>1 DEF a
      <3>5. CASE next[a] # a
        <4>1. /\ key[h[next[a]]] <= key[h[p]]
              /\ \A j \in DOMAIN h : j > 1 /\ j \div 2 = a => key[h[next[a]]] <= key[h[j]]
          BY <1>1, <2>1, <3>5
        <4> QED BY <1>5, <3>1, <3>5, <4>1 DEF a
      <3> QED BY <3>4, <3>5
    <2>2. CASE a \notin W /\ i \notin W
      <3>1. g[i] = h[i] /\ g[a] = h[a] /\ i # p /\ a # p
        BY <1>2, <1>3, <2>1, <2>2
      <3> QED BY <2>e, <3>1
    <2>3. CASE a \notin W /\ i \in W
      <3>1. i = p
        BY <2>3, <2>p
      <3>2. g[a] = h[a] /\ g[p] = h[next[p]]
        BY <1>2, <1>3, <1>5, <2>1, <2>3
      <3>3. next[p] \in DOMAIN h /\ next[p] > 1 /\ next[p] \div 2 = p
        BY <1>1, <1>5
      <3>4. key[h[a]] <= key[h[next[p]]]
        BY <1>5, <3>1, <3>3 DEF ParentUnder, a
      <3> QED BY <3>1, <3>2, <3>4
    <2>4. CASE a \in W /\ next[a] = a
      <3>1. i \notin W
        BY <1>0, <1>1, <2>1, <2>4, <2>p
      <3>2. g[a] = h[p] /\ g[i] = h[i]
        BY <1>3, <2>1, <2>4, <3>1
      <3> QED BY <2>4, <2>n, <3>2
    <2>5. CASE a \in W /\ next[a] # a
      <3>1. g[a] = h[next[a]] /\ a >= p
        BY <1>0, <1>1, <1>3, <2>1, <2>5
      <3>2. CASE i # next[a]
        <4>1. i \notin W
          BY <1>0, <2>1, <2>p, <3>1, <3>2
        <4>2. g[i] = h[i]
          BY <1>3, <4>1
        <4> QED BY <2>5, <2>n, <3>1, <4>2
      <3>3. CASE i = next[a] /\ next[i] = i
        <4>1. i \in W
          BY <1>2, <2>5, <3>3
        <4>2. g[i] = h[p]
          BY <1>3, <3>3, <4>1
        <4> QED BY <2>5, <2>n, <3>1, <4>2
      <3>4. CASE i = next[a] /\ next[i] # i
        <4>1. i \in W /\ i # p
          BY <1>0, <1>2, <2>1, <2>5, <3>1, <3>4
        <4>2. g[i] = h[next[i]]
          BY <1>3, <3>4, <4>1
        <4>3. next[i] \in DOMAIN h /\ next[i] > 1 /\ next[i] \div 2 = i
          BY <1>1, <3>4
        <4>4. next[i] # p
          BY <1>0, <2>1, <3>1, <4>3, Half
        <4>5. key[h[i]] <= key[h[next[i]]]
          BY <4>1, <4>3, <4>4 DEF OrderedBut
        <4> QED BY <3>1, <3>4, <4>2, <4>5
      <3> QED BY <3>2, <3>3, <3>4
    <2> QED BY <2>2, <2>3, <2>4, <2>5
  <1>6. CASE next[p] # p
    <2>1. InHeapOrder(key, g)
      BY <1>3, <1>5, <1>6, OrderForm
    <2> QED BY <2>1 DEF SiftDown, g, next
  <1> QED BY <1>4, <1>6

\* The two sifts keep the nodes.
LEMMA SiftsKeep ==
  ASSUME NEW S, NEW key \in [S -> Nat], NEW h \in Seq(S), NEW p \in DOMAIN h
  PROVE  /\ SiftUp(key, h, p) \in Seq(S) /\ Len(SiftUp(key, h, p)) = Len(h)
         /\ ToSet(SiftUp(key, h, p)) = ToSet(h)
         /\ SiftDown(key, h, p) \in Seq(S) /\ Len(SiftDown(key, h, p)) = Len(h)
         /\ ToSet(SiftDown(key, h, p)) = ToSet(h)
  <1>1. ASSUME NEW next \in [DOMAIN h -> DOMAIN h],
               \E z \in Way(h, next, p) : next[z] = z
        PROVE  /\ Sift(h, next, p) \in Seq(S) /\ Len(Sift(h, next, p)) = Len(h)
               /\ ToSet(Sift(h, next, p)) = ToSet(h)
    <2>1. PICK z \in Way(h, next, p) : next[z] = z
      BY <1>1
    <2> QED BY <2>1, SiftKeeps, SiftValue
  <1>2. /\ Above(key, h, p) \in [DOMAIN h -> DOMAIN h]
        /\ \E z \in Way(h, Above(key, h, p), p) : Above(key, h, p)[z] = z
    BY AboveFacts
  <1>3. /\ Below(key, h, p) \in [DOMAIN h -> DOMAIN h]
        /\ \E z \in Way(h, Below(key, h, p), p) : Below(key, h, p)[z] = z
    BY BelowFacts
  <1>4. SiftUp(key, h, p) = Sift(h, Above(key, h, p), p)
        /\ SiftDown(key, h, p) = Sift(h, Below(key, h, p), p)
    BY DEF SiftUp, SiftDown
  <1>5. /\ Sift(h, Above(key, h, p), p) \in Seq(S)
        /\ Len(Sift(h, Above(key, h, p), p)) = Len(h)
        /\ ToSet(Sift(h, Above(key, h, p), p)) = ToSet(h)
    BY <1>1, <1>2, Zenon
  <1>6. /\ Sift(h, Below(key, h, p), p) \in Seq(S)
        /\ Len(Sift(h, Below(key, h, p), p)) = Len(h)
        /\ ToSet(Sift(h, Below(key, h, p), p)) = ToSet(h)
    BY <1>1, <1>3, Zenon
  <1> QED BY <1>4, <1>5, <1>6, Zenon

\* Every node is in the heap once.
Once(h) == Len(h) = Cardinality(ToSet(h))

LEMMA OnceDistinct ==
  ASSUME NEW S, NEW h \in Seq(S), Once(h)
  PROVE  \A i, j \in DOMAIN h : h[i] = h[j] => i = j
  <1>1. DOMAIN h = 1 .. Len(h) /\ Len(h) \in Nat
    BY HeapShape
  <1>2. IsFiniteSet(1 .. Len(h)) /\ Cardinality(1 .. Len(h)) = Len(h)
    BY <1>1, FS_Interval
  <1>3. h \in [1 .. Len(h) -> ToSet(h)]
    BY <1>1, LenProperties DEF ToSet
  <1>4. \A t \in ToSet(h) : \E i \in 1 .. Len(h) : h[i] = t
    BY <1>1 DEF ToSet
  <1>5. h \in Surjection(1 .. Len(h), ToSet(h))
    BY <1>3, <1>4 DEF Surjection
  <1>6. h \in Injection(1 .. Len(h), ToSet(h))
    BY <1>2, <1>5, FS_SurjSameCardinalityImpliesInj DEF Once
  <1> QED BY <1>1, <1>6 DEF Injection, IsInjective

LEMMA NodesFinite ==
  ASSUME NEW S, NEW h \in Seq(S)
  PROVE  IsFiniteSet(ToSet(h)) /\ Cardinality(ToSet(h)) \in Nat /\ ToSet(h) \subseteq S
         /\ (ToSet(h) = {} <=> h = <<>>)
  <1>1. DOMAIN h = 1 .. Len(h) /\ Len(h) \in Nat
    BY HeapShape
  <1>2. h \in [1 .. Len(h) -> ToSet(h)]
    BY <1>1, LenProperties DEF ToSet
  <1>3. \A t \in ToSet(h) : \E i \in 1 .. Len(h) : h[i] = t
    BY <1>1 DEF ToSet
  <1>4. h \in Surjection(1 .. Len(h), ToSet(h))
    BY <1>2, <1>3 DEF Surjection
  <1>5. IsFiniteSet(ToSet(h))
    BY <1>1, <1>4, FS_Interval, FS_Surjection
  <1>6. ToSet(h) \subseteq S
    BY <1>1, HeapShape DEF ToSet
  <1>7. h = <<>> => ToSet(h) = {}
    BY DEF ToSet
  <1>8. h # <<>> => ToSet(h) # {}
    <2>1. h # <<>> => 1 \in DOMAIN h
      BY <1>1, EmptySeq
    <2> QED BY <2>1 DEF ToSet
  <1> QED BY <1>5, <1>6, <1>7, <1>8, FS_CardinalityType

\* What a place holds.
LEMMA PlaceFacts ==
  ASSUME NEW S, NEW h \in Seq(S), NEW x \in ToSet(h)
  PROVE  PlaceOf(h, x) \in DOMAIN h /\ h[PlaceOf(h, x)] = x
  BY DEF PlaceOf, ToSet

\* Removing the last node.
LEMMA FrontFacts ==
  ASSUME NEW S, NEW h \in Seq(S), h # <<>>, Once(h)
  PROVE  /\ Front(h) \in Seq(S) /\ Len(Front(h)) = Len(h) - 1
         /\ Len(h) \in DOMAIN h /\ Last(h) = h[Len(h)]
         /\ DOMAIN Front(h) = DOMAIN h \ {Len(h)}
         /\ \A i \in DOMAIN Front(h) : Front(h)[i] = h[i]
         /\ ToSet(Front(h)) = ToSet(h) \ {Last(h)}
         /\ Last(h) \in ToSet(h)
  <1>1. DOMAIN h = 1 .. Len(h) /\ Len(h) \in Nat /\ Len(h) > 0
    BY HeapShape, EmptySeq
  <1>2. /\ Front(h) \in Seq(S) /\ Len(Front(h)) = Len(h) - 1
        /\ \A i \in 1 .. (Len(h) - 1) : Front(h)[i] = h[i]
    <2>1. 1 \in 1 .. Len(h) + 1 /\ Len(h) - 1 \in 0 .. Len(h)
      BY <1>1
    <2> QED BY <1>1, <2>1, SubSeqProperties DEF Front
  <1>3. DOMAIN Front(h) = 1 .. (Len(h) - 1)
    BY <1>2, HeapShape
  <1>4. DOMAIN Front(h) = DOMAIN h \ {Len(h)}
    BY <1>1, <1>3
  <1>5. \A i \in DOMAIN h : h[i] = h[Len(h)] => i = Len(h)
    BY <1>1, OnceDistinct
  <1>6. Last(h) = h[Len(h)]
    BY DEF Last
  <1>7. ToSet(Front(h)) = ToSet(h) \ {Last(h)}
    <2>1. ToSet(Front(h)) = {h[i] : i \in DOMAIN Front(h)}
      BY <1>2, <1>3 DEF ToSet
    <2>2. {h[i] : i \in DOMAIN Front(h)} = {h[i] : i \in DOMAIN h} \ {h[Len(h)]}
      <3> HIDE DEF Front
      <3> QED BY <1>4, <1>5
    <2> QED BY <1>6, <2>1, <2>2 DEF ToSet
  <1>8. Len(h) \in DOMAIN h
    BY <1>1
  <1>9. Last(h) \in ToSet(h)
    BY <1>6, <1>8 DEF ToSet
  <1>10. \A i \in DOMAIN Front(h) : Front(h)[i] = h[i]
    BY <1>2, <1>3
  <1> QED BY <1>2, <1>4, <1>6, <1>7, <1>8, <1>9, <1>10, Zenon

\* Where every node is once, a node has one place.
LEMMA PlaceIs ==
  ASSUME NEW S, NEW h \in Seq(S), Once(h), NEW p \in DOMAIN h
  PROVE  PlaceOf(h, h[p]) = p
  <1>1. h[p] \in ToSet(h)
    BY DEF ToSet
  <1>2. PlaceOf(h, h[p]) \in DOMAIN h /\ h[PlaceOf(h, h[p])] = h[p]
    BY <1>1, PlaceFacts
  <1> QED BY <1>2, OnceDistinct

\* The order is a matter of the keys of the nodes in the heap.
LEMMA OrderOfNodes ==
  ASSUME NEW S, NEW h \in Seq(S), NEW old, NEW new,
         \A x \in ToSet(h) : new[x] = old[x], InHeapOrder(old, h)
  PROVE  InHeapOrder(new, h)
  <1>1. DOMAIN h = 1 .. Len(h) /\ Len(h) \in Nat
    BY HeapShape
  <1>2. \A i \in DOMAIN h : new[h[i]] = old[h[i]]
    BY DEF ToSet
  <1>3. \A i \in 2 .. Len(h) : i \in DOMAIN h /\ i \div 2 \in DOMAIN h
    BY <1>1, Half
  <1> QED BY <1>2, <1>3 DEF InHeapOrder

\* The root of a heap in order has a least key.
LEMMA RootIsLeast ==
  ASSUME NEW S, NEW key \in [S -> Nat], NEW h \in Seq(S), InHeapOrder(key, h),
         NEW x \in ToSet(h)
  PROVE  key[h[1]] <= key[x]
  <1>0. /\ Len(h) \in Nat /\ DOMAIN h = 1 .. Len(h)
        /\ \A k \in DOMAIN h : h[k] \in S /\ key[h[k]] \in Nat
    BY HeapShape
  <1> DEFINE bad == {k \in DOMAIN h : ~(key[h[1]] <= key[h[k]])}
  <1>1. bad = {}
    <2> SUFFICES ASSUME bad # {} PROVE FALSE
      OBVIOUS
    <2>1. bad \subseteq Nat
      BY <1>0
    <2>2. PICK k \in bad : \A n \in bad : k <= n
      <3> HIDE DEF bad
      <3> QED BY <2>1, LeastNatural
    <2>3. k \in DOMAIN h /\ 1 \in DOMAIN h /\ k # 1 /\ k > 1 /\ k \in Nat
      BY <1>0
    <2>4. k \div 2 \in Nat /\ 1 <= k \div 2 /\ k \div 2 < k
      BY <2>3, Half
    <2> DEFINE a == k \div 2
    <2>5. a \in DOMAIN h /\ a < k
      BY <1>0, <2>3, <2>4
    <2>6. key[h[a]] <= key[h[k]]
      BY <2>3, OrderForm
    <2> HIDE DEF a
    <2>7. key[h[1]] <= key[h[a]]
      BY <1>0, <2>2, <2>5
    <2> QED BY <1>0, <2>2, <2>3, <2>5, <2>6, <2>7
  <1>2. PICK k \in DOMAIN h : h[k] = x
    BY DEF ToSet
  <1> QED BY <1>1, <1>2

LEMMA OrderedEverywhere ==
  ASSUME NEW S, NEW key \in [S -> Nat], NEW h \in Seq(S), NEW p \in DOMAIN h,
         InHeapOrder(key, h)
  PROVE  OrderedBut(key, h, p) /\ ParentUnder(key, h, p) /\ ChildrenOver(key, h, p)
  <1>1. \A i \in DOMAIN h : i > 1 => key[h[i \div 2]] <= key[h[i]]
    BY OrderForm
  <1>2. ChildrenOver(key, h, p) /\ OrderedBut(key, h, p)
    BY <1>1 DEF ChildrenOver, OrderedBut
  <1>3. ASSUME NEW i \in DOMAIN h, i > 1, i \div 2 = p, p > 1
        PROVE  key[h[p \div 2]] <= key[h[i]]
    <2>1. key[h[p]] <= key[h[i]] /\ key[h[p \div 2]] <= key[h[p]]
      BY <1>1, <1>3
    <2>2. p \div 2 \in DOMAIN h
      BY <1>3, HeapShape, Half
    <2>3. key[h[p]] \in Nat /\ key[h[i]] \in Nat /\ key[h[p \div 2]] \in Nat
      BY <2>2, HeapShape
    <2> QED BY <2>1, <2>3
  <1> QED BY <1>2, <1>3 DEF ParentUnder

LEMMA InsertFacts ==
  ASSUME NEW S, NEW key \in [S -> Nat], NEW h \in Seq(S), NEW x \in S
  PROVE  /\ HeapInsert(key, h, x) \in Seq(S)
         /\ Len(HeapInsert(key, h, x)) = Len(h) + 1
         /\ ToSet(HeapInsert(key, h, x)) = ToSet(h) \cup {x}
         /\ InHeapOrder(key, h) => InHeapOrder(key, HeapInsert(key, h, x))
  <1> DEFINE r == Append(h, x)
             p == Len(h) + 1
  <1>0. Len(h) \in Nat /\ DOMAIN h = 1 .. Len(h)
    BY HeapShape
  <1>1. /\ r \in Seq(S) /\ Len(r) = p /\ p \in Nat /\ DOMAIN r = 1 .. p
        /\ \A i \in DOMAIN h : r[i] = h[i]
        /\ r[p] = x
    BY <1>0, AppendProperties
  <1>2. p \in DOMAIN r /\ DOMAIN r = DOMAIN h \cup {p}
    BY <1>0, <1>1
  <1> HIDE DEF r
  <1>3. ToSet(r) = ToSet(h) \cup {x}
    <2> HIDE DEF p
    <2>1. ToSet(r) = {r[i] : i \in DOMAIN r} /\ ToSet(h) = {h[i] : i \in DOMAIN h}
      BY DEF ToSet
    <2>2. \A i \in DOMAIN r : r[i] \in ToSet(h) \cup {x}
      BY <1>1, <1>2, <2>1
    <2>3. \A i \in DOMAIN h : h[i] \in ToSet(r)
      BY <1>1, <1>2, <2>1
    <2>4. x \in ToSet(r)
      BY <1>1, <1>2, <2>1
    <2> QED BY <2>1, <2>2, <2>3, <2>4
  <1>4. SiftUp(key, r, p) \in Seq(S) /\ Len(SiftUp(key, r, p)) = Len(r)
        /\ ToSet(SiftUp(key, r, p)) = ToSet(r)
    BY <1>1, <1>2, SiftsKeep
  <1>5. HeapInsert(key, h, x) = SiftUp(key, r, p)
    BY DEF HeapInsert, r
  <1>6. ASSUME InHeapOrder(key, h) PROVE InHeapOrder(key, SiftUp(key, r, p))
    <2>1. OrderedBut(key, r, p)
      <3>1. \A i \in DOMAIN h : i > 1 => key[h[i \div 2]] <= key[h[i]]
        BY <1>6, OrderForm
      <3>2. \A i \in DOMAIN r : i > 1 /\ i # p => i \in DOMAIN h /\ i \div 2 \in DOMAIN h
        BY <1>0, <1>2, Half
      <3> QED BY <1>1, <3>1, <3>2 DEF OrderedBut
    <2>2. \A i \in DOMAIN r : i > 1 => i \div 2 # p
      BY <1>0, <1>1, Half
    <2>3. ParentUnder(key, r, p) /\ ChildrenOver(key, r, p)
      BY <2>2 DEF ParentUnder, ChildrenOver
    <2> QED BY <1>1, <1>2, <2>1, <2>3, SiftUpOrders
  <1> QED BY <1>1, <1>3, <1>4, <1>5, <1>6

LEMMA UpdateFacts ==
  ASSUME NEW S, NEW key \in [S -> Nat], NEW h \in Seq(S), NEW x \in ToSet(h)
  PROVE  /\ HeapUpdate(key, h, x) \in Seq(S)
         /\ Len(HeapUpdate(key, h, x)) = Len(h)
         /\ ToSet(HeapUpdate(key, h, x)) = ToSet(h)
         /\ OrderedBut(key, h, PlaceOf(h, x)) /\ ParentUnder(key, h, PlaceOf(h, x))
            => InHeapOrder(key, HeapUpdate(key, h, x))
  <1> DEFINE p == PlaceOf(h, x)
             down == SiftDown(key, h, p)
             q == PlaceOf(down, x)
  <1>1. p \in DOMAIN h
    BY PlaceFacts
  <1>2. down \in Seq(S) /\ Len(down) = Len(h) /\ ToSet(down) = ToSet(h)
    BY <1>1, SiftsKeep
  <1>3. q \in DOMAIN down
    <2> HIDE DEF down
    <2> QED BY <1>2, PlaceFacts
  <1>4. HeapUpdate(key, h, x) = SiftUp(key, down, q)
    BY DEF HeapUpdate
  <1>5. /\ SiftUp(key, down, q) \in Seq(S) /\ Len(SiftUp(key, down, q)) = Len(down)
        /\ ToSet(SiftUp(key, down, q)) = ToSet(down)
    <2> HIDE DEF down, q
    <2> QED BY <1>2, <1>3, SiftsKeep
  <1>6. ASSUME OrderedBut(key, h, p), ParentUnder(key, h, p)
        PROVE  InHeapOrder(key, SiftUp(key, down, q))
    <2> HIDE DEF p
    <2>1. CASE down = h /\ ChildrenOver(key, h, p)
      <3>1. q = p
        BY <2>1 DEF p
      <3> QED BY <1>1, <1>6, <2>1, <3>1, SiftUpOrders
    <2>2. CASE InHeapOrder(key, down)
      <3> HIDE DEF down, q
      <3>1. OrderedBut(key, down, q) /\ ParentUnder(key, down, q) /\ ChildrenOver(key, down, q)
        BY <1>2, <1>3, <2>2, OrderedEverywhere
      <3> QED BY <1>2, <1>3, <3>1, SiftUpOrders
    <2> QED BY <1>1, <1>6, <2>1, <2>2, SiftDownOrders
  <1> HIDE DEF down, q
  <1> QED BY <1>2, <1>4, <1>5, <1>6 DEF p

\* The last node in place of another one.
LastAt(h, p) == [Front(h) EXCEPT ![p] = Last(h)]

LEMMA ReplaceFacts ==
  ASSUME NEW S, NEW key \in [S -> Nat], NEW h \in Seq(S), Once(h),
         NEW p \in DOMAIN h, p # Len(h)
  PROVE  /\ LastAt(h, p) \in Seq(S) /\ Len(LastAt(h, p)) = Len(h) - 1
         /\ p \in DOMAIN LastAt(h, p) /\ Last(h) \in ToSet(LastAt(h, p))
         /\ ToSet(LastAt(h, p)) = ToSet(h) \ {h[p]}
         /\ PlaceOf(LastAt(h, p), Last(h)) = p
         /\ InHeapOrder(key, h) =>
               OrderedBut(key, LastAt(h, p), p) /\ ParentUnder(key, LastAt(h, p), p)
  <1> DEFINE f == Front(h)
             n == Len(h)
             r == LastAt(h, p)
  <1>0. Len(h) \in Nat /\ DOMAIN h = 1 .. Len(h) /\ h # <<>> /\ n \in Nat /\ n > 1
        /\ \A i \in DOMAIN h : h[i] \in S /\ key[h[i]] \in Nat
    <2>1. Len(h) \in Nat /\ DOMAIN h = 1 .. Len(h)
          /\ \A i \in DOMAIN h : h[i] \in S /\ key[h[i]] \in Nat
      BY HeapShape
    <2>2. h # <<>>
      BY <2>1, EmptySeq
    <2> QED BY <2>1, <2>2
  <1>1. /\ f \in Seq(S) /\ Len(f) = n - 1 /\ n \in DOMAIN h /\ Last(h) = h[n]
        /\ DOMAIN f = DOMAIN h \ {n}
        /\ \A i \in DOMAIN f : f[i] = h[i]
    BY <1>0, FrontFacts
  <1> HIDE DEF f
  <1>2. /\ r \in Seq(S) /\ Len(r) = n - 1 /\ DOMAIN r = DOMAIN f
        /\ r[p] = h[n]
        /\ \A i \in DOMAIN r : i # p => r[i] = h[i]
    <2>1. r = [f EXCEPT ![p] = h[n]] /\ p \in DOMAIN f /\ h[n] \in S
      BY <1>0, <1>1 DEF f, LastAt
    <2>2. DOMAIN f = 1 .. Len(f)
      BY <1>1, HeapShape
    <2>3. [f EXCEPT ![p] = h[n]] \in Seq(S) /\ Len([f EXCEPT ![p] = h[n]]) = Len(f)
      BY <1>1, <2>1, <2>2, ExceptSeq
    <2> HIDE DEF r
    <2> QED BY <1>1, <2>1, <2>3
  <1> HIDE DEF r
  <1>3. p \in DOMAIN r /\ DOMAIN r = DOMAIN h \ {n}
    BY <1>1, <1>2
  <1>4. \A i, j \in DOMAIN h : h[i] = h[j] => i = j
    BY OnceDistinct
  <1>5. ToSet(r) = ToSet(h) \ {h[p]}
    <2>1. ToSet(r) = {r[i] : i \in DOMAIN r} /\ ToSet(h) = {h[i] : i \in DOMAIN h}
      BY DEF ToSet
    <2>2. \A i \in DOMAIN r : \E j \in DOMAIN h : r[i] = h[j] /\ j # p
      BY <1>1, <1>2, <1>3
    <2>3. \A i \in DOMAIN r : r[i] \in ToSet(h) /\ r[i] # h[p]
      BY <1>4, <2>1, <2>2
    <2>4. \A j \in DOMAIN h : j # p => \E i \in DOMAIN r : r[i] = h[j]
      <3> SUFFICES ASSUME NEW j \in DOMAIN h, j # p PROVE \E i \in DOMAIN r : r[i] = h[j]
        OBVIOUS
      <3>1. CASE j = n
        BY <1>2, <1>3, <3>1
      <3>2. CASE j # n
        BY <1>2, <1>3, <3>2
      <3> QED BY <3>1, <3>2
    <2>5. \A y \in ToSet(h) : y # h[p] => y \in ToSet(r)
      BY <2>1, <2>4
    <2> QED BY <2>1, <2>3, <2>5
  <1>6. Once(r)
    <2>1. IsFiniteSet(ToSet(h))
      BY NodesFinite
    <2>2. h[p] \in ToSet(h)
      BY DEF ToSet
    <2>3. Cardinality(ToSet(h) \ {h[p]}) = Cardinality(ToSet(h)) - 1
      BY <2>1, <2>2, FS_RemoveElement
    <2> QED BY <1>2, <1>5, <2>3 DEF Once
  <1>7. PlaceOf(r, Last(h)) = p /\ Last(h) \in ToSet(r)
    <2>1. PlaceOf(r, r[p]) = p
      BY <1>2, <1>3, <1>6, PlaceIs
    <2>2. r[p] \in ToSet(r)
      BY <1>3 DEF ToSet
    <2>3. r[p] = Last(h)
      BY <1>1, <1>2
    <2> QED BY <2>1, <2>2, <2>3
  <1>8. ASSUME InHeapOrder(key, h) PROVE OrderedBut(key, r, p) /\ ParentUnder(key, r, p)
    <2>1. \A i \in DOMAIN h : i > 1 => key[h[i \div 2]] <= key[h[i]]
      BY <1>8, OrderForm
    <2>2. \A i \in DOMAIN r : i > 1 => i \div 2 \in DOMAIN r /\ i \div 2 < i /\ i \in DOMAIN h
      <3> SUFFICES ASSUME NEW i \in DOMAIN r, i > 1
                   PROVE  i \div 2 \in DOMAIN r /\ i \div 2 < i /\ i \in DOMAIN h
        OBVIOUS
      <3>1. i \in Nat /\ i \in 1 .. n /\ i # n
        BY <1>0, <1>3
      <3>2. i \div 2 \in Nat /\ 1 <= i \div 2 /\ i \div 2 < i
        BY <3>1, Half
      <3> QED BY <1>0, <1>3, <3>1, <3>2
    <2>3. OrderedBut(key, r, p)
      BY <1>2, <2>1, <2>2 DEF OrderedBut
    <2>4. ParentUnder(key, h, p)
      BY <1>8, OrderedEverywhere
    <2>5. p > 1 => p \div 2 # p /\ p \div 2 \in DOMAIN r
      BY <1>0, <1>3, <2>2
    <2>6. \A i \in DOMAIN r : i > 1 /\ i \div 2 = p => i # p /\ i \in DOMAIN h
      BY <1>0, <2>2
    <2>7. ParentUnder(key, r, p)
      BY <1>2, <2>4, <2>5, <2>6 DEF ParentUnder
    <2> QED BY <2>3, <2>7
  <1> QED BY <1>2, <1>3, <1>5, <1>7, <1>8 DEF r

LEMMA GetMinFacts ==
  ASSUME NEW S, NEW key \in [S -> Nat], NEW h \in Seq(S), h # <<>>, Once(h)
  PROVE  /\ HeapGetMin(key, h) \in Seq(S)
         /\ Len(HeapGetMin(key, h)) = Len(h) - 1
         /\ ToSet(HeapGetMin(key, h)) = ToSet(h) \ {h[1]}
         /\ InHeapOrder(key, h) => InHeapOrder(key, HeapGetMin(key, h))
  <1> DEFINE r == LastAt(h, 1)
  <1>0. Len(h) \in Nat /\ DOMAIN h = 1 .. Len(h) /\ Len(h) >= 1 /\ 1 \in DOMAIN h
    BY HeapShape, EmptySeq
  <1>1. CASE Len(h) = 1
    <2>1. HeapGetMin(key, h) = <<>>
      BY <1>1 DEF HeapGetMin
    <2>2. ToSet(h) = {h[1]} /\ DOMAIN h = {1}
      BY <1>0, <1>1 DEF ToSet
    <2>3. <<>> \in Seq(S) /\ Len(<<>>) = 0 /\ ToSet(<<>>) = {}
      BY EmptySeq DEF ToSet
    <2>4. InHeapOrder(key, <<>>)
      BY <2>3 DEF InHeapOrder
    <2> QED BY <1>1, <2>1, <2>2, <2>3, <2>4
  <1>2. CASE Len(h) # 1
    <2>1. /\ r \in Seq(S) /\ Len(r) = Len(h) - 1 /\ 1 \in DOMAIN r
          /\ ToSet(r) = ToSet(h) \ {h[1]}
          /\ InHeapOrder(key, h) => OrderedBut(key, r, 1) /\ ParentUnder(key, r, 1)
      <3>1. 1 # Len(h)
        BY <1>2
      <3>2. \A p \in DOMAIN h : p # Len(h) =>
               /\ LastAt(h, p) \in Seq(S) /\ Len(LastAt(h, p)) = Len(h) - 1
               /\ p \in DOMAIN LastAt(h, p)
               /\ ToSet(LastAt(h, p)) = ToSet(h) \ {h[p]}
               /\ InHeapOrder(key, h) =>
                     OrderedBut(key, LastAt(h, p), p) /\ ParentUnder(key, LastAt(h, p), p)
        BY ReplaceFacts
      <3> QED BY <1>0, <3>1, <3>2, Zenon
    <2>2. HeapGetMin(key, h) = SiftDown(key, r, 1)
      BY <1>2 DEF HeapGetMin, LastAt
    <2> HIDE DEF r
    <2>3. /\ SiftDown(key, r, 1) \in Seq(S) /\ Len(SiftDown(key, r, 1)) = Len(r)
          /\ ToSet(SiftDown(key, r, 1)) = ToSet(r)
      <3>1. r \in Seq(S) /\ 1 \in DOMAIN r
        BY <2>1
      <3>2. \A p \in DOMAIN r :
               /\ SiftDown(key, r, p) \in Seq(S) /\ Len(SiftDown(key, r, p)) = Len(r)
               /\ ToSet(SiftDown(key, r, p)) = ToSet(r)
        BY <3>1, SiftsKeep
      <3> QED BY <3>1, <3>2, Zenon
    <2>4. ASSUME InHeapOrder(key, h) PROVE InHeapOrder(key, SiftDown(key, r, 1))
      <3>0. OrderedBut(key, r, 1) /\ ParentUnder(key, r, 1)
        BY <2>1, <2>4
      <3>1. CASE SiftDown(key, r, 1) = r /\ ChildrenOver(key, r, 1)
        <4>1. \A i \in DOMAIN r : i > 1 => key[r[i \div 2]] <= key[r[i]]
          BY <3>0, <3>1 DEF OrderedBut, ChildrenOver
        <4> QED BY <2>1, <3>1, <4>1, OrderForm
      <3> QED BY <2>1, <3>0, <3>1, SiftDownOrders
    <2> QED BY <2>1, <2>2, <2>3, <2>4
  <1> QED BY <1>1, <1>2

LEMMA RemoveFacts ==
  ASSUME NEW S, NEW key \in [S -> Nat], NEW h \in Seq(S), Once(h), NEW x \in ToSet(h)
  PROVE  /\ HeapRemove(key, h, x) \in Seq(S)
         /\ Len(HeapRemove(key, h, x)) = Len(h) - 1
         /\ ToSet(HeapRemove(key, h, x)) = ToSet(h) \ {x}
         /\ InHeapOrder(key, h) => InHeapOrder(key, HeapRemove(key, h, x))
  <1>0. h # <<>>
    BY NodesFinite
  <1>1. CASE x = h[1]
    <2>1. HeapRemove(key, h, x) = HeapGetMin(key, h)
      BY <1>1 DEF HeapRemove
    <2> QED BY <1>0, <1>1, <2>1, GetMinFacts
  <1>f. /\ Front(h) \in Seq(S) /\ Len(Front(h)) = Len(h) - 1
        /\ Last(h) = h[Len(h)]
        /\ DOMAIN Front(h) = DOMAIN h \ {Len(h)}
        /\ \A i \in DOMAIN Front(h) : Front(h)[i] = h[i]
        /\ ToSet(Front(h)) = ToSet(h) \ {Last(h)}
    BY <1>0, FrontFacts
  <1>2. CASE x = Last(h) /\ x # h[1]
    <2>1. HeapRemove(key, h, x) = Front(h)
      BY <1>2 DEF HeapRemove
    <2>2. ASSUME InHeapOrder(key, h) PROVE InHeapOrder(key, Front(h))
      <3>1. Len(h) \in Nat /\ DOMAIN h = 1 .. Len(h)
        BY HeapShape
      <3>2. \A i \in 2 .. Len(Front(h)) : /\ i \in 2 .. Len(h)
                                          /\ i \in DOMAIN Front(h)
                                          /\ i \div 2 \in DOMAIN Front(h)
        <4> SUFFICES ASSUME NEW i \in 2 .. Len(Front(h))
                     PROVE  /\ i \in 2 .. Len(h) /\ i \in DOMAIN Front(h)
                            /\ i \div 2 \in DOMAIN Front(h)
          OBVIOUS
        <4>1. i \in Nat /\ i > 1 /\ i < Len(h)
          BY <1>f, <3>1
        <4>2. i \div 2 \in Nat /\ 1 <= i \div 2 /\ i \div 2 < i
          BY <4>1, Half
        <4> QED BY <1>f, <3>1, <4>1, <4>2
      <3> QED BY <1>f, <2>2, <3>2 DEF InHeapOrder
    <2> QED BY <1>2, <1>f, <2>1, <2>2
  <1>3. CASE x # h[1] /\ x # Last(h)
    <2> DEFINE p == PlaceOf(h, x)
               r == LastAt(h, p)
    <2>1. HeapRemove(key, h, x) = HeapUpdate(key, r, Last(h))
      BY <1>3 DEF HeapRemove, LastAt
    <2>2. p \in DOMAIN h /\ h[p] = x
      BY PlaceFacts
    <2>3. p # Len(h)
      BY <1>3, <1>f, <2>2
    <2>4. /\ r \in Seq(S) /\ Len(r) = Len(h) - 1
          /\ p \in DOMAIN r /\ Last(h) \in ToSet(r)
          /\ ToSet(r) = ToSet(h) \ {x}
          /\ PlaceOf(r, Last(h)) = p
          /\ InHeapOrder(key, h) => OrderedBut(key, r, p) /\ ParentUnder(key, r, p)
      <3> HIDE DEF p
      <3> QED BY <2>2, <2>3, ReplaceFacts
    <2> HIDE DEF p, r
    <2>5. /\ HeapUpdate(key, r, Last(h)) \in Seq(S)
          /\ Len(HeapUpdate(key, r, Last(h))) = Len(r)
          /\ ToSet(HeapUpdate(key, r, Last(h))) = ToSet(r)
          /\ OrderedBut(key, r, p) /\ ParentUnder(key, r, p)
             => InHeapOrder(key, HeapUpdate(key, r, Last(h)))
      <3>1. r \in Seq(S) /\ Last(h) \in ToSet(r) /\ PlaceOf(r, Last(h)) = p
        BY <2>4
      <3>2. \A y \in ToSet(r) :
               /\ HeapUpdate(key, r, y) \in Seq(S)
               /\ Len(HeapUpdate(key, r, y)) = Len(r)
               /\ ToSet(HeapUpdate(key, r, y)) = ToSet(r)
               /\ OrderedBut(key, r, PlaceOf(r, y)) /\ ParentUnder(key, r, PlaceOf(r, y))
                  => InHeapOrder(key, HeapUpdate(key, r, y))
        BY <3>1, UpdateFacts
      <3> QED BY <3>1, <3>2, Zenon
    <2> QED BY <2>1, <2>4, <2>5
  <1> QED BY <1>1, <1>2, <1>3

\* A heap that holds every node once still does with one more, or one less.
LEMMA OnceMore ==
  ASSUME NEW S, NEW h \in Seq(S), NEW g \in Seq(S), Once(h), NEW x
  PROVE  /\ x \notin ToSet(h) /\ ToSet(g) = ToSet(h) \cup {x} /\ Len(g) = Len(h) + 1
            => Once(g)
         /\ x \in ToSet(h) /\ ToSet(g) = ToSet(h) \ {x} /\ Len(g) = Len(h) - 1
            => Once(g)
  <1>1. IsFiniteSet(ToSet(h)) /\ Cardinality(ToSet(h)) \in Nat
    BY NodesFinite
  <1>2. x \notin ToSet(h) => Cardinality(ToSet(h) \cup {x}) = Cardinality(ToSet(h)) + 1
    BY <1>1, FS_AddElement
  <1>3. x \in ToSet(h) => Cardinality(ToSet(h) \ {x}) = Cardinality(ToSet(h)) - 1
    BY <1>1, FS_RemoveElement
  <1> QED BY <1>2, <1>3 DEF Once

-----------------------------------------------------------------------------
(* The queue.                                                              *)

WorkerLabels == {"awake", "sleeping", "timed wait", "roused", "running",
                 "finished", "draining", "ended", "terminated"}
ClientLabels == {"idle", "notify", "notify empty", "clearing", "waiting", "woken"}

\* TimeoutTypeOK without the flags, and without the statistics, whose bounds
\* follow from the account of insertions.
QueueTypes ==
    /\ due \in [Events -> Time]
    /\ status \in [Events -> Statuses]
    /\ Queued \subseteq Events
    /\ event_map \subseteq Events
    /\ event_registry \subseteq Events
    /\ worker \in WorkerLabels
    /\ current \in Events \cup {NoEvent}
    /\ worker \in {"running", "finished"} => current # NoEvent
    /\ pc \in [Clients -> ClientLabels]

ClockTypes ==
    /\ now \in Time /\ original \in Time
    /\ accepted \in Nat /\ executedCount \in Nat /\ canceledCount \in Nat
    /\ calls \in 0 .. MaxCalls /\ accepted <= calls

FlagTypes ==
    /\ isShutdown \in BOOLEAN /\ isPaused \in BOOLEAN
    /\ emptied \in BOOLEAN /\ requeued \in BOOLEAN

\* The heap holds events, each once, and is in order unless a key has been
\* changed in it.
HeapInv ==
    /\ prio_queue \in Seq(Events) /\ Once(prio_queue)
    /\ rekeyed \in BOOLEAN
    /\ rekeyed \/ InHeapOrder(due, prio_queue)

LEMMA QueueConstants ==
  /\ IsFiniteSet(Events) /\ NoEvent \notin Events
  /\ MaxTime \in Nat /\ MaxCalls \in Nat
  BY TimeoutAssumption, Zenon

-----------------------------------------------------------------------------
(* The actions by what they have in common.                                *)

\* What the worker may find after a notification, or after none.
MayRouse ==
    \/ UNCHANGED worker
    \/ worker \in {"sleeping", "timed wait"} /\ worker' \in {"awake", "roused"}

LEMMA NotifyRouses == NotifyWorker => MayRouse
  BY DEF NotifyWorker, MayRouse

\* A heap that is not empty has a first event.
LEMMA TopQueued ==
  ASSUME prio_queue \in Seq(Events), prio_queue # <<>>
  PROVE  Top \in Queued
  <1>1. DOMAIN prio_queue = 1 .. Len(prio_queue) /\ Len(prio_queue) \in Nat
    BY HeapShape
  <1>2. 1 \in DOMAIN prio_queue
    BY <1>1, EmptySeq
  <1> QED BY <1>2 DEF Top, Queued, ToSet

\* The heap and the set of events in it.
LEMMA HeapCounts ==
  ASSUME HeapInv
  PROVE  /\ prio_queue = <<>> <=> Queued = {}
         /\ Len(prio_queue) = Cardinality(Queued)
         /\ Queued \subseteq Events
  BY NodesFinite DEF HeapInv, Once, Queued

LEMMA DueKeys ==
  ASSUME due \in [Events -> Time]
  PROVE  due \in [Events -> Nat]
  BY QueueConstants DEF Time

LEMMA WithoutFacts ==
  ASSUME due \in [Events -> Time], prio_queue \in Seq(Events), Once(prio_queue),
         NEW e \in Events
  PROVE  /\ Without(e) \in Seq(Events) /\ Once(Without(e))
         /\ ToSet(Without(e)) = Queued \ {e}
         /\ InHeapOrder(due, prio_queue) => InHeapOrder(due, Without(e))
         /\ e \notin Queued => Without(e) = prio_queue
  <1>1. CASE e \notin Queued
    BY <1>1, Zenon DEF Without, Queued
  <1>2. CASE e \in Queued
    <2>1. Without(e) = HeapRemove(due, prio_queue, e) /\ e \in ToSet(prio_queue)
      BY <1>2 DEF Without, Queued
    <2>2. /\ HeapRemove(due, prio_queue, e) \in Seq(Events)
          /\ Len(HeapRemove(due, prio_queue, e)) = Len(prio_queue) - 1
          /\ ToSet(HeapRemove(due, prio_queue, e)) = ToSet(prio_queue) \ {e}
          /\ InHeapOrder(due, prio_queue) =>
                InHeapOrder(due, HeapRemove(due, prio_queue, e))
      BY <2>1, DueKeys, RemoveFacts
    <2>3. Once(HeapRemove(due, prio_queue, e))
      BY <2>1, <2>2, OnceMore
    <2> QED BY <1>2, <2>1, <2>2, <2>3, Zenon DEF Queued
  <1> QED BY <1>1, <1>2

\* An event enters the heap, or takes another place in it, with a new key.
LEMMA EnterFacts ==
  ASSUME due \in [Events -> Time], prio_queue \in Seq(Events), Once(prio_queue),
         NEW e \in Events, NEW new \in [Events -> Nat],
         \A x \in Events : x # e => new[x] = due[x]
  PROVE  /\ HeapInsert(new, Without(e), e) \in Seq(Events)
         /\ Once(HeapInsert(new, Without(e), e))
         /\ ToSet(HeapInsert(new, Without(e), e)) = Queued \cup {e}
         /\ InHeapOrder(due, prio_queue) =>
               InHeapOrder(new, HeapInsert(new, Without(e), e))
  <1> DEFINE w == Without(e)
             r == HeapInsert(new, w, e)
  <1>1. /\ w \in Seq(Events) /\ Once(w) /\ ToSet(w) = Queued \ {e}
        /\ InHeapOrder(due, prio_queue) => InHeapOrder(due, w)
    BY WithoutFacts
  <1> HIDE DEF w
  <1>3. /\ r \in Seq(Events) /\ Len(r) = Len(w) + 1 /\ ToSet(r) = ToSet(w) \cup {e}
        /\ InHeapOrder(new, w) => InHeapOrder(new, r)
    <2>1. \A h \in Seq(Events) :
             /\ HeapInsert(new, h, e) \in Seq(Events)
             /\ Len(HeapInsert(new, h, e)) = Len(h) + 1
             /\ ToSet(HeapInsert(new, h, e)) = ToSet(h) \cup {e}
             /\ InHeapOrder(new, h) => InHeapOrder(new, HeapInsert(new, h, e))
      <3> HIDE DEF r
      <3> QED BY InsertFacts
    <2> QED BY <1>1, <2>1
  <1> HIDE DEF r
  <1>4. Once(r)
    <2>1. e \notin ToSet(w)
      BY <1>1
    <2> QED BY <1>1, <1>3, <2>1, OnceMore
  <1>5. InHeapOrder(due, w) => InHeapOrder(new, w)
    <2>1. \A x \in ToSet(w) : x \in Events /\ x # e
      BY <1>1, NodesFinite
    <2>2. \A x \in ToSet(w) : new[x] = due[x]
      BY <2>1
    <2> QED BY <1>1, <2>2, OrderOfNodes
  <1>6. ToSet(r) = Queued \cup {e}
    BY <1>1, <1>3
  <1> QED BY <1>1, <1>3, <1>4, <1>5, <1>6 DEF r, w

LEMMA WakeType ==
  ASSUME pc \in [Clients -> ClientLabels]
  PROVE  /\ Wake(pc) \in [Clients -> ClientLabels]
         /\ \A c \in Clients : Wake(pc)[c] = IF pc[c] = "waiting" THEN "woken" ELSE pc[c]
  BY DEF Wake, ClientLabels

\* The clients' own steps, and those of the records among them.
ClientOf(c) ==
    \/ \E e \in Events :
          \/ \E t \in Time : Schedule(c, e, t) \/ Reschedule(c, e, t)
          \/ Cancel(c, e)
          \/ CancelDelete(c, e)
    \/ ClearAll(c) \/ ClearOne(c) \/ ClearEnd(c)
    \/ NotifyAfter(c)
    \/ Shutdown(c) \/ Pause(c) \/ Resume(c)
    \/ WaitUntilEmpty(c) \/ WaitTimesOut(c)
    \/ ResetStats(c)

LEMMA NextSplits ==
  ASSUME [Next]_vars
  PROVE  \/ \E c \in Clients : ClientOf(c)
         \/ Decide \/ TimedOut \/ Finish \/ AfterFinish \/ Drain
         \/ Tick \/ UNCHANGED vars
  BY Zenon DEF Next, ClientOf, WorkerStep

-----------------------------------------------------------------------------
(* The four records.                                                       *)

\* The heap and the map are functions of the status; the registry holds
\* the map, and more only after shutdown.
RecordsInv ==
    /\ Queued = {e \in Events : status[e] = "In_Queue"}
    /\ event_map = {e \in Events : status[e] \in {"In_Queue", "Executing"}}
    /\ event_map \subseteq event_registry
    /\ isShutdown \/ event_registry = event_map

records == <<Queued, event_map, event_registry, status>>
statistics == <<accepted, executedCount, canceledCount>>

\* An event leaves the records.
Leaves(e, outcome) ==
    /\ Queued' = Queued \ {e}
    /\ event_map' = event_map \ {e}
    /\ event_registry' = event_registry \ {e}
    /\ status' = [status EXCEPT ![e] = outcome]

\* What a client's step may do to the records and the statistics.
Inserts(e) ==
    /\ calls < MaxCalls /\ calls' = calls + 1
    /\ status' = [status EXCEPT ![e] = "In_Queue"]
    /\ Queued' = Queued \cup {e}
    /\ event_map' = event_map \cup {e}
    /\ event_registry' = event_registry \cup {e}
    /\ accepted' = IF e \in Queued THEN accepted ELSE accepted + 1
    /\ UNCHANGED <<executedCount, canceledCount>>

Registers(e) ==
    /\ isShutdown
    /\ event_registry' = event_registry \cup {e}
    /\ Queued' = Queued
    /\ UNCHANGED <<status, event_map, statistics>>

Removes(e) ==
    /\ status[e] = "In_Queue"
    /\ \E outcome \in {"Canceled", "Deleted"} : Leaves(e, outcome)
    /\ canceledCount' = canceledCount + 1
    /\ UNCHANGED <<accepted, executedCount>>

Condemns(e) ==
    /\ status[e] = "Executing"
    /\ Leaves(e, "To_Delete")
    /\ UNCHANGED statistics

Deletes(e) ==
    /\ e \in event_registry
    /\ status[e] \notin {"In_Queue", "Executing", "Deleted"}
    /\ status' = [status EXCEPT ![e] = "Deleted"]
    /\ Queued' = Queued
    /\ UNCHANGED <<event_map, event_registry, statistics>>

Resets ==
    /\ executedCount' = 0 /\ canceledCount' = 0
    /\ accepted' = Cardinality(Queued) + Cardinality({e \in Events : Runs(e)})
    /\ UNCHANGED records

Effect ==
    \/ UNCHANGED <<records, statistics, requeued>>
    \/ \E e \in Events : /\ Inserts(e) \/ Registers(e)
                         /\ requeued' = (requeued \/ Runs(e))
    \/ \E e \in Events : /\ Removes(e) \/ Condemns(e) \/ Deletes(e)
                         /\ UNCHANGED requeued
    \/ Resets /\ UNCHANGED requeued

LEMMA SameRecords ==
  UNCHANGED <<prio_queue, event_map, event_registry, status>> => UNCHANGED records
  BY DEF records, Queued

LEMMA DequeueLeaves ==
  ASSUME QueueTypes, HeapInv, NEW e \in Events, NEW outcome, Dequeue(e, outcome)
  PROVE  Leaves(e, outcome)
  <1>1. Queued' = Queued \ {e}
    <2>1. ToSet(Without(e)) = Queued \ {e}
      BY WithoutFacts DEF QueueTypes, HeapInv
    <2> QED BY <2>1 DEF Dequeue, Queued
  <1> QED BY <1>1, Zenon DEF Dequeue, Leaves

LEMMA EnqueueEnters ==
  ASSUME QueueTypes, HeapInv, NEW e \in Events, NEW t \in Time, Enqueue(e, t)
  PROVE  Queued' = Queued \cup {e} /\ prio_queue' # <<>>
  <1>1. /\ prio_queue' = HeapInsert(due', Without(e), e)
        /\ due' = [due EXCEPT ![e] = t]
    BY DEF Enqueue
  <1>d. due' \in [Events -> Nat] /\ \A x \in Events : x # e => due'[x] = due[x]
    BY <1>1, QueueConstants DEF QueueTypes, Time
  <1>2. /\ HeapInsert(due', Without(e), e) \in Seq(Events)
        /\ ToSet(HeapInsert(due', Without(e), e)) = Queued \cup {e}
    BY <1>d, EnterFacts DEF QueueTypes, HeapInv
  <1>3. prio_queue' \in Seq(Events) /\ ToSet(prio_queue') = Queued \cup {e}
    BY <1>1, <1>2
  <1>4. prio_queue' # <<>>
    BY <1>3, NodesFinite
  <1> QED BY <1>3, <1>4 DEF Queued

LEMMA ClientEffect ==
  ASSUME QueueTypes, HeapInv, RecordsInv, NEW c \in Clients, ClientOf(c)
  PROVE  Effect
  <1>1. ASSUME NEW e \in Events, NEW t \in Time, Schedule(c, e, t)
        PROVE  Effect
    <2>0. event_registry' = event_registry \cup {e}
          /\ UNCHANGED <<executedCount, canceledCount>>
      BY <1>1, Zenon DEF Schedule
    <2>1. CASE Rekey(e, t)
      <3>1. UNCHANGED <<prio_queue, event_map, status, accepted, requeued>>
        BY <2>1, Zenon DEF Rekey
      <3>2. event_registry' = event_registry
        <4>1. e \in event_registry
          BY <2>1 DEF Rekey, RecordsInv
        <4> QED BY <2>0, <4>1
      <3> QED BY <2>0, <3>1, <3>2, SameRecords, Zenon DEF Effect, statistics
    <2>2. CASE TurnAway(e, t)
      <3>1. /\ isShutdown /\ UNCHANGED <<prio_queue, event_map, status, accepted>>
            /\ requeued' = (requeued \/ Runs(e))
        BY <2>2, Zenon DEF TurnAway
      <3>2. Queued' = Queued
        BY <3>1 DEF Queued
      <3>3. Registers(e)
        BY <2>0, <3>1, <3>2, Zenon DEF Registers, statistics
      <3> QED BY <3>1, <3>3, Zenon DEF Effect
    <2>3. CASE Enqueue(e, t)
      <3>1. Inserts(e) /\ requeued' = (requeued \/ Runs(e))
        BY <1>1, <2>0, <2>3, EnqueueEnters, Zenon DEF Schedule, Enqueue, Inserts, Call
      <3> QED BY <3>1, Zenon DEF Effect
    <2> QED BY <1>1, <2>1, <2>2, <2>3, Zenon DEF Schedule
  <1>2. ASSUME NEW e \in Events, NEW t \in Time, Reschedule(c, e, t)
        PROVE  Effect
    <2>1. event_registry' = event_registry \cup {e}
      BY <1>2 DEF Reschedule
    <2>2. Inserts(e) /\ requeued' = (requeued \/ Runs(e))
      BY <1>2, <2>1, EnqueueEnters, Zenon DEF Reschedule, Enqueue, Inserts, Call
    <2> QED BY <2>2, Zenon DEF Effect
  <1>3. ASSUME NEW e \in Events, Cancel(c, e)
        PROVE  Effect
    <2>1. Removes(e) /\ UNCHANGED requeued
      BY <1>3, DequeueLeaves, Zenon DEF Cancel, Removes
    <2> QED BY <2>1, Zenon DEF Effect
  <1>4. ASSUME NEW e \in Events, CancelDelete(c, e)
        PROVE  Effect
    <2>1. UNCHANGED <<accepted, executedCount, requeued>>
      BY <1>4, Zenon DEF CancelDelete
    <2>2. CASE status[e] = "Executing"
      <3>1. Dequeue(e, "To_Delete") /\ UNCHANGED canceledCount
        BY <1>4, <2>2 DEF CancelDelete
      <3> QED BY <2>1, <2>2, <3>1, DequeueLeaves, Zenon DEF Effect, Condemns, statistics
    <2>3. CASE status[e] = "In_Queue"
      <3>1. Dequeue(e, "Deleted") /\ canceledCount' = canceledCount + 1
        BY <1>4, <2>3 DEF CancelDelete
      <3> QED BY <2>1, <2>3, <3>1, DequeueLeaves, Zenon DEF Effect, Removes
    <2>4. CASE status[e] \notin {"In_Queue", "Executing"}
      <3>1. DeleteOnly(e) /\ UNCHANGED canceledCount
            /\ e \in event_registry /\ status[e] # "Deleted"
        BY <1>4, <2>4 DEF CancelDelete
      <3>2. Queued' = Queued
        BY <3>1 DEF DeleteOnly, Queued
      <3>3. Deletes(e)
        BY <2>1, <2>4, <3>1, <3>2, Zenon DEF Deletes, DeleteOnly, statistics
      <3> QED BY <2>1, <3>3, Zenon DEF Effect
    <2> QED BY <2>2, <2>3, <2>4
  <1>5. CASE ClearOne(c)
    <2>1. prio_queue # <<>> /\ Dequeue(Top, "Canceled")
      BY <1>5 DEF ClearOne
    <2>2. Top \in Events /\ status[Top] = "In_Queue"
      BY <2>1, TopQueued DEF HeapInv, RecordsInv
    <2>3. Removes(Top) /\ UNCHANGED requeued
      BY <1>5, <2>1, <2>2, DequeueLeaves, Zenon DEF ClearOne, Removes
    <2> QED BY <2>2, <2>3, Zenon DEF Effect
  <1>6. CASE ResetStats(c)
    <2>1. UNCHANGED records
      BY <1>6, SameRecords, Zenon DEF ResetStats, queueVars
    <2>2. accepted' = Cardinality(Queued) + Cardinality({e \in Events : Runs(e)})
      BY <1>6, HeapCounts, Zenon DEF ResetStats
    <2> QED BY <1>6, <2>1, <2>2, Zenon DEF ResetStats, Resets, Effect
  <1>7. CASE ClearAll(c) \/ ClearEnd(c) \/ NotifyAfter(c) \/ Shutdown(c)
             \/ Pause(c) \/ Resume(c) \/ WaitUntilEmpty(c) \/ WaitTimesOut(c)
    <2>1. UNCHANGED <<queueVars, statistics, requeued>>
      BY <1>7, Zenon
      DEF ClearAll, ClearEnd, NotifyAfter, Shutdown, Pause, Resume, WaitUntilEmpty,
          WaitTimesOut, statistics
    <2> QED BY <2>1, SameRecords, Zenon DEF Effect, queueVars
  <1> QED BY <1>1, <1>2, <1>3, <1>4, <1>5, <1>6, <1>7, Zenon DEF ClientOf

\* What the worker's steps do to them.
Takes ==
    /\ Top \in Queued
    /\ Queued' = Queued \ {Top}
    /\ status' = [status EXCEPT ![Top] = "Executing"]
    /\ current' = Top /\ requeued' = FALSE /\ worker' = "running"
    /\ UNCHANGED <<event_map, event_registry>>

LEMMA TimedOutEffect ==
  ASSUME QueueTypes, HeapInv, TimedOut
  PROVE  \/ /\ UNCHANGED <<records, current, requeued>>
            /\ worker' \in {"draining", "awake"}
         \/ Takes
  <1>1. CASE isShutdown \/ isPaused \/ NotYet
    <2>1. /\ UNCHANGED <<prio_queue, status, current, requeued, event_map, event_registry>>
          /\ worker' \in {"draining", "awake"}
      BY <1>1 DEF TimedOut
    <2> QED BY <2>1, SameRecords, Zenon
  <1>2. CASE ~(isShutdown \/ isPaused \/ NotYet)
    <2>1. /\ prio_queue # <<>> /\ prio_queue' = Without(Top)
          /\ status' = [status EXCEPT ![Top] = "Executing"]
          /\ current' = Top /\ requeued' = FALSE /\ worker' = "running"
          /\ UNCHANGED <<event_map, event_registry>>
      BY <1>2, Zenon DEF TimedOut, NotYet
    <2>2. Top \in Queued /\ Top \in Events
      BY <2>1, TopQueued DEF HeapInv, QueueTypes
    <2>3. ToSet(Without(Top)) = Queued \ {Top}
      BY <2>2, WithoutFacts DEF QueueTypes, HeapInv
    <2>4. Queued' = Queued \ {Top}
      BY <2>1, <2>3 DEF Queued
    <2> QED BY <2>1, <2>2, <2>4, Zenon DEF Takes
  <1> QED BY <1>1, <1>2

LEMMA DrainEffect ==
  ASSUME QueueTypes, HeapInv, Drain
  PROVE  \/ /\ UNCHANGED <<records, canceledCount>>
            /\ pc' = Wake(pc) /\ worker' = "ended"
         \/ /\ Top \in Queued /\ Leaves(Top, "Canceled")
            /\ canceledCount' = canceledCount + 1
            /\ UNCHANGED <<worker, pc>>
  <1>1. CASE prio_queue = <<>>
    <2>1. UNCHANGED <<queueVars, canceledCount>> /\ pc' = Wake(pc) /\ worker' = "ended"
      BY <1>1, Zenon DEF Drain
    <2> QED BY <2>1, SameRecords, Zenon DEF queueVars
  <1>2. CASE prio_queue # <<>>
    <2>1. /\ Dequeue(Top, "Canceled") /\ canceledCount' = canceledCount + 1
          /\ UNCHANGED <<worker, pc>>
      BY <1>2, Zenon DEF Drain
    <2>2. Top \in Queued /\ Top \in Events
      BY <1>2, TopQueued DEF HeapInv, QueueTypes
    <2> QED BY <2>1, <2>2, DequeueLeaves, Zenon
  <1> QED BY <1>1, <1>2

\* The event that has run is not in the heap, which stays as it is.
LEMMA FinishEffect ==
  ASSUME QueueTypes, HeapInv, RecordsInv, Finish
  PROVE  /\ current \in Events /\ worker = "running"
         /\ UNCHANGED prio_queue /\ Queued' = Queued
         /\ \/ /\ status[current] = "To_Delete"
               /\ status' = [status EXCEPT ![current] = "Deleted"]
               /\ worker' = "finished"
               /\ UNCHANGED <<event_map, event_registry>>
            \/ /\ status[current] = "In_Queue" /\ worker' = "finished"
               /\ UNCHANGED <<event_map, event_registry, status>>
            \/ /\ status[current] \in {"Executing", "Canceled"}
               /\ current \in event_map
               /\ event_map' = event_map \ {current}
               /\ event_registry' = event_registry \ {current}
               /\ status' = [status EXCEPT ![current] = "Executed"]
               /\ worker' = "finished"
            \/ /\ \/ status[current] = "Deleted"
                  \/ status[current] \in {"Executing", "Canceled"}
                     /\ current \notin event_map
               /\ worker' = "terminated"
               /\ UNCHANGED <<event_map, event_registry, status>>
  <1>1. current \in Events /\ worker = "running"
    BY QueueConstants DEF Finish, QueueTypes
  <1>2. UNCHANGED prio_queue
    <2>1. CASE status[current] \in {"Executing", "Canceled"} /\ Dequeue(current, "Executed")
      <3>1. current \notin Queued
        BY <2>1 DEF RecordsInv
      <3> QED BY <2>1, <3>1, Zenon DEF Dequeue, Without
    <2> QED BY <2>1, Zenon DEF Finish, queueVars
  <1>3. Queued' = Queued
    BY <1>2 DEF Queued
  <1> QED BY <1>1, <1>2, <1>3, Zenon DEF Finish, Dequeue, queueVars

\* What else a client's step leaves as it is.
LEMMA ClientFrame ==
  ASSUME NEW c \in Clients, ClientOf(c)
  PROVE  /\ UNCHANGED <<now, original, current, emptied>>
         /\ MayRouse
         /\ isShutdown => isShutdown'
         /\ Up
         /\ UNCHANGED calls \/ (calls < MaxCalls /\ calls' = calls + 1)
  <1>u. UNCHANGED worker => MayRouse
    BY DEF MayRouse
  <1>1. ASSUME NEW e \in Events, NEW t \in Time, Schedule(c, e, t) \/ Reschedule(c, e, t)
        PROVE  /\ UNCHANGED <<now, original, current, emptied, isShutdown>>
               /\ MayRouse /\ Up /\ calls < MaxCalls /\ calls' = calls + 1
    BY <1>u, <1>1, NotifyRouses, Zenon
    DEF Schedule, Rekey, TurnAway, Reschedule, Enqueue, Call
  <1>2. ASSUME NEW e \in Events, Cancel(c, e) \/ CancelDelete(c, e)
        PROVE  /\ UNCHANGED <<now, original, current, emptied, isShutdown>>
               /\ MayRouse /\ Up /\ calls < MaxCalls /\ calls' = calls + 1
    BY <1>u, <1>2, Zenon DEF Cancel, CancelDelete, workerVars, Call
  <1>3. CASE ClearAll(c)
    BY <1>u, <1>3, Zenon DEF ClearAll, workerVars, Call
  <1>4. CASE ClearOne(c)
    BY <1>u, <1>4, Zenon DEF ClearOne, workerVars
  <1>5. CASE ClearEnd(c)
    BY <1>5, NotifyRouses, Zenon DEF ClearEnd
  <1>6. CASE NotifyAfter(c)
    BY <1>6, NotifyRouses, Zenon DEF NotifyAfter
  <1>7. CASE Shutdown(c)
    BY <1>7, NotifyRouses, Zenon DEF Shutdown, Call
  <1>8. CASE Pause(c)
    BY <1>u, <1>8, Zenon DEF Pause, workerVars, Call
  <1>9. CASE Resume(c)
    BY <1>9, NotifyRouses, Zenon DEF Resume, Call
  <1>10. CASE WaitUntilEmpty(c)
    BY <1>u, <1>10, Zenon DEF WaitUntilEmpty, workerVars, Call
  <1>11. CASE WaitTimesOut(c)
    BY <1>u, <1>11, Zenon DEF WaitTimesOut, workerVars
  <1>12. CASE ResetStats(c)
    BY <1>u, <1>12, Zenon DEF ResetStats, workerVars, Call
  <1> QED BY <1>1, <1>2, <1>3, <1>4, <1>5, <1>6, <1>7, <1>8, <1>9, <1>10, <1>11, <1>12,
             Zenon DEF ClientOf

-----------------------------------------------------------------------------
(* Types.                                                                  *)

LEMMA LabelsAre ==
  /\ "awake" \in WorkerLabels /\ "roused" \in WorkerLabels
  /\ "sleeping" \in WorkerLabels /\ "timed wait" \in WorkerLabels
  /\ "running" \in WorkerLabels /\ "finished" \in WorkerLabels
  /\ "draining" \in WorkerLabels /\ "ended" \in WorkerLabels
  /\ "terminated" \in WorkerLabels
  /\ "idle" \in ClientLabels /\ "notify" \in ClientLabels
  /\ "notify empty" \in ClientLabels /\ "clearing" \in ClientLabels
  /\ "waiting" \in ClientLabels
  BY DEF WorkerLabels, ClientLabels

\* A client's place in its call.
LEMMA ClientPlaces ==
  ASSUME pc \in [Clients -> ClientLabels], NEW c \in Clients, ClientOf(c)
  PROVE  pc' \in [Clients -> ClientLabels]
  <1>1. ASSUME NEW l \in ClientLabels, pc' = [pc EXCEPT ![c] = l]
        PROVE  pc' \in [Clients -> ClientLabels]
    BY <1>1
  <1>2. ASSUME NEW e \in Events, NEW t \in Time, Schedule(c, e, t) \/ Reschedule(c, e, t)
        PROVE  UNCHANGED pc
    BY <1>2, Zenon DEF Schedule, Reschedule, Returns
  <1>3. ASSUME NEW e \in Events, Cancel(c, e) \/ CancelDelete(c, e)
        PROVE  UNCHANGED pc \/ \E l \in ClientLabels : pc' = [pc EXCEPT ![c] = l]
    <2>1. ASSUME NEW empty, NotifyLater(c, empty)
          PROVE  \E l \in ClientLabels : pc' = [pc EXCEPT ![c] = l]
      BY <2>1, LabelsAre, Zenon DEF NotifyLater
    <2> QED BY <1>3, <2>1, Zenon DEF Cancel, CancelDelete, Returns
  <1>4. CASE ClearAll(c) \/ WaitTimesOut(c) \/ WaitUntilEmpty(c)
    <2>1. \E l \in ClientLabels : pc' = [pc EXCEPT ![c] = l]
      BY <1>4, LabelsAre, Zenon DEF ClearAll, WaitTimesOut, WaitUntilEmpty
    <2> QED BY <1>1, <2>1
  <1>5. CASE ClearOne(c) \/ Shutdown(c) \/ Pause(c) \/ Resume(c) \/ ResetStats(c)
    BY <1>5, Zenon DEF ClearOne, Shutdown, Pause, Resume, ResetStats, Returns
  <1>6. CASE ClearEnd(c) \/ NotifyAfter(c)
    <2>1. PICK w \in {pc, Wake(pc)} : pc' = [w EXCEPT ![c] = "idle"]
      BY <1>6, Zenon DEF ClearEnd, NotifyAfter
    <2>2. w \in [Clients -> ClientLabels]
      BY <2>1, WakeType
    <2> QED BY <2>1, <2>2, LabelsAre
  <1> QED BY <1>1, <1>2, <1>3, <1>4, <1>5, <1>6, Zenon DEF ClientOf

\* The events' times.
LEMMA ClientTimes ==
  ASSUME due \in [Events -> Time], NEW c \in Clients, ClientOf(c)
  PROVE  due' \in [Events -> Time]
  <1>1. ASSUME NEW e \in Events, NEW t \in Time, Schedule(c, e, t) \/ Reschedule(c, e, t)
        PROVE  due' \in [Events -> Time]
    <2>1. due' = [due EXCEPT ![e] = t]
      BY <1>1, Zenon DEF Schedule, Rekey, TurnAway, Reschedule, Enqueue
    <2> QED BY <2>1
  <1>2. ASSUME NEW e \in Events, Cancel(c, e) \/ CancelDelete(c, e)
        PROVE  UNCHANGED due
    BY <1>2, Zenon DEF Cancel, CancelDelete
  <1>3. CASE ClearAll(c) \/ ClearOne(c) \/ ClearEnd(c) \/ NotifyAfter(c)
             \/ Shutdown(c) \/ Pause(c) \/ Resume(c)
             \/ WaitUntilEmpty(c) \/ WaitTimesOut(c) \/ ResetStats(c)
    BY <1>3, Zenon
    DEF ClearAll, ClearOne, ClearEnd, NotifyAfter, Shutdown, Pause, Resume,
        WaitUntilEmpty, WaitTimesOut, ResetStats
  <1> QED BY <1>1, <1>2, <1>3, Zenon DEF ClientOf

\* The records stay records of events.
LEMMA EffectTypes ==
  ASSUME QueueTypes, Effect
  PROVE  /\ status' \in [Events -> Statuses]
         /\ Queued' \subseteq Events
         /\ event_map' \subseteq Events
         /\ event_registry' \subseteq Events
  <1> USE DEF QueueTypes, records, Statuses
  <1>1. CASE UNCHANGED records
    BY <1>1
  <1>2. ASSUME NEW e \in Events, Inserts(e) \/ Registers(e)
        PROVE  /\ status' \in [Events -> Statuses]
               /\ Queued' \subseteq Events
               /\ event_map' \subseteq Events
               /\ event_registry' \subseteq Events
    BY <1>2 DEF Inserts, Registers
  <1>3. ASSUME NEW e \in Events, Removes(e) \/ Condemns(e) \/ Deletes(e)
        PROVE  /\ status' \in [Events -> Statuses]
               /\ Queued' \subseteq Events
               /\ event_map' \subseteq Events
               /\ event_registry' \subseteq Events
    BY <1>3 DEF Removes, Condemns, Deletes, Leaves
  <1>4. UNCHANGED records
        \/ (\E e \in Events : Inserts(e) \/ Registers(e))
        \/ \E e \in Events : Removes(e) \/ Condemns(e) \/ Deletes(e)
    BY Zenon DEF Effect, Resets
  <1> QED BY <1>1, <1>2, <1>3, <1>4, Zenon

LEMMA QueueTypesInit == Init => QueueTypes
  <1>1. Init => Queued = {}
    BY DEF Init, Queued, ToSet
  <1> QED BY <1>1, QueueConstants
      DEF Init, QueueTypes, Time, Statuses, WorkerLabels, ClientLabels

LEMMA QueueTypesStep ==
  ASSUME QueueTypes, HeapInv, RecordsInv, [Next]_vars
  PROVE  QueueTypes'
  <1> USE DEF QueueTypes
  <1>1. ASSUME NEW c \in Clients, ClientOf(c)
        PROVE  QueueTypes'
    <2>1. /\ status' \in [Events -> Statuses] /\ Queued' \subseteq Events
          /\ event_map' \subseteq Events /\ event_registry' \subseteq Events
      BY <1>1, ClientEffect, EffectTypes
    <2>2. UNCHANGED current /\ MayRouse
      BY <1>1, ClientFrame
    <2>3. worker' \in WorkerLabels /\ (worker' \in {"running", "finished"} => worker' = worker)
      BY <2>2, LabelsAre DEF MayRouse
    <2> QED BY <1>1, <2>1, <2>2, <2>3, ClientTimes, ClientPlaces
  <1>2. CASE Decide
    <2>1. Queued' = Queued
      BY <1>2 DEF Decide, queueVars, Queued
    <2> QED BY <1>2, <2>1, LabelsAre DEF Decide, WorkerFrame, queueVars
  <1>3. CASE TimedOut
    <2>1. UNCHANGED <<due, pc>>
      BY <1>3, Zenon DEF TimedOut, WorkerFrame
    <2>2. CASE UNCHANGED <<records, current, requeued>> /\ worker' \in {"draining", "awake"}
      BY <2>1, <2>2, LabelsAre DEF records
    <2>3. CASE Takes
      BY <2>1, <2>3, LabelsAre, QueueConstants DEF Takes, Statuses
    <2> QED BY <1>3, <2>2, <2>3, TimedOutEffect
  <1>4. CASE Finish
    <2>1. UNCHANGED <<due, pc, current>>
      BY <1>4, Zenon DEF Finish, WorkerFrame
    <2> QED BY <1>4, <2>1, FinishEffect, LabelsAre DEF Statuses
  <1>5. CASE AfterFinish
    <2>1. Queued' = Queued
      BY <1>5 DEF AfterFinish, queueVars, Queued
    <2> QED BY <1>5, <2>1, LabelsAre, WakeType DEF AfterFinish, WorkerFrame, queueVars
  <1>6. CASE Drain
    <2>1. UNCHANGED <<due, current>> /\ worker = "draining"
      BY <1>6, Zenon DEF Drain, WorkerFrame
    <2>2. CASE UNCHANGED <<records, canceledCount>> /\ pc' = Wake(pc) /\ worker' = "ended"
      BY <2>1, <2>2, LabelsAre, WakeType DEF records
    <2>3. CASE Top \in Queued /\ Leaves(Top, "Canceled") /\ UNCHANGED <<worker, pc>>
      BY <2>1, <2>3, LabelsAre DEF Leaves, Statuses
    <2> QED BY <1>6, <2>2, <2>3, DrainEffect
  <1>7. CASE Tick \/ UNCHANGED vars
    <2>1. UNCHANGED <<due, queueVars, worker, current, pc>>
      BY <1>7, Zenon DEF Tick, vars, workerVars
    <2> QED BY <2>1 DEF queueVars, Queued
  <1> QED BY <1>1, <1>2, <1>3, <1>4, <1>5, <1>6, <1>7, NextSplits

LEMMA FlagTypesStep ==
  ASSUME FlagTypes, [Next]_vars
  PROVE  FlagTypes'
  <1>1. ASSUME NEW c \in Clients, ClientOf(c)
        PROVE  FlagTypes'
    <2>1. ASSUME NEW e \in Events, NEW t \in Time, Schedule(c, e, t) \/ Reschedule(c, e, t)
          PROVE  FlagTypes'
      BY <1>1, <2>1, Zenon DEF Schedule, Rekey, TurnAway, Reschedule, Enqueue, FlagTypes
    <2>2. ASSUME NEW e \in Events, Cancel(c, e) \/ CancelDelete(c, e)
          PROVE  FlagTypes'
      BY <2>2, Zenon DEF Cancel, CancelDelete, FlagTypes, workerVars
    <2>3. CASE ClearAll(c) \/ ClearOne(c) \/ ClearEnd(c) \/ NotifyAfter(c)
      BY <2>3, Zenon DEF ClearAll, ClearOne, ClearEnd, NotifyAfter, FlagTypes, workerVars
    <2>4. CASE Shutdown(c) \/ Pause(c) \/ Resume(c)
      BY <2>4, Zenon DEF Shutdown, Pause, Resume, FlagTypes, workerVars
    <2>5. CASE WaitUntilEmpty(c) \/ WaitTimesOut(c) \/ ResetStats(c)
      BY <2>5, Zenon DEF WaitUntilEmpty, WaitTimesOut, ResetStats, FlagTypes, workerVars
    <2> QED BY <1>1, <2>1, <2>2, <2>3, <2>4, <2>5, Zenon DEF ClientOf
  <1>2. CASE Decide \/ TimedOut \/ AfterFinish \/ Drain
    BY <1>2, Zenon DEF Decide, TimedOut, AfterFinish, Drain, WorkerFrame, FlagTypes
  <1>3. CASE Finish
    BY <1>3, Zenon DEF Finish, WorkerFrame, FlagTypes
  <1>4. CASE Tick \/ UNCHANGED vars
    BY <1>4, Zenon DEF Tick, vars, FlagTypes, workerVars
  <1> QED BY <1>1, <1>2, <1>3, <1>4, NextSplits

LEMMA RecordsInit == Init => RecordsInv
  <1>1. Init => Queued = {}
    BY DEF Init, Queued, ToSet
  <1> QED BY <1>1 DEF Init, RecordsInv

LEMMA RecordsStep ==
  ASSUME QueueTypes, HeapInv, RecordsInv, [Next]_vars
  PROVE  RecordsInv'
  <1> USE DEF RecordsInv, QueueTypes, records, Statuses
  <1>1. ASSUME NEW c \in Clients, ClientOf(c)
        PROVE  RecordsInv'
    <2>0. (isShutdown => isShutdown') /\ Effect
      BY <1>1, ClientFrame, ClientEffect
    <2>1. CASE UNCHANGED records
      BY <2>0, <2>1
    <2>2. ASSUME NEW e \in Events, Inserts(e)
          PROVE  RecordsInv'
      BY <2>0, <2>2 DEF Inserts
    <2>3. ASSUME NEW e \in Events, Registers(e)
          PROVE  RecordsInv'
      BY <2>0, <2>3 DEF Registers
    <2>4. ASSUME NEW e \in Events, Removes(e)
          PROVE  RecordsInv'
      BY <2>0, <2>4 DEF Removes, Leaves
    <2>5. ASSUME NEW e \in Events, Condemns(e)
          PROVE  RecordsInv'
      BY <2>0, <2>5 DEF Condemns, Leaves
    <2>6. ASSUME NEW e \in Events, Deletes(e)
          PROVE  RecordsInv'
      BY <2>0, <2>6 DEF Deletes
    <2> QED BY <2>0, <2>1, <2>2, <2>3, <2>4, <2>5, <2>6, Zenon DEF Effect, Resets
  <1>2. CASE Decide \/ AfterFinish \/ Tick \/ UNCHANGED vars
    <2>1. UNCHANGED queueVars /\ UNCHANGED isShutdown
      BY <1>2, Zenon DEF Decide, AfterFinish, Tick, vars, WorkerFrame
    <2>2. UNCHANGED records
      BY <2>1, SameRecords, Zenon DEF queueVars
    <2> QED BY <2>1, <2>2
  <1>3. CASE TimedOut
    <2>1. UNCHANGED isShutdown
      BY <1>3, Zenon DEF TimedOut, WorkerFrame
    <2> QED BY <1>3, <2>1, TimedOutEffect DEF Takes
  <1>4. CASE Finish
    <2>1. UNCHANGED isShutdown
      BY <1>4, Zenon DEF Finish, WorkerFrame
    <2> QED BY <1>4, <2>1, FinishEffect
  <1>5. CASE Drain
    <2>1. UNCHANGED isShutdown
      BY <1>5, Zenon DEF Drain, WorkerFrame
    <2> QED BY <1>5, <2>1, DrainEffect DEF Leaves
  <1> QED BY <1>1, <1>2, <1>3, <1>4, <1>5, NextSplits

-----------------------------------------------------------------------------
(* The statistics: every insertion is accounted for once.                  *)

running == IF worker = "running" THEN 1 ELSE 0

Account == accepted = executedCount + canceledCount + Cardinality(Queued) + running

LEMMA RunningCount ==
  ASSUME QueueTypes
  PROVE  Cardinality({e \in Events : Runs(e)}) = running
  <1>1. CASE worker = "running"
    <2>1. current \in Events
      BY <1>1, QueueConstants DEF QueueTypes
    <2>2. {e \in Events : Runs(e)} = {current}
      BY <1>1, <2>1 DEF Runs
    <2> QED BY <1>1, <2>2, FS_Singleton DEF running
  <1>2. CASE worker # "running"
    <2>1. {e \in Events : Runs(e)} = {}
      BY <1>2 DEF Runs
    <2> QED BY <1>2, <2>1, FS_EmptySet DEF running
  <1> QED BY <1>1, <1>2

LEMMA HeapCount ==
  ASSUME QueueTypes
  PROVE  /\ Cardinality(Queued) \in Nat
         /\ \A e \in Queued : Cardinality(Queued \ {e}) = Cardinality(Queued) - 1
         /\ \A e : e \notin Queued =>
               Cardinality(Queued \cup {e}) = Cardinality(Queued) + 1
  <1>1. IsFiniteSet(Queued)
    BY QueueConstants, FS_Subset DEF QueueTypes
  <1> QED BY <1>1, FS_CardinalityType, FS_AddElement, FS_RemoveElement

\* A rousing changes neither what runs nor what is over.
LEMMA RouseKeeps ==
  ASSUME MayRouse
  PROVE  /\ running' = running
         /\ (worker' \in {"draining", "ended", "terminated", "running", "finished"}
               => worker' = worker)
         /\ (worker \in {"draining", "ended", "terminated", "running", "finished"}
               => worker' = worker)
  BY DEF MayRouse, running

LEMMA AccountStep ==
  ASSUME QueueTypes, HeapInv, ClockTypes, RecordsInv, Account, [Next]_vars
  PROVE  /\ Account'
         /\ accepted' \in Nat /\ executedCount' \in Nat /\ canceledCount' \in Nat
         /\ calls' \in 0 .. MaxCalls /\ accepted' <= calls'
  <1> USE QueueConstants, HeapCount DEF ClockTypes
  <1>r. running \in {0, 1}
    BY DEF running
  <1>1. ASSUME NEW c \in Clients, ClientOf(c)
        PROVE  /\ Account'
               /\ accepted' \in Nat /\ executedCount' \in Nat /\ canceledCount' \in Nat
               /\ calls' \in 0 .. MaxCalls /\ accepted' <= calls'
    <2>1. running' = running
      BY <1>1, ClientFrame, RouseKeeps
    <2>2. UNCHANGED calls \/ (calls < MaxCalls /\ calls' = calls + 1)
      BY <1>1, ClientFrame
    <2>3. CASE UNCHANGED <<records, statistics, requeued>>
      BY <2>1, <2>2, <2>3 DEF Account, records, statistics
    <2>4. ASSUME NEW e \in Events, Inserts(e)
          PROVE  /\ Account'
                 /\ accepted' \in Nat /\ executedCount' \in Nat /\ canceledCount' \in Nat
                 /\ calls' \in 0 .. MaxCalls /\ accepted' <= calls'
      <3>1. CASE e \in Queued
        <4>1. Queued' = Queued
          BY <2>4, <3>1 DEF Inserts
        <4> QED BY <2>1, <2>4, <3>1, <4>1, <1>r DEF Inserts, Account
      <3>2. CASE e \notin Queued
        <4>1. Cardinality(Queued') = Cardinality(Queued) + 1
          BY <2>4, <3>2 DEF Inserts
        <4> QED BY <2>1, <2>4, <3>2, <4>1, <1>r DEF Inserts, Account
      <3> QED BY <3>1, <3>2
    <2>5. ASSUME NEW e \in Events, Registers(e) \/ Deletes(e) \/ Condemns(e)
          PROVE  /\ Account'
                 /\ accepted' \in Nat /\ executedCount' \in Nat /\ canceledCount' \in Nat
                 /\ calls' \in 0 .. MaxCalls /\ accepted' <= calls'
      <3>1. UNCHANGED statistics
        BY <2>5, Zenon DEF Registers, Deletes, Condemns
      <3>2. Queued' = Queued
        BY <2>5 DEF Registers, Deletes, Condemns, Leaves, RecordsInv
      <3> QED BY <2>1, <2>2, <3>1, <3>2, <1>r DEF Account, statistics
    <2>6. ASSUME NEW e \in Events, Removes(e)
          PROVE  /\ Account'
                 /\ accepted' \in Nat /\ executedCount' \in Nat /\ canceledCount' \in Nat
                 /\ calls' \in 0 .. MaxCalls /\ accepted' <= calls'
      <3>1. e \in Queued /\ Queued' = Queued \ {e}
        BY <2>6 DEF Removes, Leaves, RecordsInv
      <3>2. Cardinality(Queued') = Cardinality(Queued) - 1
        BY <3>1
      <3>3. canceledCount' = canceledCount + 1 /\ UNCHANGED <<accepted, executedCount>>
        BY <2>6, Zenon DEF Removes
      <3> QED BY <2>1, <2>2, <3>2, <3>3, <1>r DEF Account
    <2>7. CASE Resets
      <3>1. /\ executedCount' = 0 /\ canceledCount' = 0
            /\ accepted' = Cardinality(Queued) + running
            /\ Queued' = Queued
        BY <2>7, RunningCount DEF Resets, records
      <3> QED BY <2>1, <2>2, <3>1, <1>r DEF Account
    <2> QED BY <1>1, <2>3, <2>4, <2>5, <2>6, <2>7, ClientEffect, Zenon DEF Effect
  <1>2. CASE Decide \/ AfterFinish \/ Tick \/ UNCHANGED vars
    <2>1. UNCHANGED <<executedCount, canceledCount, accepted, calls>>
          /\ UNCHANGED prio_queue
      BY <1>2, Zenon DEF Decide, AfterFinish, Tick, vars, WorkerFrame, queueVars
    <2>3. Queued' = Queued
      BY <2>1 DEF Queued
    <2>2. running' = running
      BY <1>2 DEF Decide, AfterFinish, Tick, vars, workerVars, running
    <2> QED BY <2>1, <2>2, <2>3, <1>r DEF Account
  <1>3. CASE TimedOut
    <2>1. UNCHANGED <<executedCount, canceledCount, accepted, calls>>
      BY <1>3, Zenon DEF TimedOut, WorkerFrame
    <2>0. worker \in {"timed wait", "roused"}
      BY <1>3, Zenon DEF TimedOut
    <2>2. CASE UNCHANGED records /\ worker' \in {"draining", "awake"}
      <3>1. running = 0 /\ running' = 0
        BY <2>0, <2>2 DEF running
      <3> QED BY <2>1, <2>2, <3>1 DEF Account, records
    <2>3. CASE Takes
      <3>1. Cardinality(Queued') = Cardinality(Queued) - 1
        BY <2>3 DEF Takes
      <3>2. running = 0 /\ running' = 1
        BY <2>0, <2>3 DEF Takes, running
      <3> QED BY <2>1, <3>1, <3>2 DEF Account
    <2> QED BY <1>3, <2>2, <2>3, TimedOutEffect, Zenon
  <1>4. CASE Finish
    <2>1. executedCount' = executedCount + 1 /\ UNCHANGED <<canceledCount, accepted, calls>>
      BY <1>4, Zenon DEF Finish, WorkerFrame
    <2>2. running = 1 /\ running' = 0
      BY <1>4 DEF Finish, running
    <2>3. Queued' = Queued
      BY <1>4, FinishEffect
    <2> QED BY <2>1, <2>2, <2>3 DEF Account
  <1>5. CASE Drain
    <2>1. UNCHANGED <<executedCount, accepted, calls>>
      BY <1>5, Zenon DEF Drain, WorkerFrame
    <2>2. running = 0 /\ running' = 0
      BY <1>5 DEF Drain, running
    <2>3. CASE UNCHANGED <<records, canceledCount>>
      BY <2>1, <2>2, <2>3 DEF Account, records
    <2>4. CASE /\ Top \in Queued /\ Leaves(Top, "Canceled")
               /\ canceledCount' = canceledCount + 1
      <3>1. Cardinality(Queued') = Cardinality(Queued) - 1
        BY <2>4 DEF Leaves
      <3> QED BY <2>1, <2>2, <2>4, <3>1 DEF Account
    <2> QED BY <1>5, <2>3, <2>4, DrainEffect, Zenon
  <1> QED BY <1>1, <1>2, <1>3, <1>4, <1>5, NextSplits

LEMMA ClocksStep ==
  ASSUME QueueTypes, HeapInv, ClockTypes, [Next]_vars
  PROVE  now' \in Time /\ original' \in Time
  <1>1. CASE \E c \in Clients : ClientOf(c)
    BY <1>1, ClientFrame DEF ClockTypes
  <1>2. CASE Decide
    <2>1. UNCHANGED now
      BY <1>2, Zenon DEF Decide, WorkerFrame
    <2>2. UNCHANGED original \/ (prio_queue # <<>> /\ original' = due[Top])
      BY <1>2 DEF Decide
    <2>3. prio_queue # <<>> => due[Top] \in Time
      BY TopQueued DEF QueueTypes, HeapInv
    <2> QED BY <2>1, <2>2, <2>3 DEF ClockTypes
  <1>3. CASE TimedOut \/ Finish \/ AfterFinish \/ Drain \/ UNCHANGED vars
    <2>1. UNCHANGED <<now, original>>
      BY <1>3, Zenon DEF TimedOut, Finish, AfterFinish, Drain, WorkerFrame, vars, workerVars
    <2> QED BY <2>1 DEF ClockTypes
  <1>4. CASE Tick
    <2>1. UNCHANGED original /\ now < MaxTime /\ now' = now + 1
      BY <1>4, Zenon DEF Tick, workerVars
    <2> QED BY <2>1, QueueConstants DEF ClockTypes, Time
  <1> QED BY <1>1, <1>2, <1>3, <1>4, NextSplits, Zenon

-----------------------------------------------------------------------------
(* The worker.                                                             *)

\* It drains only after shutdown; and, as long as the event it runs has not
\* been scheduled again, that event is executing, or condemned and unknown
\* to the registry.
EndsOnShutdown == worker \in {"draining", "ended"} => isShutdown

RunsSafely ==
    /\ Up
    /\ worker = "running" =>
          \/ status[current] = "Executing"
          \/ status[current] = "To_Delete" /\ current \notin event_registry

WorkerInv == EndsOnShutdown /\ (requeued \/ RunsSafely)

LEMMA EndsStep ==
  ASSUME EndsOnShutdown, [Next]_vars
  PROVE  EndsOnShutdown'
  <1>1. ASSUME NEW c \in Clients, ClientOf(c)
        PROVE  EndsOnShutdown'
    <2>1. MayRouse /\ (isShutdown => isShutdown')
      BY <1>1, ClientFrame
    <2> QED BY <2>1 DEF MayRouse, EndsOnShutdown
  <1>2. ASSUME Decide \/ TimedOut \/ Finish \/ AfterFinish \/ Drain
        PROVE  EndsOnShutdown'
    <2>1. isShutdown' = isShutdown
      BY <1>2, Zenon DEF Decide, TimedOut, Finish, AfterFinish, Drain, WorkerFrame
    <2>2. worker' \in {"draining", "ended"} => isShutdown \/ worker \in {"draining", "ended"}
      BY <1>2 DEF Decide, TimedOut, Finish, AfterFinish, Drain
    <2> QED BY <2>1, <2>2, Zenon DEF EndsOnShutdown
  <1>3. CASE Tick \/ UNCHANGED vars
    <2>1. UNCHANGED <<worker, isShutdown>>
      BY <1>3, Zenon DEF Tick, vars, workerVars
    <2> QED BY <2>1, Zenon DEF EndsOnShutdown
  <1> QED BY <1>1, <1>2, <1>3, NextSplits

LEMMA RunsStep ==
  ASSUME QueueTypes, HeapInv, RecordsInv, requeued \/ RunsSafely, [Next]_vars
  PROVE  requeued' \/ RunsSafely'
  <1> USE DEF Up
  <1>1. ASSUME NEW c \in Clients, ClientOf(c)
        PROVE  requeued' \/ RunsSafely'
    <2>1. Up' /\ UNCHANGED current /\ (worker' = "running" <=> worker = "running")
      <3>1. Up /\ MayRouse /\ UNCHANGED current
        BY <1>1, ClientFrame
      <3> QED BY <3>1 DEF MayRouse
    <2>2. CASE UNCHANGED <<records, statistics, requeued>>
      BY <2>1, <2>2 DEF RunsSafely, records
    <2>3. ASSUME NEW e \in Events, Inserts(e) \/ Registers(e), ~Runs(e), RunsSafely
          PROVE  RunsSafely'
      <3>1. /\ worker = "running" => e # current
            /\ event_registry' = event_registry \cup {e}
            /\ \A f \in Events : f # e => status'[f] = status[f]
        BY <2>3 DEF Runs, Inserts, Registers, QueueTypes
      <3>2. worker = "running" => current \in Events
        BY QueueConstants DEF QueueTypes
      <3> QED BY <2>1, <2>3, <3>1, <3>2 DEF RunsSafely
    <2>4. ASSUME NEW e \in Events, Removes(e) \/ Condemns(e) \/ Deletes(e), RunsSafely
          PROVE  RunsSafely'
      <3>1. CASE Removes(e)
        BY <2>1, <2>4, <3>1, QueueConstants DEF RunsSafely, Removes, Leaves, QueueTypes
      <3>2. CASE Condemns(e)
        BY <2>1, <2>4, <3>2, QueueConstants DEF RunsSafely, Condemns, Leaves, QueueTypes
      <3>3. CASE Deletes(e)
        BY <2>1, <2>4, <3>3, QueueConstants DEF RunsSafely, Deletes, QueueTypes
      <3> QED BY <2>4, <3>1, <3>2, <3>3
    <2>5. CASE Resets /\ UNCHANGED requeued
      <3>1. UNCHANGED records
        BY <2>5, Zenon DEF Resets
      <3> QED BY <2>1, <2>5, <3>1 DEF RunsSafely, records
    <2> QED BY <1>1, <2>2, <2>3, <2>4, <2>5, ClientEffect, Zenon DEF Effect
  <1>2. CASE Decide
    <2>1. UNCHANGED requeued /\ worker' \notin {"running", "terminated"}
      BY <1>2 DEF Decide
    <2> QED BY <2>1 DEF RunsSafely
  <1>3. CASE TimedOut
    <2>1. CASE UNCHANGED requeued /\ worker' \notin {"running", "terminated"}
      BY <2>1 DEF RunsSafely
    <2>2. CASE Takes
      BY <2>2 DEF RunsSafely, Takes, QueueTypes
    <2> QED BY <1>3, <2>1, <2>2, TimedOutEffect
  <1>4. CASE Finish
    <2>1. UNCHANGED requeued
      BY <1>4, Zenon DEF Finish
    <2>2. RunsSafely => worker' = "finished"
      <3> SUFFICES ASSUME RunsSafely PROVE worker' = "finished"
        OBVIOUS
      <3>1. current \in Events
        BY <1>4, QueueConstants DEF QueueTypes, Finish
      <3>2. status[current] \in {"Executing", "To_Delete"}
            /\ (status[current] = "Executing" => current \in event_map)
        BY <1>4, <3>1 DEF Finish, RunsSafely, RecordsInv
      <3> QED BY <1>4, <3>2 DEF Finish
    <2> QED BY <2>1, <2>2 DEF RunsSafely
  <1>5. CASE AfterFinish
    <2>1. UNCHANGED requeued /\ worker' \notin {"running", "terminated"}
      BY <1>5 DEF AfterFinish
    <2> QED BY <2>1 DEF RunsSafely
  <1>6. CASE Drain
    <2>1. UNCHANGED requeued /\ worker' \notin {"running", "terminated"}
      BY <1>6 DEF Drain
    <2> QED BY <2>1 DEF RunsSafely
  <1>7. CASE Tick \/ UNCHANGED vars
    <2>1. UNCHANGED <<queueVars, worker, current, requeued>>
      BY <1>7, Zenon DEF Tick, vars, workerVars
    <2> QED BY <2>1 DEF RunsSafely, queueVars
  <1> QED BY <1>1, <1>2, <1>3, <1>4, <1>5, <1>6, <1>7, NextSplits

-----------------------------------------------------------------------------
(* Wake-ups.                                                               *)

Rousers == {"notify empty", "clearing"}

\* Nobody waits any more.
AllWoken == \A c \in Clients : pc'[c] # "waiting"

\* What wait_until_empty has seen when it begins to wait.
MustWait == prio_queue # <<>> /\ ~isShutdown

\* A client's step otherwise: no one on its way to notify is lost, who
\* empties the heap is on its way, and who begins to wait has seen the heap
\* filled before any shutdown.
WaitsHonestly ==
    /\ \A c \in Clients : pc[c] \in Rousers => pc'[c] \in Rousers
    /\ \A c \in Clients : pc'[c] = "waiting" =>
          pc[c] = "waiting" \/ MustWait
    /\ prio_queue' = <<>> => prio_queue = <<>> \/ \E c \in Clients : pc'[c] \in Rousers
    /\ \A c \in Clients : pc'[c] = "waiting" /\ pc[c] # "waiting" => UNCHANGED prio_queue

LEMMA ClientWaits ==
  ASSUME QueueTypes, HeapInv, RecordsInv, NEW c \in Clients, ClientOf(c)
  PROVE  AllWoken \/ WaitsHonestly
  <1> USE DEF Rousers, QueueTypes
  <1>1. ASSUME NEW e \in Events, NEW t \in Time, Schedule(c, e, t) \/ Reschedule(c, e, t)
        PROVE  WaitsHonestly
    <2>1. UNCHANGED pc
      BY <1>1, Zenon DEF Schedule, Reschedule, Returns
    <2>2. UNCHANGED prio_queue \/ Enqueue(e, t)
      BY <1>1, Zenon DEF Schedule, Rekey, TurnAway, Reschedule
    <2>3. UNCHANGED prio_queue \/ prio_queue' # <<>>
      BY <2>2, EnqueueEnters
    <2> QED BY <2>1, <2>3 DEF WaitsHonestly
  <1>2. ASSUME NEW e \in Events, Cancel(c, e) \/ CancelDelete(c, e)
        PROVE  WaitsHonestly
    <2>1. pc[c] = "idle"
      BY <1>2, Zenon DEF Cancel, CancelDelete, Call
    <2>2. CASE status[e] = "In_Queue"
      <3>1. pc' = [pc EXCEPT ![c] = IF prio_queue' = <<>> THEN "notify empty" ELSE "notify"]
        BY <1>2, <2>2 DEF Cancel, CancelDelete, NotifyLater
      <3> QED BY <2>1, <3>1 DEF WaitsHonestly
    <2>3. CASE status[e] # "In_Queue"
      <3>1. e \notin Queued
        BY <2>3 DEF RecordsInv
      <3>2. UNCHANGED prio_queue
        BY <1>2, <2>3, <3>1 DEF Cancel, CancelDelete, Dequeue, DeleteOnly, Without
      <3>3. UNCHANGED pc \/ pc' = [pc EXCEPT ![c] = "notify"]
        BY <1>2, <2>3 DEF Cancel, CancelDelete, NotifyLater, Returns
      <3> QED BY <2>1, <3>2, <3>3 DEF WaitsHonestly
    <2> QED BY <2>2, <2>3
  <1>3. CASE ClearAll(c)
    <2>1. pc[c] = "idle" /\ pc' = [pc EXCEPT ![c] = "clearing"] /\ UNCHANGED prio_queue
      BY <1>3, Zenon DEF ClearAll, Call, queueVars
    <2> QED BY <2>1 DEF WaitsHonestly
  <1>4. CASE ClearOne(c)
    <2>1. pc[c] = "clearing" /\ UNCHANGED pc
      BY <1>4, Zenon DEF ClearOne
    <2> QED BY <2>1 DEF WaitsHonestly
  <1>5. CASE ClearEnd(c)
    <2>1. pc' = [Wake(pc) EXCEPT ![c] = "idle"]
      BY <1>5, Zenon DEF ClearEnd
    <2> QED BY <2>1, WakeType DEF AllWoken
  <1>6. CASE NotifyAfter(c)
    <2>0. pc[c] \in {"notify", "notify empty"} /\ UNCHANGED prio_queue
          /\ pc' = [IF pc[c] = "notify empty" THEN Wake(pc) ELSE pc EXCEPT ![c] = "idle"]
      BY <1>6, Zenon DEF NotifyAfter, queueVars
    <2>1. CASE pc[c] = "notify empty"
      <3>1. pc' = [Wake(pc) EXCEPT ![c] = "idle"]
        BY <2>0, <2>1
      <3> QED BY <3>1, WakeType DEF AllWoken
    <2>2. CASE pc[c] = "notify"
      <3>1. pc' = [pc EXCEPT ![c] = "idle"]
        BY <2>0, <2>2
      <3> QED BY <2>0, <2>2, <3>1 DEF WaitsHonestly
    <2> QED BY <2>0, <2>1, <2>2
  <1>7. CASE Shutdown(c) \/ Pause(c) \/ Resume(c) \/ ResetStats(c)
    <2>1. UNCHANGED <<pc, prio_queue>>
      BY <1>7, Zenon DEF Shutdown, Pause, Resume, ResetStats, Returns, queueVars
    <2> QED BY <2>1 DEF WaitsHonestly
  <1>8. CASE WaitUntilEmpty(c)
    <2>1. /\ pc[c] \in {"idle", "woken"} /\ UNCHANGED prio_queue
          /\ pc' = [pc EXCEPT ![c] = IF prio_queue = <<>> \/ isShutdown
                                     THEN "idle" ELSE "waiting"]
      BY <1>8, Zenon DEF WaitUntilEmpty, Call, queueVars
    <2>2. CASE prio_queue = <<>> \/ isShutdown
      <3>1. pc' = [pc EXCEPT ![c] = "idle"]
        BY <2>1, <2>2
      <3> QED BY <2>1, <3>1 DEF WaitsHonestly
    <2>3. CASE ~(prio_queue = <<>> \/ isShutdown)
      <3>1. pc' = [pc EXCEPT ![c] = "waiting"]
        BY <2>1, <2>3
      <3>2. MustWait
        BY <2>3, Zenon DEF MustWait
      <3> QED BY <2>1, <3>1, <3>2 DEF WaitsHonestly
    <2> QED BY <2>2, <2>3
  <1>9. CASE WaitTimesOut(c)
    <2>1. pc[c] = "waiting" /\ pc' = [pc EXCEPT ![c] = "idle"] /\ UNCHANGED prio_queue
      BY <1>9, Zenon DEF WaitTimesOut, queueVars
    <2> QED BY <2>1 DEF WaitsHonestly
  <1> QED BY <1>1, <1>2, <1>3, <1>4, <1>5, <1>6, <1>7, <1>8, <1>9, Zenon DEF ClientOf

\* Who stays on the way while the heap is empty.
LEMMA WakeupsStep ==
  ASSUME QueueTypes, HeapInv, RecordsInv, EndsOnShutdown, EmptyWakeups, [Next]_vars
  PROVE  EmptyWakeups'
  <1> USE DEF Rousers
  <1>0. AllWoken => EmptyWakeups'
    BY DEF AllWoken, EmptyWakeups
  <1>1. ASSUME NEW c \in Clients, ClientOf(c)
        PROVE  EmptyWakeups'
    <2>1. MayRouse /\ UNCHANGED emptied
      BY <1>1, ClientFrame
    <2>2. /\ worker' = "ended" <=> worker = "ended"
          /\ worker \in {"running", "draining", "terminated", "finished"} => worker' = worker
      BY <2>1, RouseKeeps
    <2>3. SUFFICES ASSUME WaitsHonestly, NEW d \in Clients, pc'[d] = "waiting"
                   PROVE  EmptyWakeups'
      BY <1>0, <1>1, ClientWaits, Zenon DEF EmptyWakeups
    <2>4. CASE pc[d] = "waiting"
      <3>1. worker' # "ended"
        BY <2>2, <2>4, Zenon DEF EmptyWakeups
      <3>2. CASE prio_queue' = <<>> /\ prio_queue = <<>>
        <4>1. \/ \E x \in Clients : pc[x] \in Rousers
              \/ worker \in {"running", "draining", "terminated"}
              \/ worker = "finished" /\ emptied
          BY <2>4, <3>2, Zenon DEF EmptyWakeups
        <4>2. \/ \E x \in Clients : pc'[x] \in Rousers
              \/ worker' \in {"running", "draining", "terminated"}
              \/ worker' = "finished" /\ emptied'
          BY <2>1, <2>2, <2>3, <4>1, Zenon DEF WaitsHonestly
        <4> QED BY <3>1, <4>2, Zenon DEF EmptyWakeups
      <3>3. CASE prio_queue' = <<>> => \E x \in Clients : pc'[x] \in Rousers
        BY <3>1, <3>3, Zenon DEF EmptyWakeups
      <3> QED BY <2>3, <3>2, <3>3, Zenon DEF WaitsHonestly
    <2>5. CASE pc[d] # "waiting"
      <3>1. prio_queue # <<>> /\ UNCHANGED prio_queue /\ ~isShutdown
        BY <2>3, <2>5, Zenon DEF WaitsHonestly, MustWait
      <3>2. worker' # "ended"
        BY <2>2, <3>1, Zenon DEF EndsOnShutdown
      <3> QED BY <3>1, <3>2 DEF EmptyWakeups
    <2> QED BY <2>4, <2>5
  <1>2. CASE Decide
    <2>1. /\ worker \in {"awake", "roused"}
          /\ worker' \in {"draining", "sleeping", "timed wait"}
          /\ UNCHANGED <<prio_queue, pc>>
      BY <1>2, Zenon DEF Decide, queueVars
    <2> QED BY <2>1 DEF EmptyWakeups
  <1>3. CASE TimedOut
    <2>0. UNCHANGED pc /\ worker \in {"timed wait", "roused"}
      BY <1>3, Zenon DEF TimedOut
    <2>1. CASE UNCHANGED prio_queue /\ worker' \in {"draining", "awake"}
      BY <2>0, <2>1 DEF EmptyWakeups
    <2>2. CASE worker' = "running"
      BY <2>2 DEF EmptyWakeups
    <2> QED BY <1>3, <2>1, <2>2 DEF TimedOut
  <1>4. CASE Finish
    <2>1. UNCHANGED pc /\ worker = "running" /\ emptied' = (prio_queue = <<>>)
      BY <1>4, Zenon DEF Finish
    <2>2. UNCHANGED prio_queue
      BY <1>4, FinishEffect
    <2>3. worker' \in {"finished", "terminated"}
      BY <1>4 DEF Finish
    <2>4. prio_queue' = <<>> => worker' = "terminated" \/ (worker' = "finished" /\ emptied')
      BY <2>1, <2>2, <2>3, Zenon
    <2>5. worker' # "ended"
      BY <2>3
    <2> QED BY <2>4, <2>5, Zenon DEF EmptyWakeups
  <1>5. CASE AfterFinish
    <2>1. CASE emptied
      <3>1. pc' = Wake(pc)
        BY <1>5, <2>1, Zenon DEF AfterFinish
      <3> QED BY <1>0, <3>1, WakeType DEF AllWoken, QueueTypes
    <2>2. CASE ~emptied
      <3>1. UNCHANGED <<pc, prio_queue>> /\ worker = "finished" /\ worker' = "awake"
        BY <1>5, <2>2, Zenon DEF AfterFinish, queueVars
      <3> QED BY <2>2, <3>1 DEF EmptyWakeups
    <2> QED BY <2>1, <2>2
  <1>6. CASE Drain
    <2>1. CASE pc' = Wake(pc)
      BY <1>0, <2>1, WakeType DEF AllWoken, QueueTypes
    <2>2. CASE worker' = "draining"
      BY <2>2 DEF EmptyWakeups
    <2> QED BY <1>6, <2>1, <2>2, Zenon DEF Drain
  <1>7. CASE Tick \/ UNCHANGED vars
    <2>1. UNCHANGED <<prio_queue, worker, emptied, pc>>
      BY <1>7, Zenon DEF Tick, vars, workerVars, queueVars
    <2> QED BY <2>1, Zenon DEF EmptyWakeups
  <1> QED BY <1>1, <1>2, <1>3, <1>4, <1>5, <1>6, <1>7, NextSplits

-----------------------------------------------------------------------------
(* The order of the heap.                                                  *)

\* What a step may do to the heap and its keys: nothing, an insertion, a
\* removal, a new key for an event outside it, or one for an event in it.
HeapEffect ==
    \/ UNCHANGED <<prio_queue, due, rekeyed>>
    \/ \E e \in Events, t \in Time :
          /\ due' = [due EXCEPT ![e] = t]
          /\ \/ prio_queue' = HeapInsert(due', Without(e), e) /\ UNCHANGED rekeyed
             \/ e \notin Queued /\ UNCHANGED <<prio_queue, rekeyed>>
             \/ UNCHANGED prio_queue /\ rekeyed' = (rekeyed \/ t # due[e])
    \/ \E e \in Events :
          /\ prio_queue' = Without(e)
          /\ rekeyed' = (rekeyed /\ prio_queue' # <<>>)
          /\ UNCHANGED due

LEMMA StepHeap ==
  ASSUME QueueTypes, HeapInv, RecordsInv, [Next]_vars
  PROVE  HeapEffect
  <1>0. ASSUME NEW e \in Events, NEW outcome, Dequeue(e, outcome), UNCHANGED due
        PROVE  HeapEffect
    BY <1>0, Zenon DEF Dequeue, HeapEffect
  <1>t. prio_queue # <<>> => Top \in Events
    BY TopQueued DEF HeapInv, QueueTypes
  <1>1. ASSUME NEW c \in Clients, NEW e \in Events, NEW t \in Time,
               Schedule(c, e, t) \/ Reschedule(c, e, t)
        PROVE  HeapEffect
    <2>1. CASE Rekey(e, t)
      BY <2>1, Zenon DEF Rekey, HeapEffect
    <2>2. CASE TurnAway(e, t)
      <3>1. e \notin Queued
        BY <2>2 DEF TurnAway, RecordsInv
      <3> QED BY <2>2, <3>1, Zenon DEF TurnAway, HeapEffect
    <2>3. CASE Enqueue(e, t)
      BY <2>3, Zenon DEF Enqueue, HeapEffect
    <2> QED BY <1>1, <2>1, <2>2, <2>3, Zenon DEF Schedule, Reschedule
  <1>2. ASSUME NEW c \in Clients, NEW e \in Events, Cancel(c, e) \/ CancelDelete(c, e)
        PROVE  HeapEffect
    <2>1. UNCHANGED due
      BY <1>2, Zenon DEF Cancel, CancelDelete
    <2>2. (\E outcome : Dequeue(e, outcome)) \/ DeleteOnly(e)
      BY <1>2, Zenon DEF Cancel, CancelDelete
    <2>3. CASE DeleteOnly(e)
      BY <2>1, <2>3, Zenon DEF DeleteOnly, HeapEffect
    <2> QED BY <1>0, <2>1, <2>2, <2>3
  <1>3. ASSUME NEW c \in Clients, ClearOne(c)
        PROVE  HeapEffect
    BY <1>0, <1>3, <1>t, Zenon DEF ClearOne
  <1>4. ASSUME NEW c \in Clients,
               \/ ClearAll(c) \/ ClearEnd(c) \/ NotifyAfter(c)
               \/ Shutdown(c) \/ Pause(c) \/ Resume(c)
               \/ WaitUntilEmpty(c) \/ WaitTimesOut(c) \/ ResetStats(c)
        PROVE  HeapEffect
    BY <1>4, Zenon
    DEF ClearAll, ClearEnd, NotifyAfter, Shutdown, Pause, Resume, WaitUntilEmpty,
        WaitTimesOut, ResetStats, HeapEffect, queueVars
  <1>5. CASE TimedOut
    <2>1. UNCHANGED due
      BY <1>5, Zenon DEF TimedOut, WorkerFrame
    <2>2. \/ UNCHANGED <<prio_queue, rekeyed>>
          \/ /\ prio_queue # <<>> /\ prio_queue' = Without(Top)
             /\ rekeyed' = (rekeyed /\ prio_queue' # <<>>)
      BY <1>5, Zenon DEF TimedOut, NotYet
    <2> QED BY <1>t, <2>1, <2>2, Zenon DEF HeapEffect
  <1>6. CASE Finish
    <2>1. UNCHANGED due /\ current \in Events
      BY <1>6, FinishEffect, Zenon DEF Finish, WorkerFrame
    <2>2. UNCHANGED <<prio_queue, rekeyed>> \/ Dequeue(current, "Executed")
      BY <1>6, Zenon DEF Finish, queueVars
    <2> QED BY <1>0, <2>1, <2>2, Zenon DEF HeapEffect
  <1>7. CASE Drain
    <2>1. UNCHANGED due
      BY <1>7, Zenon DEF Drain, WorkerFrame
    <2>2. UNCHANGED <<prio_queue, rekeyed>>
          \/ (prio_queue # <<>> /\ Dequeue(Top, "Canceled"))
      BY <1>7, Zenon DEF Drain, queueVars
    <2> QED BY <1>0, <1>t, <2>1, <2>2, Zenon DEF HeapEffect
  <1>8. CASE Decide \/ AfterFinish \/ Tick \/ UNCHANGED vars
    <2>1. UNCHANGED <<prio_queue, due, rekeyed>>
      BY <1>8, Zenon DEF Decide, AfterFinish, Tick, vars, WorkerFrame, queueVars
    <2> QED BY <2>1 DEF HeapEffect
  <1> QED BY <1>1, <1>2, <1>3, <1>4, <1>5, <1>6, <1>7, <1>8, NextSplits, Zenon DEF ClientOf

LEMMA HeapStep ==
  ASSUME QueueTypes, HeapInv, HeapEffect
  PROVE  HeapInv'
  <1>0. /\ due \in [Events -> Time] /\ prio_queue \in Seq(Events) /\ Once(prio_queue)
        /\ rekeyed \in BOOLEAN /\ (rekeyed \/ InHeapOrder(due, prio_queue))
    BY Zenon DEF QueueTypes, HeapInv
  <1>1. CASE UNCHANGED <<prio_queue, due, rekeyed>>
    BY <1>0, <1>1 DEF HeapInv, Once
  <1>2. ASSUME NEW e \in Events, NEW t \in Time, due' = [due EXCEPT ![e] = t],
               prio_queue' = HeapInsert(due', Without(e), e), UNCHANGED rekeyed
        PROVE  HeapInv'
    <2>d. due' \in [Events -> Nat] /\ \A x \in Events : x # e => due'[x] = due[x]
      BY <1>0, <1>2, QueueConstants DEF Time
    <2>1. /\ HeapInsert(due', Without(e), e) \in Seq(Events)
          /\ Once(HeapInsert(due', Without(e), e))
          /\ InHeapOrder(due, prio_queue) =>
                InHeapOrder(due', HeapInsert(due', Without(e), e))
      BY <1>0, <2>d, EnterFacts
    <2>2. /\ prio_queue' \in Seq(Events) /\ Once(prio_queue')
          /\ InHeapOrder(due, prio_queue) => InHeapOrder(due', prio_queue')
      BY <1>2, <2>1
    <2> QED BY <1>0, <1>2, <2>2 DEF HeapInv, Once, InHeapOrder
  <1>3. ASSUME NEW e \in Events, NEW t \in Time, due' = [due EXCEPT ![e] = t],
               e \notin Queued, UNCHANGED <<prio_queue, rekeyed>>
        PROVE  HeapInv'
    <2>1. \A x \in ToSet(prio_queue) : due'[x] = due[x]
      <3>1. \A x \in ToSet(prio_queue) : x # e /\ x \in Events
        BY <1>0, <1>3, NodesFinite DEF Queued
      <3> QED BY <1>0, <1>3, <3>1
    <2>2. InHeapOrder(due, prio_queue) => InHeapOrder(due', prio_queue)
      BY <1>0, <2>1, OrderOfNodes
    <2> QED BY <1>0, <1>3, <2>2 DEF HeapInv, Once, InHeapOrder
  <1>4. ASSUME NEW e \in Events, NEW t \in Time, due' = [due EXCEPT ![e] = t],
               UNCHANGED prio_queue, rekeyed' = (rekeyed \/ t # due[e])
        PROVE  HeapInv'
    <2>1. CASE t = due[e]
      <3>1. due' = due /\ rekeyed' = rekeyed
        BY <1>0, <1>4, <2>1
      <3> QED BY <1>0, <1>4, <3>1 DEF HeapInv, Once
    <2>2. CASE t # due[e]
      BY <1>0, <1>4, <2>2 DEF HeapInv, Once
    <2> QED BY <2>1, <2>2
  <1>5. ASSUME NEW e \in Events, prio_queue' = Without(e),
               rekeyed' = (rekeyed /\ prio_queue' # <<>>), UNCHANGED due
        PROVE  HeapInv'
    <2>1. /\ Without(e) \in Seq(Events) /\ Once(Without(e))
          /\ InHeapOrder(due, prio_queue) => InHeapOrder(due, Without(e))
      BY <1>0, WithoutFacts
    <2>2. InHeapOrder(due, <<>>)
      <3>1. Len(<<>>) = 0
        BY EmptySeq
      <3> QED BY <3>1 DEF InHeapOrder
    <2>3. rekeyed' \/ InHeapOrder(due, Without(e))
      BY <1>0, <1>5, <2>1, <2>2
    <2>4. /\ prio_queue' \in Seq(Events) /\ Once(prio_queue')
          /\ rekeyed' \in BOOLEAN
          /\ rekeyed' \/ InHeapOrder(due', prio_queue')
      BY <1>0, <1>5, <2>1, <2>3
    <2> QED BY <2>4 DEF HeapInv, Once, InHeapOrder
  <1> QED BY <1>1, <1>2, <1>3, <1>4, <1>5, Zenon DEF HeapEffect

LEMMA HeapInvInit == Init => HeapInv
  <1> SUFFICES ASSUME Init PROVE HeapInv
    OBVIOUS
  <1>1. prio_queue = <<>> /\ prio_queue \in Seq(Events) /\ Len(prio_queue) = 0
        /\ ToSet(prio_queue) = {} /\ rekeyed = FALSE
    BY EmptySeq DEF Init, ToSet
  <1>2. Once(prio_queue)
    BY <1>1, FS_EmptySet DEF Once
  <1>3. InHeapOrder(due, prio_queue)
    BY <1>1 DEF InHeapOrder
  <1> QED BY <1>1, <1>2, <1>3 DEF HeapInv

-----------------------------------------------------------------------------
(* The inductive invariant, and what follows from it.                      *)

QueueInv ==
    /\ QueueTypes /\ ClockTypes /\ FlagTypes
    /\ HeapInv
    /\ RecordsInv
    /\ Account
    /\ WorkerInv
    /\ EmptyWakeups

LEMMA QueueInvInit == Init => QueueInv
  <1> SUFFICES ASSUME Init PROVE QueueInv
    OBVIOUS
  <1>1. FlagTypes
    BY Zenon DEF Init, FlagTypes
  <1>2. ClockTypes
    BY QueueConstants DEF Init, ClockTypes, Time
  <1>3. Account
    <2>1. Queued = {}
      BY DEF Init, Queued, ToSet
    <2> QED BY <2>1, FS_EmptySet DEF Init, Account, running
  <1>4. WorkerInv
    BY DEF Init, WorkerInv, EndsOnShutdown, RunsSafely, Up
  <1>5. EmptyWakeups
    BY DEF Init, EmptyWakeups
  <1> QED BY <1>1, <1>2, <1>3, <1>4, <1>5, QueueTypesInit, HeapInvInit, RecordsInit DEF QueueInv

LEMMA QueueInvStep == QueueInv /\ [Next]_vars => QueueInv'
  <1> SUFFICES ASSUME QueueInv, [Next]_vars PROVE QueueInv'
    OBVIOUS
  <1>1. /\ QueueTypes /\ ClockTypes /\ FlagTypes /\ HeapInv /\ RecordsInv /\ Account
        /\ EndsOnShutdown /\ (requeued \/ RunsSafely) /\ EmptyWakeups
    BY Zenon DEF QueueInv, WorkerInv
  <1>2. QueueTypes' /\ FlagTypes' /\ HeapInv' /\ RecordsInv'
    BY <1>1, QueueTypesStep, FlagTypesStep, StepHeap, HeapStep, RecordsStep
  <1>3. ClockTypes' /\ Account'
    <2>1. now' \in Time /\ original' \in Time
      BY <1>1, ClocksStep
    <2> QED BY <1>1, <2>1, AccountStep DEF ClockTypes
  <1>4. WorkerInv' /\ EmptyWakeups'
    <2>1. EndsOnShutdown' /\ (requeued' \/ RunsSafely') /\ EmptyWakeups'
      BY <1>1, EndsStep, RunsStep, WakeupsStep
    <2> QED BY <2>1, Zenon DEF WorkerInv
  <1> QED BY <1>2, <1>3, <1>4, Zenon DEF QueueInv

LEMMA QueueInvAlways == Spec => []QueueInv
  BY QueueInvInit, QueueInvStep, PTL DEF Spec

(* Every variable keeps to its type, the statistics never exceed what was    *)
(* inserted, and the worker always holds the event it runs.                  *)
THEOREM QueueTypeCorrect == Spec => []TimeoutTypeOK
  <1>1. QueueInv => TimeoutTypeOK
    <2> SUFFICES ASSUME QueueInv PROVE TimeoutTypeOK
      OBVIOUS
    <2>1. QueueTypes /\ ClockTypes /\ FlagTypes /\ Account /\ rekeyed \in BOOLEAN
      BY Zenon DEF QueueInv, HeapInv
    <2>2. /\ accepted \in 0 .. MaxCalls
          /\ executedCount \in 0 .. accepted /\ canceledCount \in 0 .. accepted
      BY <2>1, HeapCount, QueueConstants DEF ClockTypes, Account, running
    <2> QED BY <2>1, <2>2, Zenon
        DEF TimeoutTypeOK, QueueTypes, ClockTypes, FlagTypes, WorkerLabels, ClientLabels
  <1> QED BY <1>1, QueueInvAlways, PTL

(* The heap, the map, the registry and the events' status agree after every  *)
(* operation of any number of clients, and every insertion is counted once.  *)
THEOREM RecordsAgree == Spec => []Bookkeeping
  <1>1. QueueInv => Bookkeeping
    <2> SUFFICES ASSUME QueueInv PROVE Bookkeeping
      OBVIOUS
    <2>1. QueueTypes /\ HeapInv /\ RecordsInv /\ Account
      BY Zenon DEF QueueInv
    <2>2. accepted = executedCount + canceledCount + Len(prio_queue)
                        + Cardinality({e \in Events : Runs(e)})
      BY <2>1, RunningCount, HeapCounts DEF Account
    <2>3. Queued \subseteq event_map \cap event_registry
      BY <2>1 DEF RecordsInv
    <2>4. \A e \in event_map \cup event_registry :
             status[e] = "Deleted" => isShutdown /\ e \notin event_map
      BY <2>1 DEF RecordsInv
    <2>5. Queued = {e \in Events : status[e] = "In_Queue"}
      BY <2>1, Zenon DEF RecordsInv
    <2> QED BY <2>2, <2>3, <2>4, <2>5, Zenon DEF Bookkeeping
  <1> QED BY <1>1, QueueInvAlways, PTL

(* The worker outlives every event that nobody schedules again while it      *)
(* runs, whatever the clients cancel, delete or clear meanwhile.             *)
THEOREM WorkerSurvives == Spec => []WorkerSafe
  <1>1. QueueInv => WorkerSafe
    <2> SUFFICES ASSUME QueueInv, ~requeued PROVE WorkerSafe
      BY Zenon DEF WorkerSafe
    <2>1. RunsSafely /\ QueueTypes /\ RecordsInv
      BY Zenon DEF QueueInv, WorkerInv
    <2>2. worker = "running" /\ status[current] = "Executing"
          => current \in event_map \cap event_registry
      BY <2>1, QueueConstants DEF RecordsInv, QueueTypes
    <2> QED BY <2>1, <2>2, Zenon DEF WorkerSafe, RunsSafely
  <1> QED BY <1>1, QueueInvAlways, PTL

(* No thread sleeps in wait_until_empty over an empty heap unless somebody   *)
(* is on its way to wake it, nor after the worker has ended.                 *)
THEOREM WaitersAreWoken == Spec => []EmptyWakeups
  <1>1. QueueInv => EmptyWakeups
    BY Zenon DEF QueueInv
  <1> QED BY <1>1, QueueInvAlways, PTL

(* The heap never holds an event twice, also when it is out of order; and    *)
(* no event in it has an earlier time than the one above it, whatever was    *)
(* inserted, canceled or moved from one place to another, unless             *)
(* schedule_event of a queued event has changed a key since it was empty.    *)
THEOREM HeapStaysInOrder == Spec => []HeapInv
  BY QueueInvAlways, PTL DEF QueueInv

(* The worker never starts an event before its time, or while the queue is   *)
(* paused or shut down, whatever changed during its wait and whatever calls  *)
(* failed; and it starts a first one, unless a failed schedule_event has     *)
(* changed the key of a queued event since the heap was last empty.          *)
THEOREM NeverEarly == Spec => StartsInTime
  <1> DEFINE Punctual ==
        Starts => /\ due[current'] <= now
                  /\ rekeyed \/ \A e \in Queued : due[current'] <= due[e]
                  /\ ~isPaused /\ ~isShutdown
  <1>1. QueueInv /\ [Next]_vars => Punctual
    <2> SUFFICES ASSUME QueueInv, [Next]_vars, Starts
                 PROVE  /\ due[current'] <= now
                        /\ rekeyed \/ \A e \in Queued : due[current'] <= due[e]
                        /\ ~isPaused /\ ~isShutdown
      OBVIOUS
    <2>0. QueueTypes /\ ClockTypes /\ HeapInv
      BY Zenon DEF QueueInv
    <2>s. worker' = "running" /\ worker # "running"
      BY DEF Starts
    <2>1. TimedOut
      <3>1. ~\E c \in Clients : ClientOf(c)
        BY <2>s, ClientFrame DEF MayRouse
      <3>2. ~Tick /\ ~UNCHANGED vars
        <4>1. Tick \/ UNCHANGED vars => UNCHANGED worker
          BY Zenon DEF Tick, vars, workerVars
        <4> QED BY <2>s, <4>1
      <3>3. ~Decide /\ ~Finish /\ ~AfterFinish /\ ~Drain
        BY <2>s DEF Decide, Finish, AfterFinish, Drain
      <3> QED BY <3>1, <3>2, <3>3, NextSplits, Zenon
    <2>2. /\ now >= original
          /\ ~isShutdown /\ ~isPaused /\ ~NotYet
          /\ current' = Top
      BY <2>1, <2>s DEF TimedOut
    <2>3. prio_queue # <<>> /\ ~(due[Top] > original)
      BY <2>2, Zenon DEF NotYet
    <2>4. Top \in Queued /\ Top \in Events
      BY <2>0, <2>3, TopQueued DEF HeapInv, QueueTypes
    <2>5. due[Top] <= now
      BY <2>0, <2>2, <2>3, <2>4, QueueConstants DEF QueueTypes, ClockTypes, Time
    <2>6. rekeyed \/ \A f \in Queued : due[Top] <= due[f]
      <3> SUFFICES ASSUME ~rekeyed, NEW f \in Queued PROVE due[Top] <= due[f]
        OBVIOUS
      <3>1. prio_queue \in Seq(Events) /\ InHeapOrder(due, prio_queue)
        BY <2>0 DEF HeapInv
      <3>2. due \in [Events -> Nat]
        BY <2>0, DueKeys DEF QueueTypes
      <3> QED BY <3>1, <3>2, RootIsLeast DEF Top, Queued
    <2> QED BY <2>2, <2>5, <2>6, Zenon
  <1> QED BY <1>1, QueueInvAlways, PTL DEF Spec, StartsInTime
=============================================================================
