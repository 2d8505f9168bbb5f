------------------------- MODULE LockFreeQueueProofs -------------------------
(***************************************************************************)
(* What the two lock-free queues guarantee.                                *)
(*                                                                         *)
(* SpscQueue, for a ring of any capacity and any number of elements: a     *)
(* slot holds an element exactly while the indices say so, the two sides   *)
(* are never inside the same slot, and the ring is a first-in first-out    *)
(* queue of the capacity announced.                                        *)
(*                                                                         *)
(* MpscQueue, for any number of producers, nodes and pushes: the chain is  *)
(* whole but for the gaps that producers are about to close, no thread     *)
(* holds a pointer to a deleted node, an empty answer is honest, and the   *)
(* elements come out in the order of the exchanges.                        *)
(***************************************************************************)
EXTENDS SpscQueue, MpscQueue, CountingLemmas, SequenceTheorems

-----------------------------------------------------------------------------
(* The ring: types.                                                        *)

ProducerLabels == {"idle", "construct", "publish"}
ConsumerLabels == {"idle", "extract", "reset", "release"}

SpscTypes ==
    /\ slots \in [SlotIndex -> Items \cup {NoItem}]
    /\ ringHead \in SlotIndex /\ ringTail \in SlotIndex
    /\ producing \in ProducerLabels
    /\ items \in 0 .. MaxItems
    /\ producing # "idle" => items \in Items
    /\ popping \in ConsumerLabels
    /\ held \in Items \cup {NoItem}
    /\ popped \in Seq(Items)

LEMMA SpscConstants == RingCapacity \in Nat /\ RingCapacity > 0 /\ MaxItems \in Nat
  BY SpscAssumption

-----------------------------------------------------------------------------
(* The ring's arithmetic.                                                  *)

\* Stepping over the end of the storage.
LEMMA AdvanceIs ==
  ASSUME NEW i \in SlotIndex
  PROVE  /\ Advance(i) = IF i = RingCapacity THEN 0 ELSE i + 1
         /\ Advance(i) \in SlotIndex
  BY SpscConstants DEF Advance, StorageSize, SlotIndex

\* The k-th slot from i on, for any k that does not go round.
From(i, k) == IF i + k <= RingCapacity THEN i + k ELSE i + k - StorageSize

LEMMA WrapIs ==
  ASSUME NEW i \in SlotIndex, NEW k \in 0 .. RingCapacity
  PROVE  /\ (i + k) % StorageSize = From(i, k)
         /\ From(i, k) \in SlotIndex
  BY SpscConstants DEF From, StorageSize, SlotIndex

\* The indices between head and tail.
Used(i) == IF ringHead <= ringTail THEN ringHead <= i /\ i < ringTail
                                   ELSE ringHead <= i \/ i < ringTail

LEMMA SizeIs ==
  ASSUME SpscTypes
  PROVE  /\ RingSize \in 0 .. RingCapacity
         /\ RingSize = 0 <=> ringHead = ringTail
         /\ From(ringHead, RingSize) = ringTail
         /\ \A k \in 0 .. RingSize - 1 :
               Used(From(ringHead, k)) /\ From(ringHead, k) # ringTail
  BY SpscConstants DEF SpscTypes, RingSize, StorageSize, SlotIndex, From, Used

\* Segment(ringHead, RingSize) is what lies between the indices.
LEMMA SegmentIs ==
  ASSUME SpscTypes
  PROVE  Segment(ringHead, RingSize) = {i \in SlotIndex : Used(i)}
  <1>1. ASSUME NEW k \in 0 .. RingSize - 1
        PROVE  /\ (ringHead + k) % StorageSize \in SlotIndex
               /\ Used((ringHead + k) % StorageSize)
    <2>1. k \in 0 .. RingCapacity
      BY SizeIs, SpscConstants
    <2> QED BY <2>1, SizeIs, WrapIs DEF SpscTypes
  <1>2. ASSUME NEW i \in SlotIndex, Used(i)
        PROVE  \E k \in 0 .. RingSize - 1 : i = (ringHead + k) % StorageSize
    <2> DEFINE k == IF ringHead <= i THEN i - ringHead ELSE i + StorageSize - ringHead
    <2>1. k \in 0 .. RingSize - 1 /\ k \in 0 .. RingCapacity /\ From(ringHead, k) = i
      BY <1>2, SpscConstants DEF Used, SpscTypes, SlotIndex, RingSize, StorageSize, From
    <2>2. i = (ringHead + k) % StorageSize
      BY <2>1, WrapIs DEF SpscTypes
    <2> QED BY <2>1, <2>2
  <1> QED BY <1>1, <1>2 DEF Segment

-----------------------------------------------------------------------------
(* The slots.                                                              *)

\* A slot is filled while it is in use, or about to be, until it is reset.
Filled(i) ==
    /\ Used(i) \/ (producing = "publish" /\ i = ringTail)
    /\ ~(popping = "release" /\ i = ringHead)

SlotInv ==
    /\ \A i \in SlotIndex : slots[i] # NoItem <=> Filled(i)
    /\ producing # "idle" => Advance(ringTail) # ringHead
    /\ popping # "idle" => ringHead # ringTail
    /\ popping = "reset" => held = slots[ringHead]

RingInv == SpscTypes /\ SlotInv

LEMMA RingInvInit == SpscInit => RingInv
  BY SpscConstants
  DEF SpscInit, RingInv, SpscTypes, SlotInv, SlotIndex, Filled, Used, NoItem, Items,
      ProducerLabels, ConsumerLabels

LEMMA RingInvStep == RingInv /\ [SpscNext]_spscVars => RingInv'
  <1> SUFFICES ASSUME RingInv, [SpscNext]_spscVars PROVE RingInv'
    OBVIOUS
  <1> USE SpscConstants
      DEF RingInv, SpscTypes, ProducerLabels, ConsumerLabels, Items, NoItem,
          producerSide, consumerSide
  <1>n. \A i \in SlotIndex :
           /\ Advance(i) = IF i = RingCapacity THEN 0 ELSE i + 1
           /\ Advance(i) \in SlotIndex
    BY AdvanceIs
  <1>1. CASE LoadRingHead
    BY <1>1 DEF LoadRingHead, SlotInv, Filled, Used
  <1>2. CASE Construct
    BY <1>2 DEF Construct, SlotInv, Filled, Used, SlotIndex
  <1>3. CASE PublishTail
    <2>1. /\ producing = "publish" /\ producing' = "idle"
          /\ ringTail' = Advance(ringTail) /\ ringTail' # ringHead
          /\ UNCHANGED <<slots, items, ringHead, popping, held, popped>>
      BY <1>3 DEF PublishTail, SlotInv
    <2>2. ASSUME NEW i \in SlotIndex PROVE Used(i)' <=> Used(i) \/ i = ringTail
      <3>1. /\ i \in Nat /\ i <= RingCapacity /\ ringHead \in Nat /\ ringTail \in Nat
            /\ ringHead <= RingCapacity /\ ringTail <= RingCapacity
        BY DEF SlotIndex
      <3>2. ringTail' = IF ringTail = RingCapacity THEN 0 ELSE ringTail + 1
        BY <2>1, AdvanceIs
      <3> QED BY <2>1, <3>1, <3>2 DEF Used
    <2>3. \A i \in SlotIndex : Filled(i)' <=> Filled(i)
      BY <2>1, <2>2 DEF Filled
    <2>4. ringTail' \in SlotIndex
      BY <2>1, <1>n
    <2> QED BY <2>1, <2>3, <2>4 DEF SlotInv
  <1>4. CASE LoadRingTail
    BY <1>4 DEF LoadRingTail, SlotInv, Filled, Used
  <1>5. CASE Extract
    BY <1>5 DEF Extract, SlotInv, Filled, Used
  <1>6. CASE ResetSlot
    BY <1>6 DEF ResetSlot, SlotInv, Filled, Used, SlotIndex
  <1>7. CASE ReleaseHead
    <2>1. /\ popping = "release" /\ popping' = "idle"
          /\ ringHead' = Advance(ringHead) /\ ringHead # ringTail
          /\ UNCHANGED <<slots, items, ringTail, producing, held, popped>>
      BY <1>7 DEF ReleaseHead, SlotInv
    <2>2. ASSUME NEW i \in SlotIndex PROVE Used(i)' <=> Used(i) /\ i # ringHead
      <3>1. /\ i \in Nat /\ i <= RingCapacity /\ ringHead \in Nat /\ ringTail \in Nat
            /\ ringHead <= RingCapacity /\ ringTail <= RingCapacity
        BY DEF SlotIndex
      <3>2. ringHead' = IF ringHead = RingCapacity THEN 0 ELSE ringHead + 1
        BY <2>1, AdvanceIs
      <3> QED BY <2>1, <3>1, <3>2 DEF Used
    <2>3. \A i \in SlotIndex : Filled(i)' <=> Filled(i)
      BY <2>1, <2>2 DEF Filled
    <2>4. ringHead' \in SlotIndex
      BY <2>1, <1>n
    <2>5. Advance(ringTail) # Advance(ringHead)
      <3>1. /\ Advance(ringTail) = IF ringTail = RingCapacity THEN 0 ELSE ringTail + 1
            /\ Advance(ringHead) = IF ringHead = RingCapacity THEN 0 ELSE ringHead + 1
        BY AdvanceIs
      <3>2. ringHead \in Nat /\ ringTail \in Nat
        BY DEF SlotIndex
      <3> QED BY <2>1, <3>1, <3>2
    <2> QED BY <2>1, <2>3, <2>4, <2>5 DEF SlotInv, Advance
  <1>8. CASE UNCHANGED spscVars
    BY <1>8 DEF spscVars, SlotInv, Filled, Used
  <1> QED BY <1>1, <1>2, <1>3, <1>4, <1>5, <1>6, <1>7, <1>8
          DEF SpscNext, SpscProducer, SpscConsumer

LEMMA RingInvAlways == SpscSpec => []RingInv
  BY RingInvInit, RingInvStep, PTL DEF SpscSpec

(* No interleaving of the two sides overwrites an element, reads an empty    *)
(* slot, leaves an element behind or puts both sides inside one slot.        *)
THEOREM SlotsAreOwned == SpscSpec => []SlotLifetime
  <1>1. RingInv => SlotLifetime
    <2> SUFFICES ASSUME RingInv PROVE SlotLifetime
      OBVIOUS
    <2>1. SpscTypes /\ SlotInv
      BY DEF RingInv
    <2>2. {i \in SlotIndex : slots[i] # NoItem} =
            ({i \in SlotIndex : Used(i)} \cup {i \in {ringTail} : producing = "publish"})
              \ {i \in {ringHead} : popping = "release"}
      BY <2>1 DEF SlotInv, Filled, SpscTypes
    <2>3. producing = "construct" => slots[ringTail] = NoItem
      BY <2>1 DEF SlotInv, Filled, Used, SpscTypes, SlotIndex
    <2> QED BY <2>1, <2>2, <2>3, SegmentIs DEF SlotLifetime, SpscTypes, SlotInv
  <1> QED BY <1>1, RingInvAlways, PTL

-----------------------------------------------------------------------------
(* The refinement.                                                         *)

LEMMA RowIsSeq ==
  ASSUME NEW S, NEW n \in Nat, NEW row \in [1 .. n -> S]
  PROVE  row \in Seq(S) /\ Len(row) = n
  OBVIOUS

\* The slot at the head no longer counts once it has been reset.
gone == IF popping = "release" THEN 1 ELSE 0
Length == RingSize - gone

RingContentsAre ==
    /\ RingContents \in Seq(Items)
    /\ Length \in 0 .. RingCapacity
    /\ Len(RingContents) = Length
    /\ \A k \in 1 .. Length : RingContents[k] = slots[From(ringHead, gone + k - 1)]

LEMMA RingHolds == RingInv => RingContentsAre
  <1> SUFFICES ASSUME RingInv PROVE RingContentsAre
    OBVIOUS
  <1>1. SpscTypes /\ SlotInv
    BY DEF RingInv
  <1>2. Length \in 0 .. RingCapacity /\ gone \in {0, 1}
    BY <1>1, SizeIs, SpscConstants DEF SlotInv, Length, gone
  <1>3. ASSUME NEW k \in 1 .. Length
        PROVE  /\ (ringHead + gone + k - 1) % StorageSize = From(ringHead, gone + k - 1)
               /\ slots[From(ringHead, gone + k - 1)] \in Items
    <2>1. gone + k - 1 \in 0 .. RingSize - 1 /\ gone + k - 1 \in 0 .. RingCapacity
      BY <1>1, <1>2, SizeIs, SpscConstants DEF Length
    <2>2. ringHead \in SlotIndex
      BY <1>1 DEF SpscTypes
    <2>3. /\ (ringHead + (gone + k - 1)) % StorageSize = From(ringHead, gone + k - 1)
          /\ From(ringHead, gone + k - 1) \in SlotIndex
      BY <2>1, <2>2, WrapIs
    <2>4. ringHead + (gone + k - 1) = ringHead + gone + k - 1
      BY <1>2, <2>1, <2>2 DEF SlotIndex
    <2>5. Used(From(ringHead, gone + k - 1))
      BY <1>1, <2>1, SizeIs
    <2>6. popping = "release" => From(ringHead, gone + k - 1) # ringHead
      BY <2>1, <2>2, SpscConstants DEF From, gone, SlotIndex, StorageSize
    <2>7. Filled(From(ringHead, gone + k - 1))
      BY <2>5, <2>6 DEF Filled
    <2>8. slots[From(ringHead, gone + k - 1)] # NoItem
      BY <1>1, <2>3, <2>7 DEF SlotInv
    <2> QED BY <1>1, <2>3, <2>4, <2>8 DEF SpscTypes
  <1>4. RingContents = [k \in 1 .. Length |-> slots[(ringHead + gone + k - 1) % StorageSize]]
    BY DEF RingContents, Length, gone
  <1>5. RingContents \in [1 .. Length -> Items]
        /\ \A k \in 1 .. Length : RingContents[k] = slots[From(ringHead, gone + k - 1)]
    BY <1>3, <1>4
  <1> QED BY <1>2, <1>5, RowIsSeq DEF RingContentsAre

LEMMA RingHoldsNext == RingInv' => RingContentsAre'
  BY RingHolds, PTL

LEMMA RingRefines ==
  RingInv /\ RingInv' /\ [SpscNext]_spscVars => [SpscFifo!Next]_(SpscFifo!vars)
  <1> SUFFICES ASSUME RingInv, RingInv', [SpscNext]_spscVars
               PROVE  [SpscFifo!Next]_(SpscFifo!vars)
    OBVIOUS
  <1> DEFINE old == RingContents
             new == RingContents'
  <1>1. /\ old \in Seq(Items) /\ Len(old) = Length /\ Length \in 0 .. RingCapacity
        /\ \A k \in 1 .. Length : old[k] = slots[From(ringHead, gone + k - 1)]
    BY RingHolds DEF RingContentsAre
  <1>2. /\ new \in Seq(Items) /\ Len(new) = Length' /\ Length' \in 0 .. RingCapacity
        /\ \A k \in 1 .. Length' : new[k] = slots'[From(ringHead', gone' + k - 1)]
    BY RingHoldsNext DEF RingContentsAre, From
  <1>3. SpscTypes /\ SlotInv
    BY DEF RingInv
  <1>s. ASSUME new = old, UNCHANGED popped PROVE [SpscFifo!Next]_(SpscFifo!vars)
    BY <1>s DEF SpscFifo!vars
  <1>p. ASSUME NEW e \in Items, Length < RingCapacity, new = Append(old, e), UNCHANGED popped
        PROVE  [SpscFifo!Next]_(SpscFifo!vars)
    BY <1>1, <1>p DEF SpscFifo!vars, SpscFifo!Next, SpscFifo!Put
  <1>t. ASSUME old # <<>>, new = Tail(old), popped' = Append(popped, Head(old))
        PROVE  [SpscFifo!Next]_(SpscFifo!vars)
    BY <1>t DEF SpscFifo!vars, SpscFifo!Next, SpscFifo!Take
  <1> HIDE DEF old, new
  <1>4. CASE LoadRingHead \/ LoadRingTail \/ Extract \/ UNCHANGED spscVars
    <2>1. UNCHANGED <<slots, ringHead, ringTail, popped>> /\ gone' = gone
      BY <1>4 DEF LoadRingHead, LoadRingTail, Extract, spscVars, producerSide, consumerSide, gone
    <2>2. Length' = Length
      BY <2>1 DEF Length, RingSize
    <2>3. new = old
      BY <1>1, <1>2, <2>1, <2>2, SeqEqual
    <2> QED BY <1>s, <2>1, <2>3
  <1>5. CASE Construct
    <2>1. /\ UNCHANGED <<ringHead, ringTail, popped, popping>>
          /\ \A i \in SlotIndex : i # ringTail => slots'[i] = slots[i]
      BY <1>3, <1>5 DEF Construct, consumerSide, SpscTypes
    <2>2. Length' = Length /\ gone' = gone
      BY <2>1 DEF Length, RingSize, gone
    <2>3. ASSUME NEW k \in 1 .. Length PROVE new[k] = old[k]
      <3>1. gone + k - 1 \in 0 .. RingSize - 1 /\ gone + k - 1 \in 0 .. RingCapacity
        BY <1>3, SizeIs, SpscConstants DEF Length, gone
      <3>2. /\ From(ringHead, gone + k - 1) \in SlotIndex
            /\ From(ringHead, gone + k - 1) # ringTail
        BY <1>3, <3>1, SizeIs, WrapIs DEF SpscTypes
      <3> QED BY <1>1, <1>2, <2>1, <2>2, <3>2
    <2>4. new = old
      BY <1>1, <1>2, <2>2, <2>3, SeqEqual
    <2> QED BY <1>s, <2>1, <2>4
  <1>6. CASE PublishTail
    <2>1. /\ producing = "publish" /\ UNCHANGED <<slots, ringHead, popped, popping>>
          /\ ringTail' = Advance(ringTail) /\ ringTail' # ringHead
      BY <1>3, <1>6 DEF PublishTail, consumerSide, SlotInv
    <2>2. ringTail' = IF ringTail = RingCapacity THEN 0 ELSE ringTail + 1
      BY <1>3, <2>1, AdvanceIs DEF SpscTypes
    <2>3. RingSize' = RingSize + 1 /\ gone' = gone
      BY <1>3, <2>1, <2>2, SpscConstants DEF RingSize, StorageSize, SpscTypes, SlotIndex, gone
    <2>4. Length' = Length + 1
      BY <1>1, <1>3, <2>3, SizeIs DEF Length, gone
    <2>5. slots[ringTail] \in Items
      <3>1. ringHead # ringTail \/ popping # "release"
        BY <1>3 DEF SlotInv
      <3>2. Filled(ringTail)
        BY <2>1, <3>1 DEF Filled
      <3> QED BY <1>3, <3>2 DEF SlotInv, SpscTypes
    <2>6. ASSUME NEW k \in 1 .. Len(new) PROVE new[k] = Append(old, slots[ringTail])[k]
      <3>1. CASE k <= Length
        BY <1>1, <1>2, <2>1, <2>3, <2>4, <2>5, <3>1
      <3>2. CASE k = Length + 1
        <4>1. gone + k - 1 = RingSize
          BY <1>3, <3>2, SizeIs DEF Length, gone
        <4>2. new[k] = slots[ringTail]
          BY <1>2, <1>3, <2>1, <2>3, <4>1, SizeIs
        <4> QED BY <1>1, <2>5, <3>2, <4>2
      <3> QED BY <1>1, <1>2, <2>4, <3>1, <3>2
    <2>7. new = Append(old, slots[ringTail])
      <3>1. Append(old, slots[ringTail]) \in Seq(Items)
            /\ Len(Append(old, slots[ringTail])) = Length + 1
        BY <1>1, <2>5
      <3> QED BY <1>2, <2>4, <2>6, <3>1, SeqEqual
    <2> QED BY <1>1, <1>2, <1>p, <2>1, <2>4, <2>5, <2>7, SpscConstants
  <1>7. CASE ResetSlot
    <2>1. /\ popping = "reset" /\ popping' = "release" /\ UNCHANGED <<ringHead, ringTail>>
          /\ popped' = Append(popped, held) /\ held = slots[ringHead]
          /\ \A i \in SlotIndex : i # ringHead => slots'[i] = slots[i]
          /\ ringHead # ringTail
      BY <1>3, <1>7 DEF ResetSlot, producerSide, SlotInv, SpscTypes
    <2>2. gone = 0 /\ gone' = 1 /\ RingSize' = RingSize
      BY <2>1 DEF gone, RingSize
    <2>3. Length >= 1 /\ Length' = Length - 1
      BY <1>1, <1>3, <2>1, <2>2, SizeIs DEF Length
    <2>4. old # <<>> /\ Head(old) = held
      <3>1. old[1] = slots[From(ringHead, 0)]
        BY <1>1, <2>2, <2>3
      <3>2. From(ringHead, 0) = ringHead
        BY <1>3, SpscConstants DEF From, SpscTypes, SlotIndex
      <3> QED BY <1>1, <2>1, <2>3, <3>1, <3>2
    <2>5. ASSUME NEW k \in 1 .. Len(new) PROVE new[k] = Tail(old)[k]
      <3>1. k \in 1 .. Length' /\ k + 1 \in 1 .. Length /\ k \in 1 .. RingCapacity
        BY <1>1, <1>2, <2>3, SpscConstants
      <3>2. From(ringHead, k) \in SlotIndex /\ From(ringHead, k) # ringHead
        <4>1. k \in 0 .. RingCapacity /\ ringHead \in SlotIndex
          BY <1>3, <3>1, SpscConstants DEF SpscTypes
        <4> QED BY <3>1, <4>1, WrapIs, SpscConstants DEF From, StorageSize, SlotIndex
      <3>3. new[k] = slots[From(ringHead, k)]
        <4>1. 1 + k - 1 = k
          BY <3>1
        <4> QED BY <1>2, <2>1, <2>2, <3>1, <3>2, <4>1
      <3>4. old[k + 1] = slots[From(ringHead, k)]
        <4>1. 0 + (k + 1) - 1 = k
          BY <3>1
        <4> QED BY <1>1, <2>2, <3>1, <4>1
      <3> QED BY <1>1, <2>4, <3>1, <3>3, <3>4
    <2>6. new = Tail(old)
      <3>1. Tail(old) \in Seq(Items) /\ Len(Tail(old)) = Length - 1
        BY <1>1, <2>3
      <3> QED BY <1>2, <2>3, <2>5, <3>1, SeqEqual
    <2> QED BY <1>t, <2>1, <2>4, <2>6
  <1>8. CASE ReleaseHead
    <2>1. /\ popping = "release" /\ popping' = "idle" /\ UNCHANGED <<slots, ringTail, popped>>
          /\ ringHead' = Advance(ringHead) /\ ringHead # ringTail
      BY <1>3, <1>8 DEF ReleaseHead, producerSide, SlotInv
    <2>2. ringHead' = IF ringHead = RingCapacity THEN 0 ELSE ringHead + 1
      BY <1>3, <2>1, AdvanceIs DEF SpscTypes
    <2>3. RingSize' = RingSize - 1 /\ gone = 1 /\ gone' = 0
      BY <1>3, <2>1, <2>2, SpscConstants DEF RingSize, StorageSize, SpscTypes, SlotIndex, gone
    <2>4. Length' = Length
      BY <1>3, <2>3, SizeIs DEF Length
    <2>5. ASSUME NEW k \in 1 .. Len(new) PROVE new[k] = old[k]
      <3>1. k \in 1 .. Length /\ k \in 1 .. RingCapacity /\ ringHead \in SlotIndex
        BY <1>1, <1>2, <1>3, <2>4, SpscConstants DEF SpscTypes
      <3>2. From(ringHead', k - 1) = From(ringHead, k)
        BY <2>2, <3>1, SpscConstants DEF From, SlotIndex, StorageSize
      <3>3. 0 + k - 1 = k - 1 /\ 1 + k - 1 = k
        BY <3>1
      <3> QED BY <1>1, <1>2, <2>1, <2>3, <2>4, <3>1, <3>2, <3>3
    <2>6. new = old
      BY <1>1, <1>2, <2>4, <2>5, SeqEqual
    <2> QED BY <1>s, <2>1, <2>6
  <1> QED BY <1>4, <1>5, <1>6, <1>7, <1>8 DEF SpscNext, SpscProducer, SpscConsumer

(* The ring is a first-in first-out queue of the capacity announced, for any *)
(* capacity: nothing is lost, repeated or reordered by any interleaving or   *)
(* by a copy that throws.                                                    *)
THEOREM RingIsFifo == SpscSpec => SpscImplementsFifo
  <1>1. SpscInit => SpscFifo!Init
    <2> SUFFICES ASSUME SpscInit PROVE RingContents = <<>> /\ popped = <<>>
      BY DEF SpscFifo!Init
    <2>1. RingInv
      BY RingInvInit
    <2>2. Length = 0
      BY DEF SpscInit, Length, RingSize, gone
    <2> QED BY <2>1, <2>2, RingHolds DEF RingContentsAre, SpscInit
  <1> QED BY <1>1, RingInvAlways, RingRefines, PTL DEF SpscSpec, SpscImplementsFifo

-----------------------------------------------------------------------------
(* The linked queue: the shape of its chain.                               *)

Places == Nodes \cup {Stub}

\* Some thread is about to link a to b.
Pending(lk, cp, a, b) ==
    \/ \E p \in Producers : lk[p] = [n |-> b, prev |-> a]
    \/ b = Stub /\ cp = a

\* b follows a in the chain and is not linked to it yet.
Gap(c, nx, a, b) ==
    \E i \in 1 .. Len(c) - 1 : c[i] = a /\ c[i + 1] = b /\ nx[a] = Null

\* The chain c, with the links nx, the pushes lk and the consumer's own cp.
Shape(c, nx, lk, cp) ==
    /\ c # <<>>
    /\ \A i, j \in 1 .. Len(c) : c[i] = c[j] => i = j
    /\ nx[c[Len(c)]] = Null
    /\ \A i \in 1 .. Len(c) - 1 :
          \/ nx[c[i]] = c[i + 1]
          \/ nx[c[i]] = Null /\ Pending(lk, cp, c[i], c[i + 1])
    /\ \A p \in Producers : lk[p] # Idle => Gap(c, nx, lk[p].prev, lk[p].n)
    /\ cp # Null => Gap(c, nx, cp, Stub)
    /\ \A p, q \in Producers :
          lk[p] # Idle /\ lk[q] # Idle /\ lk[p].prev = lk[q].prev => p = q

In(c, n) == \E i \in 1 .. Len(c) : c[i] = n

-----------------------------------------------------------------------------
(* How the shape of the chain changes.                                     *)

LEMMA NodeNames == Stub # Null /\ Stub \notin Nodes /\ Null \notin Nodes
  BY MpscAssumption DEF Stub, Null

LEMMA AppendIs ==
  ASSUME NEW S, NEW c \in Seq(S), NEW n \in S
  PROVE  /\ Append(c, n) \in Seq(S) /\ Len(Append(c, n)) = Len(c) + 1
         /\ Append(c, n)[Len(c) + 1] = n
         /\ \A i \in 1 .. Len(c) : Append(c, n)[i] = c[i]
  OBVIOUS

LEMMA TailIs ==
  ASSUME NEW S, NEW c \in Seq(S), c # <<>>
  PROVE  /\ Tail(c) \in Seq(S) /\ Len(c) >= 1 /\ Len(Tail(c)) = Len(c) - 1
         /\ \A i \in 1 .. Len(c) - 1 : Tail(c)[i] = c[i + 1]
  BY HeadTailProperties, LenProperties, EmptySeq

\* A gap stays one while the chain grows behind it and its link stays open.
LEMMA GapGrows ==
  ASSUME NEW c \in Seq(Places), NEW n \in Places, NEW nx, NEW nx1, NEW a, NEW b,
         Gap(c, nx, a, b), nx1[a] = nx[a]
  PROVE  Gap(Append(c, n), nx1, a, b)
  <1>1. PICK i \in 1 .. Len(c) - 1 : c[i] = a /\ c[i + 1] = b /\ nx[a] = Null
    BY DEF Gap
  <1>2. i \in 1 .. Len(Append(c, n)) - 1 /\ i \in 1 .. Len(c) /\ i + 1 \in 1 .. Len(c)
    BY AppendIs, LenProperties
  <1>3. Append(c, n)[i] = a /\ Append(c, n)[i + 1] = b
    BY <1>1, <1>2, AppendIs
  <1> QED BY <1>1, <1>2, <1>3 DEF Gap

\* An exchange puts a node n behind the chain, which its thread will link.
LEMMA ShapeExtends ==
  ASSUME NEW c \in Seq(Places), NEW n \in Places, NEW nx, NEW lk, NEW cp,
         NEW nx1, NEW lk1, NEW cp1,
         Shape(c, nx, lk, cp), ~In(c, n),
         nx1[n] = Null, \A m \in Places : m # n => nx1[m] = nx[m],
         \/ \E p \in Producers :
              /\ lk[p] = Idle /\ lk1[p] = [n |-> n, prev |-> c[Len(c)]] /\ cp1 = cp
              /\ \A q \in Producers : q # p => lk1[q] = lk[q]
         \/ n = Stub /\ lk1 = lk /\ cp = Null /\ cp1 = c[Len(c)]
  PROVE  Shape(Append(c, n), nx1, lk1, cp1)
  <1> DEFINE d == Append(c, n)
  <1>1. /\ d \in Seq(Places) /\ Len(d) = Len(c) + 1 /\ d[Len(c) + 1] = n
        /\ \A i \in 1 .. Len(c) : d[i] = c[i]
    BY AppendIs
  <1>2. Len(c) \in Nat /\ Len(c) >= 1 /\ \A i \in 1 .. Len(c) : c[i] \in Places /\ c[i] # n
    BY LenProperties, EmptySeq DEF Shape, In
  <1>g. ASSUME NEW a, NEW b, Gap(c, nx, a, b) PROVE Gap(d, nx1, a, b) /\ a # c[Len(c)]
    <2>1. PICK i \in 1 .. Len(c) - 1 : c[i] = a /\ c[i + 1] = b /\ nx[a] = Null
      BY <1>g DEF Gap
    <2>2. nx1[a] = nx[a]
      BY <1>2, <2>1
    <2>3. a # c[Len(c)]
      BY <1>2, <2>1 DEF Shape
    <2> QED BY <1>g, <2>2, <2>3, GapGrows
  <1>n. Gap(d, nx1, c[Len(c)], n)
    <2>1. nx1[c[Len(c)]] = Null
      BY <1>2 DEF Shape
    <2>2. Len(c) \in 1 .. Len(d) - 1 /\ d[Len(c)] = c[Len(c)] /\ d[Len(c) + 1] = n
      BY <1>1, <1>2
    <2> HIDE DEF d
    <2> QED BY <2>1, <2>2 DEF Gap
  <1> HIDE DEF d
  <1>3. d # <<>> /\ nx1[d[Len(d)]] = Null
    BY <1>1, <1>2, EmptySeq
  <1>4. \A i, j \in 1 .. Len(d) : d[i] = d[j] => i = j
    <2> SUFFICES ASSUME NEW i \in 1 .. Len(d), NEW j \in 1 .. Len(d), d[i] = d[j] PROVE i = j
      OBVIOUS
    <2>1. CASE i \in 1 .. Len(c) /\ j \in 1 .. Len(c)
      BY <1>1, <2>1 DEF Shape
    <2>2. CASE ~(i \in 1 .. Len(c)) \/ ~(j \in 1 .. Len(c))
      BY <1>1, <1>2, <2>2
    <2> QED BY <2>1, <2>2
  <1>k. ASSUME NEW a \in Places, NEW b, Pending(lk, cp, a, b) PROVE Pending(lk1, cp1, a, b)
    <2>1. a # Null
      BY NodeNames DEF Places
    <2>2. ASSUME NEW p \in Producers, lk[p] = [n |-> b, prev |-> a] PROVE lk[p] # Idle
      BY <2>1, <2>2 DEF Idle
    <2> QED BY <1>k, <2>1, <2>2 DEF Pending
  <1>l. Pending(lk1, cp1, c[Len(c)], n)
    BY DEF Pending
  <1>5. \A i \in 1 .. Len(d) - 1 :
          \/ nx1[d[i]] = d[i + 1]
          \/ nx1[d[i]] = Null /\ Pending(lk1, cp1, d[i], d[i + 1])
    <2> TAKE i \in 1 .. Len(d) - 1
    <2>1. CASE i \in 1 .. Len(c) - 1
      <3>1. d[i] = c[i] /\ d[i + 1] = c[i + 1] /\ c[i] \in Places /\ nx1[c[i]] = nx[c[i]]
        BY <1>1, <1>2, <2>1
      <3> QED BY <1>k, <2>1, <3>1 DEF Shape
    <2>2. CASE i = Len(c)
      BY <1>1, <1>2, <1>l, <2>2 DEF Shape
    <2> QED BY <1>1, <1>2, <2>1, <2>2
  <1>6. CASE \E p \in Producers :
               /\ lk[p] = Idle /\ lk1[p] = [n |-> n, prev |-> c[Len(c)]] /\ cp1 = cp
               /\ \A q \in Producers : q # p => lk1[q] = lk[q]
    <2>1. PICK p \in Producers :
               /\ lk[p] = Idle /\ lk1[p] = [n |-> n, prev |-> c[Len(c)]] /\ cp1 = cp
               /\ \A q \in Producers : q # p => lk1[q] = lk[q]
      BY <1>6
    <2>2. \A q \in Producers : lk1[q] # Idle => Gap(d, nx1, lk1[q].prev, lk1[q].n)
      BY <1>g, <1>n, <2>1 DEF Shape
    <2>3. cp1 # Null => Gap(d, nx1, cp1, Stub)
      BY <1>g, <2>1 DEF Shape
    <2>4. \A q \in Producers : q # p /\ lk1[q] # Idle => lk1[q].prev # c[Len(c)]
      BY <1>g, <2>1 DEF Shape
    <2>5. \A q, r \in Producers :
            lk1[q] # Idle /\ lk1[r] # Idle /\ lk1[q].prev = lk1[r].prev => q = r
      BY <2>1, <2>4 DEF Shape
    <2> QED BY <1>3, <1>4, <1>5, <2>2, <2>3, <2>5 DEF Shape, d
  <1>7. CASE n = Stub /\ lk1 = lk /\ cp = Null /\ cp1 = c[Len(c)]
    <2>1. \A q \in Producers : lk1[q] # Idle => Gap(d, nx1, lk1[q].prev, lk1[q].n)
      BY <1>g, <1>7 DEF Shape
    <2>2. cp1 # Null => Gap(d, nx1, cp1, Stub)
      BY <1>n, <1>7
    <2>3. \A q, r \in Producers :
            lk1[q] # Idle /\ lk1[r] # Idle /\ lk1[q].prev = lk1[r].prev => q = r
      BY <1>7 DEF Shape
    <2> QED BY <1>3, <1>4, <1>5, <2>1, <2>2, <2>3 DEF Shape, d
  <1> QED BY <1>6, <1>7

\* The thread that left the gap between a and b has closed it.
Closes(lk, cp, lk1, cp1, a, b) ==
    \/ \E p \in Producers :
          /\ lk[p] = [n |-> b, prev |-> a] /\ lk1[p] = Idle /\ cp1 = cp
          /\ \A q \in Producers : q # p => lk1[q] = lk[q]
          /\ b # Stub
    \/ /\ b = Stub /\ lk1 = lk /\ cp = a /\ cp1 = Null
       /\ \A q \in Producers : lk[q] # Idle => lk[q].n # Stub

LEMMA ShapeJoins ==
  ASSUME NEW c \in Seq(Places), NEW nx, NEW lk, NEW cp, NEW a \in Places, NEW b \in Places,
         NEW nx1, NEW lk1, NEW cp1,
         Shape(c, nx, lk, cp), Gap(c, nx, a, b),
         nx1[a] = b, \A m \in Places : m # a => nx1[m] = nx[m],
         Closes(lk, cp, lk1, cp1, a, b)
  PROVE  Shape(c, nx1, lk1, cp1)
  <1>1. PICK k \in 1 .. Len(c) - 1 : c[k] = a /\ c[k + 1] = b /\ nx[a] = Null
    BY DEF Gap
  <1>2. Len(c) \in Nat /\ \A i \in 1 .. Len(c) : c[i] \in Places
    BY LenProperties
  <1>d. \A i, j \in 1 .. Len(c) : c[i] = c[j] => i = j
    BY DEF Shape
  <1>3. c # <<>> /\ nx1[c[Len(c)]] = Null
    <2>1. c[Len(c)] # a
      BY <1>1, <1>2, <1>d
    <2> QED BY <1>1, <1>2, <2>1 DEF Shape
  <1>g. ASSUME NEW x, NEW y, Gap(c, nx, x, y), x # a PROVE Gap(c, nx1, x, y)
    BY <1>g, <1>2 DEF Gap
  <1>u. ASSUME NEW y, Gap(c, nx, a, y) PROVE y = b
    BY <1>1, <1>2, <1>d, <1>u DEF Gap
  <1>4. ASSUME NEW x \in Places, x # a, NEW y, Pending(lk, cp, x, y)
        PROVE  Pending(lk1, cp1, x, y)
    BY <1>4 DEF Pending, Closes
  <1>5. \A i \in 1 .. Len(c) - 1 :
          \/ nx1[c[i]] = c[i + 1]
          \/ nx1[c[i]] = Null /\ Pending(lk1, cp1, c[i], c[i + 1])
    <2> TAKE i \in 1 .. Len(c) - 1
    <2>1. CASE c[i] = a
      <3>1. i = k
        BY <1>1, <1>2, <1>d, <2>1
      <3> QED BY <1>1, <2>1, <3>1
    <2>2. CASE c[i] # a
      <3>1. nx1[c[i]] = nx[c[i]] /\ c[i] \in Places
        BY <1>2, <2>2
      <3> QED BY <1>4, <2>2, <3>1 DEF Shape
    <2> QED BY <2>1, <2>2
  <1>6. CASE \E p \in Producers :
              /\ lk[p] = [n |-> b, prev |-> a] /\ lk1[p] = Idle /\ cp1 = cp
              /\ \A q \in Producers : q # p => lk1[q] = lk[q]
              /\ b # Stub
    <2>1. PICK p \in Producers :
              /\ lk[p] = [n |-> b, prev |-> a] /\ lk1[p] = Idle /\ cp1 = cp
              /\ \A q \in Producers : q # p => lk1[q] = lk[q]
              /\ b # Stub
      BY <1>6
    <2>2. lk[p] # Idle
      BY <2>1, NodeNames DEF Idle, Places
    <2>3. \A q \in Producers : q # p /\ lk[q] # Idle => lk[q].prev # a
      BY <2>1, <2>2 DEF Shape
    <2>4. \A q \in Producers : lk1[q] # Idle => Gap(c, nx1, lk1[q].prev, lk1[q].n)
      BY <1>g, <2>1, <2>3 DEF Shape
    <2>5. cp1 # Null => Gap(c, nx1, cp1, Stub)
      BY <1>g, <1>u, <2>1 DEF Shape
    <2>6. \A q, r \in Producers :
            lk1[q] # Idle /\ lk1[r] # Idle /\ lk1[q].prev = lk1[r].prev => q = r
      BY <2>1 DEF Shape
    <2> QED BY <1>3, <1>d, <1>5, <2>4, <2>5, <2>6 DEF Shape
  <1>7. CASE b = Stub /\ lk1 = lk /\ cp = a /\ cp1 = Null
              /\ \A q \in Producers : lk[q] # Idle => lk[q].n # Stub
    <2>1. \A q \in Producers : lk[q] # Idle => lk[q].prev # a
      BY <1>u, <1>7 DEF Shape
    <2>2. \A q \in Producers : lk1[q] # Idle => Gap(c, nx1, lk1[q].prev, lk1[q].n)
      BY <1>g, <1>7, <2>1 DEF Shape
    <2>3. \A q, r \in Producers :
            lk1[q] # Idle /\ lk1[r] # Idle /\ lk1[q].prev = lk1[r].prev => q = r
      BY <1>7 DEF Shape
    <2> QED BY <1>3, <1>d, <1>5, <1>7, <2>2, <2>3 DEF Shape
  <1> QED BY <1>6, <1>7 DEF Closes

LEMMA StubJoins ==
  ASSUME NEW c \in Seq(Places), NEW nx, NEW lk, NEW a \in Places, NEW nx1,
         Shape(c, nx, lk, a), Gap(c, nx, a, Stub),
         nx1[a] = Stub, \A m \in Places : m # a => nx1[m] = nx[m],
         \A q \in Producers : lk[q] # Idle => lk[q].n # Stub
  PROVE  Shape(c, nx1, lk, Null)
  <1>1. Stub \in Places
    BY DEF Places
  <1>2. Closes(lk, a, lk, Null, a, Stub)
    BY DEF Closes
  <1> QED BY <1>1, <1>2, ShapeJoins

\* The consumer moves past a node whose successor it has seen.
LEMMA ShapeDrops ==
  ASSUME NEW c \in Seq(Places), NEW nx, NEW lk, NEW cp,
         Shape(c, nx, lk, cp), nx[c[1]] # Null
  PROVE  /\ Shape(Tail(c), nx, lk, cp)
         /\ Len(c) >= 2 /\ nx[c[1]] = c[2]
  <1>1. /\ Tail(c) \in Seq(Places) /\ Len(c) \in Nat /\ Len(c) >= 1
        /\ Len(Tail(c)) = Len(c) - 1
        /\ \A i \in 1 .. Len(c) - 1 : Tail(c)[i] = c[i + 1]
    BY TailIs, LenProperties DEF Shape
  <1>2. Len(c) >= 2
    BY <1>1 DEF Shape
  <1>3. nx[c[1]] = c[2]
    BY <1>1, <1>2 DEF Shape
  <1> DEFINE d == Tail(c)
  <1> HIDE DEF d
  <1>4. /\ Len(d) = Len(c) - 1 /\ \A i \in 1 .. Len(d) : d[i] = c[i + 1]
        /\ d # <<>>
    <2>1. Len(d) = Len(c) - 1 /\ \A i \in 1 .. Len(d) : d[i] = c[i + 1]
      BY <1>1, <1>2 DEF d
    <2>2. Len(<<>>) = 0
      OBVIOUS
    <2>3. d # <<>>
      BY <1>1, <1>2, <2>1, <2>2
    <2> QED BY <2>1, <2>3
  <1>5. nx[d[Len(d)]] = Null /\ \A i, j \in 1 .. Len(d) : d[i] = d[j] => i = j
    <2>1. d[Len(d)] = c[Len(c)]
      BY <1>1, <1>2, <1>4
    <2>2. ASSUME NEW i \in 1 .. Len(d), NEW j \in 1 .. Len(d), d[i] = d[j] PROVE i = j
      <3>1. c[i + 1] = c[j + 1] /\ i + 1 \in 1 .. Len(c) /\ j + 1 \in 1 .. Len(c)
        BY <1>1, <1>4, <2>2
      <3>2. i + 1 = j + 1
        BY <3>1 DEF Shape
      <3> QED BY <1>1, <1>4, <3>2
    <2> QED BY <2>1, <2>2 DEF Shape
  <1>6. \A i \in 1 .. Len(d) - 1 :
          \/ nx[d[i]] = d[i + 1]
          \/ nx[d[i]] = Null /\ Pending(lk, cp, d[i], d[i + 1])
    <2> TAKE i \in 1 .. Len(d) - 1
    <2>1. d[i] = c[i + 1] /\ d[i + 1] = c[i + 1 + 1] /\ i + 1 \in 1 .. Len(c) - 1
      BY <1>1, <1>4
    <2> QED BY <2>1 DEF Shape
  <1>g. ASSUME NEW a, NEW b, Gap(c, nx, a, b) PROVE Gap(d, nx, a, b)
    <2>1. PICK i \in 1 .. Len(c) - 1 : c[i] = a /\ c[i + 1] = b /\ nx[a] = Null
      BY <1>g DEF Gap
    <2>2. i # 1
      BY <2>1
    <2>3. i - 1 \in 1 .. Len(d) - 1 /\ i - 1 + 1 = i
      BY <1>1, <1>4, <2>1, <2>2
    <2>4. d[i - 1] = a /\ d[i - 1 + 1] = b
      BY <1>1, <1>4, <2>1, <2>3
    <2> QED BY <2>1, <2>3, <2>4 DEF Gap
  <1>7. Shape(d, nx, lk, cp)
    BY <1>4, <1>5, <1>6, <1>g DEF Shape
  <1> QED BY <1>2, <1>3, <1>7 DEF d

\* Links of nodes outside the chain do not matter.
LEMMA ShapeIgnores ==
  ASSUME NEW c \in Seq(Places), NEW nx, NEW lk, NEW cp, NEW nx1,
         Shape(c, nx, lk, cp), \A m \in Places : In(c, m) => nx1[m] = nx[m]
  PROVE  Shape(c, nx1, lk, cp)
  <1>1. Len(c) \in Nat /\ Len(c) >= 1 /\ \A i \in 1 .. Len(c) : nx1[c[i]] = nx[c[i]]
    BY LenProperties, EmptySeq DEF Shape, In
  <1>2. \A a, b : Gap(c, nx, a, b) => Gap(c, nx1, a, b)
    BY <1>1 DEF Gap
  <1> QED BY <1>1, <1>2 DEF Shape

-----------------------------------------------------------------------------
(* The inductive invariant.                                                *)

Labels == {"idle", "load next", "load head", "reset stub", "exchange stub",
           "link stub", "reload next", "own", "empty"}

QueueTypes ==
    /\ next \in [Places -> Places \cup {Null}]
    /\ value \in [Nodes -> Pushed \cup {NoValue}]
    /\ head \in Places /\ tail \in Places
    /\ allocated \subseteq Nodes
    /\ pushes \in [Producers -> 0 .. MaxPushes]
    /\ linking \in [Producers -> {Idle} \cup [n : Nodes, prev : Places]]
    /\ consumer \in Labels
    /\ ctail \in Places \cup {Null} /\ (ctail = Null <=> consumer = "idle")
    /\ cprev \in Places \cup {Null} /\ (cprev # Null <=> consumer = "link stub")
    /\ taken \in Seq(Pushed)
    /\ chain \in Seq(Places)

ShapeInv ==
    /\ Shape(chain, next, linking, cprev)
    /\ chain[1] = tail /\ chain[Len(chain)] = head

Up == alive
Excused == excuse

\* What the consumer knows where it is.
PlaceInv ==
    /\ consumer \in {"load next", "load head", "reset stub", "exchange stub",
                     "link stub", "reload next"} => ctail = tail /\ tail # Stub
    /\ consumer \in {"reset stub", "exchange stub"} => ~In(chain, Stub)
    /\ consumer = "exchange stub" => next[Stub] = Null
    /\ consumer \in {"link stub", "reload next"} => In(chain, Stub)
    /\ consumer = "empty" => ctail = tail
    /\ consumer = "own" => ctail \in Nodes /\ ~In(chain, ctail)

\* The heap nodes are those of the chain and the one the consumer has detached.
OwnInv ==
    /\ Up => \A n \in Nodes :
                n \in allocated <=> In(chain, n) \/ (consumer = "own" /\ n = ctail)
    /\ ~Up => allocated = {} /\ consumer = "idle" /\ ~InFlight
    /\ \A n \in allocated : value[n] \in Pushed

ExcuseInv ==
    /\ consumer = "empty" => Excused
    /\ consumer = "load head" => Excused \/ head = ctail

MpscInv == QueueTypes /\ ShapeInv /\ PlaceInv /\ OwnInv /\ ExcuseInv

LEMMA InAppend ==
  ASSUME NEW c \in Seq(Places), NEW n \in Places, NEW m
  PROVE  In(Append(c, n), m) <=> In(c, m) \/ m = n
  <1>1. Len(c) \in Nat /\ Len(c) + 1 \in 1 .. Len(c) + 1
    BY LenProperties
  <1> QED BY <1>1, AppendIs DEF In

LEMMA InTail ==
  ASSUME NEW c \in Seq(Places), c # <<>>, NEW m,
         \A i, j \in 1 .. Len(c) : c[i] = c[j] => i = j
  PROVE  In(Tail(c), m) <=> In(c, m) /\ m # c[1]
  <1>1. Len(c) \in Nat /\ Len(c) >= 1 /\ Len(Tail(c)) = Len(c) - 1
    BY TailIs, LenProperties
  <1>2. ASSUME In(Tail(c), m) PROVE In(c, m) /\ m # c[1]
    <2>1. PICK i \in 1 .. Len(c) - 1 : Tail(c)[i] = m
      BY <1>1, <1>2 DEF In
    <2>2. i + 1 \in 1 .. Len(c) /\ c[i + 1] = m /\ 1 \in 1 .. Len(c) /\ i + 1 # 1
      BY <1>1, <2>1, TailIs
    <2> QED BY <2>2 DEF In
  <1>3. ASSUME In(c, m), m # c[1] PROVE In(Tail(c), m)
    <2>1. PICK i \in 1 .. Len(c) : c[i] = m /\ i # 1
      BY <1>3 DEF In
    <2>2. i - 1 \in 1 .. Len(Tail(c)) /\ i - 1 \in 1 .. Len(c) - 1 /\ i - 1 + 1 = i
      BY <1>1, <2>1
    <2>3. Tail(c)[i - 1] = m
      BY <2>1, <2>2, TailIs
    <2> QED BY <2>2, <2>3 DEF In
  <1> QED BY <1>2, <1>3

LEMMA Indices ==
  ASSUME NEW n \in Nat, n >= 1, n # 1
  PROVE  /\ 1 \in 1 .. n - 1 /\ n - 1 \in 1 .. n - 1
         /\ 1 \in 1 .. n /\ 1 + 1 \in 1 .. n /\ n - 1 + 1 = n /\ n \in 1 .. n
  OBVIOUS

\* The ends of the chain are members, and the last one has no successor.
LEMMA ChainEnds ==
  ASSUME QueueTypes, ShapeInv
  PROVE  /\ Len(chain) \in Nat /\ Len(chain) >= 1 /\ chain # <<>>
         /\ \A i \in 1 .. Len(chain) : chain[i] \in Places
         /\ \A i, j \in 1 .. Len(chain) : chain[i] = chain[j] => i = j
         /\ In(chain, tail) /\ In(chain, head) /\ next[head] = Null
  <1>1. chain # <<>> /\ chain \in Seq(Places)
    BY DEF ShapeInv, Shape, QueueTypes
  <1>2. Len(chain) \in Nat /\ Len(chain) >= 1
    BY <1>1, LenProperties, EmptySeq
  <1>3. 1 \in 1 .. Len(chain) /\ Len(chain) \in 1 .. Len(chain)
    BY <1>2
  <1>4. In(chain, tail) /\ In(chain, head)
    BY <1>3 DEF In, ShapeInv
  <1> QED BY <1>1, <1>2, <1>4 DEF ShapeInv, Shape

\* The chain without its first node, when that has a successor.
LEMMA ChainMoves ==
  ASSUME QueueTypes, ShapeInv, next[tail] # Null
  PROVE  /\ Shape(Tail(chain), next, linking, cprev)
         /\ Tail(chain) \in Seq(Places) /\ next[tail] # tail
         /\ Tail(chain)[1] = next[tail] /\ Tail(chain)[Len(Tail(chain))] = head
         /\ \A m : In(Tail(chain), m) <=> In(chain, m) /\ m # tail
  <1>1. chain \in Seq(Places) /\ chain[1] = tail /\ chain[Len(chain)] = head
    BY DEF QueueTypes, ShapeInv
  <1>2. /\ Shape(Tail(chain), next, linking, cprev)
        /\ Len(chain) >= 2 /\ next[tail] = chain[2]
    BY <1>1, ShapeDrops DEF ShapeInv
  <1>3. Len(chain) \in Nat /\ Len(chain) >= 1 /\ Len(chain) # 1 /\ chain # <<>>
    BY <1>2, ChainEnds
  <1>4. /\ Tail(chain) \in Seq(Places) /\ Len(Tail(chain)) = Len(chain) - 1
        /\ \A i \in 1 .. Len(chain) - 1 : Tail(chain)[i] = chain[i + 1]
    BY <1>1, <1>3, TailIs
  <1>5. Tail(chain)[1] = chain[1 + 1] /\ Tail(chain)[Len(Tail(chain))] = chain[Len(chain)]
    BY <1>3, <1>4, Indices
  <1>6. \A i, j \in 1 .. Len(chain) : chain[i] = chain[j] => i = j
    BY ChainEnds
  <1>7. next[tail] # tail
    <2>1. 1 \in 1 .. Len(chain) /\ 1 + 1 \in 1 .. Len(chain)
      BY <1>3, Indices
    <2> QED BY <1>1, <1>2, <1>6, <2>1
  <1>8. \A m : In(Tail(chain), m) <=> In(chain, m) /\ m # tail
    BY <1>1, <1>3, <1>6, InTail
  <1> QED BY <1>1, <1>2, <1>4, <1>5, <1>7, <1>8

\* A node without a successor is the last one, or a push is in flight.
LEMMA NoSuccessor ==
  ASSUME QueueTypes, ShapeInv, next[tail] = Null, cprev = Null
  PROVE  (Len(chain) = 1 /\ head = tail) \/ InFlight
  <1>1. CASE Len(chain) = 1
    BY <1>1 DEF ShapeInv
  <1>2. CASE Len(chain) # 1
    <2>1. 1 \in 1 .. Len(chain) - 1 /\ chain[1] \in Places /\ chain[1 + 1] \in Places
      <3>1. 1 \in 1 .. Len(chain) - 1 /\ 1 \in 1 .. Len(chain) /\ 1 + 1 \in 1 .. Len(chain)
        <4>1. Len(chain) \in Nat /\ Len(chain) >= 1
          BY ChainEnds
        <4> QED BY <1>2, <4>1, Indices
      <3> QED BY <3>1, ChainEnds
    <2>2. chain[1 + 1] # Null /\ chain[1] # Null
      BY <2>1, NodeNames DEF Places
    <2>3. Pending(linking, cprev, chain[1], chain[1 + 1])
      BY <2>1, <2>2 DEF ShapeInv, Shape
    <2>4. PICK p \in Producers : linking[p] = [n |-> chain[1 + 1], prev |-> chain[1]]
      BY <2>2, <2>3 DEF Pending
    <2>5. linking[p] # Idle
      BY <2>2, <2>4 DEF Idle
    <2> QED BY <2>5 DEF InFlight, Linking
  <1> QED BY <1>1, <1>2

\* When that node is the stub, try_pop may find the queue empty.
LEMMA StubAlone ==
  ASSUME QueueTypes, ShapeInv, next[tail] = Null, cprev = Null, tail = Stub
  PROVE  MayLookEmpty
  <1>1. ASSUME Len(chain) = 1 PROVE chain = <<Stub>>
    <2>1. chain \in Seq(Places) /\ <<Stub>> \in Seq(Places) /\ chain[1] = Stub
      <3>1. Stub \in Places
        BY DEF Places
      <3>2. <<Stub>> \in Seq(Places)
        BY <3>1
      <3> QED BY <3>2 DEF QueueTypes, ShapeInv
    <2>2. Len(<<Stub>>) = 1 /\ <<Stub>>[1] = Stub
      OBVIOUS
    <2>3. \A i \in 1 .. Len(chain) : chain[i] = <<Stub>>[i]
      BY <1>1, <2>1
    <2> QED BY <1>1, <2>1, <2>2, <2>3, SeqEqual
  <1> QED BY <1>1, NoSuccessor DEF MayLookEmpty

LEMMA WitnessIs ==
  ASSUME Witnessed
  PROVE  Excused' <=> (consumer' # "idle" /\ (Excused \/ MayLookEmpty'))
  BY Zenon DEF Witnessed, Excused

\* The producers are as they were, and the queue exists.
LEMMA FrameIs ==
  ASSUME ConsumerFrame
  PROVE  /\ UNCHANGED <<value, allocated, pushes, linking>>
         /\ Up' <=> Up
         /\ InFlight' <=> InFlight
  <1>1. UNCHANGED <<value, allocated, pushes, linking, alive>>
    BY Zenon DEF ConsumerFrame, producerVars
  <1>2. Up' <=> Up
    BY <1>1, Zenon DEF Up
  <1> QED BY <1>1, <1>2 DEF InFlight, Linking

LEMMA BusyIsUp ==
  ASSUME OwnInv, consumer # "idle"
  PROVE  Up
  BY DEF OwnInv

LEMMA ExchangeStep ==
  ASSUME MpscInv, NEW p \in Producers, Exchange(p)
  PROVE  MpscInv'
  <1>1. /\ Up /\ Up' /\ linking[p] = Idle /\ pushes[p] < MaxPushes
        /\ UNCHANGED <<tail, consumer, ctail, cprev, taken>>
    BY Zenon DEF Exchange, consumerVars, Linking, Up
  <1>2. PICK n \in Nodes \ allocated :
          /\ allocated' = allocated \cup {n}
          /\ value' = [value EXCEPT ![n] = <<p, pushes[p] + 1>>]
          /\ next' = [next EXCEPT ![n] = Null]
          /\ linking' = [linking EXCEPT ![p] = [n |-> n, prev |-> head]]
          /\ head' = n
          /\ chain' = Append(chain, n)
    BY Zenon DEF Exchange
  <1>3. pushes' = [pushes EXCEPT ![p] = pushes[p] + 1]
    BY DEF Exchange
  <1>t. QueueTypes /\ ShapeInv /\ PlaceInv /\ OwnInv /\ ExcuseInv
    BY DEF MpscInv
  <1>4. n \in Places /\ n # Stub /\ n # Null /\ Stub \in Places
    BY NodeNames DEF Places
  <1>5. pushes[p] + 1 \in 1 .. MaxPushes /\ <<p, pushes[p] + 1>> \in Pushed
    <2>1. pushes[p] \in 0 .. MaxPushes /\ MaxPushes \in Nat
      BY <1>t, MpscAssumption DEF QueueTypes
    <2>2. pushes[p] + 1 \in 1 .. MaxPushes
      BY <1>1, <2>1
    <2> QED BY <2>2 DEF Pushed
  <1>6. /\ linking'[p] = [n |-> n, prev |-> head]
        /\ \A q \in Producers : q # p => linking'[q] = linking[q]
        /\ next'[n] = Null /\ \A m \in Places : m # n => next'[m] = next[m]
        /\ value'[n] = <<p, pushes[p] + 1>> /\ \A m \in Nodes : m # n => value'[m] = value[m]
    BY <1>2, <1>4, <1>t DEF QueueTypes
  <1>7. QueueTypes'
    <2>1. next' \in [Places -> Places \cup {Null}] /\ value' \in [Nodes -> Pushed \cup {NoValue}]
      BY <1>2, <1>5, <1>t DEF QueueTypes
    <2>2. pushes' \in [Producers -> 0 .. MaxPushes]
      <3>1. pushes[p] + 1 \in 0 .. MaxPushes
        BY <1>5, MpscAssumption
      <3> QED BY <1>3, <3>1, <1>t DEF QueueTypes
    <2>3. linking' \in [Producers -> {Idle} \cup [n : Nodes, prev : Places]]
      BY <1>2, <1>t DEF QueueTypes
    <2>4. chain' \in Seq(Places)
      BY <1>2, <1>4, <1>t, AppendIs DEF QueueTypes
    <2> QED BY <1>1, <1>2, <1>4, <1>t, <2>1, <2>2, <2>3, <2>4 DEF QueueTypes
  <1>8. ~In(chain, n)
    BY <1>1, <1>t DEF OwnInv
  <1>9. \A m : In(chain', m) <=> In(chain, m) \/ m = n
    BY <1>2, <1>4, <1>t, InAppend DEF QueueTypes
  <1>10. ShapeInv'
    <2>1. Shape(Append(chain, n), next', linking', cprev')
      <3>1. \E q \in Producers :
              /\ linking[q] = Idle /\ linking'[q] = [n |-> n, prev |-> chain[Len(chain)]]
              /\ cprev' = cprev
              /\ \A r \in Producers : r # q => linking'[r] = linking[r]
        BY <1>1, <1>6, <1>t DEF ShapeInv
      <3>2. chain \in Seq(Places) /\ Shape(chain, next, linking, cprev)
        BY <1>t DEF QueueTypes, ShapeInv
      <3> QED BY <1>4, <1>6, <1>8, <3>1, <3>2, ShapeExtends
    <2>2. chain'[1] = chain[1] /\ chain'[Len(chain')] = n
      <3>1. chain \in Seq(Places) /\ 1 \in 1 .. Len(chain)
        <4>1. chain \in Seq(Places) /\ Len(chain) \in Nat /\ Len(chain) >= 1
          BY <1>t, ChainEnds DEF QueueTypes
        <4> QED BY <4>1
      <3>2. /\ Len(Append(chain, n)) = Len(chain) + 1 /\ Append(chain, n)[Len(chain) + 1] = n
            /\ \A i \in 1 .. Len(chain) : Append(chain, n)[i] = chain[i]
        BY <1>4, <3>1, AppendIs
      <3> QED BY <1>2, <3>1, <3>2
    <2> QED BY <1>1, <1>2, <1>t, <2>1, <2>2 DEF ShapeInv
  <1>11. PlaceInv'
    <2>1. consumer = "own" => ctail # n
      BY <1>1, <1>t DEF OwnInv, PlaceInv
    <2> QED BY <1>1, <1>4, <1>6, <1>9, <1>t, <2>1 DEF PlaceInv
  <1>12. OwnInv'
    <2>1. \A m \in Nodes :
            m \in allocated' <=> In(chain', m) \/ (consumer' = "own" /\ m = ctail')
      BY <1>1, <1>2, <1>9, <1>t DEF OwnInv
    <2>2. \A m \in allocated' : value'[m] \in Pushed
      BY <1>2, <1>5, <1>6, <1>t DEF OwnInv, QueueTypes
    <2> QED BY <1>1, <2>1, <2>2 DEF OwnInv
  <1>13. ExcuseInv'
    <2>1. Excused' <=> (consumer' # "idle" /\ (Excused \/ MayLookEmpty'))
      BY WitnessIs, Zenon DEF Exchange
    <2>2. MayLookEmpty'
      <3>1. linking'[p] # Idle
        BY <1>4, <1>6 DEF Idle
      <3> QED BY <3>1 DEF MayLookEmpty, InFlight, Linking
    <2> QED BY <2>1, <2>2 DEF ExcuseInv
  <1> QED BY <1>7, <1>10, <1>11, <1>12, <1>13, Zenon DEF MpscInv

LEMMA LinkStep ==
  ASSUME MpscInv, NEW p \in Producers, Link(p)
  PROVE  MpscInv'
  <1> DEFINE a == linking[p].prev
             b == linking[p].n
  <1>1. /\ linking[p] # Idle
        /\ next' = [next EXCEPT ![a] = b] /\ linking' = [linking EXCEPT ![p] = Idle]
        /\ UNCHANGED <<value, head, allocated, pushes, chain, tail, consumer, ctail, cprev, taken>>
    BY Zenon DEF Link, consumerVars, Linking
  <1>u. Up' <=> Up
    BY Zenon DEF Link, Up
  <1>t. QueueTypes /\ ShapeInv /\ PlaceInv /\ OwnInv /\ ExcuseInv
    BY DEF MpscInv
  <1>2. linking[p] = [n |-> b, prev |-> a] /\ b \in Nodes /\ a \in Places
    BY <1>1, <1>t DEF QueueTypes
  <1> HIDE DEF a, b
  <1>3. /\ b \in Places /\ b # Stub /\ b # Null
        /\ next'[a] = b /\ \A m \in Places : m # a => next'[m] = next[m]
        /\ linking'[p] = Idle /\ \A q \in Producers : q # p => linking'[q] = linking[q]
    BY <1>1, <1>2, <1>t, NodeNames DEF QueueTypes, Places
  <1>4. QueueTypes'
    BY <1>1, <1>2, <1>3, <1>t DEF QueueTypes
  <1>5. Gap(chain, next, a, b)
    BY <1>1, <1>2, <1>t DEF ShapeInv, Shape, a, b
  <1>6. ShapeInv'
    <2>1. Shape(chain, next', linking', cprev')
      <3>1. Closes(linking, cprev, linking', cprev', a, b)
        BY <1>1, <1>2, <1>3 DEF Closes
      <3>2. chain \in Seq(Places) /\ Shape(chain, next, linking, cprev)
        BY <1>t DEF QueueTypes, ShapeInv
      <3> QED BY <1>2, <1>3, <1>5, <3>1, <3>2, ShapeJoins
    <2> QED BY <1>1, <1>t, <2>1 DEF ShapeInv
  <1>7. PlaceInv'
    <2>1. a = Stub => In(chain, Stub)
      <3>1. PICK i \in 1 .. Len(chain) - 1 : chain[i] = a
        BY <1>5 DEF Gap
      <3>2. i \in 1 .. Len(chain)
        BY <1>t, ChainEnds
      <3> QED BY <3>1, <3>2 DEF In
    <2>2. ~In(chain, Stub) => next'[Stub] = next[Stub]
      BY <1>3, <2>1 DEF Places
    <2> QED BY <1>1, <1>t, <2>2 DEF PlaceInv
  <1>8. InFlight' => InFlight
    BY <1>3 DEF InFlight, Linking
  <1>9. OwnInv'
    BY <1>1, <1>u, <1>8, <1>t DEF OwnInv
  <1>10. ExcuseInv'
    <2>1. Excused' <=> (consumer' # "idle" /\ (Excused \/ MayLookEmpty'))
      BY WitnessIs, Zenon DEF Link
    <2> QED BY <1>1, <1>t, <2>1 DEF ExcuseInv
  <1> QED BY <1>4, <1>6, <1>7, <1>9, <1>10, Zenon DEF MpscInv

\* The consumer goes elsewhere and touches nothing.
LEMMA GoesOn ==
  ASSUME MpscInv, ConsumerFrame, consumer \notin {"own", "link stub"},
         UNCHANGED <<next, head, tail, chain, cprev, taken>>,
         consumer' \in Labels \ {"own", "link stub"},
         ctail' = IF consumer' = "idle" THEN Null ELSE tail,
         consumer' # "idle" => Up,
         PlaceInv', ExcuseInv'
  PROVE  MpscInv'
  <1>t. QueueTypes /\ ShapeInv /\ OwnInv
    BY DEF MpscInv
  <1>f. UNCHANGED <<value, allocated, pushes, linking>> /\ (Up' <=> Up) /\ (InFlight' <=> InFlight)
    BY FrameIs
  <1>1. QueueTypes'
    BY <1>t, <1>f, NodeNames DEF QueueTypes, Places
  <1>2. ShapeInv'
    BY <1>t, <1>f DEF ShapeInv
  <1>3. OwnInv'
    BY <1>t, <1>f DEF OwnInv
  <1> QED BY <1>1, <1>2, <1>3, Zenon DEF MpscInv

\* pop_node detaches the first node of the chain, which is not the stub.
LEMMA Detaches ==
  ASSUME MpscInv, Up, ConsumerFrame, consumer \notin {"own", "link stub"},
         tail # Stub, next[tail] # Null, Detach(tail, next[tail]),
         UNCHANGED <<next, head, cprev>>
  PROVE  MpscInv'
  <1>t. QueueTypes /\ ShapeInv /\ OwnInv
    BY DEF MpscInv
  <1>f. UNCHANGED <<value, allocated, pushes, linking>> /\ (Up' <=> Up) /\ (InFlight' <=> InFlight)
    BY FrameIs
  <1>1. /\ tail' = next[tail] /\ chain' = Tail(chain) /\ ctail' = tail
        /\ taken' = Append(taken, value[tail]) /\ consumer' = "own"
    BY DEF Detach
  <1>2. tail \in allocated /\ tail \in Nodes /\ value[tail] \in Pushed
    <2>1. tail \in Nodes /\ In(chain, tail)
      BY <1>t, ChainEnds DEF QueueTypes, Places
    <2> QED BY <1>t, <2>1 DEF OwnInv
  <1>3. /\ Shape(Tail(chain), next, linking, cprev)
        /\ Tail(chain) \in Seq(Places)
        /\ Tail(chain)[1] = next[tail] /\ Tail(chain)[Len(Tail(chain))] = head
        /\ \A m : In(Tail(chain), m) <=> In(chain, m) /\ m # tail
    BY <1>t, ChainMoves
  <1>5. QueueTypes'
    <2>1. taken' \in Seq(Pushed)
      BY <1>1, <1>2, <1>t, AppendIs DEF QueueTypes
    <2>2. ctail' # Null /\ tail' \in Places
      BY <1>1, <1>2, <1>t, NodeNames DEF QueueTypes, Places
    <2> QED BY <1>1, <1>3, <1>f, <1>t, <2>1, <2>2 DEF QueueTypes, Labels
  <1>6. ShapeInv'
    BY <1>1, <1>3, <1>f, <1>t DEF ShapeInv
  <1>7. \A m : In(chain', m) <=> In(chain, m) /\ m # tail
    BY <1>1, <1>3
  <1>8. PlaceInv'
    BY <1>1, <1>2, <1>7 DEF PlaceInv
  <1>9. OwnInv'
    <2>1. \A n \in Nodes : n \in allocated <=> In(chain, n)
      BY <1>t DEF OwnInv
    <2>2. In(chain, tail)
      BY <1>t, ChainEnds
    <2> QED BY <1>1, <1>7, <1>f, <1>t, <2>1, <2>2 DEF OwnInv
  <1>10. ExcuseInv'
    BY <1>1 DEF ExcuseInv
  <1> QED BY <1>5, <1>6, <1>8, <1>9, <1>10, Zenon DEF MpscInv

LEMMA LoadNextStep ==
  ASSUME MpscInv, LoadNext
  PROVE  MpscInv'
  <1>1. Up /\ consumer = "idle" /\ UNCHANGED <<next, head, cprev>> /\ ConsumerFrame
    BY Zenon DEF LoadNext, Up
  <1>t. QueueTypes /\ ShapeInv /\ OwnInv /\ cprev = Null
    BY <1>1 DEF MpscInv, QueueTypes
  <1>f. UNCHANGED <<value, allocated, pushes, linking>> /\ (Up' <=> Up) /\ (InFlight' <=> InFlight)
    BY <1>1, FrameIs
  <1>w. Excused' <=> (consumer' # "idle" /\ (Excused \/ MayLookEmpty'))
    BY WitnessIs, Zenon DEF LoadNext
  <1>2. CASE tail = Stub /\ next[Stub] = Null
    <2>1. consumer' = "empty" /\ ctail' = tail /\ UNCHANGED <<tail, chain, taken>>
      BY <1>2 DEF LoadNext, Goto
    <2>2. MayLookEmpty'
      BY <1>2, <1>f, <1>t, <2>1, StubAlone DEF MayLookEmpty
    <2>3. PlaceInv' /\ ExcuseInv'
      BY <1>w, <2>1, <2>2 DEF PlaceInv, ExcuseInv
    <2> QED BY <1>1, <2>1, <2>3, GoesOn DEF Labels
  <1>3. CASE tail = Stub /\ next[Stub] # Null
    <2>1. /\ consumer' = "load next" /\ ctail' = next[Stub] /\ tail' = next[Stub]
          /\ chain' = Tail(chain) /\ UNCHANGED taken
      BY <1>3 DEF LoadNext, Goto
    <2>2. /\ Shape(Tail(chain), next, linking, cprev)
          /\ Tail(chain) \in Seq(Places) /\ next[tail] # tail
          /\ Tail(chain)[1] = next[tail] /\ Tail(chain)[Len(Tail(chain))] = head
          /\ \A m : In(Tail(chain), m) <=> In(chain, m) /\ m # tail
      BY <1>3, <1>t, ChainMoves
    <2>3. tail' # Stub
      BY <1>3, <2>1, <2>2
    <2>5. QueueTypes'
      <3>1. ctail' # Null /\ tail' \in Places
        BY <1>3, <1>t, <2>1 DEF QueueTypes
      <3> QED BY <1>1, <1>f, <1>t, <2>1, <2>2, <3>1 DEF QueueTypes, Labels
    <2>6. ShapeInv'
      BY <1>1, <1>3, <1>f, <1>t, <2>1, <2>2 DEF ShapeInv
    <2>7. PlaceInv' /\ ExcuseInv'
      BY <2>1, <2>3 DEF PlaceInv, ExcuseInv
    <2>8. \A m : In(chain', m) <=> In(chain, m) /\ m # Stub
      BY <1>3, <2>1, <2>2
    <2>9. OwnInv'
      BY <1>1, <1>f, <1>t, <2>1, <2>8, NodeNames DEF OwnInv
    <2> QED BY <2>5, <2>6, <2>7, <2>9, Zenon DEF MpscInv
  <1>4. CASE tail # Stub /\ next[tail] = Null
    <2>1. consumer' = "load head" /\ ctail' = tail /\ UNCHANGED <<tail, chain, taken>>
      BY <1>4 DEF LoadNext, Goto
    <2>2. PlaceInv'
      BY <1>4, <2>1 DEF PlaceInv
    <2>3. ExcuseInv'
      <3>1. head = tail \/ InFlight'
        BY <1>4, <1>f, <1>t, NoSuccessor
      <3> QED BY <1>1, <1>w, <2>1, <3>1 DEF ExcuseInv, MayLookEmpty
    <2> QED BY <1>1, <2>1, <2>2, <2>3, GoesOn DEF Labels
  <1>5. CASE tail # Stub /\ next[tail] # Null
    <2>1. Detach(tail, next[tail])
      BY <1>5, Zenon DEF LoadNext
    <2> QED BY <1>1, <1>5, <2>1, Detaches
  <1> QED BY <1>2, <1>3, <1>4, <1>5

LEMMA LoadNextOfNextStep ==
  ASSUME MpscInv, LoadNextOfNext
  PROVE  MpscInv'
  <1>1. consumer = "load next" /\ UNCHANGED <<next, head, cprev>> /\ ConsumerFrame
    BY Zenon DEF LoadNextOfNext
  <1>t. QueueTypes /\ ShapeInv /\ OwnInv /\ Up /\ cprev = Null /\ ctail = tail /\ tail # Stub
    BY <1>1, BusyIsUp DEF MpscInv, QueueTypes, PlaceInv
  <1>f. InFlight' <=> InFlight
    BY <1>1, FrameIs
  <1>w. Excused' <=> (consumer' # "idle" /\ (Excused \/ MayLookEmpty'))
    BY WitnessIs, Zenon DEF LoadNextOfNext
  <1>2. CASE next[ctail] = Null
    <2>1. consumer' = "load head" /\ ctail' = tail /\ UNCHANGED <<tail, chain, taken>>
      BY <1>2, <1>t DEF LoadNextOfNext, Goto
    <2>2. PlaceInv'
      BY <1>t, <2>1 DEF PlaceInv
    <2>3. ExcuseInv'
      <3>1. head = tail \/ InFlight'
        BY <1>2, <1>f, <1>t, NoSuccessor
      <3> QED BY <1>1, <1>w, <2>1, <3>1 DEF ExcuseInv, MayLookEmpty
    <2> QED BY <1>1, <1>t, <2>1, <2>2, <2>3, GoesOn DEF Labels
  <1>3. CASE next[ctail] # Null
    <2>1. Detach(tail, next[tail])
      BY <1>3, <1>t DEF LoadNextOfNext
    <2> QED BY <1>1, <1>3, <1>t, <2>1, Detaches
  <1> QED BY <1>2, <1>3

LEMMA LoadHeadStep ==
  ASSUME MpscInv, LoadHead
  PROVE  MpscInv'
  <1>1. /\ consumer = "load head" /\ consumer' = IF ctail # head THEN "empty" ELSE "reset stub"
        /\ ctail' = ctail /\ UNCHANGED <<next, head, tail, chain, cprev, taken>>
        /\ ConsumerFrame
    BY DEF LoadHead, Goto
  <1>t. QueueTypes /\ ShapeInv /\ ExcuseInv /\ Up /\ ctail = tail /\ tail # Stub
    BY <1>1, BusyIsUp DEF MpscInv, PlaceInv
  <1>w. Excused' <=> (consumer' # "idle" /\ (Excused \/ MayLookEmpty'))
    BY WitnessIs, Zenon DEF LoadHead
  <1>2. PlaceInv'
    <2>1. ASSUME ctail = head PROVE ~In(chain, Stub)
      <3>1. chain[1] = chain[Len(chain)] /\ chain[1] # Stub
        BY <1>t, <2>1 DEF ShapeInv
      <3>2. Len(chain) = 1
        <4>1. Len(chain) \in Nat /\ Len(chain) >= 1
          BY <1>t, ChainEnds
        <4>2. 1 \in 1 .. Len(chain) /\ Len(chain) \in 1 .. Len(chain)
          BY <4>1
        <4> QED BY <1>t, <3>1, <4>2, ChainEnds
      <3> QED BY <3>1, <3>2 DEF In
    <2> QED BY <1>1, <1>t, <2>1 DEF PlaceInv
  <1>3. ExcuseInv'
    BY <1>1, <1>t, <1>w DEF ExcuseInv
  <1> QED BY <1>1, <1>t, <1>2, <1>3, GoesOn DEF Labels

LEMMA ResetStubStep ==
  ASSUME MpscInv, ResetStub
  PROVE  MpscInv'
  <1>1. /\ consumer = "reset stub" /\ consumer' = "exchange stub" /\ ctail' = ctail
        /\ next' = [next EXCEPT ![Stub] = Null]
        /\ UNCHANGED <<head, tail, chain, cprev, taken>> /\ ConsumerFrame
    BY Zenon DEF ResetStub, Goto
  <1>t. QueueTypes /\ ShapeInv /\ OwnInv /\ Up
        /\ ctail = tail /\ tail # Stub /\ ~In(chain, Stub)
    BY <1>1, BusyIsUp DEF MpscInv, PlaceInv
  <1>f. UNCHANGED <<value, allocated, pushes, linking>> /\ (Up' <=> Up)
    BY <1>1, FrameIs
  <1>2. next'[Stub] = Null /\ \A m \in Places : m # Stub => next'[m] = next[m]
    BY <1>1, <1>t DEF QueueTypes, Places
  <1>3. QueueTypes'
    BY <1>1, <1>f, <1>t DEF QueueTypes, Labels
  <1>4. ShapeInv'
    <2>1. \A m \in Places : In(chain, m) => next'[m] = next[m]
      BY <1>2, <1>t
    <2>2. chain \in Seq(Places) /\ Shape(chain, next, linking, cprev)
      BY <1>t DEF QueueTypes, ShapeInv
    <2>3. Shape(chain, next', linking, cprev)
      BY <2>1, <2>2, ShapeIgnores
    <2> QED BY <1>1, <1>f, <1>t, <2>3 DEF ShapeInv
  <1>5. PlaceInv' /\ ExcuseInv'
    BY <1>1, <1>2, <1>t DEF PlaceInv, ExcuseInv
  <1>6. OwnInv'
    BY <1>1, <1>f, <1>t DEF OwnInv
  <1> QED BY <1>3, <1>4, <1>5, <1>6, Zenon DEF MpscInv

LEMMA ExchangeStubStep ==
  ASSUME MpscInv, ExchangeStub
  PROVE  MpscInv'
  <1>1. /\ consumer = "exchange stub" /\ consumer' = "link stub" /\ ctail' = ctail
        /\ cprev' = head /\ head' = Stub /\ chain' = Append(chain, Stub)
        /\ UNCHANGED <<next, tail, taken>> /\ ConsumerFrame
    BY Zenon DEF ExchangeStub, Goto
  <1>t. QueueTypes /\ ShapeInv /\ OwnInv /\ Up /\ cprev = Null
        /\ ctail = tail /\ tail # Stub /\ ~In(chain, Stub) /\ next[Stub] = Null
    BY <1>1, BusyIsUp DEF MpscInv, PlaceInv, QueueTypes
  <1>f. UNCHANGED <<value, allocated, pushes, linking>> /\ (Up' <=> Up)
    BY <1>1, FrameIs
  <1>2. Stub \in Places /\ chain \in Seq(Places) /\ Shape(chain, next, linking, cprev)
    BY <1>t DEF QueueTypes, ShapeInv, Places
  <1>3. QueueTypes'
    <2>1. chain' \in Seq(Places)
      BY <1>1, <1>2, AppendIs
    <2>2. cprev' # Null /\ cprev' \in Places
      BY <1>1, <1>t, NodeNames DEF QueueTypes, Places
    <2> QED BY <1>1, <1>2, <1>f, <1>t, <2>1, <2>2 DEF QueueTypes, Labels
  <1>4. ShapeInv'
    <2>1. Shape(Append(chain, Stub), next', linking', cprev')
      <3>1. linking' = linking /\ cprev' = chain[Len(chain)]
        BY <1>1, <1>f, <1>t DEF ShapeInv
      <3> QED BY <1>1, <1>2, <1>t, <3>1, ShapeExtends
    <2>2. chain'[1] = chain[1] /\ chain'[Len(chain')] = Stub
      <3>1. 1 \in 1 .. Len(chain)
        <4>1. Len(chain) \in Nat /\ Len(chain) >= 1
          BY <1>t, ChainEnds
        <4> QED BY <4>1
      <3>2. /\ Len(Append(chain, Stub)) = Len(chain) + 1
            /\ Append(chain, Stub)[Len(chain) + 1] = Stub
            /\ \A i \in 1 .. Len(chain) : Append(chain, Stub)[i] = chain[i]
        BY <1>2, AppendIs
      <3> QED BY <1>1, <3>1, <3>2
    <2> QED BY <1>1, <1>t, <2>1, <2>2 DEF ShapeInv
  <1>5. \A m : In(chain', m) <=> In(chain, m) \/ m = Stub
    BY <1>1, <1>2, InAppend
  <1>6. PlaceInv' /\ ExcuseInv'
    BY <1>1, <1>5, <1>t DEF PlaceInv, ExcuseInv
  <1>7. OwnInv'
    BY <1>1, <1>5, <1>f, <1>t, NodeNames DEF OwnInv
  <1> QED BY <1>3, <1>4, <1>6, <1>7, Zenon DEF MpscInv

LEMMA LinkStubStep ==
  ASSUME MpscInv, LinkStub
  PROVE  MpscInv'
  <1>1. /\ consumer = "link stub" /\ consumer' = "reload next" /\ ctail' = ctail
        /\ next' = [next EXCEPT ![cprev] = Stub] /\ cprev' = Null
        /\ UNCHANGED <<head, tail, chain, taken>> /\ ConsumerFrame
    BY Zenon DEF LinkStub, Goto
  <1>t. QueueTypes /\ ShapeInv /\ OwnInv /\ Up /\ cprev # Null /\ cprev \in Places
        /\ ctail = tail /\ tail # Stub /\ In(chain, Stub)
    BY <1>1, BusyIsUp DEF MpscInv, PlaceInv, QueueTypes
  <1>f. UNCHANGED <<value, allocated, pushes, linking>> /\ (Up' <=> Up)
    BY <1>1, FrameIs
  <1>2. next'[cprev] = Stub /\ \A m \in Places : m # cprev => next'[m] = next[m]
    BY <1>1, <1>t DEF QueueTypes
  <1>3. QueueTypes'
    BY <1>1, <1>f, <1>t DEF QueueTypes, Labels, Places
  <1>4. ShapeInv'
    <2>1. Stub \in Places /\ chain \in Seq(Places) /\ Shape(chain, next, linking, cprev)
      BY <1>t DEF QueueTypes, ShapeInv, Places
    <2>2. Gap(chain, next, cprev, Stub)
      BY <1>t, <2>1 DEF Shape
    <2>3. \A q \in Producers : linking[q] # Idle => linking[q].n # Stub
      BY <1>t, NodeNames DEF QueueTypes
    <2>4. Shape(chain, next', linking', cprev')
      <3>1. /\ linking' = linking /\ cprev' = Null
            /\ next'[cprev] = Stub /\ \A m \in Places : m # cprev => next'[m] = next[m]
        BY <1>1, <1>2, <1>f
      <3> QED BY <1>t, <2>1, <2>2, <2>3, <3>1, StubJoins
    <2> QED BY <1>1, <1>t, <2>4 DEF ShapeInv
  <1>5. PlaceInv' /\ ExcuseInv'
    BY <1>1, <1>t DEF PlaceInv, ExcuseInv
  <1>6. OwnInv'
    BY <1>1, <1>f, <1>t DEF OwnInv
  <1> QED BY <1>3, <1>4, <1>5, <1>6, Zenon DEF MpscInv

LEMMA ReloadNextStep ==
  ASSUME MpscInv, ReloadNext
  PROVE  MpscInv'
  <1>1. consumer = "reload next" /\ UNCHANGED <<next, head, cprev>> /\ ConsumerFrame
    BY Zenon DEF ReloadNext
  <1>t. QueueTypes /\ ShapeInv /\ OwnInv /\ Up /\ cprev = Null
        /\ ctail = tail /\ tail # Stub /\ In(chain, Stub)
    BY <1>1, BusyIsUp DEF MpscInv, QueueTypes, PlaceInv
  <1>f. InFlight' <=> InFlight
    BY <1>1, FrameIs
  <1>w. Excused' <=> (consumer' # "idle" /\ (Excused \/ MayLookEmpty'))
    BY WitnessIs, Zenon DEF ReloadNext
  <1>2. CASE next[ctail] = Null
    <2>1. consumer' = "empty" /\ ctail' = tail /\ UNCHANGED <<tail, chain, taken>>
      BY <1>2, <1>t DEF ReloadNext, Goto
    <2>2. InFlight'
      <3>1. Len(chain) # 1
        BY <1>t DEF In, ShapeInv
      <3> QED BY <1>2, <1>f, <1>t, <3>1, NoSuccessor
    <2>3. PlaceInv' /\ ExcuseInv'
      BY <1>w, <2>1, <2>2 DEF PlaceInv, ExcuseInv, MayLookEmpty
    <2> QED BY <1>1, <1>t, <2>1, <2>3, GoesOn DEF Labels
  <1>3. CASE next[ctail] # Null
    <2>1. Detach(tail, next[tail])
      BY <1>3, <1>t DEF ReloadNext
    <2> QED BY <1>1, <1>3, <1>t, <2>1, Detaches
  <1> QED BY <1>2, <1>3

LEMMA DeleteNodeStep ==
  ASSUME MpscInv, DeleteNode
  PROVE  MpscInv'
  <1>1. /\ consumer = "own" /\ consumer' = "idle" /\ ctail' = Null
        /\ allocated' = allocated \ {ctail}
        /\ UNCHANGED <<next, value, head, tail, chain, cprev, taken, pushes, linking>>
    BY Zenon DEF DeleteNode, Goto, producerVars
  <1>u. Up' <=> Up
    BY Zenon DEF DeleteNode, Up
  <1>t. QueueTypes /\ ShapeInv /\ OwnInv /\ Up /\ ~In(chain, ctail)
    BY <1>1, BusyIsUp DEF MpscInv, PlaceInv
  <1>2. QueueTypes'
    BY <1>1, <1>t DEF QueueTypes, Labels
  <1>3. ShapeInv'
    BY <1>1, <1>t DEF ShapeInv
  <1>4. PlaceInv' /\ ExcuseInv'
    BY <1>1 DEF PlaceInv, ExcuseInv
  <1>5. OwnInv'
    BY <1>1, <1>u, <1>t DEF OwnInv
  <1> QED BY <1>2, <1>3, <1>4, <1>5, Zenon DEF MpscInv

LEMMA ReturnEmptyStep ==
  ASSUME MpscInv, ReturnEmpty
  PROVE  MpscInv'
  <1>1. /\ consumer = "empty" /\ consumer' = "idle" /\ ctail' = Null
        /\ UNCHANGED <<next, head, tail, chain, cprev, taken>> /\ ConsumerFrame
    BY Zenon DEF ReturnEmpty, Goto
  <1>2. PlaceInv' /\ ExcuseInv'
    BY <1>1 DEF PlaceInv, ExcuseInv
  <1> QED BY <1>1, <1>2, GoesOn DEF Labels

\* With no push in flight, the destructor's loop meets every node.
LEMMA VisitsAll ==
  ASSUME QueueTypes, ShapeInv, ~InFlight, cprev = Null, NEW i \in 1 .. Len(chain)
  PROVE  chain[i] \in Visited
  <1>1. Len(chain) \in Nat /\ \A k \in 1 .. Len(chain) : chain[k] \in Places
    BY ChainEnds
  <1> SUFFICES ASSUME NEW S \in SUBSET (Nodes \cup {Stub, Null}), tail \in S,
                      \A m \in S \ {Null} : next[m] \in S
               PROVE  chain[i] \in S
    BY <1>1 DEF Visited, Places
  <1> DEFINE Missed == {k \in 1 .. Len(chain) : chain[k] \notin S}
  <1> SUFFICES ASSUME Missed # {} PROVE FALSE
    OBVIOUS
  <1>2. PICK k \in Missed : \A j \in Missed : k <= j
    <2>1. Missed \subseteq Nat
      BY <1>1
    <2> HIDE DEF Missed
    <2> QED BY <2>1, LeastNatural
  <1>3. k \in 1 .. Len(chain) /\ chain[k] \notin S /\ k # 1
    BY <1>2 DEF ShapeInv
  <1>4. k - 1 \in 1 .. Len(chain) - 1 /\ k - 1 \in 1 .. Len(chain) /\ k - 1 + 1 = k
    BY <1>1, <1>3
  <1>5. chain[k - 1] \in S
    BY <1>1, <1>2, <1>3, <1>4
  <1>6. chain[k - 1] \in Places /\ chain[k - 1] # Null
    BY <1>1, <1>4, NodeNames DEF Places
  <1>7. ~Pending(linking, cprev, chain[k - 1], chain[k])
    <2>1. ASSUME NEW p \in Producers, linking[p] = [n |-> chain[k], prev |-> chain[k - 1]]
          PROVE  FALSE
      <3>1. linking[p] # Idle
        BY <1>6, <2>1 DEF Idle
      <3> QED BY <3>1 DEF InFlight, Linking
    <2> QED BY <1>6, <2>1 DEF Pending
  <1>8. next[chain[k - 1]] = chain[k]
    BY <1>4, <1>7 DEF ShapeInv, Shape
  <1> QED BY <1>3, <1>5, <1>6, <1>8

LEMMA DestroyStep ==
  ASSUME MpscInv, Destroy
  PROVE  MpscInv'
  <1>1. /\ Up /\ consumer = "idle" /\ ~InFlight /\ ~Up'
        /\ allocated' = allocated \ (Visited \ {Stub})
        /\ UNCHANGED <<next, value, head, chain, pushes, linking,
                       tail, consumer, ctail, cprev, taken>>
    BY Zenon DEF Destroy, Quiescent, Up, producerVars, consumerVars
  <1>t. QueueTypes /\ ShapeInv /\ OwnInv /\ cprev = Null
    BY <1>1 DEF MpscInv, QueueTypes
  <1>2. allocated' = {}
    <2> SUFFICES ASSUME NEW n \in allocated PROVE n \in Visited \ {Stub}
      BY <1>1
    <2>1. n \in Nodes /\ n # Stub
      BY <1>t, NodeNames DEF QueueTypes
    <2>2. In(chain, n)
      BY <1>1, <1>t, <2>1 DEF OwnInv
    <2>3. PICK i \in 1 .. Len(chain) : chain[i] = n
      BY <2>2 DEF In
    <2> QED BY <1>1, <1>t, <2>1, <2>3, VisitsAll
  <1>3. QueueTypes'
    BY <1>1, <1>2, <1>t DEF QueueTypes
  <1>4. ShapeInv'
    BY <1>1, <1>t DEF ShapeInv
  <1>5. PlaceInv' /\ ExcuseInv'
    BY <1>1 DEF PlaceInv, ExcuseInv
  <1>6. ~InFlight'
    BY <1>1 DEF InFlight, Linking
  <1>7. OwnInv'
    BY <1>1, <1>2, <1>6 DEF OwnInv
  <1> QED BY <1>3, <1>4, <1>5, <1>7, Zenon DEF MpscInv

LEMMA MpscInvInit == MpscInit => MpscInv
  <1> SUFFICES ASSUME MpscInit PROVE MpscInv
    OBVIOUS
  <1>1. /\ next = [n \in Nodes \cup {Stub} |-> Null]
        /\ value = [n \in Nodes |-> NoValue]
        /\ head = Stub /\ tail = Stub /\ allocated = {}
        /\ pushes = [p \in Producers |-> 0] /\ linking = [p \in Producers |-> Idle]
        /\ consumer = "idle" /\ ctail = Null /\ cprev = Null
        /\ chain = <<Stub>> /\ taken = <<>> /\ Up
    BY Zenon DEF MpscInit, Up
  <1>2. Stub \in Places /\ Len(chain) = 1 /\ chain[1] = Stub
    BY <1>1 DEF Places
  <1>3. chain \in Seq(Places)
    BY <1>1, <1>2
  <1>4. QueueTypes
    BY <1>1, <1>2, <1>3, MpscAssumption DEF QueueTypes, Places, Labels
  <1>5. Shape(chain, next, linking, cprev)
    <2>1. chain # <<>>
      BY <1>2
    <2>2. next[chain[Len(chain)]] = Null /\ \A p \in Producers : linking[p] = Idle
      BY <1>1, <1>2 DEF Places
    <2>3. \A i, j \in 1 .. Len(chain) : chain[i] = chain[j] => i = j
      BY <1>2
    <2> QED BY <1>1, <1>2, <2>1, <2>2, <2>3 DEF Shape
  <1>6. ShapeInv
    BY <1>1, <1>2, <1>5 DEF ShapeInv
  <1>7. PlaceInv /\ ExcuseInv
    BY <1>1 DEF PlaceInv, ExcuseInv
  <1>8. OwnInv
    <2>1. \A n \in Nodes : ~In(chain, n)
      BY <1>2, NodeNames DEF In
    <2> QED BY <1>1, <2>1 DEF OwnInv
  <1> QED BY <1>4, <1>6, <1>7, <1>8, Zenon DEF MpscInv

LEMMA MpscInvStep == MpscInv /\ [MpscNext]_mpscVars => MpscInv'
  <1> SUFFICES ASSUME MpscInv, [MpscNext]_mpscVars PROVE MpscInv'
    OBVIOUS
  <1>1. ASSUME NEW p \in Producers, Exchange(p) PROVE MpscInv'
    BY <1>1, ExchangeStep
  <1>2. ASSUME NEW p \in Producers, Link(p) PROVE MpscInv'
    BY <1>2, LinkStep
  <1>3. CASE LoadNext
    BY <1>3, LoadNextStep
  <1>4. CASE LoadNextOfNext
    BY <1>4, LoadNextOfNextStep
  <1>5. CASE LoadHead
    BY <1>5, LoadHeadStep
  <1>6. CASE ResetStub
    BY <1>6, ResetStubStep
  <1>7. CASE ExchangeStub
    BY <1>7, ExchangeStubStep
  <1>8. CASE LinkStub
    BY <1>8, LinkStubStep
  <1>9. CASE ReloadNext
    BY <1>9, ReloadNextStep
  <1>10. CASE DeleteNode
    BY <1>10, DeleteNodeStep
  <1>11. CASE ReturnEmpty
    BY <1>11, ReturnEmptyStep
  <1>12. CASE Destroy
    BY <1>12, DestroyStep
  <1>13. CASE UNCHANGED mpscVars
    <2>1. /\ UNCHANGED <<next, value, head, tail, allocated, pushes, linking, consumer,
                         ctail, cprev, chain, taken>>
          /\ UNCHANGED <<Up, Excused>>
      BY <1>13, Zenon DEF mpscVars, producerVars, consumerVars, Up, Excused
    <2>2. QueueTypes'
      BY <2>1 DEF MpscInv, QueueTypes
    <2>3. ShapeInv' /\ PlaceInv' /\ ExcuseInv'
      BY <2>1 DEF MpscInv, ShapeInv, PlaceInv, ExcuseInv
    <2>4. OwnInv'
      BY <2>1 DEF MpscInv, OwnInv, InFlight, Linking
    <2> QED BY <2>2, <2>3, <2>4, Zenon DEF MpscInv
  <1> QED BY <1>1, <1>2, <1>3, <1>4, <1>5, <1>6, <1>7, <1>8, <1>9, <1>10, <1>11, <1>12,
             <1>13, Zenon DEF MpscNext, ConsumerStep

LEMMA MpscInvAlways == MpscSpec => []MpscInv
  BY MpscInvInit, MpscInvStep, PTL DEF MpscSpec

FlagTypes == alive \in BOOLEAN /\ excuse \in BOOLEAN

LEMMA FlagTypesAlways == MpscSpec => []FlagTypes
  <1>1. MpscInit => FlagTypes
    BY Zenon DEF MpscInit, FlagTypes
  <1>2. FlagTypes /\ [MpscNext]_mpscVars => FlagTypes'
    <2> SUFFICES ASSUME FlagTypes, [MpscNext]_mpscVars PROVE FlagTypes'
      OBVIOUS
    <2>1. alive' \in {alive, FALSE} /\ (Witnessed \/ excuse' = excuse)
      BY Zenon
      DEF MpscNext, mpscVars, Exchange, Link, ConsumerStep, LoadNext, LoadNextOfNext, LoadHead,
          ResetStub, ExchangeStub, LinkStub, ReloadNext, DeleteNode, ReturnEmpty, Destroy,
          ConsumerFrame
    <2>2. excuse' \in BOOLEAN
      BY <2>1, Zenon DEF FlagTypes, Witnessed
    <2> QED BY <2>1, <2>2, Zenon DEF FlagTypes
  <1> QED BY <1>1, <1>2, PTL DEF MpscSpec

(* Every variable keeps to its type; inside push_node a producer holds a     *)
(* node and the one before it, and the consumer holds a node exactly while   *)
(* pop_node works on one.                                                    *)
THEOREM QueueTypeCorrect == MpscSpec => []MpscTypeOK
  <1>1. MpscInv /\ FlagTypes => MpscTypeOK
    BY Zenon DEF MpscInv, QueueTypes, FlagTypes, MpscTypeOK, Labels, Places
  <1> QED BY <1>1, MpscInvAlways, FlagTypesAlways, PTL

-----------------------------------------------------------------------------
(* The chain and the nodes.                                                *)

\* The node before a gap is in the chain.
LEMMA GapIn ==
  ASSUME NEW c \in Seq(Places), NEW nx, NEW a, NEW b, Gap(c, nx, a, b)
  PROVE  In(c, a)
  <1>1. PICK i \in 1 .. Len(c) - 1 : c[i] = a
    BY DEF Gap
  <1>2. i \in 1 .. Len(c)
    BY LenProperties
  <1> QED BY <1>1, <1>2 DEF In

\* As many nodes as positions.
LEMMA Distinct ==
  ASSUME QueueTypes, ShapeInv
  PROVE  Cardinality(ToSet(chain)) = Len(chain)
  <1>1. /\ Len(chain) \in Nat
        /\ \A i, j \in 1 .. Len(chain) : chain[i] = chain[j] => i = j
    BY ChainEnds
  <1>2. DOMAIN chain = 1 .. Len(chain) /\ chain = [i \in 1 .. Len(chain) |-> chain[i]]
    BY LenProperties DEF QueueTypes
  <1>3. chain \in Bijection(1 .. Len(chain), ToSet(chain))
    BY <1>1, <1>2 DEF Bijection, Injection, Surjection, IsInjective, ToSet
  <1>4. ExistsBijection(1 .. Len(chain), ToSet(chain))
    BY <1>3 DEF ExistsBijection
  <1> QED BY <1>1, <1>4, FS_CountingElements

(* The chain is in one piece but for the links that are about to be stored,  *)
(* each by exactly one thread, for any number of producers and nodes.        *)
THEOREM ChainHolds == MpscSpec => []ChainLinked
  <1>1. MpscInv => ChainLinked
    <2> SUFFICES ASSUME QueueTypes, ShapeInv PROVE ChainLinked
      BY DEF MpscInv
    <2>1. /\ chain # <<>> /\ Head(chain) = tail /\ Last(chain) = head
          /\ next[head] = Null
      <3>1. chain \in Seq(Places) /\ chain # <<>> /\ next[head] = Null
        BY ChainEnds DEF QueueTypes
      <3>2. Head(chain) = chain[1]
        BY <3>1
      <3> QED BY <3>1, <3>2 DEF ShapeInv, Last
    <2>2. ASSUME NEW i \in 1 .. Len(chain) - 1
          PROVE  LET links == {p \in Producers :
                                 linking[p] = [n |-> chain[i + 1], prev |-> chain[i]]}
                     stubs == {s \in {Stub} : s = chain[i + 1] /\ cprev = chain[i]}
                 IN  IF next[chain[i]] = Null
                     THEN Cardinality(links \cup stubs) = 1
                     ELSE next[chain[i]] = chain[i + 1] /\ links \cup stubs = {}
      <3> DEFINE links == {p \in Producers :
                              linking[p] = [n |-> chain[i + 1], prev |-> chain[i]]}
                 stubs == {s \in {Stub} : s = chain[i + 1] /\ cprev = chain[i]}
      <3>1. /\ i \in 1 .. Len(chain) /\ i + 1 \in 1 .. Len(chain)
            /\ chain[i] \in Places /\ chain[i + 1] \in Places
        <4>1. i \in 1 .. Len(chain) /\ i + 1 \in 1 .. Len(chain)
          BY ChainEnds
        <4> QED BY <4>1, ChainEnds
      <3>2. chain[i] # Null /\ chain[i + 1] # Null
        BY <3>1, NodeNames DEF Places
      <3>3. \A p \in links : /\ linking[p] # Idle /\ linking[p].prev = chain[i]
                             /\ chain[i + 1] \in Nodes
        <4> SUFFICES ASSUME NEW p \in links
                     PROVE  /\ linking[p] # Idle /\ linking[p].prev = chain[i]
                            /\ chain[i + 1] \in Nodes
          OBVIOUS
        <4>1. linking[p] = [n |-> chain[i + 1], prev |-> chain[i]] /\ p \in Producers
          OBVIOUS
        <4>2. linking[p] # Idle
          BY <3>2, <4>1 DEF Idle
        <4>3. linking[p] \in [n : Nodes, prev : Places]
          BY <4>1, <4>2 DEF QueueTypes
        <4> QED BY <4>1, <4>2, <4>3
      <3>4. \A p, q \in links : p = q
        BY <3>3 DEF ShapeInv, Shape
      <3>5. stubs = {} \/ (stubs = {Stub} /\ links = {})
        BY <3>3, NodeNames
      <3>6. CASE next[chain[i]] = Null
        <4>1. Pending(linking, cprev, chain[i], chain[i + 1])
          BY <3>1, <3>2, <3>6 DEF ShapeInv, Shape
        <4>2. \E x : links \cup stubs = {x}
          <5>1. CASE stubs = {Stub}
            BY <3>5, <5>1
          <5>2. CASE stubs = {}
            <6>1. \E p \in Producers : p \in links
              BY <4>1, <5>2 DEF Pending
            <6> QED BY <3>4, <5>2, <6>1
          <5> QED BY <3>5, <5>1, <5>2
        <4> HIDE DEF links, stubs
        <4>3. Cardinality(links \cup stubs) = 1
          BY <4>2, FS_Singleton
        <4> QED BY <3>6, <4>3 DEF links, stubs
      <3>7. CASE next[chain[i]] # Null
        <4>1. next[chain[i]] = chain[i + 1]
          BY <3>7 DEF ShapeInv, Shape
        <4>2. links = {}
          BY <3>3, <3>7 DEF ShapeInv, Shape, Gap
        <4>3. stubs = {}
          BY <3>2, <3>7 DEF ShapeInv, Shape, Gap
        <4> HIDE DEF links, stubs
        <4> QED BY <3>7, <4>1, <4>2, <4>3 DEF links, stubs
      <3> QED BY <3>6, <3>7
    <2> QED BY <2>1, <2>2, Distinct DEF ChainLinked
  <1> QED BY <1>1, MpscInvAlways, PTL

(* No thread follows a pointer to a node that was deleted, and the           *)
(* destructor leaves none behind: for any number of producers and nodes.     *)
THEOREM NodesOutliveTheirUse == MpscSpec => []NodeLifetime
  <1>1. MpscInv => NodeLifetime
    <2> SUFFICES ASSUME MpscInv PROVE NodeLifetime
      OBVIOUS
    <2>t. QueueTypes /\ ShapeInv /\ PlaceInv /\ OwnInv
      BY DEF MpscInv
    <2>1. ASSUME Up, NEW n \in Places, In(chain, n) PROVE n \in Live
      BY <2>1, <2>t DEF OwnInv, Live, Places
    <2>2. ASSUME NEW p \in Producers, Linking(p) PROVE linking[p].prev \in Live
      <3>1. Up /\ linking[p] # Idle
        BY <2>2, <2>t DEF OwnInv, InFlight, Linking
      <3>2. linking[p].prev \in Places /\ chain \in Seq(Places)
        BY <2>t, <3>1 DEF QueueTypes
      <3>3. Gap(chain, next, linking[p].prev, linking[p].n)
        BY <2>t, <3>1 DEF ShapeInv, Shape
      <3> QED BY <2>1, <3>1, <3>2, <3>3, GapIn
    <2>3. ASSUME consumer # "idle" PROVE Up /\ ctail \in Live
      <3>1. Up
        BY <2>3, <2>t, BusyIsUp
      <3>2. CASE consumer = "own"
        BY <2>t, <3>1, <3>2 DEF OwnInv, PlaceInv, Live
      <3>3. CASE consumer # "own"
        <4>1. ctail = tail
          BY <2>3, <2>t, <3>3 DEF PlaceInv, QueueTypes, Labels
        <4> QED BY <2>1, <2>t, <3>1, <4>1, ChainEnds DEF QueueTypes
      <3> QED BY <3>1, <3>2, <3>3
    <2>4. ASSUME consumer = "link stub" PROVE cprev \in Live
      <3>1. cprev \in Places /\ cprev # Null /\ chain \in Seq(Places)
        BY <2>4, <2>t DEF QueueTypes
      <3>2. Gap(chain, next, cprev, Stub)
        BY <2>t, <3>1 DEF ShapeInv, Shape
      <3> QED BY <2>1, <2>3, <2>4, <3>1, <3>2, GapIn
    <2>5. ASSUME Up PROVE ToSet(chain) \subseteq Live
      <3>1. DOMAIN chain = 1 .. Len(chain) /\ \A i \in 1 .. Len(chain) : chain[i] \in Places
        BY <2>t, ChainEnds, LenProperties DEF QueueTypes
      <3> QED BY <2>1, <2>5, <3>1 DEF ToSet, In
    <2>6. ~Up => allocated = {}
      BY <2>t DEF OwnInv
    <2> QED BY <2>2, <2>3, <2>4, <2>5, <2>6, Zenon DEF NodeLifetime, Up
  <1> QED BY <1>1, MpscInvAlways, PTL

-----------------------------------------------------------------------------
(* The chain without its stub.                                             *)

\* What holds of two sequences one after the other.
LEMMA Joined ==
  ASSUME NEW S, NEW a \in Seq(S), NEW b \in Seq(S)
  PROVE  /\ a \o b \in Seq(S) /\ Len(a \o b) = Len(a) + Len(b)
         /\ \A i \in 1 .. Len(a) + Len(b) :
               (a \o b)[i] = IF i <= Len(a) THEN a[i] ELSE b[i - Len(a)]
  BY ConcatProperties

\* Where the members of a chain stand once the stub at k is left out.
LEMMA StubRemoved ==
  ASSUME NEW c \in Seq(Places), NEW k \in 1 .. Len(c), c[k] = Stub,
         \A i, j \in 1 .. Len(c) : c[i] = c[j] => i = j
  PROVE  /\ RemoveFirst(c, Stub) \in Seq(Places)
         /\ Len(RemoveFirst(c, Stub)) = Len(c) - 1
         /\ \A i \in 1 .. Len(c) - 1 :
               RemoveFirst(c, Stub)[i] = IF i < k THEN c[i] ELSE c[i + 1]
  <1>1. {i \in 1 .. Len(c) : c[i] = Stub} = {k}
    OBVIOUS
  <1>2. k = CHOOSE x \in {k} : \A y \in {k} : x =< y
    BY LenProperties
  <1>3. SelectInSeq(c, LAMBDA v : v = Stub) = k
    BY <1>1, <1>2 DEF SelectInSeq, Min
  <1>4. RemoveFirst(c, Stub) = RemoveAt(c, k)
    BY <1>3, Zenon DEF RemoveFirst
  <1>5. Len(c) \in Nat /\ k \in Nat /\ k - 1 \in Nat
    BY LenProperties
  <1>6. /\ SubSeq(c, 1, k - 1) \in Seq(Places) /\ Len(SubSeq(c, 1, k - 1)) = k - 1
        /\ \A i \in 1 .. k - 1 : SubSeq(c, 1, k - 1)[i] = c[i]
    BY <1>5
  <1>7. /\ SubSeq(c, k + 1, Len(c)) \in Seq(Places) /\ Len(SubSeq(c, k + 1, Len(c))) = Len(c) - k
        /\ \A i \in 1 .. Len(c) - k : SubSeq(c, k + 1, Len(c))[i] = c[k + i]
    BY <1>5
  <1> DEFINE a == SubSeq(c, 1, k - 1)
             b == SubSeq(c, k + 1, Len(c))
  <1>8. RemoveFirst(c, Stub) = a \o b
    BY <1>4 DEF RemoveAt
  <1>9. /\ a \in Seq(Places) /\ b \in Seq(Places) /\ Len(a) = k - 1 /\ Len(b) = Len(c) - k
        /\ \A i \in 1 .. k - 1 : a[i] = c[i]
        /\ \A i \in 1 .. Len(c) - k : b[i] = c[k + i]
    BY <1>6, <1>7
  <1> HIDE DEF a, b
  <1>10. /\ a \o b \in Seq(Places) /\ Len(a \o b) = Len(a) + Len(b)
         /\ \A i \in 1 .. Len(a) + Len(b) :
               (a \o b)[i] = IF i <= Len(a) THEN a[i] ELSE b[i - Len(a)]
    <2>1. a \in Seq(Places) /\ b \in Seq(Places)
      BY <1>9
    <2>2. a \o b \in Seq(Places) 
      BY <2>1, Joined
    <2>3.  Len(a \o b) = Len(a) + Len(b)
      BY <2>1, Joined
    <2>4.  \A i \in 1 .. Len(a) + Len(b) :
               (a \o b)[i] = IF i <= Len(a) THEN a[i] ELSE b[i - Len(a)]
      BY <2>1, Joined
    <2> QED BY <2>2, <2>3, <2>4
  <1>11. Len(a) + Len(b) = Len(c) - 1
    BY <1>5, <1>9
  <1>12. ASSUME NEW i \in 1 .. Len(c) - 1
         PROVE  (a \o b)[i] = IF i < k THEN c[i] ELSE c[i + 1]
    <2>1. CASE i < k
      <3>1. i \in 1 .. k - 1 /\ i <= Len(a) /\ i \in 1 .. Len(a) + Len(b)
        BY <1>5, <1>9, <2>1
      <3> QED BY <1>9, <1>10, <2>1, <3>1
    <2>2. CASE ~(i < k)
      <3>1. /\ i - (k - 1) \in 1 .. Len(c) - k /\ ~(i <= Len(a)) /\ i \in 1 .. Len(a) + Len(b)
            /\ k + (i - (k - 1)) = i + 1
        BY <1>5, <1>9, <2>2
      <3>2. (a \o b)[i] = b[i - (k - 1)]
        BY <1>9, <1>10, <3>1
      <3>3. b[i - (k - 1)] = c[i + 1]
        BY <1>9, <3>1
      <3> QED BY <2>2, <3>2, <3>3
    <2> QED BY <2>1, <2>2
  <1> QED BY <1>8, <1>10, <1>11, <1>12

\* The nodes of a chain that hold elements.
Row(c) == RemoveFirst(c, Stub)

Injective(c) == \A i, j \in 1 .. Len(c) : c[i] = c[j] => i = j

\* They are heap nodes of the chain, each once, and only the stub is left out.
LEMMA RowIs ==
  ASSUME NEW c \in Seq(Places), Injective(c)
  PROVE  /\ Row(c) \in Seq(Nodes) /\ Injective(Row(c))
         /\ \A i \in 1 .. Len(Row(c)) : In(c, Row(c)[i])
         /\ ~In(c, Stub) => Row(c) = c
         /\ Len(Row(c)) = IF In(c, Stub) THEN Len(c) - 1 ELSE Len(c)
  <1>1. CASE ~In(c, Stub)
    <2>1. Row(c) = c
      BY <1>1, Zenon DEF Row, RemoveFirst, In
    <2>2. \A i \in 1 .. Len(c) : In(c, c[i]) /\ c[i] \in Nodes
      BY <1>1 DEF In, Places
    <2>3. c \in Seq(Nodes)
      BY <2>2
    <2> QED BY <1>1, <2>1, <2>2, <2>3
  <1>2. CASE In(c, Stub)
    <2>1. PICK k \in 1 .. Len(c) : c[k] = Stub
      BY <1>2 DEF In
    <2>2. /\ Row(c) \in Seq(Places) /\ Len(Row(c)) = Len(c) - 1
          /\ \A i \in 1 .. Len(c) - 1 : Row(c)[i] = IF i < k THEN c[i] ELSE c[i + 1]
      BY <2>1, StubRemoved DEF Row, Injective
    <2>3. Len(c) \in Nat
      BY LenProperties
    <2> DEFINE at(i) == IF i < k THEN i ELSE i + 1
    <2>4. \A i \in 1 .. Len(c) - 1 : at(i) \in 1 .. Len(c) /\ at(i) # k /\ Row(c)[i] = c[at(i)]
      BY <2>2, <2>3
    <2>5. \A i, j \in 1 .. Len(c) - 1 : at(i) = at(j) => i = j
      BY <2>3
    <2> HIDE DEF at
    <2>6. Injective(Row(c))
      BY <2>2, <2>4, <2>5 DEF Injective
    <2>7. \A i \in 1 .. Len(c) - 1 : In(c, Row(c)[i]) /\ Row(c)[i] \in Nodes
      <3> TAKE i \in 1 .. Len(c) - 1
      <3>1. In(c, Row(c)[i])
        BY <2>4 DEF In
      <3>2. Row(c)[i] # Stub
        BY <2>1, <2>4 DEF Injective
      <3>3. Row(c)[i] \in Places
        BY <2>2
      <3> QED BY <3>1, <3>2, <3>3 DEF Places
    <2>8. Row(c) \in Seq(Nodes)
      BY <2>2, <2>7
    <2> QED BY <1>2, <2>2, <2>6, <2>7, <2>8
  <1> QED BY <1>1, <1>2

\* An exchange adds its node to the row, and the stub adds nothing.
LEMMA RowAppend ==
  ASSUME NEW c \in Seq(Places), Injective(c), NEW n \in Places, ~In(c, n)
  PROVE  Row(Append(c, n)) = IF n = Stub THEN Row(c) ELSE Append(Row(c), n)
  <1> DEFINE d == Append(c, n)
  <1>1. /\ d \in Seq(Places) /\ Len(d) = Len(c) + 1 /\ d[Len(c) + 1] = n
        /\ \A i \in 1 .. Len(c) : d[i] = c[i]
    BY AppendIs
  <1>2. Len(c) \in Nat /\ Stub \in Places
    BY LenProperties DEF Places
  <1>i. Injective(d)
    <2> SUFFICES ASSUME NEW i \in 1 .. Len(d), NEW j \in 1 .. Len(d), d[i] = d[j] PROVE i = j
      BY DEF Injective
    <2>1. CASE i \in 1 .. Len(c) /\ j \in 1 .. Len(c)
      BY <1>1, <2>1 DEF Injective
    <2>2. CASE ~(i \in 1 .. Len(c)) \/ ~(j \in 1 .. Len(c))
      BY <1>1, <1>2, <2>2 DEF In
    <2> QED BY <2>1, <2>2
  <1>3. \A m : In(d, m) <=> In(c, m) \/ m = n
    BY InAppend
  <1> HIDE DEF d
  <1>r. Row(c) \in Seq(Places) /\ Row(d) \in Seq(Places)
    <2>1. Row(c) \in Seq(Nodes) /\ Row(d) \in Seq(Nodes)
      BY <1>1, <1>i, RowIs
    <2> QED BY <2>1 DEF Places
  <1>4. CASE ~In(c, Stub) /\ n # Stub
    BY <1>1, <1>3, <1>4, <1>i, RowIs DEF d
  <1>5. CASE n = Stub
    <2>1. Row(c) = c
      BY <1>5, RowIs
    <2>2. Len(c) + 1 \in 1 .. Len(d) /\ d[Len(c) + 1] = Stub
      BY <1>1, <1>2, <1>5
    <2>3. /\ Len(Row(d)) = Len(d) - 1
          /\ \A i \in 1 .. Len(d) - 1 : Row(d)[i] = IF i < Len(c) + 1 THEN d[i] ELSE d[i + 1]
      BY <1>1, <1>i, <2>2, StubRemoved DEF Row, Injective
    <2>4. Len(Row(d)) = Len(c) /\ \A i \in 1 .. Len(c) : Row(d)[i] = c[i]
      BY <1>1, <1>2, <2>3
    <2>5. Row(d) = c
      BY <1>r, <2>4, SeqEqual
    <2> QED BY <1>5, <2>1, <2>5 DEF d
  <1>6. CASE In(c, Stub) /\ n # Stub
    <2>1. PICK k \in 1 .. Len(c) : c[k] = Stub
      BY <1>6 DEF In
    <2>2. k \in 1 .. Len(d) /\ d[k] = Stub
      BY <1>1, <1>2, <2>1
    <2>3. /\ Len(Row(c)) = Len(c) - 1
          /\ \A i \in 1 .. Len(c) - 1 : Row(c)[i] = IF i < k THEN c[i] ELSE c[i + 1]
      BY <2>1, StubRemoved DEF Row, Injective
    <2>4. /\ Len(Row(d)) = Len(d) - 1
          /\ \A i \in 1 .. Len(d) - 1 : Row(d)[i] = IF i < k THEN d[i] ELSE d[i + 1]
      BY <1>1, <1>i, <2>2, StubRemoved DEF Row, Injective
    <2>5. /\ Append(Row(c), n) \in Seq(Places) /\ Len(Append(Row(c), n)) = Len(c)
          /\ Append(Row(c), n)[Len(c)] = n
          /\ \A i \in 1 .. Len(c) - 1 : Append(Row(c), n)[i] = Row(c)[i]
      <3>1. Len(c) - 1 + 1 = Len(c)
        BY <1>2
      <3> QED BY <1>r, <2>3, <3>1, AppendIs
    <2>6. ASSUME NEW i \in 1 .. Len(c) PROVE Row(d)[i] = Append(Row(c), n)[i]
      <3>1. CASE i = Len(c)
        <4>1. Row(d)[i] = d[Len(c) + 1]
          BY <1>1, <1>2, <2>1, <2>4, <3>1
        <4> QED BY <1>1, <2>5, <3>1, <4>1
      <3>2. CASE i # Len(c)
        <4>1. i \in 1 .. Len(c) - 1 /\ i + 1 \in 1 .. Len(c) /\ i \in 1 .. Len(d) - 1
          BY <1>1, <1>2, <3>2
        <4>2. Row(d)[i] = IF i < k THEN c[i] ELSE c[i + 1]
          BY <1>1, <2>4, <4>1
        <4> QED BY <2>3, <2>5, <4>1, <4>2
      <3> QED BY <3>1, <3>2
    <2>7. Len(Row(d)) = Len(c)
      BY <1>1, <1>2, <2>4
    <2>8. Row(d) = Append(Row(c), n)
      BY <1>r, <2>5, <2>6, <2>7, SeqEqual
    <2> QED BY <1>6, <2>8 DEF d
  <1> QED BY <1>4, <1>5, <1>6

\* The row loses the first node of the chain, which is nothing for the stub.
LEMMA RowTail ==
  ASSUME NEW c \in Seq(Places), Injective(c), c # <<>>
  PROVE  /\ c[1] = Stub => Row(Tail(c)) = Row(c)
         /\ c[1] # Stub => /\ Row(c) # <<>> /\ Head(Row(c)) = c[1]
                           /\ Row(Tail(c)) = Tail(Row(c))
  <1> DEFINE d == Tail(c)
  <1>1. /\ d \in Seq(Places) /\ Len(c) \in Nat /\ Len(c) >= 1 /\ Len(d) = Len(c) - 1
        /\ \A i \in 1 .. Len(c) - 1 : d[i] = c[i + 1]
    BY TailIs, LenProperties
  <1>2. \A m : In(d, m) <=> In(c, m) /\ m # c[1]
    BY InTail DEF Injective
  <1>3. 1 \in 1 .. Len(c) /\ Stub \in Places
    BY <1>1 DEF Places
  <1> HIDE DEF d
  <1>i. Injective(d)
    <2> SUFFICES ASSUME NEW i \in 1 .. Len(d), NEW j \in 1 .. Len(d), d[i] = d[j] PROVE i = j
      BY DEF Injective
    <2>1. /\ i + 1 \in 1 .. Len(c) /\ j + 1 \in 1 .. Len(c)
          /\ i \in 1 .. Len(c) - 1 /\ j \in 1 .. Len(c) - 1
      BY <1>1
    <2>2. i + 1 = j + 1
      BY <1>1, <2>1 DEF Injective
    <2> QED BY <1>1, <2>2
  <1>r. Row(c) \in Seq(Places) /\ Row(d) \in Seq(Places)
    <2>1. Row(c) \in Seq(Nodes) /\ Row(d) \in Seq(Nodes)
      BY <1>1, <1>i, RowIs
    <2> QED BY <2>1 DEF Places
  <1>4. ASSUME c[1] = Stub PROVE Row(d) = Row(c)
    <2>1. Row(d) = d
      BY <1>1, <1>2, <1>4, <1>i, RowIs
    <2>2. /\ Len(Row(c)) = Len(c) - 1
          /\ \A i \in 1 .. Len(c) - 1 : Row(c)[i] = IF i < 1 THEN c[i] ELSE c[i + 1]
      BY <1>3, <1>4, StubRemoved DEF Row, Injective
    <2>3. \A i \in 1 .. Len(c) - 1 : Row(c)[i] = d[i]
      BY <1>1, <2>2
    <2>4. Row(c) = d
      BY <1>1, <1>r, <2>2, <2>3, SeqEqual
    <2> QED BY <2>1, <2>4
  <1>5. ASSUME c[1] # Stub PROVE Row(c) # <<>> /\ Head(Row(c)) = c[1] /\ Row(d) = Tail(Row(c))
    <2>1. CASE ~In(c, Stub)
      <3>1. Row(c) = c /\ Row(d) = d
        BY <1>1, <1>2, <1>i, <2>1, RowIs
      <3>2. Head(c) = c[1]
        OBVIOUS
      <3> QED BY <3>1, <3>2 DEF d
    <2>2. CASE In(c, Stub)
      <3>1. PICK k \in 1 .. Len(c) : c[k] = Stub
        BY <2>2 DEF In
      <3>2. k # 1 /\ Len(c) >= 2 /\ k - 1 \in 1 .. Len(c) - 1 /\ k - 1 + 1 = k /\ k \in Nat
        BY <1>1, <1>5, <3>1
      <3>3. k - 1 \in 1 .. Len(d) /\ d[k - 1] = Stub
        BY <1>1, <3>1, <3>2
      <3>4. /\ Len(Row(c)) = Len(c) - 1
            /\ \A i \in 1 .. Len(c) - 1 : Row(c)[i] = IF i < k THEN c[i] ELSE c[i + 1]
        BY <3>1, StubRemoved DEF Row, Injective
      <3>5. /\ Len(Row(d)) = Len(d) - 1
            /\ \A i \in 1 .. Len(d) - 1 : Row(d)[i] = IF i < k - 1 THEN d[i] ELSE d[i + 1]
        BY <1>1, <1>i, <3>3, StubRemoved DEF Row, Injective
      <3>6. Row(c) # <<>> /\ Row(c)[1] = c[1]
        <4>1. 1 \in 1 .. Len(c) - 1 /\ 1 < k
          BY <1>1, <3>2, <3>1
        <4>2. Row(c)[1] = c[1] /\ Len(Row(c)) # 0
          BY <1>1, <3>2, <3>4, <4>1
        <4> QED BY <1>r, <4>2, EmptySeq
      <3>7. Head(Row(c)) = c[1]
        BY <1>r, <3>6
      <3>8. /\ Tail(Row(c)) \in Seq(Places) /\ Len(Tail(Row(c))) = Len(c) - 2
            /\ \A i \in 1 .. Len(c) - 2 : Tail(Row(c))[i] = Row(c)[i + 1]
        <4>1. Len(c) - 1 - 1 = Len(c) - 2
          BY <1>1
        <4> QED BY <1>r, <3>4, <3>6, <4>1, TailIs
      <3>9. ASSUME NEW i \in 1 .. Len(c) - 2 PROVE Row(d)[i] = Tail(Row(c))[i]
        <4>1. /\ i \in 1 .. Len(c) - 1 /\ i + 1 \in 1 .. Len(c) - 1 /\ i \in 1 .. Len(d) - 1
              /\ (i < k - 1 <=> i + 1 < k)
          BY <1>1, <3>2
        <4>2. Row(d)[i] = IF i + 1 < k THEN c[i + 1] ELSE c[i + 1 + 1]
          BY <1>1, <3>5, <4>1
        <4> QED BY <3>4, <3>8, <4>1, <4>2
      <3>10. Len(Row(d)) = Len(c) - 2
        BY <1>1, <3>5
      <3>11. Row(d) = Tail(Row(c))
        BY <1>r, <3>8, <3>9, <3>10, SeqEqual
      <3> QED BY <3>6, <3>7, <3>11
    <2> QED BY <2>1, <2>2
  <1> QED BY <1>4, <1>5 DEF d

\* A sequence is the function of its members.
LEMMA RowEqual ==
  ASSUME NEW S, NEW s \in Seq(S), NEW n \in Nat, NEW f,
         Len(s) = n, f = [i \in 1 .. n |-> f[i]], \A i \in 1 .. n : s[i] = f[i]
  PROVE  f = s
  BY LenProperties

\* What the queue holds, by the row of its chain.
LEMMA ContentsAre ==
  ASSUME QueueTypes, ShapeInv
  PROVE  /\ Row(chain) \in Seq(Nodes) /\ Injective(Row(chain)) /\ Injective(chain)
         /\ chain \in Seq(Places) /\ chain # <<>> /\ chain[1] = tail
         /\ \A i \in 1 .. Len(Row(chain)) : In(chain, Row(chain)[i])
         /\ Len(Row(chain)) = IF In(chain, Stub) THEN Len(chain) - 1 ELSE Len(chain)
         /\ Contents = [i \in 1 .. Len(Row(chain)) |-> value[Row(chain)[i]]]
  <1>1. /\ chain \in Seq(Places) /\ Injective(chain) /\ chain # <<>> /\ chain[1] = tail
    BY ChainEnds DEF QueueTypes, Injective, ShapeInv
  <1>2. DOMAIN Row(chain) = 1 .. Len(Row(chain))
    BY <1>1, RowIs, LenProperties
  <1>3. Contents = [i \in DOMAIN Row(chain) |-> value[Row(chain)[i]]]
    BY DEF Contents, Row
  <1> QED BY <1>1, <1>2, <1>3, RowIs

(* A failing try_pop has met a moment at which the queue was empty or a push *)
(* in flight, and is_empty tells the truth: for any number of producers.     *)
THEOREM EmptyIsHonest == MpscSpec => []HonestEmpty
  <1>1. MpscInv => HonestEmpty
    <2> SUFFICES ASSUME MpscInv PROVE HonestEmpty
      OBVIOUS
    <2>t. QueueTypes /\ ShapeInv
      BY DEF MpscInv
    <2>1. consumer = "empty" => excuse
      BY DEF MpscInv, ExcuseInv, Excused
    <2>2. ASSUME consumer = "idle", IsEmpty PROVE MayLookEmpty
      BY <2>2, <2>t, StubAlone DEF IsEmpty, QueueTypes
    <2>3. ASSUME ~IsEmpty PROVE Contents # <<>>
      <3>1. Len(chain) \in Nat /\ Len(chain) >= 1 /\ In(chain, tail)
        BY <2>t, ChainEnds
      <3>2. CASE tail # Stub
        <4>1. Row(chain) # <<>>
          BY <2>t, <3>2, ContentsAre, RowTail
        <4>2. Row(chain) \in Seq(Nodes)
          BY <2>t, ContentsAre
        <4>3. 1 \in 1 .. Len(Row(chain))
          BY <4>1, <4>2, LenProperties, EmptySeq
        <4> QED BY <2>t, <4>3, ContentsAre
      <3>3. CASE tail = Stub
        <4>1. Len(chain) >= 2
          BY <2>3, <2>t, <3>3, ShapeDrops DEF IsEmpty, ShapeInv, QueueTypes
        <4>2. Len(Row(chain)) = Len(chain) - 1
          BY <2>t, <3>1, <3>3, ContentsAre
        <4>3. 1 \in 1 .. Len(Row(chain))
          BY <3>1, <4>1, <4>2
        <4> QED BY <2>t, <4>3, ContentsAre
      <3> QED BY <3>2, <3>3
    <2> QED BY <2>1, <2>2, <2>3, Zenon DEF HonestEmpty
  <1> QED BY <1>1, MpscInvAlways, PTL

-----------------------------------------------------------------------------
(* The queue implements the abstract one.                                  *)

\* A push puts its element at the back at the moment of its exchange.
LEMMA ExchangePuts ==
  ASSUME MpscInv, NEW p \in Producers, Exchange(p)
  PROVE  \E e \in Pushed : MpscFifo!Put(e)
  <1>1. Up /\ pushes[p] < MaxPushes /\ UNCHANGED taken
    BY Zenon DEF Exchange, consumerVars, Up
  <1>2. PICK n \in Nodes \ allocated :
          /\ value' = [value EXCEPT ![n] = <<p, pushes[p] + 1>>]
          /\ chain' = Append(chain, n)
    BY Zenon DEF Exchange
  <1>t. QueueTypes /\ ShapeInv /\ OwnInv
    BY DEF MpscInv
  <1> DEFINE e == <<p, pushes[p] + 1>>
             r == Row(chain)
  <1>3. e \in Pushed
    <2>1. pushes[p] \in 0 .. MaxPushes /\ MaxPushes \in Nat
      BY <1>t, MpscAssumption DEF QueueTypes
    <2>2. pushes[p] + 1 \in 1 .. MaxPushes
      BY <1>1, <2>1
    <2> QED BY <2>2 DEF Pushed
  <1> HIDE DEF e
  <1>4. n \in Nodes /\ n \in Places /\ n # Stub /\ ~In(chain, n)
    BY <1>1, <1>t, NodeNames DEF OwnInv, Places
  <1>5. /\ r \in Seq(Nodes) /\ Len(r) \in Nat /\ \A i \in 1 .. Len(r) : r[i] \in Nodes /\ r[i] # n
        /\ Injective(r) /\ Contents = [i \in 1 .. Len(r) |-> value[r[i]]]
    <2>1. r \in Seq(Nodes) /\ Injective(r) /\ \A i \in 1 .. Len(r) : In(chain, r[i])
      BY <1>t, ContentsAre
    <2>2. Contents = [i \in 1 .. Len(r) |-> value[r[i]]]
      BY <1>t, ContentsAre
    <2> QED BY <1>4, <2>1, <2>2, LenProperties
  <1>6. Row(chain') = Append(r, n)
    BY <1>2, <1>4, <1>t, ContentsAre, RowAppend
  <1> HIDE DEF r
  <1>7. Len(r) < Cardinality(Nodes)
    <2>1. DOMAIN r = 1 .. Len(r) /\ r = [i \in 1 .. Len(r) |-> r[i]]
      BY <1>5, LenProperties
    <2>2. r \in Bijection(1 .. Len(r), ToSet(r))
      BY <1>5, <2>1 DEF Bijection, Injection, Surjection, IsInjective, ToSet, Injective
    <2>3. Cardinality(ToSet(r)) = Len(r)
      BY <1>5, <2>2, FS_CountingElements DEF ExistsBijection
    <2>4. n \notin ToSet(r) /\ ToSet(r) \cup {n} \subseteq Nodes
      BY <1>4, <1>5, <2>1 DEF ToSet
    <2>5. Cardinality(ToSet(r)) + 1 <= Cardinality(Nodes) /\ Cardinality(Nodes) \in Nat
      <3>1. IsFiniteSet(Nodes)
        BY MpscAssumption
      <3> QED BY <2>4, <3>1, CardAdd, Zenon
    <2> QED BY <1>5, <2>3, <2>5
  <1>8. Contents' = [i \in 1 .. Len(Append(r, n)) |-> value'[Append(r, n)[i]]]
    <2>1. Row(chain)' = Append(r, n)
      BY <1>6
    <2>2. DOMAIN Append(r, n) = 1 .. Len(Append(r, n))
      BY <1>4, <1>5
    <2> QED BY <2>1, <2>2 DEF Contents, Row
  <1>9. /\ Contents \in Seq(Pushed \cup {NoValue}) /\ Len(Contents) = Len(r)
        /\ \A i \in 1 .. Len(r) : Contents[i] = value[r[i]]
    <2>1. \A i \in 1 .. Len(r) : value[r[i]] \in Pushed \cup {NoValue}
      BY <1>5, <1>t DEF QueueTypes
    <2> QED BY <1>5, <2>1
  <1>10. Contents' = Append(Contents, e)
    <2> DEFINE d == Append(r, n)
    <2>1. /\ Len(d) = Len(r) + 1 /\ d[Len(r) + 1] = n /\ \A i \in 1 .. Len(r) : d[i] = r[i]
      BY <1>4, <1>5, AppendIs
    <2> HIDE DEF d
    <2>2. value'[n] = e /\ \A m \in Nodes : m # n => value'[m] = value[m]
      BY <1>2, <1>4, <1>t DEF QueueTypes, e
    <2>3. Contents' = [i \in 1 .. Len(r) + 1 |-> value'[d[i]]]
      BY <1>8, <2>1 DEF d
    <2>4. \A i \in 1 .. Len(r) : value'[d[i]] = Contents[i]
      BY <1>5, <1>9, <2>1, <2>2
    <2>5. value'[d[Len(r) + 1]] = e
      BY <2>1, <2>2
    <2>6. Contents' = [i \in 1 .. Len(Contents) + 1 |->
                          IF i = Len(Contents) + 1 THEN e ELSE Contents[i]]
      BY <1>5, <1>9, <2>3, <2>4, <2>5
    <2>7. e \in Pushed \cup {NoValue}
      BY <1>3
    <2>8. /\ Append(Contents, e) \in Seq(Pushed \cup {NoValue})
          /\ Len(Append(Contents, e)) = Len(Contents) + 1
          /\ Append(Contents, e)[Len(Contents) + 1] = e
          /\ \A i \in 1 .. Len(Contents) : Append(Contents, e)[i] = Contents[i]
      BY <1>9, <2>7, AppendIs
    <2> QED BY <1>5, <1>9, <2>6, <2>7, <2>8, RowEqual
  <1>11. MpscFifo!Put(e)
    BY <1>1, <1>7, <1>9, <1>10 DEF MpscFifo!Put
  <1> QED BY <1>3, <1>11

\* pop_node takes the oldest element at the moment it moves tail_.
LEMMA DetachTakes ==
  ASSUME MpscInv, Detach(tail, next[tail]), tail # Stub, UNCHANGED value
  PROVE  MpscFifo!Take
  <1>1. chain' = Tail(chain) /\ taken' = Append(taken, value[tail])
    BY DEF Detach
  <1>t. QueueTypes /\ ShapeInv
    BY DEF MpscInv
  <1> DEFINE r == Row(chain)
  <1>2. /\ r \in Seq(Nodes) /\ Contents = [i \in 1 .. Len(r) |-> value[r[i]]]
    BY <1>t, ContentsAre
  <1>3. r # <<>> /\ Head(r) = tail /\ Row(chain') = Tail(r)
    BY <1>1, <1>t, ContentsAre, RowTail
  <1>4. Contents' = [i \in DOMAIN Tail(r) |-> value[Tail(r)[i]]]
    <2>1. Row(chain)' = Tail(r)
      BY <1>3
    <2> QED BY <2>1 DEF Contents, Row
  <1> HIDE DEF r
  <1>5. /\ Len(r) \in Nat /\ Len(r) >= 1 /\ r[1] = tail /\ DOMAIN Tail(r) = 1 .. Len(r) - 1
        /\ \A i \in 1 .. Len(r) - 1 : Tail(r)[i] = r[i + 1]
    <2>1. Len(r) \in Nat /\ Tail(r) \in Seq(Nodes) /\ Len(r) >= 1 /\ Len(Tail(r)) = Len(r) - 1
          /\ \A i \in 1 .. Len(r) - 1 : Tail(r)[i] = r[i + 1]
      BY <1>2, <1>3, TailIs, LenProperties
    <2>2. r[1] = tail
      BY <1>2, <1>3
    <2> QED BY <2>1, <2>2, LenProperties
  <1>6. /\ Contents \in Seq(Pushed \cup {NoValue}) /\ Len(Contents) = Len(r)
        /\ \A i \in 1 .. Len(r) : Contents[i] = value[r[i]]
    <2>1. \A i \in 1 .. Len(r) : value[r[i]] \in Pushed \cup {NoValue}
      <3>1. \A i \in 1 .. Len(r) : r[i] \in Nodes
        BY <1>2, <1>5
      <3> QED BY <1>t, <3>1 DEF QueueTypes
    <2> QED BY <1>2, <1>5, <2>1
  <1>7. Contents # <<>> /\ Head(Contents) = value[tail]
    <2>1. 1 \in 1 .. Len(r)
      BY <1>5
    <2>2. Contents[1] = value[tail]
      BY <1>5, <1>6, <2>1
    <2> QED BY <1>5, <1>6, <2>2
  <1>8. Contents' = Tail(Contents)
    <2>1. Contents' = [i \in 1 .. Len(r) - 1 |-> value[r[i + 1]]]
      BY <1>4, <1>5
    <2>2. \A i \in 1 .. Len(r) - 1 : value[r[i + 1]] = Contents[i + 1]
      BY <1>5, <1>6
    <2>3. Contents' = [i \in 1 .. Len(Contents) - 1 |-> Contents[i + 1]]
      BY <1>6, <2>1, <2>2
    <2>4. /\ Tail(Contents) \in Seq(Pushed \cup {NoValue})
          /\ Len(Tail(Contents)) = Len(Contents) - 1
          /\ \A i \in 1 .. Len(Contents) - 1 : Tail(Contents)[i] = Contents[i + 1]
      BY <1>6, <1>7, TailIs
    <2>5. /\ Len(Contents) - 1 \in Nat
          /\ Contents' = [i \in 1 .. Len(Contents) - 1 |-> Contents'[i]]
          /\ \A i \in 1 .. Len(Contents) - 1 : Tail(Contents)[i] = Contents'[i]
      BY <1>5, <1>6, <2>3, <2>4
    <2> QED BY <2>4, <2>5, RowEqual
  <1> QED BY <1>1, <1>7, <1>8 DEF MpscFifo!Take

\* Steps that leave the row and its values alone leave the contents alone.
LEMMA RowStays ==
  ASSUME Row(chain') = Row(chain), UNCHANGED value
  PROVE  UNCHANGED Contents
  <1>1. Row(chain)' = Row(chain)
    BY Zenon
  <1> QED BY <1>1 DEF Contents, Row

LEMMA MpscRefines ==
  MpscInv /\ [MpscNext]_mpscVars => [MpscFifo!Next]_(MpscFifo!vars)
  <1> SUFFICES ASSUME MpscInv, [MpscNext]_mpscVars PROVE [MpscFifo!Next]_(MpscFifo!vars)
    OBVIOUS
  <1>t. QueueTypes /\ ShapeInv /\ PlaceInv
    BY DEF MpscInv
  <1>s. ASSUME UNCHANGED <<Contents, taken>> PROVE [MpscFifo!Next]_(MpscFifo!vars)
    BY <1>s DEF MpscFifo!vars
  <1>u. ASSUME UNCHANGED <<chain, value, taken>> PROVE [MpscFifo!Next]_(MpscFifo!vars)
    BY <1>s, <1>u, RowStays
  <1>d. ASSUME Detach(tail, next[tail]), tail # Stub, UNCHANGED value
        PROVE  [MpscFifo!Next]_(MpscFifo!vars)
    BY <1>d, DetachTakes DEF MpscFifo!Next
  <1>1. ASSUME NEW p \in Producers, Exchange(p) PROVE [MpscFifo!Next]_(MpscFifo!vars)
    BY <1>1, ExchangePuts DEF MpscFifo!Next
  <1>2. ASSUME NEW p \in Producers, Link(p) PROVE [MpscFifo!Next]_(MpscFifo!vars)
    BY <1>2, <1>u, Zenon DEF Link, consumerVars
  <1>3. CASE LoadNext
    <2>1. UNCHANGED value
      BY <1>3, Zenon DEF LoadNext, ConsumerFrame
    <2>2. CASE tail # Stub /\ next[tail] # Null
      BY <1>3, <1>d, <2>1, <2>2, Zenon DEF LoadNext
    <2>3. CASE tail = Stub /\ next[Stub] # Null
      <3>1. chain' = Tail(chain) /\ UNCHANGED taken
        BY <1>3, <2>3 DEF LoadNext, Goto
      <3>2. Row(chain') = Row(chain)
        BY <1>t, <2>3, <3>1, ContentsAre, RowTail
      <3> QED BY <1>s, <2>1, <3>1, <3>2, RowStays
    <2>4. CASE next[tail] = Null
      <3>1. UNCHANGED <<chain, taken>>
        BY <1>3, <2>4 DEF LoadNext, Goto
      <3> QED BY <1>u, <2>1, <3>1
    <2> QED BY <2>2, <2>3, <2>4
  <1>4. CASE LoadNextOfNext
    <2>1. UNCHANGED value /\ ctail = tail /\ tail # Stub
      BY <1>4, <1>t DEF LoadNextOfNext, ConsumerFrame, PlaceInv
    <2>2. UNCHANGED <<chain, taken>> \/ Detach(tail, next[tail])
      BY <1>4, <2>1 DEF LoadNextOfNext, Goto
    <2> QED BY <1>d, <1>u, <2>1, <2>2
  <1>5. CASE LoadHead
    BY <1>5, <1>u, Zenon DEF LoadHead, Goto, ConsumerFrame
  <1>6. CASE ResetStub
    BY <1>6, <1>u, Zenon DEF ResetStub, Goto, ConsumerFrame
  <1>7. CASE ExchangeStub
    <2>1. chain' = Append(chain, Stub) /\ UNCHANGED <<taken, value>>
          /\ consumer = "exchange stub"
      BY <1>7, Zenon DEF ExchangeStub, Goto, ConsumerFrame
    <2>2. ~In(chain, Stub) /\ Stub \in Places
      BY <1>t, <2>1 DEF PlaceInv, Places
    <2>3. Row(chain') = Row(chain)
      BY <1>t, <2>1, <2>2, ContentsAre, RowAppend
    <2> QED BY <1>s, <2>1, <2>3, RowStays
  <1>8. CASE LinkStub
    BY <1>8, <1>u, Zenon DEF LinkStub, Goto, ConsumerFrame
  <1>9. CASE ReloadNext
    <2>1. UNCHANGED value /\ ctail = tail /\ tail # Stub
      BY <1>9, <1>t DEF ReloadNext, ConsumerFrame, PlaceInv
    <2>2. UNCHANGED <<chain, taken>> \/ Detach(tail, next[tail])
      BY <1>9, <2>1 DEF ReloadNext, Goto
    <2> QED BY <1>d, <1>u, <2>1, <2>2
  <1>10. CASE DeleteNode
    BY <1>10, <1>u, Zenon DEF DeleteNode, Goto
  <1>11. CASE ReturnEmpty
    BY <1>11, <1>u, Zenon DEF ReturnEmpty, Goto, ConsumerFrame
  <1>12. CASE Destroy
    BY <1>12, <1>u, Zenon DEF Destroy, consumerVars
  <1>13. CASE UNCHANGED mpscVars
    BY <1>13, <1>u, Zenon DEF mpscVars, consumerVars
  <1> QED BY <1>1, <1>2, <1>3, <1>4, <1>5, <1>6, <1>7, <1>8, <1>9, <1>10, <1>11, <1>12,
             <1>13, Zenon DEF MpscNext, ConsumerStep

(* The linked queue is a first-in first-out queue in the order of the        *)
(* exchanges, for any number of producers, nodes and pushes: no interleaving *)
(* loses, repeats or reorders an element, wherever the stub stands.          *)
THEOREM LinkedQueueIsFifo == MpscSpec => MpscImplementsFifo
  <1>1. MpscInit => MpscFifo!Init
    <2> SUFFICES ASSUME MpscInit PROVE Contents = <<>> /\ taken = <<>>
      BY DEF MpscFifo!Init
    <2>1. QueueTypes /\ ShapeInv /\ chain = <<Stub>> /\ taken = <<>>
      BY MpscInvInit DEF MpscInv, MpscInit
    <2>2. Len(chain) = 1 /\ In(chain, Stub)
      BY <2>1 DEF In
    <2>3. Len(Row(chain)) = 0
      BY <2>1, <2>2, ContentsAre
    <2> QED BY <2>1, <2>3, ContentsAre
  <1> QED BY <1>1, MpscInvAlways, MpscRefines, PTL DEF MpscSpec, MpscImplementsFifo

===============================================================================
