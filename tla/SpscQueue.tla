----------------------------- MODULE SpscQueue -----------------------------
(***************************************************************************)
(* SpscQueue<T> (concurrency_utils.H): a ring of slots between one         *)
(* producer and one consumer, without locks.  One slot always stays free,  *)
(* so that equal indices mean empty.                                       *)
(*                                                                         *)
(* Each side owns one index and reads the other's once per call; what it   *)
(* then does to a slot is protected by nothing but the indices.  A step is *)
(* one access to an index or one operation on a slot; the slot operations  *)
(* of the two sides are distinct steps, so that being inside a slot is a   *)
(* state that can be looked at.                                            *)
(***************************************************************************)
EXTENDS Integers, Sequences, FiniteSets, SequencesExt

CONSTANTS RingCapacity,    \* the constructor's argument
          MaxItems,        \* bound: calls of the producer
          ItemMayThrow     \* whether copying an element can throw

ASSUME SpscAssumption ==
    /\ RingCapacity \in Nat \ {0}
    /\ MaxItems \in Nat
    /\ ItemMayThrow \in BOOLEAN

Items == 1 .. MaxItems
NoItem == 0
StorageSize == RingCapacity + 1
SlotIndex == 0 .. RingCapacity

VARIABLES
    slots,       \* slots_
    ringHead,    \* head_, which the consumer stores
    ringTail,    \* tail_, which the producer stores
    producing,   \* where the producer is in emplace_impl
    items,       \* how many elements the producer has tried to push
    popping,     \* where the consumer is in try_pop
    held,        \* try_pop's value, moved or copied out of the slot
    popped       \* history: the elements popped, in order

spscVars == <<slots, ringHead, ringTail, producing, items, popping, held,
              popped>>
\* What the other side never writes.
producerSide == <<ringTail, producing, items>>
consumerSide == <<ringHead, popping, held, popped>>

\* Mutant of Advance: the index does not wrap.
AdvanceStraight(i) == i + 1

Advance(i) == (i + 1) % StorageSize

\* size(): the indices say how many slots are in use.
RingSize == IF ringTail >= ringHead THEN ringTail - ringHead
                                    ELSE StorageSize - ringHead + ringTail

SpscInit ==
    /\ slots = [i \in SlotIndex |-> NoItem]
    /\ ringHead = 0
    /\ ringTail = 0
    /\ producing = "idle"
    /\ items = 0
    /\ popping = "idle"
    /\ held = NoItem
    /\ popped = <<>>

-----------------------------------------------------------------------------
(* The producer: try_push and emplace.                                     *)

\* Mutant of LoadRingHead: the slot kept free is given away.
LoadRingHeadFull ==
    /\ producing = "idle" /\ items < MaxItems
    /\ items' = items + 1
    /\ producing' = "construct"
    /\ UNCHANGED <<slots, ringTail, consumerSide>>

\* Its own index, then the consumer's: a full ring refuses the element.
LoadRingHead ==
    /\ producing = "idle" /\ items < MaxItems
    /\ items' = items + 1
    /\ producing' = IF Advance(ringTail) = ringHead THEN "idle" ELSE "construct"
    /\ UNCHANGED <<slots, ringTail, consumerSide>>

\* The element is constructed in the free slot, which may throw.
Construct ==
    /\ producing = "construct"
    /\ \/ /\ slots' = [slots EXCEPT ![ringTail] = items]
          /\ producing' = "publish"
       \/ /\ ItemMayThrow
          /\ slots' = [slots EXCEPT ![ringTail] = NoItem]
          /\ producing' = "idle"
    /\ UNCHANGED <<ringTail, items, consumerSide>>

PublishTail ==
    /\ producing = "publish"
    /\ ringTail' = Advance(ringTail)
    /\ producing' = "idle"
    /\ UNCHANGED <<slots, items, consumerSide>>

-----------------------------------------------------------------------------
(* The consumer: both forms of try_pop.                                    *)

\* Its own index, then the producer's: an empty ring gives nothing.
LoadRingTail ==
    /\ popping = "idle"
    /\ ringHead # ringTail
    /\ popping' = "extract"
    /\ UNCHANGED <<slots, ringHead, held, popped, producerSide>>

\* Mutant of Extract: an extraction that throws gives the slot up.
ExtractDrops ==
    /\ popping = "extract"
    /\ \/ /\ held' = slots[ringHead]
          /\ popping' = "reset"
          /\ UNCHANGED slots
       \/ /\ ItemMayThrow
          /\ slots' = [slots EXCEPT ![ringHead] = NoItem]
          /\ popping' = "release"
          /\ UNCHANGED held
    /\ UNCHANGED <<ringHead, popped, producerSide>>

\* The element is copied or moved out of the slot; if that throws it stays
\* (elements that are moved out and whose assignment throws are left out).
Extract ==
    /\ popping = "extract"
    /\ \/ /\ held' = slots[ringHead]
          /\ popping' = "reset"
       \/ /\ ItemMayThrow
          /\ popping' = "idle"
          /\ UNCHANGED held
    /\ UNCHANGED <<slots, ringHead, popped, producerSide>>

ResetSlot ==
    /\ popping = "reset"
    /\ slots' = [slots EXCEPT ![ringHead] = NoItem]
    /\ popped' = Append(popped, held)
    /\ held' = NoItem
    /\ popping' = "release"
    /\ UNCHANGED <<ringHead, producerSide>>

ReleaseHead ==
    /\ popping = "release"
    /\ ringHead' = Advance(ringHead)
    /\ popping' = "idle"
    /\ UNCHANGED <<slots, held, popped, producerSide>>

SpscProducer == LoadRingHead \/ Construct \/ PublishTail
SpscConsumer == LoadRingTail \/ Extract \/ ResetSlot \/ ReleaseHead

SpscNext == SpscProducer \/ SpscConsumer

SpscSpec == SpscInit /\ [][SpscNext]_spscVars

-----------------------------------------------------------------------------
(* Properties.                                                             *)

\* The slots from index i on, n of them.
Segment(i, n) == {(i + k) % StorageSize : k \in 0 .. n - 1}

(* A slot holds an element exactly while its index lies between head_ and    *)
(* tail_, but for the slot that a side is about to hand over: the producer   *)
(* never overwrites an element, the consumer never reads an empty slot, no   *)
(* element is left behind when one of the two indices is published, and     *)
(* the two sides are never inside the same slot.                            *)
SlotLifetime ==
    /\ ringHead \in SlotIndex /\ ringTail \in SlotIndex
    /\ {i \in SlotIndex : slots[i] # NoItem} =
          (Segment(ringHead, RingSize)
              \cup {i \in {ringTail} : producing = "publish"})
              \ {i \in {ringHead} : popping = "release"}
    /\ producing = "construct" => slots[ringTail] = NoItem
    /\ producing # "idle" /\ popping # "idle" => ringTail # ringHead

(* What the ring holds between the two indices, oldest first.               *)
RingContents ==
    LET from == IF popping = "release" THEN 1 ELSE 0
    IN  [k \in 1 .. RingSize - from |->
            slots[(ringHead + from + k - 1) % StorageSize]]

(* The ring is a first-in first-out queue of the announced capacity: an      *)
(* element is queued by the store to tail_ and leaves when its slot is       *)
(* reset; a throwing copy neither queues, removes nor reorders anything.     *)
SpscFifo == INSTANCE BoundedFifo
    WITH Element <- Items, Capacity <- RingCapacity,
         contents <- RingContents, taken <- popped, closed <- FALSE
SpscImplementsFifo == SpscFifo!Init /\ [][SpscFifo!Next]_(SpscFifo!vars)

=============================================================================
