-------------------------- MODULE PagedStoreProofs --------------------------
(***************************************************************************)
(* What the paged files keep for any number of pages, mutations and        *)
(* checkpoints and after any number of crashes: recovery finds one whole   *)
(* tree, the log always covers what the data file may still lose, and the  *)
(* checkpoint sequence on the disk never goes back.                        *)
(***************************************************************************)
EXTENDS PagedStore, CountingLemmas

\* The program as it is meant to be used: clear() only on a file as created,
\* a recovery that looks at the header, failures of sync() only after the
\* data file has been synced, and crashes of one kind.
SoundUse ==
    /\ ~ClearsAny
    /\ ChecksHeader
    /\ FailPoints \subseteq {"flushed", "unlinked"}
    /\ CrashKinds \subseteq {{}, {"kill"}, {"power"}}

Labels == {"closed", "open", "creating", "renamed", "writing", "flushed",
           "unlinked", "loading", "refused"}

StoreTypes ==
    /\ file \in Cells /\ safe \in Cells
    /\ wal \in Cells /\ walSafe \in Cells
    /\ cache \in Cells
    /\ dirty \subseteq 0 .. cache[0].count
    /\ ckpt \in Nat
    /\ pc \in Labels
    /\ todo \subseteq Slots
    /\ clock \in Nat
    /\ crash \in CrashKinds

LEMMA StoreConstants == MaxPages \in Nat
  BY StoreAssumption, Zenon

LEMMA CellTypes ==
  /\ Absent \in Cell /\ Torn \in Cell
  /\ \A seq, ver \in Nat, count \in Slots : Written(seq, ver, count) \in Cell
  /\ Nothing \in Cells /\ EmptyTree \in Cells /\ EmptyTree[0].count = 0
  BY StoreConstants
  DEF Absent, Torn, Blank, Written, Cell, Slots, Cells, Nothing, EmptyTree

LEMMA SlotTypes ==
  /\ 0 \in Slots /\ Pages \subseteq Slots
  /\ \A p \in Slots : p = 0 \/ p \in Pages
  /\ \A p \in Slots : p \in Nat /\ p <= MaxPages
  BY StoreConstants DEF Slots, Pages

LEMMA LogTypes ==
  ASSUME StoreTypes
  PROVE  Log \in Cells
  <1>1. ckpt + 1 \in Nat /\ cache[0].ver \in Nat /\ cache[0].count \in Slots
    BY SlotTypes DEF StoreTypes, Cells, Cell
  <1>2. Written(ckpt + 1, cache[0].ver, cache[0].count) \in Cell
    BY <1>1, CellTypes
  <1>3. \A p \in Slots : cache[p] \in Cell
    BY DEF StoreTypes, Cells
  <1> QED BY <1>2, <1>3, CellTypes DEF Log, Cells

LEMMA LeastTodo ==
  ASSUME todo \subseteq Slots, todo # {}
  PROVE  Min(todo) \in todo /\ \A p \in todo : Min(todo) <= p
  <1>1. todo \subseteq Nat
    BY SlotTypes
  <1>2. \E m \in todo : \A p \in todo : m <= p
    BY <1>1, LeastNatural
  <1> QED BY <1>2 DEF Min

LEMMA StoreTypesInit == Init => StoreTypes
  BY CellTypes, StoreConstants DEF Init, StoreTypes, Labels

LEMMA StoreTypesStep == StoreTypes /\ [Next]_vars => StoreTypes'
  <1> SUFFICES ASSUME StoreTypes, [Next]_vars PROVE StoreTypes'
    OBVIOUS
  <1> USE DEF StoreTypes, disk, memory, history, control
  <1>1. ASSUME NEW pages \in SUBSET Pages, NEW count \in Slots, Mutate(pages, count)
        PROVE  StoreTypes'
    <2>1. /\ clock' = clock + 1
          /\ cache' = [p \in Slots |->
                        IF p = 0 THEN Written(0, clock', count)
                        ELSE IF p \in pages THEN Written(ckpt + 1, clock', 0)
                        ELSE cache[p]]
          /\ dirty' = dirty \cup pages \cup {0}
          /\ cache[0].count <= count /\ pages \subseteq 1 .. count
          /\ UNCHANGED <<file, safe, wal, walSafe, ckpt, pc, todo, crash>>
      BY <1>1 DEF Mutate
    <2>2. cache' \in Cells /\ cache'[0].count = count
      BY <2>1, CellTypes, SlotTypes DEF Cells, Written
    <2>3. dirty' \subseteq 0 .. cache'[0].count
      <3>1. cache[0].count \in Nat /\ count \in Nat
        BY SlotTypes DEF Cells, Cell
      <3>2. \A p \in dirty : p \in 0 .. count
        BY <2>1, <3>1
      <3>3. \A p \in pages : p \in 0 .. count
        BY <2>1, <3>1
      <3>4. dirty' = dirty \cup pages \cup {0} /\ 0 \in 0 .. count
        BY <2>1, <3>1
      <3>5. dirty' \subseteq 0 .. count
        BY <3>2, <3>3, <3>4, Zenon
      <3> QED BY <2>2, <3>5
    <2> QED BY <2>1, <2>2, <2>3
  <1>2. CASE Clear
    BY <1>2, CellTypes DEF Clear
  <1>3. CASE Sync
    BY <1>3, LogTypes DEF Sync, Labels
  <1>4. CASE RenameDurable
    BY <1>4 DEF RenameDurable, Labels, Logged
  <1>5. CASE WriteSlot
    BY <1>5, LeastTodo DEF WriteSlot, Cells
  <1>6. CASE Flush
    BY <1>6, SlotTypes DEF Flush, Labels, Cells, Cell
  <1>7. CASE Unlink
    BY <1>7, CellTypes DEF Unlink, Labels
  <1>8. CASE UnlinkDurable
    BY <1>8 DEF UnlinkDurable, Labels
  <1>9. CASE Fail
    BY <1>9 DEF Fail, Labels
  <1>10. CASE Recover
    BY <1>10 DEF Recover, Labels, Logged
  <1>11. CASE Load
    <2>1. file[0].seq \in Nat
      BY SlotTypes DEF Cells, Cell
    <2>2. pc' \in Labels /\ UNCHANGED <<disk, clock, todo, crash>>
      BY <1>11 DEF Load, Labels
    <2>3. /\ cache' \in {EmptyTree, file, cache}
          /\ ckpt' \in {0, file[0].seq, ckpt}
          /\ dirty' \in {{}, {0}} \/ UNCHANGED <<cache, dirty>>
      BY <1>11, Zenon DEF Load
    <2>4. cache' \in Cells
      BY <2>3, CellTypes
    <2>5. dirty' \subseteq 0 .. cache'[0].count
      <3>1. cache'[0].count \in Nat
        BY <2>4, SlotTypes DEF Cells, Cell
      <3>2. {} \subseteq 0 .. cache'[0].count /\ {0} \subseteq 0 .. cache'[0].count
        BY <3>1
      <3> QED BY <2>3, <3>2
    <2> QED BY <2>1, <2>2, <2>3, <2>4, <2>5
  <1>12. CASE Close
    BY <1>12 DEF Close, Labels
  <1>13. CASE Kill
    BY <1>13, LeastTodo, CellTypes DEF Kill, Down, Labels, Cells
  <1>14. CASE PowerLoss
    BY <1>14, CellTypes DEF PowerLoss, Down, Labels, Cells, WithHoles
  <1>15. CASE UNCHANGED vars
    BY <1>15 DEF vars
  <1> QED BY <1>1, <1>2, <1>3, <1>4, <1>5, <1>6, <1>7, <1>8, <1>9, <1>10, <1>11, <1>12,
             <1>13, <1>14, <1>15 DEF Next

FlagType == recovering \in BOOLEAN

(* Every variable keeps to its type, whatever fails or crashes, and no page  *)
(* is dirty beyond the number of pages.                                      *)
THEOREM StoreTypeCorrect == Spec => []TypeOK
  <1>1. Init => FlagType
    BY Zenon DEF Init, FlagType
  <1>2. FlagType /\ [Next]_vars => FlagType'
    <2> SUFFICES ASSUME FlagType, [Next]_vars PROVE FlagType'
      OBVIOUS
    <2>1. recovering' \in {recovering, TRUE, FALSE}
      BY Zenon
      DEF Next, vars, control, Mutate, Clear, Sync, RenameDurable, WriteSlot, Flush, Unlink,
          UnlinkDurable, Fail, Recover, Load, Close, Kill, PowerLoss, Down
    <2> QED BY <2>1, Zenon DEF FlagType
  <1>3. StoreTypes /\ FlagType => TypeOK
    BY Zenon DEF StoreTypes, FlagType, TypeOK, Labels
  <1> QED BY <1>1, <1>2, <1>3, StoreTypesInit, StoreTypesStep, PTL DEF Spec

-----------------------------------------------------------------------------
(* What recovery makes of a data file f and a log w, for a set T of trees   *)
(* that it may find.                                                       *)

Carries(w, p) == w[p] # Absent

\* The file with the log written over it.
Applied(f, w) == [p \in Slots |-> IF Carries(w, p) THEN w[p] ELSE f[p]]

\* A readable file, none of whose pages is newer than its header.  A tree
\* without pages is the one that nothing was ever put into.
Settled(f, T) ==
    /\ Readable(f)
    /\ \A p \in Pages : p <= f[0].count \/ f[p] = Absent
    /\ \A p \in Pages : f[p].seq <= f[0].seq
    /\ f[0].count = 0 => f[0].ver = 0
    /\ Tree(f) \in T

\* Without a log: nothing at all, if nothing was committed, or a settled file.
Whole(f, T) == (f = Nothing /\ NoTree \in T) \/ Settled(f, T)

\* A log has a header, and pages of the tree that it commits.
GoodLog(w) ==
    /\ w[0].state = "ok"
    /\ w[0].count = 0 => w[0].ver = 0
    /\ \A p \in Pages : Carries(w, p) =>
          p <= w[0].count /\ w[p].state = "ok" /\ w[p].seq <= w[0].seq

\* The file is right where the log has nothing, and where the file looks as
\* new as the log it holds what the log does, or the header of a file as
\* created, which clear() leaves in place.
Fits(f, w) ==
    /\ \A p \in Pages : ~Carries(w, p) =>
          /\ f[p].state = IF p <= w[0].count THEN "ok" ELSE "absent"
          /\ p <= w[0].count \/ f[p] = Absent
          /\ f[p].seq <= w[0].seq
    /\ \A p \in Pages :
          Carries(w, p) /\ f[p].state = "ok" /\ f[p].seq >= w[0].seq => f[p] = w[p]
    /\ f[0].seq <= w[0].seq
    /\ f[0].state = "ok" /\ f[0].seq >= w[0].seq => f[0] \in {w[0], Written(1, 0, 0)}

Redoes(f, w, T) == GoodLog(w) /\ Fits(f, w) /\ Tree(Applied(f, w)) \in T

Recoverable(f, w, T) == IF w = Nothing THEN Whole(f, T) ELSE Redoes(f, w, T)

LEMMA CellFields ==
  ASSUME NEW f \in Cells, NEW p \in Slots
  PROVE  /\ f[p] \in Cell
         /\ f[p].seq \in Nat /\ f[p].ver \in Nat /\ f[p].count \in Slots
         /\ f[p].count \in Nat /\ f[p].count <= MaxPages
         /\ f[p].state \in {"absent", "torn", "ok"}
  BY SlotTypes DEF Cells, Cell

LEMMA CellValues ==
  /\ Absent.state = "absent" /\ Absent.seq = 0 /\ Absent.ver = 0 /\ Absent.count = 0
  /\ Torn.state = "torn" /\ Torn.seq = 0 /\ Torn # Absent
  /\ \A seq, ver, count : /\ Written(seq, ver, count).state = "ok"
                          /\ Written(seq, ver, count).seq = seq
                          /\ Written(seq, ver, count).ver = ver
                          /\ Written(seq, ver, count).count = count
                          /\ Written(seq, ver, count) # Absent
  /\ \A p \in Slots : Nothing[p] = Absent
  BY DEF Absent, Torn, Blank, Written, Nothing

\* A log that is not the empty one has a header.
LEMMA LogOrNothing ==
  ASSUME NEW w \in Cells, w[0].state = "ok"
  PROVE  w # Nothing /\ Carries(w, 0)
  BY CellValues, SlotTypes DEF Carries

LEMMA SameTree ==
  ASSUME NEW f \in Cells, NEW g \in Cells, f[0].count = g[0].count,
         \A p \in 0 .. f[0].count : f[p].ver = g[p].ver
  PROVE  Tree(f) = Tree(g)
  BY DEF Tree

LEMMA TreesExist ==
  ASSUME NEW f \in Cells
  PROVE  Tree(f) # NoTree
  <1>1. 0 \in 0 .. f[0].count
    BY CellFields, SlotTypes
  <1>2. 0 \in DOMAIN Tree(f)
    BY <1>1 DEF Tree
  <1>3. 0 \notin DOMAIN NoTree
    BY DEF NoTree
  <1> QED BY <1>2, <1>3

LEMMA AppliedIs ==
  ASSUME NEW f \in Cells, NEW w \in Cells
  PROVE  /\ Applied(f, w) \in Cells
         /\ \A p \in Slots : Applied(f, w)[p] = IF Carries(w, p) THEN w[p] ELSE f[p]
  BY DEF Applied, Cells

\* More trees are no less.
LEMMA MoreTrees ==
  ASSUME NEW f, NEW w, NEW S, NEW T, S \subseteq T, Recoverable(f, w, S)
  PROVE  Recoverable(f, w, T)
  BY DEF Recoverable, Whole, Settled, Redoes

\* A slot of the log reaches the file.
LEMMA WriteKeeps ==
  ASSUME NEW f \in Cells, NEW w \in Cells, NEW T, NEW p \in Slots,
         Redoes(f, w, T), Carries(w, p)
  PROVE  Redoes([f EXCEPT ![p] = w[p]], w, T)
  <1> DEFINE g == [f EXCEPT ![p] = w[p]]
  <1>1. g \in Cells /\ g[p] = w[p] /\ \A q \in Slots : q # p => g[q] = f[q]
    BY DEF Cells
  <1> HIDE DEF g
  <1>2. Applied(g, w) = Applied(f, w)
    BY <1>1 DEF Applied
  <1>3. 0 \in Slots /\ Pages \subseteq Slots
    BY SlotTypes
  <1>4. \A q \in Slots : f[q].seq \in Nat /\ w[q].seq \in Nat
    BY CellFields
  <1>5. Fits(g, w)
    BY <1>1, <1>3, <1>4 DEF Redoes, Fits
  <1> QED BY <1>2, <1>5 DEF Redoes, g

\* Two files that differ only in what the log holds are mixed, and torn.
LEMMA MixKeeps ==
  ASSUME NEW f \in Cells, NEW s \in Cells, NEW g \in Cells, NEW w \in Cells, NEW T,
         Redoes(f, w, T), Redoes(s, w, T),
         \A p \in Slots : \/ Carries(w, p) /\ g[p] \in {f[p], s[p], Torn}
                          \/ g[p] = f[p] /\ g[p] = s[p]
  PROVE  Redoes(g, w, T)
  <1>1. Applied(g, w) = Applied(f, w)
    BY DEF Applied
  <1>2. 0 \in Slots /\ Pages \subseteq Slots /\ Torn.state # "ok" /\ Torn.seq = 0
    BY SlotTypes, CellValues
  <1>3. w[0].seq \in Nat
    BY CellFields, SlotTypes
  <1>4. Fits(g, w)
    BY <1>2, <1>3 DEF Redoes, Fits
  <1> QED BY <1>1, <1>4 DEF Redoes

\* Nor do the holes that a file has before what did reach it.
LEMMA HolesKeep ==
  ASSUME NEW f \in Cells, NEW w \in Cells, NEW T, Recoverable(f, w, T)
  PROVE  WithHoles(f) \in Cells /\ Recoverable(WithHoles(f), w, T)
  <1> DEFINE Hole(p) == f[p] = Absent /\ \E q \in Pages : q > p /\ f[q] # Absent
  <1>1. WithHoles(f) \in Cells
        /\ \A p \in Slots : WithHoles(f)[p] = IF Hole(p) THEN Torn ELSE f[p]
    BY CellTypes DEF WithHoles, Cells
  <1>2. CASE w = Nothing
    <2>1. ASSUME NEW p \in Slots PROVE ~Hole(p)
      <3>1. CASE f = Nothing
        BY <3>1, CellValues, SlotTypes
      <3>2. CASE Settled(f, T)
        <4>1. p = 0 => f[p] # Absent
          BY <3>2, CellValues DEF Settled, Readable
        <4> SUFFICES ASSUME p \in Pages, f[p] = Absent, NEW q \in Pages, q > p PROVE f[q] = Absent
          BY <4>1, SlotTypes
        <4>2. ~(p <= f[0].count)
          BY <3>2, CellValues DEF Settled, Readable
        <4>3. ~(q <= f[0].count)
          BY <4>2, CellFields, SlotTypes
        <4> QED BY <3>2, <4>3 DEF Settled
      <3> QED BY <1>2, <3>1, <3>2 DEF Recoverable, Whole
    <2>2. WithHoles(f) = f
      BY <1>1, <2>1 DEF Cells
    <2> QED BY <1>1, <2>2
  <1>3. CASE w # Nothing
    <2>1. Redoes(f, w, T)
      BY <1>3 DEF Recoverable
    <2>2. ASSUME NEW p \in Slots, Hole(p) PROVE Carries(w, p)
      <3>1. CASE p = 0
        BY <2>1, <3>1, LogOrNothing DEF Redoes, GoodLog
      <3>2. ASSUME p \in Pages, ~Carries(w, p) PROVE FALSE
        <4>1. PICK q \in Pages : q > p /\ f[q] # Absent
          BY <2>2
        <4>2. ~(p <= w[0].count)
          BY <2>1, <2>2, <3>2, CellValues DEF Redoes, Fits
        <4>3. ~(q <= w[0].count)
          BY <4>1, <4>2, CellFields, SlotTypes
        <4> QED BY <2>1, <4>1, <4>3 DEF Redoes, Fits, GoodLog
      <3> QED BY <3>1, <3>2, SlotTypes
    <2>3. Redoes(WithHoles(f), w, T)
      <3> DEFINE g == WithHoles(f)
      <3>1. \A p \in Slots : (Carries(w, p) /\ g[p] = Torn) \/ g[p] = f[p]
        <4> HIDE DEF Hole
        <4> QED BY <1>1, <2>2
      <3>2. g \in Cells
        BY <1>1
      <3> HIDE DEF g
      <3>3. \A p \in Slots : \/ Carries(w, p) /\ g[p] \in {f[p], f[p], Torn}
                             \/ g[p] = f[p] /\ g[p] = f[p]
        BY <3>1
      <3>4. Redoes(g, w, T)
        BY <2>1, <3>2, <3>3, MixKeeps
      <3> QED BY <3>4 DEF g
    <2> QED BY <1>1, <1>3, <2>3 DEF Recoverable
  <1> QED BY <1>2, <1>3

\* Once the file holds all of the log it is settled, at the log's sequence.
LEMMA AllWritten ==
  ASSUME NEW f \in Cells, NEW w \in Cells, NEW T, Redoes(f, w, T),
         \A p \in Slots : Carries(w, p) => f[p] = w[p]
  PROVE  /\ Settled(f, T) /\ f[0] = w[0]
         /\ Applied(f, w) = f
  <1>1. Carries(w, 0) /\ w[0].state = "ok" /\ f[0] = w[0]
    BY LogOrNothing, SlotTypes DEF Redoes, GoodLog
  <1>2. Applied(f, w) = f
    BY DEF Applied, Cells
  <1>3. \A p \in Pages : f[p].state = IF p <= f[0].count THEN "ok" ELSE "absent"
    BY <1>1, SlotTypes DEF Redoes, GoodLog, Fits
  <1>4. \A p \in Pages : f[p].seq <= f[0].seq /\ (p <= f[0].count \/ f[p] = Absent)
    BY <1>1, SlotTypes DEF Redoes, GoodLog, Fits
  <1> QED BY <1>1, <1>2, <1>3, <1>4 DEF Redoes, GoodLog, Settled, Readable

\* A log that recovery takes for stale adds nothing to the file.
LEMMA StaleIsDone ==
  ASSUME NEW f \in Cells, NEW w \in Cells, NEW T, Redoes(f, w, T),
         Readable(f), f[0].seq >= w[0].seq,
         \A p \in Pages : Carries(w, p) => f[p].state = "ok" /\ f[p].seq >= w[0].seq
  PROVE  Settled(f, T) /\ Tree(Applied(f, w)) = Tree(f)
  <1>1. f[0].state = "ok" /\ f[0] \in {w[0], Written(1, 0, 0)}
    BY DEF Redoes, Fits, Readable
  <1>2. \A p \in Pages : Carries(w, p) => f[p] = w[p]
    BY DEF Redoes, Fits
  <1>3. CASE f[0] = w[0]
    <2>1. \A p \in Slots : Carries(w, p) => f[p] = w[p]
      BY <1>2, <1>3, SlotTypes
    <2> QED BY <2>1, AllWritten
  <1>4. CASE f[0] = Written(1, 0, 0)
    <2>1. f[0].count = 0 /\ f[0].ver = 0
      BY <1>4, CellValues
    <2>2. \A p \in Pages : f[p].state = "absent"
      BY <2>1, SlotTypes DEF Readable, Pages
    <2>3. w[0].count = 0
      <3> SUFFICES ASSUME w[0].count # 0 PROVE FALSE
        OBVIOUS
      <3>1. w[0].count \in Nat /\ w[0].count <= MaxPages /\ 1 \in Pages
        BY CellFields, SlotTypes, StoreConstants DEF Pages
      <3>2. f[1].state = "ok"
        BY <3>1 DEF Redoes, Fits
      <3> QED BY <2>2, <3>1, <3>2
    <2>4. w[0].ver = 0 /\ Carries(w, 0)
      BY <2>3, LogOrNothing DEF Redoes, GoodLog
    <2>5. Tree(Applied(f, w)) = Tree(f)
      <3>1. Applied(f, w) \in Cells /\ Applied(f, w)[0] = w[0]
        BY <2>4, AppliedIs, SlotTypes
      <3> QED BY <2>1, <2>3, <2>4, <3>1, SameTree
    <2>6. \A p \in Pages : f[p].seq <= f[0].seq
      <3>1. ASSUME NEW p \in Pages PROVE f[p].seq <= w[0].seq
        BY <1>2, <2>2, SlotTypes DEF Redoes, Fits, GoodLog
      <3>2. \A p \in Pages : f[p].seq \in Nat
        BY CellFields, SlotTypes
      <3>3. w[0].seq \in Nat /\ f[0].seq \in Nat
        BY CellFields, SlotTypes
      <3> QED BY <3>1, <3>2, <3>3
    <2>7. \A p \in Pages : f[p] = Absent
      BY <2>1, <2>2, <2>3, <1>2, SlotTypes DEF Redoes, Fits, GoodLog
    <2> QED BY <2>1, <2>5, <2>6, <2>7 DEF Settled, Redoes
  <1> QED BY <1>1, <1>3, <1>4

-----------------------------------------------------------------------------
(* The inductive invariant.                                                *)

\* The trees that recovery may find.
Trees == {committed} \cup attempts

\* The cache is a whole tree.
CacheWhole ==
    /\ cache[0].state = "ok"
    /\ cache[0].count = 0 => cache[0].ver = 0
    /\ \A p \in Pages : /\ cache[p].state = IF p <= cache[0].count THEN "ok" ELSE "absent"
                        /\ p <= cache[0].count \/ cache[p] = Absent

\* The pages that are not dirty are those of the file.
CacheBased == \A p \in Pages : p \notin dirty => cache[p] = file[p]

\* A file as created may be newer than the cache that clear() has emptied.
CacheNewer ==
    /\ \A p \in Pages : cache[p].seq <= ckpt + 1 /\ file[p].seq <= ckpt
    /\ file[0].seq <= ckpt \/ (ckpt = 0 /\ file[0] = Written(1, 0, 0))

\* The program is between calls, or about to write the file it creates.
Ready == CacheWhole /\ CacheBased /\ CacheNewer

\* It has logged what is dirty.
Logging ==
    /\ CacheWhole /\ CacheBased
    /\ \A p \in Pages : wal[p] = IF p \in dirty THEN cache[p] ELSE Absent
    /\ wal[0] = Written(ckpt + 1, cache[0].ver, cache[0].count)

\* It has written what it has logged.
Saved ==
    /\ CacheWhole
    /\ \A p \in Pages : cache[p] = file[p]
    /\ file[0] = Written(ckpt, cache[0].ver, cache[0].count)

\* Every slot of the log that is not in todo has been written.
Writing ==
    /\ \A p \in todo : Carries(wal, p)
    /\ \A p \in Slots : Carries(wal, p) /\ p \notin todo => file[p] = wal[p]

FileInv == Recoverable(file, wal, Trees) /\ NoTree \notin attempts

PlaceInv ==
    /\ pc \in {"renamed", "writing", "flushed"} => wal # Nothing
    /\ pc \in {"unlinked", "loading", "creating"} => wal = Nothing
    /\ pc = "creating" => file = Nothing /\ committed = NoTree
    /\ pc = "open" => Settled(file, Trees) /\ committed # NoTree
    /\ pc = "writing" => Writing
    /\ pc = "flushed" => Settled(file, Trees) /\ Tree(Applied(file, wal)) = Tree(file)
    /\ pc = "unlinked" => Settled(file, Trees)
    /\ pc # "refused"

InRecovery == recovering

MemoryInv ==
    /\ pc \in {"open", "creating"} => Ready
    /\ pc \in {"renamed", "writing"} => InRecovery \/ Logging
    /\ pc \in {"flushed", "unlinked"} => InRecovery \/ Saved
    /\ pc \in {"open", "creating", "closed", "renamed"} => ~InRecovery

Killable == "kill" \in crash

\* What a power failure would leave can be recovered as well.
PowerSafe ==
    /\ \A p \in Slots : file[p] # safe[p] =>
          pc = "writing" /\ Carries(wal, p) /\ wal[p] = file[p]
    /\ pc \in {"closed", "open", "writing", "flushed"} /\ wal # Nothing => walSafe = wal
    /\ Recoverable(safe, wal, Trees)
    /\ Recoverable(safe, walSafe, Trees)
    /\ wal = Nothing /\ walSafe # Nothing => Tree(Applied(safe, walSafe)) = Tree(safe)

StoreInv ==
    /\ StoreTypes
    /\ FileInv
    /\ PlaceInv
    /\ MemoryInv
    /\ Killable \/ PowerSafe
    /\ safe[0].seq <= file[0].seq

LEMMA StoreInvInit == Init => StoreInv
  <1> SUFFICES ASSUME Init PROVE StoreInv
    OBVIOUS
  <1>1. Recoverable(file, wal, Trees) /\ NoTree \notin attempts
    BY DEF Init, Recoverable, Whole, Trees
  <1>2. PlaceInv
    BY DEF Init, PlaceInv
  <1>3. MemoryInv
    <2>1. pc = "closed" /\ ~InRecovery
      BY Zenon DEF Init, InRecovery
    <2> QED BY <2>1 DEF MemoryInv
  <1>4. PowerSafe
    BY <1>1, CellValues DEF Init, PowerSafe
  <1>5. safe[0].seq <= file[0].seq
    BY CellValues, SlotTypes DEF Init
  <1> QED BY <1>1, <1>2, <1>3, <1>4, <1>5, StoreTypesInit, Zenon DEF StoreInv, FileInv

LEMMA MutateStep ==
  ASSUME StoreInv, StoreTypes', NEW pages \in SUBSET Pages, NEW count \in Slots,
         Mutate(pages, count)
  PROVE  StoreInv'
  <1>1. /\ pc = "open" /\ UNCHANGED <<file, safe, wal, walSafe, ckpt, committed, attempts,
                                      pc, recovering, todo, crash>>
    BY DEF Mutate, disk, history, control
  <1>2. FileInv'
    BY <1>1 DEF StoreInv, FileInv, Trees
  <1>3. PlaceInv'
    BY <1>1 DEF StoreInv, PlaceInv, Trees
  <1>4. (Killable \/ PowerSafe)'
    BY <1>1 DEF StoreInv, Killable, PowerSafe, Trees
  <1>5. (safe[0].seq <= file[0].seq)'
    BY <1>1 DEF StoreInv
  <1>6. Ready'
    <2>1. /\ cache' = [p \in Slots |->
                        IF p = 0 THEN Written(0, clock', count)
                        ELSE IF p \in pages THEN Written(ckpt + 1, clock', 0)
                        ELSE cache[p]]
          /\ dirty' = dirty \cup pages \cup {0}
          /\ cache[0].count <= count /\ pages \subseteq 1 .. count /\ pages # {}
          /\ (cache[0].count + 1) .. count \subseteq pages
      BY DEF Mutate
    <2>2. cache'[0] = Written(0, clock', count) /\ count # 0
      <3>1. cache'[0] = Written(0, clock', count)
        BY <2>1, SlotTypes
      <3>2. count # 0
        <4>1. PICK p \in pages : p \in 1 .. count
          BY <2>1
        <4> QED BY <4>1, SlotTypes
      <3> QED BY <3>1, <3>2
    <2>3. /\ cache'[0].state = "ok" /\ cache'[0].count = count
      BY <2>2, CellValues
    <2>4. ASSUME NEW p \in Pages
          PROVE  cache'[p] = IF p \in pages THEN Written(ckpt + 1, clock', 0) ELSE cache[p]
      BY <2>1, SlotTypes DEF Pages
    <2>5. CacheWhole'
      <3> SUFFICES ASSUME NEW p \in Pages
                   PROVE  /\ cache'[p].state = IF p <= count THEN "ok" ELSE "absent"
                          /\ p <= count \/ cache'[p] = Absent
        BY <2>2, <2>3 DEF CacheWhole
      <3>1. p \in Nat /\ p >= 1 /\ count \in Nat /\ cache[0].count \in Nat
        BY SlotTypes, CellFields DEF Pages, StoreInv, StoreTypes
      <3>2. CASE p \in pages
        BY <2>1, <2>4, <3>1, <3>2, CellValues
      <3>3. CASE p \notin pages
        <4>1. p <= count <=> p <= cache[0].count
          BY <2>1, <3>1, <3>3
        <4> QED BY <1>1, <2>4, <3>3, <4>1 DEF StoreInv, MemoryInv, Ready, CacheWhole
      <3> QED BY <3>2, <3>3
    <2>6. CacheBased'
      BY <1>1, <2>1, <2>4 DEF StoreInv, MemoryInv, Ready, CacheBased
    <2>7. CacheNewer'
      <3>1. ckpt \in Nat
        BY DEF StoreInv, StoreTypes
      <3> QED BY <1>1, <2>4, <3>1, CellValues DEF StoreInv, MemoryInv, Ready, CacheNewer
    <2> QED BY <2>5, <2>6, <2>7 DEF Ready
  <1>7. MemoryInv'
    BY <1>1, <1>6 DEF StoreInv, MemoryInv, InRecovery
  <1> QED BY <1>2, <1>3, <1>4, <1>5, <1>7, Zenon DEF StoreInv

LEMMA ClearStep ==
  ASSUME SoundUse, StoreInv, StoreTypes', Clear
  PROVE  StoreInv'
  <1>0. ~ClearsAny
    BY Zenon DEF SoundUse
  <1>1. /\ pc = "open" /\ file[0] = Written(1, 0, 0)
        /\ UNCHANGED <<file, safe, wal, walSafe, committed, attempts,
                       pc, recovering, todo, crash>>
    BY <1>0, Zenon DEF Clear, disk, history, control
  <1>2. FileInv'
    BY <1>1 DEF StoreInv, FileInv, Trees
  <1>3. PlaceInv'
    BY <1>1 DEF StoreInv, PlaceInv, Trees
  <1>4. (Killable \/ PowerSafe)'
    BY <1>1 DEF StoreInv, Killable, PowerSafe, Trees
  <1>5. (safe[0].seq <= file[0].seq)'
    BY <1>1 DEF StoreInv
  <1>6. Ready'
    <2>1. cache' = EmptyTree /\ dirty' = {0} /\ ckpt' = 0
      BY DEF Clear
    <2>2. /\ \A p \in Pages : cache'[p] = Absent
          /\ cache'[0].state = "ok" /\ cache'[0].ver = 0 /\ cache'[0].count = 0
      BY <2>1, CellValues, SlotTypes DEF EmptyTree, Pages
    <2>3. \A p \in Pages : p \in Nat /\ ~(p <= 0)
      BY SlotTypes DEF Pages
    <2>4. \A p \in Pages : file[p] = Absent
      <3>1. file[0].count = 0
        BY <1>1, CellValues
      <3> QED BY <1>1, <2>3, <3>1 DEF StoreInv, PlaceInv, Settled
    <2>5. CacheWhole'
      BY <2>2, <2>3, CellValues DEF CacheWhole
    <2>6. CacheBased' /\ CacheNewer'
      BY <1>1, <2>1, <2>2, <2>4, CellValues DEF CacheBased, CacheNewer
    <2> QED BY <2>5, <2>6 DEF Ready
  <1>7. MemoryInv'
    BY <1>1, <1>6 DEF StoreInv, MemoryInv, InRecovery
  <1> QED BY <1>2, <1>3, <1>4, <1>5, <1>7, Zenon DEF StoreInv

\* What sync() logs, recovery could apply to the file as it is.
LEMMA LogRedoes ==
  ASSUME StoreTypes, Ready, NEW f \in Cells, NEW T, Tree(cache) \in T,
         \A p \in Slots : f[p] = file[p]
  PROVE  /\ Redoes(f, Log, T) /\ Log # Nothing
         /\ \A p \in Pages : Log[p] = IF p \in dirty THEN cache[p] ELSE Absent
         /\ Log[0] = Written(ckpt + 1, cache[0].ver, cache[0].count)
  <1>1. /\ Log[0] = Written(ckpt + 1, cache[0].ver, cache[0].count)
        /\ \A p \in Pages : Log[p] = IF p \in dirty THEN cache[p] ELSE Absent
    BY SlotTypes DEF Log, Pages
  <1>2. /\ Log[0].state = "ok" /\ Log[0].seq = ckpt + 1
        /\ Log[0].ver = cache[0].ver /\ Log[0].count = cache[0].count
    BY <1>1, CellValues
  <1>3. Log \in Cells /\ ckpt \in Nat /\ cache \in Cells /\ file \in Cells
    BY LogTypes DEF StoreTypes
  <1>4. ASSUME NEW p \in Pages
        PROVE  /\ p \in Slots /\ p \in Nat /\ cache[p].seq \in Nat /\ file[p].seq \in Nat
               /\ cache[0].count \in Nat /\ file[0].seq \in Nat
    BY <1>3, SlotTypes, CellFields
  <1>5. ASSUME NEW p \in Pages, p \in dirty
        PROVE  p <= cache[0].count /\ cache[p].state = "ok" /\ Carries(Log, p)
    <2>1. p <= cache[0].count
      BY <1>4, <1>5 DEF StoreTypes
    <2>2. cache[p].state = "ok"
      BY <2>1 DEF Ready, CacheWhole
    <2> QED BY <1>1, <1>5, <2>1, <2>2, CellValues DEF Carries
  <1>6. ASSUME NEW p \in Pages, p \notin dirty
        PROVE  /\ ~Carries(Log, p) /\ f[p] = cache[p]
               /\ cache[p].state = IF p <= cache[0].count THEN "ok" ELSE "absent"
               /\ p <= cache[0].count \/ cache[p] = Absent
    BY <1>1, <1>4, <1>6 DEF Carries, Ready, CacheWhole, CacheBased
  <1>7. GoodLog(Log)
    <2>1. Log[0].count = 0 => Log[0].ver = 0
      BY <1>2 DEF Ready, CacheWhole
    <2>2. ASSUME NEW p \in Pages, Carries(Log, p)
          PROVE  p <= Log[0].count /\ Log[p].state = "ok" /\ Log[p].seq <= Log[0].seq
      <3>1. p \in dirty /\ Log[p] = cache[p]
        BY <1>1, <1>6, <2>2
      <3> QED BY <1>2, <1>5, <3>1 DEF Ready, CacheNewer
    <2> QED BY <1>2, <2>1, <2>2 DEF GoodLog
  <1>8. Fits(f, Log)
    <2>1. ASSUME NEW p \in Pages, ~Carries(Log, p)
          PROVE  /\ f[p].state = IF p <= Log[0].count THEN "ok" ELSE "absent"
                 /\ p <= Log[0].count \/ f[p] = Absent
                 /\ f[p].seq <= Log[0].seq
      <3>1. p \notin dirty
        BY <1>5, <2>1
      <3>2. f[p].seq <= ckpt
        BY <1>4 DEF Ready, CacheNewer
      <3>3. f[p].seq \in Nat
        BY <1>4
      <3> QED BY <1>2, <1>3, <1>6, <3>1, <3>2, <3>3
    <2>2. ASSUME NEW p \in Pages PROVE ~(f[p].seq >= Log[0].seq)
      BY <1>2, <1>3, <1>4 DEF Ready, CacheNewer
    <2>3. /\ f[0].seq <= Log[0].seq
          /\ f[0].seq >= Log[0].seq => f[0] = Written(1, 0, 0)
      <3>1. f[0] = file[0] /\ file[0].seq \in Nat
        BY <1>3, SlotTypes, CellFields
      <3>2. CASE file[0].seq <= ckpt
        BY <1>2, <1>3, <3>1, <3>2
      <3>3. CASE ckpt = 0 /\ file[0] = Written(1, 0, 0)
        BY <1>2, <3>1, <3>3, CellValues
      <3> QED BY <3>2, <3>3 DEF Ready, CacheNewer
    <2> QED BY <2>1, <2>2, <2>3 DEF Fits
  <1>9. Tree(Applied(f, Log)) = Tree(cache)
    <2>1. /\ Applied(f, Log) \in Cells
          /\ \A p \in Slots : Applied(f, Log)[p] = IF Carries(Log, p) THEN Log[p] ELSE f[p]
      BY <1>3, AppliedIs
    <2>2. Applied(f, Log)[0] = Log[0]
      BY <1>2, <1>3, <2>1, LogOrNothing, SlotTypes
    <2>3. ASSUME NEW p \in Pages PROVE Applied(f, Log)[p] = cache[p]
      BY <1>1, <1>4, <1>5, <1>6, <2>1
    <2>4. ASSUME NEW p \in 0 .. cache[0].count PROVE p = 0 \/ p \in Pages
      <3>1. cache[0].count \in Nat /\ cache[0].count <= MaxPages
        BY <1>3, CellFields, SlotTypes
      <3> QED BY <3>1, StoreConstants DEF Pages
    <2>5. /\ Applied(f, Log)[0].count = cache[0].count
          /\ \A p \in 0 .. cache[0].count : Applied(f, Log)[p].ver = cache[p].ver
      BY <1>2, <2>2, <2>3, <2>4
    <2> QED BY <1>3, <2>1, <2>5, SameTree
  <1> QED BY <1>1, <1>2, <1>3, <1>7, <1>8, <1>9, LogOrNothing DEF Redoes

LEMMA SyncStep ==
  ASSUME StoreInv, StoreTypes', Sync
  PROVE  StoreInv'
  <1>1. /\ pc \in {"open", "creating"} /\ pc' = "renamed"
        /\ walSafe' = wal /\ wal' = Log
        /\ attempts' = attempts \cup {Tree(cache)}
        /\ UNCHANGED <<file, safe, cache, dirty, ckpt, clock, committed, recovering, todo, crash>>
    BY DEF Sync, memory
  <1>2. StoreTypes /\ Ready /\ FileInv /\ PlaceInv /\ MemoryInv /\ (Killable \/ PowerSafe)
    BY <1>1 DEF StoreInv, MemoryInv
  <1>3. Tree(cache) \in Trees' /\ Trees \subseteq Trees'
    BY <1>1 DEF Trees
  <1>4. /\ Redoes(file, wal', Trees') /\ wal' # Nothing
        /\ \A p \in Pages : wal'[p] = IF p \in dirty THEN cache[p] ELSE Absent
        /\ wal'[0] = Written(ckpt + 1, cache[0].ver, cache[0].count)
    BY <1>1, <1>2, <1>3, LogRedoes DEF StoreTypes
  <1>5. FileInv'
    <2>1. Tree(cache) # NoTree
      BY <1>2, TreesExist DEF StoreTypes
    <2> QED BY <1>1, <1>2, <1>4, <2>1 DEF FileInv, Recoverable
  <1>6. PlaceInv'
    BY <1>1, <1>4 DEF PlaceInv
  <1>7. MemoryInv'
    <2>1. Logging'
      BY <1>1, <1>2, <1>4 DEF Ready, Logging, CacheWhole, CacheBased
    <2>2. InRecovery' = InRecovery /\ ~InRecovery
      BY <1>1, <1>2 DEF InRecovery, MemoryInv
    <2> QED BY <1>1, <2>1, <2>2 DEF MemoryInv
  <1>8. (Killable \/ PowerSafe)'
    <2> SUFFICES ASSUME PowerSafe PROVE PowerSafe'
      BY <1>1, <1>2 DEF Killable
    <2>1. \A p \in Slots : file[p] = safe[p]
      BY <1>1 DEF PowerSafe
    <2>2. Recoverable(safe, wal', Trees')
      BY <1>2, <1>3, <1>4, <2>1, <1>1, LogRedoes DEF StoreTypes, Recoverable
    <2>3. Recoverable(safe, walSafe', Trees')
      BY <1>1, <1>3, MoreTrees DEF PowerSafe
    <2> QED BY <1>1, <1>4, <2>1, <2>2, <2>3 DEF PowerSafe
  <1>9. (safe[0].seq <= file[0].seq)'
    BY <1>1 DEF StoreInv
  <1> QED BY <1>5, <1>6, <1>7, <1>8, <1>9, Zenon DEF StoreInv

LEMMA RenameStep ==
  ASSUME StoreInv, StoreTypes', RenameDurable
  PROVE  StoreInv'
  <1>1. /\ pc = "renamed" /\ pc' = "writing" /\ walSafe' = wal /\ todo' = Logged
        /\ UNCHANGED <<file, safe, wal, cache, dirty, ckpt, clock, committed, attempts,
                       recovering, crash>>
    BY DEF RenameDurable, memory, history
  <1>2. FileInv'
    BY <1>1 DEF StoreInv, FileInv, Trees
  <1>3. PlaceInv'
    BY <1>1 DEF StoreInv, PlaceInv, Writing, Logged, Carries
  <1>4. MemoryInv'
    BY <1>1 DEF StoreInv, MemoryInv, InRecovery, Logging, CacheWhole, CacheBased
  <1>5. (Killable \/ PowerSafe)'
    BY <1>1 DEF StoreInv, PlaceInv, Killable, PowerSafe, Trees
  <1>6. (safe[0].seq <= file[0].seq)'
    BY <1>1 DEF StoreInv
  <1> QED BY <1>2, <1>3, <1>4, <1>5, <1>6, Zenon DEF StoreInv

LEMMA WriteStep ==
  ASSUME StoreInv, StoreTypes', WriteSlot
  PROVE  StoreInv'
  <1> DEFINE p == Min(todo)
  <1>1. /\ pc = "writing" /\ todo # {}
        /\ file' = [file EXCEPT ![p] = wal[p]] /\ todo' = todo \ {p}
        /\ UNCHANGED <<safe, wal, walSafe, cache, dirty, ckpt, clock, committed, attempts,
                       pc, recovering, crash>>
    BY DEF WriteSlot, memory, history
  <1>t. StoreTypes /\ Writing /\ wal # Nothing
    BY <1>1 DEF StoreInv, PlaceInv
  <1>2. p \in todo /\ p \in Slots /\ Carries(wal, p)
    BY <1>1, <1>t, LeastTodo DEF StoreTypes, Writing
  <1> HIDE DEF p
  <1>3. file'[p] = wal[p] /\ \A q \in Slots : q # p => file'[q] = file[q]
    BY <1>1, <1>2, <1>t DEF StoreTypes, Cells
  <1>4. Redoes(file, wal, Trees)
    BY <1>t DEF StoreInv, FileInv, Recoverable
  <1>5. FileInv'
    <2>1. Redoes(file', wal, Trees)
      BY <1>1, <1>2, <1>4, <1>t, WriteKeeps DEF StoreTypes
    <2> QED BY <1>1, <1>t, <2>1 DEF StoreInv, FileInv, Recoverable, Trees
  <1>6. PlaceInv'
    <2>1. Writing'
      BY <1>1, <1>2, <1>3, <1>t DEF Writing
    <2> QED BY <1>1, <1>t, <2>1 DEF PlaceInv
  <1>7. MemoryInv'
    <2>1. ASSUME Logging PROVE Logging'
      <3>1. CacheBased'
        <4> SUFFICES ASSUME NEW q \in Pages, q \notin dirty PROVE cache[q] = file'[q]
          BY <1>1 DEF CacheBased
        <4>1. ~Carries(wal, q)
          BY <2>1 DEF Logging, Carries
        <4> QED BY <1>2, <1>3, <2>1, <4>1, SlotTypes DEF Logging, CacheBased
      <3> QED BY <1>1, <2>1, <3>1 DEF Logging, CacheWhole
    <2> QED BY <1>1, <2>1 DEF StoreInv, MemoryInv, InRecovery
  <1>8. (Killable \/ PowerSafe)'
    <2> SUFFICES ASSUME PowerSafe PROVE PowerSafe'
      BY <1>1 DEF StoreInv, Killable
    <2>1. \A q \in Slots : file'[q] # safe[q] => Carries(wal, q) /\ wal[q] = file'[q]
      BY <1>2, <1>3 DEF PowerSafe
    <2> QED BY <1>1, <2>1 DEF PowerSafe, Trees
  <1>9. (safe[0].seq <= file[0].seq)'
    <2>1. file[0].seq <= wal[0].seq /\ safe[0].seq <= file[0].seq
      BY <1>4 DEF StoreInv, Redoes, Fits
    <2>2. file[0].seq \in Nat /\ wal[0].seq \in Nat /\ safe[0].seq \in Nat /\ 0 \in Slots
      BY <1>t, CellFields, SlotTypes DEF StoreTypes
    <2>3. file'[0] \in {file[0], wal[0]}
      BY <1>3, <2>2
    <2> QED BY <1>1, <2>1, <2>2, <2>3
  <1> QED BY <1>5, <1>6, <1>7, <1>8, <1>9, Zenon DEF StoreInv

LEMMA FlushStep ==
  ASSUME StoreInv, StoreTypes', Flush
  PROVE  StoreInv'
  <1>1. /\ pc = "writing" /\ pc' = "flushed" /\ todo = {}
        /\ safe' = file /\ ckpt' = wal[0].seq
        /\ UNCHANGED <<file, wal, walSafe, cache, dirty, clock, committed, attempts,
                       recovering, crash>>
    BY DEF Flush, history
  <1>t. StoreTypes /\ Writing /\ wal # Nothing
    BY <1>1 DEF StoreInv, PlaceInv
  <1>2. \A p \in Slots : Carries(wal, p) => file[p] = wal[p]
    BY <1>1, <1>t DEF Writing
  <1>3. Redoes(file, wal, Trees)
    BY <1>t DEF StoreInv, FileInv, Recoverable
  <1>4. Settled(file, Trees) /\ file[0] = wal[0] /\ Applied(file, wal) = file
    BY <1>2, <1>3, <1>t, AllWritten DEF StoreTypes
  <1>5. FileInv'
    BY <1>1 DEF StoreInv, FileInv, Trees
  <1>6. PlaceInv'
    BY <1>1, <1>4, <1>t DEF PlaceInv, Trees
  <1>7. MemoryInv'
    <2>1. ASSUME Logging PROVE Saved'
      <3>1. ASSUME NEW p \in Pages PROVE cache[p] = file[p]
        <4>1. CASE p \in dirty
          <5>1. wal[p] = cache[p] /\ p <= cache[0].count
            <6>1. cache[0].count \in Nat /\ p \in Nat
              BY <1>t, CellFields, SlotTypes DEF StoreTypes
            <6> QED BY <1>t, <2>1, <4>1, <6>1 DEF Logging, StoreTypes
          <5>2. Carries(wal, p)
            BY <2>1, <5>1, CellValues DEF Logging, CacheWhole, Carries
          <5> QED BY <1>2, <5>1, <5>2, SlotTypes
        <4>2. CASE p \notin dirty
          BY <2>1, <4>2 DEF Logging, CacheBased
        <4> QED BY <4>1, <4>2
      <3>2. file[0] = Written(wal[0].seq, cache[0].ver, cache[0].count)
        BY <1>4, <2>1, CellValues DEF Logging
      <3> QED BY <1>1, <2>1, <3>1, <3>2 DEF Logging, Saved, CacheWhole
    <2> QED BY <1>1, <2>1 DEF StoreInv, MemoryInv, InRecovery
  <1>8. (Killable \/ PowerSafe)'
    <2> SUFFICES ASSUME PowerSafe PROVE PowerSafe'
      BY <1>1 DEF StoreInv, Killable
    <2>1. Recoverable(file, wal, Trees) /\ walSafe = wal
      BY <1>1, <1>t DEF StoreInv, FileInv, PowerSafe
    <2> QED BY <1>1, <1>t, <2>1 DEF PowerSafe, Trees
  <1>9. (safe[0].seq <= file[0].seq)'
    BY <1>1, <1>t, CellFields, SlotTypes DEF StoreTypes
  <1> QED BY <1>5, <1>6, <1>7, <1>8, <1>9, Zenon DEF StoreInv

LEMMA UnlinkStep ==
  ASSUME StoreInv, StoreTypes', Unlink
  PROVE  StoreInv'
  <1>1. /\ pc = "flushed" /\ pc' = "unlinked" /\ wal' = Nothing
        /\ UNCHANGED <<file, safe, walSafe, cache, dirty, ckpt, clock, committed, attempts,
                       recovering, todo, crash>>
    BY DEF Unlink, memory, history
  <1>2. Settled(file, Trees) /\ Tree(Applied(file, wal)) = Tree(file) /\ wal # Nothing
    BY <1>1 DEF StoreInv, PlaceInv
  <1>3. FileInv'
    BY <1>1, <1>2 DEF StoreInv, FileInv, Recoverable, Whole, Trees
  <1>4. PlaceInv'
    BY <1>1, <1>2 DEF PlaceInv, Trees
  <1>5. MemoryInv'
    BY <1>1 DEF StoreInv, MemoryInv, InRecovery, Saved, CacheWhole
  <1>6. (Killable \/ PowerSafe)'
    <2> SUFFICES ASSUME PowerSafe PROVE PowerSafe'
      BY <1>1 DEF StoreInv, Killable
    <2>1. (\A p \in Slots : file[p] = safe[p]) /\ walSafe = wal
      BY <1>1, <1>2 DEF PowerSafe
    <2>2. file = safe
      BY <2>1 DEF StoreInv, StoreTypes, Cells
    <2>3. Recoverable(safe, wal', Trees)
      BY <1>1, <1>2, <2>2 DEF Recoverable, Whole
    <2> QED BY <1>1, <1>2, <2>1, <2>2, <2>3 DEF PowerSafe, Trees
  <1>7. (safe[0].seq <= file[0].seq)'
    BY <1>1 DEF StoreInv
  <1> QED BY <1>3, <1>4, <1>5, <1>6, <1>7, Zenon DEF StoreInv

LEMMA UnlinkDurableStep ==
  ASSUME StoreInv, StoreTypes', UnlinkDurable
  PROVE  StoreInv'
  <1>1. /\ pc = "unlinked" /\ walSafe' = wal
        /\ UNCHANGED <<file, safe, wal, cache, ckpt, clock, recovering, todo, crash>>
    BY DEF UnlinkDurable
  <1>t. StoreTypes /\ wal = Nothing /\ Settled(file, Trees) /\ NoTree \notin attempts
    BY <1>1 DEF StoreInv, PlaceInv, FileInv
  <1>s. ASSUME Recoverable(file, wal, Trees'), PowerSafe
        PROVE  /\ \A p \in Slots : file[p] = safe[p]
               /\ Recoverable(safe, wal, Trees')
    <2>1. \A p \in Slots : file[p] = safe[p]
      BY <1>1, <1>s DEF PowerSafe
    <2>2. file = safe
      BY <1>t, <2>1 DEF StoreTypes, Cells
    <2> QED BY <1>s, <2>1, <2>2
  <1>9. (safe[0].seq <= file[0].seq)'
    BY <1>1 DEF StoreInv
  <1>2. CASE InRecovery
    <2>1. pc' = "loading" /\ UNCHANGED <<dirty, committed, attempts>>
      BY <1>2, Zenon DEF UnlinkDurable, InRecovery, history
    <2>2. Recoverable(file, wal, Trees')
      BY <2>1 DEF StoreInv, FileInv, Trees
    <2>3. FileInv' /\ PlaceInv'
      BY <1>1, <1>t, <2>1, <2>2 DEF FileInv, PlaceInv
    <2>4. MemoryInv'
      BY <1>1, <2>1 DEF MemoryInv
    <2>5. (Killable \/ PowerSafe)'
      <3> SUFFICES ASSUME PowerSafe PROVE PowerSafe'
        BY <1>1 DEF StoreInv, Killable
      <3> QED BY <1>s, <1>1, <1>t, <2>1, <2>2 DEF PowerSafe
    <2> QED BY <1>9, <2>3, <2>4, <2>5, Zenon DEF StoreInv
  <1>3. CASE ~InRecovery
    <2>1. pc' = "open" /\ dirty' = {} /\ committed' = Tree(cache) /\ attempts' = {}
      BY <1>3, Zenon DEF UnlinkDurable, InRecovery
    <2>2. Saved
      BY <1>1, <1>3 DEF StoreInv, MemoryInv
    <2>3. Tree(file) = Tree(cache) /\ file \in Cells /\ cache \in Cells
      <3>1. file \in Cells /\ cache \in Cells
        BY <1>t DEF StoreTypes
      <3>2. file[0].count = cache[0].count /\ file[0].ver = cache[0].ver
        BY <2>2, CellValues DEF Saved
      <3>3. ASSUME NEW p \in 0 .. file[0].count PROVE file[p].ver = cache[p].ver
        <4>1. p = 0 \/ p \in Pages
          BY <3>1, CellFields, SlotTypes, StoreConstants DEF Pages
        <4> QED BY <2>2, <3>2, <4>1 DEF Saved
      <3> QED BY <3>1, <3>2, <3>3, SameTree
    <2>4. Settled(file, Trees')
      BY <1>t, <2>1, <2>3 DEF Settled, Trees
    <2>5. Recoverable(file, wal, Trees')
      BY <1>t, <2>4 DEF Recoverable, Whole
    <2>6. committed' # NoTree
      BY <2>1, <2>3, TreesExist
    <2>7. FileInv' /\ PlaceInv'
      BY <1>1, <1>t, <2>1, <2>4, <2>5, <2>6 DEF FileInv, PlaceInv
    <2>8. MemoryInv'
      <3>1. file[0].seq = ckpt /\ ckpt \in Nat
        BY <1>t, <2>2, CellValues DEF Saved, StoreTypes
      <3>2. \A p \in Pages : file[p].seq \in Nat
        BY <2>3, CellFields, SlotTypes
      <3>3. Ready'
        BY <1>1, <1>t, <2>1, <2>2, <3>1, <3>2
        DEF Ready, Saved, CacheWhole, CacheBased, CacheNewer, Settled
      <3>4. ~InRecovery'
        BY <1>1, <1>3 DEF InRecovery
      <3> QED BY <2>1, <3>3, <3>4 DEF MemoryInv
    <2>9. (Killable \/ PowerSafe)'
      <3> SUFFICES ASSUME PowerSafe PROVE PowerSafe'
        BY <1>1 DEF StoreInv, Killable
      <3> QED BY <1>s, <1>1, <1>t, <2>1, <2>5 DEF PowerSafe
    <2> QED BY <1>9, <2>7, <2>8, <2>9, Zenon DEF StoreInv
  <1> QED BY <1>2, <1>3

LEMMA FailStep ==
  ASSUME SoundUse, StoreInv, StoreTypes', Fail
  PROVE  StoreInv'
  <1>0. FailPoints \subseteq {"flushed", "unlinked"}
    BY Zenon DEF SoundUse
  <1>1. /\ pc \in {"flushed", "unlinked"} /\ ~InRecovery
        /\ pc' = IF committed = NoTree THEN "closed" ELSE "open"
        /\ UNCHANGED <<file, safe, wal, walSafe, cache, dirty, ckpt, clock,
                       committed, attempts, recovering, crash>>
    BY <1>0, Zenon DEF Fail, InRecovery, disk, memory, history
  <1>2. FileInv'
    BY <1>1 DEF StoreInv, FileInv, Trees
  <1>3. Settled(file, Trees)
    BY <1>1 DEF StoreInv, PlaceInv
  <1>4. PlaceInv'
    BY <1>1, <1>3 DEF PlaceInv, Trees
  <1>5. MemoryInv'
    <2>1. Saved /\ StoreTypes
      BY <1>1 DEF StoreInv, MemoryInv
    <2>2. file[0].seq = ckpt /\ ckpt \in Nat
      BY <2>1, CellValues DEF Saved, StoreTypes
    <2>3. \A p \in Pages : file[p].seq \in Nat
      BY <2>1, CellFields, SlotTypes DEF StoreTypes
    <2>4. Ready'
      BY <1>1, <1>3, <2>1, <2>2, <2>3
      DEF Ready, Saved, CacheWhole, CacheBased, CacheNewer, Settled
    <2>5. ~InRecovery'
      BY <1>1 DEF InRecovery
    <2> QED BY <1>1, <2>4, <2>5 DEF MemoryInv
  <1>6. (Killable \/ PowerSafe)'
    <2> SUFFICES ASSUME PowerSafe PROVE PowerSafe'
      BY <1>1 DEF StoreInv, Killable
    <2> QED BY <1>1 DEF StoreInv, PlaceInv, PowerSafe, Trees
  <1>7. (safe[0].seq <= file[0].seq)'
    BY <1>1 DEF StoreInv
  <1> QED BY <1>2, <1>4, <1>5, <1>6, <1>7, Zenon DEF StoreInv

LEMMA CloseStep ==
  ASSUME StoreInv, StoreTypes', Close
  PROVE  StoreInv'
  <1>1. /\ pc = "open" /\ pc' = "closed"
        /\ UNCHANGED <<file, safe, wal, walSafe, cache, dirty, ckpt, clock,
                       committed, attempts, recovering, todo, crash>>
    BY DEF Close, disk, memory, history
  <1>2. FileInv' /\ PlaceInv'
    BY <1>1 DEF StoreInv, FileInv, PlaceInv, Trees
  <1>3. MemoryInv'
    BY <1>1 DEF StoreInv, MemoryInv, InRecovery
  <1>4. (Killable \/ PowerSafe)'
    BY <1>1 DEF StoreInv, Killable, PowerSafe, Trees
  <1>5. (safe[0].seq <= file[0].seq)'
    BY <1>1 DEF StoreInv
  <1> QED BY <1>2, <1>3, <1>4, <1>5, Zenon DEF StoreInv

LEMMA RecoverStep ==
  ASSUME SoundUse, StoreInv, StoreTypes', Recover
  PROVE  StoreInv'
  <1>0. ChecksHeader
    BY Zenon DEF SoundUse
  <1>1. /\ pc \in {"closed", "open"} /\ InRecovery'
        /\ UNCHANGED <<file, safe, wal, walSafe, cache, dirty, ckpt, clock,
                       committed, attempts, crash>>
    BY Zenon DEF Recover, InRecovery, disk, memory, history
  <1>2. /\ pc' \in {"loading", "flushed", "writing"}
        /\ pc' = "loading" => wal = Nothing
        /\ pc' = "flushed" => wal # Nothing /\ StaleLog
        /\ pc' = "writing" => wal # Nothing /\ todo' = {p \in Logged : p = 0 \/ ~PageCurrent(p)}
    BY DEF Recover
  <1>t. StoreTypes
    BY DEF StoreInv
  <1>r. wal # Nothing => Redoes(file, wal, Trees)
    BY DEF StoreInv, FileInv, Recoverable
  <1>3. FileInv'
    BY <1>1 DEF StoreInv, FileInv, Trees
  <1>4. PlaceInv'
    <2>1. ASSUME pc' = "flushed"
          PROVE  Settled(file, Trees) /\ Tree(Applied(file, wal)) = Tree(file)
      <3>1. StaleLog /\ Redoes(file, wal, Trees)
        BY <1>2, <1>r, <2>1
      <3>2. Readable(file) /\ file[0].seq >= wal[0].seq
        BY <1>0, <3>1, Zenon DEF StaleLog, HeaderCurrent
      <3>3. \A p \in Pages : Carries(wal, p) => file[p].state = "ok" /\ file[p].seq >= wal[0].seq
        BY <3>1, SlotTypes DEF StaleLog, Logged, PageCurrent, Carries, Pages
      <3> QED BY <1>t, <3>1, <3>2, <3>3, StaleIsDone DEF StoreTypes
    <2>2. ASSUME pc' = "writing" PROVE Writing'
      <3>1. todo' = {p \in Logged : p = 0 \/ ~PageCurrent(p)} /\ Redoes(file, wal, Trees)
        BY <1>2, <1>r, <2>2
      <3>2. ASSUME NEW p \in Slots, Carries(wal, p), p \notin todo' PROVE file[p] = wal[p]
        <4>1. p \in Pages /\ PageCurrent(p)
          BY <3>1, <3>2, SlotTypes DEF Logged, Carries
        <4> QED BY <3>1, <3>2, <4>1 DEF Redoes, Fits, PageCurrent
      <3> QED BY <1>1, <3>1, <3>2 DEF Writing, Logged, Carries
    <2> QED BY <1>1, <1>2, <2>1, <2>2 DEF PlaceInv, Trees
  <1>5. MemoryInv'
    BY <1>1, <1>2 DEF MemoryInv
  <1>6. (Killable \/ PowerSafe)'
    <2> SUFFICES ASSUME PowerSafe PROVE PowerSafe'
      BY <1>1 DEF StoreInv, Killable
    <2> QED BY <1>1, <1>2 DEF PowerSafe, Trees
  <1>7. (safe[0].seq <= file[0].seq)'
    BY <1>1 DEF StoreInv
  <1> QED BY <1>3, <1>4, <1>5, <1>6, <1>7, Zenon DEF StoreInv

LEMMA LoadStep ==
  ASSUME StoreInv, StoreTypes', Load
  PROVE  StoreInv'
  <1>1. /\ pc = "loading" /\ ~InRecovery'
        /\ UNCHANGED <<file, safe, wal, walSafe, clock, todo, crash>>
    BY Zenon DEF Load, InRecovery, disk
  <1>t. /\ StoreTypes /\ wal = Nothing /\ Whole(file, Trees) /\ NoTree \notin attempts
    BY <1>1 DEF StoreInv, PlaceInv, FileInv, Recoverable
  <1>9. (safe[0].seq <= file[0].seq)'
    BY <1>1 DEF StoreInv
  <1>a. ~Readable(Nothing)
    BY CellValues, SlotTypes DEF Readable
  <1>2. CASE file = Nothing
    <2>1. /\ pc' = "creating" /\ cache' = EmptyTree /\ dirty' = {0} /\ ckpt' = 0
          /\ UNCHANGED <<committed, attempts>>
      BY <1>2, <1>a DEF Load, history
    <2>2. committed = NoTree
      BY <1>t, <1>2, <1>a DEF Whole, Settled, Trees
    <2>3. FileInv' /\ PlaceInv'
      BY <1>1, <1>2, <1>t, <2>1, <2>2 DEF StoreInv, FileInv, PlaceInv, Trees
    <2>4. Ready'
      <3>1. /\ \A p \in Pages : cache'[p] = Absent
            /\ cache'[0].state = "ok" /\ cache'[0].ver = 0 /\ cache'[0].count = 0
        BY <2>1, CellValues, SlotTypes DEF EmptyTree, Pages
      <3>2. \A p \in Slots : file'[p] = Absent
        BY <1>1, <1>2, CellValues
      <3>3. \A p \in Pages : p \in Nat /\ ~(p <= 0) /\ p \in Slots
        BY SlotTypes DEF Pages
      <3>4. CacheWhole'
        BY <3>1, <3>3, CellValues DEF CacheWhole
      <3>5. CacheBased' /\ CacheNewer'
        BY <2>1, <3>1, <3>2, <3>3, SlotTypes, CellValues DEF CacheBased, CacheNewer
      <3> QED BY <3>4, <3>5 DEF Ready
    <2>5. MemoryInv'
      BY <1>1, <2>1, <2>4 DEF MemoryInv
    <2>6. (Killable \/ PowerSafe)'
      <3> SUFFICES ASSUME PowerSafe PROVE PowerSafe'
        BY <1>1 DEF StoreInv, Killable
      <3> QED BY <1>1, <1>t, <2>1 DEF PowerSafe, Trees
    <2> QED BY <1>9, <2>3, <2>5, <2>6, Zenon DEF StoreInv
  <1>3. CASE file # Nothing
    <2>0. Settled(file, Trees) /\ file \in Cells
      BY <1>3, <1>t DEF Whole, StoreTypes
    <2>1. /\ pc' = "open" /\ cache' = file /\ dirty' = {} /\ ckpt' = file[0].seq
          /\ committed' = Tree(file) /\ attempts' = {}
      BY <1>3, <2>0 DEF Load, Settled
    <2>2. committed' # NoTree
      BY <2>0, <2>1, TreesExist
    <2>3. Settled(file, Trees')
      BY <2>0, <2>1 DEF Settled, Trees
    <2>4. FileInv' /\ PlaceInv'
      BY <1>1, <1>t, <2>1, <2>2, <2>3 DEF FileInv, PlaceInv, Recoverable, Whole
    <2>5. Ready'
      <3>1. file[0].seq \in Nat /\ \A p \in Pages : file[p].seq \in Nat
        BY <2>0, CellFields, SlotTypes
      <3>2. file[0].count = 0 => file[0].ver = 0
        BY <2>0 DEF Settled
      <3> QED BY <1>1, <2>0, <2>1, <3>1, <3>2
          DEF Ready, CacheWhole, CacheBased, CacheNewer, Settled, Readable
    <2>6. MemoryInv'
      BY <1>1, <2>1, <2>5 DEF MemoryInv
    <2>7. (Killable \/ PowerSafe)'
      <3> SUFFICES ASSUME PowerSafe PROVE PowerSafe'
        BY <1>1 DEF StoreInv, Killable
      <3>1. \A p \in Slots : file[p] = safe[p]
        BY <1>1 DEF PowerSafe
      <3>2. file = safe
        BY <1>t, <3>1 DEF StoreTypes, Cells
      <3>3. Recoverable(safe, Nothing, Trees')
        BY <2>3, <3>2 DEF Recoverable, Whole
      <3>4. walSafe # Nothing => Redoes(safe, walSafe, Trees')
        BY <1>t, <2>1, <3>2 DEF PowerSafe, Recoverable, Redoes, Trees
      <3> QED BY <1>1, <1>t, <2>1, <3>1, <3>3, <3>4 DEF PowerSafe, Recoverable
    <2> QED BY <1>9, <2>4, <2>6, <2>7, Zenon DEF StoreInv
  <1> QED BY <1>2, <1>3

LEMMA KillStep ==
  ASSUME StoreInv, StoreTypes', Kill
  PROVE  StoreInv'
  <1>1. /\ pc' = "closed" /\ ~InRecovery' /\ Killable'
        /\ UNCHANGED <<safe, wal, walSafe, cache, dirty, ckpt, clock,
                       committed, attempts, crash>>
    BY Zenon DEF Kill, Down, InRecovery, Killable, memory, history
  <1>2. PlaceInv' /\ MemoryInv'
    BY <1>1 DEF PlaceInv, MemoryInv
  <1>3. CASE UNCHANGED file
    BY <1>1, <1>2, <1>3 DEF StoreInv, FileInv, Trees
  <1>4. CASE /\ pc = "writing" /\ todo # {} /\ Min(todo) # 0
             /\ file' = [file EXCEPT ![Min(todo)] = Torn]
    <2> DEFINE p == Min(todo)
    <2>t. StoreTypes /\ Writing /\ wal # Nothing
      BY <1>4 DEF StoreInv, PlaceInv
    <2>1. p \in Slots /\ p # 0 /\ Carries(wal, p) /\ file' = [file EXCEPT ![p] = Torn]
      BY <1>4, <2>t, LeastTodo DEF StoreTypes, Writing
    <2> HIDE DEF p
    <2>2. file'[p] = Torn /\ \A q \in Slots : q # p => file'[q] = file[q]
      BY <2>1, <2>t DEF StoreTypes, Cells
    <2>3. Redoes(file, wal, Trees)
      BY <2>t DEF StoreInv, FileInv, Recoverable
    <2>4. \A q \in Slots : \/ Carries(wal, q) /\ file'[q] \in {file[q], file[q], Torn}
                           \/ file'[q] = file[q] /\ file'[q] = file[q]
      BY <2>1, <2>2
    <2>5. Redoes(file', wal, Trees)
      BY <2>3, <2>4, <2>t, MixKeeps DEF StoreTypes
    <2>6. FileInv'
      BY <1>1, <2>t, <2>5 DEF StoreInv, FileInv, Recoverable, Trees
    <2>7. (safe[0].seq <= file[0].seq)'
      BY <1>1, <2>1, <2>2, SlotTypes DEF StoreInv
    <2> QED BY <1>1, <1>2, <2>6, <2>7, Zenon DEF StoreInv
  <1> QED BY <1>3, <1>4, Zenon DEF Kill

\* What a power failure leaves of the data file, before the holes in it.
LEMMA PowerLeaves ==
  ASSUME StoreTypes, PowerLoss
  PROVE  \E m \in Cells :
           /\ file' = WithHoles(m) /\ safe' = WithHoles(m)
           /\ m[0] \in {safe[0], file[0]}
           /\ \A p \in Slots : /\ m[p] \in {safe[p], file[p], Torn}
                               /\ file[p] = safe[p] => m[p] = safe[p]
  <1>1. PICK left \in [Slots -> {"old", "new", "torn"}] :
          /\ left[0] # "torn"
          /\ \A p \in Slots : file[p] = safe[p] => left[p] = "old"
          /\ file' = WithHoles([p \in Slots |-> CASE left[p] = "old" -> safe[p]
                                                  [] left[p] = "new" -> file[p]
                                                  [] left[p] = "torn" -> Torn])
    BY Zenon DEF PowerLoss
  <1> DEFINE m == [p \in Slots |-> CASE left[p] = "old" -> safe[p]
                                     [] left[p] = "new" -> file[p]
                                     [] left[p] = "torn" -> Torn]
  <1>2. \A p \in Slots : left[p] \in {"old", "new", "torn"}
    BY <1>1
  <1>3. \A p \in Slots : /\ left[p] = "old" => m[p] = safe[p]
                         /\ left[p] = "new" => m[p] = file[p]
                         /\ left[p] = "torn" => m[p] = Torn
    OBVIOUS
  <1>4. file' = WithHoles(m) /\ safe' = WithHoles(m) /\ m = [p \in Slots |-> m[p]]
    BY <1>1 DEF PowerLoss
  <1> HIDE DEF m
  <1>5. \A p \in Slots : m[p] \in {safe[p], file[p], Torn}
    BY <1>2, <1>3
  <1>6. m \in Cells
    BY <1>4, <1>5, CellTypes DEF StoreTypes, Cells
  <1>7. m[0] \in {safe[0], file[0]}
    BY <1>1, <1>2, <1>3, SlotTypes
  <1> QED BY <1>1, <1>3, <1>4, <1>5, <1>6, <1>7

\* The holes leave the header's sequence.
LEMMA HolesKeepSequence ==
  ASSUME NEW m \in Cells
  PROVE  WithHoles(m)[0].seq = m[0].seq
  <1>1. WithHoles(m)[0] = m[0] \/ (m[0] = Absent /\ WithHoles(m)[0] = Torn)
    BY SlotTypes DEF WithHoles
  <1> QED BY <1>1, CellValues

LEMMA PowerLossStep ==
  ASSUME SoundUse, StoreInv, StoreTypes', PowerLoss
  PROVE  StoreInv'
  <1>1. /\ pc' = "closed" /\ ~InRecovery' /\ "power" \in crash
        /\ wal' \in {wal, walSafe} /\ walSafe' = wal'
        /\ UNCHANGED <<cache, dirty, ckpt, clock, committed, attempts, crash>>
    BY Zenon DEF PowerLoss, Down, InRecovery, memory, history
  <1>2. PlaceInv' /\ MemoryInv'
    BY <1>1 DEF PlaceInv, MemoryInv
  <1>3. PowerSafe
    <2>1. crash \in {{}, {"kill"}, {"power"}}
      BY DEF StoreInv, StoreTypes, SoundUse
    <2>2. ~Killable
      BY <1>1, <2>1 DEF Killable
    <2> QED BY <2>2, Zenon DEF StoreInv
  <1>t. StoreTypes
    BY DEF StoreInv
  <1>4. PICK m \in Cells :
          /\ file' = WithHoles(m) /\ safe' = WithHoles(m)
          /\ \A p \in Slots : /\ m[p] \in {safe[p], file[p], Torn}
                              /\ file[p] = safe[p] => m[p] = safe[p]
    BY <1>t, PowerLeaves
  <1>5. ASSUME NEW w \in {wal, walSafe} PROVE Recoverable(m, w, Trees)
    <2>1. CASE \A p \in Slots : file[p] = safe[p]
      <3>1. m = safe
        BY <1>t, <1>4, <2>1 DEF StoreTypes, Cells
      <3> QED BY <1>3, <1>5, <3>1 DEF PowerSafe
    <2>2. ASSUME NEW q \in Slots, file[q] # safe[q] PROVE Recoverable(m, w, Trees)
      <3>1. pc = "writing" /\ wal # Nothing /\ walSafe = wal /\ w = wal
        BY <1>3, <1>5, <2>2 DEF PowerSafe, StoreInv, PlaceInv
      <3>2. Redoes(file, wal, Trees) /\ Redoes(safe, wal, Trees)
        BY <1>3, <3>1 DEF PowerSafe, StoreInv, FileInv, Recoverable
      <3>3. \A p \in Slots : \/ Carries(wal, p) /\ m[p] \in {file[p], safe[p], Torn}
                             \/ m[p] = file[p] /\ m[p] = safe[p]
        BY <1>3, <1>4 DEF PowerSafe
      <3>4. Redoes(m, wal, Trees)
        BY <1>t, <3>2, <3>3, MixKeeps DEF StoreTypes
      <3> QED BY <3>1, <3>4 DEF Recoverable
    <2> QED BY <2>1, <2>2
  <1>6. \A w \in {wal, walSafe} : Recoverable(WithHoles(m), w, Trees)
    <2> SUFFICES ASSUME NEW w \in {wal, walSafe} PROVE Recoverable(WithHoles(m), w, Trees)
      OBVIOUS
    <2>1. Recoverable(m, w, Trees) /\ w \in Cells
      BY <1>5, <1>t DEF StoreTypes
    <2> QED BY <2>1, HolesKeep
  <1>7. FileInv'
    BY <1>1, <1>4, <1>6 DEF StoreInv, FileInv, Trees
  <1>8. PowerSafe'
    BY <1>1, <1>4, <1>6 DEF PowerSafe, Trees
  <1>9. (safe[0].seq <= file[0].seq)'
    <2>1. file'[0].seq \in Nat
      BY CellFields, SlotTypes DEF StoreTypes
    <2> QED BY <1>4, <2>1
  <1> QED BY <1>2, <1>7, <1>8, <1>9, Zenon DEF StoreInv

LEMMA StoreInvStep ==
  ASSUME SoundUse, StoreInv, [Next]_vars
  PROVE  StoreInv'
  <1>t. StoreTypes'
    BY StoreTypesStep DEF StoreInv
  <1>1. ASSUME NEW pages \in SUBSET Pages, NEW count \in Slots, Mutate(pages, count)
        PROVE  StoreInv'
    BY <1>1, <1>t, MutateStep
  <1>2. CASE UNCHANGED vars
    <2>1. /\ UNCHANGED <<file, safe, wal, walSafe, cache, dirty, ckpt, clock,
                         committed, attempts, pc, todo, crash>>
          /\ UNCHANGED InRecovery
      BY <1>2, Zenon DEF vars, disk, memory, history, control, InRecovery
    <2>2. FileInv'
      BY <2>1 DEF StoreInv, FileInv, Trees
    <2>3. PlaceInv'
      BY <2>1 DEF StoreInv, PlaceInv, Trees, Writing
    <2>4. MemoryInv'
      BY <2>1 DEF StoreInv, MemoryInv, Ready, Logging, Saved, CacheWhole, CacheBased, CacheNewer
    <2>5. (Killable \/ PowerSafe)'
      BY <2>1 DEF StoreInv, Killable, PowerSafe, Trees
    <2>6. (safe[0].seq <= file[0].seq)'
      BY <2>1 DEF StoreInv
    <2> QED BY <1>t, <2>2, <2>3, <2>4, <2>5, <2>6, Zenon DEF StoreInv
  <1>3. CASE Clear
    BY <1>3, <1>t, ClearStep
  <1>4. CASE Sync
    BY <1>4, <1>t, SyncStep
  <1>5. CASE RenameDurable
    BY <1>5, <1>t, RenameStep
  <1>6. CASE WriteSlot
    BY <1>6, <1>t, WriteStep
  <1>7. CASE Flush
    BY <1>7, <1>t, FlushStep
  <1>8. CASE Unlink
    BY <1>8, <1>t, UnlinkStep
  <1>9. CASE UnlinkDurable
    BY <1>9, <1>t, UnlinkDurableStep
  <1>10. CASE Fail
    BY <1>10, <1>t, FailStep
  <1>11. CASE Recover
    BY <1>11, <1>t, RecoverStep
  <1>12. CASE Load
    BY <1>12, <1>t, LoadStep
  <1>13. CASE Close
    BY <1>13, <1>t, CloseStep
  <1>14. CASE Kill
    BY <1>14, <1>t, KillStep
  <1>15. CASE PowerLoss
    BY <1>15, <1>t, PowerLossStep
  <1> QED BY <1>1, <1>2, <1>3, <1>4, <1>5, <1>6, <1>7, <1>8, <1>9, <1>10, <1>11, <1>12,
             <1>13, <1>14, <1>15, Zenon DEF Next

LEMMA StoreInvAlways ==
  ASSUME SoundUse
  PROVE  Spec => []StoreInv
  <1>1. StoreInv /\ [Next]_vars => StoreInv'
    BY StoreInvStep
  <1> QED BY <1>1, StoreInvInit, PTL DEF Spec

(* Commits are atomic and durable: whenever recovery is over, after any      *)
(* number of crashes at any point (recovery included), a file in which a     *)
(* tree was committed holds exactly that tree or one whole tree that an      *)
(* interrupted sync() was committing.                                        *)
THEOREM CommitsAreAtomic ==
  ASSUME SoundUse
  PROVE  Spec => []RecoveredWhole
  <1>1. StoreInv => RecoveredWhole
    <2> SUFFICES ASSUME StoreInv, pc = "loading", committed # NoTree
                 PROVE  Tree(file) \in {committed} \cup attempts
      BY DEF RecoveredWhole
    <2>1. Whole(file, Trees) /\ NoTree \notin Trees
      BY DEF StoreInv, PlaceInv, FileInv, Recoverable, Trees
    <2> QED BY <2>1 DEF Whole, Settled, Trees
  <1> QED BY <1>1, StoreInvAlways, PTL

(* Redo logging is write-ahead logging: while no process is killed, every    *)
(* slot of the data file that an fsync has yet to bring to the disk can be   *)
(* taken from a log that is there already.                                   *)
THEOREM LogComesFirst ==
  ASSUME SoundUse
  PROVE  Spec => []LogBeforePages
  <1>1. StoreInv => LogBeforePages
    <2> SUFFICES ASSUME StoreInv, "kill" \notin crash, NEW p \in Slots, file[p] # safe[p]
                 PROVE  walSafe[p] = file[p]
      BY DEF LogBeforePages
    <2>1. PowerSafe
      BY DEF StoreInv, Killable
    <2>2. pc = "writing" /\ wal[p] = file[p] /\ wal # Nothing
      BY <2>1 DEF PowerSafe, StoreInv, PlaceInv
    <2> QED BY <2>1, <2>2 DEF PowerSafe
  <1> QED BY <1>1, StoreInvAlways, PTL

(* The constructor and reload() never refuse the file: what any crash leaves *)
(* of a tree that was created can be opened again.                           *)
THEOREM FilesReopen ==
  ASSUME SoundUse
  PROVE  Spec => []Reopens
  <1>1. StoreInv => Reopens
    BY DEF StoreInv, PlaceInv, Reopens
  <1> QED BY <1>1, StoreInvAlways, PTL

(* The checkpoint sequence in the header on the disk never goes back, by a   *)
(* sync, a recovery, a clear() or a crash.                                   *)
THEOREM SequenceNeverFalls ==
  ASSUME SoundUse
  PROVE  Spec => SequenceMonotone
  <1>1. StoreInv /\ [Next]_vars => safe'[0].seq >= safe[0].seq
    <2> SUFFICES ASSUME StoreInv, [Next]_vars PROVE safe'[0].seq >= safe[0].seq
      OBVIOUS
    <2>t. /\ StoreTypes /\ safe[0].seq <= file[0].seq
          /\ safe[0].seq \in Nat /\ file[0].seq \in Nat
      BY CellFields, SlotTypes DEF StoreInv, StoreTypes
    <2>1. CASE PowerLoss
      <3>1. PICK m \in Cells : safe' = WithHoles(m) /\ m[0] \in {safe[0], file[0]}
        BY <2>1, <2>t, PowerLeaves
      <3> QED BY <2>t, <3>1, HolesKeepSequence
    <2>2. CASE Flush
      BY <2>2, <2>t DEF Flush
    <2>3. CASE UNCHANGED safe
      BY <2>3, <2>t
    <2>4. \/ UNCHANGED safe \/ Flush \/ PowerLoss
      BY Zenon
      DEF Next, vars, disk, Mutate, Clear, Sync, RenameDurable, WriteSlot, Unlink,
          UnlinkDurable, Fail, Recover, Load, Close, Kill
    <2> QED BY <2>1, <2>2, <2>3, <2>4
  <1> QED BY <1>1, StoreInvAlways, PTL DEF Spec, SequenceMonotone
=============================================================================
