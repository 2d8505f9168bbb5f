----------------------------- MODULE PagedStore -----------------------------
(***************************************************************************)
(* How Gen_File_B_Tree and Gen_File_BPlus_Tree keep their pages on disk:   *)
(* a cache of pages, a redo log (the .wal sidecar) written before the      *)
(* pages, and recovery when the file is opened again.                      *)
(*                                                                         *)
(* The data file is a row of slots: slot 0 is the header, slot p the page  *)
(* with id p.  What a page holds is abstracted to the number of the        *)
(* mutation that wrote it.  File and log exist twice: as a running program *)
(* reads them, and as they are on the disk, which catches up at an fsync   *)
(* and is what a power failure leaves, with any part of what was still on  *)
(* its way.  A killed process loses only what it had not handed over.      *)
(***************************************************************************)
EXTENDS Naturals, FiniteSets, FiniteSetsExt

CONSTANTS
    MaxPages,      \* bound: pages of the file
    MaxClock,      \* bound: mutations
    MaxSeq,        \* bound: checkpoints
    ClearsAny,     \* clear() is called on any file, not only on one as created
    ChecksHeader,  \* recovery looks at the header's sequence (not in the B+ tree)
    CrashKinds,    \* the kinds of crash one behaviour may have
    FailPoints     \* the steps of sync() at which I/O may fail

ASSUME StoreAssumption ==
    /\ MaxPages \in Nat /\ MaxClock \in Nat /\ MaxSeq \in Nat
    /\ ClearsAny \in BOOLEAN
    /\ ChecksHeader \in BOOLEAN
    /\ CrashKinds \subseteq SUBSET {"kill", "power"}
    /\ FailPoints \subseteq {"renamed", "writing", "flushed", "unlinked"}

VARIABLES
    file,        \* the data file as the program reads it
    safe,        \* the data file on the disk
    wal,         \* the log as the program reads it
    walSafe,     \* the log on the disk
    cache,       \* pages_ and the header's fields
    dirty,       \* dirty_pages_, and slot 0 for header_dirty_
    ckpt,        \* checkpoint_sequence_
    pc,          \* where the program is
    recovering,  \* whether it is there for recover_from_wal or for sync
    todo,        \* the slots still to be written
    clock,       \* how many mutations there have been
    committed,   \* history: the tree at the last sync or load
    attempts,    \* history: the trees that a sync has tried to commit since
    crash        \* which kinds of crash this behaviour may have

disk == <<file, safe, wal, walSafe>>
memory == <<cache, dirty, ckpt, clock>>
history == <<committed, attempts>>
control == <<pc, recovering, todo>>
vars == <<disk, memory, history, control, crash>>

Pages == 1 .. MaxPages
Slots == 0 .. MaxPages

\* What a slot holds: nothing, bytes that fail the checksum, or a record
\* with its checkpoint sequence (and the header the number of pages).
Cell == [state : {"absent", "torn", "ok"}, seq : Nat, ver : Nat, count : Slots]
Blank(state) == [state |-> state, seq |-> 0, ver |-> 0, count |-> 0]
Absent == Blank("absent")
Torn == Blank("torn")
Written(seq, ver, count) == [state |-> "ok", seq |-> seq, ver |-> ver, count |-> count]

Nothing == [p \in Slots |-> Absent]
EmptyTree == [p \in Slots |-> IF p = 0 THEN Written(0, 0, 0) ELSE Absent]

\* The tree that some slots hold, and the one of a file never written.
Tree(cells) == [p \in 0 .. cells[0].count |-> cells[p].ver]
NoTree == <<>>

\* read_image succeeds: every checksum is right, and the size of the file is
\* what the header's page count says.
Readable(cells) ==
    /\ cells[0].state = "ok"
    /\ \A p \in Pages : cells[p].state = IF p <= cells[0].count THEN "ok" ELSE "absent"

Init ==
    /\ file = Nothing /\ safe = Nothing
    /\ wal = Nothing /\ walSafe = Nothing
    /\ cache = EmptyTree
    /\ dirty = {}
    /\ ckpt = 0
    /\ pc = "closed"
    /\ recovering = FALSE
    /\ todo = {}
    /\ clock = 0
    /\ committed = NoTree
    /\ attempts = {}
    /\ crash \in CrashKinds

-----------------------------------------------------------------------------
(* Mutations, in the cache only.                                           *)

\* insert or remove: it dirties some pages, and takes new ones from the free
\* list (already counted) or from the end of the file.
Mutate(pages, count) ==
    /\ pc = "open"
    /\ clock < MaxClock
    /\ pages # {}
    /\ cache[0].count <= count
    /\ (cache[0].count + 1) .. count \subseteq pages
    /\ pages \subseteq 1 .. count
    /\ clock' = clock + 1
    /\ cache' = [p \in Slots |->
                   IF p = 0 THEN Written(0, clock', count)
                   ELSE IF p \in pages THEN Written(ckpt + 1, clock', 0)
                   ELSE cache[p]]
    /\ dirty' = dirty \cup pages \cup {0}
    /\ UNCHANGED <<disk, ckpt, history, control, crash>>

\* Mutant: the dirty marks of the discarded pages stay.
ClearKeepingMarks ==
    /\ pc = "open"
    /\ ClearsAny \/ file[0] = Written(1, 0, 0)
    /\ cache' = EmptyTree
    /\ dirty' = dirty \cup {0}
    /\ ckpt' = 0
    /\ UNCHANGED <<disk, clock, history, control, crash>>

\* clear() starts from an empty cache, whose checkpoint sequence is 0.
Clear ==
    /\ pc = "open"
    /\ ClearsAny \/ file[0] = Written(1, 0, 0)
    /\ cache' = EmptyTree
    /\ dirty' = {0}
    /\ ckpt' = 0
    /\ UNCHANGED <<disk, clock, history, control, crash>>

-----------------------------------------------------------------------------
(* sync().                                                                 *)

\* The header, and the dirty pages with the sequence they were marked with.
Log ==
    [p \in Slots |-> IF p = 0 THEN Written(ckpt + 1, cache[0].ver, cache[0].count)
                     ELSE IF p \in dirty THEN cache[p] ELSE Absent]
Logged == {p \in Slots : wal[p] # Absent}

\* The log is written beside the old one, synced with its directory, and
\* renamed over it.
Sync ==
    /\ pc \in {"open", "creating"}
    /\ dirty # {}
    /\ ckpt < MaxSeq
    /\ walSafe' = wal
    /\ wal' = Log
    /\ attempts' = attempts \cup {Tree(cache)}
    /\ pc' = "renamed"
    /\ UNCHANGED <<file, safe, memory, committed, recovering, todo, crash>>

\* Mutant: the directory is not synced after the rename.
RenameUnsynced ==
    /\ pc = "renamed"
    /\ todo' = Logged
    /\ pc' = "writing"
    /\ UNCHANGED <<disk, memory, history, recovering, crash>>

\* The directory is synced: the log is on the disk under its name.
RenameDurable ==
    /\ pc = "renamed"
    /\ walSafe' = wal
    /\ todo' = Logged
    /\ pc' = "writing"
    /\ UNCHANGED <<file, safe, wal, memory, history, recovering, crash>>

\* The header, then the pages by id, from the cache or (in recovery) from the log.
WriteSlot ==
    /\ pc = "writing"
    /\ todo # {}
    /\ LET p == Min(todo) IN
         /\ file' = [file EXCEPT ![p] = wal[p]]
         /\ todo' = todo \ {p}
    /\ UNCHANGED <<safe, wal, walSafe, memory, history, pc, recovering, crash>>

\* Mutant: the data file is not synced.
FlushUnsynced ==
    /\ pc = "writing"
    /\ todo = {}
    /\ ckpt' = wal[0].seq
    /\ pc' = "flushed"
    /\ UNCHANGED <<disk, cache, dirty, clock, history, recovering, todo, crash>>

\* The data file is synced, and the checkpoint is taken as done.
Flush ==
    /\ pc = "writing"
    /\ todo = {}
    /\ safe' = file
    /\ ckpt' = wal[0].seq
    /\ pc' = "flushed"
    /\ UNCHANGED <<file, wal, walSafe, cache, dirty, clock, history, recovering,
                   todo, crash>>

Unlink ==
    /\ pc = "flushed"
    /\ wal' = Nothing
    /\ pc' = "unlinked"
    /\ UNCHANGED <<file, safe, walSafe, memory, history, recovering, todo, crash>>

\* The directory is synced, and sync() returns or recovery is over.
UnlinkDurable ==
    /\ pc = "unlinked"
    /\ walSafe' = wal
    /\ \/ /\ recovering
          /\ pc' = "loading"
          /\ UNCHANGED <<dirty, history>>
       \/ /\ ~recovering
          /\ pc' = "open"
          /\ dirty' = {}
          /\ committed' = Tree(cache)
          /\ attempts' = {}
    /\ UNCHANGED <<file, safe, wal, cache, ckpt, clock, recovering, todo, crash>>

\* A step of sync() throws; out of the constructor, if it was creating the file.
Fail ==
    /\ pc \in FailPoints
    /\ ~recovering
    /\ pc' = IF committed = NoTree THEN "closed" ELSE "open"
    /\ todo' = {}
    /\ UNCHANGED <<disk, memory, history, recovering, crash>>

-----------------------------------------------------------------------------
(* Opening the file and recover_from_wal.                                  *)

PageCurrent(p) == file[p].state = "ok" /\ file[p].seq >= wal[0].seq

\* Mutant: any header of this version will do, as in the B+ tree.
AnyHeaderCurrent == file[0].state = "ok"

\* The file's header already is the log's or a later one.  The B+ tree only
\* looks whether there is a header of this version.
HeaderCurrent ==
    IF ChecksHeader
    THEN Readable(file) /\ file[0].seq >= wal[0].seq
    ELSE file[0].state = "ok"

StaleLog == HeaderCurrent /\ \A p \in Logged \ {0} : PageCurrent(p)

\* The constructor, or reload() on an open tree: a log that is not stale is
\* applied again, a stale one is removed.
Recover ==
    /\ pc \in {"closed", "open"}
    /\ recovering' = TRUE
    /\ \/ /\ wal = Nothing
          /\ pc' = "loading"
          /\ UNCHANGED todo
       \/ /\ wal # Nothing /\ StaleLog
          /\ pc' = "flushed"
          /\ UNCHANGED todo
       \/ /\ wal # Nothing /\ ~StaleLog
          /\ pc' = "writing"
          /\ todo' = {p \in Logged : p = 0 \/ ~PageCurrent(p)}
    /\ UNCHANGED <<disk, memory, history, crash>>

\* Mutant: the sequence is not taken from the header.
LoadWithoutSequence ==
    /\ pc = "loading"
    /\ recovering' = FALSE
    /\ \/ /\ file = Nothing
          /\ pc' = "creating"
          /\ cache' = EmptyTree
          /\ dirty' = {0}
          /\ ckpt' = 0
          /\ UNCHANGED history
       \/ /\ Readable(file)
          /\ pc' = "open"
          /\ cache' = file
          /\ dirty' = {}
          /\ ckpt' = 0
          /\ committed' = Tree(file)
          /\ attempts' = {}
       \/ /\ file # Nothing /\ ~Readable(file)
          /\ pc' = "refused"
          /\ UNCHANGED <<cache, dirty, ckpt, history>>
    /\ UNCHANGED <<disk, clock, todo, crash>>

\* An absent or empty file is created, a readable one loaded; anything else
\* makes the constructor or reload() throw.
Load ==
    /\ pc = "loading"
    /\ recovering' = FALSE
    /\ \/ /\ file = Nothing
          /\ pc' = "creating"
          /\ cache' = EmptyTree
          /\ dirty' = {0}
          /\ ckpt' = 0
          /\ UNCHANGED history
       \/ /\ Readable(file)
          /\ pc' = "open"
          /\ cache' = file
          /\ dirty' = {}
          /\ ckpt' = file[0].seq
          /\ committed' = Tree(file)
          /\ attempts' = {}
       \/ /\ file # Nothing /\ ~Readable(file)
          /\ pc' = "refused"
          /\ UNCHANGED <<cache, dirty, ckpt, history>>
    /\ UNCHANGED <<disk, clock, todo, crash>>

\* The destructor writes nothing.
Close ==
    /\ pc = "open"
    /\ pc' = "closed"
    /\ UNCHANGED <<disk, memory, history, recovering, todo, crash>>

-----------------------------------------------------------------------------
(* Crashes, whatever the program is doing.                                 *)

Down ==
    /\ pc # "closed"
    /\ pc' = "closed"
    /\ recovering' = FALSE
    /\ todo' = {}
    /\ UNCHANGED <<memory, history, crash>>

\* The process dies.  A page is longer than the stream's buffer may be, so
\* half of the one being written can have reached the file.
Kill ==
    /\ "kill" \in crash
    /\ Down
    /\ \/ UNCHANGED file
       \/ /\ pc = "writing" /\ todo # {} /\ Min(todo) # 0
          /\ file' = [file EXCEPT ![Min(todo)] = Torn]
    /\ UNCHANGED <<safe, wal, walSafe>>

\* The part of a file before something that is there reads as zeros.
WithHoles(cells) ==
    [p \in Slots |-> IF cells[p] = Absent /\ \E q \in Pages : q > p /\ cells[q] # Absent
                     THEN Torn ELSE cells[p]]

\* The machine stops.  Each slot not yet synced is the old one, the new one
\* or (a page) garbage; the header lies in one sector and is never torn.  The
\* log was synced before it got its name, so it is the old or the new one.
PowerLoss ==
    /\ "power" \in crash
    /\ Down
    /\ \E left \in [Slots -> {"old", "new", "torn"}] :
         /\ left[0] # "torn"
         /\ \A p \in Slots : file[p] = safe[p] => left[p] = "old"
         /\ file' = WithHoles([p \in Slots |-> CASE left[p] = "old" -> safe[p]
                                                 [] left[p] = "new" -> file[p]
                                                 [] left[p] = "torn" -> Torn])
    /\ safe' = file'
    /\ wal' \in {wal, walSafe}
    /\ walSafe' = wal'

-----------------------------------------------------------------------------
Next ==
    \/ \E pages \in SUBSET Pages, count \in Slots : Mutate(pages, count)
    \/ Clear
    \/ Sync \/ RenameDurable \/ WriteSlot \/ Flush \/ Unlink \/ UnlinkDurable
    \/ Fail
    \/ Recover \/ Load \/ Close
    \/ Kill \/ PowerLoss

Spec == Init /\ [][Next]_vars

-----------------------------------------------------------------------------
(* Properties.                                                             *)

Cells == [Slots -> Cell]

TypeOK ==
    /\ file \in Cells /\ safe \in Cells
    /\ wal \in Cells /\ walSafe \in Cells
    /\ cache \in Cells
    /\ dirty \subseteq 0 .. cache[0].count
    /\ ckpt \in Nat
    /\ pc \in {"closed", "open", "creating", "renamed", "writing", "flushed",
               "unlinked", "loading", "refused"}
    /\ recovering \in BOOLEAN
    /\ todo \subseteq Slots
    /\ clock \in Nat
    /\ crash \in CrashKinds

\* Commits are atomic and durable: whenever recovery is over, after any
\* number of crashes at any point (recovery included), the file holds exactly
\* the last tree that was committed or one whole tree that an interrupted
\* sync() was committing, never a mixture and never an older tree.
RecoveredWhole ==
    pc = "loading" /\ committed # NoTree =>
        Tree(file) \in {committed} \cup attempts

\* Every slot whose content has not reached the disk can be taken from a log
\* that has.  (Where processes are not killed: a log that a killed process
\* left is removed on the evidence of a file that was never synced.)
LogBeforePages ==
    "kill" \notin crash => \A p \in Slots : file[p] # safe[p] => walSafe[p] = file[p]

\* The checkpoint sequence on the disk never goes back, whatever happens.
SequenceMonotone == [][safe'[0].seq >= safe[0].seq]_vars

\* A tree that was ever created can always be opened again.
Reopens == pc # "refused"
=============================================================================
