# Aleph-w in TLA+

Specifications, model-checking runs and machine-checked proofs for the parts of
Aleph-w whose correctness depends on the order in which things happen: threads
that wait for each other, and files that must survive a crash. The library is
mostly sequential data structures and algorithms, which its unit tests compare
with reference implementations; what those tests cannot reach are the
interleavings, the crashes and the long sequences of legal calls, and these are
what is modelled here.

`src/...` below is the root of the repository.

## 1. Inventory

### 1.1 Components with a protocol

**Bounded channel and cooperative cancellation** (`concurrency_utils.H`
141-702, `thread_pool.H` 159-345). State: a deque, a closed flag, one mutex,
two condition variables; and, shared with whoever may cancel, an atomic stop
flag and a registry of condition variables behind a mutex of its own. Operations:
`send`, `emplace`, `recv` (blocking, with and without a token), `try_send`,
`try_recv`, `close`; `notify_on_cancel`, `request_cancel`. Hard: notifications
are sent after the unlock and wake one thread; a woken thread may leave without
using its wake-up (closed, cancelled, an element that throws); the stop flag is
not protected by the channel's mutex. Correct when: the channel is a FIFO queue
of bounded capacity; no wake-up is lost; `close` and cancellation end every
blocked call; nothing stays registered after a call.

**Durable paged store** (`tpl_file_b_tree.H`, `tpl_file_bplus_tree.H`,
`tpl_paged_tree_durability.H`). State: a cache of pages with dirty marks, a
checkpoint sequence, the data file (header and page records, each with a
checksum and the sequence it was written under), a redo log. Operations: insert
and remove (cache only), `sync`, `clear`, `reload`, open with recovery, close.
Hard: pages are overwritten in place, so the log is all that makes a commit
atomic; recovery decides from sequences on the disk what is already applied;
a crash or an I/O error may come between any two steps, recovery included.
Correct when: what is opened is always one whole committed tree, and never an
older one than the last commit; what was once created can be opened.

**B-tree in pages** (`tpl_file_b_tree.H` 388-2555). State: the same cache, as
keys and children of pages, the root, the size, and a list of free pages threaded
through them. Operations: `insert` with preemptive splits, `remove` with
preemptive borrowing and merging, `clear`, `contains`. Hard: no operation undoes
what it did to the path; pages are taken and given back in the middle of others'
use; each changed page must be marked. Correct when: it remains a B-tree of its
keys; every page is in the tree or free; every change is marked.

**Thread pool** (`thread_pool.H` 347-1385). State: a task queue, a stop flag,
`active_tasks`, two queue limits, one mutex, three condition variables, the
workers. Operations: `enqueue`, `enqueue_detached`, `enqueue_batch`,
`enqueue_bounded`, `enqueue_bounded_detached`, `try_enqueue`,
`try_enqueue_detached`, `wait_all`, `wait_all_for`, `wait_all_until`,
`set_queue_limits`, `shutdown`, `resize`, the destructor. Hard: space is
announced only by the pop that finds the queue at exactly the soft limit;
`active_tasks` goes down outside the lock; `try_enqueue` tests and pushes in
two critical sections; `resize` stops and restarts. Correct when: every accepted
task runs once and in order; `shutdown` returns after the last task; nobody
sleeps through what he waits for.

**Parallel algorithms and `TaskGroup`** (`thread_pool.H` 1387-2419,
`ah-parallel.H`): chunks are submitted to a pool and their futures awaited in
order. Hard: an exception of one chunk leaves the others running on the
caller's frame; nested waits on one pool.

**Lock-free queues**: `SpscQueue` (`concurrency_utils.H` 1101-1271), a ring with
two indices; `MpscQueue` (`tpl_mpsc_queue.H`), an intrusive list whose producers
exchange `head_` and link afterwards, and whose consumer puts a stub behind the
last node to detach it. Hard: the chain is broken between an exchange and its
store; the consumer deletes nodes that producers have held pointers to; nothing
but the indices keeps two threads out of one slot. Correct when they are FIFO
queues, touch no memory that is not theirs, and lose nothing in the gap.

**Timeout queue** (`timeoutQueue.H`, `timeoutQueue.C`). State: a heap of events by
time, a map by id, a registry of managed events, each event's status; flags for
pause and shutdown; one mutex, two condition variables, one thread. Operations:
schedule, reschedule, cancel (by pointer and id), cancel and delete, `clear_all`,
`pause`, `resume`, `wait_until_empty`, `shutdown`. Hard: the thread releases the
mutex to wait, to run an event and to call back, and meanwhile anything may happen
to that event; a call that fails may have changed the key of an event in the heap.
Correct when every event runs in time and in turn or is cancelled, once; nothing is
deleted under the thread; `shutdown` and `wait_until_empty` end.

**Pid file lock** (`tpl_paged_tree_durability.H` 268-525): an advisory lock on a
sidecar file plus a registry of paths in the process. Correct when a writer
excludes everyone else.

**Legacy pools** (`worker_pool.H`, `q-consumer-threads.H`), **concurrent hash
map** (`tpl_concurrent_hash_map.H`, striped locks), **lock wrappers**
(`Synchronized`, `RwSynchronized`), **futures, coroutines, signals**
(`future_utils.H`, `experimental_async.H`, `ah-generator.H`, `ah-signal.H`).

### 1.2 Components without one

Search trees, B-trees in memory, skip lists, hash tables, filters, heaps, lists,
arrays, ropes, persistent containers; graphs and graph algorithms; state-space
search; geometry and spatial indexes; numbers, strings, dynamic programming; the
compiler toolkit; cellular automata; arenas and utilities; pictures, I/O and
sockets. All of them are sequential (the parallel automaton engine splits a
sweep over a thread pool and waits for it), and none is modelled but one:
`PROJECT.json` lists each with its reason. The exception is the binary heap
(`tpl_binHeap.H`), since the order of the timeout queue rests on it: insert, update,
take the root, remove any node. Hard: a node that replaces another comes from a
different subtree. Correct when the heap loses no node and its root is a least one
after every operation.

### 1.3 How they interact

- The channel borrows its cancellation from `thread_pool.H`: a blocking call
  registers its condition variable with the token's state, and
  `request_cancel` notifies what is registered.
- The parallel algorithms, the parallel automaton engine and the bridge for
  coroutines submit tasks to the pool and wait for futures.
- Both file trees use the durability helpers (rename, remove and fsync with the
  directory) and hold a pid file lock while they are open; the file maps
  (`tpl_file_b_map.H`, `tpl_file_bplus_map.H`) are wrappers of the trees.

## 2. Modules

| module | what it is | extends |
|---|---|---|
| `BoundedFifo` | what a closable bounded FIFO queue promises | |
| `BoundedChannel` | the channel with cancellation; implements `BoundedFifo` | |
| `MpscQueue` | the linked lock-free queue; implements `BoundedFifo` | |
| `SpscQueue` | the lock-free ring; implements `BoundedFifo` | |
| `PagedStore` | the file trees' commit, crash and recovery | |
| `PagedBTree` | the B-tree in the pages that `PagedStore` makes durable | |
| `ThreadPool` | the pool | |
| `BinHeap` | the binary heap's operations, as operators on sequences | |
| `TimeoutQueue` | the timer thread and its clients | `BinHeap` |
| `CountingLemmas` | finite sets that gain and lose members; the least of a set of numbers | library |
| `BoundedChannelProofs`, `ThreadPoolProofs`, `TimeoutQueueProofs`, `PagedStoreProofs`, `PagedBTreeProofs` | theorems | each its module, most of them `CountingLemmas` |
| `LockFreeQueueProofs` | theorems | `SpscQueue`, `MpscQueue`, `CountingLemmas` |
| `PagedBTreeOrderProofs` | theorems; its lemmas about single pages end `PagedBTreeProofs` | `PagedBTreeProofs` |
| `MCLockFreeQueues` | the sum of the two lock-free queues, for TLC | `MpscQueue`, `SpscQueue` |
| other `MC...` | instances for TLC | each its module |

Operators named as mutants (their comments begin with "Mutant:") are not part of
a specification. Each is a plausible mistake in the definition that follows it,
and `PROJECT.json` names the property that TLC reports violated when the mistake
takes the definition's place.

### 2.1 BoundedChannel

One step is a whole critical section that does not wait, or one of the points
where another thread can get in. The program counter of a thread is

    idle -> entering -> testing -> registering -> registered -> looping
         -> sleeping -> waiting -> woken -> looping ... -> notifying -> idle

`entering` and `woken` need the mutex (`Acquire`). `testing` to `registered` are
the lines of `wait_with_cancellation` and `notify_on_cancel` and are passed only
by calls with a token, since the stop flag may change between any two of them.
`Decide` and `Sleep` are the two halves of `condition_variable::wait` when its
predicate is false: in between, the thread still holds the mutex, but
`request_cancel`, which never takes it, can slip in. `Proceed` is the rest of
the critical section; its element leaves or enters the deque there. `Notify` is
the `notify_one` after the unlock. `TrySend`, `TryRecv` and `Close` have no
internal waiting and notify while they hold the mutex, so each is one step (an
element that throws in `try_send` or `try_recv` leaves everything as it was). `Throw` is the same critical section when the
element's copy or move throws, which leaves the deque as it was.

`RequestCancel`, `CopyObservers` and `NotifyObserver` are the three parts of
`request_cancel`. Registering and unregistering are atomic, because the
registry's own mutex makes them so. Condition variables notify one arbitrary
waiter, or all, and wake spuriously. Elements are pairs of a sender and the
number of its call.

`taken` and `elementThrew` are history: the elements received so far, and
whether an element has ever thrown.

### 2.2 PagedStore

The file is an array of slots: slot 0 the header, slot p the page p. A slot is
absent, torn, or a record with the checkpoint sequence it was written under and,
for content, the number of the mutation that wrote it. File and log each exist
twice: what the program sees (`file`, `wal`) and what is on the disk (`safe`,
`walSafe`); an fsync makes them equal.

`Mutate` is any insert or remove: a set of pages becomes dirty, and the number of
pages may grow. The B-tree algorithm that chooses the pages is abstracted to that
choice, so every pattern of dirty pages occurs, those of splits, merges and page
reuse among them. `Sync` writes and syncs the log under a temporary name and
renames it; `RenameDurable` syncs the directory; `WriteSlot` writes one slot,
the header first; `Flush` syncs the file and advances the sequence; `Unlink` and
`UnlinkDurable` remove the log. `Fail` is an exception out of `sync` at one of
these points. `Recover` is the head of `recover_from_wal`, with its test for a
stale log; it then goes through the same writing steps, and `Load` reads the
result (or creates the file, or refuses it). `Clear` and `Close` are the methods
of these names.

`Kill` loses the process: the operating system keeps what was written, and half a
page may have been. `PowerLoss` loses the machine: each slot not yet synced is
old, new or garbage, independently; a directory entry not yet synced is there or
not. The header fits one sector and is written in one piece, so it is old or new
but never garbage.

Constants choose the variant: `ChecksHeader` is whether the stale test looks at
the header (the B-tree does, the B+ tree does not); `ClearsAny` whether `clear` is
used on a tree with pages; `CrashKinds` and `FailPoints` which crashes and which
I/O errors occur.

Left out: the contents of pages (`PagedBTree` has them), read-only handles, the
upgrade of legacy files through the `.journal`, and the lock.

### 2.3 ThreadPool

Everything that a predicate of a wait reads changes under the one mutex, except
`active_tasks`, and no thread is between a test and its sleep without the mutex.
So a critical section is one step, "test the predicate and sleep" is one step,
and the notifications after the unlock (`TellSpace`, `Notify`, `StopAll`) are
steps of their own. `active_tasks` is decremented without the lock (`Finish`);
only that makes a waiter's predicate true between its test and its sleep, and
the worker's second look, under the lock, comes after (`TellIdle`). A wait that
goes to sleep in the same step as its test is therefore exact: `TellIdle` cannot
run in between.

Tasks are numbered in the order of their acceptance. They end, and do nothing to
the pool. `wait_all` polls `is_idle` and is the same test as a `wait_all_for`
that times out at once. The owner is one thread that calls `set_queue_limits`,
`resize` and `shutdown` (the destructor does what `shutdown` does);
`resize` is called, as its documentation demands, when no other thread is
submitting. `enqueue_bulk` is a loop of `enqueue`. Statistics and the exception
callback are left out.

### 2.4 MpscQueue

One step is at most one access to memory that another thread writes: `Exchange`
and `Link` are the two of `push_node`; `LoadNext`, `LoadNextOfNext`, `LoadHead`,
`ResetStub`, `ExchangeStub`, `LinkStub` and `ReloadNext` are those of `pop_node`,
in its order. What only one thread can see goes with the access before it: the
node under construction, the consumer's `tail_`, the value moved out and the node
deleted (`DeleteNode`, also when the move throws). Steps are interleaved, one
memory for all. The code's orders are acquire and release. That suffices for the
interleaving: each link is stored once per use of its node, with release, by the
thread that exchanged the node before it, and the consumer loads it with acquire
before it touches the next node; the exchanges of `head_` are read-modify-writes and
see each other in their order; and a stale value of `head_` is what a load before the
latest exchange returns, which is an interleaving too.

Node addresses come from a finite set and are used again once deleted, so that a
pointer kept too long is seen to hit another node. `Destroy` is the destructor,
run as the documentation demands while nobody is inside; what it deletes is the
least set that contains `tail_` and is closed under `next` (`Visited`), and must be
every node. `chain` (the nodes in the order of their
exchanges), `taken` and `excuse` (whether the running `try_pop` has met an empty
queue or a push in flight) are history. A push counts from its exchange on, a pop
from the step in which `pop_node` decides to return a node.

### 2.5 SpscQueue

A side loads the other's index once per call, then works on a slot, then stores
its own index: `LoadRingHead`, `Construct`, `PublishTail` and `LoadRingTail`,
`Extract`, `ResetSlot`, `ReleaseHead`. Work on a slot is a state in which a
thread is inside it. Construction and extraction may throw; an element that is
moved out by a constructor that cannot throw and then assigned by an operator
that does is left out, since elements have no moved-from state here.

`MCLockFreeQueues` chooses in the initial state which of the two queues runs.
They share nothing, so this checks the sum of their states and not the product.

### 2.6 TimeoutQueue

A step is a critical section of the mutex, or what a thread does after its unlock:
`NotifyAfter` for the cancellations, `AfterFinish` for the worker, one step per
event for `clear_all` and for the drain after shutdown. The worker's places are

    awake -> timed wait (-> roused) -> running -> finished -> awake ...
          -> sleeping -> awake            any wait -> draining -> ended

`Decide` is the loop's head up to the wait that releases the mutex; `original` is
the time waited for. `TimedOut` may come with a notification or without, whenever
the clock has reached `original`; it looks again at pause, shutdown and the new
first event. `Finish` is the critical section after `EventFct`, by the event's
status. The heap is the sequence of its events in level order (2.8), and the first is
`Top`. Events are allocated once; a caller uses a pointer until it has given it up for
deletion. `EventFct` and callbacks are represented by the calls they make, which
any client can make at that moment. The clock is one clock, since the deadline is
converted to the steady clock at the moment of the wait.

`Requeues` lets a running event be scheduled again, by itself or by a client
(`timeoutQueue_test.cc` has such an event). It must then not be cancelled or deleted
before it returns: `Finish` would find its id gone from the map, and the exception
of `event_map.remove` ends the process, or would read a deleted event
(`worker = "terminated"`, reachable; a program that schedules its event in
`EventFct` and cancels it before the return does end so). The history `requeued`
marks these behaviours, and `WorkerSafe` excepts them by name.

`Schedule` has the three outcomes of the code: the event is in the heap and the call
throws (`Rekey`), the queue is shut down and the event left out (`TurnAway`), or it
enters the heap (`Enqueue`). The trigger time, which is the event's key in the heap,
is written in every case, and `Rekey` does nothing else: the key changes and the heap
stays as it was, so that it may be out of order, and what is inserted and removed
afterwards is sifted through a heap out of order. (`schedule_event` with nanoseconds out
of range and `Event::set_trigger_time` write the key of a queued event in the same
way.) The history `rekeyed` marks this until the heap is empty, when no order is left
to be wrong; `StartsInTime` excepts these behaviours from its second half by name.
Without the exception TLC finds it violated: two events are queued for time 0,
`schedule_event` gives the first the time 1 and throws, and at 1 the worker starts it
while the other, due at 0, is queued. A program that makes such calls does see its
events run in the wrong order. The class documentation ("Events ordered by trigger
time using a binary heap", `timeoutQueue.H:43`) does not say that a failed call has
such an effect.

The code writes the key without the mutex, before the critical section. The model
writes it in the same step. For an event outside the heap nobody reads the key in
between; if another thread puts the event into the heap meanwhile, with this time or
its own, the call is a `Rekey` at the moment of the write. For an event in the heap
the rest of the call is the throw. A write that falls into another thread's critical
section makes that thread compare with the old key and the new one; the heap may then
be ordered by neither, which is what `rekeyed` says of it anyway. Seconds and
nanoseconds are taken to be written together; otherwise the worker may also act on a
time nobody has asked for.

Also noticed: an event scheduled after `shutdown` enters the registry and stays there,
also when it is deleted (`Bookkeeping` says so); and `wait_until_empty` does not wait
for the event that is running.

### 2.7 PagedBTree

The functions of the code are operators on a record `tree` with what they share:
pages, head of the free list, dirty marks. `SplitChild`, `InsertNonfull`,
`BorrowFromPrev`, `BorrowFromNext`, `MergeChildren`, `EnsureChildHasExtra`,
`RemoveFrom`, `AllocatePage` and `ReleasePage` are the functions of these names,
with positions from 1; an operation of the class is one action that applies them
(`InsertKey`, `RemoveKey`, `ClearTree`, `Sync`), since a handle is used by one
thread at a time. An index outside a page is recorded in `tree.wild`, and nothing
is claimed after it. `saved` is what the last `sync` wrote, and `stored` is
history: the set of keys the operations should have left.

`insert_nonfull` and `remove_from` end by calling themselves on another page, and
`remove` by a loop over the root. A call in progress is a record of the function
to be run, the tree, the page it has come to and the key; `InsertNonfull`,
`RemoveFrom` and `ShrinkRoot` lead from one call to the next (`Pass`), and `Call`
makes as many passes as there are pages, which is more than there are levels; a
call that has returned stays as it is. `min_in`, `max_in` and `contains` walk down
likewise (`Follow`). The first session (`Fillings`) inserts keys that are each
new, so that `Filled` need not ask `contains` between them as `insert` does;
`InOrder` and `LeafDepths`, in which `WellFormed` is stated, go through the pages in
use.

### 2.8 BinHeap

The nodes of `GenBinHeap` are linked as a complete tree. The model has the tree as the
sequence of its nodes in level order: `root` is at place 1, `last` at the last one,
the children of place `k` at `2k` and `2k + 1`. `swap_with_parent` exchanges two
places; `sift_up` and `sift_down` move a node along a path and every node it meets
one place back (`Sift`), where the path (`Way`) depends on the keys: upwards while the
parent's key is greater, downwards to the lesser child, the left one of equals, unless
its key is greater. Equal keys do go down, as in the code. `HeapInsert`,
`HeapUpdate`, `HeapGetMin` and `HeapRemove` are the four operations; `remove` keeps its
cases (the root, the last node, any other one). Its further case, a node that becomes the
last one by the removal of the last, gives the same heap as the general one. The pointers
themselves (the list through the leaves, the bits) are not modelled. A program that
applied a million random operations to a `BinHeapVtl` and to such a sequence found the
same order of nodes in both, for heaps of up to 12 nodes, also with keys changed
without `update`.

The operators do not assume that the heap is in order, because `TimeoutQueue` applies
them to heaps that are not.

## 3. Runs

| run | instance | result |
|---|---|---|
| `channel` | 2 senders of 2 calls, 2 receivers of 1 call, capacity 2, one token, throwing elements | pass |
| `channel_cancel` | 1 sender, 1 receiver with a token, capacity 1 | `CancellationReleases` violated |
| `store` | 3 pages, 3 mutations, 3 checkpoints, kills or power failures, I/O errors after the flush | pass |
| `store_bplus` | 2 pages, power failures, B+ tree's stale test | `RecoveredWhole` violated |
| `store_clear` | 2 pages, no crash, `clear` on any tree | `Reopens` violated |
| `store_retry` | 2 pages, kills, I/O errors while the file is written | `RecoveredWhole` violated |
| `pool` | 2 workers, 2 callers of 3 calls in all, 1 waiter, limits (1,2) and (2,2), 1 control call | pass |
| `pool_retune` | 1 worker, 2 callers of 2 calls in all, limits changed while a caller is blocked | `BlockedReturn` violated |
| `queues` | 2 producers of 3 calls, 1 consumer, 3 node addresses; a ring of capacity 3, 9 pushes, throwing elements | pass |
| `timeout` | 2 events, 2 clients of 4 calls in all, times 0 to 2, running events scheduled again | pass |
| `btree` | minimum degree 2, trees of 0 to 11 keys, 4 operations with any of 13 keys, present or not | pass |
| `btree_absent` | minimum degree 2, a tree of 18 keys and 4 levels, 4 operations | `IndexInRange` violated |

Deadlock is not checked: the calls are bounded, and when they are used up the
system has stopped rightly; a refused file is a final state as well.

### 3.1 What the passing runs show

`channel`. `ReceiverWakeups` and `SenderWakeups` count: while receivers sleep,
there are at least as many receivers awake or senders about to notify as there
are queued elements, and symmetrically. They hold as long as no element throws;
an element that throws takes a wake-up with it, and the model has that
(`elementThrew`). `SenderOrder` is over the history: what one sender sent is
received in order and once. `ImplementsFifo` is refinement of `BoundedFifo` with
the deque as its contents. `ClosedNobodySleeps` and `CloseReleases` are the
safety and the liveness side of `close`. Two threads on either side
are the least with which one of them can use up a wake-up meant for the other;
capacity 2 is the least at which the queue has an order, and at which two free
places or two elements can be owed two wake-ups at once.

`store`. `RecoveredWhole`: whenever recovery is over, the file holds the last
committed tree or a whole tree that an interrupted `sync` was committing.
`LogBeforePages` is the reason: a slot whose content is not on the disk is in a
log that is. `Reopens`: the file is never refused. `SequenceMonotone`: the
sequence on the disk, which recovery relies on, never goes back. Three
checkpoints give a log that is older, as old and newer than the file; three pages
give a header, a page already written and one not yet written, with growth.
Any number of crashes may follow each other, and they may hit recovery.

`pool`. `FifoExecution` says that the queue is always exactly the accepted tasks
that have not begun: none lost, repeated or overtaken, across `resize` and
`shutdown`. `ShutdownCompletes` and `StopsReturn`: `shutdown` returns, and after
the last task. `WorkerWakeups`, `SpaceWakeups`, `IdleWakeups`: none of the three
condition variables has a sleeper whose event has happened and whose notifier is
gone. `BlockedReturn`: a caller blocked at the soft limit returns.

`queues`. `ChainLinked` is the shape of the list at every step, `NodeLifetime` that
nobody keeps a pointer to a deleted node and that the destructor frees all.
`HonestEmpty` is the documentation's account of a failed `try_pop`: at some moment
of the call the queue was empty or a push in flight. `EveryPushArrives`: a
consumer that keeps polling gets everything, the last element included, for which
it has to push the stub. `SlotLifetime` relates slots, indices and the place of
the two threads. Both queues refine `BoundedFifo`. Two producers are the least
between whose exchange and link another's push can complete; with six pushes on
three addresses every address is used again, and the stub passes through every
place of the chain. Nine pushes take both indices of the four-slot ring around
twice.

`timeout`. `Bookkeeping` ties the four records of an event to each other and counts
every insertion; `StartsInTime`: the event the worker starts is due and the queue
neither paused nor shut down, at that very step, whatever calls have failed before, and
no earlier event is queued unless one has changed a key in the heap;
`WorkerSafe`: see 2.6.
`EmptyWakeups`, `EventsFire` and `ShutdownDrains`: no sleeper is forgotten, an event
due is taken out unless the queue is paused, and after shutdown the worker ends.
Two events are the least for one to become first while the other is waited for or
runs; four calls are enough for schedule, reschedule, cancel and a wait in one
behaviour, or for two events queued, one given another key by a call that throws, and
one more call on the heap that leaves.

Two events make no heap worth the name, so `MCTimeoutQueue` assumes, and TLC
therefore evaluates, that each of the heap's operations, applied to any heap of up to 6
nodes in order, with any of three keys, gives a heap in order of the nodes it should
have (`HeapOperations`). Six are the least with which a node that replaces another may
have to go up, and three keys give smaller, equal and greater ones.

`btree`. `WellFormed` is what `verify()` tests of the whole and that the tree holds
exactly the keys it should; `NodesFit` what it tests of each page, its array bounds
among them. `PagesAccounted`: every page has one place, in the tree or on the free
list. `DirtyCovers`: what differs from the last `sync` is marked. The starting trees (filled upwards,
downwards and inside out) have one to three levels, so that four operations split,
borrow on both sides and merge at leaves and above them, grow and shrink the root,
and use released pages again; minimum degree 2 is the least the template admits
and makes every page nearly full or nearly empty.

### 3.2 What the others show

Each finds a behaviour that a document of the repository excludes; `PROJECT.json`
("findings") quotes it.

- `channel_cancel`: `request_cancel` between a waiter's test and its sleep is
  missed, since it does not take the mutex the waiter holds.
- `store_bplus`: the B+ tree's recovery drops a log whose pages are on the disk
  and whose header is not.
- `store_clear`: after `clear` and `sync` the file is longer than the header
  says, and the next open refuses it. The passing run calls `clear` only on a
  tree as created, where this cannot happen.
- `store_retry`: a `sync` that failed while writing pages and is tried again
  after another mutation reuses its checkpoint sequence; a crash then makes
  recovery keep pages of the failed attempt. The passing run has I/O errors only
  at later points.
- `pool_retune`: raising the soft limit under a blocked caller loses its
  wake-up. In the passing run limits change only while nobody is blocked.
- `btree_absent`: a `remove` that finds nothing returns before the root is shrunk.
  Repeated, such calls leave a root without keys above a child with the fewest,
  and the next `remove` merges that child with a sibling at index -1. The passing
  run has such calls too, on trees where four of them do not get that far: until
  then the tree remains well formed by `verify()`'s rules.

Two more behaviours are reachable with other constants and kept out of the runs,
because no document excludes them: a kill followed by a power failure
(`CrashKinds = {{"kill", "power"}}`) loses pages whose log was removed on the
evidence of a file never synced, and a failing directory sync after the log's
rename (`FailPoints = {"renamed"}`) does so too.

### 3.3 Fairness

`BoundedChannel`: weak fairness of a thread's steps inside a call (a thread that
can run does), strong fairness of `Acquire` (a mutex is not withheld for ever
from a thread that keeps asking; C++ promises no order, but the implementations
do not starve), weak fairness of the canceller's remaining steps. None on calls, on
`Close`, on `RequestCancel` or on spurious wake-ups: the environment owes nothing.

`ThreadPool`: weak fairness of each worker (a task ends), of a caller inside a
call, and of the owner inside `shutdown` or `resize`. None on submissions,
time-outs or spurious wake-ups.

`MpscQueue`: weak fairness of `Link` (a producer finishes the push it has begun)
and of the consumer's steps (it polls). None on pushes or the destructor.

`TimeoutQueue`: weak fairness of the worker (`EventFct` and callbacks return, the
mutex is not withheld), of what a client has begun, and of the clock. None on calls.

`PagedStore`, `PagedBTree` and `SpscQueue` have safety properties only.

## 4. Proofs

Every theorem holds for all values of the module's constants that its ASSUME
admits: all finite sets of threads, workers, events, all capacities, numbers of
pages and bounds on calls. Further assumptions are named in the theorem, and only
two kinds are needed; see below.

| module | theorem | property |
|---|---|---|
| `BoundedChannelProofs` | `TypeCorrect` | `TypeOK` |
| | `MutualExclusion` | (`MutexHeldInside`, not a property of a run: a part of the argument) |
| | `NobodySleepsOnClosed` | `ClosedNobodySleeps` |
| | `NoReceiverWakeupLost`, `NoSenderWakeupLost` | `ReceiverWakeups`, `SenderWakeups` |
| | `RegistrationsEnd` | `ObserversAreCallers` |
| | `SendersKeepOrder` | `SenderOrder` |
| | `ChannelImplementsFifo` | `ImplementsFifo` |
| `ThreadPoolProofs` | `TypeCorrect` | `TypeOK` |
| | `TasksInOrder` | `FifoExecution` |
| | `NothingLeftBehind` | `ShutdownCompletes` |
| | `WorkersAreWoken`, `WaitersAreTold` | `WorkerWakeups`, `IdleWakeups` |
| | `CallersAreTold` (`~RetunesBusy`) | `SpaceWakeups` |
| `TimeoutQueueProofs` | `QueueTypeCorrect` | `TimeoutTypeOK` |
| | `RecordsAgree` | `Bookkeeping` |
| | `WorkerSurvives` | `WorkerSafe` |
| | `WaitersAreWoken` | `EmptyWakeups` |
| | `NeverEarly` | `StartsInTime` |
| | `HeapStaysInOrder` | (`HeapInv`, a part of the inductive invariant) |
| `LockFreeQueueProofs` | `SlotsAreOwned` | `SlotLifetime` |
| | `RingIsFifo` | `SpscImplementsFifo` |
| | `QueueTypeCorrect` | `MpscTypeOK` |
| | `ChainHolds` | `ChainLinked` |
| | `NodesOutliveTheirUse` | `NodeLifetime` |
| | `EmptyIsHonest` | `HonestEmpty` |
| | `LinkedQueueIsFifo` | `MpscImplementsFifo` |
| `PagedStoreProofs` | `StoreTypeCorrect` | `TypeOK` |
| | `CommitsAreAtomic` (`SoundUse`) | `RecoveredWhole` |
| | `LogComesFirst` (`SoundUse`) | `LogBeforePages` |
| | `FilesReopen` (`SoundUse`) | `Reopens` |
| | `SequenceNeverFalls` (`SoundUse`) | `SequenceMonotone` |
| `PagedBTreeProofs` | `BTreeHolds` | (`BTreeInv`, the inductive invariant) |
| | `DirtyCoversHolds` | `DirtyCovers` |
| | `NodesFitHolds` | `NodesFit` |
| | `PagesAccountedHolds` | `PagesAccounted` |
| `PagedBTreeOrderProofs` | `WellFormedHolds` | `WellFormed` |

The two assumptions exclude what the violating runs show to be wrong with the code,
and nothing else that a run has found to be right. `~RetunesBusy`: the limits are not
changed under a blocked caller (`pool_retune`). `SoundUse`: `clear` only on a tree as
created (`store_clear`), a recovery that looks at the header (`store_bplus`), I/O
errors of `sync` only after the file is flushed (`store_retry` and 3.2), crashes of one
kind in a behaviour (3.2).

### 4.1 The arguments

*Channel.* Three layers, each using the ones before it, and two beside them.
`TypeInv` is `TypeOK` with two facts it needs to be inductive: a thread in a call
has counted it (so that the element `<<t, calls[t]>>` is an element), and only calls
with a token are at the labels of the token's path (so that only they register).
`LockInv` adds `MutexHeldInside`, `ClosedNobodySleeps` and `UnreadyInside`: a thread
that has found its predicate false and has not yet slept is still right about it.
Without that, a thread could go to sleep on a channel closed after its test; it
cannot, because it holds the mutex that `close` takes. `WakeInv` adds the counts
of `ReceiverWakeups` and `SenderWakeups`: a step moves one thread in or out of the
sets of awake and owing threads and changes the queue by one, and a thread goes to
sleep with its predicate false, that is, when there is nothing to account for.
`OrderInv` is about everything ever sent (what was taken followed by the queue): the
elements of one sender have ascending numbers (`Ascending`), none above the number of
his calls, nor equal to it while the call is under way (`Numbered`). Refinement
follows from the types: each step is a `Put`, a `Take`, a `Close` or leaves queue,
history and flag alone.

*Pool.* `TypeInv` has `active` as the number of workers that execute a task, which
types alone do not give. Tasks are accepted in order, so the queue is the interval
between the number begun and the number accepted (`Queued`). `PhaseInv` ties the
phases of `shutdown` to the workers: the pool is stopped exactly from `shutdown` or
`resize` on, a worker that has left did so on an empty queue, the pool has threads
until it is down. The wake-ups are accounts as in the channel (`Balanced` in
`CountingLemmas`): while workers sleep and no `notify_all` is owed, there are at most
as many tasks as workers woken and callers about to notify.

*Timeout queue.* `QueueInv` joins the types; the four records as functions of each
event's status (`RecordsInv`); the account of insertions, where the event that runs
is the difference (`Account`); what the worker knows of the event it runs
(`WorkerInv`: it is executing, or condemned and unknown to the registry, unless it
has been scheduled again, which `requeued` remembers); and the sleepers of
`wait_until_empty`. A client's step is one of six effects on the records (`Effect`),
so that each conjunct is shown for six effects and not for every operation; a call
that only changes a key does nothing to the records. `HeapInv` says that the heap has
each of its events once (`Once`), so that its length is their number, and that it is in
order unless a key was changed in it. It has its own account of what a step does to heap
and keys (`HeapEffect`): nothing, an insertion, a removal, a new key for an event outside
the heap, or one for an event in it, which is the only one that may disturb the order and
the only one that sets `rekeyed`. `NeverEarly` then has two parts. That an event is due
needs no order: `TimedOut` looks at the key of the very event it starts. That it is
first does: with `~rekeyed` the heap is in order, and its root is a least one
(`RootIsLeast`).

*Heap.* A sift permutes the places of the heap (`SiftKeeps`), whatever the keys; so no
operation loses a node or repeats one (`InsertFacts`, `UpdateFacts`, `GetMinFacts`,
`RemoveFacts`), also in a heap out of order. For the order, the node at place `p`
is the only one that may be wrong: the rest is in order (`OrderedBut`) and no child of
`p` is smaller than the parent of `p` (`ParentUnder`). `SiftDownOrders` says that the
node then goes down and the heap is in order, or stays and is in order with its
children (`ChildrenOver`), from where `SiftUpOrders` goes on. A node that `remove` puts
in another's place meets the condition because the one that was there stood between
its parent and its children, and `update` tries both ways. That the root
is least is proved from a least counterexample.

*Ring.* `SlotInv`: the slots between the indices hold an element and no other does,
except the one a thread is inside. The refinement maps the ring to the sequence of
its slots, and shows by the index arithmetic that a step of either side is one end of
it.

*Linked queue.* `Shape` is the heart: of the nodes in the order of their exchanges,
each is linked to the next, or the gap between them is known to a producer (or the
consumer, for the stub) that has still to close it. `PlaceInv` says for each place of
the consumer what it knows of its node and its successor; `OwnInv` which nodes are
under construction, `ExcuseInv` what an unsuccessful `try_pop` has met. `ChainLinked`
and `NodeLifetime` follow, and the queue implemented is the chain without its stub
(`Row`): detaching a node is taking the head of it, whether the stub is
behind or before it.

*Store.* `Recoverable` says of a file and a log what recovery makes of them: without a
log the file is whole; with one, the log is good and, put over the file, gives a
committed tree or one being committed. `FileInv` demands it of the program's view,
`PowerSafe` of everything a power failure may leave on the disk, where each slot not
yet synced is chosen by itself; that every such mixture stays recoverable is the lemma
`MixKeeps`. `PlaceInv` relates file, log and memory at each place of `sync` and
recovery, `MemoryInv` the cache to the file. `LogBeforePages`, `RecoveredWhole` and
`Reopens` are consequences.

*B-tree.* `BTreeInv` says that the cache is sound and its changes are marked
(`Covered`). `NodesFit` is not inductive, since a page may be split or merged only
because of what is around it, and neither is `PagesAccounted`: which page names a
page must be known before one can say that no other does. `Sound` therefore
asserts a witness: for every page the page that names it (`by`), the child it is of
that page (`at`) and its height (`level`, for a free page the rest of the list). A
page of the tree fits and names its children, one level below it, and is named by
its parent; so no two names meet, and heights rise towards the root, which excludes
cycles. `Forest` is the part of this that is only about shape; it is kept by six
changes of a forest: a page divided in two, two pages joined, a child moved to its
neighbour, a root put on top, a root given up for its child, the last page given up. Each function of the code is then one such change and an account
of keys. A split needs a full child, a merge two children with the fewest keys; that
`EnsureChildHasExtra` finds one of its cases to hold is where the page's
own spare key, which the pass before provided, comes in, and where `remove` of a
key that is not there may leave the arrays (`btree_absent`): the lemmas about
removal say "or an index was out of range", as the properties do, and hold
whatever keys `remove` is called with.
`Passes`, `Follow` and `Filled` are recursive functions; that what one pass keeps
all of them keep is proved once (`PassesStay`, `FollowStays`, `FilledStays`). From
the witness `PagesAccounted` follows by counting: a walk to the header that was
longer than there are pages would visit a page twice, but heights rise on the way
(`WalksEnd`).

*Order in the B-tree.* What a whole subtree holds cannot be the invariant: a call
that has gone down three pages would have to be followed back up. Instead every page
is given the set of cuts its keys may lie between (`may`); cut `c` is the place
between `c - 1` and `c`. The root has all cuts, and a page leaves to its child `i`
those between its keys `i - 1` and `i` (`Gap`). A tree is `Sorted` when each page's
keys ascend and lie inside its cuts. This is local, so each change of shape has to
say only which pages' cuts change: a split parts them at the key that goes up, a
merge joins them, a borrowed key moves them over from one page to the other
(`RowGaps`, `AddGaps`, `SplitPlaced`, `MergePlaced`, `ShiftPlaced`). Pages of one
level have no cut in common (`LevelsApart`), so a key is in one place only
(`KeyOnce`) and can be found by going down by cuts alone (`ContainsHas`).

`Has` says that the tree is sorted and the pages hold just the keys `H`. One lemma
for each pass says what it makes of `H` and that the key in hand is still inside the
cuts of the page the call goes on with. `remove_from` puts a neighbour `x` of the key
`k` in its place and then takes `x` out of its leaf; in between `x` is in two pages
and the tree is not sorted. The proof shows the page above as if it still had `k`
(`Shows`), for which everything above holds, and puts `x` there at the end, when no
key lies between (`Near`, `Relabels`). `OrderInv` joins this to the operations:
the pages hold `stored`, and `size` is its number. It holds until an index was out
of range, with `BTreeInv`.

`collect_keys` and the depths of the leaves are recursive functions over the pages.
They are well defined since levels fall from a page to its children, and give lists
in order and one depth on every level if they do on the level below, whose lists are
joined with the keys between them (`ListsJoin`). `Lists` of the root is then a
sequence that has each of its keys once, so that its length is `size` (`ListsLen`).

Facts of the kind "for every number" are proved by contradiction from a least
counterexample (`LeastNatural`), since the induction theorems of the library take an
operator as a parameter.

### 4.2 What is model-checked only

The liveness properties `CloseReleases`, `BlockedReturn`, `StopsReturn`,
`EveryPushArrives`, `EventsFire` and `ShutdownDrains`: liveness under fairness is
beyond the prover (it has no ENABLED).
All other properties of the passing runs are theorems.

## 5. Plan

1. *Done*: channel, store, pool, lock-free queues, timeout queue, its heap, B-tree in pages;
   every safety property of the passing runs as a theorem.
2. `PidFileLock`: several handles in one and two processes.
3. `TaskGroup` and the parallel algorithms over an abstract pool, if runs remain:
   the caller's frame outlives its chunks.

## 6. Not modelled

The sequential containers and algorithms of 1.2, the binary heap excepted: their correctness is a function of
their input, which the unit tests compare with reference versions, and no order of
events can go wrong in them. Of the components with a protocol: the pid file lock,
the parallel algorithms and the legacy pools (see the plan), the concurrent hash
map (one lock per operation), and the adapters to futures, coroutines and signals.
They are most of the repository's lines, which is why the share of the code that is
modelled is small while that of the concurrent and the durable code is large.
