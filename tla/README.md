# A TLA+ model of libcn

libcn is a small event-driven TCP server in C, written after nginx: one process
per worker, a loop around `epoll_wait()`, a fixed table of connections, a tree
of timers, and a lock in shared memory that decides which worker accepts new
clients. This directory holds TLA+ modules that model it, TLC configurations
that check them on small instances, and TLAPS proofs of what matters most.
Paths and line numbers refer to the repository's `src/`.

Contents: [the system](#the-system) - [plan](#plan) - [modules](#modules) -
[runs](#runs) - [proofs](#proofs) - [only model-checked](#only-model-checked) -
[findings](#findings) - [not modelled](#not-modelled) - [running it](#running-it)

## The system

### Parts

| part | files | state | operations |
| --- | --- | --- | --- |
| connection slots | `connection.c`, `cycle.c` | `connections[]`, free list and `free_n`, reusable queue and `reusable_n`, per slot `fd`, `instance`, `close`, `reusable`, buffer | `get_connection`, `free_connection`, `close_connection`, `reusable_connection`, `drain_connections`, `close_idle_connections` |
| event loop | `event.c`, `event_posted.c` | `posted_accept_events`, `posted_events`, `accept_mutex_held`, `accept_disabled`, `event_timer_alarm` | `process_events_and_timers`, `event_process_posted`, `handle_read_event`, `handle_write_event`, the SIGALRM handler |
| epoll module | `epoll_event.c` | interest list and edges (kernel), `event_list[]` of the last wait | `epoll_process_events`, `epoll_add_event`, `epoll_del_event`, `epoll_add_connection` |
| accepting | `event_accept.c` | accept queue (kernel), the listening event | `event_accept`, `trylock_accept_mutex`, `enable_accept_events`, `disable_accept_events`, `close_accepted_connection` |
| handlers | `main.c` | `c->buffer`, `c->pool` | `callback`, `myread`, `mywrite` |
| locks | `shmtx.c`, `spinlock.c`, `atomic.h` | one word in a `MAP_SHARED` mapping; `spin` | `shmtx_trylock`, `shmtx_lock`, `shmtx_unlock`, `shmtx_force_unlock`, `spinlock`, `trylock`, `unlock` |
| timers | `event_timer.c` | the tree, its keys, `current_msec`, `ev->timer_set` | `event_add_timer`, `event_del_timer`, `event_expire_timers`, `event_find_timer`, `event_no_timers_left` |
| red-black tree | `rbtree.c` | children, parent, colour and key of each node, the shared sentinel | `rbtree_insert`, `rbtree_delete`, `rbtree_min`, `rbtree_next` |
| intrusive queue | `queue.c` | `prev`, `next` of each link | insert, remove, split, add, `queue_middle`, `queue_sort` |
| memory | `palloc.c`, `array.c`, `list.c`, `buf.c` | chain of blocks with `last`, `end`, `failed`; large allocations; arrays and lists in a pool | `palloc`, `pnalloc`, `pmemalign`, `pfree`, `reset_pool`, `array_push`, `list_push` |
| time cache | `times.c` | 64 time slots, `slot`, `time_lock`, `current_msec` | `stime_update`, `sgmtime` |
| processes | `main.c` | `workers[]`, pid file | `spwan_process`, `start_worker`, `daemon_internal`, `create_pidfile` |

### How they interact

A worker repeats `process_events_and_timers()`:

1. If `accept_disabled > 0` it is counted down and the mutex is skipped.
   Otherwise `trylock_accept_mutex()` tries the lock word. On success the
   listening event is registered with epoll, on failure it is removed, if this
   worker had the mutex before. A failing `epoll_ctl()` ends the iteration.
2. `epoll_wait()`. With the mutex, events are only put in the queues
   `posted_accept_events` and `posted_events`; without it handlers run at once.
3. Posted accept events: `event_accept()` takes clients until `EAGAIN`, gives
   each a slot, and hands it to `callback()`, which either posts its read event
   (deferred accept) or registers it with epoll and makes it reusable; both set
   a timer. When slots run out, `drain_connections()` closes reusable ones.
4. The mutex is released (`accept_mutex_held` stays set), timers expire if the
   clock has moved, and posted read events run: `myread()`, then `mywrite()`,
   which answers, removes the timer and registers the connection again.

Parts share state through queues threaded into the events and connections
themselves, through flags that say which queue or tree an event is in, and,
between processes, through the lock word and the listening socket. The only
asynchronous call is the signal handler, which sets `event_timer_alarm`.

`main()` starts one worker in its own process (the call of `start_worker()` is
commented out, `main.c:351`), but the mutex and the loop are written for many,
and are modelled for many.

### What is hard

* Edge-triggered reads: an edge is reported once, so bytes that arrive around
  the `recv()` loop, before a registration or behind a posted event must not
  be left behind.
* Slots are reused within one batch of events: an event of the previous user is
  recognised by `fd == -1` or one `instance` bit.
* `get_connection()` clears the slot with `memset()`: a slot that was freed
  with a link still in a queue or in the timer tree corrupts it.
* Every step of accepting can fail, and each failure has its own way to give
  back slot, descriptor and mutex.
* `accept_mutex_held` outlives the unlock, unlocking is attempted by workers
  that do not hold the lock, and workers that skip the mutex may keep listening.
* A worker may die with the lock. An answer to a client that closed and was
  reset kills a worker: nothing ignores SIGPIPE.
* Keys and clock overflow; postponing a timer is skipped for short differences.
* The tree's fixups go through the parent field of one sentinel, and deletion
  leaves a stale parent in the root.
* Queue macros assign pointers one after the other, and later assignments read
  what earlier ones wrote; `queue_sort()` relinks the ring it walks.
* The pool compares room with sizes in unsigned arithmetic, moves
  `pool->current` past blocks that keep failing, and every operation on arrays
  and lists is two allocations of which the second may fail. Arrays grow in
  place, but only at the end of the pool's first block.
* Readers of the cached time take no lock: they rely on the time that passes
  until their slot is written again.

The complete list, with the line where each bites and the properties that would
catch it, is `hazards` in `PROJECT.json`.

### What makes each part correct

* slots: free list, queues, tree, descriptors and epoll's list agree with the
  flags; no descriptor is lost, shared or closed twice; nobody is refused while
  a connection could be drained;
* loop: no wakeup is lost; a connection that is waited for is reachable; an
  answered client does not time out; stale events are recognised; accepting
  resumes after it was suspended;
* mutex: the word names the one holder; one worker listens, or one and those
  that skip; no handler sends with it; clients are taken in the end;
* timers: fire in order, neither early nor late beyond the lazy delay; the time
  to wait is right across the overflow;
* tree: links, balance and order; it is a sorted list;
* queue: both directions of a ring agree; it is a sequence, and its sort is stable;
* memory: what callers hold never overlaps, leaves its block or moves, in any
  order of allocations, growth, failures and reset; what `malloc()` gave is freed
  once; elements lie in memory of their array or list;
* time: what a reader copies is of one update; the time does not go back; dates
  are those of the Gregorian calendar.

## Plan

The order was that of importance, and the steps are done:

1. `Connections`, `EventLoop`, `EventLoopProperties`: one worker in detail, with
   the other workers and the clients as its environment. Proofs: `EventLoopProofs`.
2. `Mutex` (abstract), `Shmtx`: the lock, shown to implement the abstract one.
   Proofs: `ShmtxProofs`.
3. `AcceptMutex`, `AcceptMutexProperties`: several workers, each of them an
   abstraction of `EventLoop`; their use of the lock word is shown to be that of
   `Shmtx`. Proofs: `AcceptMutexProofs`.
4. `RedBlack` (operators), `RBTree` with the abstract `SortedList`, `EventTimer`
   with the abstract `TimerSet`. Proofs: `RBTreeProofs`, `EventTimerProofs`.
5. `Pool`, and `Memory` with arrays, lists and buffers in it, against the abstract
   `Allocator`. Proofs: `MemoryProofs`.
6. `Queue`: the pointer operations as a refinement of `QueueOfSequence`. Proofs:
   `QueueProofs`.
7. `TimeCache` with `Calendar`. Proofs: `TimeCacheProofs`.

What would come next, and is not claimed anywhere here:

* a refinement between 1 and 3: what a worker of `EventLoop` does to the lock
  and to the accept queue is what a worker of `AcceptMutex` does;
* `EventTimer` as the timers of `EventLoop`: the same calls, related by a
  refinement of the time left.

## Modules

| module | models | extends |
| --- | --- | --- |
| `Connections` | the memory of a worker as one record, and what each function does to it | |
| `EventLoop` | `process_events_and_timers()` and all it calls; clients; the kernel | `Connections` |
| `EventLoopProperties` | its properties | `EventLoop` |
| `EventLoopProofs` | proofs | |
| `Mutex` | abstract lock | |
| `Shmtx` | `shmtx.c`, `spinlock.c`, `atomic.h` | refines `Mutex` |
| `ShmtxProofs` | proofs | |
| `AcceptMutex`, `AcceptMutexProperties` | workers that share mutex and socket | lock part refines `Shmtx` |
| `AcceptMutexProofs` | proofs | |
| `RedBlack` | `rbtree.c` as operators | |
| `SortedList`, `RBTree` | the tree in use | `RBTree` refines `SortedList` |
| `RBTreeProofs` | proofs | |
| `TimerSet`, `EventTimer` | `event_timer.c` on the tree | `EventTimer` extends `RBTree`, refines `TimerSet` |
| `EventTimerProofs` | proofs | extends `RBTreeProofs` |
| `Pool` | `palloc.c` as operators | |
| `Allocator`, `Memory` | a pool in use: `array.c`, `list.c`, `buf.c` | `Memory` extends `Pool`, refines `Allocator` |
| `MemoryProofs` | proofs | |
| `QueueOfSequence`, `Queue` | `queue.h`, `queue.c` | `Queue` refines `QueueOfSequence` |
| `QueueProofs` | proofs | |
| `Calendar`, `TimeCache` | `times.c` | `TimeCache` extends `Calendar` |
| `TimeCacheProofs` | proofs | |
| `MC...` | symmetry sets, views and constant values for TLC | |

A definition whose comment begins with "Faulty variant" is not part of a
specification. It is the definition below it with a plausible mistake, and
stands for the bug that the property named in `PROJECT.json` would find.

### Connections and EventLoop

The worker's memory is the record `m` of `Connections`. Slots are `1..N`, the
descriptor of a client stands for the client (`Socks`), and `NoSock` is -1. The
free list and the queues are sequences in the order of the C lists, next to the
flags the code keeps (`reusable`, `posted`, `timer_set`), so that they can
disagree. `edges` is epoll's ready list. Functions of `connection.c`,
`event_posted.c` and `event_timer.c` are operators from a memory to a memory,
named like the functions: `GetConnection`, `FreeConnection`, `CloseConnection`,
`CloseAcceptedConnection`, `ReusableConnection`, `EventAddTimer`, `PostEvent`...
Timers are the time left, which `EventTimer` relates to keys and clock. Write
events are never posted nor timed by any caller and have no state.

`EventLoop` adds the control. Its `pc` has a value for every place at which
another actor may act, that is around each system call whose result it can
change:

| `pc` | the worker is |
| --- | --- |
| `lock` | at the top of `process_events_and_timers()` |
| `wait` | in `epoll_wait()` |
| `dispatch` | in the loop over `event_list[]`, or in `posted_accept_events` |
| `accept`, `drain`, `serve` | in `event_accept()`: at `accept()`, in `drain_connections()`, after the slot |
| `mywrite` | between `recv()` and `send()` of a handler |
| `posted` | in `event_process_posted(&posted_events)` |
| `dead` | killed by SIGPIPE; nothing starts it again (`Terminated`) |

`mode` tells the three kinds of iteration apart: `post` (mutex won), `lost`,
`skip` (not tried). One action is one operation: `SkipMutex`, `TrylockWins`,
`TrylockLoses`, `PollEvents`, `PollTimeout`, `PollInterrupted`,
`DispatchConnection`, `DispatchListener`, `RunPostedAccept`, `AcceptOk`,
`AcceptAgain`, `AcceptAborted`, `AcceptFails`, `AcceptNoFiles`, `DrainConnection`,
`DrainDone`, `RefuseClient`, `DropClient`, `Callback`, `MyWrite`, `KilledBySigpipe`,
`Release`, `RunPosted`, `PostedDone`. The environment connects, sends, closes (FIN),
resets, raises the alarm, and, with `SharedMutex`, takes clients as another worker.

`peer` is what a client has done: `up`, `fin` (closed), `rst` (reset), `gone`
(closed, then reset). The two resets differ in the code. After `rst` `recv()` or
`send()` fails, with ECONNRESET, and the handler closes the connection. After `gone`
`recv()` returns 0, so `myread()` goes on to `mywrite()`, whose `send()` raises
SIGPIPE. It has something to send: after a `send()` that took everything
`mywrite()` returns without moving `b->pos` (`main.c:62-66`), so every event of an
answered connection, the client's close included, sends all its bytes again.

Facts of the code that shape the model:

* `timer_resolution` is always set, so `epoll_wait()` is bounded by the mutex
  delay or not at all, and the time is read only after the alarm. `current_msec`
  is 0 until the first alarm, since nothing calls `stime_init()`; the clock of
  the model may therefore jump by any amount up to `Timeout`.
* `event_process_init()` returns -1 when the mutex is in use, which `proc()`
  ignores: the listening event is added by `enable_accept_events()` only.
* `myread()` returns at once for a timed out event, and nothing else closes it;
  after an EOF the connection also stays. Such connections are kept in the
  model as they are in the program.
* `mywrite()` on a partial send, `EAGAIN` or a failed `epoll_ctl()` leaves the
  connection without registration (`Faults` "send", "ctl").
* `accept()` may fail with an error that `event_accept()` has no case for: it
  returns with clients left in the queue (`Faults` "accept").
* `posix_send()` passes no `MSG_NOSIGNAL` (`event_accept.c:228`), and nothing ignores
  or blocks SIGPIPE. Its default action ends the worker at that place:
  `KilledBySigpipe` empties the worker's memory; the kernel closes its descriptors.
  The lock word is in shared memory, but is not its own there (`MutexDiscipline`).

### Shmtx

A try is two steps, the load and the compare-and-swap. `n` is the counter of
the spinning loop, of `Width` bits, as it doubles. `StrayUnlock` is the unlock by
a process that does not hold the lock. `Value` and `ByStore` select `shmtx.c`
(pids, released with a compare-and-swap) or `spinlock.c` with the macros of
`atomic.h` (one value, released with a store). Any mortal process may die at any
step. `Mutex` says that one process enters when none is inside, and that the one
inside leaves. The refinement maps the processes at `in` to those inside; a
process that dies inside stays there.

### AcceptMutex

Each worker keeps the part of `EventLoop` that the mutex depends on: the
trylock taken apart into load, compare-and-swap and `epoll_ctl()`, `held`,
`active`, `disabled`, the listening event in its batch, and the number of slots
in use. `UsesLock` maps the workers to processes of `Shmtx`.

### RedBlack, RBTree, EventTimer

The tree is a record of the fields of all nodes, the sentinel included.
Mirrored code is one operator with a side. A loop of the code is a function of
the number of its rounds, which are as many as there are nodes (`Limit`); a round
after the loop has stopped changes nothing. That no loop needs more is proved.
`RBTree` inserts nodes that are out and deletes nodes that are in; the fields
that deletion clears and the stale ones it leaves are kept. `Near` keeps the
keys in the tree within half of the key circle, anywhere on it, which is what
the comment at `rbtree.c:114-118` supposes of timers. `EventTimer` has its
timers in the same tree, without that guard: there it is proved; the linked
nodes are the events with `timer_set`; `ev` is the event whose handler runs in
the expiry pass. Handlers act through `EventAddTimer` and `EventDelTimer`, which
are enabled within the pass too.
`asked` is a history variable: the time of the last call. `TimerSet`
speaks of `asked` only, so the refinement says that the lazy delay never adds up
to more than `TIMER_LAZY_DELAY`.

### Pool, Memory

A pool is a record: per block of the chain `last` (the offset `d.last`) and
`failed`, then `current`, the nodes of `large`, and `heap`, what `malloc()` gave
and `free()` has not taken. Memory is a chunk: block and offsets. Each function
is an operator from a pool and the answers of the operating system to a pool and
a chunk or `Null`. `Room` is the unsigned difference of `palloc_small()`. It is
huge if aligning passes the end of a block, which happens for pools whose size is
no multiple of 8; callers create pools of 256 and 16K bytes, hence
`PoolAssumption`. In `Memory` callers allocate, free, fill, grow, move and destroy
arrays, push to lists, create buffers and reset and destroy the pool, in any order,
and each `malloc()` and `memalign()` may fail. `held` is what callers have been given.

Facts that the model keeps: growth in place compares with the first block only;
when the second of two allocations fails the first stays allocated, and nobody has
it; after a reset every block loses the space of the first one's larger header; an
array created for no elements would never grow, which `MemoryAssumption` excludes.
The server itself creates and destroys pools, allocates from them and creates
buffers; arrays, lists, `pfree()` and `reset_pool()` have no caller in it yet.

### Queue

`prev` and `next` are functions over all links, heads and elements; the macros
become functional updates in the order of their assignments. Links in no queue
keep stale pointers. `queue_sort()` is taken apart into taking out, going back
and placing; meanwhile the queue stands for the sequence it had before. Two uses
that the macros do not support are excluded by guards: `queue_split()` at the head
itself, and into a queue that is not empty.

### TimeCache, Calendar

`stime_update()` in six steps, by several threads, and a reader that loads
`cached_time` and copies two fields in either order. No code in the repository
reads `cached_time` yet: the reader is the one for whom the comment at
`times.c:6-13` gives the scheme. `stime_init()` has no caller, so that the pointer
is `NULL` until the first update. The clock is not set back. `Calendar` has
`sgmtime()` by its arithmetic; `IsDayOf` says what a date is by counting the days of
years and months. A time is a day and a second of it; of a negative day `sgmtime()` makes
the first second of 1970.

## Runs

| run | properties | what it shows |
| --- | --- | --- |
| `shipped` | `TypeOK`, `MutexDiscipline`, `NoLostWakeup`, `NoneForgotten`, `AnsweredNeverTimesOut` | the worker that `main()` starts, beside others |
| `reusable` | `MemoryConsistent`, `RefusedForCause`, `ReuseMakesStale` | without deferred accept: connections wait in the reusable queue, are drained, and their slots change hands with an event of the old user in the batch |
| `faults` | `MemoryConsistent`, `DescriptorsOwned` | memory, `epoll_ctl()`, `send()`, `accept()` fail at any time, `accept()` in two ways |
| `live` | `AcceptingResumes`, `BytesAreRead` | liveness of accepting after EMFILE and after `accept_disabled`, and of edge-triggered reading, by a worker that is not killed |
| `stale_twice` | `StaleEventsDetected` (violated) | see [findings](#findings) |
| `shmtx` | `WordIsOwner`, `ImplementsMutex`, `SomeoneEnters`, `WaiterYields` | the lock with three processes, one mortal |
| `workers` | `WordIsHolder`, `OneListener`, `AcceptorsExclusive`, `UsesLock`, `ClientsAreTaken` | three workers, all faults, a death; clients are accepted unless a worker dies with the lock or faults never end |
| `rbtree` | `LinksOK`, `RedBlackOK`, `NextWalks`, `ImplementsSortedList` | all trees of up to nine nodes |
| `timers` | `FindTimerOK`, `NoTimersLeftOK`, `FiresEarliest`, `ImplementsTimerSet` | three timers across the overflow |
| `memory` | `LargeAccounted`, `BlocksPassedOver`, `ElementsHeld`, `IterationMeetsElements`, `ImplementsAllocator` | a pool of three blocks with an array, a list, buffers and large memory, every allocation may fail |
| `queue` | `PrevMirrorsNext`, `MiddleIsMiddle`, `ImplementsSequences` | two queues: fill, remove, split, join, sort |
| `times` | `ReadWhole`, `GmtOK`, `TimeNeverGoesBack` | two threads update, one copies; every day of a cycle of the calendar, times before and behind it |

Properties are stated, with a comment each, in `EventLoopProperties`, `Shmtx`,
`AcceptMutexProperties`, `RBTree`, `EventTimer`, `Memory`, `Queue` and `TimeCache`. No run disables the
check for deadlock: no state of any of these systems is without a next step. Only
the end of a worker that SIGPIPE killed is a stuttering step (`Terminated`).

### Bounds and why they suffice

* Event loop: two slots and three clients let every queue hold two entries in
  both orders, the table be full with a client waiting, and a slot be reused
  within a batch while the other is in any state. A slot that is reused twice in
  one batch takes four clients (`stale_twice`, with one slot). A timeout of one unit keeps fresh, due and expired apart;
  `PollInterrupted` takes the whole of it at once or nothing.
  The constants 8 and 32 of `accept_disabled` and of `drain_connections()` are
  `ReserveDiv`, `DrainDiv` and `DrainMax`, scaled so that a table of two gets
  below its reserve, and drains one or both. `MaxOpen` below the number of slots
  makes EMFILE happen (`live`, with `MaxOpen` 1). Clients are symmetric; each
  connects once, which bounds the accept queue. `MaxBroken` bounds how many
  connections to clients that were reset there are at a time: 1 where slots are
  reused (`reusable`, `stale_twice`) or calls fail (`faults`), 2 in `live`, no bound
  in `shipped`; a reset client whose socket is closed counts no more. What a client
  did before its socket was closed is read by nobody again, and is not told apart
  where only safety is checked (`VIEW Remembered`).
* `Shmtx`: the run has `shmtx.c`; that `spinlock.c` with `atomic.h` is a lock too
  is proved, not run. Three processes, so that two compete for a word that a third changes.
  A spin of 4 passes through the whole backoff. `Width` of 3 bits leaves room
  above the spin, as `shmtx_create()` does with 2048 in 32 bits. The accept
  mutex's own `spin` of `(uint64_t)-1` (`event.c:67`) would keep
  `shmtx_lock()` in its spinning loop, without a `sched_yield()`, until it gets
  the lock; nothing calls `shmtx_lock()` on that mutex.
* `AcceptMutex`: three workers (holder, previous holder with a left-over flag,
  one that skips), one slot each and two clients: a worker that has taken the
  first is full, and must hand over to another for the second.
* `RBTree`: nine nodes; from eight on, recolouring in an insertion goes on upwards.
  Keys of two bits (`Half` is 2), of which those in the tree are equal or
  neighbours on the circle, so that the tree walks round the overflow; two
  keys insert in the middle and at the end of the order, and deletions reshape it
  anywhere. A deletion that recolours below a black node other than the root, and
  goes on from there, takes ten nodes: the theorems, for any number, have that
  case. States are compared by `Shape`: trees that differ in the names of their
  nodes are one.
* `EventTimer`: a clock of 16 values is walked round; delays 1 and 3 are 2
  apart, so that after a tick the difference to a new key is inside the lazy
  delay of 2 on either side, and outside of it. Delay and tick together stay below half
  the range (`EventTimerAssumption`), which 64 bits and delays of minutes
  satisfy in the code.
* `Memory`: blocks of 120 bytes hold a header and one or two chunks, so that
  padding, the end of a block, a second block and a third (`MaxBlocks`) all
  matter; 50 bytes fit, 80 are large. The limits 5 of `palloc_block()` and
  `palloc_large()` are `FailedLimit` 0 and `LargeTries` 1, so that a block is passed over and a
  node is out of reach soon. `malloc()` has one address, which makes its reuse
  after `pfree()` the rule. Callers ask for more while they hold fewer than three
  chunks (`MaxHeld`), which is an array or a list and one thing next to it, and leaves
  room for the two chunks of one more operation.
* `Queue`: five elements in two queues; two pairs of equal keys and one alone make
  every order of ties. Stale pointers of links in no queue are not told apart
  (`VIEW Rings`): every operation writes them before it reads them.
* `TimeCache`: four slots, and six seconds to go round them once and further;
  two updaters, of which one is always locked out or overtaken; one reader, as
  readers change nothing. The calendar repeats after 400 years, all days of which
  are checked, and with them the last supported year, what is behind it, and times
  before 1970.

### Fairness

* `EventLoop`: weak fairness of the worker's steps taken together. The process
  is scheduled as long as it lives, and its steps are never blocked but in
  `epoll_wait()`; there
  `PollInterrupted` is a step of the worker because `setitimer()` with an
  interval raises SIGALRM every `timer_resolution`, which ends the wait. No
  fairness of clients, of the alarm flag's action or of other workers.
* `Shmtx`: weak fairness of each process's `Advance`: the scheduler runs it, and
  a process that is inside leaves again, as the loop releases the mutex in every
  iteration. No fairness of trying: nobody has to want the lock. There is no
  fairness among the waiting, and `SomeoneEnters` promises progress for one of
  them and not for each.
* `AcceptMutex`: weak fairness of each live worker's steps, for the same reasons.
  Clients closing and workers dying are not fair.

Fairness does not keep a worker alive. `AcceptingResumes` and `BytesAreRead` promise
nothing of one that SIGPIPE kills, which is what a client that closes and is reset
behind its answer may do to it (`Survives`). The kernel then closes its sockets: the
clients in the queue are not served, and bytes not read are lost. Both hold for a
worker whose clients close, are reset, or do both at any other time.
`AcceptingResumes` supposes that the table has room from some time on, and
`ClientsAreTaken` that faults do not occur for ever and that the lock is not left
with a dead worker: nothing in the repository frees it then.

`Memory`, `Queue` and `TimeCache` have no fairness: what they promise is safety.

## Proofs

All constants are arbitrary, within the named assumptions of the modules:
any number of slots, clients, workers, processes, any limits and faults.

**`EventLoopProofs`**: `SpecTypeOK`, `SpecMemoryConsistent`,
`SpecDescriptorsOwned`, `SpecMutexDiscipline`. The inductive invariant `IInv`
joins the type invariant, the consistency of the memory (`Consistent`: typed and
`MemoryOK`), ownership of descriptors (`Owned`),
and three facts without which the properties are not inductive: `HandOK`, the
accepted socket exists exactly inside `event_accept()`; `QueueFresh`, sockets in
the accept queue are distinct and not yet in the process, else an accept could
hand out a descriptor twice; `HandlerInUse`, a handler that was interrupted
before `send()` still has its connection, for nothing else runs in this process
meanwhile. One lemma per function of the memory states that it keeps `Consistent` and what it
does to slots and descriptors; one lemma per action cites them. The mutex has an
invariant of its own, over `held`, `own`, `mode`, `listener` and `pc`.

Its second half, on service: `SpecNoLostWakeup`, `SpecAnsweredNeverTimesOut` (with
deferred accept), `SpecNoneForgotten` (where neither `send()` nor `epoll_ctl()`
fails), `SpecRefusedForCause`, `SpecReuseMakesStale`. What is inductive is `SInv`:
every connection that waits is woken (`AllWoken`); `Answered` and `Kept`, the two
statements on timers, as each action keeps them; `CallOK`, a handler that has
come to its `send()` has cleared `rev->ready`, else the registration that follows
could be skipped, and has not timed out; `RefusalOK`, as long as `drain_connections()` has turns
left, or has a cause, a full table is no refusal yet. A *frame lemma* per function
says what it leaves of the fields that count. `ClosedKeeps` and `MyReadKeeps`
carry the argument: closing or reading one connection takes a wakeup from no
other, since descriptors are not shared (`OwnFd`). An edge is moved from the
kernel's list to the batch only when the batch is empty, which is a part of the
mutex invariant. `HandsOver`, proved of every step, says that a slot with another
descriptor than before is empty or has the other instance bit.

**`ShmtxProofs`**: `SpecWordIsOwner` and `SpecImplementsMutex`. The invariant is
`TypeOK` without the spinning counter, with `WordIsOwner`. A failed
compare-and-swap changes nothing; a successful one finds the word free, hence
nobody inside; an unlock by another process does not find its own value.
The refinement then follows step by step.

**`AcceptMutexProofs`**: `SpecWordIsHolder`, `SpecOneListener`,
`SpecAcceptorsExclusive`, `SpecUsesLock`. The invariant adds to `WordIsHolder`
where the listening event can be (`Registered`): a worker's flag and its
registration agree, a worker that lost has neither, one that won has both, and
one inside `event_accept()`, or about to enter it, either skipped the mutex or
won it and has it still. `OneListener` follows from the first three,
`AcceptorsExclusive` from the last and `WordIsHolder`. For `SpecUsesLock` every
step is sorted into winning, freeing or keeping the lock word, and each sort maps
to a step of `Shmtx` or to a stutter.

**`RBTreeProofs`**: `SpecTreeInv`, `SpecLinksOK`, `SpecRedBlackOK`, `SpecNextWalks`,
`SpecImplementsSortedList`, for any number of nodes and any width of the keys. The
invariant `TreeInv` is that the nodes have places `at`, from left to right and in
the order of their keys, for which `t` is a tree (`TreeGood`). A tree is not
described by recursion but by sets: the nodes `D[x]` under each node `x`, of which
the child on a side of `x` has those on that side in the order (`Shape`), and the
number `bh[x]` of black nodes on every way down (`Even`). A rotation then changes
`D` and `bh` at two nodes and `at` nowhere. While a fixup runs the tree lacks
something at one place: in an insertion one red node may have a red parent
(`FewRed`); in a deletion the ways through one edge have a black node too few
(`Lacking`). Each case of a fixup has a lemma, which says that the place moves up
or that nothing is lacking any more. Loops are followed by a set of states for
each number of rounds: one that has not stopped after `i` rounds is at a subtree of
more than `i` nodes, hence it stops within `Limit`. `NearOK` shows that the signed
difference of two keys in half of the circle compares them as a line would, and with
`InsertList` and `DeleteList` an operation on the tree is one on the sorted list.
The only assumption is `RedBlackAssumption`: finitely many nodes, the sentinel and
`NULL` not among them, and keys of at least one bit.

**`EventTimerProofs`**: `SpecTimerInv`, `SpecFindTimerOK`, `SpecNoTimersLeftOK`,
`SpecFiresEarliest`, `SpecImplementsTimerSet`, for any events, clock, delays and
lazy delay within `EventTimerAssumption`. The invariant `TimerInv` joins `TreeInv` to
`InTime` of each timer: its key is in front of the clock between passes, no further
behind than one tick within a pass, in front by less than some delay and the
lazy delay, and less than the lazy delay away from what was asked for last. So all keys
are in one half of the circle (`AroundNear`), which is what the lemmas on the tree
ask for, and the place in the tree is the order of the time left
(`PlacesInTime`), also when clock and keys are on two sides of the overflow.
`event_add_timer()` has two lemmas: the one for a key that stays shows that the
signed difference to it is that of the times (`AddStays`). The walk of
`event_no_timers_left()` is followed round by round as the loops of the tree are.

**`MemoryProofs`**: `SpecImplementsAllocator`,
`SpecLargeAccounted`, `SpecBlocksPassedOver`, `SpecElementsHeld`,
`SpecIterationMeetsElements`, for any sizes, limits, counts and numbers of arrays
and lists within `PoolAssumption` and `MemoryAssumption`. The idea is one line drawn
through each block: memory in use is below `d.last` (`Placed`), memory given by a
call is above the `d.last` from before (`Above`), so the two are apart. `Gets`
states that of one call, and `GetsTwice` composes it, which covers every
operation that allocates twice, and its failure in between. `FailedOK` adds that
blocks further down have failed no more often, without which `pool->current`
could pass over a block that has not failed enough. `Ownership` says that
arrays and lists share no memory; growing one in place then cannot disturb
another, and the last chunk of the first block can be given back.

**`TimeCacheProofs`**: `SpecReadWhole`, `SpecTimeNeverGoesBack`, for any number of
slots from three on, of threads and of readers. One thread is behind the trylock
(`Alone`), seconds of slots grow (`SecondsOK`), and `cached_time` is the newest
slot or the one before (`PublishedOK`). A reader is `Intact`, and then the slots
written since it loaded the pointer are fewer than the seconds since allow to
come round, or it is `Late`.
`SpecGmtOK`: the date of every day of the calendar, from its first day to the last
of 9999, and on either side. The formula is Gauss's, in which days are counted from
March 1. The proof does not go through the days: a year has its place in a cycle of
four centuries (`YearInCycle`), from which it follows that the formula is off by at
most one year, which `sgmtime()` corrects (`FormulaYear`, `FormulaLeap`); of the
months, `FormulaMonth` says that the division by 306 finds each on its interval of
days, and that the days before it are what the division by 12 gives.

**`QueueProofs`**: `SpecPrevMirrorsNext`, `SpecMiddleIsMiddle`,
`SpecImplementsSequences`, for any queues, elements and keys. The inductive
invariant is that there are sequences `L` which the rings hold (`Holds(L)`): the
`next` of the link at each place is the link at the place behind it, its `prev` the
one in front, no element is at two places, and a link in no queue is at none. Each
macro is then an edit of one sequence or two (`PutIn`, `TakenFrom`, `SplitAt`,
`Joined`), although its assignments go through links of either queue: one lemma
per edit shows which two or three fields change and that the others still agree.
While `queue_sort()` runs, the invariant also says how far its two loops are
(`Sorts`): what is in front of `q` is sorted, the walk to the left has passed only
links with greater keys, and the whole is a permutation of the sequence from
before that never lets equal keys pass (`StableBy`). It keeps this as an explicit
permutation because the abstract `Sort` asks for one. What the walks along a ring
compute (`queue_middle()` with its two speeds, the sequence that the refinement
mapping reads off) is computed by recursion in the number of steps; `Iterates` gives
such a recursive function its equation, and the induction is an argument on the
least number of steps at which the claim would fail (`LeastOf`).

## Only model-checked

All liveness properties: `AcceptingResumes`, `BytesAreRead`, `SomeoneEnters`,
`WaiterYields`, `ClientsAreTaken`. The prover does not reason about fairness. All
other properties of the passing runs are theorems.

That `Connections`, which has the time left of a timer, agrees with `EventTimer`,
which has keys, tree and clock, is neither checked nor proved: it rests on reading
both against `event_timer.c`.

## Findings

`stale_twice`: `event.h:16` says that the instance bit is "used to detect the
stale events in kqueue and epoll", and `epoll_event.c:268-269` that its check
finds "the stale event from a file descriptor that was just closed in this
iteration". One bit tells two users of a slot apart. A slot that is closed and
given away twice while one batch is dispatched has its first bit again, and the
event of its first user is delivered to the third, who has sent nothing. It
takes an iteration that skips the mutex (handlers run inside the batch), and a
listening socket without deferred accept, which `callback()` handles and
`create_listening()` does not set up (`connection.c:34`). `ReuseMakesStale` shows
that one change of hands is always recognised.

Behaviour that no document contradicts, kept in the model as it is: connections
that timed out, met EOF or failed to send are not closed; a reusable connection
that timed out at the tail of its queue makes `drain_connections()` free nothing
(`RefusedForCause` allows for it); a posted read whose timer expires in the same
iteration is not handled; a worker that dies with the mutex blocks the others;
an answer to a client that closed and was reset since kills the worker, all of whose
clients lose their connections (`KilledBySigpipe`; `main()` starts only that one).

`times.c:9-12` says that a slot is written again after "more than TIME_SLOTS
seconds". The code grants a reader two or three seconds less: one update may have
its slot without having published it when the pointer is loaded, and its second
may be over by then. `ReadWhole` holds with `TIME_SLOTS - 3`, is proved for every
number of slots, and TLC refutes it for `TIME_SLOTS - 2`. With 64 slots that is 61
seconds, more than any copy takes.

## Not modelled

* `spwan_process()`, `start_worker()`: no active caller (`main.c:351`). What
  several workers share, the socket and the mutex, is in `AcceptMutex`.
* Daemonising, pid file, opening and configuring sockets, `epoll_test_rdhup()`:
  system calls in a fixed order at the start.
* `epoll_add_connection()`, `handle_write_event()`, `close_idle_connections()`,
  `close_listening_sockets()`, `send_lowat()`: no caller.
* The contents of memory: `pcalloc()` and `palloc()` are one. In `EventLoop`
  memory is a call that may fail.
* `stime_sigsafe_update()`: declared, not defined.
* The contents of messages: bytes are there or not. `mywrite()` is modelled by
  the outcomes of `send()`. How full a connection's buffer is, is not modelled either:
  `myread()` offers `recv()` 1024 bytes at `b->last` on every turn (`main.c:117`), of a
  buffer of 1024 bytes (`main.c:93`) whose `b->last` never moves back, so nothing here
  says that bytes stay inside of it.
* In `AcceptMutex` other errors of `accept()` than EAGAIN and EMFILE/ENFILE, after
  which a worker only returns, as `EventLoop` has it (`AcceptFails`), and what kills
  a worker: `Die`, at any step, stands for SIGPIPE too.
* The width of counts: those of arrays and lists are natural numbers in `Memory` and
  `uint32_t` or `size_t` in the code, which matters from 2^31 elements on.
* That a pool gives one and the same chunk twice in a row: what callers hold is a set,
  in which that would be no step. Overlaps of chunks that differ in any way are seen,
  and the proof is of more: a chunk that a call gives lies above the `d.last` from
  before, or is new from `malloc()` (`Above`), and is none that is held (`AboveIsApart`).
* Sizes of pools that are no multiple of 8, and `shmtx_lock()` on a mutex whose `spin`
  is `(uint64_t)-1`: no caller does either, and the hazards at `palloc.c:104` and
  `shmtx.c:38` have no property.
* Logging and the build files.

## Running it

Modules parse with SANY. A run `r` of `PROJECT.json` is `tlc -config <cfg> <module>`;
the largest (`workers`, `reusable`, `timers`, `rbtree`, `memory`) take one to three
minutes. Proofs are checked with `tlapm <module>`, a few minutes each, and a quarter of an
hour for `RBTreeProofs`. The community modules must be on the library path.
