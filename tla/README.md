# JustKit: a verification project

JustKit is a small C toolkit: eleven components, each a pair of files, and no
tests. This directory holds TLA+ models of its components, configurations with
which TLC checks them on small instances, and proofs about the thread pool, AIO,
the spinlock, the event library, the hash table, the list, the heap and the
Bloom filter that TLAPS checks for instances of every size.

Everything is translated from the code. Where the code and its comments
disagree, the model follows the code (see *What the checks found*).

## 1. The system

| component | files | state | operations | used by |
|---|---|---|---|---|
| thread pool | `jk_thread_pool.[ch]` | mutex and condition variable, singly linked list of tasks and its length, quit flag, a second mutex and condition for the start | `new`, `push`, `destroy`; the loop of a worker | AIO |
| AIO | `jk_aio.[ch]` | list of completed requests under a mutex, a pipe, two counters, one pool | `init`, `read/write/open/close/mkdir/rmdir/unlink`, `wait`, `poll`, `nreqs` | |
| AVL tree | `jk_avl.[ch]` | nodes that belong to the caller, a root pointer | `insert`, `remove`, `find_min/max/node` | timer |
| timer | `jk_timer.[ch]` | an AVL tree keyed by millisecond | `push`, `process_timeout`, `destroy` | |
| spinlock | `jk_spinlock.[ch]` | an int; the number of processors | `init`, `spinlock`, `spinunlock` | |
| hash table | `jk_hash.[ch]` | array of chains, size, count | `insert`, `find`, `remove`, `destroy`; rehash | |
| I/O event | `jk_event.[ch]` | array of handlers by descriptor; one of three backends | `add`, `del`, `process` | |
| Bloom filter | `jk_bloom_filter.[ch]` | bit array; global salts | `set`, `isset` | |
| list | `jk_list.h` | circular double links in the caller's structs | `add`, `del`, iteration macros | |
| skip list | `jk_skip.[ch]` | levels of links | `insert`, `delete`, `find` | |
| heap | `jk_heap.[ch]` | growing array | `insert`, `extract` | |

Two components run threads: the pool, and the AIO service built on it. A
request passes from a submitting thread through `jk_thread_pool_push` to a
worker, which runs `jk_aio_execute` and then `jk_aio_fininsh` as the `call` and
`finish` of a pool task; the latter links the request into the list of
completed ones and writes a byte to a pipe; a polling thread selects on the
pipe, drains it and empties the list, calling the request's callback. The timer
and the AVL tree are sequential, but callbacks re-enter the timer. The event library is sequential
too, but the kernel and the handlers it calls change what it is in the middle of
visiting. The rest are sequential data structures whose hard parts are allocation
failures, integer widths and long sequences of legal calls; they share nothing,
and neither the event library nor the timer calls the other.

What makes each correct, and what is hard about it:

* **Pool**: a task is run by one worker, once, and freed after that; no wakeup
  is lost, though `push` signals a single worker; `destroy` joins everybody and
  frees what was not begun. Hard: interleavings inside and between critical
  sections, spurious wakeups, destruction while callbacks still push.
* **AIO**: a request is delivered once, in the order of completion, and never
  touched after it is freed; a completion is never left in the list with
  nothing to wake the poller. Hard: bytes in the pipe and requests in the list
  do not correspond, the pipe may be full, the poller may free a request
  while its worker is not finished with the task.
* **AVL tree and timer**: the tree keeps exactly its members, ordered and
  balanced; the earliest timer fires first and no expired timer is left. Hard:
  stack of places patched in mid-removal, equal keys, callbacks that push, a
  clock that goes back, a 64-bit result kept in an `int`.
* **Spinlock**: mutual exclusion with a read outside the compare-and-swap and
  unlocks by threads that have no lock.
* **Hash table**: what was inserted is found again through any growth. Hard:
  a `long` hash kept in an `int`, a `calloc` that fails in mid-insertion.
* **I/O event**: the kernel watches what the table of handlers says, a handler
  is called only for an event that is watched at that moment, and an event that
  stays ready is served. Hard: handlers that delete, replace, open and close
  in the middle of a batch, two kevent calls of which the second fails,
  descriptors that are closed while they are watched, `max_fd` of select.
* **Bloom filter**: a key that was set is reported. Hard: the salts of the
  default hash belong to the program and change when any filter is set up.
* **List**: the loops visit every node whatever their bodies take out, move or
  append. Hard: nodes that left a list keep their pointers.
* **Skip list**: every search ends where a search of the lowest level would, and
  no link leads to a freed node. Hard: nodes do not know how many links they
  have, keys may be equal, a failed `malloc` leaves the level raised.
* **Heap**: what is extracted has the highest priority. Hard: an array that is
  cut after an extraction while its last item moves to the root, and `realloc`
  that may fail then.

## 2. The modules

| module | models | built from |
|---|---|---|
| `TaskPool` | what the pool promises: a task waits, runs, is done or is dropped | |
| `ThreadPool` | `jk_thread_pool.c` | refines `TaskPool` |
| `ThreadPoolProofs` | theorems about `ThreadPool`: its invariants, and that it implements `TaskPool` | extends `ThreadPool` |
| `AioService` | what AIO promises: accepted requests complete and are delivered in that order | |
| `Aio` | `jk_aio.c` | extends `ThreadPool`, refines `AioService` |
| `AioProofs` | theorems about `Aio`: its invariants, and that it implements `AioService` | extends `Aio`, `ThreadPoolProofs` |
| `Avl` | `jk_avl.c` as operators on a tree value | |
| `AvlTree` | a caller that inserts and removes in any order | extends `Avl` |
| `TimerSet` | what the timer promises | |
| `Timer` | `jk_timer.c` | extends `Avl`, refines `TimerSet` |
| `Spinlock` | `jk_spinlock.c` | |
| `SpinlockProofs` | theorems about `Spinlock` | extends `Spinlock` |
| `Dictionary` | what the hash table promises | |
| `HashTable` | `jk_hash.c` | refines `Dictionary` |
| `HashProofs` | theorems about `HashTable` | extends `HashTable`, `Iteration` |
| `ByteHash` | the hash function that `jk_hash.c` and `jk_bloom_filter.c` each have | instantiated by `MCHashTable` and `MCBloom` |
| `Watches` | what the event library promises | |
| `Event` | `jk_event.c` | refines `Watches` |
| `EventProofs` | theorems about `Event` | extends `Event`, `Iteration` |
| `PriorityQueue` | what the heap promises | |
| `Heap` | `jk_heap.c` | refines `PriorityQueue` |
| `KeyedStacks` | what the skip list promises | |
| `SkipList` | `jk_skip.c` | refines `KeyedStacks` |
| `SkipProofs` | theorems about `SkipList` | extends `SkipList`, `Iteration` |
| `List` | `jk_list.h` | |
| `Bloom` | `jk_bloom_filter.c` | |
| `ContainerProofs` | theorems about `Bloom`, `List` and `Heap` | extends the three and `Iteration` |
| `Containers` | a program that uses one of the containers | extends `AvlTree`, `Heap`, `SkipList`, `List`, `Bloom` |
| `Iteration` | lemmas about loops, without code of their own: induction over numbers, repeated steps | |
| `MC...` | constants and symmetry of the instances TLC checks | |

A definition named for a fault (`SignalForgotten`, `StackNotPatched`, ...)
stands before the definition it would replace. No specification uses it: it
documents a plausible bug that breaks a property.

### ThreadPool

Each thread has a place: `mpc` for the thread that creates and destroys the
pool, `pc[w]` for a worker in `jk_thread_loop`, `ppc[p]` for whoever is inside
`jk_thread_pool_push` (a client or a worker whose callback pushes). `lock`,
`wait_threads`, `wait_tasks`, `task_nums` and `quit_flag` are the fields of
`jk_thread_pool_t`; `task`, `node` and `next` are local variables. A critical
section in which a write depends on an earlier read (`task = wait_tasks; ...
wait_tasks = task->next`, `task->next = wait_tasks; wait_tasks = task`) is two
steps, so that the mutex does the protecting and not the atomicity of the
model; the critical sections of the handshake, of `destroy`, and of a worker
that goes to sleep or exits are one. `pthread_cond_wait` releases the mutex and
sleeps in one step, as POSIX promises; `SpuriousWakeup` lets it return without
a signal. A node never changes once it is linked, so a pointer to a node is the
sequence from there to the end of the list.

`block`, `calls`, `fins` and `spurious` are history. A task is a block malloc
hands out; each is used once.

`pthread_create` reports an error with a positive number, and the code compares
with -1. `CreateError` therefore goes on as the code does, with a worker that
does not exist.

### Aio

`Aio` extends `ThreadPool`, and every step of the pool is a step of `ThreadPool`:
task `t` carries request `t` as its argument. `jk_aio_fininsh` and `jk_aio_poll`
are split between their assignments, since the list is not well formed in the
middle of its critical sections. `jk_aio_wait` is `Select`, when the pipe is
readable, and one `Drain` for each byte; `PollAnyway` is a call of
`jk_aio_poll` that `jk_aio_wait` did not announce (a timeout). `jk_aio_poll`
tests for a callback before it calls it: `Deliver` is both outcomes, since a
request without a callback behaves as one whose callback does nothing, and
`delivered` counts how often it was reached. The
results of the system calls are left out: no property depends on them.

### Avl, AvlTree and Timer

`jk_avl.c` works with pointers to pointers. A tree value has a function `at`
from places (the root, and the left and right field of each node) to nodes, and
a stack of `nodeplaces` is a sequence of places. `AvlTree` inserts and removes
freely; `Timer` adds the clock, the loop of `jk_timer_process_timeout` split at
the callback, and pushes from inside callbacks. `ToInt` is the conversion of the
callback's `jk_uint64_t` to `int`, with an `int` of `IntBits` bits.

`Ties` is FALSE in the instances that are to pass: what happens with equal keys
is section 4.

### Spinlock

Each read of `*lock` and each compare-and-swap is a step. The inner loop of
`jk_spinlock` has `n << 1` where its counter should advance, so it never ends
but with the lock: the model has no step from it to `sched_yield`.

### HashTable

Chains are sequences of entries, and an entry is known by its place, a bucket
and a position in its chain. The hash function is a constant, `HashOf`, with
values wider than an `int`; the stored hash is cut to an `int` between
`-IntLimit` and `IntLimit - 1`. A rehash is the loop of the code: each round
moves the first entry that is left in the old buckets. When `calloc` fails in
`jk_hash_new`, the `free(o)` there is a call of the parameter `free`, the user's
function for values, with the table (`NewNoBuckets`, recorded in `misfreed`). The
model goes on without a table; what the user's function makes of its argument,
or a null pointer in its place, is outside it, and no property is about it. The three
users of the hash disagree (a search compares the `int` with the `long`, an
insertion uses the `long` for the bucket, a rehash the `int` as unsigned), so
keys with wide hashes are never found and are entered again at each insertion.
The properties are about the other keys, in a table they share with wide ones.
`jk_hash_buckets_size` is scaled down to `BucketSizes`. Negative hashes would
index before the array and are outside the model. Keys that `strncmp` holds
equal (it stops at a zero byte) are one key.

The keys of the instance are sequences of bytes, and an assumption of
`MCHashTable` that TLC evaluates says that `HashOf` is `ByteHash!JkHash` of them:
`jk_hash_default_hash` on words of eight bits for 32 and shifts of two for four.
The code computes it in a `long`, so that a carry out of the word stays; the
fourth key is one for which that happens.

### Event

`event` and `handler` are the fields of `events[fd]`; `kernel[fd]` is what the
kernel, or the pair of `fd_set`s, watches. `backend` is the system the library
was compiled for and never changes: each of `EpollAdd`, `KqueueDel`, ... is
one of the functions of that name in the code, with the calls of the kernel it
makes and the conditions under which the kernel refuses them (`EPOLL_CTL_ADD` of
what is there, `EPOLL_CTL_MOD` of what is not, a filter that does not exist, a
descriptor that is closed). A refused call changes nothing and is no step, but
for the two calls of kqueue of which the second fails (`AddHalf`, `DelHalf`).

`jk_event_process` is a step that takes a report (`Process`), one for each
entry (`Visit`), and one for each handler it calls or passes over. While a
handler runs (`stage` is "reading" or "writing") the program may do anything but
process or free. The kernel may report any part of what it was asked for.
`CloseFd` and `OpenFd` are the program's: epoll and kqueue forget a closed
descriptor, select fails as long as one is in its sets.

`doubt` is history: the descriptors that were closed while watched or whose
kqueue call failed half-way, until the kernel and the table agree again. For
them the promise is off, as nothing in the code notices.

### The containers

`Heap`: the array is a function on `0..size-1`; sifting is written as the path
of the item that moves. Floating point in `size > used * 1.5` and in the new size
is exact for these numbers and becomes integer arithmetic.

`SkipList`: a node is a block with as many links as its level; the level drawn
is any up to the size of the arrays. No address is compared with another, so
`malloc` hands out the first free block. `Update` is the array `update` of
insertion and deletion, `Row` the lowest level in the order `jk_skip_free` walks it.

`List`: the pointers of nodes in no list are part of the state. `loop` holds
the head, the node and the saved node of the loop that runs, in either
direction, safe or not.

`Bloom`: `SetUp` is `jk_bloom_filter_init`, alone or in `jk_bloom_filter_new`; with
the default hash it draws all salts again. `added` is what a filter still has to
report: setting up a filter with the default hash takes that promise from all
filters with the default hash, because the code cannot keep it. `MCBloom`
assumes, and TLC evaluates, that `DefaultHash` is `ByteHash!SaltedHash`.

`Containers` chooses one of them, and the tree, and uses it alone.

## 3. The runs

| run | instance | shows |
|---|---|---|
| `pool_safety` | 3 workers, 2 clients, 4 tasks (2 with a finish callback), 1 spurious wakeup, `pthread_create` may fail; deadlock checked | consistency of list, counter and blocks; no lost wakeup; `destroy` leaves nothing; the pool implements `TaskPool` |
| `pool_live` | 2 workers, 1 client, 3 tasks; fair | pushed tasks are served; `new` and `destroy` return |
| `aio_safety` | 2 workers, 1 submitter, 1 poller, 3 requests, a pipe of 2 bytes, `pthread_create` may fail; fair | exact count of requests in flight, clean failure of `jk_aio_init`, implements `AioService`, every pushed request is delivered |
| `aio_pollers` | 2 workers, 2 threads that submit, wait and poll, a pipe of one byte, 1 spurious wakeup | the list is a queue, no completion is lost, nothing is used after it is freed or delivered twice |
| `timer_distinct` | 3 timers, a clock that may go back, results that do not fit the `int`, no ties; fair | no timer lost, none left expired, implements `TimerSet`, every timer fires |
| `timer_ties` | 4 timers with ties | **violated**: see section 4 |
| `spin` | 3 threads; fair | exclusion; the word names its owner; the lock is taken |
| `hash_map` | 4 keys (two equal hashes, one that collides in the small table, one that does not fit an int), 5 values, tables of 2, 3 and 7 buckets | count and ownership of values exact; implements `Dictionary` |
| `event` | 2 descriptors, 3 backends, 2 handlers, one for both events or one for each; fair | table and kernel agree, implements `Watches`, what is ready is served |
| `event_max_fd` | the select backend | **violated**: see section 4 |
| `containers` | a tree of 12 keys, a heap of 7 items that starts with 2 places and grows by 2, a skip list of 4 nodes, 2 keys and 3 levels, 2 lists of 3 nodes, 2 filters of 8 bits with 2 keys | balance, order and exactness of the tree; the heap is a priority queue; the skip list keeps stacks; loops are complete; filters forget nothing |
| `bloom_salts` | 1 byte of bits, 2 salts | **violated**: see section 4 |

**Why the bounds are enough.** The pool has two roles of threads that meet at the
list and a third at destruction: three workers and two clients let one worker
sleep, one hold the mutex and one run a callback that pushes, while two clients
push. Four tasks make the list longer than the workers that are awake. Three
requests overfill a pipe of two bytes. Twelve keys give trees of height five:
all four rotations occur at inner nodes, and removals rebalance more than one
node of a path. The arrays of `JK_AVL_MAX_HEIGHT` places, 41 in the code, are
scaled down to `MaxHeight`: `StaysBalanced` shows that five places are enough for
twelve nodes, and says nothing by itself about 41. An assumption of
`MCContainers` that TLC evaluates adds the arithmetic: a balanced tree
must have more than 700 million nodes before a path is longer than 41. Three
timers are enough for the timer's own loop: one fires while another waits and a
callback pushes or rearms a third. Pushes rotate such a tree, removals of its
leftmost node never do, and the node they remove never has a left child: for
removals that rotate or move a predecessor up, the timer relies on what the
`containers` run shows of `Avl` with twelve keys. The hash table
grows twice and can do so with a `calloc` that failed before.

Two descriptors with two events each make batches of four pairs, so that a
handler can delete or replace another event of its own descriptor and one of
another descriptor, before and after it in the batch, and so that `max_fd` can
name a descriptor that is not the only one; one stays open so that select can
go on. Seven heap items fill three levels, with an array that is enlarged three times
and cut at every extraction. Four nodes on two keys and three levels give equal keys
with nodes of different heights in every order. Three nodes and two lists let a
body take out its node, append another and move it to another list. With two
of eight salts and functions a filter can draw equal salts and salts that
confuse the keys, and a second filter can draw them again.

`MaxSpurious`, `MaxTime`, `MaxAppends`, `SkipMaxLevel`, `MaxEvents` and the sets of
tasks, timers, keys and nodes are the only bounds on behaviour, and all stand in
guards or in the domains of quantifiers.

**Deadlock** is checked where a system can always go on (`pool_safety` with an
explicit `Over` step once the pool is gone or the creator hangs for the reason of
section 4, `hash_map`, `spin`, `event`, `containers`). It is off for AIO,
which has no shutdown and simply has nothing left to do when all requests are
used, and for the timer, whose clock is bounded. In `pool_live` it is checked as
well.

**Fairness.** Weak fairness for every thread that can run: for each worker's next
step, for each push that has begun, for the poller that goes back to
`jk_aio_wait`. This says that threads are scheduled, that callbacks return and
that a free mutex is granted. Weak fairness on a mutex is enough because
pushes and spurious wakeups are bounded, so nobody is overtaken for ever. Nobody
is made to push, to submit or to destroy. For the spinlock fairness of each
thread gives only that *some* thread gets the lock, which is what the code gives.

The timer's clock runs, and is set back finitely often (`Fairness` of `Timer`):
a clock that is set back again and again may never reach the time of a timer.

For `Event` the loop of `jk_event_process` is weakly fair. Each pair of descriptor
and event is reported infinitely often if it could be, infinitely often: strong
fairness of the environment, which says that the program keeps calling
`jk_event_process`, that the event in question stays ready, and that the kernel
does not starve it. The code does its part only if a report of one event is not
spent on another, which is what `ReadyIsServed` is about. A handler may be
replaced, its event deleted, or the event be a write event whose descriptor has
the same handler for reading: then the property asks nothing.

The abstract specifications have no fairness: liveness is stated on the
detailed ones as leads-to formulas.

## 4. What the checks found

**Timers that expire in the same millisecond are lost** (`timer_ties`).
`jk_avl_remove` looks for the place of the node to delete by key and stops at the
first node with that key (`src/jk_avl.c:202`), then overwrites that place with
what should replace the node to delete. `jk_avl_insert` accepts equal keys, and
the timer uses milliseconds as keys. With three timers for one millisecond the
first removal, of the leftmost node, clears the root: the two others are neither
called nor freed, and `jk_timer_process_timeout` leaves its loop at the comment
"no elements timeout" (`src/jk_timer.c:109`).

**The largest descriptor of select is not updated** (`event_max_fd`). The comment
at `src/jk_event.c:439` says that deletion of the largest descriptor updates
`max_fd`. The loop at line 446 looks for the last entry of the table with an
event, but `jk_event_del` clears the entry of the deleted descriptor only after
it (line 110), so that the loop always stops there. It does no harm: select
looks at more descriptors than it must, never at fewer (`TableMatchesKernel`).

**The salts of a Bloom filter may be equal** (`bloom_salts`). The comment at
`src/jk_bloom_filter.c:41` says "make sure all salts are different"; the `continue`
below it continues the inner loop. Two functions with one salt set one bit.

Not violations of anything the repository states, but visible in the models:

* `jk_thread_pool_new` waits for ever when `pthread_create` fails
  (`src/jk_thread_pool.c:98`); what holds is that it never hands out an
  incomplete pool (`HandedOutComplete`, proved).
* The list of tasks is a stack: the last task pushed is the first one begun.
* `jk_thread_pool_destroy` drops tasks without calling their `finish`.
* When `calloc` fails in `jk_hash_new`, the table goes to the user's function for
  values instead of the `free` of the C library, whose name a parameter hides
  (`src/jk_hash.c:93`).
* A request whose push is refused is leaked with its path (`src/jk_aio.c:197`).
* Setting up any Bloom filter with the default hash makes the others with that hash
  forget their keys (`src/jk_bloom_filter.c:73`).
* With select, a descriptor that is closed while it is watched makes
  `jk_event_process` fail until it is deleted (`src/jk_event.c:468`); with epoll its
  entry in the table remains, and a new descriptor of that number cannot be
  added, since `EPOLL_CTL_MOD` is tried (`src/jk_event.c:173`).
* When the second call of kevent fails, `jk_event_add` returns -1 while the kernel
  watches the first event (`src/jk_event.c:308`).
* A key of the skip list that is inserted again hides its former value.
* A hash that does not fit an `int` makes its key unfindable (`src/jk_hash.h:47`).
* A period that does not fit an `int` is cut, or ends the timer (`src/jk_timer.c:115`).
* A callback that keeps returning a small period keeps `jk_timer_process_timeout`
  in its loop (`src/jk_timer.c:104`).
* A thread that waits for a spinlock never yields the processor
  (`src/jk_spinlock.c:50`).

These are what the code does and no document of the repository denies it, so no
property forbids it: the entries for them under `hazards` in `PROJECT.json` have
a note instead. The properties near them hold with these behaviours included:
`HandedOutComplete` beside a creator that waits for ever, `TimerSet` with the period
as the `int` has it, `EveryTimerFires` also of a loop that never returns,
`LockIsTaken` with or without a yield, `NoFalseNegative` for the keys set since
the salts were drawn.

## 5. What is proved

Each theorem holds for all constants that satisfy the assumption of its module,
which TLC evaluates on every run: `PoolAssumption` (a finite, nonempty set of
workers, any clients and tasks), `AioAssumption` (pollers are clients, every
task has a finish callback, a pipe of at least one byte), `SpinlockAssumption`
(threads have distinct numbers other than 0), `EventAssumption`,
`HashAssumption` (hashes are not negative, the table sizes grow and none is 0),
`ListAssumption`, `SkipAssumption` (finitely many blocks, keys that are numbers,
room for at least one level), `HeapAssumption` (priorities are numbers, the array is created
and grows with at least one place) and `BloomAssumption`. The rest of each
assumption says that `Nobody`, `Nowhere`, `Junk` and the like are not among the
values they stand beside.

| theorem | states |
|---|---|
| `ThreadPoolProofs!TypeCorrect` | `Spec => []TypeOK` |
| `ThreadPoolProofs!CountIsLength` | `Spec => []CountMatchesList` |
| `ThreadPoolProofs!ListStaysConsistent` | `Spec => []ListConsistent`, the two together |
| `ThreadPoolProofs!PoolIsComplete` | `Spec => []HandedOutComplete` |
| `ThreadPoolProofs!NothingStartsAfterQuit` | `Spec => NoStartAfterQuit` |
| `ThreadPoolProofs!NoLostWakeup` | `Spec => []WorkerPerTask` |
| `ThreadPoolProofs!TasksHaveOneOwner` | `Spec => []OneOwner` |
| `ThreadPoolProofs!DestroyLeavesNothing` | `Spec => []GoneIsQuiet` |
| `ThreadPoolProofs!TasksRunOnce` | `Spec => []RunOnceThenFreed` |
| `ThreadPoolProofs!PoolImplementsTaskPool` | `Spec => ImplementsTaskPool` |
| `AioProofs!AioInvariant` | `AioSpec => []AioInv`, the invariant the next ones rest on |
| `AioProofs!AioUsesPool` | `AioSpec => Spec`: jk_aio uses the pool as `ThreadPool` says |
| `AioProofs!ListStaysQueue` | `AioSpec => []ListIsQueue` |
| `AioProofs!RequestsOutliveUse` | `AioSpec => []NoUseAfterFree` |
| `AioProofs!CallbacksRunOnce` | `AioSpec => []DeliveredOnce` |
| `AioProofs!InitLeavesAllOrNothing` | `AioSpec => []InitAllOrNothing` |
| `AioProofs!CompletionsAreAnnounced` | `AioSpec => []NoLostCompletion` |
| `AioProofs!InFlightIsExact` | `AioSpec => []InFlightExact` |
| `AioProofs!AioImplementsService` | with one poller, `AioSpec => ImplementsService` |
| `SpinlockProofs!WordIsOwner` | `Spec => []WordNamesOwner` |
| `SpinlockProofs!Exclusion` | `Spec => []MutualExclusion` |
| `EventProofs!KernelInStep` | `Spec => []TableMatchesKernel` |
| `EventProofs!EventImplementsWatches` | `Spec => ImplementsWatches` |
| `HashProofs!HashInvariant` | `Spec => []HashInv`, the invariant the next three rest on |
| `HashProofs!TableStaysExact` | `Spec => []TableExact` |
| `HashProofs!ValuesOwnedOnce` | `Spec => []DataOwnedOnce` |
| `HashProofs!TableImplementsDictionary` | `Spec => ImplementsDictionary` |
| `ContainerProofs!HeapStaysHeap` | `HeapSpec => []HeapShape` |
| `ContainerProofs!HeapImplementsQueue` | `HeapSpec => ImplementsPriorityQueue` |
| `ContainerProofs!LoopsVisitAll` | `ListSpec => []LoopsComplete` |
| `ContainerProofs!NoKeyForgotten` | `BloomSpec => []NoFalseNegative` |
| `SkipProofs!SkipStaysShaped` | `SkipSpec => []SkipShape` |
| `SkipProofs!SkipCallsOnStacks` | `SkipSpec => [][CallsOnStacks]_skipVars`: what each call does to the stacks |
| `SkipProofs!SkipImplementsStacks` | `SkipSpec => ImplementsStacks` |

### The pool

The argument has five layers, each an inductive invariant relative to the ones
before it, but the last:

1. `Core`: types, the lock discipline (`lock = p` exactly while `p` is between
   the two halves of a critical section, and then its copy of the head is the
   list), pushers in place, and `task_nums = Len(wait_tasks)`. The count alone
   is not inductive: `Pop` writes back a tail that was read one step before, and
   only the discipline says that it is still the tail of the list. That the
   counter is a natural number also needs it: a worker passes the test of
   `task_nums`, and only later subtracts one.
2. `Phases`: how the phases of the creator bound where the workers can be. The
   report of each worker is counted by `wait_threads`, so `jk_thread_pool_new`
   returns only when none is left to report (`HandedOutComplete`); after
   `quit_flag` no worker can be past the test (`NoStartAfterQuit`, an action
   property).
3. `WorkerPerTask`: while somebody sleeps, the list is no longer than the set of
   workers that are awake and not running a task. A push adds a task and wakes a
   sleeper; a pop takes a task and a worker out of the set; a worker that goes
   to sleep finds an empty list.
4. `OneOwner` and `Served`: a task is in one place, and how often its callbacks
   have run follows from the place.
5. The refinement: under `OneOwner` the places of a task exclude one another, so
   that its status in `TaskPool` is a function of where it is; `PushLink`,
   `Pop`, `Free`, `Reap` and `Destroy` are the steps `Accept`, `Start`,
   `Complete`, `Discard` and `Close`, and every other step moves no task.
   `Served` is what makes a freed block *done* or *dropped* on the right side.

### AIO

`AioInv` is the conjunction of the pool's invariants, which hold because every
step of `Aio` is a step of `ThreadPool` or leaves the pool alone, and of

* `AioLocking`: who is in the middle of `jk_aio_fininsh` or `jk_aio_poll` has
  `aio.lock`, and nobody else has it;
* `Submitting` and `InitInPlace`: what a submitting thread carries, and what
  `jk_aio_init` has left behind in each of its places;
* `ListLinked`: what head, tail and `next` fields say of the queue of completed
  requests, in each place of the two critical sections. `ListIsQueue` speaks
  only of a free lock, and is not inductive: the four assignments of
  `jk_aio_fininsh` leave a list that is not well formed after each but the last;
* `Requests`: for each place a request can be in (a submission, the pool, a
  worker before, in or after `jk_aio_fininsh`, the list, a poller, freed), what
  has happened to it. `NoUseAfterFree` and `DeliveredOnce` follow.

`NoLostCompletion` has an induction of its own on top of that. The number of
bytes in the pipe says little about the list: a poller may take several requests
for one byte, a worker that finds the pipe full writes none. What holds is that
a nonempty list implies a byte, a writer about to write, or a poller that has
read a byte and not yet emptied the list. A full pipe is no exception since a
full pipe holds a byte.

`InFlightExact` equates the counter with the size of a set of requests; each
step that changes the counter moves one request in or out of the set.

The refinement of `AioService` is stated with one poller (`Pollers = {p}`). With
several the promise would be too much: each has a request of its own between
taking it and calling its callback, so that callbacks may run in another order
than the requests completed. With one, linking the pool's task accepts a
request, the last assignment of `jk_aio_fininsh` to the list completes it, the
call of its callback delivers it, and the abstract queue is the request the
poller has taken, followed by the list.

### The spinlock

`WordNamesOwner`, with the types, is inductive: whoever swaps the word found it
0, which says that nobody had the lock, and an unlock by a thread that has none
changes nothing because the word is not its number. Mutual exclusion follows,
since one word names at most one thread; alone it is not inductive.

### The event library

`TableMatchesKernel` is inductive as it stands. Epoll is given the mask of the
table with the new events, kqueue and select change what they have, so that both
directions of the agreement are needed; with select no descriptor is ever in
doubt, which is why `CloseFd` leaves it alone. That `max_fd` covers what is
watched needs that the search from the end of the table finds a largest element:
`HasLargest`, a lemma about sets of integers, gets that from `LeastNumber`.

That the loop implements `Watches` needs, besides, what the local variables of
`jk_event_process` say at each of its places (`Visiting`): that the entry being
visited was taken from the batch and its events were reported, that a handler
which runs was the one in the table when it was called, and which of the two
events of the entry are still to be looked at. A visit that calls nobody maps to
a stutter or to dropping reports nobody watches; when the select loop stops
before the end of its batch, the descriptors left are above `max_fd`, and nobody
watches those.

### The hash table

`HashInv` is about the entries of the table: no two have the same value or the
same narrow key (a key whose hash fits an `int`), each keeps the hash of its key
as an `int`, those of narrow keys hang in the bucket a search looks in, their
values are what the table owns, and `elm_nums` is the number of those values.
`TableExact` alone is not inductive: that a rehash leads each entry to the bucket
where a search looks for it needs the stored hash to be that of the key.

Where an entry hangs matters only to the search. `ChainMinus` is about a table
that differs from another by one entry, wherever the entry is in its chain;
`EntryLeaves` and `EntryComes` turn that into sets of entries. Every operation is
then an entry less, one more, or (a replacement) one less and another more. The
rehash repeats such a step: in each round (`MoveStep`) an entry leaves the old
buckets and comes into the new ones. The number of entries left falls, so that
the rounds the code makes move all of them (`RehashKeeps`).

A search for a narrow key depends on the set of entries only (`ValueIs`), and so
does the value of the key in `Dictionary`: `TableMore` and `TableLess` say what
an entry more or less is to the dictionary. An entry of a wide key is nothing to
it, since no search finds it.

### The containers

List. `Rings` says that the pointers form, for each head, the ring of the nodes
in `order[h]`, and `Apart` that no node is in two lists or twice in one.
`LoopsComplete` is not inductive, because it says nothing about the saved node.
`Looping` adds it: the loop goes on at a place of its list before which nothing
is left to visit; in the body of a safe loop only the node of the body may have
left that place.

Heap. An item that is put into the tree goes a *way*: a sequence of places, each
a step from the one before, until it stays. Since each step lowers a rank (the
place, or the distance from the last one) no place is entered twice and the way
has ended after as many steps as the code can take (`RankFalls`, `NeverBack`,
`WayEnds`, in `Iteration`). So the places it left and the place it ended at form a path on which
the steps are one-to-one (`WayPath`), and moving every item by one step along a
path doubles none and loses none (`ShiftKeeps`). `UpOrders` and `DownOrders`
then go through the pairs of parent and child, on the path, beside it and
across. `HeapShape` is inductive as it stands, and the root is an item of
highest priority by induction over the places (`RootIsTop`).

Bloom filter. `Remembers` says of every filter that the bits of its promised
keys are set, and that none is when no key was. A step that draws salts changes
the bits every default filter looks at, and empties their promises; the filters
with a hash of the user do not look at the salts.

Skip list. `SkipShape` is not inductive: it speaks of the lowest level as a
sequence and of the other levels as parts of it, and says nothing by which a
step that rewrites links on several levels at once could be followed. `SkipInv`
says instead that there are *places*: numbers `pos[n]`, one for each block,
without gaps, ordered as the keys are, such that each link leads to the next
block that has a link of its level (`NextIs`). It is inductive, and gives
`SkipShape` (`ShapeIs`). The steps of the argument:

* Searches. The loop on one level moves to a greater place each time, so that
  it has ended after as many steps as there are blocks (`SearchEnds`), at the
  last block of its level with a smaller key, wherever it began: what the levels
  above left behind is only a head start (`UpdateIs`). So the lowest level is
  cut where a search of that level alone would cut it (`LowestSplits`,
  `FindIs`).
* Insertion moves the places behind the cut up by one and puts the new node in
  the gap (`AddKeeps`); the links of `update` on the drawn levels are the only
  ones the new node comes between.
* Deletion closes the gap (`DropKeeps`). A node has one predecessor on each
  level, and that is what `update` holds (`OneLink`): so the levels on which
  `update` leads to the node are all levels the node has, though it does not
  record them (`LinkedLevels`). The level that `Lowered` computes is still above
  every node that is left.
* Stacks. `Row[s]` is the block at place `s` (`RowIs`), and the nodes of key `k`
  are those between two cuts of the row, whose positions are cardinalities
  (`CutsAt`, `UnderIs`). An insertion shifts the cuts of greater keys and the row
  behind its place by the same amount, so that other keys keep their nodes
  (`AddPushes`); a deletion likewise (`DropPops`).

### Only model-checked, and why

Liveness: the prover has no rules for `ENABLED` and fairness.

The tree and the timer: `Avl` is written with recursive operators on trees,
which puts it and the modules that extend it (`AvlTree`, `Timer`, `Containers`)
out of the prover's reach, and what they compute would need an induction over
trees. So `StaysBalanced`, `TreeExact`, `NoTimerLost` and `ImplementsTimerSet` are
checked on the instances only.

Induction over numbers can be had without the library's induction theorem, which
the provers cannot apply: a nonempty set of numbers has a least element
(`LeastNumber`, from the pigeonhole principle), and the proofs about the heap,
the hash table, the skip list and the event library reason about the least number for which a
claim fails, or the least with some property. `Iterated` and `StaysInside` get
from it that a loop, written as a recursive function, computes something and
keeps what its step keeps.

## 6. What is not modelled

`jk_types.h` and the build rules have no behaviour of their own. Of the modelled
components: the results of system calls and
`errno` (AIO), the failure of `gettimeofday` (timer), negative hashes, which come
from bytes above 127 and index before the array (hash table), levels beyond the
array of links (skip list), descriptors that are negative or beyond
`FD_SETSIZE` (event), timeouts of `jk_event_process`, which end it without a
report (a step that changes nothing), a `jk_thread_pool_destroy` that races with a
client's push (the caller frees the pool and must not do that), failures of
`pthread_mutex_init` (they cannot be seen by the code, which compares with -1),
and the order in which several threads that wait for one mutex get it.

## 7. Plan

All components are modelled, and what the provers can reach is proved. What is
left to TLC is listed at the end of section 5.
