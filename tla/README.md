# Verification of melon

Melon runs many fibers (user-level threads with their own stacks) on a pool of
kernel threads, and gives them mutexes, conditions, timers and blocking I/O
whose waits park the fiber and not the thread.  This directory holds TLA+
models of its core, the TLC runs that check them and TLAPS proofs about them.
Paths below are relative to `src/src/`.

## Inventory

| Part | State | Operations | Interacts with |
|---|---|---|---|
| scheduler, `sched.c` | ready queue, current fiber per thread, `fiber->lock`, `sched_next_cb` | `melon_sched_run`, `sched_next`, `melon_sched_next`, `melon_sched_ready` | everything that parks a fiber |
| runtime, `melon.c` | `stop`, `fibers_count`, threads | `melon_init`, `melon_wait`, `melon_deinit` | scheduler, timer and I/O threads |
| fibers, `fiber.c` | fiber, join mutex and condition | create, wrapper, destroy, join, tryjoin, timedjoin, detach | scheduler, mutex, condition |
| mutex, `mutex.c` | owner, lock queue, count | lock, trylock, timedlock, unlock, lock2 | scheduler, timers |
| condition, `cond.c` | wait queue, saved mutex and count | wait, timedwait, signalnb | mutex, timers |
| timers, `timer_manager.c` | sorted timer queue, its thread | push, remove, sleep, usleep, loop | mutex, condition, I/O |
| lists, `dlist.h`, `list.h` | rings through next/prev and timer_next/timer_prev | push, insert, unlink, pop | all queues |
| barrier, `barrier.c` | count of the fibers still to come | wait, add, release, destroy | mutex, condition |
| read-write lock, `rwlock.c` | count, reading or writing, writer | rdlock, wrlock, their try and timed forms, unlock | mutex, two conditions |
| semaphore, `sem.c` | units left, queue of fibers | acquire, tryacquire, timedacquire, release | mutex, condition |
| I/O manager, `io_manager_epoll.c` | read and write queue per descriptor | loop, waitfor, close | timers, scheduler |
| stacks, `stack_alloc.c` | ring of free stacks, its length | alloc, free, init, deinit | fibers |

What is hard: a fiber links itself where a waker finds it *before* it has
swapped out, so it can be ready, running elsewhere, even finished, while its
old thread is still leaving it; a timeout and an event race for the same fiber;
the locks are taken in the order `g_melon.lock`, condition, mutex, which forces
`melon_mutex_unlock` to drop the spinlock and look again; threads sleep on
three pthread conditions whose wake-ups must not be lost; and the same pair of
links serves all queues, so a fiber must be in one at a time; the barrier gives
its count back fiber by fiber; a joiner and the fiber it joins wait for each
other on one condition.  `PROJECT.json`
lists these hazards at their lines.

What makes each part correct: the mutex excludes, is FIFO and loses no waiter;
a timed call has one outcome; a condition forgets no waiter and gives the mutex
back as it was; a fiber runs on one thread at a time and every ready one runs;
`melon_wait` and `melon_deinit` return, and only when all is finished; the
timer thread sleeps past no deadline and no sleep is short; the members of a
barrier stay in step; readers and writers exclude each other; a joined fiber is
freed once, after the last use of its handle; a stack is in one place.

## Modules

* `Dlist` — the rings as sequences.  `DlistUnlink` does what the macro does to
  a ring the item is not on; `TimerInsert` is the scan of
  `melon_timer_push_locked`.
* `Mutex` — one mutex.  A critical section is one action, so
  `melon_mutex_unlock` is `Unlock` (count, no lock), `UnlockCheck` (spinlock)
  and `UnlockHandoff` (`g_melon.lock` and spinlock), and
  `melon_mutex_timedlock` is `TimedLock` and `TimedLockEnqueue`.  The timer
  thread holds `g_melon.lock` over all the timers it fires in a row (`glock`).
  `held` is a ghost: the locks a fiber's calls have returned and it has not
  undone.
* `Cond` — extends `Mutex` with one condition.  `Signal`, `SignalWakes`,
  `SignalDone` are the loop of `melon_cond_signalnb`: it keeps `g_melon.lock`
  and the condition's lock, but the mutex's lock is free between two rounds.
  `fault` records a failing assertion or a read through NULL; nothing follows.
  A failing step is the action `CondFault`.
* `Monitor` — the abstract specification: a FIFO lock with conditions, as the
  users of `mutex.c` and `cond.c` see them.  `Mutex` and `Cond` implement it
  (`ImplementsMonitor`, `CondImplementsMonitor`): `holder` is the owner unless
  it is inside its last unlock, or the unlock of its wait; `queue` is the lock
  queue; `waking` is what a signaller will still take from its local list.  So
  `Unlock` to 0 is `Release`, `UnlockHandoff` is `Grant`, the timer callback is
  `GiveUp` or `Expire`, and `UnlockCheck`, `Resume` and nested locks stutter.
* `Barrier`, `RWLock`, `Join` — `barrier.c`, `rwlock.c` and the joinable fibers
  of `fiber.c`, whose code only calls `mutex.c` and `cond.c`, on the actions of
  `Monitor`.  A call is split where it may wait: at its lock, at its wait and
  after its signal.  `round` and `members` (barrier), `locks` (read-write
  lock) and `waited` (join) are ghosts.
* `StackAlloc` — the cache of stacks, with the ring of `list.h` pointer by
  pointer in `next`, the test of the limit outside the lock, and the life of
  the cache across `melon_deinit` and `melon_init`.
* `Sched` — the pool, the life of light fibers and the main thread's init,
  wait and deinit.  Every queue of the library is reduced to `FiberBlock` (link
  and then swap) and `Wake`.  `melon_sched_run` looks for the callback, copies
  and clears it without a lock: three steps, `SchedCallback`, `SchedCopy` and
  `SchedClear`.
* `Timer` — the timer queue and its thread, sleeps, and timed waits whose
  event may come first.
* `MCObjects` — runs one of `Barrier`, `RWLock`, `Join`, `StackAlloc` and
  `Timer` at a time, with the fairness they need.  They share no state, so
  their composition is a choice.
* `IoManager` — the epoll set, the I/O thread and the fibers that wait for
  descriptors (`io_manager_epoll.c`, `io.c`).  `EpollWait` fetches and disarms
  a batch without the lock, `IoHandle` handles it under the lock: between the
  two anything else may happen.  The kernel's part (`open`, `level`,
  `registered`, `armed`) is what the code relies on: one-shot events, `HUP`
  reported with any armed event, a closed descriptor gone from the set.
  `cause` is a ghost.
* `MCSched` — symmetry sets for TLC.  `*Proofs` — theorems;
  `ObjectProofs` has those of `Barrier`, `RWLock` and `Join`.

Definitions called mutants (`EnqueueLIFO`, `SchedEnterNoLock`, ...) are wrong
versions of the definition that follows them; replacing the definition by its
mutant makes TLC report the property it is paired with in `PROJECT.json`.

## Runs

| Run | Instance | Shows |
|---|---|---|
| `mutex` | 3 fibers, recursive, nesting to 2, deadlines 1 and 2 | exclusion, the count is the nesting, links, one outcome, leaving the queue in turn or late, every lock returns, the mutex implements `Monitor` |
| `sched` | 3 threads, 3 fibers, blocking | one thread per fiber, a fiber is due once, work conservation, `melon_wait`'s wake-up |
| `sched_no_block` | 3 threads, 3 fibers, no blocking, creation may fail | no use after free, the callback, nothing leaks, wait and deinit return |
| `cond` | 3 fibers, timed waits and locks, anyone broadcasts | exclusion, one list per fiber, timers linked, a broadcast wakes all, mutex and condition implement `Monitor`, where the assertion of `melon_mutex_lock2` can fail |
| `io` | 2 fibers, one descriptor, both directions, deadlines, close and reuse | every waiter is watched, links, results, service in order, what is ready is served |
| `objects` | 3 fibers: a barrier with 2 members, 1 to come, 2 rounds; a read-write lock with all 7 calls, nesting to 2; a target and its joiner; 2 threads with 5 stacks, limit 1; timers of 2 fibers, clock to 3 | see below |

Six runs are expected to be violated, each by a behaviour of the code that
contradicts a line of the repository (`findings` in `PROJECT.json` quotes it):

| Run | The code |
|---|---|
| `sched_race` | a thread may steal the destroy callback of a fiber another thread runs |
| `cond_orphan` | `melon_cond_signal` with two waiters loses one |
| `cond_assert` | the assertion of `melon_mutex_lock2` fails: the mutex is relocked for its owner |
| `barrier_any_time` | a `melon_barrier_release` while a round ends lets a fiber out of the next round alone |
| `rwlock_try` | `melon_rwlock_tryrdlock` that fails returns with the inner mutex locked |
| `timer_wrap` | a `melon_sleep` whose microseconds exceed 32 bits is too short |

Known defects without a run.  The models have these too; a short test can
reproduce each, so they are described here and no run is spent on them:

* `melon_init` does not return when a thread of the pool cannot be created
  (`melon.c:74-77`): the threads created before sleep on `ready_cond` and are
  joined without a broadcast, although `melon.h:55-56` promises an error.  In
  `Sched` with `MayFail = TRUE`, `main = "failed" ~> main = "error"` is false.
* The count of a recursive mutex is not restored after a wait
  (`mutex.c:149`): a waiter that gets the mutex by a handoff has count 1,
  whatever it had, against `private.h:144`.  In `Cond` with `Recursive = TRUE`,
  `lock_count = held[f]` is false.
* A `melon_fiber_join` that had to wait returns without telling the fiber
  (`fiber.c:187-194`), which then waits for ever, so that `melon_wait` does not
  return either, against `melon.h:58`.  In `Join`,
  `jpc = "done" ~> tpc = "freed"` is false; `AnsweredFiberEnds` is the part of
  it that holds.
* A reader that waited for a writer is never woken (`rwlock.c:170-174`): `wcond`
  is not NULL, so the broadcast of `rcond` is not reached.
* A fiber woken by `melon_close` or by its deadline finds `-ECANCELED` or
  `-ETIMEDOUT` in `errno` (`io_manager_epoll.c:197`, `202`), not the
  `ECANCELED` of `melon.h:216-218`; `Result` of `IoManager` is that value.

The passing runs of the same modules are on the side of the bug where the code
is right, and say so: no blocking for the callback, broadcasts and a plain mutex
for the condition, members that come and go between rounds for the barrier,
seconds whose product fits for the timer, `~waited` in `AnsweredFiberEnds`, and
the cases named in `Dropped` and `MonitorReturned` in `WriterServed`.

The assertion of `cond_assert`: `melon_cond_timedwait` arms its timer and links
the fiber before it unlocks the mutex, so that the timer thread, or a signaller
that holds nothing, can relock the mutex for the fiber that still owns it.  In
run `cond` the program may stop there too.  `FaultWindow` says how far the
defect goes: it is the only window, and no list is read through NULL; the other
properties hold up to that point.

What `objects` shows.  *Barrier*: `RoundsInStep`, although each fiber gives its
unit of the count back only when it leaves, and the first to leave may come
back before the last has left: the lock queue is FIFO and everyone woken is in
it, so a fiber that comes round again is behind them (with a LIFO queue,
`QueuesFirst`, the property fails).  `BarrierPasses`: nobody is left behind.
`DestroyedUnused`: `melon_barrier_destroy` right after one's own last wait is
safe, for the same reason.  `barrier.c` lets a program call `melon_barrier_add`
and `melon_barrier_release` at any time, which is the model with
`AnyTime = TRUE`, and `barrier_any_time` shows what happens: of three members one releases
when the other two have still their units to give back, the count it leaves is
0, and by the time it has the lock and broadcasts, one of the two waits in the
next round and leaves it without the other.  `objects` has `AnyTime = FALSE`, a
program that keeps to `BetweenRounds`, and shows that this is enough.
*Read-write lock*: `RWExclusion`; `WriterServed`, a writer that waits is served
or gives up.  The lock prefers readers, a writer is signalled only when the
count is 0, and nothing bounds the number of calls in the model: readers that
overlap for ever keep a writer out for ever.  `WriterServed` is therefore stated
for behaviours in which the calls for the lock cease (`CallsCease`).  It
excepts two ways a waiter can be lost, each the subject of a violated run:
`melon_cond_signal` drops the other waiters (`Dropped`, `cond_orphan`), and a
failed `melon_rwlock_tryrdlock` keeps the monitor (`MonitorReturned`,
`rwlock_try`).  *Join*: `FreedAfterJoin` and `AnsweredFiberEnds`, with retries
and deadlines.  *Stacks*: `StacksAccounted` and `CacheBounded`.  *Timers*:
`NoOversleep`, `SleepsLongEnough`, `SleeperWakes` and `DeinitReturns`, with
sleeps and timed waits that come before, after and at the head of the queue and
are taken out.

`melon_sleep` computes its microseconds in 32 bits, and so does `SleepUsecs`
(scaled: `UsecPerSec` for the million, `UIntMod` for 2^32).  Run `objects` gives
seconds whose product fits, `timer_wrap` one that wraps, as the real code does
from 4295 seconds on; `SleepsLongEnough` holds in the first and not in the
second.

`Result` of `IoManager` is what `melon_io_manager_waitfor` leaves in `errno`,
sign included.  `ResultIsCause` says that a wait ends in the branch of what
ended it, not that the caller receives the error `melon.h` names: it does not,
see above.

Bounds.  Three fibers are an owner, a first waiter and one behind or newcomer,
which is what every race here needs; in `mutex` one deadline passes and a later
one never does, in `cond` and for the timers the clock passes all of them,
which gives early, equal and late; three threads give one leaving a fiber, one
entering it and one asleep; in `io` two fibers can wait for the same direction
or for one each, and one number is closed and opened again while a batch about
it is in hand.  In `objects`, two members and a third that may join or leave
give a last one, one that waits and one that goes; two rounds give the overlap
of one with the next; a nesting of two gives writers that wait behind a nested
or a second lock; limit 1 with two threads overshoots by two; two sleepers are
the one the timer thread waits for and one inserted before or after it.  The
clock bound only stops time; the other bounds are `MaxDepth` on the nesting of
a lock, `MaxRounds` on the rounds of a fiber at a barrier and `MaxNest` on the
read-write locks a fiber has at once.  `CHECK_DEADLOCK FALSE` is used where the
system really may stop: after `melon_deinit`, when the clock is at its bound,
after a fault, or when every fiber waits on a condition.

Fairness.  A thread in a call goes on; one that needs `g_melon.lock` gets it
however often others take it in between (strong fairness of `GoesOn` and
`CondGoesOn`); the clock and the timer thread run; events that fibers wait for
happen.  Of the program: a holder unlocks, and does not lock and unlock the
inner nesting for ever without its last unlock (in `Cond`, `GivesUp`: it
unlocks or waits), and a fiber's start callback returns; in `MCObjects`,
members come to their next round and holders of the read-write lock unlock it,
but nobody is made to lock, to join, or to time out.  pthread's spurious
wake-ups happen but are not relied on.  In `IoManager`, `epoll_wait` reports
what stays ready although signals interrupt it, and its thread gets the lock.

## Proofs

Every safety invariant and every action property that a passing run checks is
also a theorem, for any number of fibers, threads, descriptors and stacks and
any deadlines.

`DlistProofs`: what push, pop, unlink and sorted insert do to the elements,
the absence of duplicates and the order of a queue, for every queue.

`MutexProofs`: for any set of fibers, deadlines and nesting.  `MutualExclusion`
alone is not inductive: a step of `UnlockHandoff` says nothing unless one knows
that the fiber it gives the mutex to is linked in exactly one list, and that no
other fiber is half-way through an unlock.  `IndInv` adds the links
(`LinksConsistent`), that a free mutex has no waiters and count 0
(`FreeMutex`), that the owner is in one of three situations: granted and not
yet resumed, holding, or releasing (`OwnerSituation`), and that nobody else is
(`OthersHaveNothing`).  From it follow `MutexSafe`, `NoWaiterAbandoned`,
`LinksSound`, `OutcomeUnique`, and the action properties `HandoffFIFO` and
`LeavesOnlyInTurnOrLate`; `TimerQueueOrder` uses the lemmas on sorted insertion.
`MutexImplementsMonitor` shows each action to be one step on `holder` and
`queue` or to leave both alone; `IndInv` is what makes that true: only because
a free mutex has no waiters is a lock without waiting a `Gets`, and only
because the head of the queue is in no unlock does it have the mutex after the
handoff.

`CondProofs`: mutex and condition together.  Two hypotheses bound the claims:
the mutex is not recursive and every signal is a broadcast.  Without them the
code breaks its promises: see the count of a recursive mutex above, and
`cond_orphan`.
`CondInv` says of each fiber in which of the four lists its call puts it and
that it is there once (`LinkedOnce`, `CallsLinked`), which of them have a timer
linked (`TimersKept`: one that was moved to the lock queue has its timer
void), that the signaller's list exists only while it has `g_melon.lock`
(`SignalScope`), what the owner is doing, that nobody else does it and that a
free mutex has nobody queued (`OwnerIs`, `NobodyElse`, `FreeIsFree`), and that
the count saved by a wait is 1 (`SavedOne`).  The exclusion needs the links: a
signaller relocks the mutex for a fiber it took from a list, which must not be
in another.  It gives `WaitersExclude`, `WaitersLinkedOnce`,
`WaitersTimersLinked` and `OneFaultWindow`.  `CondRefinesMonitor`: `StartWait`
is `Wait`, a signal starts as `Signal` and each round of its loop is a `Wake`,
the timer callback is `Expire`, and the two halves of the unlock inside the
wait are the `Grant` or nothing, since the monitor lets go of the lock at once.

`SchedProofs`: for any threads and fibers.  `SchedInv` (types, and a thread
inside a fiber holds its lock) gives `FiberRunsOnce`.  `DueInv` adds that what
is linked is alive, that a fiber is entered by one thread and is not linked
then, that one that runs and was not linked again is due nowhere, and that a
fiber with a pending destroy callback is dead; it gives `FiberDueOnce`, and
with it `CountInv`, that `fibers_count` is the number of unfinished fibers: a
fiber counted down twice would have been due twice.  From there
`WaitIsComplete` and `WaitWakeupKept`.  `PoolConservesWork` needs only the
types, and the case where one signal wakes one of several sleepers.
`DeinitLeaksNothing` follows every finished fiber from its `sched_next_cb` to
the thread that runs it. `UnblockedNoUseAfterFree` and
`UnblockedCallbackAfterSwap` assume `MayBlock = FALSE`, for the behaviour of
`sched_race` refutes them otherwise: then a fiber is in one thread's hands from
its start to its end (`AloneInv`).

`TimerProofs`: `TimerInv` (types, the queue is the armed fibers in order,
armed deadlines are not 0, and the thread's own deadline is not after the
head's) is inductive and gives `NeverOversleeps` and `QueueExact`.
`SleepNotCutShort` proves `SleepsLongEnough` from the assumption that the
product of `melon_sleep` fits.

`IoManagerProofs`: `EpollInv` (types; what the kernel has registered melon
knows of and is open; outside `IoHandle`'s turn no batch is in hand; every
direction waited for is armed or in the batch) is inductive and gives
`WaitersWatched`.  `InterestArmed` alone is not: a new batch could replace one
that still owes its waiters a rearming.  `LinkInv` adds to `IoLinks` what a
fiber's call and slot are; with it `WaitReportsCause` (a fiber is released
once, so nothing overwrites its result before it resumes) and the action
property `EventsServeInOrder`.

`ObjectProofs`: the barrier, the read-write lock and the join over the actions
of `Monitor`.  *Read-write lock*: `RWInv` counts.  `Units` pairs each fiber
with the numbers up to its nesting, and `lock_count` is the size of that set;
so a count of 0 means that nobody has a lock, which is all the code tests.
`AwakeInv` adds `NoWriterAsleep`: a wait on `wcond` starts only under somebody's
lock, and the unlock that brings the count to 0 empties `wcond` in the same
step; it gives `WritersAwake`.
*Join*: `JoinInv` says where in the monitor each of the two fibers is for every
step of its call, and what each knows of the other.  *Barrier*: `BarrierInv`
has as its core that the fibers on their way out of a round stand before all
others in the lock queue, that nobody waits while one of them is left
(`LeavingFirst`, `LeavingAlone`), and that there is a round number which all
members agree on (`InStep`); the count is the number of members still to come.
It gives `BarrierKeepsStep` and `BarrierDestroyedUnused`, both under the
hypothesis `AnyTime = FALSE`: `barrier_any_time` is a counterexample without it.

`StackAllocProofs`: `CacheBounded` is not inductive, since a thread pushes its
stack however many there are by then; `CacheInv` also counts the threads that
have passed the test and not yet pushed, and gives `CacheLimit`.  `StacksKept`
has as witness the sequence of stacks the ring goes through: a push puts one
before it, a pop drops its head, and the set of its elements is `Cached`, the
least set that follows the links.

Assumptions are the ones named in the modules: `NULL` is no fiber, bounds are
naturals, deadlines are positive (0 is "none" in the code), the threads are
finitely many; for the barrier, the fibers are finitely many and fewer than
`CountMod`, that is, the unsigned count does not wrap.

The inductive invariants and what follows from them in the modules (`IndInv`,
`NoAbandonedWaiter`, `NoBarging`, `NoWriterAsleep`, `SchedInv`, `TimerInv`,
`QueueIsTheArmed`, `EpollInv`, and those of the proof modules) are proved and
not repeated in the runs.

Only model-checked: the liveness properties, fairness being outside the prover
(`EveryLockReturns`, `BroadcastWakesAll`, `WaitReturns`, `DeinitReturns`,
`SleeperWakes`, `EventServed`, `BarrierPasses`, `WriterServed`,
`AnsweredFiberEnds`).  Nothing is claimed of the cases the
hypotheses above exclude.

Nothing is proved by induction on the length of a queue: where a proof follows
a queue it takes a least place (`LeastNat`) or the lemmas of `DlistProofs`.
For the same reason `ReleaseTimers` says which places of the timer queue are
kept, in order, and not how a recursive filter computes them.

## Not modelled, and the plan

Left out for good: the ports to FreeBSD and Windows, the stdio cookies of
`stream.c`, attributes, the inside of
spinlocks and `swapcontext`.  `melon_yield`, `melon_kthread_add` and
`melon_kthread_release` are declared and not implemented.  The copies of
thread-local variables a compiler may keep across a context switch are outside
the models.

The semaphore.  `melon_sem_acquire` links a fiber that waits in `sem->queue`
through the `next` and `prev` that `melon_cond_wait`, the lock queue and the
ready queue use next; when the wait returns both are NULL, and the unlink at
lines 63, 128 or 143 reads through them.  `melon_sem_release` signals a waiter
only when it asks for more than is left.  So no call that waits ever returns,
and what happens instead depends on links of four queues at once; a model of it
has to have all of them pointer by pointer.  Without contention the semaphore
is a counter under a mutex.

The abstract monitor leaves out the failing assertion of `Cond`; `Barrier`,
`RWLock` and `Join` therefore say nothing of a program that has stopped there.

Left to do:

1. `DlistHeap` — the macros of `dlist.h` on pointers, shown to implement the
   sequences of `Dlist`; then the semaphore on it.
2. The failure path of `melon_init` for the timer and I/O threads.
3. Proofs: the exclusion of `Cond` for a recursive mutex and for limited
   signals, where only the count and the orphans are wrong; the order of the
   timer queue in `Cond`.
