------------------------------- MODULE Mutex -------------------------------
(***************************************************************************)
(* The melon mutex (mutex.c): an owner, a count of nested locks and a FIFO *)
(* queue of fibers, to the head of which unlock hands the mutex directly.  *)
(* melon_mutex_timedlock also links the fiber in the timer queue, whose    *)
(* thread may take it out of the lock queue when its deadline has passed.  *)
(*                                                                         *)
(* Every critical section (of the mutex's spinlock, or of g_melon.lock     *)
(* with the spinlock inside) is one action; melon_mutex_unlock is three    *)
(* actions because it decrements the count outside any lock, looks at the  *)
(* queue under the spinlock, drops it, and takes g_melon.lock before it    *)
(* looks at the queue again.  The timer thread holds g_melon.lock over all *)
(* the timers it fires in a row: glock says so.                            *)
(***************************************************************************)
EXTENDS Dlist

CONSTANTS
  Fibers,     \* the fibers that use the mutex
  NULL,       \* no fiber
  Recursive,  \* mutex->is_recursive
  Timeouts,   \* deadlines a caller of melon_mutex_timedlock may give
  MaxTime,    \* bound on the clock
  MaxDepth    \* bound on nested locks of one fiber

ASSUME FibersAssumption == NULL \notin Fibers
ASSUME RecursiveAssumption == Recursive \in BOOLEAN
ASSUME BoundsAssumption == MaxTime \in Nat /\ MaxDepth \in Nat \ {0}
ASSUME TimeoutsAssumption == Timeouts \subseteq Nat \ {0}

VARIABLES
  owner,        \* mutex->owner
  lock_queue,   \* mutex->lock_queue
  lock_count,   \* mutex->lock_count
  timer,        \* fiber->timer, an absolute time, 0 when unset
  timer_queue,  \* g_melon.timer_queue
  now,          \* the clock
  pc,           \* where each fiber is
  ready,        \* fibers put in g_melon.ready and not picked up yet
  timedout,     \* fibers whose call to melon_mutex_timedlock has ctx.timeout set
  glock,        \* "timer" while the timer thread keeps g_melon.lock to fire more
  held          \* locks the fiber's calls have returned and it has not undone

vars == <<owner, lock_queue, lock_count, timer, timer_queue, now, pc, ready,
          timedout, glock, held>>

(***************************************************************************)
(* "run"        executing its own code                                     *)
(* "timedlock"  in melon_mutex_timedlock, the trylock has failed           *)
(* "locking"    linked in the lock queue, in (or about to call)            *)
(*              melon_sched_next; it leaves once it is ready and picked up *)
(* "unlocking"  in melon_mutex_unlock, the count has dropped to 0          *)
(* "handoff"    in melon_mutex_unlock, the queue was seen non empty        *)
(***************************************************************************)
PCs == {"run", "timedlock", "locking", "unlocking", "handoff"}

TypeOK ==
  /\ owner \in Fibers \cup {NULL} /\ lock_queue \in Seq(Fibers)
  /\ lock_count \in Nat /\ timer \in [Fibers -> Nat]
  /\ timer_queue \in Seq(Fibers) /\ now \in Nat /\ pc \in [Fibers -> PCs]
  /\ ready \subseteq Fibers /\ timedout \subseteq Fibers
  /\ glock \in {"free", "timer"} /\ held \in [Fibers -> Nat]

Goto(f, l) == pc' = [pc EXCEPT ![f] = l]

(* melon_mutex_init, by a fiber that then shares the mutex.                *)
Init ==
  /\ owner = NULL /\ lock_queue = << >> /\ lock_count = 0
  /\ timer = [f \in Fibers |-> 0] /\ timer_queue = << >> /\ now = 0
  /\ pc = [f \in Fibers |-> "run"] /\ ready = {} /\ timedout = {}
  /\ glock = "free" /\ held = [f \in Fibers |-> 0]

----------------------------------------------------------------------------
(* Mutants: the queue is used as a stack; the fiber is not linked.         *)
EnqueueLIFO(f) == lock_queue' = <<f>> \o lock_queue
EnqueueLost(f) == UNCHANGED lock_queue

(* The waiting fiber is linked at the end of the lock queue.               *)
Enqueue(f) == lock_queue' = DlistPush(lock_queue, f)

(***************************************************************************)
(* melon_mutex_lock.  Locking a non recursive mutex twice is an error of   *)
(* the caller that the code asserts against, so it is not a step.          *)
(* fiber->lock_count, which the code sets to 1 here, is only read by       *)
(* melon_mutex_lock2 and lives in module Cond.                             *)
(***************************************************************************)
MutexLock(f) ==
  /\ pc[f] = "run"
  /\ timer' = [timer EXCEPT ![f] = 0]
  /\ \/ /\ owner = NULL
        /\ owner' = f
        /\ lock_count' = 1
        /\ held' = [held EXCEPT ![f] = 1]
        /\ UNCHANGED <<lock_queue, pc>>
     \/ /\ owner = f
        /\ Recursive
        /\ lock_count < MaxDepth
        /\ lock_count' = lock_count + 1
        /\ held' = [held EXCEPT ![f] = @ + 1]
        /\ UNCHANGED <<owner, lock_queue, pc>>
     \/ /\ owner \notin {NULL, f}
        /\ Enqueue(f)
        /\ Goto(f, "locking")
        /\ UNCHANGED <<owner, lock_count, held>>
  /\ UNCHANGED <<timer_queue, now, ready, timedout, glock>>

(* What melon_mutex_trylock does when it succeeds.                         *)
TryLockTakes(f) ==
  /\ owner = NULL \/ (Recursive /\ owner = f /\ lock_count < MaxDepth)
  /\ owner' = f
  /\ lock_count' = lock_count + 1
  /\ held' = [held EXCEPT ![f] = @ + 1]

(* melon_mutex_trylock; a call that returns EBUSY changes nothing.         *)
TryLock(f) ==
  /\ pc[f] = "run"
  /\ TryLockTakes(f)
  /\ UNCHANGED <<lock_queue, timer, timer_queue, now, pc, ready, timedout, glock>>

(* melon_mutex_timedlock up to the trylock that fails.  With a timeout of  *)
(* 0 the call is MutexLock, and when the trylock succeeds it is TryLock.   *)
(* The owner of a non recursive mutex fails too, and waits for itself.     *)
TimedLock(f) ==
  /\ Timeouts # {}
  /\ pc[f] = "run"
  /\ owner # NULL
  /\ ~(Recursive /\ owner = f)
  /\ Goto(f, "timedlock")
  /\ UNCHANGED <<owner, lock_queue, lock_count, timer, timer_queue, now,
                 ready, timedout, glock, held>>

(* Mutant: the count is taken for the owner.                               *)
TimedLockRecheckCount(f) ==
  /\ lock_count = 0
  /\ owner' = f
  /\ lock_count' = lock_count + 1
  /\ held' = [held EXCEPT ![f] = @ + 1]
  /\ Goto(f, "run")
  /\ UNCHANGED <<lock_queue, timer, timer_queue, timedout>>

(* The mutex was released since the trylock: take it without waiting.      *)
TimedLockRecheck(f) ==
  /\ owner = NULL
  /\ owner' = f
  /\ lock_count' = lock_count + 1
  /\ held' = [held EXCEPT ![f] = @ + 1]
  /\ Goto(f, "run")
  /\ UNCHANGED <<lock_queue, timer, timer_queue, timedout>>

(* The rest of melon_mutex_timedlock, under g_melon.lock: check again,     *)
(* then link the fiber in the lock queue and in the timer queue.           *)
TimedLockEnqueue(f, t) ==
  /\ pc[f] = "timedlock"
  /\ glock = "free"
  /\ \/ TimedLockRecheck(f)
     \/ /\ owner # NULL
        /\ Enqueue(f)
        /\ timer' = [timer EXCEPT ![f] = t]
        /\ timer_queue' = TimerInsert(timer_queue, timer', f)
        /\ timedout' = timedout \ {f}
        /\ Goto(f, "locking")
        /\ UNCHANGED <<owner, lock_count, held>>
  /\ UNCHANGED <<now, ready, glock>>

----------------------------------------------------------------------------
(* melon_mutex_unlock: the count drops, outside any lock.  Only a fiber    *)
(* that holds the mutex calls it.                                          *)
Unlock(f) ==
  /\ pc[f] = "run"
  /\ held[f] > 0
  /\ lock_count' = lock_count - 1
  /\ held' = [held EXCEPT ![f] = @ - 1]
  /\ IF lock_count' > 0 THEN UNCHANGED pc ELSE Goto(f, "unlocking")
  /\ UNCHANGED <<owner, lock_queue, timer, timer_queue, now, ready, timedout,
                 glock>>

(* Under the spinlock: an empty queue releases the mutex, otherwise the    *)
(* spinlock is dropped to take g_melon.lock first.  The places are         *)
(* parameters because melon_cond_wait runs the same code.                  *)
UnlockCheck(f, from, busy, done) ==
  /\ pc[f] = from
  /\ IF lock_queue = << >>
     THEN owner' = NULL /\ Goto(f, done)
     ELSE UNCHANGED owner /\ Goto(f, busy)
  /\ UNCHANGED <<lock_queue, lock_count, timer, timer_queue, now, ready,
                 timedout, glock, held>>

(* Mutant: the timer of the fiber that gets the mutex stays armed.         *)
HandoffKeepsTimer(h) == UNCHANGED timer_queue

(* The timer of the new owner is removed when it has one.                  *)
HandoffTimer(h) ==
  timer_queue' = IF timer[h] > 0 THEN DlistUnlink(timer_queue, h) ELSE timer_queue

(* Under g_melon.lock and the spinlock: the head of the queue becomes the  *)
(* owner and is made ready; when a timeout has emptied the queue meanwhile *)
(* the mutex is free.                                                      *)
UnlockHandoff(f, from, done) ==
  /\ pc[f] = from
  /\ glock = "free"
  /\ Goto(f, done)
  /\ \/ /\ lock_queue = << >>
        /\ owner' = NULL
        /\ UNCHANGED <<lock_queue, lock_count, timer_queue, ready>>
     \/ /\ lock_queue # << >>
        /\ owner' = Head(lock_queue)
        /\ lock_queue' = Tail(lock_queue)
        /\ lock_count' = lock_count + 1
        /\ HandoffTimer(Head(lock_queue))
        /\ ready' = ready \cup {Head(lock_queue)}
  /\ UNCHANGED <<timer, now, timedout, glock, held>>

----------------------------------------------------------------------------
(* Mutant: the fiber that timed out stays linked in the lock queue.        *)
TimedLockCbNoUnlink(f) ==
  /\ timedout' = timedout \cup {f}
  /\ ready' = ready \cup {f}
  /\ UNCHANGED lock_queue

(* Mutant: the fiber that timed out is not made ready.                     *)
TimedLockCbNotReady(f) ==
  /\ lock_queue' = DlistUnlink(lock_queue, f)
  /\ timedout' = timedout \cup {f}
  /\ UNCHANGED ready

(* melon_mutex_timedlock_cb.                                               *)
TimedLockCb(f) ==
  /\ lock_queue' = DlistUnlink(lock_queue, f)
  /\ timedout' = timedout \cup {f}
  /\ ready' = ready \cup {f}

TimerDue(f) ==
  /\ glock \in {"free", "timer"}
  /\ timer_queue # << >>
  /\ f = Head(timer_queue)
  /\ timer[f] <= now

(* Mutant: the head is fired before its deadline.                          *)
TimerExpiresEarly(f) ==
  /\ glock = "free"
  /\ timer_queue # << >>
  /\ f = Head(timer_queue)
  /\ timer_queue' = DlistUnlink(timer_queue, f)
  /\ UNCHANGED glock

(* The timer thread unlinks the head of the timer queue, which has         *)
(* expired, and keeps g_melon.lock as long as the next one has expired.    *)
TimerExpires(f) ==
  /\ TimerDue(f)
  /\ timer_queue' = DlistUnlink(timer_queue, f)
  /\ glock' = IF timer_queue' # << >> /\ timer[Head(timer_queue')] <= now
              THEN "timer" ELSE "free"

TimerFire(f) ==
  /\ TimerExpires(f)
  /\ TimedLockCb(f)
  /\ UNCHANGED <<owner, lock_count, timer, now, pc, held>>

(* The clock advances.                                                     *)
Tick ==
  /\ now < MaxTime
  /\ now' = now + 1
  /\ UNCHANGED <<owner, lock_queue, lock_count, timer, timer_queue, pc, ready,
                 timedout, glock, held>>

(* A scheduler thread picks the fiber up and its call to melon_mutex_lock  *)
(* or melon_mutex_timedlock returns: with the mutex, or with ETIMEDOUT.    *)
Resume(f) ==
  /\ pc[f] = "locking"
  /\ f \in ready
  /\ glock = "free"
  /\ ready' = ready \ {f}
  /\ Goto(f, "run")
  /\ held' = IF f \in timedout THEN held ELSE [held EXCEPT ![f] = 1]
  /\ timedout' = timedout \ {f}
  /\ UNCHANGED <<owner, lock_queue, lock_count, timer, timer_queue, now, glock>>

Next ==
  \/ \E f \in Fibers :
       \/ MutexLock(f)
       \/ TryLock(f)
       \/ TimedLock(f)
       \/ \E t \in Timeouts : TimedLockEnqueue(f, t)
       \/ Unlock(f)
       \/ UnlockCheck(f, "unlocking", "handoff", "run")
       \/ UnlockHandoff(f, "handoff", "run")
       \/ TimerFire(f)
       \/ Resume(f)
  \/ Tick

Spec == Init /\ [][Next]_vars

(***************************************************************************)
(* What is assumed of the scheduling: a fiber inside a call of the mutex   *)
(* goes on, the timer thread and the clock run, and a thread that waits    *)
(* for g_melon.lock gets it in the end however often the timer thread      *)
(* takes it in between (strong fairness).  Of the program: holders unlock  *)
(* in the end, and do not forever lock again instead of the last unlock.   *)
(***************************************************************************)
GoesOn(f) ==
  \/ \E t \in Timeouts : TimedLockEnqueue(f, t)
  \/ UnlockCheck(f, "unlocking", "handoff", "run")
  \/ UnlockHandoff(f, "handoff", "run")
  \/ Resume(f)

Fairness ==
  /\ \A f \in Fibers :
       /\ SF_vars(GoesOn(f))
       /\ WF_vars(Unlock(f)) /\ SF_vars(Unlock(f) /\ held[f] = 1)
  /\ WF_vars(\E f \in Fibers : TimerFire(f))
  /\ WF_vars(Tick)

FairSpec == Spec /\ Fairness

----------------------------------------------------------------------------
(* Two fibers never hold the mutex at once, and the one that does is its   *)
(* owner, with the nesting the mutex counts: however lock, trylock, the    *)
(* two step handoff of unlock and the timer callback interleave.           *)
MutualExclusion ==
  \A f \in Fibers : held[f] > 0 =>
    /\ owner = f
    /\ lock_count = held[f]
    /\ \A g \in Fibers \ {f} : held[g] = 0

(* No wake-up is lost: a fiber waits in the lock queue only while some     *)
(* fiber owns the mutex and still has an unlock to do, so the queue is     *)
(* never left behind by an unlock that saw it empty.                       *)
NoAbandonedWaiter ==
  lock_queue # << >> => owner # NULL

(* The intrusive links are sound: a fiber parked in the mutex is linked    *)
(* once in the lock queue or is ready, never both, and is linked in the    *)
(* timer queue exactly when it waits there with a deadline.  These are the *)
(* assertions of melon_timer_remove_locked and what the unlinking in the   *)
(* timer callback relies on.                                               *)
LinksConsistent ==
  /\ NoDup(lock_queue)
  /\ NoDup(timer_queue)
  /\ Elems(lock_queue) \cap ready = {}
  /\ \A f \in Fibers :
       /\ pc[f] = "locking" <=> f \in Elems(lock_queue) \cup ready
       /\ f \in Elems(timer_queue) <=> f \in Elems(lock_queue) /\ timer[f] > 0

(* The timer queue is sorted by deadline, which is why its thread may stop *)
(* at the first fiber that has not expired.                                *)
TimerQueueSorted == TimerSorted(timer_queue, timer)

(* The timer and the handoff never both decide: a call that reports        *)
(* ETIMEDOUT has not been given the mutex, and a call that was given the   *)
(* mutex does not report a timeout.                                        *)
OneOutcome ==
  \A f \in ready : (owner = f /\ held[f] = 0) <=> f \notin timedout

(* While fibers wait, the mutex passes only to the one that has waited     *)
(* longest: a newcomer never overtakes through lock, trylock or timedlock. *)
NoBarging ==
  [][(owner' # owner /\ lock_queue # << >>) => owner' = Head(lock_queue)]_vars

(* A fiber leaves the lock queue only from its head, by getting the mutex, *)
(* or because its own deadline has passed: no call times out early, and a  *)
(* call without deadline never gives up.                                   *)
LeavesInTurnOrLate ==
  [][\A f \in Elems(lock_queue) \ Elems(lock_queue') :
       \/ owner' = f /\ f = Head(lock_queue)
       \/ timer[f] \in 1..now]_vars

(***************************************************************************)
(* The inductive invariant: who may be where while the mutex is free, and  *)
(* in which of three situations its owner is, which is what melon.lock and *)
(* the spinlock together protect.                                          *)
(***************************************************************************)
Releasing(f) == pc[f] \in {"unlocking", "handoff"}
Granted(f) == f \in ready \ timedout

FreeMutex ==
  owner = NULL => lock_count = 0 /\ lock_queue = << >>

OwnerSituation ==
  owner # NULL =>
    \/ Granted(owner) /\ lock_count = 1 /\ held[owner] = 0
    \/ Releasing(owner) /\ lock_count = 0 /\ held[owner] = 0
    \/ /\ ~Granted(owner) /\ ~Releasing(owner)
       /\ lock_count = held[owner] /\ held[owner] > 0

OthersHaveNothing ==
  \A f \in Fibers \ {owner} :
    held[f] = 0 /\ ~Releasing(f) /\ ~Granted(f)

TimeoutPending == timedout \subseteq ready

(* Holds in every reachable state of the mutex and is kept by every step,  *)
(* whatever the number of fibers: the argument behind MutualExclusion,     *)
(* NoAbandonedWaiter, OneOutcome and NoBarging for mutex.c.                *)
IndInv ==
  /\ TypeOK
  /\ LinksConsistent
  /\ FreeMutex
  /\ OwnerSituation
  /\ OthersHaveNothing
  /\ TimeoutPending

(***************************************************************************)
(* The mutex as its users see it: the one that owns it and is not half-way *)
(* through its last unlock has it.                                         *)
(***************************************************************************)
HolderOf(releasing) ==
  IF owner # NULL /\ pc[owner] \notin releasing THEN owner ELSE NULL

M == INSTANCE Monitor WITH
       Conds <- {}, waiters <- [c \in {} |-> << >>], waking <- << >>,
       holder <- HolderOf({"unlocking", "handoff"}), queue <- lock_queue

(* The mutex is a first in, first out lock: seen through this mapping,     *)
(* every step of mutex.c, whatever its three-step unlock interleaves with, *)
(* takes a free lock nobody waits for, joins the end of the queue, leaves  *)
(* it at a deadline, frees the lock, or passes it to the head.             *)
ImplementsMonitor == M!MonitorSpec

(* Every call to melon_mutex_lock and melon_mutex_timedlock returns when   *)
(* holders release the mutex.                                              *)
EveryLockReturns == \A f \in Fibers : pc[f] = "locking" ~> pc[f] = "run"
=============================================================================
