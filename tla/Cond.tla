-------------------------------- MODULE Cond --------------------------------
(***************************************************************************)
(* The melon condition variable (cond.c) with the mutex it is used with.   *)
(*                                                                         *)
(* A waiter links itself in the wait queue and then unlocks the mutex, in  *)
(* the three steps of melon_mutex_unlock.  A signaller holds g_melon.lock  *)
(* and the condition's spinlock while it takes the whole wait queue and    *)
(* relocks the mutex for one waiter after the other (melon_mutex_lock2),   *)
(* which moves the waiter to the mutex's lock queue or makes it the owner  *)
(* and ready; meanwhile other fibers still lock and unlock the mutex, whose*)
(* spinlock is free in between.  A timed waiter is also in the timer queue.*)
(*                                                                         *)
(* fault records an assertion that fails or a read through NULL; the       *)
(* program is then over and no step follows.                               *)
(***************************************************************************)
EXTENDS Mutex

CONSTANTS
  WaitTimeouts,   \* deadlines a caller of melon_cond_timedwait may give
  SignalNbs,      \* what melon_cond_signalnb is called with, 0 for a broadcast
  HolderSignals   \* do only holders of the mutex signal?

ASSUME CondAssumption ==
  /\ WaitTimeouts \subseteq Nat \ {0}
  /\ SignalNbs \subseteq Nat
  /\ HolderSignals \in BOOLEAN

VARIABLES
  wait_queue,  \* condition->wait_queue
  saved,       \* fiber->lock_count, the count to restore
  signaller,   \* the fiber in melon_cond_signalnb
  list,        \* its local list
  left,        \* how many more it may wake, when nb # 0
  fault        \* "none", or what stopped the program

condVars == <<wait_queue, saved, signaller, list, left, fault>>
cvars == <<vars, condVars>>

(* Besides the places of a mutex call: "wait_check" and "wait_handoff" are *)
(* the unlock inside melon_cond_wait, "waiting" is its melon_sched_next,   *)
(* "signalling" is melon_cond_signalnb.                                    *)
WaitPCs == {"wait_check", "wait_handoff", "waiting"}

CondInit ==
  /\ Init /\ wait_queue = << >> /\ saved = [f \in Fibers |-> 0]
  /\ signaller = NULL /\ list = << >> /\ left = 0 /\ fault = "none"

----------------------------------------------------------------------------
(* The condition's spinlock is free: a signaller holds it with             *)
(* g_melon.lock.                                                           *)
CondUnlocked == glock # "signal"

(* What melon_cond_wait and melon_cond_timedwait do before the mutex's     *)
(* spinlock is taken: save the count, join the wait queue, drop the count. *)
StartWait(f) ==
  /\ pc[f] = "run" /\ held[f] > 0
  /\ CondUnlocked
  /\ saved' = [saved EXCEPT ![f] = lock_count]
  /\ wait_queue' = DlistPush(wait_queue, f)
  /\ lock_count' = 0
  /\ held' = [held EXCEPT ![f] = 0]
  /\ Goto(f, "wait_check")
  /\ UNCHANGED <<owner, lock_queue, now, ready, glock, signaller, list, left,
                 fault>>

(* melon_cond_wait.                                                        *)
CondWait(f) ==
  /\ StartWait(f)
  /\ timer' = [timer EXCEPT ![f] = 0]
  /\ UNCHANGED <<timer_queue, timedout>>

(* melon_cond_timedwait, under g_melon.lock.                               *)
CondTimedWait(f, t) ==
  /\ glock = "free"
  /\ StartWait(f)
  /\ timer' = [timer EXCEPT ![f] = t]
  /\ timer_queue' = TimerInsert(timer_queue, timer', f)
  /\ timedout' = timedout \ {f}

----------------------------------------------------------------------------
(* melon_mutex_lock2 when the mutex is free.                               *)
Lock2Takes(f) ==
  /\ owner' = f
  /\ lock_count' = saved[f]
  /\ ready' = ready \cup {f}
  /\ UNCHANGED lock_queue

(* Mutant: the mutex is given to the fiber although another one owns it.   *)
Lock2Steals(f) == timer' = [timer EXCEPT ![f] = 0] /\ Lock2Takes(f)

(* melon_mutex_lock2: relock the mutex for a fiber that was waiting.  That *)
(* it is the owner is a failing assertion: see CondFault.                  *)
Lock2(f) ==
  /\ timer' = [timer EXCEPT ![f] = 0]
  /\ \/ owner = NULL /\ Lock2Takes(f)
     \/ /\ owner \notin {NULL, f}
        /\ Enqueue(f)
        /\ UNCHANGED <<owner, lock_count, ready>>

(* Mutant: the fibers are woken and stay in the wait queue.                *)
TakeWaitersCopy == list' = wait_queue /\ UNCHANGED wait_queue

TakeWaiters == list' = wait_queue /\ wait_queue' = << >>

(* melon_cond_signalnb, up to its loop: the whole wait queue is taken.     *)
Signal(f, nb) ==
  /\ pc[f] = "run"
  /\ HolderSignals => held[f] > 0
  /\ glock = "free"
  /\ glock' = "signal"
  /\ signaller' = f
  /\ TakeWaiters
  /\ left' = nb
  /\ Goto(f, "signalling")
  /\ UNCHANGED <<owner, lock_queue, lock_count, timer, timer_queue, now, ready,
                 timedout, held, saved, fault>>

(* Mutant: the timer of a signalled fiber stays armed.                     *)
SignalKeepsTimer(f) == UNCHANGED timer_queue

SignalTimer(f) ==
  timer_queue' = IF timer[f] > 0 THEN DlistUnlink(timer_queue, f) ELSE timer_queue

(* One round of the loop; after nb rounds the loop is over.                *)
SignalWakes(f) ==
  /\ glock = "signal"
  /\ list # << >>
  /\ f = Head(list)
  /\ list' = Tail(list)
  /\ SignalTimer(f)
  /\ Lock2(f)
  /\ IF left = 1
     THEN glock' = "free" /\ Goto(signaller, "run") /\ signaller' = NULL
     ELSE UNCHANGED <<glock, pc, signaller>>
  /\ left' = IF left > 0 THEN left - 1 ELSE 0
  /\ UNCHANGED <<now, timedout, held, wait_queue, saved, fault>>

(* The list is empty and the signaller returns.                            *)
SignalDone ==
  /\ glock = "signal"
  /\ list = << >>
  /\ glock' = "free"
  /\ Goto(signaller, "run")
  /\ signaller' = NULL
  /\ left' = 0
  /\ UNCHANGED <<owner, lock_queue, lock_count, timer, timer_queue, now, ready,
                 timedout, held, wait_queue, saved, list, fault>>

(* Mutant: a fiber whose wait timed out stays in the wait queue.           *)
CondTimerFireStays(f) ==
  /\ TimerExpires(f)
  /\ pc[f] \in WaitPCs
  /\ timedout' = timedout \cup {f}
  /\ Lock2(f)
  /\ UNCHANGED <<now, pc, held, wait_queue, saved, signaller, list, left, fault>>

(* melon_cond_timedwait_cb, called by the timer thread.                    *)
CondTimerFire(f) ==
  /\ TimerExpires(f)
  /\ pc[f] \in WaitPCs
  /\ wait_queue # << >>
  /\ wait_queue' = DlistUnlink(wait_queue, f)
  /\ timedout' = timedout \cup {f}
  /\ Lock2(f)
  /\ UNCHANGED <<now, pc, held, saved, signaller, list, left, fault>>

(* The program stops: melon_mutex_lock2 is called for the owner, by the    *)
(* signaller or by the timer thread, or the latter unlinks the fiber from  *)
(* an empty wait queue.                                                    *)
CondFault(f) ==
  /\ \/ /\ glock = "signal" /\ list # << >> /\ f = Head(list)
        /\ owner = f /\ fault' = "relock"
     \/ /\ TimerDue(f) /\ pc[f] \in WaitPCs
        /\ \/ wait_queue = << >> /\ fault' = "null"
           \/ wait_queue # << >> /\ owner = f /\ fault' = "relock"
  /\ UNCHANGED <<vars, wait_queue, saved, signaller, list, left>>

(* melon_cond_wait returns: the fiber takes itself to hold the mutex as    *)
(* often as it did before.                                                 *)
CondResume(f) ==
  /\ pc[f] = "waiting"
  /\ f \in ready
  /\ glock = "free"
  /\ ready' = ready \ {f}
  /\ held' = [held EXCEPT ![f] = saved[f]]
  /\ timedout' = timedout \ {f}
  /\ Goto(f, "run")
  /\ UNCHANGED <<owner, lock_queue, lock_count, timer, timer_queue, now, glock,
                 condVars>>

----------------------------------------------------------------------------
(* The steps of the mutex; melon_mutex_lock also sets fiber->lock_count.   *)
MutexStep(f) ==
  \/ /\ MutexLock(f)
     /\ saved' = [saved EXCEPT ![f] = 1]
     /\ UNCHANGED <<wait_queue, signaller, list, left, fault>>
  \/ /\ \/ TryLock(f)
        \/ TimedLock(f)
        \/ \E t \in Timeouts : TimedLockEnqueue(f, t)
        \/ Unlock(f)
        \/ UnlockCheck(f, "unlocking", "handoff", "run")
        \/ UnlockHandoff(f, "handoff", "run")
        \/ UnlockCheck(f, "wait_check", "wait_handoff", "waiting")
        \/ UnlockHandoff(f, "wait_handoff", "waiting")
        \/ pc[f] = "locking" /\ TimerFire(f)
        \/ Resume(f)
     /\ UNCHANGED condVars

CondNext ==
  /\ fault = "none"
  /\ \/ \E f \in Fibers :
          \/ MutexStep(f)
          \/ CondWait(f)
          \/ \E t \in WaitTimeouts : CondTimedWait(f, t)
          \/ \E nb \in SignalNbs : Signal(f, nb)
          \/ SignalWakes(f)
          \/ CondTimerFire(f)
          \/ CondFault(f)
          \/ CondResume(f)
     \/ SignalDone
     \/ Tick /\ UNCHANGED condVars

CondSpec == CondInit /\ [][CondNext]_cvars

(* What is assumed, as in module Mutex: a fiber inside a call goes on, and *)
(* one that was relocked is picked up, however often others take           *)
(* g_melon.lock in between; a fiber does not keep the mutex for ever       *)
(* without waiting or unlocking; a signaller ends its loop.                *)
CondGoesOn(f) ==
  \/ /\ \/ \E t \in Timeouts : TimedLockEnqueue(f, t)
        \/ UnlockCheck(f, "unlocking", "handoff", "run")
        \/ UnlockHandoff(f, "handoff", "run")
        \/ UnlockCheck(f, "wait_check", "wait_handoff", "waiting")
        \/ UnlockHandoff(f, "wait_handoff", "waiting")
        \/ Resume(f)
     /\ UNCHANGED condVars
  \/ CondResume(f)

GivesUp(f) ==
  \/ Unlock(f) /\ UNCHANGED condVars
  \/ CondWait(f)
  \/ \E t \in WaitTimeouts : CondTimedWait(f, t)

CondFairness ==
  /\ \A f \in Fibers : SF_cvars(CondGoesOn(f)) /\ SF_cvars(GivesUp(f))
  /\ WF_cvars(SignalDone \/ \E f \in Fibers : SignalWakes(f) \/ CondFault(f))
  /\ SF_cvars(\E f \in Fibers :
                \/ pc[f] = "locking" /\ TimerFire(f) /\ UNCHANGED condVars
                \/ CondTimerFire(f) \/ CondFault(f))
  /\ WF_cvars(Tick /\ UNCHANGED condVars)

CondFairSpec == CondSpec /\ CondFairness

----------------------------------------------------------------------------
(* At most one fiber takes itself to hold the mutex, and it is the owner:  *)
(* waiting, signalling and timing out never hand the mutex to two fibers.  *)
CondMutualExclusion ==
  \A f \in Fibers : held[f] > 0 =>
    owner = f /\ \A g \in Fibers \ {f} : held[g] = 0

(* next and prev link a fiber in one list at a time: the wait queue, the   *)
(* lock queue, a signaller's list and the ready queue share no fiber.      *)
OneListPerFiber ==
  /\ NoDup(wait_queue \o lock_queue \o list)
  /\ Elems(wait_queue \o lock_queue) \cap ready = {}

(* A fiber in the timer queue can be found by its callback where that      *)
(* looks, and a fiber that is signalled or handed the mutex with a timer   *)
(* set is in the timer queue: melon_timer_remove_locked may unlink it.     *)
TimersLinked ==
  /\ \A f \in Elems(timer_queue) :
       f \in Elems(IF pc[f] \in WaitPCs THEN wait_queue \o list ELSE lock_queue)
  /\ \A f \in Elems(wait_queue \o lock_queue \o list) :
       timer[f] > 0 => f \in Elems(timer_queue)

(* No waiter is forgotten: "think to a mechanism to wake up the old        *)
(* fiber".  A fiber in melon_cond_wait is always where a signal, an unlock *)
(* or a scheduler thread will find it, as long as the program runs.        *)
NoOrphan ==
  \A f \in Fibers : fault = "none" /\ pc[f] \in WaitPCs =>
    f \in Elems(wait_queue \o lock_queue) \cup ready
          \cup (IF glock = "signal" THEN Elems(list) ELSE {})

(* assert(mutex->owner != fiber) of melon_mutex_lock2 (mutex.c:83): the    *)
(* mutex is not relocked for the fiber that still owns it.  The code does  *)
(* not keep to it, see the run cond_assert: a timed waiter is in the timer *)
(* queue before it has unlocked the mutex, and its deadline may pass then. *)
OwnerNotRelocked == fault # "relock"

(* How far that goes: the assertion fails in this window only, when the    *)
(* fiber that is relocked is still inside the unlock of its own wait, and  *)
(* nothing is ever read through NULL.  A fiber that a timeout and a signal *)
(* both wake up, or one that is signalled when it runs already, would be   *)
(* the owner elsewhere.                                                    *)
FaultWindow ==
  fault # "none" =>
    /\ fault = "relock"
    /\ owner # NULL /\ pc[owner] \in {"wait_check", "wait_handoff"}

(* A broadcast wakes every fiber that waits when it is called: it returns  *)
(* from melon_cond_wait, unless an assertion fails first.  Nothing tells   *)
(* the fibers apart, so that one of them does means that each does.        *)
SomeFiber == CHOOSE f \in Fibers : TRUE
BroadcastWakesAll ==
  (glock = "signal" /\ SomeFiber \in Elems(list) /\ left = 0)
    ~> pc[SomeFiber] = "run" \/ fault # "none"

(***************************************************************************)
(* The mutex and the condition as their users see them.                    *)
(***************************************************************************)
MC == INSTANCE Monitor WITH
        Conds <- {"cond"},
        holder <- HolderOf({"unlocking", "handoff", "wait_check", "wait_handoff"}),
        queue <- lock_queue,
        waiters <- [c \in {"cond"} |-> wait_queue],
        waking <- IF glock # "signal" THEN << >>
                  ELSE IF left = 0 \/ Len(list) <= left THEN list
                  ELSE SubSeq(list, 1, left)

(* A wait gives the lock up and joins the waiters in one step, a signal    *)
(* takes them all, and each of them then asks for the lock like any other  *)
(* fiber: what Barrier, RWLock and Join assume of mutex.c and cond.c.      *)
CondImplementsMonitor == MC!MonitorSpec
=============================================================================
