---------------------------- MODULE MutexProofs ----------------------------
(***************************************************************************)
(* For any number of fibers, deadlines and nested locks: IndInv is an      *)
(* inductive invariant of the mutex, the safety properties of module Mutex *)
(* follow from it, and the mutex implements the lock of module Monitor.    *)
(***************************************************************************)
EXTENDS Mutex, DlistProofs

USE FibersAssumption, RecursiveAssumption, BoundsAssumption, TimeoutsAssumption

(* The state of a freshly initialised mutex satisfies the invariant.       *)
LEMMA InitIndInv == Init => IndInv
<1> SUFFICES ASSUME Init PROVE IndInv
  OBVIOUS
<1>1. /\ << >> \in Seq(Fibers) /\ Elems(<< >>) = {} /\ NoDup(<< >>)
  BY DEF Elems, NoDup
<1>2. TypeOK
  BY <1>1 DEF Init, TypeOK, PCs
<1>3. LinksConsistent
  BY <1>1 DEF Init, LinksConsistent
<1> QED BY <1>2, <1>3 DEF Init, IndInv, FreeMutex, OwnerSituation,
           OthersHaveNothing, TimeoutPending, Releasing, Granted

(* What every action proof starts from.                                    *)
LEMMA QueueFacts ==
  ASSUME TypeOK, LinksConsistent
  PROVE  /\ Elems(lock_queue) \subseteq Fibers
         /\ Elems(timer_queue) \subseteq Fibers
         /\ lock_queue # << >> =>
              Head(lock_queue) \in Fibers /\ Head(lock_queue) \in Elems(lock_queue)
         /\ timer_queue # << >> => Head(timer_queue) \in Elems(timer_queue)
         /\ lock_queue = << >> => Elems(lock_queue) = {}
<1>1. lock_queue \in Seq(Fibers) /\ timer_queue \in Seq(Fibers)
  BY DEF TypeOK
<1>2. Elems(lock_queue) \subseteq Fibers /\ Elems(timer_queue) \subseteq Fibers
  BY <1>1, ElementOfSeq DEF Elems
<1>3. lock_queue # << >> => Head(lock_queue) \in Elems(lock_queue)
  BY <1>1, PopElems
<1>4. timer_queue # << >> => Head(timer_queue) \in Elems(timer_queue)
  BY <1>1, PopElems
<1>5. lock_queue = << >> => Elems(lock_queue) = {}
  BY DEF Elems
<1> QED BY <1>2, <1>3, <1>4, <1>5

(* A fiber that waits nowhere may be linked in the lock queue.             *)
LEMMA EnqueueElems ==
  ASSUME TypeOK, LinksConsistent, NEW f \in Fibers, f \notin Elems(lock_queue),
         Enqueue(f)
  PROVE  /\ lock_queue' \in Seq(Fibers) /\ NoDup(lock_queue')
         /\ Elems(lock_queue') = Elems(lock_queue) \cup {f}
         /\ lock_queue # << >> => Head(lock_queue') = Head(lock_queue)
<1>1. lock_queue \in Seq(Fibers) /\ NoDup(lock_queue)
  BY DEF TypeOK, LinksConsistent
<1>2. lock_queue' = DlistPush(lock_queue, f)
  BY DEF Enqueue
<1> QED BY <1>1, <1>2, PushElems

(* melon_mutex_lock keeps the invariant.                                   *)
LEMMA MutexLockInv ==
  ASSUME IndInv, NEW f \in Fibers, MutexLock(f) PROVE IndInv'
<1> USE DEF IndInv
<1>0. /\ f \notin Elems(lock_queue) /\ f \notin ready /\ f \notin Elems(timer_queue)
  BY DEF MutexLock, LinksConsistent
<1>1. CASE owner = NULL
  <2> /\ owner' = f /\ lock_count' = 1 /\ held' = [held EXCEPT ![f] = 1]
      /\ timer' = [timer EXCEPT ![f] = 0] /\ pc[f] = "run"
      /\ UNCHANGED <<lock_queue, timer_queue, now, pc, ready, timedout, glock>>
    BY <1>1 DEF MutexLock
  <2> USE <1>1
  <2>1. TypeOK'
    BY DEF TypeOK
  <2>2. LinksConsistent'
    BY <1>0 DEF LinksConsistent, TypeOK
  <2>3. OwnerSituation'
    BY <1>0 DEF OwnerSituation, Granted, Releasing, TypeOK
  <2>4. OthersHaveNothing'
    BY DEF OthersHaveNothing, Granted, Releasing, TypeOK
  <2> QED BY <2>1, <2>2, <2>3, <2>4 DEF FreeMutex, TimeoutPending
<1>2. CASE owner = f
  <2> /\ lock_count' = lock_count + 1 /\ held' = [held EXCEPT ![f] = @ + 1]
      /\ timer' = [timer EXCEPT ![f] = 0] /\ pc[f] = "run"
      /\ UNCHANGED <<owner, lock_queue, timer_queue, now, pc, ready, timedout, glock>>
    BY <1>2 DEF MutexLock
  <2> USE <1>2
  <2>1. TypeOK'
    BY DEF TypeOK
  <2>2. LinksConsistent'
    BY <1>0 DEF LinksConsistent, TypeOK
  <2>3. OwnerSituation'
    BY <1>0 DEF OwnerSituation, Granted, Releasing, TypeOK
  <2>4. OthersHaveNothing'
    BY DEF OthersHaveNothing, Granted, Releasing, TypeOK
  <2> QED BY <2>1, <2>2, <2>3, <2>4 DEF FreeMutex, TimeoutPending
<1>3. CASE owner \notin {NULL, f}
  <2> /\ Enqueue(f) /\ pc' = [pc EXCEPT ![f] = "locking"]
      /\ timer' = [timer EXCEPT ![f] = 0] /\ pc[f] = "run"
      /\ UNCHANGED <<owner, lock_count, timer_queue, now, ready, timedout, glock, held>>
    BY <1>3 DEF MutexLock, Goto
  <2> USE <1>3
  <2>0. /\ lock_queue' \in Seq(Fibers) /\ NoDup(lock_queue')
        /\ Elems(lock_queue') = Elems(lock_queue) \cup {f}
    BY <1>0, EnqueueElems
  <2>1. TypeOK'
    BY <2>0 DEF TypeOK, Goto, PCs
  <2>2. LinksConsistent'
    BY <1>0, <2>0 DEF LinksConsistent, TypeOK, Goto
  <2>3. OwnerSituation'
    BY <1>0 DEF OwnerSituation, Granted, Releasing, TypeOK, Goto
  <2>4. OthersHaveNothing'
    BY DEF OthersHaveNothing, Granted, Releasing, TypeOK, Goto
  <2> QED BY <2>1, <2>2, <2>3, <2>4 DEF FreeMutex, TimeoutPending
<1> QED BY <1>1, <1>2, <1>3

(* melon_mutex_trylock keeps the invariant.                                *)
LEMMA TryLockInv ==
  ASSUME IndInv, NEW f \in Fibers, TryLock(f) PROVE IndInv'
<1> USE DEF IndInv, TryLock, TryLockTakes
<1>0. /\ f \notin Elems(lock_queue) /\ f \notin ready
  BY DEF LinksConsistent
<1>1. TypeOK'
  BY DEF TypeOK
<1>2. LinksConsistent'
  BY DEF LinksConsistent
<1>3. OwnerSituation'
  BY <1>0 DEF OwnerSituation, OthersHaveNothing, FreeMutex, Granted, Releasing, TypeOK
<1>4. OthersHaveNothing'
  BY DEF OthersHaveNothing, Granted, Releasing, TypeOK
<1> QED BY <1>1, <1>2, <1>3, <1>4 DEF FreeMutex, TimeoutPending

(* A failed trylock inside melon_mutex_timedlock keeps the invariant.      *)
LEMMA TimedLockInv ==
  ASSUME IndInv, NEW f \in Fibers, TimedLock(f) PROVE IndInv'
<1> USE DEF IndInv, TimedLock, Goto
<1>1. TypeOK'
  BY DEF TypeOK, PCs
<1>2. LinksConsistent'
  BY DEF LinksConsistent, TypeOK
<1>3. OwnerSituation'
  BY DEF OwnerSituation, Granted, Releasing, TypeOK
<1>4. OthersHaveNothing'
  BY DEF OthersHaveNothing, Granted, Releasing, TypeOK
<1> QED BY <1>1, <1>2, <1>3, <1>4 DEF FreeMutex, TimeoutPending

(* The locked part of melon_mutex_timedlock keeps the invariant.           *)
LEMMA TimedLockEnqueueInv ==
  ASSUME IndInv, NEW f \in Fibers, NEW t \in Timeouts, TimedLockEnqueue(f, t)
  PROVE  IndInv'
<1> USE DEF IndInv
<1>0. /\ f \notin Elems(lock_queue) /\ f \notin ready /\ f \notin Elems(timer_queue)
  BY DEF LinksConsistent, TimedLockEnqueue
<1>1. CASE TimedLockRecheck(f)
  <2> USE <1>1 DEF TimedLockRecheck, TimedLockEnqueue, Goto
  <2>1. TypeOK'
    BY DEF TypeOK, PCs
  <2>2. LinksConsistent'
    BY <1>0 DEF LinksConsistent, TypeOK
  <2>3. OwnerSituation'
    BY <1>0 DEF OwnerSituation, OthersHaveNothing, FreeMutex, Granted, Releasing, TypeOK
  <2>4. OthersHaveNothing'
    BY DEF OthersHaveNothing, Granted, Releasing, TypeOK
  <2> QED BY <2>1, <2>2, <2>3, <2>4 DEF FreeMutex, TimeoutPending
<1>2. CASE owner # NULL /\ ~TimedLockRecheck(f)
  <2> /\ Enqueue(f) /\ pc' = [pc EXCEPT ![f] = "locking"]
      /\ timer' = [timer EXCEPT ![f] = t] /\ pc[f] = "timedlock"
      /\ timer_queue' = TimerInsert(timer_queue, timer', f)
      /\ timedout' = timedout \ {f}
      /\ UNCHANGED <<owner, lock_count, now, ready, glock, held>>
    BY <1>2 DEF TimedLockEnqueue, Goto
  <2> USE <1>2
  <2>0. /\ lock_queue' \in Seq(Fibers) /\ NoDup(lock_queue')
        /\ Elems(lock_queue') = Elems(lock_queue) \cup {f}
    BY <1>0, EnqueueElems
  <2>1. timer' \in [Fibers -> Nat] /\ timer' = [timer EXCEPT ![f] = t] /\ t > 0
    BY DEF TypeOK
  <2>2. /\ timer_queue' \in Seq(Fibers) /\ NoDup(timer_queue')
        /\ Elems(timer_queue') = Elems(timer_queue) \cup {f}
    <3>1. timer' \in [Fibers -> Int]
      BY <2>1
    <3>2. timer_queue \in Seq(Fibers) /\ NoDup(timer_queue)
      BY DEF TypeOK, LinksConsistent
    <3> DEFINE tm == timer'
               tq == timer_queue'
    <3>3. tq = TimerInsert(timer_queue, tm, f) /\ tm \in [Fibers -> Int]
      BY <3>1
    <3> HIDE DEF tm, tq
    <3>4. tq \in Seq(Fibers) /\ NoDup(tq) /\ Elems(tq) = Elems(timer_queue) \cup {f}
      BY <1>0, <3>2, <3>3, TimerInsertElems
    <3> QED BY <3>4 DEF tq
  <2>3. TypeOK'
    BY <2>0, <2>1, <2>2 DEF TypeOK, PCs
  <2>4. LinksConsistent'
    BY <1>0, <2>0, <2>1, <2>2 DEF LinksConsistent, TypeOK
  <2>5. OwnerSituation'
    BY <1>0 DEF OwnerSituation, Granted, Releasing, TypeOK
  <2>6. OthersHaveNothing'
    BY <1>0 DEF OthersHaveNothing, Granted, Releasing, TypeOK
  <2> QED BY <1>0, <2>3, <2>4, <2>5, <2>6 DEF FreeMutex, TimeoutPending
<1> QED BY <1>1, <1>2 DEF TimedLockRecheck, TimedLockEnqueue

(* The decrement in melon_mutex_unlock keeps the invariant.                *)
LEMMA UnlockInv ==
  ASSUME IndInv, NEW f \in Fibers, Unlock(f) PROVE IndInv'
<1> USE DEF IndInv
<1> /\ pc[f] = "run" /\ held[f] > 0
    /\ lock_count' = lock_count - 1 /\ held' = [held EXCEPT ![f] = @ - 1]
    /\ IF lock_count' > 0 THEN pc' = pc ELSE pc' = [pc EXCEPT ![f] = "unlocking"]
    /\ UNCHANGED <<owner, lock_queue, timer, timer_queue, now, ready, timedout, glock>>
  BY DEF Unlock, Goto
<1>0. /\ f \notin Elems(lock_queue) /\ f \notin ready
      /\ owner = f /\ lock_count = held[f] /\ lock_count \in Nat \ {0}
  <2>1. f \notin Elems(lock_queue) /\ f \notin ready
    BY DEF LinksConsistent
  <2>2. held[f] \in Nat \ {0} /\ owner = f
    BY DEF TypeOK, OthersHaveNothing
  <2> QED BY <2>1, <2>2 DEF OwnerSituation, Granted, Releasing
<1>1. TypeOK'
  <2>1. lock_count' \in Nat /\ held' \in [Fibers -> Nat]
    BY <1>0 DEF TypeOK
  <2>2. pc' \in [Fibers -> PCs]
    BY DEF TypeOK, PCs
  <2> QED BY <2>1, <2>2 DEF TypeOK
<1>2. LinksConsistent'
  BY <1>0 DEF LinksConsistent, TypeOK
<1>3. OwnerSituation'
  BY <1>0 DEF OwnerSituation, Granted, Releasing, TypeOK
<1>4. OthersHaveNothing'
  BY <1>0 DEF OthersHaveNothing, Granted, Releasing, TypeOK
<1>5. FreeMutex' /\ TimeoutPending'
  BY <1>0 DEF FreeMutex, TimeoutPending
<1> QED BY <1>1, <1>2, <1>3, <1>4, <1>5

(* The look at the queue in melon_mutex_unlock keeps the invariant.        *)
LEMMA UnlockCheckInv ==
  ASSUME IndInv, NEW f \in Fibers, UnlockCheck(f, "unlocking", "handoff", "run")
  PROVE  IndInv'
<1> USE DEF IndInv
<1> /\ pc[f] = "unlocking"
    /\ UNCHANGED <<lock_queue, lock_count, timer, timer_queue, now, ready,
                   timedout, glock, held>>
    /\ IF lock_queue = << >>
       THEN owner' = NULL /\ pc' = [pc EXCEPT ![f] = "run"]
       ELSE owner' = owner /\ pc' = [pc EXCEPT ![f] = "handoff"]
  BY DEF UnlockCheck, Goto
<1>0. /\ f \notin Elems(lock_queue) /\ f \notin ready
      /\ owner = f /\ lock_count = 0 /\ held[f] = 0
  BY DEF LinksConsistent, OwnerSituation, OthersHaveNothing, Granted, Releasing, TypeOK
<1>1. TypeOK'
  BY <1>0 DEF TypeOK, PCs
<1>2. LinksConsistent'
  BY <1>0 DEF LinksConsistent, TypeOK
<1>3. OwnerSituation'
  BY <1>0 DEF OwnerSituation, Granted, Releasing, TypeOK
<1>4. OthersHaveNothing'
  BY <1>0 DEF OthersHaveNothing, Granted, Releasing, TypeOK
<1>5. FreeMutex' /\ TimeoutPending'
  BY <1>0 DEF FreeMutex, TimeoutPending, TypeOK
<1> QED BY <1>1, <1>2, <1>3, <1>4, <1>5

(* The handoff in melon_mutex_unlock keeps the invariant.                  *)
LEMMA UnlockHandoffInv ==
  ASSUME IndInv, NEW f \in Fibers, UnlockHandoff(f, "handoff", "run")
  PROVE  IndInv'
<1> USE DEF IndInv
<1> /\ pc[f] = "handoff" /\ pc' = [pc EXCEPT ![f] = "run"]
    /\ UNCHANGED <<timer, now, timedout, glock, held>>
  BY DEF UnlockHandoff, Goto
<1>0. /\ f \notin Elems(lock_queue) /\ f \notin ready
      /\ owner = f /\ lock_count = 0 /\ held[f] = 0
  BY DEF LinksConsistent, OwnerSituation, OthersHaveNothing, Granted, Releasing, TypeOK
<1>1. CASE lock_queue = << >>
  <2> owner' = NULL /\ UNCHANGED <<lock_queue, lock_count, timer_queue, ready>>
    BY <1>1 DEF UnlockHandoff
  <2>1. TypeOK'
    BY DEF TypeOK, PCs
  <2>2. LinksConsistent'
    BY <1>0 DEF LinksConsistent, TypeOK
  <2>3. OthersHaveNothing'
    BY <1>0 DEF OthersHaveNothing, Granted, Releasing, TypeOK
  <2> QED BY <1>0, <1>1, <2>1, <2>2, <2>3 DEF OwnerSituation, FreeMutex, TimeoutPending
<1>2. CASE lock_queue # << >>
  <2> DEFINE h == Head(lock_queue)
  <2>0. /\ owner' = h /\ lock_queue' = Tail(lock_queue)
        /\ lock_count' = lock_count + 1 /\ ready' = ready \cup {h}
        /\ timer_queue' = IF timer[h] > 0 THEN DlistUnlink(timer_queue, h)
                          ELSE timer_queue
    BY <1>2 DEF UnlockHandoff, HandoffTimer
  <2>1. h \in Fibers /\ h \in Elems(lock_queue)
    BY <1>2, QueueFacts
  <2>2. /\ lock_queue' \in Seq(Fibers) /\ NoDup(lock_queue')
        /\ Elems(lock_queue') = Elems(lock_queue) \ {h}
    <3>1. lock_queue \in Seq(Fibers) /\ NoDup(lock_queue)
      BY DEF TypeOK, LinksConsistent
    <3> QED BY <1>2, <2>0, <3>1, PopElems
  <2> HIDE DEF h
  <2>3. /\ timer_queue' \in Seq(Fibers) /\ NoDup(timer_queue')
        /\ Elems(timer_queue') = Elems(timer_queue) \ {h}
    <3>1. /\ timer_queue \in Seq(Fibers) /\ NoDup(timer_queue)
          /\ timer[h] > 0 <=> h \in Elems(timer_queue)
      BY <2>1 DEF TypeOK, LinksConsistent
    <3>2. CASE timer[h] > 0
      BY <2>0, <3>1, <3>2, UnlinkElems
    <3>3. CASE ~(timer[h] > 0)
      BY <2>0, <3>1, <3>3
    <3> QED BY <3>2, <3>3
  <2>4. h # f /\ h \notin ready /\ h \notin timedout /\ pc[h] = "locking" /\ held[h] = 0
    BY <1>0, <2>1 DEF LinksConsistent, TimeoutPending, OthersHaveNothing
  <2>5. TypeOK'
    BY <2>0, <2>1, <2>2, <2>3 DEF TypeOK, PCs
  <2>6. LinksConsistent'
    BY <1>0, <2>0, <2>1, <2>2, <2>3, <2>4 DEF LinksConsistent, TypeOK
  <2>7. OwnerSituation'
    BY <1>0, <2>0, <2>1, <2>4 DEF OwnerSituation, Granted, Releasing, TypeOK
  <2>8. OthersHaveNothing'
    BY <1>0, <2>0, <2>1, <2>4 DEF OthersHaveNothing, Granted, Releasing, TypeOK
  <2>9. FreeMutex' /\ TimeoutPending'
    BY <2>0, <2>1 DEF FreeMutex, TimeoutPending
  <2> QED BY <2>5, <2>6, <2>7, <2>8, <2>9
<1> QED BY <1>1, <1>2

(* The timer callback keeps the invariant.                                 *)
LEMMA TimerFireInv ==
  ASSUME IndInv, NEW f \in Fibers, TimerFire(f) PROVE IndInv'
<1> USE DEF IndInv
<1> /\ timer_queue # << >> /\ f = Head(timer_queue)
    /\ timer_queue' = DlistUnlink(timer_queue, f)
    /\ lock_queue' = DlistUnlink(lock_queue, f)
    /\ timedout' = timedout \cup {f} /\ ready' = ready \cup {f}
    /\ glock' \in {"free", "timer"}
    /\ UNCHANGED <<owner, lock_count, timer, now, pc, held>>
  BY DEF TimerFire, TimerExpires, TimerDue, TimedLockCb
<1>0. /\ f \in Elems(timer_queue) /\ f \in Elems(lock_queue)
      /\ f \notin ready /\ pc[f] = "locking"
  BY QueueFacts DEF LinksConsistent
<1>1. /\ timer_queue' \in Seq(Fibers) /\ NoDup(timer_queue')
      /\ Elems(timer_queue') = Elems(timer_queue) \ {f}
  <2>1. timer_queue \in Seq(Fibers) /\ NoDup(timer_queue)
    BY DEF TypeOK, LinksConsistent
  <2> QED BY <1>0, <2>1, UnlinkElems
<1>2. /\ lock_queue' \in Seq(Fibers) /\ NoDup(lock_queue')
      /\ Elems(lock_queue') = Elems(lock_queue) \ {f}
  <2>1. lock_queue \in Seq(Fibers) /\ NoDup(lock_queue)
    BY DEF TypeOK, LinksConsistent
  <2> QED BY <1>0, <2>1, UnlinkElems
<1>3. TypeOK'
  BY <1>1, <1>2 DEF TypeOK
<1>4. LinksConsistent'
  BY <1>0, <1>1, <1>2 DEF LinksConsistent, TypeOK
<1>5. OwnerSituation'
  BY <1>0 DEF OwnerSituation, Granted, Releasing, TypeOK
<1>6. OthersHaveNothing'
  BY <1>0 DEF OthersHaveNothing, Granted, Releasing, TypeOK
<1>7. FreeMutex' /\ TimeoutPending'
  BY <1>0, QueueFacts DEF FreeMutex, TimeoutPending, LinksConsistent
<1> QED BY <1>3, <1>4, <1>5, <1>6, <1>7

(* A fiber that returns from its wait keeps the invariant.                 *)
LEMMA ResumeInv ==
  ASSUME IndInv, NEW f \in Fibers, Resume(f) PROVE IndInv'
<1> USE DEF IndInv
<1> /\ pc[f] = "locking" /\ f \in ready /\ ready' = ready \ {f}
    /\ pc' = [pc EXCEPT ![f] = "run"] /\ timedout' = timedout \ {f}
    /\ held' = IF f \in timedout THEN held ELSE [held EXCEPT ![f] = 1]
    /\ UNCHANGED <<owner, lock_queue, lock_count, timer, timer_queue, now, glock>>
  BY DEF Resume, Goto
<1>0. f \notin Elems(lock_queue)
  BY DEF LinksConsistent
<1>1. TypeOK'
  BY DEF TypeOK, PCs
<1>2. LinksConsistent'
  BY <1>0 DEF LinksConsistent, TypeOK
<1>3. OwnerSituation'
  BY DEF OwnerSituation, Granted, Releasing, TypeOK
<1>4. OthersHaveNothing'
  BY DEF OthersHaveNothing, Granted, Releasing, TypeOK
<1>5. FreeMutex' /\ TimeoutPending'
  BY DEF FreeMutex, TimeoutPending
<1> QED BY <1>1, <1>2, <1>3, <1>4, <1>5

(* Every step of the mutex keeps the invariant.                            *)
LEMMA NextIndInv == IndInv /\ [Next]_vars => IndInv'
<1> SUFFICES ASSUME IndInv, [Next]_vars PROVE IndInv'
  OBVIOUS
<1>1. CASE \E f \in Fibers : MutexLock(f)
  BY <1>1, MutexLockInv
<1>2. CASE \E f \in Fibers : TryLock(f)
  BY <1>2, TryLockInv
<1>3. CASE \E f \in Fibers : TimedLock(f)
  BY <1>3, TimedLockInv
<1>4. CASE \E f \in Fibers : \E t \in Timeouts : TimedLockEnqueue(f, t)
  BY <1>4, TimedLockEnqueueInv
<1>5. CASE \E f \in Fibers : Unlock(f)
  BY <1>5, UnlockInv
<1>6. CASE \E f \in Fibers : UnlockCheck(f, "unlocking", "handoff", "run")
  BY <1>6, UnlockCheckInv
<1>7. CASE \E f \in Fibers : UnlockHandoff(f, "handoff", "run")
  BY <1>7, UnlockHandoffInv
<1>8. CASE \E f \in Fibers : TimerFire(f)
  BY <1>8, TimerFireInv
<1>9. CASE \E f \in Fibers : Resume(f)
  BY <1>9, ResumeInv
<1>10. CASE Tick
  BY <1>10 DEF Tick, IndInv, TypeOK, LinksConsistent, FreeMutex, OwnerSituation,
               OthersHaveNothing, TimeoutPending, Granted, Releasing
<1>11. CASE UNCHANGED vars
  BY <1>11 DEF vars, IndInv, TypeOK, LinksConsistent, FreeMutex, OwnerSituation,
               OthersHaveNothing, TimeoutPending, Granted, Releasing
<1> QED BY <1>1, <1>2, <1>3, <1>4, <1>5, <1>6, <1>7, <1>8, <1>9, <1>10, <1>11
        DEF Next

(* IndInv is an invariant of the mutex.                                    *)
THEOREM IndInvariant == Spec => []IndInv
<1>1. Init => IndInv
  BY InitIndInv
<1>2. IndInv /\ [Next]_vars => IndInv'
  BY NextIndInv
<1> QED BY <1>1, <1>2, PTL DEF Spec

(* Whatever the interleaving of lock, trylock, timedlock, unlock and the   *)
(* timer thread, at most one fiber holds the mutex and it is its owner.    *)
THEOREM MutexSafe == Spec => []MutualExclusion
<1>1. IndInv => MutualExclusion
  BY DEF IndInv, MutualExclusion, OwnerSituation, OthersHaveNothing, TypeOK
<1> QED BY <1>1, IndInvariant, PTL

(* No unlock leaves a fiber in the queue of a free mutex.                  *)
THEOREM NoWaiterAbandoned == Spec => []NoAbandonedWaiter
<1>1. IndInv => NoAbandonedWaiter
  BY DEF IndInv, NoAbandonedWaiter, FreeMutex
<1> QED BY <1>1, IndInvariant, PTL

(* The intrusive links of the lock queue and the timer queue are sound.    *)
THEOREM LinksSound == Spec => []LinksConsistent
<1>1. IndInv => LinksConsistent
  BY DEF IndInv
<1> QED BY <1>1, IndInvariant, PTL

(* A timed lock either gets the mutex or times out, never both.            *)
THEOREM OutcomeUnique == Spec => []OneOutcome
<1>1. IndInv => OneOutcome
  <2> SUFFICES ASSUME IndInv, NEW f \in ready
               PROVE  (owner = f /\ held[f] = 0) <=> f \notin timedout
    BY DEF OneOutcome
  <2>1. f \in Fibers /\ pc[f] = "locking"
    BY DEF IndInv, TypeOK, LinksConsistent
  <2> QED BY <2>1 DEF IndInv, OwnerSituation, OthersHaveNothing, Granted,
             Releasing, TypeOK
<1> QED BY <1>1, IndInvariant, PTL

(* A step that changes the owner while fibers wait is the handoff to the   *)
(* fiber that has waited longest.                                          *)
LEMMA StepNoBarging ==
  ASSUME IndInv, [Next]_vars, owner' # owner, lock_queue # << >>
  PROVE  owner' = Head(lock_queue)
<1>1. owner # NULL
  BY DEF IndInv, FreeMutex
<1>2. PICK f \in Fibers :
         \/ UnlockCheck(f, "unlocking", "handoff", "run")
         \/ UnlockHandoff(f, "handoff", "run")
  BY <1>1 DEF Next, vars, MutexLock, TryLock, TryLockTakes, TimedLock,
       TimedLockEnqueue, TimedLockRecheck, Unlock, TimerFire, Tick, Resume
<1> QED BY <1>2 DEF UnlockCheck, UnlockHandoff

(* The mutex is handed over in FIFO order, a newcomer never overtakes.     *)
THEOREM HandoffFIFO == Spec => NoBarging
<1>1. IndInv /\ [Next]_vars =>
        [(owner' # owner /\ lock_queue # << >>) => owner' = Head(lock_queue)]_vars
  BY StepNoBarging
<1> QED BY <1>1, IndInvariant, PTL DEF Spec, NoBarging

(* Every step keeps the timer queue sorted.                                *)
LEMMA StepTimerSorted ==
  ASSUME IndInv, TimerQueueSorted, [Next]_vars PROVE TimerQueueSorted'
<1> USE DEF TimerQueueSorted
<1>0. timer \in [Fibers -> Nat] /\ timer \in [Fibers -> Int]
      /\ timer_queue \in Seq(Fibers)
  BY DEF IndInv, TypeOK
<1>1. ASSUME NEW f \in Fibers, f \notin Elems(timer_queue), NEW t,
             timer' = [timer EXCEPT ![f] = t], timer_queue' = timer_queue
      PROVE  TimerQueueSorted'
  <2>1. \A g \in Elems(timer_queue) : timer[g] = timer'[g]
    <3>1. Elems(timer_queue) \subseteq Fibers
      BY QueueFacts DEF IndInv
    <3> QED BY <1>0, <1>1, <3>1
  <2>2. TimerSorted(timer_queue, timer')
    BY <1>0, <2>1, SortedSameTimers
  <2> QED BY <1>1, <2>2
<1>2. ASSUME NEW f \in Fibers, MutexLock(f) PROVE TimerQueueSorted'
  <2>1. f \notin Elems(timer_queue)
    BY <1>2 DEF MutexLock, IndInv, LinksConsistent
  <2> QED BY <1>1, <1>2, <2>1 DEF MutexLock
<1>3. ASSUME NEW f \in Fibers, NEW t \in Timeouts, TimedLockEnqueue(f, t)
      PROVE  TimerQueueSorted'
  <2>1. CASE TimedLockRecheck(f)
    BY <2>1 DEF TimedLockRecheck
  <2>2. CASE ~TimedLockRecheck(f)
    <3> DEFINE tm == timer'
               tq == timer_queue'
    <3>1. tm = [timer EXCEPT ![f] = t] /\ tq = TimerInsert(timer_queue, tm, f)
      BY <1>3, <2>2 DEF TimedLockEnqueue
    <3>2. f \notin Elems(timer_queue)
      BY <1>3 DEF TimedLockEnqueue, IndInv, LinksConsistent
    <3> HIDE DEF tm, tq
    <3>3. tm \in [Fibers -> Int]
      BY <1>0, <3>1
    <3>4. \A g \in Elems(timer_queue) : timer[g] = tm[g]
      <4>1. Elems(timer_queue) \subseteq Fibers
        BY QueueFacts DEF IndInv
      <4> QED BY <1>0, <3>1, <3>2, <4>1
    <3>5. TimerSorted(timer_queue, tm)
      BY <1>0, <3>4, SortedSameTimers
    <3>6. TimerSorted(tq, tm)
      BY <1>0, <3>1, <3>3, <3>5, TimerInsertElems
    <3> QED BY <3>6 DEF tm, tq
  <2> QED BY <2>1, <2>2
<1>4. ASSUME NEW f \in Fibers, UnlockHandoff(f, "handoff", "run")
      PROVE  TimerQueueSorted'
  <2>1. CASE lock_queue = << >>
    BY <1>4, <2>1 DEF UnlockHandoff
  <2>2. CASE lock_queue # << >>
    <3> DEFINE h == Head(lock_queue)
    <3>1. timer' = timer /\
          timer_queue' = IF timer[h] > 0 THEN DlistUnlink(timer_queue, h) ELSE timer_queue
      BY <1>4, <2>2 DEF UnlockHandoff, HandoffTimer
    <3>2. h \in Fibers /\ h \in Elems(lock_queue)
      BY <2>2, QueueFacts DEF IndInv
    <3>3. timer[h] > 0 => h \in Elems(timer_queue)
      BY <3>2 DEF IndInv, LinksConsistent
    <3> HIDE DEF h
    <3> QED BY <1>0, <3>1, <3>3, UnlinkSorted
  <2> QED BY <2>1, <2>2
<1>5. ASSUME NEW f \in Fibers, TimerFire(f) PROVE TimerQueueSorted'
  <2>1. /\ f \in Elems(timer_queue) /\ timer' = timer
        /\ timer_queue' = DlistUnlink(timer_queue, f)
    BY <1>5, QueueFacts DEF IndInv, TimerFire, TimerExpires, TimerDue
  <2> QED BY <1>0, <2>1, UnlinkSorted
<1>6. CASE UNCHANGED <<timer, timer_queue>>
  BY <1>6
<1> QED BY <1>2, <1>3, <1>4, <1>5, <1>6 DEF Next, vars, TryLock, TimedLock, Unlock,
           UnlockCheck, Resume, Tick

(* The timer queue is sorted in every reachable state.                     *)
THEOREM TimerQueueOrder == Spec => []TimerQueueSorted
<1>1. Init => TimerQueueSorted
  BY DEF Init, TimerQueueSorted, TimerSorted
<1>2. IndInv /\ TimerQueueSorted /\ [Next]_vars => TimerQueueSorted'
  BY StepTimerSorted
<1> QED BY <1>1, <1>2, IndInvariant, PTL DEF Spec

(* A step takes a fiber out of the lock queue by giving it the mutex, from *)
(* the head, or because its deadline has passed.                           *)
LEMMA StepLeaves ==
  ASSUME IndInv, [Next]_vars, NEW f \in Elems(lock_queue) \ Elems(lock_queue')
  PROVE  (owner' = f /\ f = Head(lock_queue)) \/ timer[f] \in 1..now
<1>0. lock_queue \in Seq(Fibers) /\ NoDup(lock_queue) /\ f \in Fibers
  BY QueueFacts DEF IndInv, TypeOK, LinksConsistent
<1>1. ASSUME NEW g \in Fibers, pc[g] # "locking", Enqueue(g) PROVE FALSE
  <2>1. g \notin Elems(lock_queue)
    BY <1>1 DEF IndInv, LinksConsistent
  <2> QED BY <1>1, <2>1, EnqueueElems DEF IndInv
<1>2. ASSUME NEW g \in Fibers, UnlockHandoff(g, "handoff", "run")
      PROVE  owner' = f /\ f = Head(lock_queue)
  <2>1. /\ lock_queue # << >> /\ owner' = Head(lock_queue)
        /\ lock_queue' = Tail(lock_queue)
    BY <1>2 DEF UnlockHandoff
  <2> QED BY <1>0, <2>1, PopElems
<1>3. ASSUME NEW g \in Fibers, TimerFire(g) PROVE timer[f] \in 1..now
  <2>1. /\ g \in Elems(timer_queue) /\ timer[g] <= now
        /\ lock_queue' = DlistUnlink(lock_queue, g)
    BY <1>3, QueueFacts DEF IndInv, TimerFire, TimerExpires, TimerDue, TimedLockCb
  <2>2. g \in Elems(lock_queue) /\ timer[g] > 0 /\ timer[g] \in Nat /\ now \in Nat
    BY <2>1 DEF IndInv, LinksConsistent, TypeOK
  <2>3. f = g
    BY <1>0, <2>1, <2>2, UnlinkElems
  <2> QED BY <2>1, <2>2, <2>3
<1>4. lock_queue' # lock_queue
  OBVIOUS
<1> QED BY <1>1, <1>2, <1>3, <1>4 DEF Next, vars, MutexLock, TryLock, TimedLock,
           TimedLockEnqueue, TimedLockRecheck, Unlock, UnlockCheck, Resume, Tick

(* A fiber stops waiting only with the mutex or after its own deadline.    *)
THEOREM LeavesOnlyInTurnOrLate == Spec => LeavesInTurnOrLate
<1>1. IndInv /\ [Next]_vars =>
        [\A f \in Elems(lock_queue) \ Elems(lock_queue') :
           \/ owner' = f /\ f = Head(lock_queue)
           \/ timer[f] \in 1..now]_vars
  BY StepLeaves
<1> QED BY <1>1, IndInvariant, PTL DEF Spec, LeavesInTurnOrLate

----------------------------------------------------------------------------
(* The mutex implements the lock of module Monitor.  A step of mutex.c     *)
(* that changes who has the mutex or who waits for it is one step of the   *)
(* abstract lock; all others, nested locks and the looks of unlock at the  *)
(* queue among them, stutter.                                              *)

(* The fiber that has the mutex as its users see it.                       *)
Holder == HolderOf({"unlocking", "handoff"})

(* Nothing happens that the users of the mutex see.                        *)
Unseen == Holder' = Holder /\ lock_queue' = lock_queue

(* What the users see: the steps of module Monitor on the two variables.   *)
Seen(f) ==
  \/ Holder = NULL /\ lock_queue = << >> /\ Holder' = f /\ lock_queue' = lock_queue
  \/ /\ f \notin Elems(lock_queue) /\ Holder' = Holder
     /\ lock_queue' = DlistPush(lock_queue, f)
  \/ /\ f \in Elems(lock_queue) /\ Holder' = Holder
     /\ lock_queue' = DlistUnlink(lock_queue, f)
  \/ Holder = f /\ Holder' = NULL /\ lock_queue' = lock_queue
  \/ /\ Holder = NULL /\ lock_queue # << >> /\ f = Head(lock_queue)
     /\ Holder' = f /\ lock_queue' = Tail(lock_queue)

(* Such a step is one of module Monitor.                                   *)
LEMMA SeenIsMonitor ==
  ASSUME NEW f \in Fibers, Seen(f) PROVE M!MonitorNext
<1>1. /\ M!Elems(lock_queue) = Elems(lock_queue)
      /\ M!DlistPush(lock_queue, f) = DlistPush(lock_queue, f)
  BY DEF M!Elems, Elems, M!DlistPush, DlistPush
<1>2. M!DlistUnlink(lock_queue, f) = DlistUnlink(lock_queue, f)
  BY DEF M!DlistUnlink, DlistUnlink, M!Elems, Elems, M!PositionOf, PositionOf,
         M!RemoveAt, RemoveAt
<1>3. CASE Holder = NULL /\ lock_queue = << >> /\ Holder' = f /\ lock_queue' = lock_queue
  <2>1. M!Lock(f)
    BY <1>3 DEF M!Lock, M!Relock, M!Gets, Holder
  <2> QED BY <2>1 DEF M!MonitorNext
<1>4. CASE /\ f \notin Elems(lock_queue) /\ Holder' = Holder
           /\ lock_queue' = DlistPush(lock_queue, f)
  <2>1. M!Lock(f)
    BY <1>1, <1>4 DEF M!Lock, M!Relock, M!Queues, Holder
  <2> QED BY <2>1 DEF M!MonitorNext
<1>5. CASE /\ f \in Elems(lock_queue) /\ Holder' = Holder
           /\ lock_queue' = DlistUnlink(lock_queue, f)
  <2>1. M!GiveUp(f)
    BY <1>1, <1>2, <1>5 DEF M!GiveUp, Holder
  <2> QED BY <2>1 DEF M!MonitorNext
<1>6. CASE Holder = f /\ Holder' = NULL /\ lock_queue' = lock_queue
  <2>1. M!Release(f)
    BY <1>6 DEF M!Release, Holder
  <2> QED BY <2>1 DEF M!MonitorNext
<1>7. CASE /\ Holder = NULL /\ lock_queue # << >> /\ f = Head(lock_queue)
           /\ Holder' = f /\ lock_queue' = Tail(lock_queue)
  <2>1. M!Grant(f)
    BY <1>7 DEF M!Grant, Holder
  <2> QED BY <2>1 DEF M!MonitorNext, M!MonitorStep
<1> QED BY <1>3, <1>4, <1>5, <1>6, <1>7 DEF Seen

(* melon_mutex_lock takes a free lock, joins the queue, or is nested.      *)
LEMMA MutexLockSeen ==
  ASSUME IndInv, NEW f \in Fibers, MutexLock(f) PROVE Seen(f) \/ Unseen
<1>1. f \notin Elems(lock_queue) /\ pc[f] = "run"
  BY DEF MutexLock, IndInv, LinksConsistent
<1>2. CASE owner = NULL
  BY <1>1, <1>2 DEF MutexLock, Seen, Holder, HolderOf, IndInv, FreeMutex
<1>3. CASE owner = f
  BY <1>1, <1>3 DEF MutexLock, Unseen, Holder, HolderOf
<1>4. CASE owner \notin {NULL, f}
  <2>1. Holder' = Holder
    BY <1>4 DEF MutexLock, Goto, Holder, HolderOf, IndInv, TypeOK
  <2> QED BY <1>1, <1>4, <2>1 DEF MutexLock, Enqueue, Seen
<1> QED BY <1>2, <1>3, <1>4

(* melon_mutex_trylock takes a free lock, or is nested.                    *)
LEMMA TryLockSeen ==
  ASSUME IndInv, NEW f \in Fibers, TryLock(f) PROVE Seen(f) \/ Unseen
<1>1. CASE owner = NULL
  BY <1>1 DEF TryLock, TryLockTakes, Seen, Holder, HolderOf, IndInv, FreeMutex
<1>2. CASE owner # NULL
  BY <1>2 DEF TryLock, TryLockTakes, Unseen, Holder, HolderOf
<1> QED BY <1>1, <1>2

(* The locked part of melon_mutex_timedlock takes a lock that is free by   *)
(* now, or joins the queue.                                                *)
LEMMA TimedLockEnqueueSeen ==
  ASSUME IndInv, NEW f \in Fibers, NEW t \in Timeouts, TimedLockEnqueue(f, t)
  PROVE  Seen(f)
<1>1. f \notin Elems(lock_queue) /\ pc[f] = "timedlock"
  BY DEF TimedLockEnqueue, IndInv, LinksConsistent
<1>2. CASE TimedLockRecheck(f)
  BY <1>2 DEF TimedLockRecheck, Goto, Seen, Holder, HolderOf, IndInv, FreeMutex, TypeOK
<1>3. CASE ~TimedLockRecheck(f)
  <2>1. Holder' = Holder
    BY <1>1, <1>3 DEF TimedLockEnqueue, Goto, Holder, HolderOf, IndInv, TypeOK
  <2> QED BY <1>1, <1>3, <2>1 DEF TimedLockEnqueue, Enqueue, Seen
<1> QED BY <1>2, <1>3

(* The last unlock frees the lock when it drops the count; those before it *)
(* are not seen.                                                           *)
LEMMA UnlockSeen ==
  ASSUME IndInv, NEW f \in Fibers, Unlock(f) PROVE Seen(f) \/ Unseen
<1>1. owner = f /\ pc[f] = "run" /\ owner' = owner /\ lock_queue' = lock_queue
  BY DEF Unlock, IndInv, OthersHaveNothing, TypeOK
<1>2. CASE pc' = pc
  BY <1>1, <1>2 DEF Unseen, Holder, HolderOf
<1>3. CASE pc' = [pc EXCEPT ![f] = "unlocking"]
  BY <1>1, <1>3 DEF Seen, Holder, HolderOf, IndInv, TypeOK
<1> QED BY <1>2, <1>3 DEF Unlock, Goto

(* The owner that is half-way through an unlock has nothing any more, and  *)
(* its second step gives nothing.                                          *)
LEMMA UnlockCheckUnseen ==
  ASSUME IndInv, NEW f \in Fibers, UnlockCheck(f, "unlocking", "handoff", "run")
  PROVE  Unseen
<1>1. owner = f /\ pc[f] = "unlocking"
  BY DEF UnlockCheck, IndInv, OthersHaveNothing, Releasing
<1> QED BY <1>1 DEF UnlockCheck, Goto, Unseen, Holder, HolderOf, IndInv, TypeOK

(* Its third step passes the lock to the head of the queue.                *)
LEMMA UnlockHandoffSeen ==
  ASSUME IndInv, NEW f \in Fibers, UnlockHandoff(f, "handoff", "run")
  PROVE  Unseen \/ \E g \in Fibers : Seen(g)
<1>1. owner = f /\ pc[f] = "handoff" /\ pc' = [pc EXCEPT ![f] = "run"]
  BY DEF UnlockHandoff, Goto, IndInv, OthersHaveNothing, Releasing
<1>2. Holder = NULL
  BY <1>1 DEF Holder, HolderOf
<1>3. CASE lock_queue = << >>
  BY <1>2, <1>3 DEF UnlockHandoff, Unseen, Holder, HolderOf
<1>4. CASE lock_queue # << >>
  <2> DEFINE g == Head(lock_queue)
  <2>1. g \in Fibers /\ g \in Elems(lock_queue)
    BY <1>4, QueueFacts DEF IndInv
  <2>2. owner' = g /\ lock_queue' = Tail(lock_queue)
    BY <1>4 DEF UnlockHandoff
  <2>3. pc[g] = "locking" /\ g # f
    BY <1>1, <2>1 DEF IndInv, LinksConsistent
  <2>4. Holder' = g
    BY <1>1, <2>1, <2>2, <2>3 DEF Holder, HolderOf, IndInv, TypeOK
  <2> QED BY <1>2, <1>4, <2>1, <2>2, <2>4 DEF Seen
<1> QED BY <1>3, <1>4

(* The timer callback takes the fiber out of the queue.                    *)
LEMMA TimerFireSeen ==
  ASSUME IndInv, NEW f \in Fibers, TimerFire(f) PROVE Seen(f)
<1>1. /\ timer_queue # << >> /\ f = Head(timer_queue)
      /\ lock_queue' = DlistUnlink(lock_queue, f)
      /\ UNCHANGED <<owner, pc>>
  BY DEF TimerFire, TimerExpires, TimerDue, TimedLockCb
<1>2. f \in Elems(lock_queue)
  BY <1>1, QueueFacts DEF IndInv, LinksConsistent
<1>3. Holder' = Holder
  BY <1>1 DEF Holder, HolderOf
<1> QED BY <1>1, <1>2, <1>3 DEF Seen

(* Every step of the mutex is a step of the lock, or stutters.             *)
LEMMA NextSeen ==
  ASSUME IndInv, [Next]_vars PROVE Unseen \/ \E f \in Fibers : Seen(f)
<1>1. CASE \E f \in Fibers : MutexLock(f)
  BY <1>1, MutexLockSeen
<1>2. CASE \E f \in Fibers : TryLock(f)
  BY <1>2, TryLockSeen
<1>3. CASE \E f \in Fibers : TimedLock(f)
  BY <1>3 DEF TimedLock, Goto, Unseen, Holder, HolderOf, IndInv, TypeOK
<1>4. CASE \E f \in Fibers : \E t \in Timeouts : TimedLockEnqueue(f, t)
  BY <1>4, TimedLockEnqueueSeen
<1>5. CASE \E f \in Fibers : Unlock(f)
  BY <1>5, UnlockSeen
<1>6. CASE \E f \in Fibers : UnlockCheck(f, "unlocking", "handoff", "run")
  BY <1>6, UnlockCheckUnseen
<1>7. CASE \E f \in Fibers : UnlockHandoff(f, "handoff", "run")
  BY <1>7, UnlockHandoffSeen
<1>8. CASE \E f \in Fibers : TimerFire(f)
  BY <1>8, TimerFireSeen
<1>9. CASE \E f \in Fibers : Resume(f)
  BY <1>9 DEF Resume, Goto, Unseen, Holder, HolderOf, IndInv, TypeOK
<1>10. CASE Tick
  BY <1>10 DEF Tick, Unseen, Holder, HolderOf
<1>11. CASE UNCHANGED vars
  BY <1>11 DEF vars, Unseen, Holder, HolderOf
<1> QED BY <1>1, <1>2, <1>3, <1>4, <1>5, <1>6, <1>7, <1>8, <1>9, <1>10, <1>11
        DEF Next

(* mutex.c implements a first in, first out lock: what its users see of    *)
(* any behaviour is a behaviour of module Monitor.                         *)
THEOREM MutexImplementsMonitor == Spec => ImplementsMonitor
<1>1. Init => M!MonitorInit
  BY DEF Init, M!MonitorInit, HolderOf
<1>2. IndInv /\ [Next]_vars => [M!MonitorNext]_M!mvars
  <2> SUFFICES ASSUME IndInv, [Next]_vars, ~M!MonitorNext
               PROVE  UNCHANGED M!mvars
    OBVIOUS
  <2>1. Unseen
    BY NextSeen, SeenIsMonitor
  <2> QED BY <2>1 DEF Unseen, Holder, M!mvars
<1> QED BY <1>1, <1>2, IndInvariant, PTL DEF Spec, ImplementsMonitor, M!MonitorSpec
=============================================================================
