----------------------------- MODULE CondProofs -----------------------------
(***************************************************************************)
(* The condition variable with its mutex, for any number of fibers and any *)
(* deadlines: CondInv is an inductive invariant and the safety properties  *)
(* of module Cond follow from it.  Two hypotheses bound what is claimed:   *)
(* the mutex is not recursive, and every signal is a broadcast.  Without   *)
(* them the code breaks its own promises, as the runs of CondRecursive.cfg *)
(* and CondOrphan.cfg show.                                                *)
(***************************************************************************)
EXTENDS Cond, DlistProofs

USE FibersAssumption, BoundsAssumption, TimeoutsAssumption, CondAssumption

(* The queues as sets.                                                     *)
LQ == Elems(lock_queue)
WQ == Elems(wait_queue)
SL == Elems(list)
TQ == Elems(timer_queue)

CondPCs == PCs \cup WaitPCs \cup {"signalling"}

CondTypes ==
  /\ owner \in Fibers \cup {NULL} /\ lock_queue \in Seq(Fibers)
  /\ lock_count \in Nat /\ timer \in [Fibers -> Nat]
  /\ timer_queue \in Seq(Fibers) /\ now \in Nat /\ pc \in [Fibers -> CondPCs]
  /\ ready \subseteq Fibers /\ timedout \subseteq Fibers
  /\ glock \in {"free", "timer", "signal"} /\ held \in [Fibers -> Nat]
  /\ wait_queue \in Seq(Fibers) /\ list \in Seq(Fibers) /\ left = 0
  /\ saved \in [Fibers -> Nat]

(* A fiber is linked once, in one list.                                    *)
LinkedOnce ==
  /\ NoDup(lock_queue) /\ NoDup(wait_queue) /\ NoDup(list) /\ NoDup(timer_queue)
  /\ LQ \cap WQ = {} /\ LQ \cap SL = {} /\ WQ \cap SL = {}
  /\ (LQ \cup WQ \cup SL) \cap ready = {}

(* The fibers of a list are those whose calls wait there; the two lists of *)
(* the condition hold nobody else, and one that was moved to the lock      *)
(* queue or relocked is past the unlock of its own wait.                   *)
CallsLinked ==
  \A f \in Fibers :
    /\ f \in WQ \cup SL => pc[f] \in WaitPCs
    /\ f \in LQ \cup ready => pc[f] \in {"locking", "waiting"}
    /\ pc[f] = "locking" => f \in LQ \cup ready
    /\ pc[f] \in WaitPCs => f \in WQ \cup SL \cup LQ \cup ready

(* The timer queue holds the fibers that wait with a deadline; that of a   *)
(* fiber that was moved to the lock queue is void.                         *)
TimersKept ==
  \A f \in Fibers :
    /\ f \in TQ <=> f \in LQ \cup WQ \cup SL /\ timer[f] > 0
    /\ f \in LQ /\ pc[f] = "waiting" => timer[f] = 0
    /\ f \in timedout => pc[f] = "waiting" \/ (pc[f] = "locking" /\ f \in ready)

(* The signaller's list exists while it has g_melon.lock.                  *)
SignalScope ==
  /\ glock # "signal" => list = << >>
  /\ glock = "signal" => signaller \in Fibers /\ pc[signaller] = "signalling"
  /\ \A f \in Fibers : pc[f] = "signalling" => glock = "signal" /\ signaller = f

(* The owner of the mutex is in its last unlock, has been granted the      *)
(* mutex and not yet run, or holds it.                                     *)
Unlocks(f) == pc[f] \in {"unlocking", "handoff", "wait_check", "wait_handoff"}
Given(f) == f \in ready /\ (pc[f] = "waiting" \/ f \notin timedout)
OwnerIs ==
  owner # NULL =>
    \/ Given(owner) /\ lock_count = 1 /\ held[owner] = 0
    \/ Unlocks(owner) /\ lock_count = 0 /\ held[owner] = 0
    \/ /\ ~Given(owner) /\ ~Unlocks(owner) /\ pc[owner] # "waiting"
       /\ lock_count = 1 /\ held[owner] = 1
NobodyElse ==
  \A f \in Fibers \ {owner} : held[f] = 0 /\ ~Unlocks(f) /\ ~Given(f)
FreeIsFree == owner = NULL => lock_count = 0 /\ lock_queue = << >>
SavedOne == \A f \in Fibers : pc[f] \in WaitPCs => saved[f] = 1

CondInv ==
  /\ CondTypes /\ LinkedOnce /\ CallsLinked /\ TimersKept /\ SignalScope
  /\ OwnerIs /\ NobodyElse /\ FreeIsFree /\ SavedOne /\ FaultWindow

(* The parts that speak of fibers one by one and of the owner.             *)
Places == CallsLinked /\ TimersKept /\ SignalScope
Ownership == OwnerIs /\ NobodyElse /\ FreeIsFree /\ SavedOne

(* What every action proof starts from.                                    *)
LEMMA QueueFacts ==
  ASSUME CondTypes
  PROVE  /\ LQ \subseteq Fibers /\ WQ \subseteq Fibers
         /\ SL \subseteq Fibers /\ TQ \subseteq Fibers
         /\ lock_queue = << >> <=> LQ = {}
         /\ wait_queue = << >> <=> WQ = {}
         /\ list = << >> <=> SL = {}
         /\ timer_queue = << >> <=> TQ = {}
         /\ lock_queue # << >> => Head(lock_queue) \in LQ
         /\ list # << >> => Head(list) \in SL
         /\ timer_queue # << >> => Head(timer_queue) \in TQ
  BY EmptyElems, PopElems DEF CondTypes, LQ, WQ, SL, TQ

(* A fiber that no list links may be linked in the lock queue.             *)
LEMMA EnqueueElems ==
  ASSUME CondInv, NEW f \in Fibers, f \notin LQ, Enqueue(f)
  PROVE  lock_queue' \in Seq(Fibers) /\ NoDup(lock_queue') /\ LQ' = LQ \cup {f}
  BY PushElems DEF CondInv, CondTypes, LinkedOnce, Enqueue, LQ

(* So may it in the timer queue, with any deadline.                        *)
LEMMA TimerElems ==
  ASSUME CondInv, NEW f \in Fibers, f \notin TQ, NEW t \in Nat,
         timer' = [timer EXCEPT ![f] = t],
         timer_queue' = TimerInsert(timer_queue, timer', f)
  PROVE  timer_queue' \in Seq(Fibers) /\ NoDup(timer_queue') /\ TQ' = TQ \cup {f}
<1> DEFINE tm == timer'
<1>1. tm \in [Fibers -> Int]
  BY DEF CondInv, CondTypes
<1> HIDE DEF tm
<1>2. timer_queue' = TimerInsert(timer_queue, tm, f)
  BY DEF tm
<1>3. timer_queue \in Seq(Fibers) /\ NoDup(timer_queue) /\ f \notin Elems(timer_queue)
  BY DEF CondInv, CondTypes, LinkedOnce, TQ
<1>4. TQ' = Elems(TimerInsert(timer_queue, tm, f)) /\ TQ = Elems(timer_queue)
  BY <1>2 DEF TQ
<1> QED BY <1>1, <1>2, <1>3, <1>4, TimerInsertElems

(* The timer of a fiber is removed when it has one.                        *)
LEMMA TimerRemoved ==
  ASSUME CondInv, NEW f \in Fibers, timer[f] > 0 => f \in TQ,
         timer_queue' = IF timer[f] > 0 THEN DlistUnlink(timer_queue, f) ELSE timer_queue
  PROVE  /\ timer_queue' \in Seq(Fibers) /\ NoDup(timer_queue')
         /\ TQ' = IF timer[f] > 0 THEN TQ \ {f} ELSE TQ
  BY UnlinkElems DEF CondInv, CondTypes, LinkedOnce, TQ

(* The lists after a step whose links are unchanged.                       *)
LEMMA SameQueues ==
  /\ lock_queue' = lock_queue => LQ' = LQ
  /\ wait_queue' = wait_queue => WQ' = WQ
  /\ list' = list => SL' = SL
  /\ timer_queue' = timer_queue => TQ' = TQ
  BY DEF LQ, WQ, SL, TQ

(* A freshly initialised mutex and condition satisfy the invariant.        *)
LEMMA InitCondInv == CondInit => CondInv
<1> SUFFICES ASSUME CondInit PROVE CondInv
  OBVIOUS
<1>1. << >> \in Seq(Fibers) /\ Elems(<< >>) = {} /\ NoDup(<< >>)
  BY DEF Elems, NoDup
<1>2. LQ = {} /\ WQ = {} /\ SL = {} /\ TQ = {}
  BY <1>1 DEF CondInit, Init, LQ, WQ, SL, TQ
<1>3. CondTypes
  BY <1>1 DEF CondInit, Init, CondTypes, CondPCs, PCs
<1>4. LinkedOnce
  BY <1>1, <1>2 DEF CondInit, Init, LinkedOnce
<1>5. Places
  BY <1>2 DEF CondInit, Init, Places, CallsLinked, TimersKept, SignalScope, WaitPCs
<1>6. Ownership
  BY DEF CondInit, Init, Ownership, OwnerIs, NobodyElse, FreeIsFree, SavedOne,
         Unlocks, Given, WaitPCs
<1> QED BY <1>3, <1>4, <1>5, <1>6 DEF CondInit, CondInv, Places, Ownership, FaultWindow

(* melon_mutex_lock keeps the invariant.                                   *)
LEMMA MutexLockInv ==
  ASSUME CondInv, Recursive = FALSE, NEW f \in Fibers, MutexLock(f), fault = "none",
         saved' = [saved EXCEPT ![f] = 1],
         UNCHANGED <<wait_queue, signaller, list, left, fault>>
  PROVE  CondInv'
<1> USE DEF CondInv
<1>0. /\ pc[f] = "run" /\ f \notin LQ \cup WQ \cup SL \cup TQ \cup ready
      /\ timer' = [timer EXCEPT ![f] = 0]
      /\ WQ' = WQ /\ SL' = SL /\ TQ' = TQ
      /\ UNCHANGED <<timer_queue, now, ready, timedout, glock>>
  BY SameQueues DEF MutexLock, CallsLinked, TimersKept, WaitPCs
<1>1. CASE owner = NULL
  <2>1. /\ owner' = f /\ lock_count' = 1 /\ held' = [held EXCEPT ![f] = 1]
        /\ UNCHANGED <<lock_queue, pc>> /\ LQ' = LQ
    BY <1>1, SameQueues DEF MutexLock
  <2> USE <1>0, <1>1, <2>1
  <2>2. CondTypes'
    BY DEF CondTypes
  <2>3. LinkedOnce'
    BY DEF LinkedOnce
  <2>4. Places'
    BY DEF Places, CallsLinked, TimersKept, SignalScope, CondTypes
  <2>5. Ownership'
    <3>1. OwnerIs'
      BY DEF OwnerIs, NobodyElse, Unlocks, Given, CondTypes
    <3>2. NobodyElse'
      BY DEF NobodyElse, Unlocks, Given, CondTypes
    <3>3. FreeIsFree' /\ SavedOne'
      BY DEF FreeIsFree, SavedOne, CondTypes, WaitPCs
    <3> QED BY <3>1, <3>2, <3>3 DEF Ownership
  <2> QED BY <2>2, <2>3, <2>4, <2>5 DEF Places, Ownership, FaultWindow
<1>2. CASE owner \notin {NULL, f}
  <2>1. /\ Enqueue(f) /\ pc' = [pc EXCEPT ![f] = "locking"]
        /\ UNCHANGED <<owner, lock_count, held>>
    BY <1>2 DEF MutexLock, Goto
  <2>2. lock_queue' \in Seq(Fibers) /\ NoDup(lock_queue') /\ LQ' = LQ \cup {f}
    BY <1>0, <2>1, EnqueueElems
  <2> USE <1>0, <1>2, <2>1, <2>2
  <2>3. CondTypes'
    BY DEF CondTypes, CondPCs, PCs
  <2>4. LinkedOnce'
    BY DEF LinkedOnce
  <2>5. CallsLinked'
    BY DEF CallsLinked, CondTypes, WaitPCs
  <2>6. TimersKept'
    BY DEF TimersKept, CondTypes
  <2>7. SignalScope'
    BY DEF SignalScope, CondTypes
  <2>8. Ownership'
    <3>1. OwnerIs'
      BY DEF OwnerIs, NobodyElse, Unlocks, Given, CondTypes
    <3>2. NobodyElse'
      BY DEF NobodyElse, Unlocks, Given, CondTypes
    <3>3. FreeIsFree' /\ SavedOne'
      BY DEF FreeIsFree, SavedOne, CondTypes, WaitPCs
    <3> QED BY <3>1, <3>2, <3>3 DEF Ownership
  <2> QED BY <2>3, <2>4, <2>5, <2>6, <2>7, <2>8 DEF Places, Ownership, FaultWindow
<1> QED BY <1>1, <1>2 DEF MutexLock

(* melon_mutex_trylock takes the mutex when it is free.                    *)
LEMMA TryLockInv ==
  ASSUME CondInv, Recursive = FALSE, NEW f \in Fibers, TryLock(f), fault = "none",
         UNCHANGED condVars
  PROVE  CondInv'
<1> USE DEF CondInv
<1>1. /\ pc[f] = "run" /\ owner = NULL /\ owner' = f /\ lock_count' = lock_count + 1
      /\ held' = [held EXCEPT ![f] = @ + 1]
      /\ LQ' = LQ /\ WQ' = WQ /\ SL' = SL /\ TQ' = TQ
      /\ UNCHANGED <<lock_queue, timer, timer_queue, now, pc, ready, timedout, glock>>
      /\ UNCHANGED <<wait_queue, saved, signaller, list, left, fault>>
  BY SameQueues DEF TryLock, TryLockTakes, condVars
<1> USE <1>1
<1>2. CondTypes'
  BY DEF CondTypes
<1>3. LinkedOnce'
  BY DEF LinkedOnce
<1>4. Places'
  BY DEF Places, CallsLinked, TimersKept, SignalScope
<1>5. lock_count = 0 /\ held[f] = 0 /\ f \notin ready
  BY DEF FreeIsFree, NobodyElse, CallsLinked
<1>6. lock_count' = 1 /\ held'[f] = 1 /\ \A g \in Fibers \ {f} : held'[g] = held[g]
  BY <1>5 DEF CondTypes
<1>7. Ownership'
  BY <1>5, <1>6 DEF Ownership, OwnerIs, NobodyElse, FreeIsFree, SavedOne, Unlocks,
         Given, CondTypes, WaitPCs
<1> QED BY <1>2, <1>3, <1>4, <1>7 DEF Places, Ownership, FaultWindow

(* The trylock of melon_mutex_timedlock that fails changes nothing.        *)
LEMMA TimedLockInv ==
  ASSUME CondInv, NEW f \in Fibers, TimedLock(f), fault = "none", UNCHANGED condVars
  PROVE  CondInv'
<1> USE DEF CondInv
<1>1. /\ pc[f] = "run" /\ pc' = [pc EXCEPT ![f] = "timedlock"]
      /\ LQ' = LQ /\ WQ' = WQ /\ SL' = SL /\ TQ' = TQ
      /\ UNCHANGED <<owner, lock_queue, lock_count, timer, timer_queue, now, ready,
                     timedout, glock, held>>
      /\ UNCHANGED <<wait_queue, saved, signaller, list, left, fault>>
  BY SameQueues DEF TimedLock, Goto, condVars
<1> USE <1>1
<1>2. CondTypes'
  BY DEF CondTypes, CondPCs, PCs
<1>3. LinkedOnce'
  BY DEF LinkedOnce
<1>4. Places'
  BY DEF Places, CallsLinked, TimersKept, SignalScope, CondTypes, WaitPCs
<1>5. Ownership'
  <2>1. OwnerIs'
    BY DEF OwnerIs, NobodyElse, Unlocks, Given, CondTypes
  <2>2. NobodyElse'
    BY DEF NobodyElse, Unlocks, Given, CondTypes
  <2>3. FreeIsFree' /\ SavedOne'
    BY DEF FreeIsFree, SavedOne, CondTypes, WaitPCs
  <2> QED BY <2>1, <2>2, <2>3 DEF Ownership
<1> QED BY <1>2, <1>3, <1>4, <1>5 DEF Places, Ownership, FaultWindow

(* The rest of melon_mutex_timedlock takes the mutex or waits for it.      *)
LEMMA TimedLockEnqueueInv ==
  ASSUME CondInv, NEW f \in Fibers, NEW t \in Timeouts, TimedLockEnqueue(f, t),
         fault = "none", UNCHANGED condVars
  PROVE  CondInv'
<1> USE DEF CondInv
<1>0. /\ pc[f] = "timedlock" /\ f \notin LQ \cup WQ \cup SL \cup TQ \cup ready
      /\ WQ' = WQ /\ SL' = SL /\ UNCHANGED <<now, ready, glock>>
      /\ UNCHANGED <<wait_queue, saved, signaller, list, left, fault>>
  BY SameQueues DEF TimedLockEnqueue, CallsLinked, TimersKept, WaitPCs, condVars
<1>1. CASE owner = NULL
  <2>1. /\ owner' = f /\ lock_count' = lock_count + 1
        /\ held' = [held EXCEPT ![f] = @ + 1] /\ pc' = [pc EXCEPT ![f] = "run"]
        /\ UNCHANGED <<lock_queue, timer, timer_queue, timedout>>
        /\ LQ' = LQ /\ TQ' = TQ
    BY <1>1, SameQueues DEF TimedLockEnqueue, TimedLockRecheck, Goto
  <2> USE <1>0, <1>1, <2>1
  <2>2. CondTypes'
    BY DEF CondTypes, CondPCs, PCs
  <2>3. LinkedOnce'
    BY DEF LinkedOnce
  <2>4. Places'
    BY DEF Places, CallsLinked, TimersKept, SignalScope, CondTypes, WaitPCs
  <2>5. lock_count = 0 /\ held[f] = 0
    BY DEF FreeIsFree, NobodyElse
  <2>6. lock_count' = 1 /\ held'[f] = 1 /\ \A g \in Fibers \ {f} : held'[g] = held[g]
    BY <2>5 DEF CondTypes
  <2>7. Ownership'
    <3>1. OwnerIs'
      BY <2>6 DEF OwnerIs, NobodyElse, Unlocks, Given, CondTypes
    <3>2. NobodyElse'
      BY <2>6 DEF NobodyElse, Unlocks, Given, CondTypes
    <3>3. FreeIsFree' /\ SavedOne'
      BY <2>6 DEF FreeIsFree, SavedOne, CondTypes, WaitPCs
    <3> QED BY <3>1, <3>2, <3>3 DEF Ownership
  <2> QED BY <2>2, <2>3, <2>4, <2>7 DEF Places, Ownership, FaultWindow
<1>2. CASE owner # NULL
  <2>1. /\ Enqueue(f) /\ timer' = [timer EXCEPT ![f] = t]
        /\ timer_queue' = TimerInsert(timer_queue, timer', f)
        /\ timedout' = timedout \ {f} /\ pc' = [pc EXCEPT ![f] = "locking"]
        /\ UNCHANGED <<owner, lock_count, held>>
    BY <1>2 DEF TimedLockEnqueue, TimedLockRecheck, Goto
  <2>2. lock_queue' \in Seq(Fibers) /\ NoDup(lock_queue') /\ LQ' = LQ \cup {f}
    BY <1>0, <2>1, EnqueueElems
  <2>3. t \in Nat /\ t > 0
    OBVIOUS
  <2>4. timer_queue' \in Seq(Fibers) /\ NoDup(timer_queue') /\ TQ' = TQ \cup {f}
    BY <1>0, <2>1, <2>3, TimerElems
  <2>5. /\ timer' \in [Fibers -> Nat] /\ timer'[f] > 0
        /\ \A g \in Fibers \ {f} : timer'[g] = timer[g]
    BY <2>1, <2>3 DEF CondTypes
  <2> USE <1>0, <1>2, <2>2, <2>4, <2>5
  <2>6. /\ timedout' = timedout \ {f} /\ pc' = [pc EXCEPT ![f] = "locking"]
        /\ UNCHANGED <<owner, lock_count, held>>
    BY <2>1
  <2>7. CondTypes'
    BY <2>6 DEF CondTypes, CondPCs, PCs
  <2>8. LinkedOnce'
    BY DEF LinkedOnce
  <2>9. Places'
    BY <2>6 DEF Places, CallsLinked, TimersKept, SignalScope, CondTypes, WaitPCs
  <2>10. Ownership'
    <3>1. OwnerIs'
      BY <2>6 DEF OwnerIs, NobodyElse, Unlocks, Given, CondTypes
    <3>2. NobodyElse'
      BY <2>6 DEF NobodyElse, Unlocks, Given, CondTypes
    <3>3. FreeIsFree' /\ SavedOne'
      BY <2>6 DEF FreeIsFree, SavedOne, CondTypes, WaitPCs
    <3> QED BY <3>1, <3>2, <3>3 DEF Ownership
  <2> QED BY <2>7, <2>8, <2>9, <2>10 DEF Places, Ownership, FaultWindow
<1> QED BY <1>1, <1>2

(* The count drops: the last unlock leaves the owner with nothing held.    *)
LEMMA UnlockInv ==
  ASSUME CondInv, NEW f \in Fibers, Unlock(f), fault = "none", UNCHANGED condVars
  PROVE  CondInv'
<1> USE DEF CondInv
<1>1. /\ pc[f] = "run" /\ held[f] > 0
      /\ LQ' = LQ /\ WQ' = WQ /\ SL' = SL /\ TQ' = TQ
      /\ UNCHANGED <<owner, lock_queue, timer, timer_queue, now, ready, timedout, glock>>
      /\ UNCHANGED <<wait_queue, saved, signaller, list, left, fault>>
  BY SameQueues DEF Unlock, condVars
<1>2. owner = f /\ lock_count = 1 /\ held[f] = 1 /\ f \notin ready
  <2>1. f \notin ready
    BY <1>1 DEF CallsLinked
  <2>2. held[f] # 0
    BY <1>1 DEF CondTypes
  <2>3. owner = f
    BY <2>2 DEF NobodyElse
  <2> QED BY <2>1, <2>2, <2>3 DEF OwnerIs
<1>3. /\ lock_count' = 0 /\ held' = [held EXCEPT ![f] = 0]
      /\ pc' = [pc EXCEPT ![f] = "unlocking"]
  BY <1>1, <1>2 DEF Unlock, Goto, CondTypes
<1> USE <1>1, <1>2, <1>3
<1>4. CondTypes'
  BY DEF CondTypes, CondPCs, PCs
<1>5. LinkedOnce'
  BY DEF LinkedOnce
<1>6. Places'
  BY DEF Places, CallsLinked, TimersKept, SignalScope, CondTypes, WaitPCs
<1>7. Ownership'
  <2>1. OwnerIs'
    BY DEF OwnerIs, NobodyElse, Unlocks, Given, CondTypes
  <2>2. NobodyElse'
    BY DEF NobodyElse, Unlocks, Given, CondTypes
  <2>3. FreeIsFree' /\ SavedOne'
    BY DEF FreeIsFree, SavedOne, CondTypes, WaitPCs
  <2> QED BY <2>1, <2>2, <2>3 DEF Ownership
<1> QED BY <1>4, <1>5, <1>6, <1>7 DEF Places, Ownership, FaultWindow

(* The two uses of the unlock code: melon_mutex_unlock itself, and the     *)
(* unlock inside melon_cond_wait.                                          *)
UnlockPlaces(from, busy, done) ==
  \/ from = "unlocking" /\ busy = "handoff" /\ done = "run"
  \/ from = "wait_check" /\ busy = "wait_handoff" /\ done = "waiting"

(* The fiber in an unlock owns the mutex and is not picked up by anybody.  *)
LEMMA UnlockerOwns ==
  ASSUME CondInv, NEW f \in Fibers, Unlocks(f)
  PROVE  /\ owner = f /\ lock_count = 0 /\ held[f] = 0
         /\ f \notin LQ \cup ready \cup timedout
  BY DEF CondInv, OwnerIs, NobodyElse, CallsLinked, TimersKept, Unlocks, Given

(* Under the spinlock the queue is looked at for the first time.           *)
LEMMA UnlockCheckInv ==
  ASSUME CondInv, NEW f \in Fibers, NEW from, NEW busy, NEW done,
         UnlockPlaces(from, busy, done),
         UnlockCheck(f, from, busy, done), fault = "none", UNCHANGED condVars
  PROVE  CondInv'
<1> USE DEF CondInv
<1>1. /\ pc[f] = from
      /\ LQ' = LQ /\ WQ' = WQ /\ SL' = SL /\ TQ' = TQ
      /\ UNCHANGED <<lock_queue, lock_count, timer, timer_queue, now, ready, timedout,
                     glock, held>>
      /\ UNCHANGED <<wait_queue, saved, signaller, list, left, fault>>
      /\ \/ lock_queue = << >> /\ owner' = NULL /\ pc' = [pc EXCEPT ![f] = done]
         \/ owner' = owner /\ pc' = [pc EXCEPT ![f] = busy]
  BY SameQueues DEF UnlockCheck, Goto, condVars
<1>2. /\ owner = f /\ lock_count = 0 /\ held[f] = 0
      /\ f \notin LQ \cup ready \cup timedout
  BY <1>1, UnlockerOwns DEF UnlockPlaces, Unlocks
<1> USE <1>1, <1>2 DEF UnlockPlaces
<1>3. CondTypes'
  BY DEF CondTypes, CondPCs, PCs, WaitPCs
<1>4. LinkedOnce'
  BY DEF LinkedOnce
<1>5. CallsLinked'
  BY DEF CallsLinked, CondTypes, WaitPCs
<1>6. TimersKept' /\ SignalScope'
  BY DEF TimersKept, SignalScope, CondTypes
<1>7. Ownership'
  <2>1. OwnerIs'
    BY DEF OwnerIs, NobodyElse, Unlocks, Given, CondTypes
  <2>2. NobodyElse'
    BY DEF NobodyElse, Unlocks, Given, CondTypes
  <2>3. FreeIsFree' /\ SavedOne'
    BY DEF FreeIsFree, SavedOne, CondTypes, WaitPCs
  <2> QED BY <2>1, <2>2, <2>3 DEF Ownership
<1> QED BY <1>3, <1>4, <1>5, <1>6, <1>7 DEF Places, Ownership, FaultWindow

(* Under g_melon.lock the mutex goes to the head of the queue, or is free. *)
LEMMA UnlockHandoffInv ==
  ASSUME CondInv, NEW f \in Fibers, NEW from, NEW busy, NEW done,
         UnlockPlaces(from, busy, done),
         UnlockHandoff(f, busy, done), fault = "none", UNCHANGED condVars
  PROVE  CondInv'
<1> USE DEF CondInv
<1>1. /\ pc[f] = busy /\ pc' = [pc EXCEPT ![f] = done] /\ glock = "free"
      /\ WQ' = WQ /\ SL' = SL
      /\ UNCHANGED <<timer, now, timedout, glock, held>>
      /\ UNCHANGED <<wait_queue, saved, signaller, list, left, fault>>
  BY SameQueues DEF UnlockHandoff, Goto, condVars
<1>2. /\ owner = f /\ lock_count = 0 /\ held[f] = 0
      /\ f \notin LQ \cup ready \cup timedout
  BY <1>1, UnlockerOwns DEF UnlockPlaces, Unlocks
<1>3. done = "run" \/ (done = "waiting" /\ pc[f] = "wait_handoff")
  BY <1>1 DEF UnlockPlaces
<1>4. pc[f] \in {"handoff", "wait_handoff"}
  BY <1>1 DEF UnlockPlaces
<1>5. done = "run" => pc[f] = "handoff"
  BY <1>1 DEF UnlockPlaces
<1> USE <1>1, <1>2, <1>3, <1>4, <1>5
<1>6. CASE lock_queue = << >>
  <2>1. /\ owner' = NULL /\ LQ' = LQ /\ TQ' = TQ
        /\ UNCHANGED <<lock_queue, lock_count, timer_queue, ready>>
    BY <1>6, SameQueues DEF UnlockHandoff
  <2> USE <1>6, <2>1
  <2>2. CondTypes'
    BY DEF CondTypes, CondPCs, PCs, WaitPCs
  <2>3. LinkedOnce'
    BY DEF LinkedOnce
  <2>4. CallsLinked'
    BY DEF CallsLinked, CondTypes, WaitPCs
  <2>5. TimersKept' /\ SignalScope'
    BY DEF TimersKept, SignalScope, CondTypes
  <2>6. Ownership'
    <3>1. OwnerIs'
      BY DEF OwnerIs, NobodyElse, Unlocks, Given, CondTypes
    <3>2. NobodyElse'
      BY DEF NobodyElse, Unlocks, Given, CondTypes
    <3>3. FreeIsFree' /\ SavedOne'
      BY DEF FreeIsFree, SavedOne, CondTypes, WaitPCs
    <3> QED BY <3>1, <3>2, <3>3 DEF Ownership
  <2> QED BY <2>2, <2>3, <2>4, <2>5, <2>6 DEF Places, Ownership, FaultWindow
<1>7. CASE lock_queue # << >>
  <2> DEFINE h == Head(lock_queue)
  <2>1. /\ owner' = h /\ lock_queue' = Tail(lock_queue) /\ lock_count' = 1
        /\ timer_queue' = IF timer[h] > 0 THEN DlistUnlink(timer_queue, h) ELSE timer_queue
        /\ ready' = ready \cup {h}
    BY <1>7 DEF UnlockHandoff, HandoffTimer
  <2>2. h \in LQ /\ h \in Fibers
    BY <1>7, QueueFacts
  <2>4. lock_queue' \in Seq(Fibers) /\ NoDup(lock_queue') /\ LQ' = LQ \ {h}
    BY <1>7, <2>1, PopElems DEF LQ, CondTypes, LinkedOnce
  <2> HIDE DEF h
  <2>3. /\ h # f /\ h \notin ready \cup WQ \cup SL /\ held[h] = 0
        /\ (pc[h] = "locking" => h \notin timedout)
        /\ pc[h] \in {"locking", "waiting"} /\ (timer[h] > 0 => h \in TQ)
    <3>1. h # f /\ h \notin ready /\ h \notin WQ \cup SL
      BY <2>2 DEF LinkedOnce
    <3>2. pc[h] \in {"locking", "waiting"}
      BY <2>2 DEF CallsLinked
    <3>3. (timer[h] > 0 => h \in TQ) /\ held[h] = 0
      BY <2>2, <3>1 DEF TimersKept, NobodyElse
    <3>4. pc[h] = "locking" => h \notin timedout
      BY <2>2, <3>1, <3>2 DEF TimersKept
    <3> QED BY <3>1, <3>2, <3>3, <3>4
  <2>5. /\ timer_queue' \in Seq(Fibers) /\ NoDup(timer_queue')
        /\ TQ' = IF timer[h] > 0 THEN TQ \ {h} ELSE TQ
    BY <2>1, <2>2, <2>3, TimerRemoved
  <2>6. TQ' = TQ \ {h}
    BY <2>2, <2>5 DEF TimersKept
  <2> USE <1>7, <2>2, <2>3, <2>4, <2>6
  <2>7. owner' = h /\ lock_count' = 1 /\ ready' = ready \cup {h}
    BY <2>1
  <2>8. CondTypes'
    BY <2>5, <2>7 DEF CondTypes, CondPCs, PCs, WaitPCs
  <2>9. LinkedOnce'
    BY <2>5, <2>7 DEF LinkedOnce
  <2>10. CallsLinked'
    BY <2>7 DEF CallsLinked, CondTypes, WaitPCs
  <2>11. TimersKept' /\ SignalScope'
    BY <2>7 DEF TimersKept, SignalScope, CondTypes
  <2>12. Ownership'
    BY <2>7 DEF Ownership, OwnerIs, NobodyElse, FreeIsFree, SavedOne, Unlocks, Given,
           CondTypes, WaitPCs
  <2> QED BY <2>8, <2>9, <2>10, <2>11, <2>12 DEF Places, Ownership, FaultWindow
<1> QED BY <1>6, <1>7

(* The timer callback of melon_mutex_timedlock takes the fiber out of the  *)
(* lock queue, unless it has been given the mutex.                         *)
LEMMA TimerFireInv ==
  ASSUME CondInv, NEW f \in Fibers, pc[f] = "locking", TimerFire(f), fault = "none",
         UNCHANGED condVars
  PROVE  CondInv'
<1> USE DEF CondInv
<1>1. /\ glock \in {"free", "timer"} /\ glock' \in {"free", "timer"}
      /\ timer_queue # << >> /\ f = Head(timer_queue)
      /\ timer_queue' = DlistUnlink(timer_queue, f)
      /\ lock_queue' = DlistUnlink(lock_queue, f)
      /\ timedout' = timedout \cup {f} /\ ready' = ready \cup {f}
      /\ UNCHANGED <<owner, lock_count, timer, now, pc, held>>
      /\ UNCHANGED <<wait_queue, saved, signaller, list, left, fault>>
      /\ WQ' = WQ /\ SL' = SL
  BY SameQueues DEF TimerFire, TimerExpires, TimerDue, TimedLockCb, condVars
<1>2. f \in TQ /\ f \in LQ /\ f \notin WQ \cup SL \cup ready
  BY <1>1, QueueFacts DEF TimersKept, CallsLinked, LinkedOnce, WaitPCs
<1>3. timer_queue' \in Seq(Fibers) /\ NoDup(timer_queue') /\ TQ' = TQ \ {f}
  BY <1>1, <1>2, UnlinkElems DEF CondTypes, LinkedOnce, TQ
<1>4. lock_queue' \in Seq(Fibers) /\ NoDup(lock_queue') /\ LQ' = LQ \ {f}
  BY <1>1, <1>2, UnlinkElems DEF CondTypes, LinkedOnce, LQ
<1>5. owner # NULL
  BY <1>2, QueueFacts DEF FreeIsFree
<1>6. /\ glock \in {"free", "timer"} /\ glock' \in {"free", "timer"}
      /\ timedout' = timedout \cup {f} /\ ready' = ready \cup {f}
      /\ UNCHANGED <<owner, lock_count, timer, now, pc, held>>
      /\ UNCHANGED <<wait_queue, saved, signaller, list, left, fault>>
      /\ WQ' = WQ /\ SL' = SL
  BY <1>1
<1> USE <1>2, <1>3, <1>4, <1>5, <1>6
<1>7. CondTypes'
  BY DEF CondTypes
<1>8. LinkedOnce'
  BY DEF LinkedOnce
<1>9. CallsLinked'
  BY DEF CallsLinked, CondTypes, WaitPCs
<1>10. TimersKept' /\ SignalScope'
  BY DEF TimersKept, SignalScope, CondTypes
<1>11. Ownership'
  <2>1. OwnerIs'
    BY DEF OwnerIs, NobodyElse, Unlocks, Given, CondTypes
  <2>2. NobodyElse'
    BY DEF NobodyElse, Unlocks, Given, CondTypes
  <2>3. FreeIsFree' /\ SavedOne'
    BY DEF FreeIsFree, SavedOne, CondTypes, WaitPCs
  <2> QED BY <2>1, <2>2, <2>3 DEF Ownership
<1> QED BY <1>7, <1>8, <1>9, <1>10, <1>11 DEF Places, Ownership, FaultWindow

(* The fiber that waited for the mutex runs: with it, or too late.         *)
LEMMA ResumeInv ==
  ASSUME CondInv, NEW f \in Fibers, Resume(f), fault = "none", UNCHANGED condVars
  PROVE  CondInv'
<1> USE DEF CondInv
<1>1. /\ pc[f] = "locking" /\ f \in ready /\ ready' = ready \ {f}
      /\ pc' = [pc EXCEPT ![f] = "run"] /\ timedout' = timedout \ {f}
      /\ held' = IF f \in timedout THEN held ELSE [held EXCEPT ![f] = 1]
      /\ LQ' = LQ /\ WQ' = WQ /\ SL' = SL /\ TQ' = TQ
      /\ UNCHANGED <<owner, lock_queue, lock_count, timer, timer_queue, now, glock>>
      /\ UNCHANGED <<wait_queue, saved, signaller, list, left, fault>>
  BY SameQueues DEF Resume, Goto, condVars
<1>2. f \notin LQ \cup WQ \cup SL
  BY <1>1 DEF LinkedOnce
<1>3. f \notin timedout => owner = f /\ lock_count = 1
  BY <1>1 DEF NobodyElse, OwnerIs, Given, Unlocks
<1>4. /\ held' \in [Fibers -> Nat] /\ held'[f] = IF f \in timedout THEN held[f] ELSE 1
      /\ \A g \in Fibers \ {f} : held'[g] = held[g]
  BY <1>1 DEF CondTypes
<1>5. /\ pc[f] = "locking" /\ f \in ready /\ ready' = ready \ {f}
      /\ pc' = [pc EXCEPT ![f] = "run"] /\ timedout' = timedout \ {f}
      /\ LQ' = LQ /\ WQ' = WQ /\ SL' = SL /\ TQ' = TQ
      /\ UNCHANGED <<owner, lock_queue, lock_count, timer, timer_queue, now, glock>>
      /\ UNCHANGED <<wait_queue, saved, signaller, list, left, fault>>
  BY <1>1
<1> USE <1>2, <1>3, <1>4, <1>5
<1>6. CondTypes'
  BY DEF CondTypes, CondPCs, PCs
<1>7. LinkedOnce'
  BY DEF LinkedOnce
<1>8. CallsLinked'
  BY DEF CallsLinked, CondTypes, WaitPCs
<1>9. TimersKept' /\ SignalScope'
  BY DEF TimersKept, SignalScope, CondTypes
<1>10. Ownership'
  <2>1. OwnerIs'
    BY DEF OwnerIs, NobodyElse, Unlocks, Given, CondTypes
  <2>2. NobodyElse'
    BY DEF NobodyElse, Unlocks, Given, CondTypes
  <2>3. FreeIsFree' /\ SavedOne'
    BY DEF FreeIsFree, SavedOne, CondTypes, WaitPCs
  <2> QED BY <2>1, <2>2, <2>3 DEF Ownership
<1> QED BY <1>6, <1>7, <1>8, <1>9, <1>10 DEF Places, Ownership, FaultWindow

(* The first half of a wait, whatever its deadline: the holder joins the   *)
(* wait queue and has nothing any more, but still owns the mutex.          *)
LEMMA StartWaitInv ==
  ASSUME CondInv, NEW f \in Fibers, StartWait(f), fault = "none", NEW t \in Nat,
         timer' = [timer EXCEPT ![f] = t], timedout' \in {timedout, timedout \ {f}},
         timer_queue' \in Seq(Fibers), NoDup(timer_queue'),
         TQ' = IF t > 0 THEN TQ \cup {f} ELSE TQ
  PROVE  CondInv'
<1> USE DEF CondInv
<1>1. /\ pc[f] = "run" /\ held[f] > 0 /\ glock # "signal"
      /\ saved' = [saved EXCEPT ![f] = lock_count]
      /\ wait_queue' = DlistPush(wait_queue, f)
      /\ lock_count' = 0 /\ held' = [held EXCEPT ![f] = 0]
      /\ pc' = [pc EXCEPT ![f] = "wait_check"]
      /\ UNCHANGED <<owner, lock_queue, now, ready, glock, signaller, list, left, fault>>
      /\ LQ' = LQ /\ SL' = SL
  BY SameQueues DEF StartWait, Goto, CondUnlocked
<1>2. f \notin LQ \cup WQ \cup SL \cup TQ \cup ready \cup timedout
  BY <1>1 DEF CallsLinked, TimersKept, WaitPCs
<1>3. owner = f /\ lock_count = 1
  <2>1. held[f] # 0
    BY <1>1 DEF CondTypes
  <2>2. owner = f
    BY <2>1 DEF NobodyElse
  <2> QED BY <1>1, <2>1, <2>2 DEF OwnerIs
<1>4. wait_queue' \in Seq(Fibers) /\ NoDup(wait_queue') /\ WQ' = WQ \cup {f}
  BY <1>1, <1>2, PushElems DEF CondTypes, LinkedOnce, WQ
<1>5. /\ timer' \in [Fibers -> Nat] /\ timer'[f] = t /\ timedout' = timedout
      /\ \A g \in Fibers \ {f} : timer'[g] = timer[g]
  <2>1. timedout' = timedout
    <3>1. timedout \ {f} = timedout
      BY <1>2
    <3> QED BY <3>1
  <2> QED BY <2>1 DEF CondTypes
<1>6. /\ saved' \in [Fibers -> Nat] /\ saved'[f] = 1
      /\ \A g \in Fibers \ {f} : saved'[g] = saved[g]
  BY <1>1, <1>3 DEF CondTypes
<1>7. /\ pc[f] = "run" /\ glock # "signal"
      /\ lock_count' = 0 /\ held' = [held EXCEPT ![f] = 0]
      /\ pc' = [pc EXCEPT ![f] = "wait_check"]
      /\ UNCHANGED <<owner, lock_queue, now, ready, glock, signaller, list, left, fault>>
      /\ LQ' = LQ /\ SL' = SL
  BY <1>1
<1> USE <1>2, <1>3, <1>4, <1>5, <1>6, <1>7
<1>8. CondTypes'
  BY DEF CondTypes, CondPCs, WaitPCs
<1>9. LinkedOnce'
  BY DEF LinkedOnce
<1>10. CallsLinked'
  BY DEF CallsLinked, CondTypes, WaitPCs
<1>11. TimersKept' /\ SignalScope'
  BY DEF TimersKept, SignalScope, CondTypes
<1>12. Ownership'
  <2>1. OwnerIs'
    BY DEF OwnerIs, NobodyElse, Unlocks, Given, CondTypes
  <2>2. NobodyElse'
    BY DEF NobodyElse, Unlocks, Given, CondTypes
  <2>3. FreeIsFree' /\ SavedOne'
    BY DEF FreeIsFree, SavedOne, CondTypes, WaitPCs
  <2> QED BY <2>1, <2>2, <2>3 DEF Ownership
<1> QED BY <1>8, <1>9, <1>10, <1>11, <1>12 DEF Places, Ownership, FaultWindow

(* melon_cond_wait starts.                                                 *)
LEMMA CondWaitInv ==
  ASSUME CondInv, NEW f \in Fibers, CondWait(f), fault = "none"
  PROVE  CondInv'
<1>1. /\ StartWait(f) /\ timer' = [timer EXCEPT ![f] = 0]
      /\ timedout' = timedout /\ timer_queue' = timer_queue /\ TQ' = TQ
  BY SameQueues DEF CondWait
<1>2. timer_queue' \in Seq(Fibers) /\ NoDup(timer_queue')
  BY <1>1 DEF CondInv, CondTypes, LinkedOnce
<1>3. 0 \in Nat /\ TQ' = (IF 0 > 0 THEN TQ \cup {f} ELSE TQ)
      /\ timedout' \in {timedout, timedout \ {f}}
  BY <1>1
<1> QED BY <1>1, <1>2, <1>3, StartWaitInv

(* melon_cond_timedwait starts.                                            *)
LEMMA CondTimedWaitInv ==
  ASSUME CondInv, NEW f \in Fibers, NEW t \in WaitTimeouts, CondTimedWait(f, t),
         fault = "none"
  PROVE  CondInv'
<1>1. /\ StartWait(f) /\ timer' = [timer EXCEPT ![f] = t]
      /\ timedout' = timedout \ {f}
      /\ timer_queue' = TimerInsert(timer_queue, timer', f)
  BY DEF CondTimedWait
<1>2. t \in Nat /\ t > 0
  OBVIOUS
<1>3. f \notin TQ
  BY <1>1 DEF StartWait, CondInv, CallsLinked, TimersKept, WaitPCs
<1>4. timer_queue' \in Seq(Fibers) /\ NoDup(timer_queue') /\ TQ' = TQ \cup {f}
  BY <1>1, <1>2, <1>3, TimerElems
<1> QED BY <1>1, <1>2, <1>4, StartWaitInv

(* melon_cond_signalnb takes the wait queue.                               *)
LEMMA SignalInv ==
  ASSUME CondInv, NEW f \in Fibers, Signal(f, 0), fault = "none" PROVE CondInv'
<1> USE DEF CondInv
<1>1. /\ pc[f] = "run" /\ pc' = [pc EXCEPT ![f] = "signalling"]
      /\ glock = "free" /\ glock' = "signal" /\ signaller' = f
      /\ list' = wait_queue /\ wait_queue' = << >> /\ left' = 0
      /\ UNCHANGED <<owner, lock_queue, lock_count, timer, timer_queue, now, ready,
                     timedout, held, saved, fault>>
      /\ LQ' = LQ /\ TQ' = TQ
  BY SameQueues DEF Signal, TakeWaiters, Goto
<1>2. SL' = WQ /\ WQ' = {} /\ SL = {} /\ NoDup(<< >>) /\ << >> \in Seq(Fibers)
  BY <1>1, EmptyElems, QueueFacts DEF SL, WQ, SignalScope, CondTypes
<1> USE <1>1, <1>2
<1>3. CondTypes'
  BY DEF CondTypes, CondPCs
<1>4. LinkedOnce'
  BY DEF LinkedOnce
<1>5. CallsLinked'
  BY DEF CallsLinked, CondTypes, WaitPCs
<1>6. TimersKept' /\ SignalScope'
  BY DEF TimersKept, SignalScope, CondTypes
<1>7. Ownership'
  <2>1. OwnerIs'
    BY DEF OwnerIs, NobodyElse, Unlocks, Given, CondTypes
  <2>2. NobodyElse'
    BY DEF NobodyElse, Unlocks, Given, CondTypes
  <2>3. FreeIsFree' /\ SavedOne'
    BY DEF FreeIsFree, SavedOne, CondTypes, WaitPCs
  <2> QED BY <2>1, <2>2, <2>3 DEF Ownership
<1> QED BY <1>3, <1>4, <1>5, <1>6, <1>7 DEF Places, Ownership, FaultWindow

(* melon_mutex_lock2 for a fiber that leaves the condition, because it is  *)
(* signalled or its deadline has passed: it is past the unlock of its own  *)
(* wait, and is moved to the lock queue or given the mutex.                *)
LEMMA Lock2Inv ==
  ASSUME CondInv, NEW f \in Fibers, f \in WQ \cup SL, Lock2(f), fault = "none",
         wait_queue' \in Seq(Fibers), NoDup(wait_queue'), WQ' = WQ \ {f},
         list' \in Seq(Fibers), NoDup(list'), SL' = SL \ {f},
         timer_queue' \in Seq(Fibers), NoDup(timer_queue'), TQ' = TQ \ {f},
         timedout' \in {timedout, timedout \cup {f}},
         \/ glock' = glock
         \/ {glock, glock'} \subseteq {"free", "timer"} /\ list' = << >>,
         UNCHANGED <<now, pc, held, saved, signaller, left, fault>>
  PROVE  CondInv'
<1> USE DEF CondInv
<1>1. /\ owner # f /\ f \notin LQ \cup ready /\ pc[f] \in WaitPCs
      /\ timer' = [timer EXCEPT ![f] = 0]
  BY DEF Lock2, LinkedOnce, CallsLinked
<1>2. pc[f] = "waiting" /\ saved[f] = 1 /\ held[f] = 0
  BY <1>1 DEF NobodyElse, Unlocks, SavedOne, WaitPCs
<1>3. /\ timer' \in [Fibers -> Nat] /\ timer'[f] = 0
      /\ \A g \in Fibers \ {f} : timer'[g] = timer[g]
  BY <1>1 DEF CondTypes
<1>4. SignalScope'
  <2>1. glock' # "signal" => list' = << >>
    BY QueueFacts, EmptyElems DEF SignalScope, SL
  <2> QED BY <2>1 DEF SignalScope
<1>5. CASE owner = NULL
  <2>1. /\ owner' = f /\ lock_count' = 1 /\ ready' = ready \cup {f}
        /\ lock_queue' = lock_queue /\ LQ' = LQ
    BY <1>2, <1>5, SameQueues DEF Lock2, Lock2Takes
  <2> USE <1>1, <1>2, <1>3, <1>5, <2>1
  <2>2. CondTypes'
    BY DEF CondTypes
  <2>3. LinkedOnce'
    BY DEF LinkedOnce
  <2>4. CallsLinked'
    BY DEF CallsLinked, WaitPCs
  <2>5. TimersKept'
    BY DEF TimersKept
  <2>6. Ownership'
    BY DEF Ownership, OwnerIs, NobodyElse, FreeIsFree, SavedOne, Unlocks, Given
  <2> QED BY <1>4, <2>2, <2>3, <2>4, <2>5, <2>6 DEF Ownership, FaultWindow
<1>6. CASE owner # NULL
  <2>1. Enqueue(f) /\ UNCHANGED <<owner, lock_count, ready>>
    BY <1>6 DEF Lock2
  <2>2. lock_queue' \in Seq(Fibers) /\ NoDup(lock_queue') /\ LQ' = LQ \cup {f}
    BY <1>1, <2>1, EnqueueElems
  <2> USE <1>1, <1>2, <1>3, <1>6, <2>1, <2>2
  <2>3. CondTypes'
    BY DEF CondTypes
  <2>4. LinkedOnce'
    BY DEF LinkedOnce
  <2>5. CallsLinked'
    BY DEF CallsLinked, WaitPCs
  <2>6. TimersKept'
    BY DEF TimersKept
  <2>7. Ownership'
    BY DEF Ownership, OwnerIs, NobodyElse, FreeIsFree, SavedOne, Unlocks, Given
  <2> QED BY <1>4, <2>3, <2>4, <2>5, <2>6, <2>7 DEF Ownership, FaultWindow
<1> QED BY <1>5, <1>6

(* One round of the signaller's loop.                                      *)
LEMMA SignalWakesInv ==
  ASSUME CondInv, NEW f \in Fibers, SignalWakes(f), fault = "none" PROVE CondInv'
<1> USE DEF CondInv
<1>1. /\ glock = "signal" /\ list # << >> /\ f = Head(list) /\ list' = Tail(list)
      /\ timer_queue' = IF timer[f] > 0 THEN DlistUnlink(timer_queue, f) ELSE timer_queue
      /\ Lock2(f) /\ UNCHANGED <<now, timedout, held, wait_queue, saved, fault>>
      /\ WQ' = WQ
  BY SameQueues DEF SignalWakes, SignalTimer
<1>2. UNCHANGED <<glock, pc, signaller, left>>
  BY DEF SignalWakes, CondTypes
<1>3. f \in SL /\ f \notin WQ /\ wait_queue' \in Seq(Fibers) /\ NoDup(wait_queue')
  BY <1>1, QueueFacts DEF LinkedOnce, CondTypes
<1>4. list' \in Seq(Fibers) /\ NoDup(list') /\ SL' = SL \ {f}
  BY <1>1, PopElems DEF CondTypes, LinkedOnce, SL
<1>5. (timer[f] > 0 <=> f \in TQ)
  BY <1>3 DEF TimersKept
<1>6. timer_queue' \in Seq(Fibers) /\ NoDup(timer_queue') /\ TQ' = TQ \ {f}
  BY <1>1, <1>5, TimerRemoved
<1>7. WQ' = WQ \ {f}
  BY <1>1, <1>3
<1> QED BY <1>1, <1>2, <1>3, <1>4, <1>6, <1>7, Lock2Inv

(* The timer callback of melon_cond_timedwait.                             *)
LEMMA CondTimerFireInv ==
  ASSUME CondInv, NEW f \in Fibers, CondTimerFire(f), fault = "none" PROVE CondInv'
<1> USE DEF CondInv
<1>1. /\ glock \in {"free", "timer"} /\ glock' \in {"free", "timer"}
      /\ timer_queue # << >> /\ f = Head(timer_queue)
      /\ timer_queue' = DlistUnlink(timer_queue, f)
      /\ pc[f] \in WaitPCs /\ wait_queue' = DlistUnlink(wait_queue, f)
      /\ timedout' = timedout \cup {f} /\ Lock2(f) /\ SL' = SL
      /\ UNCHANGED <<now, pc, held, saved, signaller, list, left, fault>>
  BY SameQueues DEF CondTimerFire, TimerExpires, TimerDue
<1>2. list = << >> /\ SL = {} /\ f \in TQ
  BY <1>1, QueueFacts DEF SignalScope
<1>3. f \in WQ
  BY <1>1, <1>2 DEF TimersKept, CallsLinked, WaitPCs
<1>4. wait_queue' \in Seq(Fibers) /\ NoDup(wait_queue') /\ WQ' = WQ \ {f}
  BY <1>1, <1>3, UnlinkElems DEF CondTypes, LinkedOnce, WQ
<1>5. timer_queue' \in Seq(Fibers) /\ NoDup(timer_queue') /\ TQ' = TQ \ {f}
  BY <1>1, <1>2, UnlinkElems DEF CondTypes, LinkedOnce, TQ
<1>6. list' \in Seq(Fibers) /\ NoDup(list') /\ SL' = SL \ {f} /\ list' = << >>
  BY <1>1, <1>2 DEF CondTypes, LinkedOnce
<1>7. {glock, glock'} \subseteq {"free", "timer"}
  BY <1>1
<1> QED BY <1>1, <1>3, <1>4, <1>5, <1>6, <1>7, Lock2Inv

(* A step that changes nothing but fault.                                  *)
LEMMA StillInv ==
  ASSUME CondInv, UNCHANGED <<vars, wait_queue, saved, signaller, list, left>>,
         FaultWindow'
  PROVE  CondInv'
<1> USE DEF CondInv, vars
<1>1. LQ' = LQ /\ WQ' = WQ /\ SL' = SL /\ TQ' = TQ
  BY SameQueues
<1>2. CondTypes' /\ LinkedOnce'
  BY <1>1 DEF CondTypes, LinkedOnce
<1>3. Places'
  BY <1>1 DEF Places, CallsLinked, TimersKept, SignalScope
<1>4. Ownership'
  BY DEF Ownership, OwnerIs, NobodyElse, FreeIsFree, SavedOne, Unlocks, Given
<1> QED BY <1>2, <1>3, <1>4 DEF Places, Ownership

(* A program that stops does so because a fiber is relocked inside the     *)
(* unlock of its own wait.                                                 *)
LEMMA CondFaultInv ==
  ASSUME CondInv, NEW f \in Fibers, CondFault(f), fault = "none" PROVE CondInv'
<1> USE DEF CondInv
<1>1. /\ UNCHANGED <<vars, wait_queue, saved, signaller, list, left>>
      /\ UNCHANGED <<owner, pc>>
  BY DEF CondFault, vars
<1>2. ASSUME f \in WQ \cup SL, owner = f PROVE pc[owner] \in {"wait_check", "wait_handoff"}
  <2>1. pc[f] \in WaitPCs /\ f \notin ready
    BY <1>2 DEF CallsLinked, LinkedOnce
  <2> QED BY <1>2, <2>1 DEF OwnerIs, Unlocks, Given, WaitPCs
<1>3. CASE glock = "signal" /\ list # << >> /\ f = Head(list) /\ owner = f /\ fault' = "relock"
  <2>1. f \in SL
    BY <1>3, QueueFacts
  <2>2. FaultWindow'
    BY <1>1, <1>2, <1>3, <2>1 DEF FaultWindow
  <2> QED BY <1>1, <2>2, StillInv
<1>4. CASE /\ TimerDue(f) /\ pc[f] \in WaitPCs
           /\ \/ wait_queue = << >> /\ fault' = "null"
              \/ wait_queue # << >> /\ owner = f /\ fault' = "relock"
  <2>1. glock # "signal" /\ f \in TQ
    BY <1>4, QueueFacts DEF TimerDue
  <2>2. SL = {}
    BY <2>1, QueueFacts DEF SignalScope
  <2>3. f \in WQ
    BY <1>4, <2>1, <2>2 DEF TimersKept, CallsLinked, WaitPCs
  <2>4. wait_queue # << >>
    BY <2>3, QueueFacts
  <2>5. FaultWindow'
    BY <1>1, <1>2, <1>4, <2>3, <2>4 DEF FaultWindow
  <2> QED BY <1>1, <2>5, StillInv
<1> QED BY <1>3, <1>4 DEF CondFault

(* melon_cond_wait returns with the mutex.                                 *)
LEMMA CondResumeInv ==
  ASSUME CondInv, NEW f \in Fibers, CondResume(f), fault = "none" PROVE CondInv'
<1> USE DEF CondInv
<1>1. /\ pc[f] = "waiting" /\ f \in ready /\ ready' = ready \ {f}
      /\ held' = [held EXCEPT ![f] = saved[f]] /\ timedout' = timedout \ {f}
      /\ pc' = [pc EXCEPT ![f] = "run"]
      /\ UNCHANGED <<owner, lock_queue, lock_count, timer, timer_queue, now, glock>>
      /\ UNCHANGED <<wait_queue, saved, signaller, list, left, fault>>
      /\ LQ' = LQ /\ WQ' = WQ /\ SL' = SL /\ TQ' = TQ
  BY SameQueues DEF CondResume, Goto, condVars
<1>2. saved[f] = 1 /\ f \notin LQ \cup WQ \cup SL
  BY <1>1 DEF SavedOne, WaitPCs, LinkedOnce
<1>3. owner = f /\ lock_count = 1
  <2>1. Given(f)
    BY <1>1 DEF Given
  <2>2. owner = f
    BY <2>1 DEF NobodyElse
  <2> QED BY <1>1, <2>2 DEF OwnerIs, Unlocks
<1> USE <1>1, <1>2, <1>3
<1>4. CondTypes'
  BY DEF CondTypes, CondPCs, PCs
<1>5. LinkedOnce'
  BY DEF LinkedOnce
<1>6. CallsLinked'
  BY DEF CallsLinked, CondTypes, WaitPCs
<1>7. TimersKept' /\ SignalScope'
  BY DEF TimersKept, SignalScope, CondTypes
<1>8. Ownership'
  <2>1. OwnerIs'
    BY DEF OwnerIs, NobodyElse, Unlocks, Given, CondTypes
  <2>2. NobodyElse'
    BY DEF NobodyElse, Unlocks, Given, CondTypes
  <2>3. FreeIsFree' /\ SavedOne'
    BY DEF FreeIsFree, SavedOne, CondTypes, WaitPCs
  <2> QED BY <2>1, <2>2, <2>3 DEF Ownership
<1> QED BY <1>4, <1>5, <1>6, <1>7, <1>8 DEF Places, Ownership, FaultWindow

(* The signaller returns.                                                  *)
LEMMA SignalDoneInv ==
  ASSUME CondInv, SignalDone, fault = "none" PROVE CondInv'
<1> USE DEF CondInv
<1>1. /\ glock = "signal" /\ glock' = "free" /\ list = << >>
      /\ pc' = [pc EXCEPT ![signaller] = "run"] /\ left' = 0
      /\ UNCHANGED <<owner, lock_queue, lock_count, timer, timer_queue, now, ready,
                     timedout, held, wait_queue, saved, list, fault>>
      /\ LQ' = LQ /\ WQ' = WQ /\ SL' = SL /\ TQ' = TQ
  BY SameQueues DEF SignalDone, Goto
<1>2. signaller \in Fibers /\ pc[signaller] = "signalling"
  BY <1>1 DEF SignalScope
<1> USE <1>1, <1>2
<1>3. CondTypes'
  BY DEF CondTypes, CondPCs, PCs
<1>4. LinkedOnce'
  BY DEF LinkedOnce
<1>5. CallsLinked'
  BY DEF CallsLinked, CondTypes, WaitPCs
<1>6. TimersKept' /\ SignalScope'
  BY DEF TimersKept, SignalScope, CondTypes
<1>7. Ownership'
  <2>1. OwnerIs'
    BY DEF OwnerIs, NobodyElse, Unlocks, Given, CondTypes
  <2>2. NobodyElse'
    BY DEF NobodyElse, Unlocks, Given, CondTypes
  <2>3. FreeIsFree' /\ SavedOne'
    BY DEF FreeIsFree, SavedOne, CondTypes, WaitPCs
  <2> QED BY <2>1, <2>2, <2>3 DEF Ownership
<1> QED BY <1>3, <1>4, <1>5, <1>6, <1>7 DEF Places, Ownership, FaultWindow

(* The clock advances.                                                     *)
LEMMA TickInv ==
  ASSUME CondInv, Tick, UNCHANGED condVars PROVE CondInv'
<1> USE DEF CondInv
<1>1. /\ now' = now + 1
      /\ UNCHANGED <<owner, lock_queue, lock_count, timer, timer_queue, pc, ready,
                     timedout, glock, held>>
      /\ UNCHANGED <<wait_queue, saved, signaller, list, left, fault>>
      /\ LQ' = LQ /\ WQ' = WQ /\ SL' = SL /\ TQ' = TQ
  BY SameQueues DEF Tick, condVars
<1> USE <1>1
<1>2. CondTypes' /\ LinkedOnce'
  BY DEF CondTypes, LinkedOnce
<1>3. Places'
  BY DEF Places, CallsLinked, TimersKept, SignalScope
<1>4. Ownership'
  BY DEF Ownership, OwnerIs, NobodyElse, FreeIsFree, SavedOne, Unlocks, Given
<1> QED BY <1>2, <1>3, <1>4 DEF Places, Ownership, FaultWindow

(* The steps of the mutex keep the invariant.                              *)
LEMMA MutexStepInv ==
  ASSUME CondInv, Recursive = FALSE, fault = "none", NEW f \in Fibers, MutexStep(f)
  PROVE  CondInv'
<1>1. CASE /\ MutexLock(f) /\ saved' = [saved EXCEPT ![f] = 1]
           /\ UNCHANGED <<wait_queue, signaller, list, left, fault>>
  BY <1>1, MutexLockInv
<1>2. ASSUME UNCHANGED condVars, NEW t \in Timeouts, TimedLockEnqueue(f, t) PROVE CondInv'
  BY <1>2, TimedLockEnqueueInv
<1>3. /\ UnlockPlaces("unlocking", "handoff", "run")
      /\ UnlockPlaces("wait_check", "wait_handoff", "waiting")
  BY DEF UnlockPlaces
<1>4. ASSUME UNCHANGED condVars,
             \/ UnlockCheck(f, "unlocking", "handoff", "run")
             \/ UnlockCheck(f, "wait_check", "wait_handoff", "waiting")
      PROVE  CondInv'
  BY <1>3, <1>4, UnlockCheckInv
<1>5. ASSUME UNCHANGED condVars,
             \/ UnlockHandoff(f, "handoff", "run")
             \/ UnlockHandoff(f, "wait_handoff", "waiting")
      PROVE  CondInv'
  BY <1>3, <1>5, UnlockHandoffInv
<1> QED BY <1>1, <1>2, <1>4, <1>5, TryLockInv, TimedLockInv, UnlockInv, TimerFireInv,
        ResumeInv DEF MutexStep

(* Every step of the mutex and its condition keeps the invariant.          *)
LEMMA CondStepInv ==
  ASSUME CondInv, Recursive = FALSE, SignalNbs \subseteq {0}, [CondNext]_cvars
  PROVE  CondInv'
<1>1. CASE UNCHANGED cvars
  <2>1. UNCHANGED <<vars, wait_queue, saved, signaller, list, left>> /\ FaultWindow'
    BY <1>1 DEF cvars, condVars, vars, CondInv, FaultWindow
  <2> QED BY <2>1, StillInv
<1>2. ASSUME CondNext PROVE CondInv'
  <2>1. fault = "none"
    BY <1>2 DEF CondNext
  <2>2. ASSUME NEW f \in Fibers, NEW nb \in SignalNbs, Signal(f, nb) PROVE CondInv'
    <3>1. nb = 0
      OBVIOUS
    <3> QED BY <2>1, <2>2, <3>1, SignalInv
  <2> QED BY <1>2, <2>1, <2>2, MutexStepInv, CondWaitInv, CondTimedWaitInv,
          SignalWakesInv, CondTimerFireInv, CondFaultInv, CondResumeInv, SignalDoneInv,
          TickInv DEF CondNext
<1> QED BY <1>1, <1>2

(* The invariant holds in every reachable state.                           *)
THEOREM CondInvariant ==
  ASSUME Recursive = FALSE, SignalNbs \subseteq {0} PROVE CondSpec => []CondInv
<1>1. CondInit => CondInv
  BY InitCondInv
<1>2. CondInv /\ [CondNext]_cvars => CondInv'
  BY CondStepInv
<1> QED BY <1>1, <1>2, PTL DEF CondSpec

(* Waiting, signalling and timing out never give the mutex to two fibers.  *)
THEOREM WaitersExclude ==
  ASSUME Recursive = FALSE, SignalNbs \subseteq {0}
  PROVE  CondSpec => []CondMutualExclusion
<1>1. CondInv => CondMutualExclusion
  <2> SUFFICES ASSUME CondInv, NEW f \in Fibers, held[f] > 0
               PROVE  owner = f /\ \A g \in Fibers \ {f} : held[g] = 0
    BY DEF CondMutualExclusion
  <2>1. held[f] # 0
    BY DEF CondInv, CondTypes
  <2> QED BY <2>1 DEF CondInv, NobodyElse
<1> QED BY <1>1, CondInvariant, PTL

(* A fiber is linked in one list at a time.                                *)
THEOREM WaitersLinkedOnce ==
  ASSUME Recursive = FALSE, SignalNbs \subseteq {0}
  PROVE  CondSpec => []OneListPerFiber
<1>1. ASSUME CondInv PROVE OneListPerFiber
  <2>1. /\ wait_queue \in Seq(Fibers) /\ lock_queue \in Seq(Fibers) /\ list \in Seq(Fibers)
        /\ NoDup(wait_queue) /\ NoDup(lock_queue) /\ NoDup(list)
        /\ Elems(wait_queue) \cap Elems(lock_queue) = {}
        /\ (Elems(wait_queue) \cup Elems(lock_queue)) \cap Elems(list) = {}
        /\ (Elems(wait_queue) \cup Elems(lock_queue)) \cap ready = {}
    BY <1>1 DEF CondInv, CondTypes, LinkedOnce, LQ, WQ, SL
  <2> DEFINE wl == wait_queue \o lock_queue
  <2>2. /\ wl \in Seq(Fibers) /\ NoDup(wl)
        /\ Elems(wl) = Elems(wait_queue) \cup Elems(lock_queue)
    BY <2>1, ConcatElems
  <2> HIDE DEF wl
  <2>3. NoDup(wl \o list)
    BY <2>1, <2>2, ConcatElems
  <2> QED BY <2>1, <2>2, <2>3 DEF OneListPerFiber, wl
<1> QED BY <1>1, CondInvariant, PTL

(* A fiber with a timer is where its callback looks for it.                *)
THEOREM WaitersTimersLinked ==
  ASSUME Recursive = FALSE, SignalNbs \subseteq {0}
  PROVE  CondSpec => []TimersLinked
<1>1. ASSUME CondInv PROVE TimersLinked
  <2>1. /\ wait_queue \in Seq(Fibers) /\ lock_queue \in Seq(Fibers) /\ list \in Seq(Fibers)
    BY <1>1 DEF CondInv, CondTypes
  <2>2. Elems(wait_queue \o list) = WQ \cup SL
    BY <2>1, ConcatElems DEF WQ, SL
  <2> DEFINE wl == wait_queue \o lock_queue
  <2>3. Elems(wl \o list) = WQ \cup LQ \cup SL
    <3>1. wl \in Seq(Fibers) /\ Elems(wl) = WQ \cup LQ
      BY <2>1, ConcatElems DEF WQ, LQ
    <3> HIDE DEF wl
    <3> QED BY <2>1, <3>1, ConcatElems DEF SL
  <2>4. ASSUME NEW f \in TQ
        PROVE  f \in Elems(IF pc[f] \in WaitPCs THEN wait_queue \o list ELSE lock_queue)
    <3>1. f \in Fibers
      BY <1>1, QueueFacts DEF CondInv
    <3>2. f \in LQ \cup WQ \cup SL /\ (f \in LQ => pc[f] # "waiting")
      BY <1>1, <3>1 DEF CondInv, TimersKept
    <3>3. IF pc[f] \in WaitPCs THEN f \in WQ \cup SL ELSE f \in LQ
      BY <1>1, <3>1, <3>2 DEF CondInv, CallsLinked, WaitPCs
    <3> QED BY <2>2, <3>3 DEF LQ
  <2>5. ASSUME NEW f \in WQ \cup LQ \cup SL, timer[f] > 0 PROVE f \in TQ
    BY <1>1, <2>5, QueueFacts DEF CondInv, TimersKept
  <2> QED BY <2>3, <2>4, <2>5 DEF TimersLinked, TQ
<1> QED BY <1>1, CondInvariant, PTL

(* assert(mutex->owner != fiber) fails in one window only.                 *)
THEOREM OneFaultWindow ==
  ASSUME Recursive = FALSE, SignalNbs \subseteq {0}
  PROVE  CondSpec => []FaultWindow
<1>1. CondInv => FaultWindow
  BY DEF CondInv
<1> QED BY <1>1, CondInvariant, PTL

----------------------------------------------------------------------------
(* The condition and its mutex implement module Monitor.  A wait is seen   *)
(* when it joins the wait queue, though it still owns the mutex; the steps *)
(* of its unlock are then those of any unlock.                             *)

(* The fiber that has the mutex as its users see it, the waiters, and      *)
(* those the signaller has still to wake.                                  *)
Holder == HolderOf({"unlocking", "handoff", "wait_check", "wait_handoff"})
Waiters == [c \in {"cond"} |-> wait_queue]
Waking == IF glock # "signal" THEN << >>
          ELSE IF left = 0 \/ Len(list) <= left THEN list
          ELSE SubSeq(list, 1, left)

(* Nothing happens that the users see.                                     *)
Unseen == Holder' = Holder /\ UNCHANGED <<lock_queue, wait_queue, list>>

(* A fiber gets the free lock or is queued for it.                         *)
Asks(f) ==
  \/ Holder = NULL /\ lock_queue = << >> /\ Holder' = f /\ lock_queue' = lock_queue
  \/ /\ f \notin LQ /\ Holder' = Holder
     /\ lock_queue' = DlistPush(lock_queue, f)

(* What the users of the mutex see, and those of the condition.            *)
LockSeen(f) ==
  /\ UNCHANGED <<wait_queue, list>>
  /\ \/ Asks(f)
     \/ f \in LQ /\ Holder' = Holder /\ lock_queue' = DlistUnlink(lock_queue, f)
     \/ Holder = f /\ Holder' = NULL /\ lock_queue' = lock_queue
     \/ /\ Holder = NULL /\ lock_queue # << >> /\ f = Head(lock_queue)
        /\ Holder' = f /\ lock_queue' = Tail(lock_queue)

CondSeen(f) ==
  \/ /\ Holder = f /\ Holder' = NULL /\ wait_queue' = DlistPush(wait_queue, f)
     /\ UNCHANGED <<lock_queue, list>>
  \/ /\ f \in WQ /\ wait_queue' = DlistUnlink(wait_queue, f)
     /\ Asks(f) /\ UNCHANGED list
  \/ /\ list = << >> /\ list' = wait_queue /\ wait_queue' = << >>
     /\ Holder' = Holder /\ UNCHANGED lock_queue
  \/ /\ list # << >> /\ f = Head(list) /\ list' = Tail(list)
     /\ Asks(f) /\ UNCHANGED wait_queue

(* With broadcasts only, the signaller wakes its whole list.               *)
LEMMA WakingIsList == ASSUME CondInv PROVE Waking = list
  BY DEF Waking, CondInv, CondTypes, SignalScope

(* Such steps are steps of module Monitor.                                 *)
LEMMA SeenIsMonitor ==
  ASSUME NEW f \in Fibers, CondInv, CondInv', LockSeen(f) \/ CondSeen(f)
  PROVE  MC!MonitorNext
<1>1. Waking = list /\ Waking' = list'
  <2>1. Waking = list
    BY WakingIsList
  <2>2. Waking' = list'
    BY WakingIsList DEF Waking, CondInv, CondTypes, SignalScope
  <2> QED BY <2>1, <2>2
<1>2. ASSUME NEW q
      PROVE  /\ MC!Elems(q) = Elems(q) /\ MC!DlistPush(q, f) = DlistPush(q, f)
             /\ MC!DlistUnlink(q, f) = DlistUnlink(q, f)
  BY DEF MC!Elems, Elems, MC!DlistPush, DlistPush, MC!DlistUnlink, DlistUnlink,
         MC!PositionOf, PositionOf, MC!RemoveAt, RemoveAt
<1>3. Asks(f) => MC!Relock(f)
  BY <1>2 DEF Asks, MC!Relock, MC!Gets, MC!Queues, Holder, LQ
<1>4. UNCHANGED <<wait_queue, list>> => UNCHANGED <<Waiters, Waking>>
  BY <1>1 DEF Waiters
<1>5. CASE UNCHANGED <<wait_queue, list>> /\ Asks(f)
  <2>1. MC!Lock(f)
    BY <1>3, <1>4, <1>5 DEF MC!Lock, Waiters, Waking
  <2> QED BY <2>1 DEF MC!MonitorNext
<1>6. CASE /\ UNCHANGED <<wait_queue, list>>
           /\ f \in LQ /\ Holder' = Holder /\ lock_queue' = DlistUnlink(lock_queue, f)
  <2>1. MC!GiveUp(f)
    BY <1>2, <1>4, <1>6 DEF MC!GiveUp, Waiters, Waking, Holder, LQ
  <2> QED BY <2>1 DEF MC!MonitorNext
<1>7. CASE /\ UNCHANGED <<wait_queue, list>>
           /\ Holder = f /\ Holder' = NULL /\ lock_queue' = lock_queue
  <2>1. MC!Release(f)
    BY <1>4, <1>7 DEF MC!Release, Waiters, Waking, Holder
  <2> QED BY <2>1 DEF MC!MonitorNext
<1>8. CASE /\ UNCHANGED <<wait_queue, list>>
           /\ Holder = NULL /\ lock_queue # << >> /\ f = Head(lock_queue)
           /\ Holder' = f /\ lock_queue' = Tail(lock_queue)
  <2>1. MC!Grant(f)
    BY <1>4, <1>8 DEF MC!Grant, Waiters, Waking, Holder
  <2> QED BY <2>1 DEF MC!MonitorNext, MC!MonitorStep
<1>9. CASE /\ Holder = f /\ Holder' = NULL /\ wait_queue' = DlistPush(wait_queue, f)
           /\ UNCHANGED <<lock_queue, list>>
  <2>1. Waiters' = [Waiters EXCEPT !["cond"] = DlistPush(@, f)] /\ Waking' = Waking
    BY <1>1, <1>9 DEF Waiters
  <2>2. MC!Wait(f, "cond")
    BY <1>2, <1>9, <2>1 DEF MC!Wait, Waiters, Waking, Holder
  <2> QED BY <2>2 DEF MC!MonitorNext
<1>10. CASE /\ f \in WQ /\ wait_queue' = DlistUnlink(wait_queue, f)
            /\ Asks(f) /\ UNCHANGED list
  <2>1. /\ Waiters' = [Waiters EXCEPT !["cond"] = DlistUnlink(@, f)]
        /\ Waking' = Waking /\ f \in Elems(Waiters["cond"])
    BY <1>1, <1>10 DEF Waiters, WQ
  <2>2. MC!Expire(f, "cond")
    BY <1>2, <1>3, <1>10, <2>1 DEF MC!Expire, Waiters, Waking
  <2> QED BY <2>2 DEF MC!MonitorNext
<1>11. CASE /\ list = << >> /\ list' = wait_queue /\ wait_queue' = << >>
            /\ Holder' = Holder /\ UNCHANGED lock_queue
  <2>1. /\ Waiters' = [Waiters EXCEPT !["cond"] = << >>]
        /\ Waking = << >> /\ Waking' = Waiters["cond"]
    BY <1>1, <1>11 DEF Waiters
  <2>2. MC!Signal("cond", 0)
    BY <1>11, <2>1 DEF MC!Signal, Waiters, Waking, Holder
  <2> QED BY <2>2 DEF MC!MonitorNext
<1>12. CASE /\ list # << >> /\ f = Head(list) /\ list' = Tail(list)
            /\ Asks(f) /\ UNCHANGED wait_queue
  <2>1. /\ Waking # << >> /\ f = Head(Waking) /\ Waking' = Tail(Waking)
        /\ Waiters' = Waiters
    BY <1>1, <1>12 DEF Waiters
  <2>2. MC!Wake(f)
    BY <1>3, <1>12, <2>1 DEF MC!Wake, Waiters, Waking
  <2> QED BY <2>2 DEF MC!MonitorNext, MC!MonitorStep
<1> QED BY <1>5, <1>6, <1>7, <1>8, <1>9, <1>10, <1>11, <1>12 DEF LockSeen, CondSeen

(* Who has the mutex does not change as its users see it when its owner    *)
(* and that fiber's place do not.                                          *)
LEMMA HolderKept ==
  ASSUME CondInv, owner' = owner, NEW f \in Fibers, NEW l, pc' = [pc EXCEPT ![f] = l],
         owner = f =>
           (Unlocks(f) <=> l \in {"unlocking", "handoff", "wait_check", "wait_handoff"})
  PROVE  Holder' = Holder
<1>1. pc \in [Fibers -> CondPCs] /\ (owner # NULL => owner \in Fibers)
  BY DEF CondInv, CondTypes
<1>2. CASE owner = f
  <2>1. pc'[owner] = l
    BY <1>1, <1>2
  <2> QED BY <1>2, <2>1 DEF Holder, HolderOf, Unlocks
<1>3. CASE owner # f
  <2>1. owner # NULL => pc'[owner] = pc[owner]
    BY <1>1, <1>3
  <2> QED BY <2>1 DEF Holder, HolderOf
<1> QED BY <1>2, <1>3

(* What the users see of the steps of the mutex.                           *)
LEMMA MutexStepSeen ==
  ASSUME CondInv, Recursive = FALSE, NEW f \in Fibers, MutexStep(f)
  PROVE  Unseen \/ \E g \in Fibers : LockSeen(g)
<1> USE DEF CondInv
<1>0. UNCHANGED <<wait_queue, list>>
  BY DEF MutexStep, condVars
<1>1. CASE MutexLock(f)
  <2>1. pc[f] = "run" /\ f \notin LQ
    BY <1>1 DEF MutexLock, CallsLinked
  <2>2. CASE owner = NULL
    <3>1. owner' = f /\ pc' = pc /\ lock_queue' = lock_queue
      BY <1>1, <2>2 DEF MutexLock
    <3>2. Holder = NULL /\ Holder' = f /\ lock_queue = << >>
      BY <2>1, <2>2, <3>1 DEF Holder, HolderOf, FreeIsFree
    <3> QED BY <1>0, <3>1, <3>2 DEF LockSeen, Asks
  <2>3. CASE owner \notin {NULL, f}
    <3>1. /\ owner' = owner /\ pc' = [pc EXCEPT ![f] = "locking"]
          /\ lock_queue' = DlistPush(lock_queue, f)
      BY <1>1, <2>3 DEF MutexLock, Goto, Enqueue
    <3>2. Holder' = Holder
      BY <2>3, <3>1, HolderKept
    <3> QED BY <1>0, <2>1, <3>1, <3>2 DEF LockSeen, Asks
  <2> QED BY <1>1, <2>2, <2>3 DEF MutexLock
<1>2. CASE TryLock(f)
  <2>1. /\ owner = NULL /\ owner' = f /\ pc[f] = "run" /\ pc' = pc
        /\ lock_queue' = lock_queue
    BY <1>2 DEF TryLock, TryLockTakes
  <2>2. Holder = NULL /\ Holder' = f /\ lock_queue = << >>
    BY <2>1 DEF Holder, HolderOf, FreeIsFree
  <2> QED BY <1>0, <2>1, <2>2 DEF LockSeen, Asks
<1>3. CASE TimedLock(f)
  <2>1. /\ owner' = owner /\ pc[f] = "run" /\ pc' = [pc EXCEPT ![f] = "timedlock"]
        /\ lock_queue' = lock_queue
    BY <1>3 DEF TimedLock, Goto
  <2>2. Holder' = Holder
    BY <2>1, HolderKept DEF Unlocks
  <2> QED BY <1>0, <2>1, <2>2 DEF Unseen
<1>4. ASSUME NEW t \in Timeouts, TimedLockEnqueue(f, t) PROVE LockSeen(f)
  <2>1. pc[f] = "timedlock" /\ f \notin LQ
    BY <1>4 DEF TimedLockEnqueue, CallsLinked
  <2>2. CASE owner = NULL
    <3>1. owner' = f /\ pc' = [pc EXCEPT ![f] = "run"] /\ lock_queue' = lock_queue
      BY <1>4, <2>2 DEF TimedLockEnqueue, TimedLockRecheck, Goto
    <3>2. pc'[f] = "run"
      BY <3>1 DEF CondTypes
    <3>3. Holder = NULL /\ Holder' = f /\ lock_queue = << >>
      BY <2>2, <3>1, <3>2 DEF Holder, HolderOf, FreeIsFree
    <3> QED BY <1>0, <3>1, <3>3 DEF LockSeen, Asks
  <2>3. CASE owner # NULL
    <3>1. /\ owner' = owner /\ pc' = [pc EXCEPT ![f] = "locking"]
          /\ lock_queue' = DlistPush(lock_queue, f)
      BY <1>4, <2>3 DEF TimedLockEnqueue, TimedLockRecheck, Goto, Enqueue
    <3>2. Holder' = Holder
      BY <2>1, <3>1, HolderKept DEF Unlocks
    <3> QED BY <1>0, <2>1, <3>1, <3>2 DEF LockSeen, Asks
  <2> QED BY <2>2, <2>3
<1>5. CASE Unlock(f)
  <2>1. /\ pc[f] = "run" /\ held[f] # 0 /\ owner' = owner /\ lock_queue' = lock_queue
    BY <1>5 DEF Unlock, CondTypes
  <2>2. owner = f
    BY <2>1 DEF NobodyElse
  <2>3. lock_count = 1
    BY <2>1, <2>2 DEF OwnerIs, Unlocks
  <2>4. pc' = [pc EXCEPT ![f] = "unlocking"] /\ pc'[f] = "unlocking"
    BY <1>5, <2>3 DEF Unlock, Goto, CondTypes
  <2>5. Holder = f /\ Holder' = NULL
    BY <2>1, <2>2, <2>4 DEF Holder, HolderOf
  <2> QED BY <1>0, <2>1, <2>5 DEF LockSeen
<1>6. ASSUME NEW from, NEW busy, NEW done, UnlockPlaces(from, busy, done),
             UnlockCheck(f, from, busy, done)
      PROVE  Unseen
  <2>1. owner = f /\ Unlocks(f)
    BY <1>6, UnlockerOwns DEF UnlockCheck, UnlockPlaces, Unlocks
  <2>2. Holder = NULL
    BY <2>1 DEF Holder, HolderOf, Unlocks
  <2>3. owner' = NULL \/ (owner' = owner /\ pc' = [pc EXCEPT ![f] = busy])
    BY <1>6 DEF UnlockCheck, Goto
  <2>4. busy \in {"unlocking", "handoff", "wait_check", "wait_handoff"}
    BY <1>6 DEF UnlockPlaces
  <2>5. Holder' = NULL
    BY <2>1, <2>2, <2>3, <2>4, HolderKept DEF Holder, HolderOf
  <2> QED BY <1>0, <1>6, <2>2, <2>5 DEF Unseen, UnlockCheck
<1>7. ASSUME NEW from, NEW busy, NEW done, UnlockPlaces(from, busy, done),
             UnlockHandoff(f, busy, done)
      PROVE  Unseen \/ \E g \in Fibers : LockSeen(g)
  <2>1. owner = f /\ Unlocks(f) /\ f \notin LQ /\ pc' = [pc EXCEPT ![f] = done]
    BY <1>7, UnlockerOwns DEF UnlockHandoff, UnlockPlaces, Unlocks, Goto
  <2>2. Holder = NULL
    BY <2>1 DEF Holder, HolderOf, Unlocks
  <2>3. CASE lock_queue = << >>
    <3>1. owner' = NULL /\ lock_queue' = lock_queue
      BY <1>7, <2>3 DEF UnlockHandoff
    <3> QED BY <1>0, <2>2, <3>1 DEF Unseen, Holder, HolderOf
  <2>4. CASE lock_queue # << >>
    <3> DEFINE g == Head(lock_queue)
    <3>1. g \in Fibers /\ g \in LQ
      BY <2>4, QueueFacts
    <3>2. owner' = g /\ lock_queue' = Tail(lock_queue)
      BY <1>7, <2>4 DEF UnlockHandoff
    <3>3. pc[g] \in {"locking", "waiting"} /\ g # f
      BY <2>1, <3>1 DEF CallsLinked
    <3>4. pc'[g] = pc[g]
      BY <2>1, <3>1, <3>3 DEF CondTypes
    <3>5. Holder' = g
      BY <3>1, <3>2, <3>3, <3>4 DEF Holder, HolderOf
    <3>6. LockSeen(g)
      BY <1>0, <2>2, <2>4, <3>2, <3>5 DEF LockSeen
    <3> QED BY <3>1, <3>6
  <2> QED BY <2>3, <2>4
<1>8. CASE pc[f] = "locking" /\ TimerFire(f)
  <2>1. /\ timer_queue # << >> /\ f = Head(timer_queue) /\ UNCHANGED <<owner, pc>>
        /\ lock_queue' = DlistUnlink(lock_queue, f)
    BY <1>8 DEF TimerFire, TimerExpires, TimerDue, TimedLockCb
  <2>2. f \in LQ /\ Holder' = Holder
    BY <1>8, <2>1, QueueFacts DEF TimersKept, CallsLinked, WaitPCs, Holder, HolderOf
  <2> QED BY <1>0, <2>1, <2>2 DEF LockSeen
<1>9. CASE Resume(f)
  <2>1. /\ owner' = owner /\ pc[f] = "locking" /\ pc' = [pc EXCEPT ![f] = "run"]
        /\ lock_queue' = lock_queue
    BY <1>9 DEF Resume, Goto
  <2>2. Holder' = Holder
    BY <2>1, HolderKept DEF Unlocks
  <2> QED BY <1>0, <2>1, <2>2 DEF Unseen
<1>10. /\ UnlockPlaces("unlocking", "handoff", "run")
       /\ UnlockPlaces("wait_check", "wait_handoff", "waiting")
  BY DEF UnlockPlaces
<1>11. CASE \/ UnlockCheck(f, "unlocking", "handoff", "run")
            \/ UnlockCheck(f, "wait_check", "wait_handoff", "waiting")
  BY <1>6, <1>10, <1>11
<1>12. CASE \/ UnlockHandoff(f, "handoff", "run")
            \/ UnlockHandoff(f, "wait_handoff", "waiting")
  BY <1>7, <1>10, <1>12
<1> QED BY <1>1, <1>2, <1>3, <1>4, <1>5, <1>8, <1>9, <1>11, <1>12 DEF MutexStep

(* melon_mutex_lock2 asks for the lock like any other fiber.               *)
LEMMA Lock2Asks ==
  ASSUME CondInv, NEW f \in Fibers, f \in WQ \cup SL, Lock2(f), pc' = pc
  PROVE  Asks(f)
<1> USE DEF CondInv
<1>1. owner # f /\ f \notin LQ /\ pc[f] \in WaitPCs
  BY DEF Lock2, LinkedOnce, CallsLinked
<1>2. pc[f] = "waiting"
  BY <1>1 DEF NobodyElse, Unlocks, WaitPCs
<1>3. CASE owner = NULL
  <2>1. owner' = f /\ lock_queue' = lock_queue
    BY <1>3 DEF Lock2, Lock2Takes
  <2>2. Holder = NULL /\ Holder' = f /\ lock_queue = << >>
    BY <1>2, <1>3, <2>1 DEF Holder, HolderOf, FreeIsFree
  <2> QED BY <2>1, <2>2 DEF Asks
<1>4. CASE owner # NULL
  <2>1. owner' = owner /\ lock_queue' = DlistPush(lock_queue, f)
    BY <1>4 DEF Lock2, Enqueue
  <2>2. Holder' = Holder
    BY <2>1 DEF Holder, HolderOf
  <2> QED BY <1>1, <2>1, <2>2 DEF Asks
<1> QED BY <1>3, <1>4

(* What the users see of the steps of the condition.                       *)
LEMMA CondStepSeen ==
  ASSUME CondInv, NEW f \in Fibers,
         \/ StartWait(f) \/ Signal(f, 0) \/ SignalWakes(f) \/ CondTimerFire(f)
         \/ CondFault(f) \/ CondResume(f)
  PROVE  Unseen \/ CondSeen(f)
<1> USE DEF CondInv
<1>1. CASE StartWait(f)
  <2>1. /\ pc[f] = "run" /\ held[f] # 0 /\ owner' = owner
        /\ pc' = [pc EXCEPT ![f] = "wait_check"]
        /\ wait_queue' = DlistPush(wait_queue, f) /\ UNCHANGED <<lock_queue, list>>
    BY <1>1 DEF StartWait, CondTypes, Goto
  <2>2. owner = f /\ pc'[f] = "wait_check"
    BY <2>1 DEF NobodyElse, CondTypes
  <2>3. Holder = f /\ Holder' = NULL
    BY <2>1, <2>2 DEF Holder, HolderOf
  <2> QED BY <2>1, <2>3 DEF CondSeen
<1>2. CASE Signal(f, 0)
  <2>1. /\ pc[f] = "run" /\ pc' = [pc EXCEPT ![f] = "signalling"] /\ owner' = owner
        /\ list' = wait_queue /\ wait_queue' = << >> /\ lock_queue' = lock_queue
        /\ glock = "free"
    BY <1>2 DEF Signal, TakeWaiters, Goto
  <2>2. Holder' = Holder /\ list = << >>
    BY <2>1, HolderKept DEF Unlocks, SignalScope
  <2> QED BY <2>1, <2>2 DEF CondSeen
<1>3. CASE SignalWakes(f)
  <2>1. /\ list # << >> /\ f = Head(list) /\ list' = Tail(list) /\ Lock2(f)
        /\ wait_queue' = wait_queue /\ pc' = pc
    BY <1>3 DEF SignalWakes, CondTypes
  <2>2. f \in SL
    BY <2>1, QueueFacts
  <2> QED BY <2>1, <2>2, Lock2Asks DEF CondSeen
<1>4. CASE CondTimerFire(f)
  <2>1. /\ glock \in {"free", "timer"} /\ timer_queue # << >> /\ f = Head(timer_queue)
        /\ pc[f] \in WaitPCs /\ wait_queue' = DlistUnlink(wait_queue, f)
        /\ Lock2(f) /\ UNCHANGED <<pc, list>>
    BY <1>4 DEF CondTimerFire, TimerExpires, TimerDue
  <2>2. SL = {} /\ f \in TQ
    BY <2>1, QueueFacts DEF SignalScope
  <2>3. f \in WQ
    BY <2>1, <2>2 DEF TimersKept, CallsLinked, WaitPCs
  <2> QED BY <2>1, <2>3, Lock2Asks DEF CondSeen
<1>5. CASE CondFault(f)
  BY <1>5 DEF CondFault, vars, Unseen, Holder, HolderOf
<1>6. CASE CondResume(f)
  <2>1. /\ owner' = owner /\ pc[f] = "waiting" /\ pc' = [pc EXCEPT ![f] = "run"]
        /\ UNCHANGED <<lock_queue, wait_queue, list>>
    BY <1>6 DEF CondResume, Goto, condVars
  <2>2. Holder' = Holder
    BY <2>1, HolderKept DEF Unlocks
  <2> QED BY <2>1, <2>2 DEF Unseen
<1> QED BY <1>1, <1>2, <1>3, <1>4, <1>5, <1>6

(* Every step is one of module Monitor, or nothing is seen of it.          *)
LEMMA CondNextSeen ==
  ASSUME CondInv, Recursive = FALSE, SignalNbs \subseteq {0}, [CondNext]_cvars
  PROVE  Unseen \/ \E f \in Fibers : LockSeen(f) \/ CondSeen(f)
<1>1. CASE UNCHANGED cvars
  BY <1>1 DEF cvars, condVars, vars, Unseen, Holder, HolderOf
<1>2. CASE Tick /\ UNCHANGED condVars
  BY <1>2 DEF Tick, condVars, Unseen, Holder, HolderOf
<1>3. CASE SignalDone
  <2>1. /\ signaller \in Fibers /\ pc[signaller] = "signalling" /\ owner' = owner
        /\ pc' = [pc EXCEPT ![signaller] = "run"]
        /\ UNCHANGED <<lock_queue, wait_queue, list>>
    BY <1>3 DEF SignalDone, Goto, CondInv, SignalScope
  <2>2. Holder' = Holder
    BY <2>1, HolderKept DEF Unlocks
  <2> QED BY <2>1, <2>2 DEF Unseen
<1>4. ASSUME NEW f \in Fibers, MutexStep(f)
      PROVE  Unseen \/ \E g \in Fibers : LockSeen(g)
  BY <1>4, MutexStepSeen
<1>5. ASSUME NEW f \in Fibers,
             \/ CondWait(f) \/ \E t \in WaitTimeouts : CondTimedWait(f, t)
             \/ \E nb \in SignalNbs : Signal(f, nb)
             \/ SignalWakes(f) \/ CondTimerFire(f) \/ CondFault(f) \/ CondResume(f)
      PROVE  Unseen \/ CondSeen(f)
  <2>1. /\ CondWait(f) => StartWait(f)
        /\ (\E t \in WaitTimeouts : CondTimedWait(f, t)) => StartWait(f)
    BY DEF CondWait, CondTimedWait
  <2>2. (\E nb \in SignalNbs : Signal(f, nb)) => Signal(f, 0)
    OBVIOUS
  <2> QED BY <1>5, <2>1, <2>2, CondStepSeen
<1> QED BY <1>1, <1>2, <1>3, <1>4, <1>5 DEF CondNext

(* cond.c and mutex.c together implement the monitor on which barrier.c,   *)
(* rwlock.c and the joins of fiber.c are built.                            *)
THEOREM CondRefinesMonitor ==
  ASSUME Recursive = FALSE, SignalNbs \subseteq {0}
  PROVE  CondSpec => CondImplementsMonitor
<1>1. CondInit => MC!MonitorInit
  BY DEF CondInit, Init, MC!MonitorInit, HolderOf
<1>2. CondInv /\ CondInv' /\ [CondNext]_cvars => [MC!MonitorNext]_MC!mvars
  <2> SUFFICES ASSUME CondInv, CondInv', [CondNext]_cvars, ~MC!MonitorNext
               PROVE  UNCHANGED MC!mvars
    OBVIOUS
  <2>1. Unseen
    BY CondNextSeen, SeenIsMonitor
  <2>2. Waking = list /\ Waking' = list'
    <3>1. Waking = list
      BY WakingIsList
    <3>2. Waking' = list'
      BY DEF Waking, CondInv, CondTypes, SignalScope
    <3> QED BY <3>1, <3>2
  <2>3. UNCHANGED <<Holder, lock_queue, Waiters, Waking>>
    BY <2>1, <2>2 DEF Unseen, Waiters
  <2> QED BY <2>3 DEF Holder, Waiters, Waking, MC!mvars
<1> QED BY <1>1, <1>2, CondInvariant, PTL DEF CondSpec, CondImplementsMonitor,
        MC!MonitorSpec
=============================================================================
