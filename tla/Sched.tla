------------------------------- MODULE Sched -------------------------------
(***************************************************************************)
(* The scheduler (sched.c), the life of a fiber created by                 *)
(* melon_fiber_createlight (fiber.c) and the runtime's start, melon_wait   *)
(* and melon_deinit (melon.c).                                             *)
(*                                                                         *)
(* A pool of kernel threads takes fibers from one ready queue under        *)
(* g_melon.lock and runs each one under the fiber's own spinlock.  A fiber *)
(* that blocks first links itself where a waker finds it and only then     *)
(* swaps to its thread's root context, so it may be ready, and picked up   *)
(* by another thread, while the first one is still saving it.  Why it      *)
(* blocks and who wakes it is left open here: every queue of the library   *)
(* comes down to Block and Wake.                                           *)
(*                                                                         *)
(* A critical section of g_melon.lock is one action.  Memory that has been *)
(* freed is never touched by a step: a thread about to do so stops, and    *)
(* NoUseAfterFree says whether one ever is.                                *)
(***************************************************************************)
EXTENDS Dlist, FiniteSets

CONSTANTS
  Threads,   \* g_melon.threads
  Fibers,    \* the fibers the program may create
  NULL,      \* no fiber, no thread
  MayBlock,  \* do fibers block (on a lock, a timer, a descriptor)?
  MayFail    \* may pthread_create fail in melon_init?

ASSUME SchedAssumption ==
  /\ NULL \notin Threads \cup Fibers
  /\ MayBlock \in BOOLEAN /\ MayFail \in BOOLEAN
ASSUME ThreadsFinite == IsFiniteSet(Threads) /\ Threads # {}

VARIABLES
  ready,         \* g_melon.ready
  stop,          \* g_melon.stop
  fibers_count,  \* g_melon.fibers_count
  tpc,           \* where each thread of the pool is
  cur,           \* g_current_fiber of each thread
  flock,         \* fiber->lock: the thread that holds it
  fpc,           \* where each fiber is
  cb,            \* fibers whose sched_next_cb is melon_fiber_destroy
  blocked,       \* fibers linked in some wait queue
  main           \* where the thread that called melon_init is

vars == <<ready, stop, fibers_count, tpc, cur, flock, fpc, cb, blocked, main>>

(***************************************************************************)
(* A thread: "none" not created, "loop" at the while of melon_sched_run,   *)
(* "sched" in sched_next wanting g_melon.lock, "waiting" on ready_cond,    *)
(* "spin" with a fiber and wanting its lock, "running" the fiber,          *)
(* "swapped" back from it, "unlocked" its lock released, "tested" a        *)
(* callback was found, "copied" it is read, "call" the fiber's fields are  *)
(* cleared and the callback is about to be called, "exit" returned.        *)
(*                                                                         *)
(* A fiber: "none", "body" in (or entering) the program's code, "parked"   *)
(* linked and in (or about to call) melon_sched_next, "zero" it has        *)
(* brought fibers_count to 0, "exit" the count is settled, "gone" the      *)
(* callback is set and the fiber swaps out for good, "freed".              *)
(*                                                                         *)
(* The main thread: "create" in melon_init, "failed" in its error path,    *)
(* "error" melon_init has returned an error, "user" between the calls,     *)
(* "wait" in melon_wait, "waiting" on fibers_count_zero there, "waited"    *)
(* returned from it, "stopping" in melon_deinit, "done".                   *)
(***************************************************************************)
TPCs == {"none", "loop", "sched", "waiting", "spin", "running", "swapped",
         "unlocked", "tested", "copied", "call", "exit"}
FPCs == {"none", "body", "parked", "zero", "exit", "gone", "freed"}
MPCs == {"create", "failed", "error", "user", "wait", "waiting", "waited",
         "stopping", "done"}

TypeOK ==
  /\ ready \in Seq(Fibers) /\ stop \in BOOLEAN /\ fibers_count \in Int
  /\ tpc \in [Threads -> TPCs] /\ cur \in [Threads -> Fibers \cup {NULL}]
  /\ flock \in [Fibers -> Threads \cup {NULL}] /\ fpc \in [Fibers -> FPCs]
  /\ cb \subseteq Fibers /\ blocked \subseteq Fibers /\ main \in MPCs

Init ==
  /\ ready = << >> /\ stop = FALSE /\ fibers_count = 0
  /\ tpc = [t \in Threads |-> "none"] /\ cur = [t \in Threads |-> NULL]
  /\ flock = [f \in Fibers |-> NULL] /\ fpc = [f \in Fibers |-> "none"]
  /\ cb = {} /\ blocked = {} /\ main = "create"

TGoto(t, l) == tpc' = [tpc EXCEPT ![t] = l]
FGoto(f, l) == fpc' = [fpc EXCEPT ![f] = l]

(* pthread_cond_signal and pthread_cond_broadcast on ready_cond.           *)
Waiting == {t \in Threads : tpc[t] = "waiting"}
SignalReady ==
  IF Waiting = {} THEN UNCHANGED tpc ELSE \E t \in Waiting : TGoto(t, "sched")
BroadcastReady ==
  tpc' = [t \in Threads |-> IF t \in Waiting THEN "sched" ELSE tpc[t]]

(* Mutant: the fiber is queued and no thread is woken.                     *)
SchedReadyNoSignal(f) == ready' = Append(ready, f) /\ UNCHANGED tpc

(* melon_sched_ready.  Every caller passes one fiber, so the broadcast for *)
(* a list of several never happens.                                        *)
SchedReady(f) == ready' = Append(ready, f) /\ SignalReady

----------------------------------------------------------------------------
(* The main thread.                                                        *)

(* melon_init starts the threads of the pool one by one.                   *)
CreateThread(t) ==
  /\ main = "create"
  /\ tpc[t] = "none"
  /\ TGoto(t, "loop")
  /\ main' = IF \A u \in Threads \ {t} : tpc[u] # "none" THEN "user" ELSE "create"
  /\ UNCHANGED <<ready, stop, fibers_count, cur, flock, fpc, cb, blocked>>

(* One of them cannot be created: stop is set, and the others are joined.  *)
CreateFails ==
  /\ MayFail
  /\ main = "create"
  /\ stop' = TRUE
  /\ main' = "failed"
  /\ UNCHANGED <<ready, fibers_count, tpc, cur, flock, fpc, cb, blocked>>

JoinAfterFailure ==
  /\ main = "failed"
  /\ \A t \in Threads : tpc[t] \in {"none", "exit"}
  /\ main' = "error"
  /\ UNCHANGED <<ready, stop, fibers_count, tpc, cur, flock, fpc, cb, blocked>>

(* __melon_fiber_start: count the fiber, then make it ready.  The two are  *)
(* one step: the caller is itself counted, or is the thread that calls     *)
(* melon_wait, so nobody is misled by the count in between.                *)
FiberStart(f) ==
  /\ fpc[f] = "none"
  /\ FGoto(f, "body")
  /\ fibers_count' = fibers_count + 1
  /\ SchedReady(f)

MainStart(f) ==
  /\ main = "user"
  /\ FiberStart(f)
  /\ UNCHANGED <<stop, cur, flock, cb, blocked, main>>

(* Mutant: the count is not looked at again after a wake-up.               *)
MainWaitOnce ==
  /\ main \in {"user", "wait"}
  /\ main' = IF main = "wait" \/ fibers_count = 0 THEN "waited" ELSE "waiting"
  /\ UNCHANGED <<ready, stop, fibers_count, tpc, cur, flock, fpc, cb, blocked>>

(* melon_wait: look at the count and wait, under g_melon.lock.             *)
MainWait ==
  /\ main \in {"user", "wait"}
  /\ main' = IF fibers_count = 0 THEN "waited" ELSE "waiting"
  /\ UNCHANGED <<ready, stop, fibers_count, tpc, cur, flock, fpc, cb, blocked>>

(* Mutant: the threads asleep in sched_next are not woken.                 *)
MainDeinitNoBroadcast ==
  /\ main = "waited"
  /\ stop' = TRUE
  /\ main' = "stopping"
  /\ UNCHANGED <<ready, fibers_count, tpc, cur, flock, fpc, cb, blocked>>

(* melon_deinit up to the broadcast, then its joins.                       *)
MainDeinit ==
  /\ main = "waited"
  /\ stop' = TRUE
  /\ BroadcastReady
  /\ main' = "stopping"
  /\ UNCHANGED <<ready, fibers_count, cur, flock, fpc, cb, blocked>>

MainJoin ==
  /\ main = "stopping"
  /\ \A t \in Threads : tpc[t] = "exit"
  /\ main' = "done"
  /\ UNCHANGED <<ready, stop, fibers_count, tpc, cur, flock, fpc, cb, blocked>>

----------------------------------------------------------------------------
(* A thread of the pool.                                                   *)

(* The while of melon_sched_run, and the reset at the top of sched_next.   *)
SchedLoop(t) ==
  /\ tpc[t] = "loop"
  /\ TGoto(t, IF stop THEN "exit" ELSE "sched")
  /\ cur' = [cur EXCEPT ![t] = NULL]
  /\ UNCHANGED <<ready, stop, fibers_count, flock, fpc, cb, blocked, main>>

(* Mutant: the fiber is not taken out of the ready queue.                  *)
SchedNextPeek(t) ==
  /\ tpc[t] = "sched"
  /\ ~stop /\ ready # << >>
  /\ cur' = [cur EXCEPT ![t] = Head(ready)]
  /\ TGoto(t, "spin")
  /\ UNCHANGED <<ready, stop, fibers_count, flock, fpc, cb, blocked, main>>

(* sched_next under g_melon.lock: leave, take a fiber, or wait.            *)
SchedNext(t) ==
  /\ tpc[t] = "sched"
  /\ \/ /\ stop
        /\ TGoto(t, "loop")
        /\ UNCHANGED <<ready, cur>>
     \/ /\ ~stop /\ ready # << >>
        /\ cur' = [cur EXCEPT ![t] = Head(ready)]
        /\ ready' = Tail(ready)
        /\ TGoto(t, "spin")
     \/ /\ ~stop /\ ready = << >>
        /\ TGoto(t, "waiting")
        /\ UNCHANGED <<ready, cur>>
  /\ UNCHANGED <<stop, fibers_count, flock, fpc, cb, blocked, main>>

(* pthread_cond_wait may return without a signal.                          *)
SpuriousWake(t) ==
  /\ tpc[t] = "waiting"
  /\ TGoto(t, "sched")
  /\ UNCHANGED <<ready, stop, fibers_count, cur, flock, fpc, cb, blocked, main>>

SpuriousMainWake ==
  /\ main = "waiting"
  /\ main' = "wait"
  /\ UNCHANGED <<ready, stop, fibers_count, tpc, cur, flock, fpc, cb, blocked>>

(* The memory of a thread's current fiber is still there.                  *)
Touchable(t) == fpc[cur[t]] # "freed"

(* Mutant: the fiber is entered whether or not its lock is free.           *)
SchedEnterNoLock(t) ==
  /\ tpc[t] = "spin"
  /\ Touchable(t)
  /\ flock' = [flock EXCEPT ![cur[t]] = t]
  /\ FGoto(cur[t], "body")
  /\ TGoto(t, "running")
  /\ UNCHANGED <<ready, stop, fibers_count, cur, cb, blocked, main>>

(* The fiber's lock is taken and its context entered.                      *)
SchedEnter(t) ==
  /\ tpc[t] = "spin"
  /\ Touchable(t)
  /\ flock[cur[t]] = NULL
  /\ flock' = [flock EXCEPT ![cur[t]] = t]
  /\ FGoto(cur[t], "body")
  /\ TGoto(t, "running")
  /\ UNCHANGED <<ready, stop, fibers_count, cur, cb, blocked, main>>

(* Back from the fiber: its lock is released ...                           *)
SchedUnlock(t) ==
  /\ tpc[t] = "swapped"
  /\ Touchable(t)
  /\ flock' = [flock EXCEPT ![cur[t]] = NULL]
  /\ TGoto(t, "unlocked")
  /\ UNCHANGED <<ready, stop, fibers_count, cur, fpc, cb, blocked, main>>

(* Mutant: the callback is forgotten.                                      *)
SchedCallbackLost(t) ==
  /\ tpc[t] = "unlocked"
  /\ Touchable(t)
  /\ TGoto(t, "loop")
  /\ UNCHANGED <<ready, stop, fibers_count, cur, flock, fpc, cb, blocked, main>>

(* ... and, with no lock held, its callback is looked for, ...             *)
SchedCallback(t) ==
  /\ tpc[t] = "unlocked"
  /\ Touchable(t)
  /\ TGoto(t, IF cur[t] \in cb THEN "tested" ELSE "loop")
  /\ UNCHANGED <<ready, stop, fibers_count, cur, flock, fpc, cb, blocked, main>>

(* ... read, which when another thread has cleared it meanwhile ends in a  *)
(* call through NULL, and the thread stops here, ...                       *)
SchedCopy(t) ==
  /\ tpc[t] = "tested"
  /\ Touchable(t)
  /\ cur[t] \in cb
  /\ TGoto(t, "copied")
  /\ UNCHANGED <<ready, stop, fibers_count, cur, flock, fpc, cb, blocked, main>>

(* ... and cleared.                                                        *)
SchedClear(t) ==
  /\ tpc[t] = "copied"
  /\ Touchable(t)
  /\ cb' = cb \ {cur[t]}
  /\ TGoto(t, "call")
  /\ UNCHANGED <<ready, stop, fibers_count, cur, flock, fpc, blocked, main>>

(* melon_fiber_destroy, the one callback there is.                         *)
FiberDestroy(t) ==
  /\ tpc[t] = "call"
  /\ Touchable(t)
  /\ FGoto(cur[t], "freed")
  /\ cur' = [cur EXCEPT ![t] = NULL]
  /\ TGoto(t, "loop")
  /\ UNCHANGED <<ready, stop, fibers_count, flock, cb, blocked, main>>

----------------------------------------------------------------------------
(* The fiber that runs on a thread.                                        *)
Runs(t, l) == tpc[t] = "running" /\ fpc[cur[t]] = l

(* It creates another fiber.                                               *)
FiberSpawn(t, g) ==
  /\ Runs(t, "body")
  /\ FiberStart(g)
  /\ UNCHANGED <<stop, cur, flock, cb, blocked, main>>

(* It links itself in the queue of what it waits for.                      *)
FiberBlock(t) ==
  /\ MayBlock
  /\ Runs(t, "body")
  /\ blocked' = blocked \cup {cur[t]}
  /\ FGoto(cur[t], "parked")
  /\ UNCHANGED <<ready, stop, fibers_count, tpc, cur, flock, cb, main>>

(* Mutant: the fiber is woken and stays linked.                            *)
WakeKeepsLink(f) ==
  /\ f \in blocked
  /\ SchedReady(f)
  /\ UNCHANGED <<stop, fibers_count, cur, flock, fpc, cb, blocked, main>>

(* What it waits for happens: some thread makes it ready.                  *)
Wake(f) ==
  /\ f \in blocked
  /\ blocked' = blocked \ {f}
  /\ SchedReady(f)
  /\ UNCHANGED <<stop, fibers_count, cur, flock, fpc, cb, main>>

(* melon_sched_next.                                                       *)
FiberSwap(t) ==
  /\ Runs(t, "parked") \/ Runs(t, "gone")
  /\ TGoto(t, "swapped")
  /\ UNCHANGED <<ready, stop, fibers_count, cur, flock, fpc, cb, blocked, main>>

(* melon_fiber_wrapper after the start callback: the count drops, ...      *)
FiberCount(t) ==
  /\ Runs(t, "body")
  /\ fibers_count' = fibers_count - 1
  /\ FGoto(cur[t], IF fibers_count' = 0 THEN "zero" ELSE "exit")
  /\ UNCHANGED <<ready, stop, tpc, cur, flock, cb, blocked, main>>

(* Mutant: the last fiber forgets the broadcast.                           *)
FiberBroadcastLost(t) ==
  /\ Runs(t, "zero")
  /\ FGoto(cur[t], "exit")
  /\ UNCHANGED <<ready, stop, fibers_count, tpc, cur, flock, cb, blocked, main>>

(* ... the last fiber wakes melon_wait, under g_melon.lock, ...            *)
FiberBroadcast(t) ==
  /\ Runs(t, "zero")
  /\ main' = IF main = "waiting" THEN "wait" ELSE main
  /\ FGoto(cur[t], "exit")
  /\ UNCHANGED <<ready, stop, fibers_count, tpc, cur, flock, cb, blocked>>

(* Mutant: the fiber destroys itself.                                      *)
FiberExitFrees(t) ==
  /\ Runs(t, "exit")
  /\ FGoto(cur[t], "freed")
  /\ UNCHANGED <<ready, stop, fibers_count, tpc, cur, flock, cb, blocked, main>>

(* ... and the thread is asked to destroy the fiber.                       *)
FiberExit(t) ==
  /\ Runs(t, "exit")
  /\ cb' = cb \cup {cur[t]}
  /\ FGoto(cur[t], "gone")
  /\ UNCHANGED <<ready, stop, fibers_count, tpc, cur, flock, blocked, main>>

----------------------------------------------------------------------------
ThreadStep(t) ==
  \/ SchedLoop(t)
  \/ SchedNext(t)
  \/ SchedEnter(t)
  \/ SchedUnlock(t)
  \/ SchedCallback(t) \/ SchedCopy(t) \/ SchedClear(t)
  \/ FiberDestroy(t)
  \/ FiberSwap(t)
  \/ FiberBroadcast(t)
  \/ FiberExit(t)

MainStep ==
  \/ JoinAfterFailure
  \/ MainWait
  \/ MainDeinit
  \/ MainJoin

Next ==
  \/ \E t \in Threads :
       \/ CreateThread(t)
       \/ ThreadStep(t)
       \/ SpuriousWake(t)
       \/ FiberBlock(t)
       \/ FiberCount(t)
       \/ \E g \in Fibers : FiberSpawn(t, g)
  \/ \E f \in Fibers : MainStart(f) \/ Wake(f)
  \/ CreateFails
  \/ SpuriousMainWake
  \/ MainStep

Spec == Init /\ [][Next]_vars

(***************************************************************************)
(* Threads run; every event a fiber waits for happens; and every fiber's   *)
(* start callback returns, however often the fiber blocks before.          *)
(***************************************************************************)
Fairness ==
  /\ \A t \in Threads : WF_vars(ThreadStep(t)) /\ WF_vars(CreateThread(t))
  /\ WF_vars(MainStep)
  /\ \A f \in Fibers :
       /\ WF_vars(Wake(f))
       /\ SF_vars(\E t \in Threads : cur[t] = f /\ FiberCount(t))

FairSpec == Spec /\ Fairness

----------------------------------------------------------------------------
(* The argument behind RunOnce: a thread that has or had a fiber in hand    *)
(* knows it, and a thread inside one holds the lock of that fiber.         *)
Calling == {"tested", "copied", "call"}
InHand == {"spin", "running", "swapped", "unlocked"} \cup Calling
Inside == {"running", "swapped"}
LockHeld ==
  \A t \in Threads :
    /\ tpc[t] \in InHand => cur[t] \in Fibers
    /\ tpc[t] \in Inside => flock[cur[t]] = t

(* Holds in every state and is kept by every step of the scheduler.        *)
SchedInv == TypeOK /\ LockHeld

(* fiber->lock is "locked while running the fiber so it can't be ran two   *)
(* times": between SchedEnter and the swap back no other thread is in the  *)
(* same fiber, even when the fiber is made ready before it has swapped     *)
(* out.                                                                    *)
RunOnce ==
  \A t, u \in Threads :
    /\ tpc[t] \in Inside /\ tpc[u] \in Inside
    /\ cur[t] = cur[u]
    => t = u

(* A fiber is due at most once: it is never twice in the ready queue, nor  *)
(* queued while a thread is about to enter it, nor queued while it can     *)
(* still be woken.                                                         *)
Due(f) == {i \in 1..Len(ready) : ready[i] = f}
Entering(f) == {t \in Threads : tpc[t] = "spin" /\ cur[t] = f}
DueOnce ==
  \A f \in Fibers :
    Cardinality(Due(f)) + Cardinality(Entering(f))
      + (IF f \in blocked THEN 1 ELSE 0) <= 1

(* No wake-up of a thread is lost: a thread sleeps on ready_cond only if   *)
(* every queued fiber has an awake thread on its way to it.                *)
WorkConserving ==
  Waiting # {} /\ ~stop =>
    Len(ready) <= Cardinality({t \in Threads : tpc[t] = "sched"})

(* No thread is about to read or write a fiber that has been freed.        *)
NoUseAfterFree ==
  \A t \in Threads : tpc[t] \in InHand => Touchable(t)

(* The callback a thread copied is an "after sched_next callback": when it *)
(* runs, the fiber it destroys is not on any thread any more.              *)
CallbackAfterSwap ==
  \A t, u \in Threads :
    tpc[t] = "call" /\ tpc[u] \in Inside => cur[u] # cur[t]

(* melon_wait returns only when the start callback of every fiber has      *)
(* returned, those of fibers created meanwhile by other fibers included.   *)
Unfinished == {f \in Fibers : fpc[f] \in {"body", "parked"}}
WaitMeansFinished == main \in {"waited", "stopping", "done"} => Unfinished = {}

(* melon_wait misses no wake-up: it sleeps with the count at 0 only while  *)
(* the fiber that brought it there has its broadcast still to do.          *)
WaitNotMissed ==
  main = "waiting" /\ fibers_count = 0 => \E f \in Fibers : fpc[f] = "zero"

(* When melon_deinit returns every fiber has been freed: a thread that     *)
(* sees stop has already run the callback of its last fiber.               *)
NothingLeaks ==
  main = "done" => \A f \in Fibers : fpc[f] \in {"none", "freed"}

(* melon_wait returns and melon_deinit joins every thread of the pool.     *)
WaitReturns == main \in {"wait", "waiting"} ~> main = "waited"
DeinitReturns == main = "stopping" ~> main = "done"
=============================================================================
