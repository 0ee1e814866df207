---------------------------- MODULE SchedProofs ----------------------------
(***************************************************************************)
(* The scheduler, for any pool of threads and any number of fibers.  In    *)
(* this order: a fiber never runs on two threads at once and is due to run *)
(* at most once; a thread does not sleep on work it was told of; what      *)
(* melon_wait and melon_deinit promise the main thread; and, for programs  *)
(* whose fibers never block, that nothing freed is used and that a         *)
(* callback runs after the switch.  The run of SchedRace.cfg shows that    *)
(* the last does not hold once fibers block.                               *)
(***************************************************************************)
EXTENDS Sched, DlistProofs, FiniteSetTheorems

USE SchedAssumption

(* The state melon_init starts from.                                       *)
LEMMA InitSchedInv == Init => SchedInv
<1> SUFFICES ASSUME Init PROVE SchedInv
  OBVIOUS
<1>1. << >> \in Seq(Fibers)
  OBVIOUS
<1>2. TypeOK
  <2>1. /\ tpc \in [Threads -> TPCs] /\ fpc \in [Fibers -> FPCs] /\ main \in MPCs
    BY DEF Init, TPCs, FPCs, MPCs
  <2>2. /\ cur \in [Threads -> Fibers \cup {NULL}]
        /\ flock \in [Fibers -> Threads \cup {NULL}]
    BY DEF Init
  <2>3. stop \in BOOLEAN
    BY Zenon DEF Init
  <2>4. fibers_count \in Int /\ cb \subseteq Fibers /\ blocked \subseteq Fibers
    BY DEF Init
  <2> QED BY <1>1, <2>1, <2>2, <2>3, <2>4 DEF Init, TypeOK
<1>3. LockHeld
  BY DEF Init, LockHeld, InHand, Calling, Inside
<1> QED BY <1>2, <1>3 DEF SchedInv

(* pthread_cond_signal on ready_cond moves no thread into or out of a      *)
(* fiber.                                                                  *)
LEMMA SignalKeepsThreads ==
  ASSUME TypeOK, SignalReady
  PROVE  /\ tpc' \in [Threads -> TPCs]
         /\ \A t \in Threads : tpc'[t] = tpc[t] \/ tpc'[t] = "sched"
<1>1. CASE Waiting = {}
  BY <1>1 DEF SignalReady, TypeOK
<1>2. CASE Waiting # {}
  <2>1. PICK t \in Waiting : tpc' = [tpc EXCEPT ![t] = "sched"]
    BY <1>2 DEF SignalReady, TGoto
  <2> QED BY <2>1 DEF Waiting, TypeOK, TPCs
<1> QED BY <1>1, <1>2

(* melon_sched_ready keeps the queue a queue of fibers, and the threads    *)
(* where they are.                                                         *)
LEMMA SchedReadyKeeps ==
  ASSUME TypeOK, NEW f \in Fibers, SchedReady(f)
  PROVE  /\ ready' \in Seq(Fibers)
         /\ tpc' \in [Threads -> TPCs]
         /\ \A t \in Threads : tpc'[t] = tpc[t] \/ tpc'[t] = "sched"
<1>1. ready' \in Seq(Fibers)
  BY AppendProperties DEF SchedReady, TypeOK
<1> QED BY <1>1, SignalKeepsThreads DEF SchedReady

(* Creating a fiber, from the main thread or from a fiber.                 *)
LEMMA FiberStartInv ==
  ASSUME SchedInv, NEW f \in Fibers, FiberStart(f),
         UNCHANGED <<stop, cur, flock, cb, blocked, main>>
  PROVE  SchedInv'
<1>1. /\ ready' \in Seq(Fibers) /\ tpc' \in [Threads -> TPCs]
      /\ \A t \in Threads : tpc'[t] = tpc[t] \/ tpc'[t] = "sched"
  BY SchedReadyKeeps DEF FiberStart, SchedInv
<1>2. TypeOK'
  BY <1>1 DEF SchedInv, TypeOK, FiberStart, FGoto, FPCs
<1>3. LockHeld'
  BY <1>1 DEF SchedInv, LockHeld, InHand, Calling, Inside
<1> QED BY <1>2, <1>3 DEF SchedInv

(* Waking a blocked fiber.                                                 *)
LEMMA WakeInv ==
  ASSUME SchedInv, NEW f \in Fibers, Wake(f) PROVE SchedInv'
<1>1. /\ ready' \in Seq(Fibers) /\ tpc' \in [Threads -> TPCs]
      /\ \A t \in Threads : tpc'[t] = tpc[t] \/ tpc'[t] = "sched"
  BY SchedReadyKeeps DEF Wake, SchedInv
<1>2. TypeOK'
  BY <1>1 DEF SchedInv, TypeOK, Wake
<1>3. LockHeld'
  BY <1>1 DEF SchedInv, LockHeld, InHand, Calling, Inside, Wake
<1> QED BY <1>2, <1>3 DEF SchedInv

(* sched_next under g_melon.lock.                                          *)
LEMMA SchedNextInv ==
  ASSUME SchedInv, NEW t \in Threads, SchedNext(t) PROVE SchedInv'
<1> USE DEF SchedInv, SchedNext, TGoto
<1>1. CASE ~stop /\ ready # << >>
  <2>1. Head(ready) \in Fibers /\ Tail(ready) \in Seq(Fibers)
    BY <1>1, HeadTailProperties DEF TypeOK
  <2>2. /\ cur' = [cur EXCEPT ![t] = Head(ready)] /\ ready' = Tail(ready)
        /\ tpc' = [tpc EXCEPT ![t] = "spin"]
        /\ UNCHANGED <<stop, fibers_count, flock, fpc, cb, blocked, main>>
    BY <1>1
  <2>3. TypeOK'
    BY <2>1, <2>2 DEF TypeOK, TPCs
  <2>4. LockHeld'
    BY <2>1, <2>2 DEF TypeOK, LockHeld, InHand, Calling, Inside
  <2> QED BY <2>3, <2>4
<1>2. CASE stop \/ ready = << >>
  <2>1. TypeOK'
    BY <1>2 DEF TypeOK, TPCs
  <2>2. LockHeld'
    BY <1>2 DEF TypeOK, LockHeld, InHand, Calling, Inside
  <2> QED BY <2>1, <2>2
<1> QED BY <1>1, <1>2

(* The steps of a thread that enters, leaves or destroys a fiber.          *)
LEMMA SchedRunInv ==
  ASSUME SchedInv, NEW t \in Threads,
         \/ SchedLoop(t) \/ SchedEnter(t) \/ SchedUnlock(t)
         \/ SchedCallback(t) \/ SchedCopy(t) \/ SchedClear(t) \/ FiberDestroy(t)
  PROVE  SchedInv'
<1> USE DEF SchedInv, TGoto, FGoto
<1>1. CASE SchedLoop(t)
  BY <1>1 DEF SchedLoop, TypeOK, TPCs, LockHeld, InHand, Calling, Inside
<1>2. CASE SchedEnter(t)
  <2>1. cur[t] \in Fibers /\ flock[cur[t]] = NULL
    BY <1>2 DEF SchedEnter, LockHeld, InHand, Calling
  <2>2. TypeOK'
    BY <1>2, <2>1 DEF SchedEnter, TypeOK, TPCs, FPCs
  <2>3. \A u \in Threads \ {t} : tpc[u] \in Inside => cur[u] # cur[t]
    BY <2>1 DEF LockHeld
  <2>4. LockHeld'
    BY <1>2, <2>1, <2>3 DEF SchedEnter, TypeOK, LockHeld, InHand, Calling, Inside
  <2> QED BY <2>2, <2>4
<1>3. CASE SchedUnlock(t)
  <2>1. cur[t] \in Fibers /\ flock[cur[t]] = t
    BY <1>3 DEF SchedUnlock, LockHeld, InHand, Calling, Inside
  <2>2. TypeOK'
    BY <1>3, <2>1 DEF SchedUnlock, TypeOK, TPCs
  <2>3. \A u \in Threads \ {t} : tpc[u] \in Inside => cur[u] # cur[t]
    BY <2>1 DEF LockHeld
  <2>4. LockHeld'
    BY <1>3, <2>1, <2>3 DEF SchedUnlock, TypeOK, LockHeld, InHand, Calling, Inside
  <2> QED BY <2>2, <2>4
<1>4. CASE SchedCallback(t) \/ SchedCopy(t) \/ SchedClear(t)
  BY <1>4 DEF SchedCallback, SchedCopy, SchedClear, TypeOK, TPCs, LockHeld, InHand,
              Calling, Inside
<1>5. CASE FiberDestroy(t)
  BY <1>5 DEF FiberDestroy, TypeOK, TPCs, FPCs, LockHeld, InHand, Calling, Inside
<1> QED BY <1>1, <1>2, <1>3, <1>4, <1>5

(* The steps of the fiber a thread is inside of.                           *)
LEMMA FiberInv ==
  ASSUME SchedInv, NEW t \in Threads,
         \/ FiberSwap(t) \/ FiberBroadcast(t) \/ FiberExit(t)
         \/ FiberBlock(t) \/ FiberCount(t)
  PROVE  SchedInv'
<1> USE DEF SchedInv, TGoto, FGoto, Runs
<1>0. cur[t] \in Fibers
  BY DEF LockHeld, InHand, Calling, FiberSwap, FiberBroadcast, FiberExit, FiberBlock,
         FiberCount
<1>1. CASE FiberSwap(t)
  BY <1>0, <1>1 DEF FiberSwap, TypeOK, TPCs, LockHeld, InHand, Calling, Inside
<1>2. CASE FiberBroadcast(t)
  BY <1>0, <1>2 DEF FiberBroadcast, TypeOK, FPCs, MPCs, LockHeld
<1>3. CASE FiberExit(t)
  BY <1>0, <1>3 DEF FiberExit, TypeOK, FPCs, LockHeld
<1>4. CASE FiberBlock(t)
  BY <1>0, <1>4 DEF FiberBlock, TypeOK, FPCs, LockHeld
<1>5. CASE FiberCount(t)
  BY <1>0, <1>5 DEF FiberCount, TypeOK, FPCs, LockHeld
<1> QED BY <1>1, <1>2, <1>3, <1>4, <1>5

(* The steps of the main thread, and the wake-ups without a signal.        *)
LEMMA MainInv ==
  ASSUME SchedInv,
         \/ \E t \in Threads : CreateThread(t) \/ SpuriousWake(t)
         \/ CreateFails \/ SpuriousMainWake \/ MainStep
  PROVE  SchedInv'
<1> USE DEF SchedInv, TGoto
<1>1. ASSUME NEW t \in Threads, CreateThread(t) PROVE SchedInv'
  BY <1>1 DEF CreateThread, TypeOK, TPCs, MPCs, LockHeld, InHand, Calling, Inside
<1>2. ASSUME NEW t \in Threads, SpuriousWake(t) PROVE SchedInv'
  BY <1>2 DEF SpuriousWake, TypeOK, TPCs, LockHeld, InHand, Calling, Inside
<1>3. CASE CreateFails \/ SpuriousMainWake \/ JoinAfterFailure \/ MainWait \/ MainJoin
  BY <1>3 DEF CreateFails, SpuriousMainWake, JoinAfterFailure, MainWait, MainJoin,
              TypeOK, MPCs, LockHeld
<1>4. CASE MainDeinit
  <2>1. /\ tpc' \in [Threads -> TPCs]
        /\ \A t \in Threads : tpc'[t] = tpc[t] \/ tpc'[t] = "sched"
    BY <1>4 DEF MainDeinit, BroadcastReady, TypeOK, TPCs
  <2>2. TypeOK'
    BY <1>4, <2>1 DEF MainDeinit, TypeOK, MPCs
  <2>3. LockHeld'
    BY <1>4, <2>1 DEF MainDeinit, LockHeld, InHand, Calling, Inside
  <2> QED BY <2>2, <2>3
<1> QED BY <1>1, <1>2, <1>3, <1>4 DEF MainStep

(* The types and LockHeld hold in every state of the scheduler.            *)
THEOREM SchedInvariant == Spec => []SchedInv
<1>1. SchedInv /\ [Next]_vars => SchedInv'
  <2> SUFFICES ASSUME SchedInv, [Next]_vars PROVE SchedInv'
    OBVIOUS
  <2>1. CASE UNCHANGED vars
    BY <2>1 DEF vars, SchedInv, TypeOK, LockHeld
  <2>2. ASSUME NEW t \in Threads, ThreadStep(t) PROVE SchedInv'
    BY <2>2, SchedNextInv, SchedRunInv, FiberInv DEF ThreadStep
  <2>3. ASSUME NEW t \in Threads, FiberBlock(t) \/ FiberCount(t) PROVE SchedInv'
    BY <2>3, FiberInv
  <2>4. ASSUME NEW t \in Threads, NEW g \in Fibers, FiberSpawn(t, g) PROVE SchedInv'
    BY <2>4, FiberStartInv DEF FiberSpawn
  <2>5. ASSUME NEW f \in Fibers, MainStart(f) \/ Wake(f) PROVE SchedInv'
    BY <2>5, FiberStartInv, WakeInv DEF MainStart
  <2> QED BY <2>1, <2>2, <2>3, <2>4, <2>5, MainInv DEF Next
<1> QED BY <1>1, InitSchedInv, PTL DEF Spec

(* No fiber is ever run by two threads at once, whatever the number of     *)
(* threads and fibers and however early a fiber is made ready.             *)
THEOREM FiberRunsOnce == Spec => []RunOnce
<1>1. SchedInv => RunOnce
  BY DEF SchedInv, LockHeld, RunOnce, InHand, Calling, Inside
<1> QED BY <1>1, SchedInvariant, PTL

----------------------------------------------------------------------------
(***************************************************************************)
(* A fiber is due once.  DueOnce alone is not inductive: FiberBlock links  *)
(* the fiber it is called by, which must not be due already.  DueInv says  *)
(* that a fiber that runs and has not parked itself is due nowhere, which  *)
(* rests on LockHeld: two threads would else be inside it.                 *)
(***************************************************************************)
Live == {"body", "parked"}
Linked == Elems(ready) \cup blocked

QueuesApart == NoDup(ready) /\ Elems(ready) \cap blocked = {}
LinkedLive == \A f \in Linked : fpc[f] \in Live
EnteringOnce ==
  \A t \in Threads : tpc[t] = "spin" =>
    /\ cur[t] \notin Linked /\ fpc[cur[t]] \in Live
    /\ \A u \in Threads : tpc[u] = "spin" /\ cur[u] = cur[t] => u = t
RunningNotDue ==
  \A t \in Threads : tpc[t] = "running" =>
    /\ fpc[cur[t]] # "none"
    /\ fpc[cur[t]] # "parked" =>
         cur[t] \notin Linked /\ \A u \in Threads : tpc[u] = "spin" => cur[u] # cur[t]
DestroysDead ==
  /\ \A f \in cb : fpc[f] \in {"gone", "freed"}
  /\ \A t \in Threads : tpc[t] \in Calling => fpc[cur[t]] \in {"gone", "freed"}

DueInv == QueuesApart /\ LinkedLive /\ EnteringOnce /\ RunningNotDue /\ DestroysDead

(* Making a fiber ready: it is the one more in the queue, and no thread    *)
(* enters, leaves or runs a fiber by that.                                 *)
LEMMA SchedReadyAdds ==
  ASSUME TypeOK, NEW f \in Fibers, SchedReady(f)
  PROVE  /\ Elems(ready') = Elems(ready) \cup {f}
         /\ NoDup(ready) /\ f \notin Elems(ready) => NoDup(ready')
         /\ \A t \in Threads, l \in TPCs \ {"sched", "waiting"} :
              tpc'[t] = l <=> tpc[t] = l
<1>1. ready' = DlistPush(ready, f) /\ ready \in Seq(Fibers)
  BY DEF SchedReady, DlistPush, TypeOK
<1>2. \A t \in Threads : tpc'[t] = tpc[t] \/ (tpc[t] = "waiting" /\ tpc'[t] = "sched")
  <2>1. CASE Waiting = {}
    BY <2>1 DEF SchedReady, SignalReady
  <2>2. CASE Waiting # {}
    <3>1. PICK w \in Waiting : tpc' = [tpc EXCEPT ![w] = "sched"]
      BY <2>2 DEF SchedReady, SignalReady, TGoto
    <3> QED BY <3>1 DEF Waiting, TypeOK
  <2> QED BY <2>1, <2>2
<1>3. \A t \in Threads, l \in TPCs \ {"sched", "waiting"} : tpc'[t] = l <=> tpc[t] = l
  BY <1>2 DEF TPCs
<1>4. /\ Elems(DlistPush(ready, f)) = Elems(ready) \cup {f}
      /\ NoDup(ready) /\ f \notin Elems(ready) => NoDup(DlistPush(ready, f))
  <2>1. ready \in Seq(Fibers)
    BY <1>1
  <2> QED BY <2>1, PushElems
<1> QED BY <1>1, <1>3, <1>4

(* Creating a fiber: it was nowhere.                                       *)
LEMMA DueFiberStart ==
  ASSUME SchedInv, DueInv, NEW f \in Fibers, FiberStart(f),
         UNCHANGED <<stop, cur, flock, cb, blocked, main>>
  PROVE  DueInv'
<1> USE DEF SchedInv
<1>1. fpc[f] = "none" /\ fpc' = [fpc EXCEPT ![f] = "body"] /\ SchedReady(f)
  BY DEF FiberStart, FGoto
<1>2. f \notin Linked
  BY <1>1 DEF DueInv, LinkedLive, Live
<1>3. /\ Linked' = Linked \cup {f}
      /\ \A t \in Threads : /\ tpc'[t] = "spin" <=> tpc[t] = "spin"
                            /\ tpc'[t] = "running" <=> tpc[t] = "running"
                            /\ tpc'[t] \in Calling <=> tpc[t] \in Calling
  BY <1>1, SchedReadyAdds DEF Linked, TPCs, Calling
<1>4. QueuesApart'
  BY <1>1, <1>2, SchedReadyAdds DEF DueInv, QueuesApart, Linked
<1>5. \A g \in Fibers : fpc'[g] = IF g = f THEN "body" ELSE fpc[g]
  BY <1>1 DEF TypeOK
<1>6. \A g \in Linked : g \in Fibers
  BY DEF Linked, Elems, TypeOK
<1>7. LinkedLive'
  BY <1>3, <1>5, <1>6 DEF DueInv, LinkedLive, Live
<1>8. \A t \in Threads : tpc[t] \in {"spin", "running"} \cup Calling => cur[t] \in Fibers
  BY DEF LockHeld, InHand, Calling
<1>9. \A t \in Threads : tpc[t] \in {"spin", "running"} \cup Calling => cur[t] # f
  BY <1>1, <1>8 DEF DueInv, EnteringOnce, RunningNotDue, DestroysDead, Live
<1>10. EnteringOnce'
  BY <1>3, <1>5, <1>8, <1>9 DEF DueInv, EnteringOnce
<1>11. RunningNotDue'
  BY <1>3, <1>5, <1>8, <1>9 DEF DueInv, RunningNotDue
<1>12. DestroysDead'
  BY <1>1, <1>3, <1>5, <1>8, <1>9 DEF DueInv, DestroysDead, TypeOK
<1> QED BY <1>4, <1>7, <1>10, <1>11, <1>12 DEF DueInv

(* Waking a fiber moves it from the blocked ones to the ready queue.       *)
LEMMA DueWake ==
  ASSUME SchedInv, DueInv, NEW f \in Fibers, Wake(f) PROVE DueInv'
<1> USE DEF SchedInv
<1>1. f \in blocked /\ blocked' = blocked \ {f} /\ SchedReady(f)
      /\ UNCHANGED <<cur, fpc, cb>>
  BY DEF Wake
<1>2. f \notin Elems(ready)
  BY <1>1 DEF DueInv, QueuesApart
<1>3. /\ Linked' = Linked
      /\ \A t \in Threads : /\ tpc'[t] = "spin" <=> tpc[t] = "spin"
                            /\ tpc'[t] = "running" <=> tpc[t] = "running"
                            /\ tpc'[t] \in Calling <=> tpc[t] \in Calling
  BY <1>1, SchedReadyAdds DEF Linked, TPCs, Calling
<1>4. QueuesApart'
  BY <1>1, <1>2, SchedReadyAdds DEF DueInv, QueuesApart
<1> QED BY <1>1, <1>3, <1>4 DEF DueInv, LinkedLive, EnteringOnce, RunningNotDue, DestroysDead

(* sched_next takes the head of the queue, which is due nowhere else.      *)
LEMMA DueSchedNext ==
  ASSUME SchedInv, DueInv, NEW t \in Threads, SchedNext(t) PROVE DueInv'
<1> USE DEF SchedInv
<1>1. CASE ~stop /\ ready # << >>
  <2> DEFINE f == Head(ready)
  <2>1. /\ f \in Elems(ready) /\ NoDup(Tail(ready))
        /\ Elems(Tail(ready)) = Elems(ready) \ {f}
    BY <1>1, PopElems DEF TypeOK, DueInv, QueuesApart
  <2>2. /\ tpc[t] = "sched" /\ tpc' = [tpc EXCEPT ![t] = "spin"]
        /\ cur' = [cur EXCEPT ![t] = f] /\ ready' = Tail(ready)
        /\ UNCHANGED <<fpc, cb, blocked>>
    BY <1>1 DEF SchedNext, TGoto
  <2> HIDE DEF f
  <2>3. Linked' = Linked \ {f} /\ f \in Linked /\ fpc[f] \in Live
    BY <2>1, <2>2 DEF Linked, DueInv, QueuesApart, LinkedLive
  <2>4. QueuesApart' /\ LinkedLive'
    BY <2>1, <2>2, <2>3 DEF DueInv, QueuesApart, LinkedLive
  <2>5. /\ \A u \in Threads \ {t} : tpc'[u] = tpc[u] /\ cur'[u] = cur[u]
        /\ tpc'[t] = "spin" /\ cur'[t] = f
    BY <2>2 DEF TypeOK
  <2>6. EnteringOnce'
    BY <2>2, <2>3, <2>5 DEF DueInv, EnteringOnce
  <2>7. RunningNotDue' /\ DestroysDead'
    BY <2>2, <2>3, <2>5 DEF DueInv, RunningNotDue, DestroysDead, Live, Calling
  <2> QED BY <2>4, <2>6, <2>7 DEF DueInv
<1>2. CASE stop \/ ready = << >>
  <2>1. /\ tpc[t] = "sched" /\ UNCHANGED <<ready, cur, fpc, cb, blocked>>
        /\ \E l \in {"loop", "waiting"} : tpc' = [tpc EXCEPT ![t] = l]
    BY <1>2 DEF SchedNext, TGoto
  <2>2. \A u \in Threads, l \in {"spin", "running"} \cup Calling : tpc'[u] = l <=> tpc[u] = l
    BY <2>1 DEF TypeOK, Calling
  <2> QED BY <2>1, <2>2 DEF DueInv, QueuesApart, LinkedLive, EnteringOnce, RunningNotDue,
                            DestroysDead, Linked
<1> QED BY <1>1, <1>2

(* Entering a fiber: no other thread is inside it, by the lock.            *)
LEMMA DueSchedEnter ==
  ASSUME SchedInv, DueInv, NEW t \in Threads, SchedEnter(t) PROVE DueInv'
<1> DEFINE f == cur[t]
<1>1. /\ tpc[t] = "spin" /\ tpc' = [tpc EXCEPT ![t] = "running"]
      /\ flock[f] = NULL /\ fpc' = [fpc EXCEPT ![f] = "body"]
      /\ UNCHANGED <<ready, cur, cb, blocked>>
  BY DEF SchedEnter, TGoto, FGoto
<1>2. f \in Fibers /\ f \notin Linked /\ fpc[f] \in Live
  BY <1>1 DEF SchedInv, LockHeld, InHand, Calling, DueInv, EnteringOnce
<1>3. /\ \A u \in Threads : tpc'[u] = IF u = t THEN "running" ELSE tpc[u]
      /\ \A g \in Fibers : fpc'[g] = IF g = f THEN "body" ELSE fpc[g]
  BY <1>1, <1>2 DEF SchedInv, TypeOK
<1>4. \A u \in Threads : tpc[u] \in {"spin", "running"} \cup Calling => cur[u] \in Fibers
  BY DEF SchedInv, LockHeld, InHand, Calling
<1>5. \A u \in Threads : tpc[u] = "running" => cur[u] # f
  BY <1>1 DEF SchedInv, LockHeld, Inside, SchedAssumption
<1>6. \A u \in Threads \ {t} : tpc[u] = "spin" => cur[u] # f
  BY <1>1 DEF DueInv, EnteringOnce
<1>7. Linked \subseteq Fibers /\ Linked' = Linked /\ cb \subseteq Fibers
  BY <1>1 DEF Linked, Elems, SchedInv, TypeOK
<1> HIDE DEF f
<1>8. QueuesApart' /\ LinkedLive'
  BY <1>1, <1>3, <1>7 DEF DueInv, QueuesApart, LinkedLive, Live
<1>9. EnteringOnce'
  BY <1>1, <1>3, <1>4, <1>6, <1>7 DEF DueInv, EnteringOnce
<1>10. RunningNotDue'
  BY <1>1, <1>2, <1>3, <1>4, <1>5, <1>6, <1>7 DEF DueInv, RunningNotDue, f
<1>11. DestroysDead'
  BY <1>1, <1>2, <1>3, <1>4, <1>7 DEF DueInv, DestroysDead, Live, Calling
<1> QED BY <1>8, <1>9, <1>10, <1>11 DEF DueInv

(* The steps of a thread that leaves or destroys a fiber.                  *)
LEMMA DueSchedRun ==
  ASSUME SchedInv, DueInv, NEW t \in Threads,
         \/ SchedLoop(t) \/ SchedUnlock(t) \/ SchedCallback(t) \/ SchedCopy(t)
         \/ SchedClear(t) \/ FiberDestroy(t)
  PROVE  DueInv'
<1>0. /\ \A u \in Threads : tpc[u] \in {"spin", "running"} \cup Calling => cur[u] \in Fibers
      /\ Linked \subseteq Fibers /\ cb \subseteq Fibers
  BY DEF SchedInv, LockHeld, InHand, Calling, Linked, Elems, TypeOK
<1>1. CASE SchedLoop(t) \/ SchedUnlock(t) \/ SchedCallback(t) \/ SchedCopy(t) \/ SchedClear(t)
  <2>1. /\ tpc[t] \in {"loop", "swapped", "unlocked"} \cup Calling
        /\ \A u \in Threads \ {t} : tpc'[u] = tpc[u] /\ cur'[u] = cur[u]
        /\ tpc'[t] \notin {"spin", "running"}
        /\ tpc'[t] \in Calling => (tpc[t] \in Calling /\ cur'[t] = cur[t]) \/ cur'[t] \in cb
        /\ cb' \subseteq cb
        /\ UNCHANGED <<ready, fpc, blocked>>
    BY <1>1 DEF SchedLoop, SchedUnlock, SchedCallback, SchedCopy, SchedClear, TGoto,
                SchedInv, TypeOK, Calling
  <2> QED BY <2>1 DEF DueInv, QueuesApart, LinkedLive, EnteringOnce, RunningNotDue,
                      DestroysDead, Linked
<1>2. CASE FiberDestroy(t)
  <2>1. /\ tpc[t] = "call" /\ tpc'[t] = "loop" /\ fpc[cur[t]] \in {"gone", "freed"}
        /\ \A u \in Threads \ {t} : tpc'[u] = tpc[u] /\ cur'[u] = cur[u]
        /\ \A g \in Fibers : fpc'[g] = IF g = cur[t] THEN "freed" ELSE fpc[g]
        /\ UNCHANGED <<ready, cb, blocked>>
    BY <1>0, <1>2 DEF FiberDestroy, TGoto, FGoto, SchedInv, TypeOK, DueInv, DestroysDead,
                      Calling
  <2>2. QueuesApart' /\ LinkedLive'
    BY <1>0, <2>1 DEF DueInv, QueuesApart, LinkedLive, Live, Linked
  <2>3. EnteringOnce'
    BY <1>0, <2>1 DEF DueInv, EnteringOnce, Live, Linked
  <2>4. RunningNotDue' /\ DestroysDead'
    BY <1>0, <2>1 DEF DueInv, RunningNotDue, DestroysDead, Linked, Calling
  <2> QED BY <2>2, <2>3, <2>4 DEF DueInv
<1> QED BY <1>1, <1>2

(* The steps of the fiber a thread runs.                                   *)
LEMMA DueFiber ==
  ASSUME SchedInv, DueInv, NEW t \in Threads,
         \/ FiberSwap(t) \/ FiberBroadcast(t) \/ FiberExit(t)
         \/ FiberBlock(t) \/ FiberCount(t)
  PROVE  DueInv'
<1>0. /\ \A u \in Threads : tpc[u] \in {"spin", "running"} \cup Calling => cur[u] \in Fibers
      /\ Linked \subseteq Fibers /\ cb \subseteq Fibers
  BY DEF SchedInv, LockHeld, InHand, Calling, Linked, Elems, TypeOK
<1>1. CASE FiberSwap(t)
  <2>1. /\ \A u \in Threads : tpc'[u] = IF u = t THEN "swapped" ELSE tpc[u]
        /\ UNCHANGED <<ready, cur, fpc, cb, blocked>>
    BY <1>1 DEF FiberSwap, TGoto, SchedInv, TypeOK
  <2> QED BY <2>1 DEF DueInv, QueuesApart, LinkedLive, EnteringOnce, RunningNotDue,
                      DestroysDead, Linked, Calling
<1>2. CASE FiberBroadcast(t) \/ FiberExit(t) \/ FiberCount(t)
  <2>1. PICK l \in {"zero", "exit", "gone"} :
          /\ \A g \in Fibers : fpc'[g] = IF g = cur[t] THEN l ELSE fpc[g]
          /\ cb' \subseteq cb \cup {cur[t]}
          /\ cb' = cb \/ l = "gone"
          /\ UNCHANGED <<ready, cur, tpc, blocked>>
    BY <1>0, <1>2 DEF FiberBroadcast, FiberExit, FiberCount, FGoto, Runs, SchedInv, TypeOK
  <2>2. /\ tpc[t] = "running" /\ cur[t] \in Fibers
        /\ fpc[cur[t]] \notin {"parked", "gone", "freed"}
    BY <1>0, <1>2 DEF FiberBroadcast, FiberExit, FiberCount, Runs
  <2>3. /\ cur[t] \notin Linked
        /\ \A u \in Threads : tpc[u] \in {"spin"} \cup Calling => cur[u] # cur[t]
    BY <2>2 DEF DueInv, RunningNotDue, DestroysDead
  <2>4. cur[t] \notin cb
    BY <2>2 DEF DueInv, DestroysDead
  <2>5. QueuesApart' /\ LinkedLive'
    BY <1>0, <2>1, <2>3 DEF DueInv, QueuesApart, LinkedLive, Linked
  <2>6. EnteringOnce'
    BY <1>0, <2>1, <2>3 DEF DueInv, EnteringOnce, Linked
  <2>7. RunningNotDue'
    BY <1>0, <2>1, <2>3 DEF DueInv, RunningNotDue, Linked
  <2>8. DestroysDead'
    BY <1>0, <2>1, <2>2, <2>3, <2>4 DEF DueInv, DestroysDead
  <2> QED BY <2>5, <2>6, <2>7, <2>8 DEF DueInv
<1>3. CASE FiberBlock(t)
  <2> DEFINE f == cur[t]
  <2>1. /\ tpc[t] = "running" /\ f \in Fibers /\ fpc[f] = "body"
        /\ \A g \in Fibers : fpc'[g] = IF g = f THEN "parked" ELSE fpc[g]
        /\ blocked' = blocked \cup {f}
        /\ UNCHANGED <<ready, cur, tpc, cb>>
    BY <1>0, <1>3 DEF FiberBlock, FGoto, Runs, SchedInv, TypeOK
  <2>2. f \notin Linked /\ \A u \in Threads : tpc[u] = "spin" => cur[u] # f
    BY <2>1 DEF DueInv, RunningNotDue
  <2> HIDE DEF f
  <2>3. Linked' = Linked \cup {f}
    BY <2>1 DEF Linked
  <2>4. QueuesApart' /\ LinkedLive'
    BY <1>0, <2>1, <2>2, <2>3 DEF DueInv, QueuesApart, LinkedLive, Live, Linked
  <2>5. EnteringOnce'
    BY <1>0, <2>1, <2>2, <2>3 DEF DueInv, EnteringOnce
  <2>6. RunningNotDue'
    BY <1>0, <2>1, <2>2, <2>3 DEF DueInv, RunningNotDue
  <2>7. DestroysDead'
    BY <1>0, <2>1 DEF DueInv, DestroysDead
  <2> QED BY <2>4, <2>5, <2>6, <2>7 DEF DueInv
<1> QED BY <1>1, <1>2, <1>3

(* The main thread and the wake-ups without a signal.                      *)
LEMMA DueMain ==
  ASSUME SchedInv, DueInv,
         \/ \E t \in Threads : CreateThread(t) \/ SpuriousWake(t)
         \/ CreateFails \/ SpuriousMainWake \/ MainStep \/ UNCHANGED vars
  PROVE  DueInv'
<1>1. /\ \A u \in Threads, l \in {"spin", "running"} \cup Calling : tpc'[u] = l <=> tpc[u] = l
      /\ UNCHANGED <<ready, cur, fpc, cb, blocked>>
  <2>1. CASE \E t \in Threads : CreateThread(t) \/ SpuriousWake(t)
    BY <2>1 DEF CreateThread, SpuriousWake, TGoto, SchedInv, TypeOK, Calling
  <2>2. CASE CreateFails \/ SpuriousMainWake \/ JoinAfterFailure \/ MainWait \/ MainJoin
             \/ UNCHANGED vars
    BY <2>2 DEF CreateFails, SpuriousMainWake, JoinAfterFailure, MainWait, MainJoin, vars
  <2>3. CASE MainDeinit
    BY <2>3 DEF MainDeinit, BroadcastReady, Waiting, Calling
  <2> QED BY <2>1, <2>2, <2>3 DEF MainStep
<1> QED BY <1>1 DEF DueInv, QueuesApart, LinkedLive, EnteringOnce, RunningNotDue,
                    DestroysDead, Linked

(* DueInv holds in every state, with the types and LockHeld.               *)
LEMMA DueInvariant == Spec => [](SchedInv /\ DueInv)
<1>1. Init => DueInv
  BY DEF Init, DueInv, QueuesApart, NoDup, LinkedLive, EnteringOnce, RunningNotDue,
         DestroysDead, Linked, Elems, Calling
<1>2. SchedInv /\ DueInv /\ [Next]_vars => DueInv'
  <2> SUFFICES ASSUME SchedInv, DueInv, [Next]_vars PROVE DueInv'
    OBVIOUS
  <2>1. ASSUME NEW t \in Threads, ThreadStep(t) PROVE DueInv'
    BY <2>1, DueSchedNext, DueSchedEnter, DueSchedRun, DueFiber DEF ThreadStep
  <2>2. ASSUME NEW t \in Threads, FiberBlock(t) \/ FiberCount(t) PROVE DueInv'
    BY <2>2, DueFiber
  <2>3. ASSUME NEW t \in Threads, NEW g \in Fibers, FiberSpawn(t, g) PROVE DueInv'
    BY <2>3, DueFiberStart DEF FiberSpawn
  <2>4. ASSUME NEW f \in Fibers, MainStart(f) \/ Wake(f) PROVE DueInv'
    BY <2>4, DueFiberStart, DueWake DEF MainStart
  <2> QED BY <2>1, <2>2, <2>3, <2>4, DueMain DEF Next
<1> QED BY <1>1, <1>2, SchedInvariant, PTL DEF Spec

(* A set with at most one element.                                         *)
LEMMA AtMostOne ==
  ASSUME NEW S, \A x, y \in S : x = y
  PROVE  Cardinality(S) \in {0, 1} /\ (S = {} => Cardinality(S) = 0)
<1>1. CASE S = {}
  BY <1>1, FS_EmptySet
<1>2. CASE S # {}
  <2>1. PICK x \in S : S = {x}
    BY <1>2
  <2> QED BY <2>1, FS_Singleton
<1> QED BY <1>1, <1>2

(* A fiber is due at most once, for any threads and fibers: no fiber is    *)
(* queued twice, entered by two threads, or woken while it is queued,      *)
(* although it is linked before it has swapped out.                        *)
THEOREM FiberDueOnce == Spec => []DueOnce
<1>1. SchedInv /\ DueInv => DueOnce
  <2> SUFFICES ASSUME SchedInv, DueInv, NEW f \in Fibers
               PROVE  Cardinality(Due(f)) + Cardinality(Entering(f))
                        + (IF f \in blocked THEN 1 ELSE 0) <= 1
    BY DEF DueOnce
  <2>1. \A i, j \in Due(f) : i = j
    BY DEF Due, DueInv, QueuesApart, NoDup
  <2>2. \A t, u \in Entering(f) : t = u
    BY DEF Entering, DueInv, EnteringOnce
  <2>3. f \notin Elems(ready) => Due(f) = {}
    BY DEF Due, Elems
  <2>4. f \in Linked => Entering(f) = {}
    BY DEF Entering, DueInv, EnteringOnce
  <2>5. f \in blocked => f \notin Elems(ready) /\ f \in Linked
    BY DEF DueInv, QueuesApart, Linked
  <2>6. f \in Elems(ready) => f \in Linked
    BY DEF Linked
  <2>7. /\ Cardinality(Due(f)) \in {0, 1} /\ (Due(f) = {} => Cardinality(Due(f)) = 0)
        /\ Cardinality(Entering(f)) \in {0, 1}
        /\ (Entering(f) = {} => Cardinality(Entering(f)) = 0)
    BY <2>1, <2>2, AtMostOne
  <2> QED BY <2>3, <2>4, <2>5, <2>6, <2>7
<1> QED BY <1>1, DueInvariant, PTL

----------------------------------------------------------------------------
(* No wake-up of a thread is lost, for any pool.  The awake threads on     *)
(* their way to the queue are counted: melon_sched_ready adds one fiber    *)
(* and wakes one thread, and a thread that leaves takes one fiber along or *)
(* finds none.                                                             *)
OnTheirWay == {t \in Threads : tpc[t] = "sched"}

(* The threads on their way can be counted, in this and the next state.    *)
LEMMA OnTheirWayFinite ==
  /\ IsFiniteSet(OnTheirWay) /\ Cardinality(OnTheirWay) \in Nat
  /\ IsFiniteSet(OnTheirWay') /\ Cardinality(OnTheirWay') \in Nat
<1>1. OnTheirWay \in SUBSET Threads /\ OnTheirWay' \in SUBSET Threads
  BY DEF OnTheirWay
<1> QED BY <1>1, ThreadsFinite, FS_Subset, FS_CardinalityType

(* melon_sched_ready keeps the balance.                                    *)
LEMMA WorkSchedReady ==
  ASSUME TypeOK, WorkConserving, NEW f \in Fibers, SchedReady(f), stop' = stop
  PROVE  WorkConserving'
<1> SUFFICES ASSUME Waiting' # {}, ~stop
             PROVE  Len(ready') <= Cardinality(OnTheirWay')
  BY DEF WorkConserving, OnTheirWay
<1>1. Waiting # {}
  BY DEF SchedReady, SignalReady, Waiting
<1>2. PICK w \in Waiting : tpc' = [tpc EXCEPT ![w] = "sched"]
  BY <1>1 DEF SchedReady, SignalReady, TGoto
<1>3. w \notin OnTheirWay /\ OnTheirWay' = OnTheirWay \cup {w}
  BY <1>2 DEF Waiting, OnTheirWay, TypeOK
<1>4. Cardinality(OnTheirWay') = Cardinality(OnTheirWay) + 1
  BY <1>3, OnTheirWayFinite, FS_AddElement
<1>5. Len(ready') = Len(ready) + 1 /\ Len(ready) \in Nat
  BY AppendProperties, LenProperties DEF SchedReady, TypeOK
<1>6. Len(ready) <= Cardinality(OnTheirWay)
  BY <1>1 DEF WorkConserving, OnTheirWay
<1> QED BY <1>4, <1>5, <1>6, OnTheirWayFinite

(* sched_next keeps the balance.                                           *)
LEMMA WorkSchedNext ==
  ASSUME TypeOK, WorkConserving, NEW t \in Threads, SchedNext(t)
  PROVE  WorkConserving'
<1> SUFFICES ASSUME Waiting' # {}, ~stop
             PROVE  Len(ready') <= Cardinality(OnTheirWay')
  BY DEF WorkConserving, OnTheirWay, SchedNext
<1>1. CASE ready = << >>
  <2>1. Len(ready') = 0
    BY <1>1 DEF SchedNext
  <2> QED BY <2>1, OnTheirWayFinite
<1>2. CASE ready # << >>
  <2>1. /\ tpc[t] = "sched" /\ tpc' = [tpc EXCEPT ![t] = "spin"]
        /\ ready' = Tail(ready)
    BY <1>2 DEF SchedNext, TGoto
  <2>2. Waiting # {} /\ t \in OnTheirWay /\ OnTheirWay' = OnTheirWay \ {t}
    BY <2>1 DEF Waiting, OnTheirWay, TypeOK
  <2>3. Cardinality(OnTheirWay') = Cardinality(OnTheirWay) - 1
    BY <2>2, OnTheirWayFinite, FS_RemoveElement
  <2>4. Len(ready') = Len(ready) - 1 /\ Len(ready) \in Nat
    BY <1>2, <2>1, HeadTailProperties, LenProperties DEF TypeOK
  <2>5. Len(ready) <= Cardinality(OnTheirWay)
    BY <2>2 DEF WorkConserving, OnTheirWay
  <2> QED BY <2>3, <2>4, <2>5, OnTheirWayFinite
<1> QED BY <1>1, <1>2

(* A step that queues no fiber, puts no thread to sleep and takes none off *)
(* its way keeps the balance.                                              *)
LEMMA WorkKept ==
  ASSUME TypeOK, WorkConserving, ready' = ready, stop' = stop \/ stop',
         Waiting' \subseteq Waiting, OnTheirWay \subseteq OnTheirWay'
  PROVE  WorkConserving'
<1> SUFFICES ASSUME Waiting' # {}, ~stop'
             PROVE  Len(ready') <= Cardinality(OnTheirWay')
  BY DEF WorkConserving, OnTheirWay
<1>1. Len(ready) <= Cardinality(OnTheirWay)
  BY DEF WorkConserving, OnTheirWay
<1>2. Cardinality(OnTheirWay) <= Cardinality(OnTheirWay')
  BY OnTheirWayFinite, FS_Subset
<1>3. Len(ready) \in Nat
  BY LenProperties DEF TypeOK
<1> QED BY <1>1, <1>2, <1>3, OnTheirWayFinite

(* A thread of the pool sleeps only when every queued fiber has an awake   *)
(* thread on its way to it.                                                *)
THEOREM PoolConservesWork == Spec => []WorkConserving
<1>1. Init => WorkConserving
  BY DEF Init, WorkConserving, Waiting
<1>2. SchedInv /\ WorkConserving /\ [Next]_vars => WorkConserving'
  <2> SUFFICES ASSUME SchedInv, WorkConserving, [Next]_vars PROVE WorkConserving'
    OBVIOUS
  <2> USE DEF SchedInv
  <2>1. ASSUME NEW f \in Fibers, SchedReady(f), stop' = stop PROVE WorkConserving'
    BY <2>1, WorkSchedReady
  <2>2. ASSUME NEW t \in Threads, NEW g \in Fibers, FiberSpawn(t, g) PROVE WorkConserving'
    BY <2>1, <2>2 DEF FiberSpawn, FiberStart
  <2>3. ASSUME NEW f \in Fibers, MainStart(f) \/ Wake(f) PROVE WorkConserving'
    BY <2>1, <2>3 DEF MainStart, FiberStart, Wake
  <2>4. ASSUME NEW t \in Threads, SchedNext(t) PROVE WorkConserving'
    BY <2>4, WorkSchedNext
  <2>5. ASSUME NEW t \in Threads,
               \/ CreateThread(t) \/ SpuriousWake(t) \/ SchedLoop(t) \/ SchedEnter(t)
               \/ SchedUnlock(t) \/ SchedCallback(t) \/ SchedCopy(t) \/ SchedClear(t)
               \/ FiberDestroy(t) \/ FiberSwap(t)
        PROVE  WorkConserving'
    <3>1. /\ tpc[t] # "sched" /\ ready' = ready /\ stop' = stop
          /\ \E l \in TPCs \ {"waiting"} : tpc' = [tpc EXCEPT ![t] = l]
      BY <2>5 DEF CreateThread, SpuriousWake, SchedLoop, SchedEnter, SchedUnlock,
                  SchedCallback, SchedCopy, SchedClear, FiberDestroy, FiberSwap, Runs,
                  TGoto, TPCs
    <3>2. Waiting' \subseteq Waiting /\ OnTheirWay \subseteq OnTheirWay'
      BY <3>1 DEF Waiting, OnTheirWay, TypeOK
    <3> QED BY <3>1, <3>2, WorkKept
  <2>6. ASSUME NEW t \in Threads,
               FiberBroadcast(t) \/ FiberExit(t) \/ FiberBlock(t) \/ FiberCount(t)
        PROVE  WorkConserving'
    BY <2>6, WorkKept DEF FiberBroadcast, FiberExit, FiberBlock, FiberCount, Waiting,
                          OnTheirWay
  <2>7. CASE CreateFails \/ SpuriousMainWake \/ JoinAfterFailure \/ MainWait \/ MainJoin
             \/ UNCHANGED vars
    BY <2>7, WorkKept DEF CreateFails, SpuriousMainWake, JoinAfterFailure, MainWait, MainJoin,
                          vars, Waiting, OnTheirWay
  <2>8. CASE MainDeinit
    BY <2>8 DEF MainDeinit, WorkConserving
  <2> QED BY <2>2, <2>3, <2>4, <2>5, <2>6, <2>7, <2>8 DEF Next, ThreadStep, MainStep
<1> QED BY <1>1, <1>2, SchedInvariant, PTL DEF Spec

----------------------------------------------------------------------------
(***************************************************************************)
(* melon_wait.  The count is the number of fibers whose start callback has *)
(* not returned; a fiber that is entered again is still one of them, since *)
(* only such fibers are due.                                               *)
(***************************************************************************)
CountInv == IsFiniteSet(Unfinished) /\ fibers_count = Cardinality(Unfinished)

(* What a step does to the count and to the fibers it stands for.          *)
Counted ==
  \/ Unfinished' = Unfinished /\ fibers_count' = fibers_count
  \/ \E f \in Fibers : /\ f \notin Unfinished /\ Unfinished' = Unfinished \cup {f}
                       /\ fibers_count' = fibers_count + 1
  \/ \E f \in Fibers : /\ f \in Unfinished /\ Unfinished' = Unfinished \ {f}
                       /\ fibers_count' = fibers_count - 1

(* A new fiber is a unit of the count before it is ready.                  *)
LEMMA CountedFiberStart ==
  ASSUME TypeOK, NEW f \in Fibers, FiberStart(f) PROVE Counted
<1>1. /\ f \notin Unfinished /\ Unfinished' = Unfinished \cup {f}
      /\ fibers_count' = fibers_count + 1
  BY DEF FiberStart, FGoto, Unfinished, TypeOK
<1> QED BY <1>1 DEF Counted

(* The steps of a thread and of the fiber it runs.                         *)
LEMMA CountedThread ==
  ASSUME SchedInv, DueInv, NEW t \in Threads,
         ThreadStep(t) \/ FiberBlock(t) \/ FiberCount(t)
  PROVE  Counted
<1> USE DEF SchedInv
<1>0. tpc[t] \in {"spin", "running"} \cup Calling => cur[t] \in Fibers
  BY DEF LockHeld, InHand, Calling
<1>1. CASE \/ SchedLoop(t) \/ SchedNext(t) \/ SchedUnlock(t) \/ SchedCallback(t)
           \/ SchedCopy(t) \/ SchedClear(t) \/ FiberSwap(t)
  <2>1. UNCHANGED <<fpc, fibers_count>>
    BY <1>1 DEF SchedLoop, SchedNext, SchedUnlock, SchedCallback, SchedCopy, SchedClear,
                FiberSwap
  <2> QED BY <2>1 DEF Counted, Unfinished
<1>2. CASE SchedEnter(t) \/ FiberBlock(t)
  <2>1. /\ cur[t] \in Fibers /\ fpc[cur[t]] \in Live
        /\ \E l \in Live : fpc' = [fpc EXCEPT ![cur[t]] = l]
        /\ fibers_count' = fibers_count
    BY <1>0, <1>2 DEF SchedEnter, FiberBlock, FGoto, Runs, DueInv, EnteringOnce, Live
  <2>2. Unfinished' = Unfinished
    BY <2>1 DEF Unfinished, Live, TypeOK
  <2> QED BY <2>1, <2>2 DEF Counted
<1>3. CASE FiberDestroy(t) \/ FiberBroadcast(t) \/ FiberExit(t)
  <2>1. /\ cur[t] \in Fibers /\ fpc[cur[t]] \notin Live
        /\ \E l \in {"exit", "gone", "freed"} : fpc' = [fpc EXCEPT ![cur[t]] = l]
        /\ fibers_count' = fibers_count
    BY <1>0, <1>3 DEF FiberDestroy, FiberBroadcast, FiberExit, FGoto, Runs, DueInv,
                      DestroysDead, Live, Calling
  <2>2. Unfinished' = Unfinished
    BY <2>1 DEF Unfinished, Live, TypeOK
  <2> QED BY <2>1, <2>2 DEF Counted
<1>4. CASE FiberCount(t)
  <2>1. /\ cur[t] \in Fibers /\ cur[t] \in Unfinished
        /\ \E l \in {"zero", "exit"} : fpc' = [fpc EXCEPT ![cur[t]] = l]
        /\ fibers_count' = fibers_count - 1
    BY <1>0, <1>4 DEF FiberCount, FGoto, Runs, Unfinished
  <2>2. Unfinished' = Unfinished \ {cur[t]}
    BY <2>1 DEF Unfinished, TypeOK
  <2> QED BY <2>1, <2>2 DEF Counted
<1> QED BY <1>1, <1>2, <1>3, <1>4 DEF ThreadStep

(* Every step counts.                                                      *)
LEMMA NextCounted ==
  ASSUME SchedInv, DueInv, [Next]_vars PROVE Counted
<1>1. ASSUME NEW t \in Threads, NEW g \in Fibers, FiberSpawn(t, g) PROVE Counted
  BY <1>1, CountedFiberStart DEF FiberSpawn, SchedInv
<1>2. ASSUME NEW f \in Fibers, MainStart(f) PROVE Counted
  BY <1>2, CountedFiberStart DEF MainStart, SchedInv
<1>3. CASE UNCHANGED <<fpc, fibers_count>>
  BY <1>3 DEF Counted, Unfinished
<1>4. CASE \/ \E t \in Threads : CreateThread(t) \/ SpuriousWake(t)
           \/ \E f \in Fibers : Wake(f)
           \/ CreateFails \/ SpuriousMainWake \/ MainStep \/ UNCHANGED vars
  <2>1. UNCHANGED <<fpc, fibers_count>>
    BY <1>4 DEF CreateThread, SpuriousWake, Wake, CreateFails, SpuriousMainWake, MainStep,
                JoinAfterFailure, MainWait, MainDeinit, MainJoin, vars
  <2> QED BY <1>3, <2>1
<1> QED BY <1>1, <1>2, <1>4, CountedThread DEF Next

(* After any step the count is again the number of fibers that have        *)
(* started and not finished.                                               *)
LEMMA CountStep ==
  ASSUME SchedInv, DueInv, CountInv, [Next]_vars PROVE CountInv'
<1>1. CASE Unfinished' = Unfinished /\ fibers_count' = fibers_count
  BY <1>1 DEF CountInv
<1>2. ASSUME NEW f \in Fibers, f \notin Unfinished, Unfinished' = Unfinished \cup {f},
             fibers_count' = fibers_count + 1
      PROVE  CountInv'
  BY <1>2, FS_AddElement DEF CountInv
<1>3. ASSUME NEW f \in Fibers, f \in Unfinished, Unfinished' = Unfinished \ {f},
             fibers_count' = fibers_count - 1
      PROVE  CountInv'
  BY <1>3, FS_RemoveElement DEF CountInv
<1> QED BY <1>1, <1>2, <1>3, NextCounted DEF Counted

(* The count is 0 when, and only when, every start callback has returned.  *)
LEMMA CountZero ==
  ASSUME CountInv
  PROVE  fibers_count \in Nat /\ (fibers_count = 0 <=> Unfinished = {})
  BY FS_CardinalityType, FS_EmptySet DEF CountInv

(* Once melon_wait has returned no fiber is created any more: the one that *)
(* would is not there.                                                     *)
LEMMA WaitStep ==
  ASSUME SchedInv, DueInv, CountInv, WaitMeansFinished, [Next]_vars
  PROVE  WaitMeansFinished'
<1> DEFINE Over == {"waited", "stopping", "done"}
<1> SUFFICES ASSUME main' \in Over PROVE Unfinished' = {}
  BY DEF WaitMeansFinished
<1>1. CASE main \notin Over
  <2>1. main \in MPCs
    BY DEF SchedInv, TypeOK
  <2>2. MainWait /\ fibers_count = 0
    BY <1>1, <2>1 DEF Next, ThreadStep, MainStep, CreateThread, SchedLoop, SchedNext,
         SchedEnter, SchedUnlock, SchedCallback, SchedCopy, SchedClear, FiberDestroy,
         FiberSwap, FiberBroadcast,
         FiberExit, SpuriousWake, FiberBlock, FiberCount, FiberSpawn, MainStart, Wake,
         CreateFails, SpuriousMainWake, JoinAfterFailure, MainWait, MainDeinit, MainJoin,
         vars, MPCs
  <2> QED BY <2>2, CountZero DEF MainWait, Unfinished
<1>2. CASE main \in Over
  <2>1. Unfinished = {}
    BY <1>2 DEF WaitMeansFinished
  <2>2. ~\E f \in Fibers : f \notin Unfinished /\ Unfinished' = Unfinished \cup {f}
    <3> SUFFICES ASSUME NEW f \in Fibers, Unfinished' = {f} PROVE FALSE
      BY <2>1
    <3>1. fpc' # fpc
      BY <2>1 DEF Unfinished
    <3>2. \A t \in Threads : tpc[t] = "running" => fpc[cur[t]] # "body"
      BY <2>1 DEF Unfinished, SchedInv, LockHeld, InHand, Calling
    <3>3. \A t \in Threads : tpc[t] # "spin"
      BY <2>1 DEF Unfinished, SchedInv, LockHeld, InHand, Calling, DueInv, EnteringOnce, Live
    <3>4. \A g \in Fibers : ~MainStart(g) /\ \A t \in Threads : ~FiberSpawn(t, g)
      BY <1>2, <3>2 DEF MainStart, FiberSpawn, Runs
    <3>5. PICK t \in Threads : FiberDestroy(t) \/ FiberBroadcast(t) \/ FiberExit(t)
      BY <3>1, <3>2, <3>3, <3>4 DEF Next, ThreadStep, MainStep, CreateThread, SchedLoop,
           SchedNext, SchedEnter, SchedUnlock, SchedCallback, SchedCopy, SchedClear,
           FiberSwap, Runs,
           SpuriousWake, FiberBlock, FiberCount, Wake, CreateFails, SpuriousMainWake,
           JoinAfterFailure, MainWait, MainDeinit, MainJoin, vars
    <3>6. \E l \in {"exit", "gone", "freed"} : fpc' = [fpc EXCEPT ![cur[t]] = l]
      BY <3>5 DEF FiberDestroy, FiberBroadcast, FiberExit, FGoto
    <3> QED BY <2>1, <3>6 DEF Unfinished, SchedInv, TypeOK
  <2> QED BY <2>1, <2>2, NextCounted DEF Counted
<1> QED BY <1>1, <1>2

(* The sleep of melon_wait: whoever brings the count to 0 has a broadcast  *)
(* to do, and nobody else ends it.                                         *)
LEMMA WaitNotMissedStep ==
  ASSUME SchedInv, DueInv, CountInv, WaitNotMissed, [Next]_vars
  PROVE  WaitNotMissed'
<1> SUFFICES ASSUME main' = "waiting", fibers_count' = 0
             PROVE  \E f \in Fibers : fpc'[f] = "zero"
  BY DEF WaitNotMissed
<1>0. /\ \A t \in Threads : tpc[t] \in {"spin", "running"} \cup Calling => cur[t] \in Fibers
      /\ fpc \in [Fibers -> FPCs] /\ fibers_count \in Nat
  BY CountZero DEF SchedInv, LockHeld, InHand, Calling, TypeOK
<1>1. ASSUME NEW t \in Threads, FiberCount(t) PROVE \E f \in Fibers : fpc'[f] = "zero"
  BY <1>0, <1>1 DEF FiberCount, FGoto, Runs
<1>2. ASSUME NEW f \in Fibers, FiberStart(f) PROVE FALSE
  BY <1>0, <1>2 DEF FiberStart
<1>3. ASSUME NEW t \in Threads, FiberBroadcast(t) PROVE FALSE
  BY <1>3 DEF FiberBroadcast
<1>4. ASSUME MainWait PROVE FALSE
  BY <1>4 DEF MainWait
<1>5. ASSUME main = "waiting", fibers_count = 0, fpc' = fpc
      PROVE  \E f \in Fibers : fpc'[f] = "zero"
  BY <1>5 DEF WaitNotMissed
<1>6. ASSUME NEW t \in Threads, SchedEnter(t) \/ FiberDestroy(t) \/ FiberExit(t) \/ FiberBlock(t)
      PROVE  \E f \in Fibers : fpc'[f] = "zero"
  <2>1. PICK f \in Fibers : fpc[f] = "zero"
    BY <1>6 DEF SchedEnter, FiberDestroy, FiberExit, FiberBlock, WaitNotMissed
  <2>2. cur[t] \in Fibers /\ cur[t] # f
    BY <1>0, <1>6, <2>1 DEF SchedEnter, FiberDestroy, FiberExit, FiberBlock, Runs, DueInv,
                            EnteringOnce, DestroysDead, Live, Calling
  <2>3. fpc'[f] = fpc[f]
    BY <1>0, <1>6, <2>2 DEF SchedEnter, FiberDestroy, FiberExit, FiberBlock, FGoto
  <2> QED BY <2>1, <2>3
<1>7. CASE \/ \E t \in Threads : \/ CreateThread(t) \/ SpuriousWake(t) \/ SchedLoop(t)
                                 \/ SchedNext(t) \/ SchedUnlock(t) \/ SchedCallback(t)
                                 \/ SchedCopy(t) \/ SchedClear(t) \/ FiberSwap(t)
           \/ \E f \in Fibers : Wake(f)
           \/ CreateFails \/ SpuriousMainWake \/ JoinAfterFailure \/ MainDeinit \/ MainJoin
           \/ UNCHANGED vars
  <2>1. main = "waiting" /\ fibers_count = 0 /\ fpc' = fpc
    BY <1>7 DEF CreateThread, SpuriousWake, SchedLoop, SchedNext, SchedUnlock, SchedCallback,
                SchedCopy, SchedClear,
                FiberSwap, Wake, CreateFails, SpuriousMainWake, JoinAfterFailure, MainDeinit,
                MainJoin, vars, Calling
  <2> QED BY <1>5, <2>1
<1> QED BY <1>1, <1>2, <1>3, <1>4, <1>6, <1>7
        DEF Next, ThreadStep, MainStep, FiberSpawn, MainStart

(* The count is right, and so is what melon_wait makes of it.              *)
LEMMA CountInvariant ==
  Spec => [](SchedInv /\ DueInv /\ CountInv /\ WaitMeansFinished /\ WaitNotMissed)
<1>1. Init => CountInv /\ WaitMeansFinished /\ WaitNotMissed
  <2> SUFFICES ASSUME Init PROVE CountInv /\ WaitMeansFinished /\ WaitNotMissed
    OBVIOUS
  <2>1. Unfinished = {}
    BY DEF Init, Unfinished
  <2> QED BY <2>1, FS_EmptySet DEF Init, CountInv, WaitMeansFinished, WaitNotMissed
<1>2. SchedInv /\ DueInv /\ CountInv /\ WaitMeansFinished /\ WaitNotMissed /\ [Next]_vars
        => CountInv' /\ WaitMeansFinished' /\ WaitNotMissed'
  BY CountStep, WaitStep, WaitNotMissedStep
<1> QED BY <1>1, <1>2, DueInvariant, PTL DEF Spec

(* melon_wait returns only when every start callback has returned, those   *)
(* of fibers created meanwhile included.                                   *)
THEOREM WaitIsComplete == Spec => []WaitMeansFinished
  BY CountInvariant, PTL

(* melon_wait sleeps at count 0 only while a broadcast is still to come.   *)
THEOREM WaitWakeupKept == Spec => []WaitNotMissed
  BY CountInvariant, PTL

----------------------------------------------------------------------------
(***************************************************************************)
(* Nothing leaks.  A fiber that has finished is in the care of a thread    *)
(* until it is freed: of the one that runs it, or of one that has copied   *)
(* its callback, which need not be the same.  A thread that exits has none.*)
(***************************************************************************)
Cared(f) ==
  /\ fpc[f] \in {"zero", "exit"} => \E t \in Threads : tpc[t] = "running" /\ cur[t] = f
  /\ fpc[f] = "gone" =>
       \/ /\ f \in cb
          /\ \E t \in Threads :
               tpc[t] \in {"running", "swapped", "unlocked", "tested"} /\ cur[t] = f
       \/ \E t \in Threads : tpc[t] \in {"copied", "call"} /\ cur[t] = f
AllCared == \A f \in Fibers : Cared(f)
AllExited == main = "done" => \A t \in Threads : tpc[t] = "exit"

(* A step that changes no fiber and moves no thread that has one keeps     *)
(* them cared for.                                                         *)
LEMMA CaredKept ==
  ASSUME AllCared, UNCHANGED <<fpc, cb>>,
         \A t \in Threads : tpc[t] \in {"running", "swapped", "unlocked"} \cup Calling =>
                              tpc'[t] = tpc[t] /\ cur'[t] = cur[t]
  PROVE  AllCared'
  BY DEF AllCared, Cared, Calling

(* Making a fiber ready moves no thread that has one.                      *)
LEMMA CaredSchedReady ==
  ASSUME TypeOK, AllCared, NEW f \in Fibers, SchedReady(f), UNCHANGED <<cur, cb>>,
         \/ fpc' = fpc
         \/ fpc[f] = "none" /\ fpc' = [fpc EXCEPT ![f] = "body"]
  PROVE  AllCared'
<1>1. \A t \in Threads, l \in {"running", "swapped", "unlocked"} \cup Calling :
        tpc'[t] = l <=> tpc[t] = l
  BY SchedReadyAdds DEF TPCs, Calling
<1>2. \A g \in Fibers : fpc'[g] = fpc[g] \/ fpc'[g] = "body"
  BY DEF TypeOK
<1> QED BY <1>1, <1>2 DEF AllCared, Cared, Calling

(* What a thread does leaves every finished fiber to someone.              *)
LEMMA CaredThread ==
  ASSUME SchedInv, DueInv, AllCared, NEW t \in Threads,
         ThreadStep(t) \/ FiberBlock(t) \/ FiberCount(t)
  PROVE  AllCared'
<1> USE DEF SchedInv
<1>0. /\ tpc[t] \in InHand => cur[t] \in Fibers
      /\ fpc \in [Fibers -> FPCs] /\ tpc \in [Threads -> TPCs]
      /\ cur \in [Threads -> Fibers \cup {NULL}] /\ cb \subseteq Fibers
  BY DEF LockHeld, InHand, Calling, TypeOK
<1>1. CASE SchedLoop(t) \/ SchedNext(t)
  <2>1. /\ UNCHANGED <<fpc, cb>> /\ tpc[t] \in {"loop", "sched"}
        /\ \A u \in Threads \ {t} : tpc'[u] = tpc[u] /\ cur'[u] = cur[u]
    BY <1>0, <1>1 DEF SchedLoop, SchedNext, TGoto
  <2> QED BY <2>1, CaredKept DEF Calling
<1>2. CASE SchedEnter(t) \/ FiberBlock(t)
  <2>1. /\ UNCHANGED <<cb, cur>> /\ tpc[t] \in {"spin", "running"} /\ tpc'[t] = "running"
        /\ \A u \in Threads \ {t} : tpc'[u] = tpc[u]
        /\ \E l \in Live : \A g \in Fibers : fpc'[g] = IF g = cur[t] THEN l ELSE fpc[g]
    BY <1>0, <1>2 DEF SchedEnter, FiberBlock, FGoto, TGoto, Runs, Live
  <2> QED BY <2>1 DEF AllCared, Cared, Live
<1>3. CASE FiberSwap(t)
  <2>1. /\ UNCHANGED <<cb, cur, fpc>> /\ tpc[t] = "running" /\ tpc'[t] = "swapped"
        /\ \A u \in Threads \ {t} : tpc'[u] = tpc[u]
        /\ fpc[cur[t]] \in {"parked", "gone"}
    BY <1>0, <1>3 DEF FiberSwap, TGoto, Runs
  <2> QED BY <2>1 DEF AllCared, Cared
<1>4. CASE SchedUnlock(t)
  <2>1. /\ UNCHANGED <<cb, cur, fpc>> /\ tpc[t] = "swapped" /\ tpc'[t] = "unlocked"
        /\ \A u \in Threads \ {t} : tpc'[u] = tpc[u]
    BY <1>0, <1>4 DEF SchedUnlock, TGoto
  <2> QED BY <2>1 DEF AllCared, Cared
<1>5. CASE SchedCallback(t) \/ SchedCopy(t)
  <2>1. /\ UNCHANGED <<cur, fpc, cb>>
        /\ \/ tpc[t] = "unlocked" /\ tpc'[t] = IF cur[t] \in cb THEN "tested" ELSE "loop"
           \/ tpc[t] = "tested" /\ tpc'[t] = "copied"
        /\ \A u \in Threads \ {t} : tpc'[u] = tpc[u]
    BY <1>0, <1>5 DEF SchedCallback, SchedCopy, TGoto
  <2> QED BY <2>1 DEF AllCared, Cared
<1>9. CASE SchedClear(t)
  <2>1. /\ UNCHANGED <<cur, fpc>> /\ tpc[t] = "copied" /\ tpc'[t] = "call"
        /\ cb' = cb \ {cur[t]}
        /\ \A u \in Threads \ {t} : tpc'[u] = tpc[u]
    BY <1>0, <1>9 DEF SchedClear, TGoto
  <2> QED BY <2>1 DEF AllCared, Cared
<1>6. CASE FiberDestroy(t)
  <2>1. /\ cb' = cb /\ tpc[t] = "call"
        /\ \A u \in Threads \ {t} : tpc'[u] = tpc[u] /\ cur'[u] = cur[u]
        /\ \A g \in Fibers : fpc'[g] = IF g = cur[t] THEN "freed" ELSE fpc[g]
    BY <1>0, <1>6 DEF FiberDestroy, TGoto, FGoto
  <2> QED BY <2>1 DEF AllCared, Cared
<1>7. CASE FiberBroadcast(t) \/ FiberCount(t)
  <2>1. /\ UNCHANGED <<cb, cur, tpc>> /\ tpc[t] = "running"
        /\ \E l \in {"zero", "exit"} :
             \A g \in Fibers : fpc'[g] = IF g = cur[t] THEN l ELSE fpc[g]
    BY <1>0, <1>7 DEF FiberBroadcast, FiberCount, FGoto, Runs
  <2> QED BY <2>1 DEF AllCared, Cared
<1>8. CASE FiberExit(t)
  <2>1. /\ UNCHANGED <<cur, tpc>> /\ tpc[t] = "running" /\ cb' = cb \cup {cur[t]}
        /\ \A g \in Fibers : fpc'[g] = IF g = cur[t] THEN "gone" ELSE fpc[g]
    BY <1>0, <1>8 DEF FiberExit, FGoto, Runs
  <2> QED BY <2>1 DEF AllCared, Cared
<1> QED BY <1>1, <1>2, <1>3, <1>4, <1>5, <1>6, <1>7, <1>8, <1>9 DEF ThreadStep

(* And so does any other step.                                             *)
LEMMA CaredStep ==
  ASSUME SchedInv, DueInv, AllCared, [Next]_vars PROVE AllCared'
<1> USE DEF SchedInv
<1>1. ASSUME NEW t \in Threads, NEW g \in Fibers, FiberSpawn(t, g) PROVE AllCared'
  BY <1>1, CaredSchedReady DEF FiberSpawn, FiberStart, FGoto
<1>2. ASSUME NEW f \in Fibers, MainStart(f) \/ Wake(f) PROVE AllCared'
  BY <1>2, CaredSchedReady DEF MainStart, FiberStart, FGoto, Wake
<1>3. ASSUME NEW t \in Threads, CreateThread(t) \/ SpuriousWake(t) PROVE AllCared'
  <2>1. /\ UNCHANGED <<fpc, cb, cur>> /\ tpc[t] \in {"none", "waiting"}
        /\ \A u \in Threads \ {t} : tpc'[u] = tpc[u]
    BY <1>3 DEF CreateThread, SpuriousWake, TGoto, TypeOK
  <2> QED BY <2>1, CaredKept DEF Calling
<1>4. CASE CreateFails \/ SpuriousMainWake \/ JoinAfterFailure \/ MainWait \/ MainJoin
           \/ UNCHANGED vars
  BY <1>4, CaredKept DEF CreateFails, SpuriousMainWake, JoinAfterFailure, MainWait, MainJoin,
                         vars
<1>5. CASE MainDeinit
  BY <1>5, CaredKept DEF MainDeinit, BroadcastReady, Waiting, Calling
<1> QED BY <1>1, <1>2, <1>3, <1>4, <1>5, CaredThread DEF Next, MainStep

(* A thread that has returned stays away.                                  *)
LEMMA ExitedStep ==
  ASSUME SchedInv, AllExited, [Next]_vars PROVE AllExited'
<1> SUFFICES ASSUME main' = "done" PROVE \A t \in Threads : tpc'[t] = "exit"
  BY DEF AllExited
<1>1. CASE MainJoin
  BY <1>1 DEF MainJoin
<1>2. CASE ~MainJoin
  <2>1. main = "done"
    BY <1>2 DEF Next, ThreadStep, MainStep, CreateThread, SchedLoop, SchedNext,
         SchedEnter, SchedUnlock, SchedCallback, SchedCopy, SchedClear, FiberDestroy,
         FiberSwap, FiberBroadcast,
         FiberExit, SpuriousWake, FiberBlock, FiberCount, FiberSpawn, MainStart, Wake,
         CreateFails, SpuriousMainWake, JoinAfterFailure, MainWait, MainDeinit, vars
  <2>2. \A t \in Threads : tpc[t] = "exit"
    BY <2>1 DEF AllExited
  <2>3. tpc' = tpc
    BY <2>1, <2>2 DEF Next, ThreadStep, MainStep, CreateThread, SchedLoop, SchedNext,
         SchedEnter, SchedUnlock, SchedCallback, SchedCopy, SchedClear, FiberDestroy,
         FiberSwap, FiberBroadcast,
         FiberExit, SpuriousWake, FiberBlock, FiberCount, FiberSpawn, MainStart, Wake, Runs,
         CreateFails, SpuriousMainWake, JoinAfterFailure, MainWait, MainDeinit, MainJoin,
         SchedReady, SignalReady, Waiting, vars
  <2> QED BY <2>2, <2>3
<1> QED BY <1>1, <1>2

(* When melon_deinit returns every fiber that was created has been freed,  *)
(* also when a thread has run the callback of a fiber that another one     *)
(* ran.                                                                    *)
THEOREM DeinitLeaksNothing == Spec => []NothingLeaks
<1>1. Init => AllCared /\ AllExited
  BY DEF Init, AllCared, Cared, AllExited
<1>2. SchedInv /\ DueInv /\ AllCared /\ AllExited /\ [Next]_vars => AllCared' /\ AllExited'
  BY CaredStep, ExitedStep
<1>3. SchedInv /\ WaitMeansFinished /\ AllCared /\ AllExited => NothingLeaks
  <2> SUFFICES ASSUME SchedInv, WaitMeansFinished, AllCared, AllExited, main = "done",
                      NEW f \in Fibers
               PROVE  fpc[f] \in {"none", "freed"}
    BY DEF NothingLeaks
  <2>1. fpc[f] \in FPCs /\ f \notin Unfinished
    BY DEF SchedInv, TypeOK, WaitMeansFinished
  <2>2. \A t \in Threads : tpc[t] = "exit"
    BY DEF AllExited
  <2>3. fpc[f] \notin {"zero", "exit", "gone"}
    BY <2>2 DEF AllCared, Cared
  <2> QED BY <2>1, <2>3 DEF Unfinished, FPCs
<1> QED BY <1>1, <1>2, <1>3, CountInvariant, PTL DEF Spec

----------------------------------------------------------------------------
(***************************************************************************)
(* Without blocking, a fiber is in the hands of one thread from the ready  *)
(* queue to its end, so that nothing touches it after it has been freed.   *)
(* With blocking that is false: see run sched_race.                        *)
(***************************************************************************)
NeverParked == blocked = {} /\ \A f \in Fibers : fpc[f] # "parked"
OneHand ==
  \A t, u \in Threads :
    tpc[t] \in InHand /\ tpc[u] \in InHand /\ cur[t] = cur[u] => t = u
HandState ==
  \A t \in Threads : tpc[t] \in InHand =>
    /\ cur[t] \notin Elems(ready)
    /\ fpc[cur[t]] \notin {"none", "freed"}
    /\ tpc[t] \in {"swapped", "unlocked"} \cup Calling => fpc[cur[t]] = "gone"
AloneInv == NeverParked /\ OneHand /\ HandState

(* A step after which the threads have the fibers they had, each in the    *)
(* same state or on its way to the end.                                    *)
LEMMA AloneKept ==
  ASSUME AloneInv, TypeOK, LockHeld,
         \A t \in Threads : tpc'[t] \in InHand <=> tpc[t] \in InHand,
         \A t \in Threads : tpc[t] \in InHand => cur'[t] = cur[t],
         \A t \in Threads : tpc'[t] \in {"swapped", "unlocked"} \cup Calling =>
                              fpc'[cur[t]] = "gone",
         \A f \in Fibers : /\ fpc'[f] # "parked"
                           /\ (\E t \in Threads : tpc[t] \in InHand /\ cur[t] = f) =>
                                fpc'[f] \notin {"none", "freed"},
         blocked' = {}, ready' = ready
  PROVE  AloneInv'
<1>1. NeverParked'
  BY DEF NeverParked
<1>2. OneHand'
  BY DEF AloneInv, OneHand
<1>3. \A t \in Threads : tpc[t] \in InHand => cur[t] \in Fibers
  BY DEF LockHeld
<1>4. HandState'
  BY <1>3 DEF AloneInv, HandState
<1> QED BY <1>1, <1>2, <1>4 DEF AloneInv

(* A fiber is created: it was in nobody's hand.                            *)
LEMMA AloneFiberStart ==
  ASSUME SchedInv, AloneInv, NEW f \in Fibers, FiberStart(f), UNCHANGED <<cur, blocked>>
  PROVE  AloneInv'
<1> USE DEF SchedInv
<1>1. /\ fpc[f] = "none" /\ \A g \in Fibers : fpc'[g] = IF g = f THEN "body" ELSE fpc[g]
      /\ Elems(ready') = Elems(ready) \cup {f}
  BY SchedReadyAdds DEF FiberStart, FGoto, TypeOK
<1>2. \A t \in Threads, l \in InHand : tpc'[t] = l <=> tpc[t] = l
  BY SchedReadyAdds DEF FiberStart, TPCs, InHand, Calling
<1>3. \A t \in Threads : tpc[t] \in InHand => cur[t] \in Fibers /\ cur[t] # f
  BY <1>1 DEF LockHeld, AloneInv, HandState
<1>4. NeverParked'
  BY <1>1 DEF AloneInv, NeverParked
<1>5. OneHand'
  BY <1>2 DEF AloneInv, OneHand
<1>6. HandState'
  BY <1>1, <1>2, <1>3 DEF AloneInv, HandState, InHand, Calling
<1> QED BY <1>4, <1>5, <1>6 DEF AloneInv

(* sched_next: the head of the queue is in nobody's hand.                  *)
LEMMA AloneSchedNext ==
  ASSUME SchedInv, DueInv, AloneInv, NEW t \in Threads, SchedNext(t)
  PROVE  AloneInv'
<1> USE DEF SchedInv
<1>1. CASE ~stop /\ ready # << >>
  <2> DEFINE f == Head(ready)
  <2>1. f \in Elems(ready) /\ Elems(Tail(ready)) = Elems(ready) \ {f}
    BY <1>1, PopElems DEF TypeOK, DueInv, QueuesApart
  <2>2. /\ tpc[t] = "sched" /\ tpc'[t] = "spin" /\ cur'[t] = f
        /\ \A u \in Threads \ {t} : tpc'[u] = tpc[u] /\ cur'[u] = cur[u]
        /\ ready' = Tail(ready) /\ UNCHANGED <<fpc, blocked>>
    BY <1>1 DEF SchedNext, TGoto, TypeOK
  <2>3. fpc[f] \in Live
    BY <2>1 DEF DueInv, LinkedLive, Linked
  <2> HIDE DEF f
  <2>4. NeverParked'
    BY <2>2 DEF AloneInv, NeverParked
  <2>5. OneHand'
    BY <2>1, <2>2 DEF AloneInv, OneHand, HandState
  <2>6. HandState'
    BY <2>1, <2>2, <2>3 DEF AloneInv, HandState, Live, Calling
  <2> QED BY <2>4, <2>5, <2>6 DEF AloneInv
<1>2. CASE stop \/ ready = << >>
  <2>1. /\ UNCHANGED <<ready, cur, fpc, blocked>>
        /\ \A u \in Threads : tpc'[u] \in InHand => tpc'[u] = tpc[u]
    BY <1>2 DEF SchedNext, TGoto, TypeOK, InHand, Calling
  <2> QED BY <2>1 DEF AloneInv, NeverParked, OneHand, HandState
<1> QED BY <1>1, <1>2

(* When fibers never block, what a thread does leaves every fiber in at    *)
(* most one hand.                                                          *)
LEMMA AloneThread ==
  ASSUME MayBlock = FALSE, SchedInv, DueInv, AloneInv, NEW t \in Threads,
         ThreadStep(t) \/ FiberBlock(t) \/ FiberCount(t)
  PROVE  AloneInv'
<1> USE DEF SchedInv
<1>0. /\ \A u \in Threads : tpc[u] \in InHand => cur[u] \in Fibers
      /\ fpc \in [Fibers -> FPCs] /\ tpc \in [Threads -> TPCs]
      /\ cur \in [Threads -> Fibers \cup {NULL}]
      /\ \A u \in Threads : tpc[u] \in InHand /\ cur[u] = cur[t] /\ tpc[t] \in InHand => u = t
  BY DEF LockHeld, TypeOK, AloneInv, OneHand
<1>1. CASE SchedNext(t)
  BY <1>1, AloneSchedNext
<1>2. CASE SchedLoop(t)
  <2>1. /\ UNCHANGED <<ready, fpc, blocked>>
        /\ \A u \in Threads : tpc'[u] \in InHand => tpc'[u] = tpc[u] /\ cur'[u] = cur[u]
    BY <1>0, <1>2 DEF SchedLoop, TGoto, InHand, Calling
  <2> QED BY <2>1 DEF AloneInv, NeverParked, OneHand, HandState
<1>3. CASE SchedEnter(t) \/ FiberBroadcast(t) \/ FiberExit(t) \/ FiberCount(t)
  <2>1. /\ tpc[t] \in {"spin", "running"} /\ tpc'[t] = "running"
        /\ \A u \in Threads \ {t} : tpc'[u] = tpc[u]
        /\ \E l \in {"body", "zero", "exit", "gone"} :
             \A g \in Fibers : fpc'[g] = IF g = cur[t] THEN l ELSE fpc[g]
        /\ UNCHANGED <<cur, ready, blocked>>
    BY <1>0, <1>3 DEF SchedEnter, FiberBroadcast, FiberExit, FiberCount, Runs, TGoto, FGoto,
                      InHand, Calling
  <2> QED BY <1>0, <2>1, AloneKept DEF AloneInv, NeverParked, HandState, InHand, Calling
<1>4. CASE FiberSwap(t) \/ SchedUnlock(t)
  <2>1. /\ tpc[t] \in {"running", "swapped"} /\ tpc'[t] \in {"swapped", "unlocked"}
        /\ \A u \in Threads \ {t} : tpc'[u] = tpc[u]
        /\ fpc[cur[t]] = "gone"
        /\ UNCHANGED <<cur, fpc, ready, blocked>>
    BY <1>0, <1>4 DEF FiberSwap, SchedUnlock, Runs, TGoto, InHand, Calling, AloneInv,
                      NeverParked,
                      HandState
  <2> QED BY <1>0, <2>1, AloneKept DEF AloneInv, NeverParked, HandState, InHand, Calling
<1>5. CASE SchedCallback(t) \/ SchedCopy(t) \/ SchedClear(t)
  <2>1. /\ tpc[t] \in {"unlocked"} \cup Calling /\ tpc'[t] \in {"loop"} \cup Calling
        /\ fpc[cur[t]] = "gone"
        /\ \A u \in Threads \ {t} : tpc'[u] = tpc[u]
        /\ UNCHANGED <<cur, fpc, ready, blocked>>
    BY <1>0, <1>5 DEF SchedCallback, SchedCopy, SchedClear, TGoto, InHand, Calling,
                      AloneInv, HandState
  <2>2. OneHand' /\ NeverParked'
    BY <2>1 DEF AloneInv, OneHand, NeverParked, InHand, Calling
  <2>3. HandState'
    BY <2>1 DEF AloneInv, HandState, InHand, Calling
  <2> QED BY <2>2, <2>3 DEF AloneInv
<1>6. CASE FiberDestroy(t)
  <2>1. /\ tpc[t] = "call" /\ tpc'[t] = "loop"
        /\ \A u \in Threads \ {t} : tpc'[u] = tpc[u] /\ cur'[u] = cur[u]
        /\ \A g \in Fibers : fpc'[g] = IF g = cur[t] THEN "freed" ELSE fpc[g]
        /\ UNCHANGED <<ready, blocked>>
    BY <1>0, <1>6 DEF FiberDestroy, TGoto, FGoto, InHand, Calling
  <2>2. OneHand' /\ NeverParked'
    BY <2>1 DEF AloneInv, OneHand, NeverParked, InHand, Calling
  <2>3. HandState'
    BY <1>0, <2>1 DEF AloneInv, HandState, InHand, Calling
  <2> QED BY <2>2, <2>3 DEF AloneInv
<1>7. CASE FiberBlock(t)
  BY <1>7 DEF FiberBlock
<1> QED BY <1>1, <1>2, <1>3, <1>4, <1>5, <1>6, <1>7 DEF ThreadStep

(* And so does any other step.                                             *)
LEMMA AloneStep ==
  ASSUME MayBlock = FALSE, SchedInv, DueInv, AloneInv, [Next]_vars PROVE AloneInv'
<1> USE DEF SchedInv
<1>1. ASSUME NEW t \in Threads, NEW g \in Fibers, FiberSpawn(t, g) PROVE AloneInv'
  BY <1>1, AloneFiberStart DEF FiberSpawn
<1>2. ASSUME NEW f \in Fibers, MainStart(f) PROVE AloneInv'
  BY <1>2, AloneFiberStart DEF MainStart
<1>3. ASSUME NEW f \in Fibers, Wake(f) PROVE AloneInv'
  BY <1>3 DEF Wake, AloneInv, NeverParked
<1>4. ASSUME UNCHANGED <<ready, cur, fpc, blocked>>,
             \A t \in Threads : tpc'[t] \in InHand => tpc'[t] = tpc[t]
      PROVE  AloneInv'
  BY <1>4 DEF AloneInv, NeverParked, OneHand, HandState
<1>5. ASSUME NEW t \in Threads, CreateThread(t) \/ SpuriousWake(t) PROVE AloneInv'
  BY <1>4, <1>5 DEF CreateThread, SpuriousWake, TGoto, TypeOK, InHand, Calling
<1>6. CASE CreateFails \/ SpuriousMainWake \/ JoinAfterFailure \/ MainWait \/ MainJoin
           \/ UNCHANGED vars
  BY <1>4, <1>6 DEF CreateFails, SpuriousMainWake, JoinAfterFailure, MainWait, MainJoin, vars
<1>7. CASE MainDeinit
  BY <1>4, <1>7 DEF MainDeinit, BroadcastReady, InHand, Calling
<1> QED BY <1>1, <1>2, <1>3, <1>5, <1>6, <1>7, AloneThread DEF Next, MainStep

(* A fiber that never blocks is in one hand, in a state that fits it.      *)
LEMMA AloneInvariant ==
  ASSUME MayBlock = FALSE PROVE Spec => [](SchedInv /\ AloneInv)
<1>1. Init => AloneInv
  BY DEF Init, AloneInv, NeverParked, OneHand, HandState, InHand, Calling
<1>2. SchedInv /\ DueInv /\ AloneInv /\ [Next]_vars => AloneInv'
  BY AloneStep
<1> QED BY <1>1, <1>2, DueInvariant, PTL DEF Spec

(* As long as fibers do not block, no thread touches a fiber that has been *)
(* freed: sched_next reads sched_next_cb after the lock of the fiber is    *)
(* released, when only this thread has it.                                 *)
THEOREM UnblockedNoUseAfterFree ==
  ASSUME MayBlock = FALSE PROVE Spec => []NoUseAfterFree
<1>1. AloneInv => NoUseAfterFree
  BY DEF AloneInv, HandState, NoUseAfterFree, Touchable
<1> QED BY <1>1, AloneInvariant, PTL

(* Under the same condition a fiber is destroyed only when it is on no     *)
(* thread.                                                                 *)
THEOREM UnblockedCallbackAfterSwap ==
  ASSUME MayBlock = FALSE PROVE Spec => []CallbackAfterSwap
<1>1. AloneInv => CallbackAfterSwap
  BY DEF AloneInv, OneHand, CallbackAfterSwap, InHand, Calling, Inside
<1> QED BY <1>1, AloneInvariant, PTL
=============================================================================
