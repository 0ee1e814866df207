------------------------------ MODULE MCObjects ------------------------------
(***************************************************************************)
(* The objects built on melon's mutex and conditions, the stack cache and  *)
(* the timer manager: each behaviour is one of a single object, chosen at  *)
(* the start.  The first three share nothing but the code of the monitor,  *)
(* the other two nothing at all.  The unprefixed names (Init, Next, vars)  *)
(* are those of Timer.                                                     *)
(***************************************************************************)
EXTENDS Barrier, RWLock, Join, StackAlloc, Timer

CONSTANT Objects  \* the objects looked at

ASSUME SleepersAreFibers == Sleepers \subseteq Fibers

VARIABLE object   \* the one of this behaviour

objectVars == <<object, mvars, barrierVars, rwVars, joinVars, stackVars, vars>>

ObjectInit ==
  /\ object \in Objects
  /\ MonitorInit /\ BarrierInit /\ RWInit /\ JoinInit /\ StackInit /\ Init

Of(o, A) == object = o /\ A /\ UNCHANGED object
BarrierOnly(A) == Of("barrier", A) /\ UNCHANGED <<rwVars, joinVars, stackVars, vars>>
RWLockOnly(A) == Of("rwlock", A) /\ UNCHANGED <<barrierVars, joinVars, stackVars, vars>>
JoinOnly(A) == Of("join", A) /\ UNCHANGED <<barrierVars, rwVars, stackVars, vars>>
StackOnly(A) ==
  Of("stack", A) /\ UNCHANGED <<mvars, barrierVars, rwVars, joinVars, vars>>
TimerOnly(A) ==
  Of("timer", A) /\ UNCHANGED <<mvars, barrierVars, rwVars, joinVars, stackVars>>

ObjectNext ==
  \/ BarrierOnly(BarrierNext) \/ RWLockOnly(RWNext) \/ JoinOnly(JoinNext)
  \/ StackOnly(StackNext) \/ TimerOnly(Next)

(***************************************************************************)
(* The scheduler runs a fiber that is ready: what a fiber does inside a    *)
(* call, and the granting and waking inside the library, happen.  Fibers   *)
(* go on to their next round at the barrier, the ones that have the        *)
(* read-write lock unlock it, and a fiber that is joined ends.  For Timer  *)
(* it is the fairness of that module.  In a behaviour only one object      *)
(* moves, so that one condition can stand for one of each of two objects.  *)
(***************************************************************************)
MonitorGoesOn ==
  MonitorStep /\ UNCHANGED <<object, barrierVars, rwVars, joinVars, stackVars, vars>>

BarrierOrRWGoesOn(f) ==
  BarrierOnly(BarrierGoesOn(f) \/ BarrierWait(f)) \/ RWLockOnly(RWGoesOn(f))

UnlocksOrSleeps(f) ==
  RWLockOnly(RWCall(f, "unlock")) \/ (f \in Sleepers /\ TimerOnly(UsleepPush(f)))

ObjectFairness ==
  /\ WF_objectVars(MonitorGoesOn \/ TimerOnly(TimerLoop))
  /\ \A f \in Fibers :
       WF_objectVars(BarrierOrRWGoesOn(f)) /\ WF_objectVars(UnlocksOrSleeps(f))
  /\ WF_objectVars(JoinOnly(TargetGoesOn) \/ TimerOnly(TimerDeadline))
  /\ WF_objectVars(JoinOnly(JoinerGoesOn) \/ TimerOnly(Tick))
  /\ WF_objectVars(TimerOnly(DeinitSignal)) /\ WF_objectVars(TimerOnly(DeinitJoin))

ObjectSpec == ObjectInit /\ [][ObjectNext]_objectVars /\ ObjectFairness
=============================================================================
