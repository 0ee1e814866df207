------------------------------ MODULE Barrier ------------------------------
(***************************************************************************)
(* The melon barrier (barrier.c) on a monitor with one condition: a count  *)
(* of the fibers that have still to come, decremented by each and given    *)
(* back as each leaves.  Nothing but the order of the lock queue keeps a   *)
(* fiber that comes round again from meeting a count that is only partly   *)
(* restored.  The count is changed by atomic operations, also outside the  *)
(* lock.                                                                   *)
(***************************************************************************)
EXTENDS Monitor, FiniteSets

CONSTANTS
  Parties,    \* the fibers that use the barrier from the start
  MaxRounds,  \* bound on the rounds of a fiber
  CountMod,   \* count wraps here (2^32 in the code)
  AnyTime     \* whether the program adds and releases while a round ends

ASSUME BarrierAssumption ==
  /\ Parties \subseteq Fibers /\ "cond" \in Conds
  /\ MaxRounds \in Nat /\ CountMod \in Nat /\ AnyTime \in BOOLEAN
  /\ IsFiniteSet(Fibers) /\ Cardinality(Fibers) < CountMod

VARIABLES
  count,    \* barrier->count
  bpc,      \* where each fiber is
  members,  \* the fibers the count stands for
  round,    \* how often each fiber has called melon_barrier_wait
  freed     \* melon_barrier_destroy has returned

barrierVars == <<count, bpc, members, round, freed>>

(* melon_barrier_init with the number of parties.                          *)
BarrierInit ==
  /\ count = Cardinality(Parties) /\ members = Parties
  /\ bpc = [f \in Fibers |-> "out"] /\ round = [f \in Fibers |-> 0]
  /\ freed = FALSE

(* The fiber goes on in its call, and changes nothing else.                *)
Move(f, from, to) == bpc[f] = from /\ bpc' = [bpc EXCEPT ![f] = to]
Only(f, from, to) == Move(f, from, to) /\ UNCHANGED <<count, members, round, freed>>

(* No round is ending: nobody is on the way out with a unit of the count   *)
(* to give back, and nobody who has released its unit is about to wake the *)
(* others.  barrier.c lets a program add and release at any time; one that *)
(* keeps to the time between rounds, AnyTime = FALSE, is on the safe side. *)
BetweenRounds ==
  \A f \in Fibers :
    /\ bpc[f] \notin {"leave", "release", "locked"}
    /\ bpc[f] = "wait" => f \in Elems(waiters["cond"])

(* The rounds a fiber has behind it.                                       *)
Completed(f) ==
  IF bpc[f] = "enter" \/ f \in Elems(waiters["cond"]) THEN round[f] - 1 ELSE round[f]

Member(f) == f \in members /\ ~freed

----------------------------------------------------------------------------
(* melon_barrier_wait up to the lock.                                      *)
BarrierWait(f) ==
  /\ Member(f) /\ round[f] < MaxRounds
  /\ Lock(f)
  /\ Move(f, "out", "enter")
  /\ round' = [round EXCEPT ![f] = @ + 1]
  /\ UNCHANGED <<count, members, freed>>

(* Mutant: the last but one lets the others go.                            *)
IsLastButOne(c) == c <= 1

(* The fiber that finds nobody left to wait for is the last one.           *)
IsLast(c) == c = 0

(* The lock is held: the last one wakes the others, which wait.            *)
BarrierEnter(f) ==
  /\ holder = f
  /\ count' = (count - 1) % CountMod
  /\ \/ IsLast(count') /\ Signal("cond", 0) /\ Move(f, "enter", "leave")
     \/ ~IsLast(count') /\ Wait(f, "cond") /\ Move(f, "enter", "wait")
  /\ UNCHANGED <<members, round, freed>>

(* The rest, once the signal is over or the wait has returned.             *)
BarrierLeave(f) ==
  /\ holder = f /\ waking = << >>
  /\ count' = (count + 1) % CountMod
  /\ Release(f)
  /\ Move(f, "leave", "out") \/ Move(f, "wait", "out")
  /\ UNCHANGED <<members, round, freed>>

(* melon_barrier_add, by whomever, for one more member, which joins in the *)
(* round that is waited for.                                               *)
BarrierAdd(f) ==
  /\ f \notin members /\ ~freed /\ round[f] = 0
  /\ AnyTime \/ BetweenRounds
  /\ \E g \in members : round' = [round EXCEPT ![f] = Completed(g)]
  /\ count' = (count + 1) % CountMod
  /\ members' = members \cup {f}
  /\ UNCHANGED <<mvars, bpc, freed>>

(* melon_barrier_release, by a member that leaves for good: the others may *)
(* be complete without it, and are then woken under the lock.              *)
BarrierRelease(f) ==
  /\ Member(f) /\ members # {f}
  /\ AnyTime \/ BetweenRounds
  /\ count >= 1
  /\ count' = (count - 1) % CountMod
  /\ members' = members \ {f}
  /\ round' = [round EXCEPT ![f] = MaxRounds]
  /\ Move(f, "out", IF IsLast(count') THEN "release" ELSE "out")
  /\ UNCHANGED <<mvars, freed>>

(* Mutant: the member that leaves wakes nobody.                            *)
BarrierReleaseSilent(f) ==
  \/ Lock(f) /\ Only(f, "release", "unlock")
  \/ Release(f) /\ Only(f, "unlock", "out")

BarrierReleaseRest(f) ==
  \/ Lock(f) /\ Only(f, "release", "locked")
  \/ holder = f /\ Signal("cond", 0) /\ Only(f, "locked", "unlock")
  \/ holder = f /\ waking = << >> /\ Release(f) /\ Only(f, "unlock", "out")

(* melon_barrier_destroy, by a member that has come out of its last round: *)
(* lock, then unlock and free.                                             *)
BarrierDestroy(f) ==
  /\ Member(f) /\ round[f] = MaxRounds
  /\ \A g \in Fibers : bpc[g] # "destroy"
  /\ Lock(f) /\ Only(f, "out", "destroy")

BarrierFree(f) ==
  /\ Release(f) /\ Move(f, "destroy", "out")
  /\ freed' = TRUE
  /\ UNCHANGED <<count, members, round>>

(* What a fiber inside a call does next.                                   *)
BarrierGoesOn(f) ==
  BarrierEnter(f) \/ BarrierLeave(f) \/ BarrierReleaseRest(f) \/ BarrierFree(f)

BarrierNext ==
  \/ MonitorStep /\ UNCHANGED barrierVars
  \/ \E f \in Fibers :
       \/ BarrierWait(f) \/ BarrierGoesOn(f)
       \/ BarrierAdd(f) \/ BarrierRelease(f) \/ BarrierDestroy(f)

BarrierSpec == MonitorInit /\ BarrierInit /\ [][BarrierNext]_<<mvars, barrierVars>>

----------------------------------------------------------------------------
(* A barrier keeps its members in step: a fiber is past its n-th           *)
(* melon_barrier_wait only when every member has called its n-th, however  *)
(* the giving back of the count interleaves with those who come again.     *)
RoundsInStep ==
  \A f, g \in members :
    bpc[f] \notin {"enter", "wait"} => round[g] >= round[f]

(* "lock before destroy to be sure that nobody is holding the lock":       *)
(* when the barrier is freed every fiber has left its last round, whoever  *)
(* destroys it and whatever the others had still to do.                    *)
DestroyedUnused ==
  freed =>
    /\ \A f \in Fibers : bpc[f] = "out"
    /\ holder = NULL /\ queue = << >> /\ waiters["cond"] = << >>

(* No fiber is left behind in melon_barrier_wait, as long as the members   *)
(* go on to their last round: the broadcast of the last to come, or of a   *)
(* member that leaves, finds everyone who waits.                           *)
BarrierPasses == \A f \in Fibers : bpc[f] = "wait" ~> bpc[f] = "out"
=============================================================================
