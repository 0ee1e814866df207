-------------------------------- MODULE Join --------------------------------
(***************************************************************************)
(* Joinable fibers (fiber.c) on a monitor: join_mutex and join_cond belong *)
(* to the fiber, which sets join_is_finished at its end, wakes whoever     *)
(* waits for it, and then waits itself on the same condition until it is   *)
(* joined or detached; it is freed after that.                             *)
(*                                                                         *)
(* One fiber is the target.  Another holds its handle and tries            *)
(* tryjoin and timedjoin as often as it likes until one of them succeeds,  *)
(* or calls join or detach: with that the handle is used up.               *)
(***************************************************************************)
EXTENDS Monitor

CONSTANTS Target, Joiner

ASSUME JoinAssumption ==
  /\ {Target, Joiner} \subseteq Fibers /\ Target # Joiner
  /\ "cond" \in Conds

VARIABLES
  join_is_finished, join_is_detached,
  tpc,     \* where the target is
  jpc,     \* where the joiner is
  waited   \* the joiner's answer came from a melon_fiber_join that waited

joinVars == <<join_is_finished, join_is_detached, tpc, jpc, waited>>

(* melon_fiber_create has returned.                                        *)
JoinInit ==
  /\ join_is_finished = FALSE /\ join_is_detached = FALSE
  /\ tpc = "running" /\ jpc = "idle"
  /\ waited = FALSE

----------------------------------------------------------------------------
(* The target, the joiner goes on.                                         *)
TargetStep(from, to) ==
  /\ tpc = from /\ tpc' = to
  /\ UNCHANGED <<join_is_detached, jpc, waited>>
JoinerStep(from, to) ==
  /\ jpc = from /\ jpc' = to
  /\ UNCHANGED <<join_is_finished, tpc>>
JoinerOnly(from, to) == JoinerStep(from, to) /\ UNCHANGED <<join_is_detached, waited>>

(* melon_fiber_wrapper, from the return of start_cb on.                    *)
FinishLock ==
  /\ Lock(Target) /\ TargetStep("running", "finish")
  /\ UNCHANGED join_is_finished

FinishBroadcast ==
  /\ holder = Target
  /\ join_is_finished' = TRUE
  /\ Signal("cond", 0)
  /\ TargetStep("finish", "told")

(* Mutant: the fiber does not wait to be joined.                           *)
FinishNoWait ==
  /\ holder = Target /\ waking = << >>
  /\ Release(Target) /\ TargetStep("told", "freed")
  /\ UNCHANGED join_is_finished

(* The fiber waits to be joined unless it is detached.                     *)
FinishWait ==
  /\ holder = Target /\ waking = << >>
  /\ \/ join_is_detached /\ Release(Target) /\ TargetStep("told", "freed")
     \/ ~join_is_detached /\ Wait(Target, "cond") /\ TargetStep("told", "lingering")
  /\ UNCHANGED join_is_finished

(* The wait has returned; melon_fiber_destroy follows.                     *)
FinishFree ==
  /\ Release(Target) /\ TargetStep("lingering", "freed")
  /\ UNCHANGED join_is_finished

----------------------------------------------------------------------------
(* melon_fiber_join, melon_fiber_timedjoin and melon_fiber_detach lock the *)
(* mutex; melon_fiber_tryjoin takes it if it can, and else returns.        *)
JoinCall ==
  \/ \E l \in {"join", "timedjoin", "detach"} : Lock(Joiner) /\ JoinerOnly("idle", l)
  \/ TryLock(Joiner) /\ JoinerOnly("idle", "tryjoin")

(* Mutant: tryjoin finds the fiber finished and does not tell it.          *)
AnswerUntold ==
  /\ holder = Joiner /\ join_is_finished /\ waking = << >>
  /\ \E l \in {"join", "tryjoin", "timedjoin", "detach"} : JoinerOnly(l, "answered")
  /\ UNCHANGED mvars

(* The target is finished: it is told, and the call is about to return.    *)
Answer ==
  /\ holder = Joiner /\ join_is_finished
  /\ \E l \in {"join", "tryjoin", "timedjoin", "detach"} : JoinerOnly(l, "answered")
  /\ Signal("cond", 0)

(* It is not: wait, come back later, or leave it to itself.                *)
NotYet ==
  /\ holder = Joiner /\ ~join_is_finished
  /\ \/ Wait(Joiner, "cond") /\ JoinerOnly("join", "join_wait")
     \/ Wait(Joiner, "cond") /\ JoinerOnly("timedjoin", "timed_wait")
     \/ Release(Joiner) /\ JoinerOnly("tryjoin", "idle")
     \/ /\ Release(Joiner) /\ JoinerStep("detach", "done")
        /\ join_is_detached' = TRUE /\ UNCHANGED waited

(* A wait that was signalled: melon_fiber_join returns, while timedjoin    *)
(* tells the target first.                                                 *)
JoinWaited ==
  /\ Release(Joiner) /\ JoinerStep("join_wait", "done")
  /\ waited' = TRUE /\ UNCHANGED join_is_detached

TimedWaited ==
  holder = Joiner /\ Signal("cond", 0) /\ JoinerOnly("timed_wait", "answered")

Answered == waking = << >> /\ Release(Joiner) /\ JoinerOnly("answered", "done")

(* The deadline of melon_fiber_timedjoin passes, in the lock or the wait.  *)
TimedJoinExpires ==
  \/ GiveUp(Joiner) /\ JoinerOnly("timedjoin", "idle")
  \/ Expire(Joiner, "cond") /\ JoinerOnly("timed_wait", "timedout")

TimedOut == Release(Joiner) /\ JoinerOnly("timedout", "idle")

TargetGoesOn == FinishLock \/ FinishBroadcast \/ FinishWait \/ FinishFree
JoinerGoesOn ==
  Answer \/ NotYet \/ JoinWaited \/ TimedWaited \/ Answered \/ TimedOut

JoinNext ==
  \/ MonitorStep /\ UNCHANGED joinVars
  \/ TargetGoesOn \/ JoinCall \/ JoinerGoesOn \/ TimedJoinExpires

JoinSpec == MonitorInit /\ JoinInit /\ [][JoinNext]_<<mvars, joinVars>>

----------------------------------------------------------------------------
(* A fiber is freed after the last use of its handle, with its mutex and   *)
(* its condition unused (melon_mutex_destroy and melon_cond_destroy assert *)
(* it), and a join that has returned found it finished: the callee and the *)
(* joiner wait for each other on one condition, and deadlines interfere.   *)
FreedAfterJoin ==
  /\ tpc = "freed" =>
       /\ jpc = "done"
       /\ holder = NULL /\ queue = << >> /\ waiters["cond"] = << >>
  /\ jpc = "done" => join_is_finished \/ join_is_detached

(* A fiber whose joiner has its answer ends, so that melon_wait can        *)
(* return: the broadcast that tells it is never lost, whether it comes     *)
(* before or after the fiber waits for it.  The exception is a             *)
(* melon_fiber_join that had to wait (waited): it returns without telling  *)
(* the fiber (fiber.c:187-194), which then waits for ever.                 *)
AnsweredFiberEnds == (jpc = "done" /\ ~waited) ~> tpc = "freed"
=============================================================================
