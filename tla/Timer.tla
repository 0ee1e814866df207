------------------------------- MODULE Timer -------------------------------
(***************************************************************************)
(* The timer manager (timer_manager.c): a queue of fibers sorted by        *)
(* deadline, and a thread that fires what has expired and then sleeps on   *)
(* timer_cond until the deadline at the head of the queue.  Fibers come    *)
(* into the queue from melon_sleep and melon_usleep, and from the timed    *)
(* waits of mutexes, conditions and descriptors, whose event may take them *)
(* out again before the deadline.                                          *)
(*                                                                         *)
(* Everything but the computation of a sleep's deadline happens under      *)
(* g_melon.lock, so an iteration of the thread is one action.              *)
(***************************************************************************)
EXTENDS Dlist

CONSTANTS
  Sleepers,    \* the fibers that sleep or wait with a deadline
  MaxTime,     \* bound on the clock and on deadlines
  Secs,        \* arguments of melon_sleep
  Usecs,       \* arguments of melon_usleep
  UsecPerSec,  \* 1000 * 1000, scaled down with
  UIntMod      \* 2^32, the width of melon_sleep's argument

ASSUME TimerAssumption ==
  /\ MaxTime \in Nat
  /\ UsecPerSec \in Nat /\ UIntMod \in Nat \ {0}
  /\ Secs \subseteq Nat /\ Usecs \subseteq Nat

VARIABLES
  timer,        \* fiber->timer
  timer_queue,  \* g_melon.timer_queue
  now,          \* the monotonic clock, in microseconds
  fpc,          \* "run", "arming", "asleep" (in usleep), "timed" (in a timed wait)
  until,        \* the time before which the call to sleep must not return
  timerpc,      \* the timer thread: "loop", "waiting" on timer_cond, "exit"
  deadline,     \* the deadline it waits with, 0 for none
  stop,         \* g_melon.stop
  main          \* "up", then melon_deinit: "stopped", "signalled", "joined"

vars == <<timer, timer_queue, now, fpc, until, timerpc, deadline, stop, main>>

TypeOK ==
  /\ timer \in [Sleepers -> Nat] /\ timer_queue \in Seq(Sleepers) /\ now \in Nat
  /\ fpc \in [Sleepers -> {"run", "arming", "asleep", "timed"}]
  /\ until \in [Sleepers -> Nat] /\ timerpc \in {"loop", "waiting", "exit"}
  /\ deadline \in Nat /\ stop \in BOOLEAN
  /\ main \in {"up", "stopped", "signalled", "joined"}

(* melon_timer_manager_init.                                               *)
Init ==
  /\ timer = [f \in Sleepers |-> 0] /\ timer_queue = << >> /\ now = 1
  /\ fpc = [f \in Sleepers |-> "run"] /\ until = [f \in Sleepers |-> 0]
  /\ timerpc = "loop" /\ deadline = 0 /\ stop = FALSE /\ main = "up"

----------------------------------------------------------------------------
(* pthread_cond_signal on timer_cond.                                      *)
SignalTimer == timerpc' = IF timerpc = "waiting" THEN "loop" ELSE timerpc

(* Mutant: the thread is only woken when the queue was empty.              *)
TimerPushSignalEmpty(f) ==
  /\ timer_queue' = TimerInsert(timer_queue, timer', f)
  /\ IF timer_queue = << >> THEN SignalTimer ELSE UNCHANGED timerpc

(* Mutant: the thread is not woken at all.                                 *)
TimerPushNoSignal(f) ==
  /\ timer_queue' = TimerInsert(timer_queue, timer', f)
  /\ UNCHANGED timerpc

(* melon_timer_push_locked: the thread is woken for a new head.            *)
TimerPush(f) ==
  /\ timer_queue' = TimerInsert(timer_queue, timer', f)
  /\ IF Head(timer_queue') = f THEN SignalTimer ELSE UNCHANGED timerpc

(* melon_usleep up to melon_timer_push; want is what its caller was asked. *)
Usleep(f, usecs, want) ==
  /\ main = "up"
  /\ fpc[f] = "run"
  /\ now + usecs <= MaxTime
  /\ timer' = [timer EXCEPT ![f] = now + usecs]
  /\ until' = [until EXCEPT ![f] = now + want]
  /\ fpc' = [fpc EXCEPT ![f] = "arming"]
  /\ UNCHANGED <<timer_queue, now, timerpc, deadline, stop, main>>

(* melon_sleep multiplies in 32 bits.                                      *)
SleepUsecs(secs) == (secs * UsecPerSec) % UIntMod

Sleep(f, secs) == Usleep(f, SleepUsecs(secs), secs * UsecPerSec)

(* melon_timer_push.                                                       *)
UsleepPush(f) ==
  /\ fpc[f] = "arming"
  /\ UNCHANGED timer
  /\ TimerPush(f)
  /\ fpc' = [fpc EXCEPT ![f] = "asleep"]
  /\ UNCHANGED <<now, until, deadline, stop, main>>

(* A timed wait arms an absolute deadline, which may be past already.      *)
TimedWait(f, t) ==
  /\ main = "up"
  /\ fpc[f] = "run"
  /\ timer' = [timer EXCEPT ![f] = t]
  /\ TimerPush(f)
  /\ until' = [until EXCEPT ![f] = t]
  /\ fpc' = [fpc EXCEPT ![f] = "timed"]
  /\ UNCHANGED <<now, deadline, stop, main>>

(* The event of a timed wait comes first: melon_timer_remove_locked.       *)
TimerRemove(f) ==
  /\ fpc[f] = "timed"
  /\ timer_queue' = DlistUnlink(timer_queue, f)
  /\ fpc' = [fpc EXCEPT ![f] = "run"]
  /\ UNCHANGED <<timer, now, until, timerpc, deadline, stop, main>>

----------------------------------------------------------------------------
(* Mutant: the head is fired without comparing its deadline.               *)
ExpiredAny == IF timer_queue = << >> THEN 0 ELSE 1

(* How many fibers at the head of the queue have expired.                  *)
Expired ==
  CHOOSE n \in 0..Len(timer_queue) :
    /\ \A i \in 1..n : timer[timer_queue[i]] <= now
    /\ n < Len(timer_queue) => timer[timer_queue[n + 1]] > now

Fire(n) ==
  /\ timer_queue' = SubSeq(timer_queue, n + 1, Len(timer_queue))
  /\ fpc' = [f \in Sleepers |->
               IF \E i \in 1..n : timer_queue[i] = f THEN "run" ELSE fpc[f]]

(* pthread_cond_timedwait until the head, or pthread_cond_wait.            *)
WaitForHead == deadline' = IF timer_queue' = << >> THEN 0
                           ELSE timer[Head(timer_queue')]

(* One iteration of melon_timer_manager_loop.                              *)
TimerLoop ==
  /\ timerpc = "loop"
  /\ \/ /\ stop
        /\ timerpc' = "exit"
        /\ UNCHANGED <<timer_queue, fpc, deadline>>
     \/ /\ ~stop
        /\ Fire(Expired)
        /\ WaitForHead
        /\ timerpc' = "waiting"
  /\ UNCHANGED <<timer, now, until, stop, main>>

(* pthread_cond_timedwait returns at its deadline; either wait may return  *)
(* for no reason.                                                          *)
TimerDeadline ==
  /\ timerpc = "waiting"
  /\ deadline > 0 /\ deadline <= now
  /\ timerpc' = "loop"
  /\ UNCHANGED <<timer, timer_queue, now, fpc, until, deadline, stop, main>>

TimerSpurious ==
  /\ timerpc = "waiting"
  /\ timerpc' = "loop"
  /\ UNCHANGED <<timer, timer_queue, now, fpc, until, deadline, stop, main>>

(* The clock advances.                                                     *)
Tick ==
  /\ now < MaxTime
  /\ now' = now + 1
  /\ UNCHANGED <<timer, timer_queue, fpc, until, timerpc, deadline, stop, main>>

----------------------------------------------------------------------------
(* melon_deinit, called when no fiber is left: stop is set under           *)
(* g_melon.lock, then melon_timer_manager_deinit signals and joins.        *)
DeinitStop ==
  /\ main = "up"
  /\ \A f \in Sleepers : fpc[f] = "run"
  /\ stop' = TRUE
  /\ main' = "stopped"
  /\ UNCHANGED <<timer, timer_queue, now, fpc, until, timerpc, deadline>>

(* Mutant: the thread is not signalled.                                    *)
DeinitSignalLost ==
  /\ main = "stopped"
  /\ main' = "signalled"
  /\ UNCHANGED <<timer, timer_queue, now, fpc, until, timerpc, deadline, stop>>

DeinitSignal ==
  /\ main = "stopped"
  /\ SignalTimer
  /\ main' = "signalled"
  /\ UNCHANGED <<timer, timer_queue, now, fpc, until, deadline, stop>>

DeinitJoin ==
  /\ main = "signalled"
  /\ timerpc = "exit"
  /\ main' = "joined"
  /\ UNCHANGED <<timer, timer_queue, now, fpc, until, timerpc, deadline, stop>>

Next ==
  \/ \E f \in Sleepers :
       \/ \E s \in Secs : Sleep(f, s)
       \/ \E u \in Usecs : Usleep(f, u, u)
       \/ \E t \in 1..MaxTime : TimedWait(f, t)
       \/ UsleepPush(f)
       \/ TimerRemove(f)
  \/ TimerLoop
  \/ TimerDeadline
  \/ TimerSpurious
  \/ Tick
  \/ DeinitStop
  \/ DeinitSignal
  \/ DeinitJoin

Spec == Init /\ [][Next]_vars

(* The threads and the clock run; a fiber inside melon_usleep goes on.     *)
Fairness ==
  /\ WF_vars(TimerLoop) /\ WF_vars(TimerDeadline) /\ WF_vars(Tick)
  /\ WF_vars(DeinitSignal) /\ WF_vars(DeinitJoin)
  /\ \A f \in Sleepers : WF_vars(UsleepPush(f))

FairSpec == Spec /\ Fairness

----------------------------------------------------------------------------
(* The timer thread never oversleeps: while it waits, its deadline is not  *)
(* after that of any fiber in the queue, although fibers are inserted      *)
(* before, after and at its head and taken out meanwhile.                  *)
NoOversleep ==
  timerpc = "waiting" =>
    \A f \in Elems(timer_queue) : deadline > 0 /\ deadline <= timer[f]

(* The queue holds the fibers that wait for a deadline, once each and in   *)
(* the order of their deadlines.                                           *)
QueueIsTheArmed ==
  /\ NoDup(timer_queue)
  /\ Elems(timer_queue) = {f \in Sleepers : fpc[f] \in {"asleep", "timed"}}
  /\ TimerSorted(timer_queue, timer)

(* What the two need: a fiber that waits has a deadline, and 0, which      *)
(* means none, is never one.                                               *)
TimersSet ==
  /\ now > 0
  /\ \A f \in Sleepers : fpc[f] # "run" => timer[f] > 0

(* Holds in every state and is kept by every step of timer_manager.c: the  *)
(* argument behind NoOversleep.                                            *)
TimerInv == TypeOK /\ QueueIsTheArmed /\ TimersSet /\ NoOversleep

(* melon_sleep and melon_usleep sleep at least as long as they were asked, *)
(* as long as the microseconds fit in 32 bits: melon_sleep of 4295 seconds *)
(* or more wraps and returns early (run timer_wrap).                       *)
SleepsLongEnough ==
  [][\A f \in Sleepers : fpc[f] = "asleep" /\ fpc'[f] = "run" => now >= until[f]]_vars

(* Why: the deadline that is armed is not before the promised time.        *)
PromiseArmed ==
  \A f \in Sleepers : fpc[f] \in {"arming", "asleep"} => until[f] <= timer[f]

(* Every sleep and every timed wait ends.                                  *)
SleeperWakes == \A f \in Sleepers : fpc[f] # "run" ~> fpc[f] = "run"

(* melon_timer_manager_deinit returns: its one signal does not fall        *)
(* between the timer thread's look at stop and its wait.                   *)
DeinitReturns == main = "stopped" ~> main = "joined"
=============================================================================
