------------------------------ MODULE Monitor ------------------------------
(***************************************************************************)
(* What melon's mutex and conditions promise their users, seen from        *)
(* outside: a lock that goes to the fibers in the order they asked for it, *)
(* and conditions whose waiters ask for it again once they are signalled.  *)
(*                                                                         *)
(* Modules Mutex and Cond are shown to implement this specification;       *)
(* Barrier, RWLock and Join, whose code only calls mutex.c and cond.c, are *)
(* built on its actions.  It keeps what their correctness depends on:      *)
(*   - the queue is first in, first out, and no newcomer passes it;        *)
(*   - the steps of an unlock are not seen: a fiber may be queued behind a *)
(*     lock that is already free, because its last holder has not yet      *)
(*     looked at the queue, and is then granted it;                        *)
(*   - signalling is one step per fiber woken, so that others ask for the  *)
(*     lock in between;                                                    *)
(*   - a signal that is limited to nb fibers loses the other waiters, as   *)
(*     melon_cond_signalnb does.                                           *)
(***************************************************************************)
EXTENDS Dlist

CONSTANTS
  Fibers,  \* the fibers that use the monitor
  NULL,    \* no fiber
  Conds    \* its conditions

ASSUME MonitorAssumption == NULL \notin Fibers

VARIABLES
  holder,   \* the fiber that has the lock, NULL when it is free
  queue,    \* the fibers that wait for the lock
  waiters,  \* for each condition, the fibers that wait on it
  waking    \* the fibers that the signal in progress has still to wake

mvars == <<holder, queue, waiters, waking>>

MonitorInit ==
  /\ holder = NULL /\ queue = << >> /\ waiters = [c \in Conds |-> << >>]
  /\ waking = << >>

(* The fiber gets the lock, or it is queued.                               *)
Gets(f) ==
  /\ holder = NULL /\ queue = << >>
  /\ holder' = f
  /\ UNCHANGED queue

(* Mutant: the lock goes to the one that asked last.                       *)
QueuesFirst(f) ==
  /\ f \notin Elems(queue)
  /\ queue' = <<f>> \o queue
  /\ UNCHANGED holder

Queues(f) ==
  /\ f \notin Elems(queue)
  /\ queue' = DlistPush(queue, f)
  /\ UNCHANGED holder

Relock(f) == Gets(f) \/ Queues(f)

(* melon_mutex_lock; TryLock is melon_mutex_trylock when it succeeds, and  *)
(* GiveUp melon_mutex_timedlock when its deadline passes.  The holder may  *)
(* be queued too: that is what timedlock does on a mutex one has.          *)
Lock(f) == Relock(f) /\ UNCHANGED <<waiters, waking>>
TryLock(f) == Gets(f) /\ UNCHANGED <<waiters, waking>>
GiveUp(f) ==
  /\ f \in Elems(queue)
  /\ queue' = DlistUnlink(queue, f)
  /\ UNCHANGED <<holder, waiters, waking>>

(* melon_mutex_unlock: the lock is free, and goes to the head of the queue.*)
Release(f) ==
  /\ holder = f
  /\ holder' = NULL
  /\ UNCHANGED <<queue, waiters, waking>>

Grant(f) ==
  /\ holder = NULL
  /\ queue # << >> /\ f = Head(queue)
  /\ holder' = f
  /\ queue' = Tail(queue)
  /\ UNCHANGED <<waiters, waking>>

(* melon_cond_wait, and melon_cond_timedwait when its deadline passes.     *)
Wait(f, c) ==
  /\ holder = f
  /\ holder' = NULL
  /\ waiters' = [waiters EXCEPT ![c] = DlistPush(@, f)]
  /\ UNCHANGED <<queue, waking>>

Expire(f, c) ==
  /\ f \in Elems(waiters[c])
  /\ waiters' = [waiters EXCEPT ![c] = DlistUnlink(@, f)]
  /\ Relock(f)
  /\ UNCHANGED waking

(* melon_cond_signalnb, nb = 0 for a broadcast: who is to be woken, then   *)
(* one of them after the other.                                            *)
Signal(c, nb) ==
  /\ waking = << >>
  /\ waking' = IF nb = 0 \/ Len(waiters[c]) <= nb THEN waiters[c]
               ELSE SubSeq(waiters[c], 1, nb)
  /\ waiters' = [waiters EXCEPT ![c] = << >>]
  /\ UNCHANGED <<holder, queue>>

Wake(f) ==
  /\ waking # << >> /\ f = Head(waking)
  /\ waking' = Tail(waking)
  /\ Relock(f)
  /\ UNCHANGED waiters

(* What goes on inside the library whatever its users do.                  *)
MonitorStep == \E f \in Fibers : Grant(f) \/ Wake(f)

MonitorNext ==
  \/ MonitorStep
  \/ \E f \in Fibers :
       \/ Lock(f) \/ GiveUp(f) \/ Release(f)
       \/ \E c \in Conds : Wait(f, c) \/ Expire(f, c)
  \/ \E c \in Conds, nb \in 0..1 : Signal(c, nb)

MonitorSpec == MonitorInit /\ [][MonitorNext]_mvars
=============================================================================
