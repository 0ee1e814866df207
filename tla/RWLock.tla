------------------------------- MODULE RWLock -------------------------------
(***************************************************************************)
(* The melon read-write lock (rwlock.c) on a monitor with two conditions:  *)
(* a count of nested locks, whether they are for reading, and the writer.  *)
(*                                                                         *)
(* A call locks the monitor (RWCall), does its work when it has it         *)
(* (RWAcquire, RWWait, RWFail, RWUnlock), and may come back from a wait to *)
(* look again.  The program does not lock for reading what it has for      *)
(* writing, or the other way round.                                        *)
(***************************************************************************)
EXTENDS Monitor

CONSTANT MaxNest  \* bound on the locks a fiber has at a time

Ops == {"rdlock", "tryrdlock", "timedrdlock",
        "wrlock", "trywrlock", "timedwrlock", "unlock"}
Reads == {"rdlock", "tryrdlock", "timedrdlock"}
Writes == {"wrlock", "trywrlock", "timedwrlock"}
Timed == {"timedrdlock", "timedwrlock"}

ASSUME RWAssumption == {"wcond", "rcond"} \subseteq Conds /\ MaxNest \in Nat

VARIABLES
  lock_count, is_read, wowner,  \* of struct melon_rwlock
  op,      \* the call each fiber is in, "none" outside
  rpc,     \* where it is in the call
  locks    \* the locks each fiber's calls have returned, by kind

rwVars == <<lock_count, is_read, wowner, op, rpc, locks>>
lockVars == <<lock_count, is_read, wowner>>

(* melon_rwlock_init.                                                      *)
RWInit ==
  /\ lock_count = 0 /\ is_read = FALSE /\ wowner = NULL
  /\ op = [f \in Fibers |-> "none"]
  /\ rpc = [f \in Fibers |-> "out"]
  /\ locks = [f \in Fibers |-> [read |-> 0, write |-> 0]]

At(f, l) == rpc' = [rpc EXCEPT ![f] = l]
Return(f) == At(f, "out") /\ op' = [op EXCEPT ![f] = "none"]

(* Mutant: one lock does not keep readers out.                             *)
MayReadOffByOne(f) == lock_count <= 1 \/ is_read

(* The conditions of the loops: reading needs no writer, writing nobody    *)
(* else.                                                                   *)
MayRead(f) == lock_count = 0 \/ is_read
MayWrite(f) == wowner = f \/ lock_count = 0
May(f) == IF op[f] \in Reads THEN MayRead(f) ELSE MayWrite(f)

----------------------------------------------------------------------------
(* Any call, up to its lock of the monitor.  A fiber that has the monitor  *)
(* already, see RWFail, makes no call: melon_mutex_lock asserts so.        *)
RWCall(f, o) ==
  /\ rpc[f] = "out" /\ holder # f
  /\ o # "unlock" => locks[f].read + locks[f].write < MaxNest
  /\ o \in Reads => locks[f].write = 0
  /\ o \in Writes => locks[f].read = 0
  /\ o = "unlock" => locks[f].read + locks[f].write > 0
  /\ Lock(f)
  /\ op' = [op EXCEPT ![f] = o]
  /\ At(f, "entering")
  /\ UNCHANGED <<lockVars, locks>>

(* The monitor's lock is taken, or taken again after a wait.               *)
Inside(f) == holder = f /\ rpc[f] \in {"entering", "waiting"} /\ op[f] # "unlock"

(* The read-write lock is taken.                                           *)
RWAcquire(f) ==
  /\ Inside(f) /\ May(f)
  /\ lock_count' = lock_count + 1
  /\ is_read' = (op[f] \in Reads)
  /\ wowner' = IF op[f] \in Writes THEN f ELSE wowner
  /\ locks' = IF op[f] \in Reads THEN [locks EXCEPT ![f].read = @ + 1]
              ELSE [locks EXCEPT ![f].write = @ + 1]
  /\ Release(f) /\ Return(f)

RWCond(f) == IF op[f] \in Reads THEN "rcond" ELSE "wcond"

RWWait(f) ==
  /\ Inside(f) /\ ~May(f)
  /\ op[f] \in {"rdlock", "wrlock"} \cup Timed
  /\ Wait(f, RWCond(f))
  /\ At(f, "waiting")
  /\ UNCHANGED <<lockVars, op, locks>>

(* A try fails; melon_rwlock_tryrdlock returns with the monitor locked.    *)
RWFail(f) ==
  /\ Inside(f) /\ ~May(f)
  /\ \/ op[f] = "trywrlock" /\ Release(f)
     \/ op[f] = "tryrdlock" /\ UNCHANGED mvars
  /\ Return(f)
  /\ UNCHANGED <<lockVars, locks>>

(* The deadline of a timed call passes: before it has the monitor, while   *)
(* it waits on the condition (it then takes the monitor once more).        *)
RWGiveUp(f) ==
  /\ op[f] \in Timed /\ rpc[f] = "entering"
  /\ GiveUp(f) /\ Return(f)
  /\ UNCHANGED <<lockVars, locks>>

RWExpire(f) ==
  /\ op[f] \in Timed
  /\ Expire(f, RWCond(f))
  /\ At(f, "timedout")
  /\ UNCHANGED <<lockVars, op, locks>>

(* Mutant: a writer that leaves wakes nobody.                              *)
UnlockSignalNot == UNCHANGED mvars

(* rwlock->wcond is never NULL, so that only writers are ever signalled.   *)
UnlockSignal == Signal("wcond", 1)

(* melon_rwlock_unlock.                                                    *)
RWUnlock(f) ==
  /\ holder = f /\ op[f] = "unlock" /\ rpc[f] = "entering"
  /\ lock_count' = lock_count - 1
  /\ IF lock_count' = 0 THEN wowner' = NULL /\ UnlockSignal
     ELSE UNCHANGED <<wowner, mvars>>
  /\ locks' = IF locks[f].write > 0 THEN [locks EXCEPT ![f].write = @ - 1]
              ELSE [locks EXCEPT ![f].read = @ - 1]
  /\ At(f, "leaving")
  /\ UNCHANGED <<is_read, op>>

(* The last unlock of the monitor, after a signal or a timeout.            *)
RWLeave(f) ==
  /\ holder = f /\ rpc[f] \in {"leaving", "timedout"}
  /\ waking = << >>
  /\ Release(f) /\ Return(f)
  /\ UNCHANGED <<lockVars, locks>>

RWGoesOn(f) ==
  RWAcquire(f) \/ RWWait(f) \/ RWFail(f) \/ RWUnlock(f) \/ RWLeave(f)

RWNext ==
  \/ MonitorStep /\ UNCHANGED rwVars
  \/ \E f \in Fibers :
       \/ \E o \in Ops : RWCall(f, o)
       \/ RWGoesOn(f) \/ RWGiveUp(f) \/ RWExpire(f)

RWSpec == MonitorInit /\ RWInit /\ [][RWNext]_<<mvars, rwVars>>

----------------------------------------------------------------------------
(* Readers and a writer, or two writers, never have the lock at once,      *)
(* whatever calls time out, fail or nest, and the count is the sum of what *)
(* they have.                                                              *)
RWExclusion ==
  \A f, g \in Fibers :
    locks[f].write > 0 =>
      /\ lock_count = locks[f].write /\ wowner = f
      /\ g # f => locks[g].write = 0 /\ locks[g].read = 0

(* No writer sleeps on a lock that is free: a writer waits only under the  *)
(* lock of another, and the unlock that frees it empties wcond before any  *)
(* other call comes in, whoever nests, times out or fails in between.      *)
NoWriterAsleep == lock_count = 0 => waiters["wcond"] = << >>

(* Ways in which a waiting fiber is lost, both defects of the code: it is  *)
(* on no queue any more, because a signal for one took all the waiters     *)
(* (NoOrphan, module Cond), or a call has returned with the monitor locked *)
(* (MonitorReturned).                                                      *)
Dropped(f) ==
  /\ f # holder
  /\ f \notin Elems(queue \o waking) \cup Elems(waiters["wcond"]) \cup Elems(waiters["rcond"])
MonitorReturned == holder # NULL => rpc[holder] # "out"

(* A writer that waits gets the lock or gives up, provided that those who  *)
(* have it unlock and that the calls for it cease at some time: although   *)
(* unlock signals one writer only, a reader may come first, and the        *)
(* deadline of the one that is signalled may pass.  Without the proviso    *)
(* readers that overlap keep it out for ever, as rwlock.c prefers them.    *)
LockCall(f) == rpc[f] = "out" /\ op'[f] \in Reads \cup Writes
CallsCease == <>[][\A f \in Fibers : ~LockCall(f)]_rwVars
WriterServed ==
  CallsCease =>
    \A f \in Fibers :
      (rpc[f] = "waiting" /\ op[f] \in Writes)
        ~> (rpc[f] = "out" \/ Dropped(f) \/ ~MonitorReturned)
=============================================================================
