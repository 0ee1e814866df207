----------------------------- MODULE IoManager -----------------------------
(***************************************************************************)
(* Blocking I/O: fibers that wait for descriptors (io_manager_epoll.c and  *)
(* the calls of io.c), the I/O thread and its epoll set.                   *)
(*                                                                         *)
(* A read or a write is melon_io_manager_waitfor followed by the system    *)
(* call; the system calls only change what the descriptor is ready for.    *)
(* All of melon's state is under g_melon.lock.  What is not: the I/O       *)
(* thread fetches a batch of events first and takes the lock afterwards,   *)
(* so that the batch it handles may be stale: waiters may have timed out,  *)
(* new ones may have come, the descriptor may have been closed and its     *)
(* number given out again.  Registration is one-shot: what was delivered   *)
(* is disarmed until the next epoll_ctl.                                   *)
(*                                                                         *)
(* The kernel keeps open, level, registered and armed.  A descriptor is    *)
(* not duplicated, so close takes it out of the epoll set.  A wait that    *)
(* epoll_ctl refuses (a descriptor that is not open or cannot be polled)   *)
(* returns and changes nothing.                                            *)
(***************************************************************************)
EXTENDS Dlist, FiniteSets

CONSTANTS
  Fibers,
  Fds,        \* descriptor numbers
  Timeouts,   \* deadlines a caller may give; 0 is none
  MaxTime     \* the clock stops here

ASSUME IoAssumption == Timeouts \subseteq Nat /\ MaxTime \in Nat

Directions == {"IN", "OUT"}
Slots == Fds \X Directions
NoEvent == << >>  \* kEventNone

VARIABLES
  queue,        \* queue[d, "IN"] is io[d].read_queue, "OUT" its write_queue
  is_in_epoll,  \* io[d].is_in_epoll
  open,         \* the descriptors that are open
  level,        \* what a descriptor is ready for; "HUP": hung up or in error
  registered,   \* the descriptors in the epoll set
  armed,        \* the events registered and not disarmed
  batch,        \* what epoll_wait returned for each descriptor
  iopc,         \* the I/O thread: "loop", "wait", "handle" or "exit"
  pc,           \* a fiber: "run", or "waiting" in melon_io_manager_waitfor
  slot,         \* the descriptor and the waited_event of a fiber
  timer,        \* fiber->timer
  timer_queue,
  now,
  glock,        \* "timer" while the timer thread fires several timers
  timedout,     \* the fibers whose ctx.timeout is set
  io_canceled,  \* the fibers whose io_canceled is set
  ready,        \* the fibers made ready and not yet resumed
  cause,        \* ghost: why a fiber was made ready
  stop,
  main          \* melon_deinit: "up", "stopped", "canceled", "joined"

kernelVars == <<open, level, registered, armed>>
ioVars == <<queue, is_in_epoll>>
threadVars == <<batch, iopc>>
timeVars == <<timer, timer_queue, now, glock>>
fiberVars == <<pc, slot, timedout, io_canceled, ready, cause>>
mainVars == <<stop, main>>
vars == <<queue, is_in_epoll, open, level, registered, armed, batch, iopc, pc,
          slot, timer, timer_queue, now, glock, timedout, io_canceled, ready,
          cause, stop, main>>

(* The queues, what the kernel watches, and the batch.                     *)
TypeOK ==
  /\ queue \in [Slots -> Seq(Fibers)]
  /\ armed \in [Fds -> SUBSET Directions]
  /\ batch \in [Fds -> SUBSET (Directions \cup {"HUP"})]

Init ==
  /\ queue = [s \in Slots |-> << >>] /\ is_in_epoll = {} /\ open = Fds
  /\ level = [d \in Fds |-> {}] /\ registered = {}
  /\ armed = [d \in Fds |-> {}] /\ batch = [d \in Fds |-> {}]
  /\ iopc = "loop" /\ pc = [f \in Fibers |-> "run"]
  /\ slot = [f \in Fibers |-> NoEvent]
  /\ timer = [f \in Fibers |-> 0] /\ timer_queue = << >>
  /\ now = 0 /\ glock = "free"
  /\ timedout = {} /\ io_canceled = {} /\ ready = {}
  /\ cause = [f \in Fibers |-> "none"] /\ stop = FALSE /\ main = "up"

----------------------------------------------------------------------------
(* The directions fibers wait for on d, in the queues q.                   *)
Waited(q, d) == {e \in Directions : q[<<d, e>>] # << >>}

(* Mutant: only the new waiter's event is registered.                      *)
WaitforEventsOwn(d, e) == {e}

(* What melon_io_manager_waitfor registers: its own event and the ones of  *)
(* the fibers that already wait.                                           *)
WaitforEvents(d, e) == Waited(queue, d) \cup {e}

(* Mutant: the flags of the previous wait are kept.                        *)
ResetFlagsNot(f) == timedout' = timedout \ {f} /\ UNCHANGED io_canceled

ResetFlags(f) == timedout' = timedout \ {f} /\ io_canceled' = io_canceled \ {f}

(* melon_io_manager_waitfor on an open descriptor.  When is_in_epoll is    *)
(* not what the kernel knows, epoll_ctl fails with EEXIST or ENOENT, the   *)
(* code corrects is_in_epoll and repeats: d is registered in the end.      *)
Waitfor(f, d, e, t) ==
  /\ main = "up" /\ glock = "free"
  /\ pc[f] = "run"
  /\ d \in open
  /\ registered' = registered \cup {d}
  /\ armed' = [armed EXCEPT ![d] = WaitforEvents(d, e)]
  /\ is_in_epoll' = is_in_epoll \cup {d}
  /\ slot' = [slot EXCEPT ![f] = <<d, e>>]
  /\ ResetFlags(f)
  /\ queue' = [queue EXCEPT ![<<d, e>>] = DlistPush(@, f)]
  /\ timer' = [timer EXCEPT ![f] = t]
  /\ timer_queue' = IF t > 0 THEN TimerInsert(timer_queue, timer', f)
                    ELSE timer_queue
  /\ pc' = [pc EXCEPT ![f] = "waiting"]
  /\ UNCHANGED <<open, level, now, glock, ready, cause>>
  /\ UNCHANGED <<threadVars, mainVars>>

(* The calls of io.c: reads, accepts and receptions wait for "IN", writes, *)
(* connections and emissions for "OUT", and then make their system call,   *)
(* which may change what d is ready for (LevelChange).  melon_splice and   *)
(* melon_tee are two such waits, one after the other.                      *)
IoCall(f, d, e) == \E t \in Timeouts : Waitfor(f, d, e, t)

(* A scheduler thread picks the fiber up and its call returns.             *)
Resume(f) ==
  /\ glock = "free"
  /\ pc[f] = "waiting"
  /\ f \in ready
  /\ pc' = [pc EXCEPT ![f] = "run"]
  /\ ready' = ready \ {f}
  /\ cause' = [cause EXCEPT ![f] = "none"]
  /\ timedout' = timedout \ {f}
  /\ UNCHANGED <<slot, io_canceled>>
  /\ UNCHANGED <<ioVars, kernelVars, threadVars, timeVars, mainVars>>

(* errno.h of Linux.                                                       *)
ETIMEDOUT == 110
ECANCELED == 125

(* The errno the wait leaves, negative as the code sets it; the calls of   *)
(* io.c then return -1 and do not touch it.  0 when the wait was for an    *)
(* event, and the system call is made.                                     *)
Result(f) ==
  IF timer[f] > 0 /\ f \in timedout THEN -ETIMEDOUT
  ELSE IF f \in io_canceled THEN -ECANCELED ELSE 0

(* Mutant: the timers of the fibers stay armed.                            *)
ReleaseKeepsTimers(S) == UNCHANGED timer_queue

(* melon_timer_remove_locked for every fiber of S that has a timer: the    *)
(* others, at places kept[1], kept[2]..., stay linked in their order.      *)
ReleaseTimers(S) ==
  \E n \in 0..Len(timer_queue) : \E kept \in [1..n -> 1..Len(timer_queue)] :
    /\ \A i, j \in 1..n : i < j => kept[i] < kept[j]
    /\ {kept[i] : i \in 1..n} =
         {i \in 1..Len(timer_queue) :
            ~(timer_queue[i] \in S /\ timer[timer_queue[i]] > 0)}
    /\ timer_queue' = [i \in 1..n |-> timer_queue[kept[i]]]

(* The fibers S leave their queues and become ready.                       *)
Release(S, why) ==
  /\ ReleaseTimers(S)
  /\ ready' = ready \cup S
  /\ slot' = [f \in Fibers |-> IF f \in S THEN NoEvent ELSE slot[f]]
  /\ cause' = [f \in Fibers |-> IF f \in S THEN why ELSE cause[f]]
  /\ UNCHANGED <<timer, now, glock, pc>>

----------------------------------------------------------------------------
(* The timer thread fires the head of its queue; it keeps the lock while   *)
(* the next one has expired as well.                                       *)
TimerExpires(f) ==
  /\ timer_queue # << >>
  /\ f = Head(timer_queue)
  /\ timer[f] <= now
  /\ timer_queue' = Tail(timer_queue)
  /\ glock' = IF timer_queue' # << >> /\ timer[Head(timer_queue')] <= now
              THEN "timer" ELSE "free"

(* waitfor_cb.                                                             *)
WaitforCb(f) ==
  /\ TimerExpires(f)
  /\ timedout' = timedout \cup {f}
  /\ queue' = [queue EXCEPT ![slot[f]] = DlistUnlink(@, f)]
  /\ ready' = ready \cup {f}
  /\ slot' = [slot EXCEPT ![f] = NoEvent]
  /\ cause' = [cause EXCEPT ![f] = "timeout"]
  /\ UNCHANGED <<is_in_epoll, timer, now, pc, io_canceled>>
  /\ UNCHANGED <<kernelVars, threadVars, mainVars>>

(* The clock advances.                                                     *)
Tick ==
  /\ now < MaxTime
  /\ now' = now + 1
  /\ UNCHANGED <<timer, timer_queue, glock>>
  /\ UNCHANGED <<ioVars, kernelVars, threadVars, fiberVars, mainVars>>

----------------------------------------------------------------------------
(* The events epoll_wait returns for d; HUP needs no registration of its   *)
(* own, but a disarmed descriptor reports nothing.                         *)
Deliverable(d) ==
  IF d \in registered /\ armed[d] # {}
  THEN level[d] \cap (armed[d] \cup {"HUP"}) ELSE {}

(* The head of melon_io_manager_loop.                                      *)
IoLoop ==
  /\ iopc = "loop"
  /\ iopc' = IF stop THEN "exit" ELSE "wait"
  /\ UNCHANGED batch
  /\ UNCHANGED <<ioVars, kernelVars, timeVars, fiberVars, mainVars>>

(* epoll_wait returns events and disarms them.                             *)
EpollWait ==
  /\ iopc = "wait"
  /\ main \in {"up", "stopped"}
  /\ \E d \in Fds : Deliverable(d) # {}
  /\ batch' = [d \in Fds |-> Deliverable(d)]
  /\ armed' = [d \in Fds |-> IF Deliverable(d) = {} THEN armed[d] ELSE {}]
  /\ iopc' = "handle"
  /\ UNCHANGED <<open, level, registered>>
  /\ UNCHANGED <<ioVars, timeVars, fiberVars, mainVars>>

(* epoll_wait fails: a signal, or the epoll descriptor is closed.          *)
EpollFails ==
  /\ iopc = "wait"
  /\ iopc' = IF stop THEN "exit" ELSE "loop"
  /\ UNCHANGED batch
  /\ UNCHANGED <<ioVars, kernelVars, timeVars, fiberVars, mainVars>>

(* Mutant: an event releases the fiber that came last.                     *)
PopOneLast(q, e, events) ==
  IF "HUP" \in events THEN << >>
  ELSE IF e \in events /\ q # << >> THEN SubSeq(q, 1, Len(q) - 1) ELSE q

(* What an event leaves of a queue: nothing after a hang-up, all but the   *)
(* head when it is for this direction.                                     *)
PopOne(q, e, events) ==
  IF "HUP" \in events THEN << >>
  ELSE IF e \in events /\ q # << >> THEN Tail(q) ELSE q

(* Mutant: a descriptor is not armed again for the fibers that are left.   *)
RearmNot(q) == UNCHANGED armed

(* The end of melon_io_manager_handle: what is still waited for is armed.  *)
Rearm(q) ==
  armed' = [d \in Fds |-> IF /\ batch[d] # {} /\ d \in registered
                             /\ Waited(q, d) # {}
                          THEN Waited(q, d) ELSE armed[d]]

(* melon_io_manager_handle for every event of the batch, in one critical   *)
(* section of g_melon.lock.                                                *)
IoHandle ==
  /\ iopc = "handle" /\ glock = "free"
  /\ queue' = [s \in Slots |-> PopOne(queue[s], s[2], batch[s[1]])]
  /\ Release({f \in Fibers :
                \E s \in Slots : f \in Elems(queue[s]) \ Elems(queue'[s])},
             "event")
  /\ Rearm(queue')
  /\ batch' = [d \in Fds |-> {}]
  /\ iopc' = "loop"
  /\ UNCHANGED <<is_in_epoll, open, level, registered, timedout, io_canceled>>
  /\ UNCHANGED mainVars

----------------------------------------------------------------------------
(* melon_close_flush_queue on the two queues of d.                         *)
Flush(d) ==
  LET S == Elems(queue[<<d, "IN">>]) \cup Elems(queue[<<d, "OUT">>]) IN
  /\ queue' = [s \in Slots |-> IF s[1] = d THEN << >> ELSE queue[s]]
  /\ io_canceled' = io_canceled \cup S
  /\ Release(S, "cancel")
  /\ UNCHANGED timedout

(* melon_close.                                                            *)
Close(d) ==
  /\ main = "up" /\ glock = "free"
  /\ Flush(d)
  /\ is_in_epoll' = is_in_epoll \ {d}
  /\ open' = open \ {d}
  /\ level' = [level EXCEPT ![d] = {}]
  /\ registered' = registered \ {d}
  /\ armed' = [armed EXCEPT ![d] = {}]
  /\ UNCHANGED <<threadVars, mainVars>>

(* melon_cancelio.                                                         *)
CancelIo(d) ==
  /\ main = "up" /\ glock = "free"
  /\ Flush(d)
  /\ UNCHANGED <<is_in_epoll, kernelVars, threadVars, mainVars>>

(* The program closes a descriptor nobody waits for with close(2), which   *)
(* melon does not see.                                                     *)
PlainClose(d) ==
  /\ d \in open
  /\ Waited(queue, d) = {}
  /\ open' = open \ {d}
  /\ level' = [level EXCEPT ![d] = {}]
  /\ registered' = registered \ {d}
  /\ armed' = [armed EXCEPT ![d] = {}]
  /\ UNCHANGED <<ioVars, threadVars, timeVars, fiberVars, mainVars>>

(* The number is given to a new file.                                      *)
Open(d) ==
  /\ d \notin open
  /\ open' = open \cup {d}
  /\ UNCHANGED <<level, registered, armed>>
  /\ UNCHANGED <<ioVars, threadVars, timeVars, fiberVars, mainVars>>

(* The peer, or a system call of a fiber, makes d ready for x or no longer *)
(* ready for it.  A hang-up is for good.                                   *)
LevelChange(d, x) ==
  /\ d \in open
  /\ \/ x \notin level[d] /\ level' = [level EXCEPT ![d] = @ \cup {x}]
     \/ /\ x \in level[d] \cap Directions
        /\ level' = [level EXCEPT ![d] = @ \ {x}]
  /\ UNCHANGED <<open, registered, armed>>
  /\ UNCHANGED <<ioVars, threadVars, timeVars, fiberVars, mainVars>>

----------------------------------------------------------------------------
(* melon_deinit, called when no fiber is left, sets stop.                  *)
DeinitStop ==
  /\ main = "up" /\ glock = "free"
  /\ \A f \in Fibers : pc[f] = "run"
  /\ stop' = TRUE
  /\ main' = "stopped"
  /\ UNCHANGED <<ioVars, kernelVars, threadVars, timeVars, fiberVars>>

(* melon_io_manager_deinit closes the epoll descriptor and cancels the     *)
(* thread.                                                                 *)
IoDeinit ==
  /\ main = "stopped"
  /\ main' = "canceled"
  /\ UNCHANGED stop
  /\ UNCHANGED <<ioVars, kernelVars, threadVars, timeVars, fiberVars>>

(* epoll_wait is a cancellation point.                                     *)
IoCanceled ==
  /\ main = "canceled" /\ iopc = "wait"
  /\ iopc' = "exit"
  /\ UNCHANGED batch
  /\ UNCHANGED <<ioVars, kernelVars, timeVars, fiberVars, mainVars>>

IoJoin ==
  /\ main = "canceled" /\ iopc = "exit"
  /\ main' = "joined"
  /\ UNCHANGED stop
  /\ UNCHANGED <<ioVars, kernelVars, threadVars, timeVars, fiberVars>>

Next ==
  \/ \E f \in Fibers :
       \/ \E d \in Fds, e \in Directions : IoCall(f, d, e)
       \/ Resume(f)
       \/ WaitforCb(f)
  \/ Tick
  \/ IoLoop \/ EpollWait \/ EpollFails \/ IoHandle
  \/ \E d \in Fds :
       \/ Close(d) \/ CancelIo(d) \/ PlainClose(d) \/ Open(d)
       \/ \E x \in Directions \cup {"HUP"} : LevelChange(d, x)
  \/ DeinitStop \/ IoDeinit \/ IoCanceled \/ IoJoin

Spec == Init /\ [][Next]_vars

(* The I/O thread and the timer thread go on: epoll_wait reports what      *)
(* stays ready however often signals interrupt it, and the I/O thread gets *)
(* g_melon.lock however often others take it in between.                   *)
Fairness ==
  /\ WF_vars(IoLoop) /\ SF_vars(EpollWait) /\ SF_vars(IoHandle)
  /\ WF_vars(\E f \in Fibers : WaitforCb(f))

FairSpec == Spec /\ Fairness

----------------------------------------------------------------------------
(* No waiter is forgotten by the kernel: for every direction fibers wait   *)
(* for, the descriptor is armed, or an event of it is in the I/O thread's  *)
(* hands, whose handling arms it again.  One-shot registration, timeouts,  *)
(* stale batches, close and reuse of the number never break this.          *)
InterestArmed ==
  \A d \in Fds : \A e \in Waited(queue, d) :
    d \in open \cap registered /\ (e \in armed[d] \/ batch[d] # {})

(* melon never takes a registered descriptor for an unregistered one: the  *)
(* EEXIST of melon_io_manager_waitfor, which "should not append".          *)
EpollKnown == registered \subseteq is_in_epoll \cap open

(* A batch is in hand only until it is handled.                            *)
BatchHandled == iopc # "handle" => \A d \in Fds : batch[d] = {}

(* Holds in every state and is kept by every step: the argument behind     *)
(* InterestArmed.  A new batch may not replace one not yet handled, and a  *)
(* descriptor with waiters is one the kernel can arm.                      *)
EpollInv == TypeOK /\ EpollKnown /\ BatchHandled /\ InterestArmed

(* A waiting fiber is linked once, in the queue of the descriptor and the  *)
(* direction it waits for, until it is made ready; it is in the timer      *)
(* queue as long, if it has a timer.  So waitfor_cb and                    *)
(* melon_timer_remove_locked never unlink a fiber from a list it is not on.*)
IoLinks ==
  /\ \A s \in Slots :
       /\ NoDup(queue[s])
       /\ Elems(queue[s]) = {f \in Fibers : /\ pc[f] = "waiting" /\ slot[f] = s
                                            /\ f \notin ready}
  /\ NoDup(timer_queue) /\ TimerSorted(timer_queue, timer)
  /\ Elems(timer_queue) = {f \in Fibers : /\ pc[f] = "waiting" /\ timer[f] > 0
                                          /\ f \notin ready}

(* A wait tells its caller why it ended, by the (negative) errno of the    *)
(* branch it returns from: the one of a timeout exactly when the timer     *)
(* fired, the one of a cancellation exactly after melon_close or           *)
(* melon_cancelio, and no flag of an earlier wait leaks into a later one.  *)
(* That is not what melon.h says of melon_close, "Woked up fibers will     *)
(* receive ECANCELED error": errno is left as -ECANCELED.                  *)
ResultIsCause ==
  \A f \in ready :
    /\ Result(f) = -ETIMEDOUT <=> cause[f] = "timeout"
    /\ Result(f) = -ECANCELED <=> cause[f] = "cancel"

(* An event releases the fibers of a queue in the order they came: one     *)
(* leaves before another that came earlier only when its deadline passed.  *)
ServedInOrder ==
  [][\A s \in Slots : \A i, j \in 1..Len(queue[s]) :
       i < j /\ queue[s][i] \in Elems(queue'[s]) =>
         queue[s][j] \in Elems(queue'[s])
         \/ (timer[queue[s][j]] > 0 /\ timer[queue[s][j]] <= now)]_vars

(* A fiber that waits for what its descriptor is ready for is made ready,  *)
(* unless the descriptor stops being ready first.                          *)
Due(f) ==
  /\ slot[f] # NoEvent
  /\ level[slot[f][1]] \cap {slot[f][2], "HUP"} # {}
EventServed == \A f \in Fibers : Due(f) ~> ~Due(f)
=============================================================================
