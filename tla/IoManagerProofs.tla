--------------------------- MODULE IoManagerProofs ---------------------------
(***************************************************************************)
(* The I/O manager, for any fibers, descriptors and deadlines: the kernel  *)
(* watches every direction fibers wait for, a waiting fiber is linked      *)
(* where its wake-up looks for it, a call reports what ended its wait, and *)
(* events serve the fibers of a queue in the order they came.              *)
(***************************************************************************)
EXTENDS IoManager, DlistProofs, TLAPS

(* Unlinking whatever fiber leaves a queue a queue and an empty one empty. *)
LEMMA UnlinkAny ==
  ASSUME NEW S, NEW q \in Seq(S), NEW x
  PROVE  /\ DlistUnlink(q, x) \in Seq(S)
         /\ q = << >> => DlistUnlink(q, x) = << >>
<1>1. CASE Len(q) = 1
  BY <1>1 DEF DlistUnlink
<1>2. CASE Len(q) # 1 /\ x \in Elems(q)
  <2>1. PositionOf(q, x) \in 1..Len(q)
    BY <1>2 DEF Elems, PositionOf
  <2>2. RemoveAt(q, PositionOf(q, x)) \in Seq(S)
    BY <2>1, RemoveAtShape
  <2>3. q # << >>
    BY <2>1
  <2> QED BY <1>2, <2>2, <2>3 DEF DlistUnlink
<1>3. CASE Len(q) # 1 /\ x \notin Elems(q)
  BY <1>3 DEF DlistUnlink
<1> QED BY <1>1, <1>2, <1>3

(* What an event leaves of a queue is a queue; without an event it is the  *)
(* same.                                                                   *)
LEMMA PopOneQueue ==
  ASSUME NEW S, NEW q \in Seq(S), NEW e \in Directions, NEW events
  PROVE  /\ PopOne(q, e, events) \in Seq(S)
         /\ events = {} => PopOne(q, e, events) = q
         /\ q = << >> => PopOne(q, e, events) = << >>
<1>1. q # << >> => Tail(q) \in Seq(S)
  BY PopElems
<1> QED BY <1>1 DEF PopOne

(* A step that only takes fibers out of the queues, and changes nothing    *)
(* the kernel or the I/O thread keeps, leaves every waiter watched.        *)
LEMMA FewerWaiters ==
  ASSUME EpollInv,
         queue' \in [Slots -> Seq(Fibers)],
         \A s \in Slots : queue[s] = << >> => queue'[s] = << >>,
         UNCHANGED <<is_in_epoll, open, registered, armed, batch, iopc>>
  PROVE  EpollInv'
<1>1. \A d \in Fds : Waited(queue', d) \subseteq Waited(queue, d)
  BY DEF Waited, Slots
<1> QED BY <1>1 DEF EpollInv, TypeOK, EpollKnown, BatchHandled, InterestArmed

(* A descriptor and a direction name a queue.                              *)
LEMMA SlotPair ==
  ASSUME NEW d \in Fds, NEW e \in Directions
  PROVE  <<d, e>> \in Slots /\ <<d, e>>[1] = d /\ <<d, e>>[2] = e
  BY DEF Slots

(* melon_io_manager_waitfor arms what is waited for, its own event included.*)
LEMMA EpollInvWaitfor ==
  ASSUME EpollInv, NEW f \in Fibers, NEW d \in Fds, NEW e \in Directions,
         NEW t \in Timeouts, Waitfor(f, d, e, t)
  PROVE  EpollInv'
<1>0. queue[<<d, e>>] \in Seq(Fibers)
  BY SlotPair DEF EpollInv, TypeOK
<1>1. DlistPush(queue[<<d, e>>], f) \in Seq(Fibers)
  BY <1>0, PushElems
<1>2. TypeOK'
  BY <1>1 DEF EpollInv, TypeOK, Waitfor, threadVars, WaitforEvents, Waited,
              Slots
<1>3. EpollKnown' /\ BatchHandled'
  BY DEF EpollInv, EpollKnown, BatchHandled, Waitfor, threadVars
<1>4. InterestArmed'
  <2> SUFFICES ASSUME NEW c \in Fds, NEW w \in Waited(queue', c)
               PROVE  /\ c \in open' \cap registered'
                      /\ w \in armed'[c] \/ batch'[c] # {}
    BY DEF InterestArmed
  <2>1. CASE c = d
    <3>1. w = e \/ w \in Waited(queue, d)
      BY <2>1 DEF Waited, Waitfor, EpollInv, TypeOK, Slots
    <3>2. armed'[d] = Waited(queue, d) \cup {e}
      BY DEF Waitfor, WaitforEvents, EpollInv, TypeOK
    <3> QED BY <2>1, <3>1, <3>2 DEF Waitfor
  <2>2. CASE c # d
    <3>1. w \in Waited(queue, c)
      BY <2>2 DEF Waited, Waitfor, EpollInv, TypeOK, Slots
    <3>2. armed'[c] = armed[c] /\ batch' = batch
      BY <2>2 DEF Waitfor, threadVars, EpollInv, TypeOK
    <3> QED BY <3>1, <3>2 DEF EpollInv, InterestArmed, Waitfor
  <2> QED BY <2>1, <2>2
<1> QED BY <1>2, <1>3, <1>4 DEF EpollInv

(* waitfor_cb only takes a fiber out of a queue.                           *)
LEMMA EpollInvCb ==
  ASSUME EpollInv, NEW f \in Fibers, WaitforCb(f)
  PROVE  EpollInv'
<1>1. \A s \in Slots :
        queue'[s] = IF s = slot[f] THEN DlistUnlink(queue[s], f) ELSE queue[s]
  <2>1. queue' = [queue EXCEPT ![slot[f]] = DlistUnlink(queue[slot[f]], f)]
    BY DEF WaitforCb
  <2>2. queue \in [Slots -> Seq(Fibers)]
    BY DEF EpollInv, TypeOK
  <2> QED BY <2>1, <2>2
<1>2. \A s \in Slots : /\ DlistUnlink(queue[s], f) \in Seq(Fibers)
                       /\ queue[s] = << >> => DlistUnlink(queue[s], f) = << >>
  <2> SUFFICES ASSUME NEW s \in Slots
               PROVE  /\ DlistUnlink(queue[s], f) \in Seq(Fibers)
                      /\ queue[s] = << >> => DlistUnlink(queue[s], f) = << >>
    OBVIOUS
  <2>1. queue[s] \in Seq(Fibers)
    BY DEF EpollInv, TypeOK
  <2> QED BY <2>1, UnlinkAny
<1>3. queue' \in [Slots -> Seq(Fibers)]
  BY <1>1, <1>2 DEF WaitforCb, EpollInv, TypeOK
<1>4. UNCHANGED <<is_in_epoll, open, registered, armed, batch, iopc>>
  BY DEF WaitforCb, kernelVars, threadVars
<1> QED BY <1>1, <1>2, <1>3, <1>4, FewerWaiters

(* epoll_wait disarms what it returns, which is then in hand.              *)
LEMMA EpollInvWait ==
  ASSUME EpollInv, EpollWait
  PROVE  EpollInv'
<1>1. \A d \in Fds : Deliverable(d) \subseteq Directions \cup {"HUP"}
  BY DEF Deliverable, EpollInv, TypeOK
<1>2. TypeOK'
  BY <1>1 DEF EpollInv, TypeOK, EpollWait, ioVars
<1>3. EpollKnown' /\ BatchHandled'
  BY DEF EpollInv, EpollKnown, BatchHandled, EpollWait, ioVars
<1>4. \A d \in Fds : batch[d] = {} /\ (armed'[d] = armed[d] \/ batch'[d] # {})
  BY DEF EpollWait, EpollInv, BatchHandled
<1>5. InterestArmed'
  BY <1>4 DEF EpollInv, InterestArmed, EpollWait, ioVars, Waited
<1> QED BY <1>2, <1>3, <1>5 DEF EpollInv

(* Handling the batch arms again what is still waited for.                 *)
LEMMA EpollInvHandle ==
  ASSUME EpollInv, IoHandle
  PROVE  EpollInv'
<1>1. \A s \in Slots : s[1] \in Fds /\ s[2] \in Directions
  BY DEF Slots
<1>2. \A s \in Slots : queue'[s] = PopOne(queue[s], s[2], batch[s[1]])
  BY DEF IoHandle
<1>3. \A s \in Slots : queue[s] \in Seq(Fibers)
  BY DEF EpollInv, TypeOK
<1>4. \A s \in Slots :
        /\ PopOne(queue[s], s[2], batch[s[1]]) \in Seq(Fibers)
        /\ batch[s[1]] = {} => queue'[s] = queue[s]
        /\ queue[s] = << >> => queue'[s] = << >>
  BY <1>1, <1>2, <1>3, PopOneQueue
<1>5. TypeOK'
  BY <1>4 DEF EpollInv, TypeOK, IoHandle, Rearm, Waited
<1>6. EpollKnown' /\ BatchHandled'
  BY DEF EpollInv, EpollKnown, BatchHandled, IoHandle
<1>7. InterestArmed'
  <2> SUFFICES ASSUME NEW d \in Fds, NEW e \in Waited(queue', d)
               PROVE  d \in open' \cap registered' /\ e \in armed'[d]
    BY DEF InterestArmed
  <2>1. e \in Directions /\ e \in Waited(queue, d)
    BY <1>4, SlotPair DEF Waited
  <2>2. d \in open \cap registered /\ (e \in armed[d] \/ batch[d] # {})
    BY <2>1 DEF EpollInv, InterestArmed
  <2>3. armed'[d] = IF batch[d] # {} /\ d \in registered /\ Waited(queue', d) # {}
                    THEN Waited(queue', d) ELSE armed[d]
    BY DEF IoHandle, Rearm
  <2>4. open' = open /\ registered' = registered
    BY DEF IoHandle
  <2> QED BY <2>2, <2>3, <2>4
<1> QED BY <1>5, <1>6, <1>7 DEF EpollInv

(* melon_close and melon_cancelio leave nobody waiting for d.              *)
LEMMA EpollInvFlush ==
  ASSUME EpollInv, NEW d \in Fds, Close(d) \/ CancelIo(d)
  PROVE  EpollInv'
<1>1. /\ queue' \in [Slots -> Seq(Fibers)]
      /\ \A s \in Slots : queue[s] = << >> => queue'[s] = << >>
      /\ \A s \in Slots : s[1] = d => queue'[s] = << >>
  <2>1. queue' = [s \in Slots |-> IF s[1] = d THEN << >> ELSE queue[s]]
    BY DEF Close, CancelIo, Flush
  <2>2. << >> \in Seq(Fibers)
    OBVIOUS
  <2> QED BY <2>1, <2>2 DEF EpollInv, TypeOK
<1>2. CASE CancelIo(d)
  <2>1. UNCHANGED <<is_in_epoll, open, registered, armed, batch, iopc>>
    BY <1>2 DEF CancelIo, kernelVars, threadVars
  <2> QED BY <1>1, <2>1, FewerWaiters
<1>3. CASE Close(d)
  <2>1. TypeOK'
    BY <1>1, <1>3 DEF Close, threadVars, EpollInv, TypeOK
  <2>2. EpollKnown' /\ BatchHandled'
    BY <1>3 DEF Close, EpollInv, EpollKnown, BatchHandled, threadVars
  <2>3. InterestArmed'
    <3> SUFFICES ASSUME NEW c \in Fds, NEW e \in Waited(queue', c)
                 PROVE  /\ c \in open' \cap registered'
                        /\ e \in armed'[c] \/ batch'[c] # {}
      BY DEF InterestArmed
    <3>1. c # d /\ e \in Waited(queue, c)
      BY <1>1, SlotPair DEF Waited
    <3>2. armed'[c] = armed[c] /\ batch' = batch
      BY <1>3, <3>1 DEF Close, threadVars, EpollInv, TypeOK
    <3> QED BY <1>3, <3>1, <3>2 DEF Close, EpollInv, InterestArmed
  <2> QED BY <2>1, <2>2, <2>3 DEF EpollInv
<1> QED BY <1>2, <1>3

(* close(2) is called when nobody waits for d.                             *)
LEMMA EpollInvPlainClose ==
  ASSUME EpollInv, NEW d \in Fds, PlainClose(d)
  PROVE  EpollInv'
<1>1. TypeOK'
  BY DEF PlainClose, ioVars, threadVars, EpollInv, TypeOK
<1>2. EpollKnown' /\ BatchHandled'
  BY DEF PlainClose, ioVars, threadVars, EpollInv, EpollKnown, BatchHandled
<1>3. InterestArmed'
  BY DEF PlainClose, ioVars, threadVars, EpollInv, TypeOK, InterestArmed, Waited
<1> QED BY <1>1, <1>2, <1>3 DEF EpollInv

(* EpollInv is inductive: every step of the I/O manager, of the fibers and *)
(* of the program keeps it.                                                *)
THEOREM EpollInvariant == Spec => []EpollInv
<1>1. Init => EpollInv
  <2> SUFFICES ASSUME Init PROVE EpollInv
    OBVIOUS
  <2>1. TypeOK
    BY DEF Init, TypeOK
  <2>2. EpollKnown /\ BatchHandled
    BY DEF Init, EpollKnown, BatchHandled
  <2>3. \A d \in Fds : Waited(queue, d) = {}
    BY SlotPair DEF Init, Waited
  <2> QED BY <2>1, <2>2, <2>3 DEF EpollInv, InterestArmed
<1>2. EpollInv /\ [Next]_vars => EpollInv'
  <2> SUFFICES ASSUME EpollInv, [Next]_vars PROVE EpollInv'
    OBVIOUS
  <2>1. ASSUME UNCHANGED <<queue, is_in_epoll, registered, armed, batch>>,
               open \subseteq open', iopc = "handle" => iopc' = "handle"
        PROVE  EpollInv'
    BY <2>1 DEF EpollInv, TypeOK, EpollKnown, BatchHandled, InterestArmed, Waited
  <2>2. ASSUME NEW f \in Fibers, NEW d \in Fds, NEW e \in Directions,
               IoCall(f, d, e)
        PROVE  EpollInv'
    BY <2>2, EpollInvWaitfor DEF IoCall
  <2>3. ASSUME NEW f \in Fibers, Resume(f) PROVE EpollInv'
    BY <2>1, <2>3 DEF Resume, ioVars, kernelVars, threadVars
  <2>4. ASSUME NEW f \in Fibers, WaitforCb(f) PROVE EpollInv'
    BY <2>4, EpollInvCb
  <2>5. CASE Tick
    BY <2>1, <2>5 DEF Tick, ioVars, kernelVars, threadVars
  <2>6. CASE IoLoop \/ EpollFails
    BY <2>1, <2>6 DEF IoLoop, EpollFails, ioVars, kernelVars
  <2>7. CASE EpollWait
    BY <2>7, EpollInvWait
  <2>8. CASE IoHandle
    BY <2>8, EpollInvHandle
  <2>9. ASSUME NEW d \in Fds, Close(d) \/ CancelIo(d) PROVE EpollInv'
    BY <2>9, EpollInvFlush
  <2>10. ASSUME NEW d \in Fds, PlainClose(d) PROVE EpollInv'
    BY <2>10, EpollInvPlainClose
  <2>11. ASSUME NEW d \in Fds, Open(d) PROVE EpollInv'
    BY <2>1, <2>11 DEF Open, ioVars, threadVars
  <2>12. ASSUME NEW d \in Fds, NEW x, LevelChange(d, x) PROVE EpollInv'
    BY <2>1, <2>12 DEF LevelChange, ioVars, threadVars
  <2>13. CASE DeinitStop \/ IoDeinit \/ IoCanceled \/ IoJoin
    BY <2>1, <2>13 DEF DeinitStop, IoDeinit, IoCanceled, IoJoin, ioVars,
                       kernelVars, threadVars
  <2>14. CASE UNCHANGED vars
    BY <2>1, <2>14 DEF vars
  <2> QED
    BY <2>2, <2>3, <2>4, <2>5, <2>6, <2>7, <2>8, <2>9, <2>10, <2>11, <2>12,
       <2>13, <2>14 DEF Next
<1> QED BY <1>1, <1>2, PTL DEF Spec

(* No waiter is forgotten by the kernel.                                   *)
THEOREM WaitersWatched == Spec => []InterestArmed
<1>1. EpollInv => InterestArmed
  BY DEF EpollInv
<1> QED BY <1>1, EpollInvariant, PTL

----------------------------------------------------------------------------
(* The links of the waiting fibers, and what their calls return.           *)

LinkTypes ==
  /\ queue \in [Slots -> Seq(Fibers)] /\ timer_queue \in Seq(Fibers)
  /\ pc \in [Fibers -> {"run", "waiting"}] /\ ready \subseteq Fibers
  /\ slot \in [Fibers -> Slots \cup {NoEvent}] /\ timer \in [Fibers -> Nat]
  /\ cause \in [Fibers -> {"none", "event", "timeout", "cancel"}] /\ now \in Nat

(* A fiber that waits and is not ready, wherever it is linked.             *)
Linked(f) == pc[f] = "waiting" /\ f \notin ready

(* Only fibers that wait are made ready, and one that has not been is      *)
(* linked for some event and has none of the flags that end a wait.        *)
WaitState ==
  \A f \in Fibers :
    /\ f \in ready => pc[f] = "waiting"
    /\ Linked(f) => slot[f] \in Slots /\ f \notin timedout /\ f \notin io_canceled

LinkInv == LinkTypes /\ WaitState /\ IoLinks

(* A step that releases no fiber and links none keeps the links.           *)
LEMMA LinksSame ==
  ASSUME LinkInv, UNCHANGED <<queue, timer_queue, pc, ready, slot, timer, cause, timedout,
                              io_canceled>>, now' \in Nat
  PROVE  LinkInv'
  BY DEF LinkInv, LinkTypes, WaitState, Linked, IoLinks

(* The head of a sorted queue is taken off.                                *)
LEMMA TailSorted ==
  ASSUME NEW S, NEW q \in Seq(S), q # << >>, NEW t, TimerSorted(q, t)
  PROVE  TimerSorted(Tail(q), t)
<1>1. /\ Len(Tail(q)) = Len(q) - 1 /\ Len(q) \in Nat
      /\ \A i \in 1..(Len(q) - 1) : Tail(q)[i] = q[i + 1]
  BY HeadTailProperties
<1> DEFINE r == Tail(q)
<1>2. \A i, j \in 1..Len(r) : i < j => t[r[i]] <= t[r[j]]
  <2> SUFFICES ASSUME NEW i \in 1..Len(r), NEW j \in 1..Len(r), i < j
               PROVE  t[r[i]] <= t[r[j]]
    OBVIOUS
  <2>1. i + 1 \in 1..Len(q) /\ j + 1 \in 1..Len(q) /\ i + 1 < j + 1
    BY <1>1
  <2>2. r[i] = q[i + 1] /\ r[j] = q[j + 1]
    BY <1>1
  <2> QED BY <2>1, <2>2 DEF TimerSorted
<1> QED BY <1>2 DEF TimerSorted

(* melon_timer_remove_locked for the fibers of S leaves the others, still  *)
(* sorted.                                                                 *)
LEMMA ReleaseElems ==
  ASSUME LinkTypes, NoDup(timer_queue), TimerSorted(timer_queue, timer), NEW S,
         ReleaseTimers(S)
  PROVE  /\ timer_queue' \in Seq(Fibers) /\ NoDup(timer_queue')
         /\ Elems(timer_queue') = {f \in Elems(timer_queue) : ~(f \in S /\ timer[f] > 0)}
         /\ TimerSorted(timer_queue', timer)
<1> DEFINE q == timer_queue
           Stays(i) == ~(q[i] \in S /\ timer[q[i]] > 0)
<1>0. q \in Seq(Fibers) /\ Len(q) \in Nat /\ \A i \in 1..Len(q) : q[i] \in Fibers
  BY DEF LinkTypes
<1>n. PICK n \in 0..Len(q) : \E kept \in [1..n -> 1..Len(q)] :
        /\ \A i, j \in 1..n : i < j => kept[i] < kept[j]
        /\ {kept[i] : i \in 1..n} = {i \in 1..Len(q) : Stays(i)}
        /\ timer_queue' = [i \in 1..n |-> q[kept[i]]]
  BY DEF ReleaseTimers
<1>1. PICK kept \in [1..n -> 1..Len(q)] :
        /\ \A i, j \in 1..n : i < j => kept[i] < kept[j]
        /\ {kept[i] : i \in 1..n} = {i \in 1..Len(q) : Stays(i)}
        /\ timer_queue' = [i \in 1..n |-> q[kept[i]]]
  BY <1>n
<1> DEFINE r == timer_queue'
<1>2. /\ r \in Seq(Fibers) /\ Len(r) = n /\ n \in Nat
      /\ \A i \in 1..n : r[i] = q[kept[i]]
  <2>1. n \in Nat /\ r = [i \in 1..n |-> q[kept[i]]]
    BY <1>1
  <2> HIDE DEF r
  <2>2. r \in [1..n -> Fibers]
    BY <1>0, <2>1
  <2>3. r \in Seq(Fibers)
    BY <2>1, <2>2, SeqDef
  <2>4. DOMAIN r = 1..Len(r) /\ DOMAIN r = 1..n /\ Len(r) \in Nat
    BY <2>2, <2>3, LenProperties
  <2> QED BY <2>1, <2>3, <2>4
<1>3. \A i \in 1..n : kept[i] \in 1..Len(q) /\ Stays(kept[i])
  <2> SUFFICES ASSUME NEW i \in 1..n PROVE kept[i] \in 1..Len(q) /\ Stays(kept[i])
    OBVIOUS
  <2>1. kept[i] \in {kept[k] : k \in 1..n}
    OBVIOUS
  <2> QED BY <1>1, <2>1
<1>4. \A k \in 1..Len(q) : Stays(k) => \E i \in 1..n : kept[i] = k
  <2> SUFFICES ASSUME NEW k \in 1..Len(q), Stays(k) PROVE \E i \in 1..n : kept[i] = k
    OBVIOUS
  <2>1. k \in {kept[i] : i \in 1..n}
    BY <1>1
  <2> QED BY <2>1
<1>5. \A i, j \in 1..n : i < j => kept[i] < kept[j]
  BY <1>1
<1> HIDE DEF r
<1>6. Elems(r) = {f \in Elems(q) : ~(f \in S /\ timer[f] > 0)}
  <2>1. ASSUME NEW f \in Elems(r) PROVE f \in Elems(q) /\ ~(f \in S /\ timer[f] > 0)
    <3>1. PICK i \in 1..n : f = r[i]
      BY <1>2, <2>1 DEF Elems
    <3>2. f = q[kept[i]] /\ kept[i] \in 1..Len(q) /\ Stays(kept[i])
      BY <1>2, <1>3, <3>1
    <3> QED BY <3>2 DEF Elems
  <2>2. ASSUME NEW f \in Elems(q), ~(f \in S /\ timer[f] > 0) PROVE f \in Elems(r)
    <3>1. PICK k \in 1..Len(q) : f = q[k]
      BY <2>2 DEF Elems
    <3>2. PICK i \in 1..n : kept[i] = k
      BY <1>4, <2>2, <3>1
    <3>3. r[i] = f /\ i \in 1..Len(r)
      BY <1>2, <3>1, <3>2
    <3> QED BY <3>3 DEF Elems
  <2> QED BY <2>1, <2>2
<1>7. NoDup(r)
  <2> SUFFICES ASSUME NEW i \in 1..n, NEW j \in 1..n, r[i] = r[j] PROVE i = j
    BY <1>2 DEF NoDup
  <2>1. kept[i] = kept[j]
    BY <1>2, <1>3 DEF NoDup
  <2>2. i < j => kept[i] < kept[j]
    BY <1>5
  <2>3. j < i => kept[j] < kept[i]
    BY <1>5
  <2>4. kept[i] \in Int /\ i \in Int /\ j \in Int
    BY <1>3
  <2> QED BY <2>1, <2>2, <2>3, <2>4
<1>8. TimerSorted(r, timer)
  <2> SUFFICES ASSUME NEW i \in 1..n, NEW j \in 1..n, i < j
               PROVE  timer[r[i]] <= timer[r[j]]
    BY <1>2 DEF TimerSorted
  <2>1. kept[i] < kept[j] /\ r[i] = q[kept[i]] /\ r[j] = q[kept[j]]
    BY <1>2, <1>5
  <2> QED BY <1>3, <2>1 DEF TimerSorted
<1> QED BY <1>2, <1>6, <1>7, <1>8 DEF r

(* The fibers S are released: they leave the queues, and the timer queue   *)
(* when they have a timer.                                                 *)
LEMMA LinkInvRelease ==
  ASSUME LinkInv, NEW S \in SUBSET Fibers, NEW why \in {"event", "cancel"},
         Release(S, why),
         queue' \in [Slots -> Seq(Fibers)],
         \A s \in Slots : NoDup(queue'[s]) /\ Elems(queue'[s]) = Elems(queue[s]) \ S,
         \A f \in S : Linked(f),
         timedout' = timedout, io_canceled' \subseteq io_canceled \cup S
  PROVE  LinkInv'
<1> USE DEF LinkInv
<1>1. /\ ReleaseTimers(S) /\ ready' = ready \cup S
      /\ slot' = [f \in Fibers |-> IF f \in S THEN NoEvent ELSE slot[f]]
      /\ cause' = [f \in Fibers |-> IF f \in S THEN why ELSE cause[f]]
      /\ UNCHANGED <<timer, now, glock, pc>>
  BY DEF Release
<1>2. /\ timer_queue' \in Seq(Fibers) /\ NoDup(timer_queue')
      /\ Elems(timer_queue') = {f \in Elems(timer_queue) : ~(f \in S /\ timer[f] > 0)}
      /\ TimerSorted(timer_queue', timer)
  BY <1>1, ReleaseElems DEF IoLinks
<1>3. LinkTypes'
  BY <1>1, <1>2 DEF LinkTypes
<1>4. WaitState'
  BY <1>1 DEF WaitState, Linked, LinkTypes
<1>5. \A s \in Slots :
        Elems(queue'[s]) = {f \in Fibers : /\ pc'[f] = "waiting" /\ slot'[f] = s
                                           /\ f \notin ready'}
  <2> SUFFICES ASSUME NEW s \in Slots
               PROVE  Elems(queue'[s]) = {f \in Fibers : /\ pc'[f] = "waiting"
                                            /\ slot'[f] = s /\ f \notin ready'}
    OBVIOUS
  <2>1. Elems(queue[s]) = {f \in Fibers : /\ pc[f] = "waiting" /\ slot[f] = s
                                          /\ f \notin ready}
    BY DEF IoLinks
  <2>2. Elems(queue'[s]) = Elems(queue[s]) \ S
    OBVIOUS
  <2> QED BY <1>1, <2>1, <2>2
<1>6. Elems(timer_queue') = {f \in Fibers : /\ pc'[f] = "waiting" /\ timer'[f] > 0
                                            /\ f \notin ready'}
  <2>1. Elems(timer_queue) = {f \in Fibers : /\ pc[f] = "waiting" /\ timer[f] > 0
                                             /\ f \notin ready}
    BY DEF IoLinks
  <2> QED BY <1>1, <1>2, <2>1
<1>7. TimerSorted(timer_queue', timer')
  BY <1>1, <1>2
<1>8. IoLinks'
  BY <1>2, <1>5, <1>6, <1>7 DEF IoLinks
<1> QED BY <1>3, <1>4, <1>8

(* melon_io_manager_waitfor links a fiber that nothing links.              *)
LEMMA LinkInvWaitfor ==
  ASSUME LinkInv, NEW f \in Fibers, NEW d \in Fds, NEW e \in Directions,
         NEW t \in Timeouts, Waitfor(f, d, e, t)
  PROVE  LinkInv'
<1> DEFINE c == <<d, e>>
           tm == timer'
<1> USE DEF LinkInv
<1>1. /\ pc[f] = "run" /\ pc' = [pc EXCEPT ![f] = "waiting"]
      /\ slot' = [slot EXCEPT ![f] = c] /\ timer' = [timer EXCEPT ![f] = t]
      /\ timedout' = timedout \ {f} /\ io_canceled' = io_canceled \ {f}
      /\ queue' = [queue EXCEPT ![c] = DlistPush(queue[c], f)]
      /\ timer_queue' = IF t > 0 THEN TimerInsert(timer_queue, tm, f) ELSE timer_queue
      /\ UNCHANGED <<ready, cause, now>>
  BY DEF Waitfor, ResetFlags
<1>2. c \in Slots /\ t \in Nat
  BY SlotPair, IoAssumption
<1>3. f \notin ready /\ f \notin Elems(timer_queue) /\ \A s \in Slots : f \notin Elems(queue[s])
  BY <1>1 DEF WaitState, IoLinks
<1> HIDE DEF c
<1>4. /\ DlistPush(queue[c], f) \in Seq(Fibers) /\ NoDup(DlistPush(queue[c], f))
      /\ Elems(DlistPush(queue[c], f)) = Elems(queue[c]) \cup {f}
  <2>1. queue[c] \in Seq(Fibers) /\ NoDup(queue[c])
    BY <1>2 DEF LinkTypes, IoLinks
  <2> QED BY <1>2, <1>3, <2>1, PushElems
<1>5. \A s \in Slots :
        queue'[s] = IF s = c THEN DlistPush(queue[s], f) ELSE queue[s]
  <2>1. queue \in [Slots -> Seq(Fibers)]
    BY DEF LinkTypes
  <2>2. queue' = [queue EXCEPT ![c] = DlistPush(queue[c], f)]
    BY <1>1
  <2> QED BY <2>1, <2>2
<1>6. tm \in [Fibers -> Int] /\ tm \in [Fibers -> Nat] /\ tm[f] = t
      /\ \A g \in Fibers \ {f} : tm[g] = timer[g]
  BY <1>1, <1>2 DEF LinkTypes
<1>7. /\ timer_queue' \in Seq(Fibers) /\ NoDup(timer_queue')
      /\ Elems(timer_queue') = Elems(timer_queue) \cup (IF t > 0 THEN {f} ELSE {})
      /\ TimerSorted(timer_queue', tm)
  <2>1. /\ timer_queue \in Seq(Fibers) /\ NoDup(timer_queue)
        /\ TimerSorted(timer_queue, timer) /\ Elems(timer_queue) \subseteq Fibers
    BY DEF LinkTypes, IoLinks
  <2>2. \A g \in Elems(timer_queue) : timer[g] = tm[g]
    BY <1>3, <1>6, <2>1
  <2> HIDE DEF tm
  <2>3. TimerSorted(timer_queue, tm)
    BY <2>1, <2>2, SortedSameTimers
  <2>4. CASE t > 0
    <3>1. timer_queue' = TimerInsert(timer_queue, tm, f)
      BY <1>1, <2>4
    <3> QED BY <1>3, <1>6, <2>1, <2>3, <2>4, <3>1, TimerInsertElems
  <2>5. CASE ~(t > 0)
    <3>1. timer_queue' = timer_queue
      BY <1>1, <2>5
    <3> QED BY <2>1, <2>3, <2>5, <3>1
  <2> QED BY <2>4, <2>5
<1>8. LinkTypes'
  <2>1. queue' \in [Slots -> Seq(Fibers)]
    BY <1>1, <1>4 DEF LinkTypes
  <2>2. slot' \in [Fibers -> Slots \cup {NoEvent}] /\ pc' \in [Fibers -> {"run", "waiting"}]
    BY <1>1, <1>2 DEF LinkTypes
  <2> QED BY <1>1, <1>6, <1>7, <2>1, <2>2 DEF LinkTypes
<1>9. /\ pc'[f] = "waiting" /\ slot'[f] = c
      /\ \A g \in Fibers \ {f} : pc'[g] = pc[g] /\ slot'[g] = slot[g]
  BY <1>1 DEF LinkTypes
<1>10. WaitState'
  BY <1>1, <1>2, <1>3, <1>9 DEF WaitState, Linked
<1>11. \A s \in Slots :
         /\ NoDup(queue'[s])
         /\ Elems(queue'[s]) = {g \in Fibers : /\ pc'[g] = "waiting" /\ slot'[g] = s
                                               /\ g \notin ready'}
  <2> SUFFICES ASSUME NEW s \in Slots
               PROVE  /\ NoDup(queue'[s])
                      /\ Elems(queue'[s]) = {g \in Fibers : /\ pc'[g] = "waiting"
                                               /\ slot'[g] = s /\ g \notin ready'}
    OBVIOUS
  <2>1. /\ NoDup(queue[s])
        /\ Elems(queue[s]) = {g \in Fibers : /\ pc[g] = "waiting" /\ slot[g] = s
                                             /\ g \notin ready}
    BY DEF IoLinks
  <2>2. NoDup(queue'[s]) /\ Elems(queue'[s]) = Elems(queue[s]) \cup (IF s = c THEN {f} ELSE {})
    <3>1. CASE s = c
      BY <1>4, <1>5, <3>1
    <3>2. CASE s # c
      BY <1>5, <2>1, <3>2
    <3> QED BY <3>1, <3>2
  <2>3. ready' = ready
    BY <1>1
  <2> QED BY <1>3, <1>9, <2>1, <2>2, <2>3
<1>12. Elems(timer_queue') = {g \in Fibers : /\ pc'[g] = "waiting" /\ tm[g] > 0
                                             /\ g \notin ready'}
  <2>1. Elems(timer_queue) = {g \in Fibers : /\ pc[g] = "waiting" /\ timer[g] > 0
                                             /\ g \notin ready}
    BY DEF IoLinks
  <2>2. ready' = ready
    BY <1>1
  <2> HIDE DEF tm
  <2> QED BY <1>1, <1>3, <1>6, <1>7, <1>9, <2>1, <2>2
<1>13. IoLinks'
  BY <1>7, <1>11, <1>12 DEF IoLinks
<1> QED BY <1>8, <1>10, <1>13

(* A scheduler thread resumes a fiber, which no queue links any more.      *)
LEMMA LinkInvResume ==
  ASSUME LinkInv, NEW f \in Fibers, Resume(f) PROVE LinkInv'
<1> USE DEF LinkInv
<1>1. /\ pc[f] = "waiting" /\ f \in ready /\ pc' = [pc EXCEPT ![f] = "run"]
      /\ ready' = ready \ {f} /\ cause' = [cause EXCEPT ![f] = "none"]
      /\ timedout' = timedout \ {f}
      /\ UNCHANGED <<slot, io_canceled, queue, timer, timer_queue, now>>
  BY DEF Resume, ioVars, timeVars
<1>2. /\ pc'[f] = "run" /\ \A g \in Fibers \ {f} : pc'[g] = pc[g]
  BY <1>1 DEF LinkTypes
<1>3. LinkTypes'
  BY <1>1 DEF LinkTypes
<1>4. WaitState'
  BY <1>1, <1>2 DEF WaitState, Linked
<1>5. \A g \in Fibers : (pc'[g] = "waiting" /\ g \notin ready') <=>
                        (pc[g] = "waiting" /\ g \notin ready)
  BY <1>1, <1>2
<1>6. IoLinks'
  BY <1>1, <1>5 DEF IoLinks
<1> QED BY <1>3, <1>4, <1>6

(* What waitfor_cb finds: the fiber is linked for the event it waits for.  *)
LEMMA CbFinds ==
  ASSUME LinkInv, NEW f \in Fibers, WaitforCb(f)
  PROVE  /\ f \in Elems(timer_queue) /\ Linked(f) /\ timer[f] > 0 /\ timer[f] <= now
         /\ slot[f] \in Slots /\ f \in Elems(queue[slot[f]])
<1>1. timer_queue # << >> /\ f = Head(timer_queue) /\ timer[f] <= now
  BY DEF WaitforCb, TimerExpires
<1>2. f \in Elems(timer_queue)
  BY <1>1, PopElems DEF LinkInv, LinkTypes
<1>3. Linked(f) /\ timer[f] > 0
  BY <1>2 DEF LinkInv, IoLinks, Linked
<1>4. slot[f] \in Slots
  BY <1>3 DEF LinkInv, WaitState
<1> QED BY <1>1, <1>2, <1>3, <1>4 DEF LinkInv, IoLinks, Linked

(* waitfor_cb unlinks the fiber whose deadline has passed.                 *)
LEMMA LinkInvCb ==
  ASSUME LinkInv, NEW f \in Fibers, WaitforCb(f) PROVE LinkInv'
<1> DEFINE c == slot[f]
<1> USE DEF LinkInv
<1>1. /\ timer_queue # << >> /\ f = Head(timer_queue) /\ timer_queue' = Tail(timer_queue)
      /\ timedout' = timedout \cup {f} /\ ready' = ready \cup {f}
      /\ queue' = [queue EXCEPT ![c] = DlistUnlink(queue[c], f)]
      /\ slot' = [slot EXCEPT ![f] = NoEvent] /\ cause' = [cause EXCEPT ![f] = "timeout"]
      /\ UNCHANGED <<timer, now, pc, io_canceled>>
  BY DEF WaitforCb, TimerExpires
<1>2. /\ f \in Elems(timer_queue) /\ Linked(f) /\ c \in Slots /\ f \in Elems(queue[c])
  BY CbFinds
<1> HIDE DEF c
<1>3. /\ timer_queue' \in Seq(Fibers) /\ NoDup(timer_queue')
      /\ Elems(timer_queue') = Elems(timer_queue) \ {f} /\ TimerSorted(timer_queue', timer)
  <2>1. /\ timer_queue \in Seq(Fibers) /\ NoDup(timer_queue)
        /\ TimerSorted(timer_queue, timer)
    BY DEF LinkTypes, IoLinks
  <2> QED BY <1>1, <2>1, PopElems, TailSorted
<1>4. /\ DlistUnlink(queue[c], f) \in Seq(Fibers) /\ NoDup(DlistUnlink(queue[c], f))
      /\ Elems(DlistUnlink(queue[c], f)) = Elems(queue[c]) \ {f}
  <2>1. queue[c] \in Seq(Fibers) /\ NoDup(queue[c])
    BY <1>2 DEF LinkTypes, IoLinks
  <2> QED BY <1>2, <2>1, UnlinkElems
<1>5. \A s \in Slots :
        queue'[s] = IF s = c THEN DlistUnlink(queue[c], f) ELSE queue[s]
  BY <1>1 DEF LinkTypes
<1>6. /\ slot'[f] = NoEvent /\ \A g \in Fibers \ {f} : slot'[g] = slot[g]
  BY <1>1 DEF LinkTypes
<1>7. LinkTypes'
  <2>1. queue' \in [Slots -> Seq(Fibers)]
    BY <1>1, <1>4 DEF LinkTypes
  <2> QED BY <1>1, <1>3, <2>1 DEF LinkTypes
<1>8. WaitState'
  BY <1>1, <1>2, <1>6 DEF WaitState, Linked
<1>9. \A s \in Slots :
        /\ NoDup(queue'[s])
        /\ Elems(queue'[s]) = {g \in Fibers : /\ pc'[g] = "waiting" /\ slot'[g] = s
                                              /\ g \notin ready'}
  <2> SUFFICES ASSUME NEW s \in Slots
               PROVE  /\ NoDup(queue'[s])
                      /\ Elems(queue'[s]) = {g \in Fibers : /\ pc'[g] = "waiting"
                                               /\ slot'[g] = s /\ g \notin ready'}
    OBVIOUS
  <2>1. /\ NoDup(queue[s])
        /\ Elems(queue[s]) = {g \in Fibers : /\ pc[g] = "waiting" /\ slot[g] = s
                                             /\ g \notin ready}
    BY DEF IoLinks
  <2>2. NoDup(queue'[s]) /\ Elems(queue'[s]) = Elems(queue[s]) \ {f}
    <3>1. CASE s = c
      BY <1>4, <1>5, <3>1
    <3>2. CASE s # c
      <4>1. f \notin Elems(queue[s])
        BY <2>1, <3>2 DEF c
      <4> QED BY <1>5, <2>1, <3>2, <4>1
    <3> QED BY <3>1, <3>2
  <2> QED BY <1>1, <1>6, <2>1, <2>2
<1>10. Elems(timer_queue') = {g \in Fibers : /\ pc'[g] = "waiting" /\ timer'[g] > 0
                                             /\ g \notin ready'}
  BY <1>1, <1>3 DEF IoLinks
<1>11. TimerSorted(timer_queue', timer')
  BY <1>1, <1>3
<1>12. IoLinks'
  BY <1>3, <1>9, <1>10, <1>11 DEF IoLinks
<1> QED BY <1>7, <1>8, <1>12

(* What an event takes out of a queue are elements of it, and no element   *)
(* stays behind another that came later.                                   *)
LEMMA PopOneElems ==
  ASSUME NEW q \in Seq(Fibers), NoDup(q), NEW e, NEW events
  PROVE  /\ PopOne(q, e, events) \in Seq(Fibers) /\ NoDup(PopOne(q, e, events))
         /\ Elems(PopOne(q, e, events)) \subseteq Elems(q)
         /\ \A i, j \in 1..Len(q) :
              i < j /\ q[i] \in Elems(PopOne(q, e, events))
                => q[j] \in Elems(PopOne(q, e, events))
<1>1. Elems(<< >>) = {} /\ NoDup(<< >>) /\ << >> \in Seq(Fibers)
  BY EmptyElems
<1>2. ASSUME q # << >>
      PROVE  /\ Tail(q) \in Seq(Fibers) /\ NoDup(Tail(q))
             /\ Elems(Tail(q)) = Elems(q) \ {Head(q)} /\ Head(q) = q[1]
  BY <1>2, PopElems
<1>3. ASSUME q # << >>, NEW i \in 1..Len(q), NEW j \in 1..Len(q), i < j
      PROVE  q[j] \in Elems(Tail(q))
  <2>1. j # 1 /\ 1 \in 1..Len(q)
    BY <1>3
  <2>2. q[j] # q[1] /\ q[j] \in Elems(q)
    BY <2>1 DEF NoDup, Elems
  <2> QED BY <1>2, <1>3, <2>2
<1>4. \A j \in 1..Len(q) : q[j] \in Elems(q)
  BY DEF Elems
<1> QED BY <1>1, <1>2, <1>3, <1>4 DEF PopOne

(* The fibers an event releases, and what it leaves.                       *)
LEMMA LinkInvHandle ==
  ASSUME LinkInv, IoHandle PROVE LinkInv'
<1> USE DEF LinkInv
<1> DEFINE S == {f \in Fibers : \E s \in Slots : f \in Elems(queue[s]) \ Elems(queue'[s])}
<1>1. /\ queue' = [s \in Slots |-> PopOne(queue[s], s[2], batch[s[1]])]
      /\ Release(S, "event") /\ UNCHANGED <<timedout, io_canceled>>
  BY DEF IoHandle
<1>2. \A s \in Slots : queue[s] \in Seq(Fibers) /\ NoDup(queue[s])
  BY DEF LinkTypes, IoLinks
<1>3. \A s \in Slots :
        /\ queue'[s] \in Seq(Fibers) /\ NoDup(queue'[s])
        /\ Elems(queue'[s]) \subseteq Elems(queue[s])
  BY <1>1, <1>2, PopOneElems
<1>4. \A s \in Slots : \A f \in Elems(queue[s]) : f \in Fibers /\ Linked(f) /\ slot[f] = s
  BY DEF IoLinks, Linked
<1>5. \A f \in S : Linked(f)
  BY <1>4
<1>6. \A s \in Slots : Elems(queue'[s]) = Elems(queue[s]) \ S
  <2> SUFFICES ASSUME NEW s \in Slots, NEW f \in Elems(queue[s])
               PROVE  f \in Elems(queue'[s]) <=> f \notin S
    BY <1>3
  <2>1. f \in Fibers /\ \A r \in Slots : f \in Elems(queue[r]) => r = s
    BY <1>4
  <2> QED BY <2>1
<1>7. S \in SUBSET Fibers /\ queue' \in [Slots -> Seq(Fibers)]
  BY <1>1, <1>3
<1> HIDE DEF S
<1> QED BY <1>1, <1>3, <1>5, <1>6, <1>7, LinkInvRelease

(* melon_close and melon_cancelio release all who wait for d.              *)
LEMMA LinkInvFlush ==
  ASSUME LinkInv, NEW d \in Fds, Flush(d) PROVE LinkInv'
<1> USE DEF LinkInv
<1> DEFINE S == Elems(queue[<<d, "IN">>]) \cup Elems(queue[<<d, "OUT">>])
<1>1. /\ queue' = [s \in Slots |-> IF s[1] = d THEN << >> ELSE queue[s]]
      /\ io_canceled' = io_canceled \cup S /\ Release(S, "cancel") /\ timedout' = timedout
  BY DEF Flush
<1>2. \A s \in Slots : \A f \in Elems(queue[s]) : f \in Fibers /\ Linked(f) /\ slot[f] = s
  BY DEF IoLinks, Linked
<1>3. <<d, "IN">> \in Slots /\ <<d, "OUT">> \in Slots
  BY DEF Slots, Directions
<1>4. S \in SUBSET Fibers /\ \A f \in S : Linked(f)
  <2>1. \A f \in Elems(queue[<<d, "IN">>]) : f \in Fibers /\ Linked(f)
    BY <1>2, <1>3
  <2>2. \A f \in Elems(queue[<<d, "OUT">>]) : f \in Fibers /\ Linked(f)
    BY <1>2, <1>3
  <2>3. \A f \in S : f \in Fibers /\ Linked(f)
    BY <2>1, <2>2
  <2> HIDE DEF S
  <2> QED BY <2>3
<1>5. Elems(<< >>) = {} /\ NoDup(<< >>) /\ << >> \in Seq(Fibers)
  BY DEF Elems, NoDup
<1>6. \A s \in Slots : NoDup(queue'[s]) /\ Elems(queue'[s]) = Elems(queue[s]) \ S
  <2> SUFFICES ASSUME NEW s \in Slots
               PROVE  NoDup(queue'[s]) /\ Elems(queue'[s]) = Elems(queue[s]) \ S
    OBVIOUS
  <2>1. CASE s[1] = d
    <3>1. s = <<d, "IN">> \/ s = <<d, "OUT">>
      BY <2>1 DEF Slots, Directions
    <3>2. Elems(queue[s]) \subseteq S
      BY <3>1
    <3>3. queue'[s] = << >>
      BY <1>1, <2>1
    <3> QED BY <1>5, <3>2, <3>3
  <2>2. CASE s[1] # d
    <3>1. s # <<d, "IN">> /\ s # <<d, "OUT">>
      BY <2>2
    <3>2. Elems(queue[s]) \cap S = {}
      BY <1>2, <1>3, <3>1
    <3>3. queue'[s] = queue[s] /\ NoDup(queue[s])
      BY <1>1, <2>2 DEF IoLinks
    <3> QED BY <3>2, <3>3
  <2> QED BY <2>1, <2>2
<1>7. queue' \in [Slots -> Seq(Fibers)]
  BY <1>1, <1>5 DEF LinkTypes
<1> HIDE DEF S
<1> QED BY <1>1, <1>4, <1>6, <1>7, LinkInvRelease

(* Every step keeps the links.                                             *)
LEMMA LinkInvStep ==
  ASSUME LinkInv, [Next]_vars PROVE LinkInv'
<1>0. now \in Nat
  BY DEF LinkInv, LinkTypes
<1>1. ASSUME UNCHANGED <<ioVars, timeVars, fiberVars>> PROVE LinkInv'
  BY <1>0, <1>1, LinksSame DEF ioVars, timeVars, fiberVars
<1>2. ASSUME NEW f \in Fibers, NEW d \in Fds, NEW e \in Directions, IoCall(f, d, e)
      PROVE  LinkInv'
  BY <1>2, LinkInvWaitfor DEF IoCall
<1>3. CASE Tick
  <2>1. now' \in Nat
    BY <1>0, <1>3 DEF Tick
  <2> QED BY <1>3, <2>1, LinksSame DEF Tick, ioVars, fiberVars
<1>4. ASSUME NEW d \in Fds, Close(d) \/ CancelIo(d) PROVE LinkInv'
  BY <1>4, LinkInvFlush DEF Close, CancelIo
<1>5. ASSUME NEW d \in Fds, PlainClose(d) \/ Open(d) PROVE LinkInv'
  BY <1>1, <1>5 DEF PlainClose, Open
<1>6. ASSUME NEW d \in Fds, NEW x, LevelChange(d, x) PROVE LinkInv'
  BY <1>1, <1>6 DEF LevelChange
<1>7. CASE IoLoop \/ EpollWait \/ EpollFails
  BY <1>1, <1>7 DEF IoLoop, EpollWait, EpollFails
<1>8. CASE DeinitStop \/ IoDeinit \/ IoCanceled \/ IoJoin
  BY <1>1, <1>8 DEF DeinitStop, IoDeinit, IoCanceled, IoJoin
<1>9. CASE UNCHANGED vars
  BY <1>0, <1>9, LinksSame DEF vars
<1> QED BY <1>2, <1>3, <1>4, <1>5, <1>6, <1>7, <1>8, <1>9, LinkInvResume, LinkInvCb,
        LinkInvHandle DEF Next

(* The links are sound from the start on.                                  *)
THEOREM LinkInvariant == Spec => []LinkInv
<1>1. Init => LinkInv
  <2> SUFFICES ASSUME Init PROVE LinkInv
    OBVIOUS
  <2>1. Elems(<< >>) = {} /\ NoDup(<< >>) /\ << >> \in Seq(Fibers)
    BY DEF Elems, NoDup
  <2>2. LinkTypes
    BY <2>1 DEF Init, LinkTypes
  <2>3. WaitState
    BY DEF Init, WaitState, Linked
  <2>4. TimerSorted(<< >>, timer)
    BY DEF TimerSorted
  <2>5. IoLinks
    BY <2>1, <2>4 DEF Init, IoLinks
  <2> QED BY <2>2, <2>3, <2>5 DEF LinkInv
<1>2. LinkInv /\ [Next]_vars => LinkInv'
  BY LinkInvStep
<1> QED BY <1>1, <1>2, PTL DEF Spec

(* A waiting fiber is linked once, where its wake-up will look for it.     *)
THEOREM WaitersLinked == Spec => []IoLinks
<1>1. LinkInv => IoLinks
  BY DEF LinkInv
<1> QED BY <1>1, LinkInvariant, PTL

(* What a fiber that is made ready will return is decided then, and not    *)
(* changed until it has returned.                                          *)
LEMMA ResultStep ==
  ASSUME LinkInv, ResultIsCause, [Next]_vars PROVE ResultIsCause'
<1>1. ASSUME UNCHANGED <<timer, timedout, io_canceled, ready, cause>> PROVE ResultIsCause'
  BY <1>1 DEF ResultIsCause, Result, ETIMEDOUT, ECANCELED
<1>2. ASSUME NEW f \in Fibers, NEW d \in Fds, NEW e \in Directions, IoCall(f, d, e)
      PROVE  ResultIsCause'
  <2>1. PICK t \in Timeouts : Waitfor(f, d, e, t)
    BY <1>2 DEF IoCall
  <2>2. /\ pc[f] = "run" /\ timer' = [timer EXCEPT ![f] = t]
        /\ timedout' = timedout \ {f} /\ io_canceled' = io_canceled \ {f}
        /\ UNCHANGED <<ready, cause>>
    BY <2>1 DEF Waitfor, ResetFlags
  <2>3. f \notin ready /\ ready \subseteq Fibers /\ timer \in [Fibers -> Nat]
    BY <2>2 DEF LinkInv, WaitState, LinkTypes
  <2>4. \A g \in ready : timer'[g] = timer[g]
    BY <2>2, <2>3
  <2> QED BY <2>2, <2>3, <2>4 DEF ResultIsCause, Result, ETIMEDOUT, ECANCELED
<1>3. ASSUME NEW f \in Fibers, Resume(f) PROVE ResultIsCause'
  <2>1. /\ ready' = ready \ {f} /\ cause' = [cause EXCEPT ![f] = "none"]
        /\ timedout' = timedout \ {f} /\ UNCHANGED <<io_canceled, timer>>
    BY <1>3 DEF Resume, timeVars
  <2>2. ready \subseteq Fibers /\ cause \in [Fibers -> {"none", "event", "timeout", "cancel"}]
    BY DEF LinkInv, LinkTypes
  <2>3. \A g \in ready' : cause'[g] = cause[g]
    BY <2>1, <2>2
  <2> QED BY <2>1, <2>3 DEF ResultIsCause, Result, ETIMEDOUT, ECANCELED
<1>4. ASSUME NEW f \in Fibers, WaitforCb(f) PROVE ResultIsCause'
  <2>1. /\ ready' = ready \cup {f} /\ cause' = [cause EXCEPT ![f] = "timeout"]
        /\ timedout' = timedout \cup {f} /\ UNCHANGED <<io_canceled, timer>>
    BY <1>4 DEF WaitforCb
  <2>2. f \notin ready /\ timer[f] > 0
    BY <1>4, CbFinds DEF Linked
  <2>3. ready \subseteq Fibers /\ cause \in [Fibers -> {"none", "event", "timeout", "cancel"}]
    BY DEF LinkInv, LinkTypes
  <2>4. cause'[f] = "timeout" /\ \A g \in ready : cause'[g] = cause[g]
    BY <2>1, <2>2, <2>3
  <2> QED BY <2>1, <2>2, <2>4 DEF ResultIsCause, Result, ETIMEDOUT, ECANCELED
<1>5. CASE IoHandle
  <2> DEFINE S == {f \in Fibers : \E s \in Slots : f \in Elems(queue[s]) \ Elems(queue'[s])}
  <2>1. \A f \in S : Linked(f)
    BY DEF LinkInv, IoLinks, Linked
  <2>2. S \subseteq Fibers /\ Release(S, "event") /\ UNCHANGED <<timedout, io_canceled>>
    BY <1>5 DEF IoHandle
  <2> HIDE DEF S
  <2>3. \A f \in S : f \notin ready /\ f \notin timedout /\ f \notin io_canceled
    BY <2>1, <2>2 DEF LinkInv, WaitState, Linked
  <2>4. /\ ready' = ready \cup S /\ timer' = timer /\ ready \subseteq Fibers
        /\ cause' = [f \in Fibers |-> IF f \in S THEN "event" ELSE cause[f]]
    BY <2>2 DEF Release, LinkInv, LinkTypes
  <2> QED BY <2>2, <2>3, <2>4 DEF ResultIsCause, Result, ETIMEDOUT, ECANCELED
<1>6. ASSUME NEW d \in Fds, Flush(d) PROVE ResultIsCause'
  <2> DEFINE S == Elems(queue[<<d, "IN">>]) \cup Elems(queue[<<d, "OUT">>])
  <2>1. <<d, "IN">> \in Slots /\ <<d, "OUT">> \in Slots
    BY DEF Slots, Directions
  <2>2. /\ \A f \in Elems(queue[<<d, "IN">>]) : f \in Fibers /\ Linked(f)
        /\ \A f \in Elems(queue[<<d, "OUT">>]) : f \in Fibers /\ Linked(f)
    BY <2>1 DEF LinkInv, IoLinks, Linked
  <2>3. \A f \in S : f \in Fibers /\ Linked(f)
    BY <2>2
  <2>4. Release(S, "cancel") /\ io_canceled' = io_canceled \cup S /\ timedout' = timedout
    BY <1>6 DEF Flush
  <2> HIDE DEF S
  <2>5. \A f \in S : f \in Fibers /\ f \notin ready /\ f \notin timedout
    BY <2>3 DEF LinkInv, WaitState, Linked
  <2>6. /\ ready' = ready \cup S /\ timer' = timer /\ ready \subseteq Fibers
        /\ cause' = [f \in Fibers |-> IF f \in S THEN "cancel" ELSE cause[f]]
    BY <2>4 DEF Release, LinkInv, LinkTypes
  <2> QED BY <2>4, <2>5, <2>6 DEF ResultIsCause, Result, ETIMEDOUT, ECANCELED
<1>7. ASSUME NEW d \in Fds, Close(d) \/ CancelIo(d) PROVE ResultIsCause'
  BY <1>6, <1>7 DEF Close, CancelIo
<1>8. ASSUME UNCHANGED <<timeVars, fiberVars>> PROVE ResultIsCause'
  BY <1>1, <1>8 DEF timeVars, fiberVars
<1>9. CASE Tick
  BY <1>1, <1>9 DEF Tick, fiberVars
<1>10. ASSUME NEW d \in Fds, PlainClose(d) \/ Open(d) PROVE ResultIsCause'
  BY <1>8, <1>10 DEF PlainClose, Open
<1>11. ASSUME NEW d \in Fds, NEW x, LevelChange(d, x) PROVE ResultIsCause'
  BY <1>8, <1>11 DEF LevelChange
<1>12. CASE \/ IoLoop \/ EpollWait \/ EpollFails
            \/ DeinitStop \/ IoDeinit \/ IoCanceled \/ IoJoin
  BY <1>8, <1>12 DEF IoLoop, EpollWait, EpollFails, DeinitStop, IoDeinit, IoCanceled,
                     IoJoin
<1>13. CASE UNCHANGED vars
  BY <1>1, <1>13 DEF vars
<1> QED BY <1>2, <1>3, <1>4, <1>5, <1>7, <1>9, <1>10, <1>11, <1>12, <1>13 DEF Next

(* A call reports what ended its wait.                                     *)
THEOREM WaitReportsCause == Spec => []ResultIsCause
<1>1. Init => ResultIsCause
  BY DEF Init, ResultIsCause
<1>2. LinkInv /\ ResultIsCause /\ [Next]_vars => ResultIsCause'
  BY ResultStep
<1> QED BY <1>1, <1>2, LinkInvariant, PTL DEF Spec

(* A step lets a fiber out of a queue before an earlier one only when its  *)
(* deadline has passed.                                                    *)
LEMMA StepServes ==
  ASSUME LinkInv, [Next]_vars, NEW s \in Slots,
         NEW i \in 1..Len(queue[s]), NEW j \in 1..Len(queue[s]), i < j,
         queue[s][i] \in Elems(queue'[s]), queue[s][j] \notin Elems(queue'[s])
  PROVE  timer[queue[s][j]] > 0 /\ timer[queue[s][j]] <= now
<1>0. /\ queue \in [Slots -> Seq(Fibers)] /\ queue[s] \in Seq(Fibers) /\ NoDup(queue[s])
      /\ queue[s][j] \in Elems(queue[s])
  BY DEF LinkInv, LinkTypes, IoLinks, Elems
<1>1. queue'[s] # queue[s]
  BY <1>0
<1>2. ASSUME NEW f \in Fibers, NEW d \in Fds, NEW e \in Directions, IoCall(f, d, e)
      PROVE  FALSE
  <2>1. queue' = [queue EXCEPT ![<<d, e>>] = DlistPush(queue[<<d, e>>], f)]
    BY <1>2 DEF IoCall, Waitfor
  <2>2. queue'[s] = DlistPush(queue[s], f)
    BY <1>0, <1>1, <2>1
  <2>3. Elems(queue'[s]) = Elems(queue[s]) \cup {f}
    BY <1>0, <2>2, PushElems
  <2> QED BY <1>0, <2>3
<1>3. ASSUME NEW f \in Fibers, WaitforCb(f)
      PROVE  timer[queue[s][j]] > 0 /\ timer[queue[s][j]] <= now
  <2>1. /\ slot[f] \in Slots /\ f \in Elems(queue[slot[f]])
        /\ timer[f] > 0 /\ timer[f] <= now
    BY <1>3, CbFinds
  <2>2. queue' = [queue EXCEPT ![slot[f]] = DlistUnlink(queue[slot[f]], f)]
    BY <1>3 DEF WaitforCb
  <2>3. s = slot[f] /\ queue'[s] = DlistUnlink(queue[s], f)
    BY <1>0, <1>1, <2>2
  <2>4. Elems(queue'[s]) = Elems(queue[s]) \ {f}
    BY <1>0, <2>1, <2>3, UnlinkElems
  <2>5. queue[s][j] = f
    BY <1>0, <2>4
  <2> QED BY <2>1, <2>5
<1>4. CASE IoHandle
  <2>1. queue'[s] = PopOne(queue[s], s[2], batch[s[1]])
    BY <1>4 DEF IoHandle
  <2> QED BY <1>0, <2>1, PopOneElems
<1>5. ASSUME NEW d \in Fds, Close(d) \/ CancelIo(d) PROVE FALSE
  <2>1. queue'[s] = << >>
    BY <1>1, <1>5 DEF Close, CancelIo, Flush
  <2>2. Elems(<< >>) = {}
    BY DEF Elems
  <2> QED BY <2>1, <2>2
<1>6. queue' # queue
  BY <1>1
<1>7. \/ \E f \in Fibers :
           (\E d \in Fds, e \in Directions : IoCall(f, d, e)) \/ WaitforCb(f)
      \/ IoHandle
      \/ \E d \in Fds : Close(d) \/ CancelIo(d)
  <2>1. CASE \/ Tick \/ IoLoop \/ EpollWait \/ EpollFails
             \/ DeinitStop \/ IoDeinit \/ IoCanceled \/ IoJoin \/ UNCHANGED vars
    BY <1>6, <2>1 DEF Tick, IoLoop, EpollWait, EpollFails, DeinitStop, IoDeinit,
                      IoCanceled, IoJoin, ioVars, vars
  <2>2. ASSUME NEW f \in Fibers, Resume(f) PROVE FALSE
    BY <1>6, <2>2 DEF Resume, ioVars
  <2>3. ASSUME NEW d \in Fds, NEW x, PlainClose(d) \/ Open(d) \/ LevelChange(d, x)
        PROVE  FALSE
    BY <1>6, <2>3 DEF PlainClose, Open, LevelChange, ioVars
  <2> QED BY <2>1, <2>2, <2>3 DEF Next
<1> QED BY <1>2, <1>3, <1>4, <1>5, <1>7

(* Events release the fibers of a queue in the order they came.            *)
THEOREM EventsServeInOrder == Spec => ServedInOrder
<1>1. LinkInv /\ [Next]_vars =>
        [\A s \in Slots : \A i, j \in 1..Len(queue[s]) :
           i < j /\ queue[s][i] \in Elems(queue'[s]) =>
             queue[s][j] \in Elems(queue'[s])
             \/ (timer[queue[s][j]] > 0 /\ timer[queue[s][j]] <= now)]_vars
  BY StepServes
<1> QED BY <1>1, LinkInvariant, PTL DEF Spec, ServedInOrder
=============================================================================
