---------------------------- MODULE TimerProofs ----------------------------
(***************************************************************************)
(* For any number of fibers and any deadlines: the timer thread never      *)
(* sleeps past a deadline of its queue, and a sleep is never cut short     *)
(* when its microseconds fit in melon_sleep's argument.                    *)
(***************************************************************************)
EXTENDS Timer, DlistProofs

USE TimerAssumption

(* The state melon_timer_manager_init leaves.                              *)
LEMMA InitTimerInv == Init => TimerInv
<1> SUFFICES ASSUME Init PROVE TimerInv
  OBVIOUS
<1>1. /\ << >> \in Seq(Sleepers) /\ Elems(<< >>) = {} /\ NoDup(<< >>)
      /\ TimerSorted(<< >>, timer)
  BY DEF Elems, NoDup, TimerSorted
<1>2. stop \in BOOLEAN
  BY Zenon DEF Init
<1>3. TypeOK
  BY <1>1, <1>2 DEF Init, TypeOK
<1>4. QueueIsTheArmed
  BY <1>1 DEF Init, QueueIsTheArmed
<1> QED BY <1>3, <1>4 DEF Init, TimerInv, TimersSet, NoOversleep

(* In a sorted queue no deadline is before that of the head.               *)
LEMMA HeadIsFirst ==
  ASSUME NEW S, NEW q \in Seq(S), NEW tm \in [S -> Int], q # << >>,
         TimerSorted(q, tm)
  PROVE  /\ Head(q) \in Elems(q) /\ Head(q) \in S
         /\ \A f \in Elems(q) : f \in S /\ tm[Head(q)] <= tm[f]
<1>1. /\ Len(q) \in Nat /\ Len(q) > 0 /\ Head(q) = q[1]
      /\ \A i \in 1..Len(q) : q[i] \in S
  BY EmptySeq, ElementOfSeq
<1>2. Head(q) \in Elems(q) /\ Head(q) \in S
  BY <1>1 DEF Elems
<1>3. ASSUME NEW i \in 1..Len(q) PROVE q[i] \in S /\ tm[q[1]] <= tm[q[i]]
  <2>1. CASE i = 1
    BY <1>1, <2>1
  <2>2. CASE i # 1
    BY <1>1, <2>2 DEF TimerSorted
  <2> QED BY <2>1, <2>2
<1> QED BY <1>1, <1>2, <1>3 DEF Elems

(* melon_timer_push_locked: whether or not it wakes the timer thread, the  *)
(* thread then sleeps past no deadline.                                    *)
LEMMA TimerPushKeeps ==
  ASSUME TimerInv, NEW f \in Sleepers, f \notin Elems(timer_queue),
         timer' \in [Sleepers -> Nat], timer'[f] > 0,
         \A g \in Elems(timer_queue) : timer'[g] = timer[g],
         TimerPush(f), UNCHANGED deadline
  PROVE  /\ timer_queue' \in Seq(Sleepers)
         /\ NoDup(timer_queue')
         /\ Elems(timer_queue') = Elems(timer_queue) \cup {f}
         /\ TimerSorted(timer_queue', timer')
         /\ timerpc' \in {"loop", "waiting", "exit"}
         /\ NoOversleep'
<1> USE DEF TimerInv
<1>1. timer_queue \in Seq(Sleepers) /\ timer' \in [Sleepers -> Int]
  BY DEF TypeOK
<1>2. TimerSorted(timer_queue, timer')
  BY <1>1, SortedSameTimers, Zenon DEF QueueIsTheArmed
<1>3. timer_queue' = TimerInsert(timer_queue, timer', f)
  BY DEF TimerPush
<1>4. /\ timer_queue' \in Seq(Sleepers) /\ NoDup(timer_queue')
      /\ Elems(timer_queue') = Elems(timer_queue) \cup {f}
      /\ TimerSorted(timer_queue', timer')
  BY <1>1, <1>2, <1>3, TimerInsertElems DEF QueueIsTheArmed
<1>5. timerpc' \in {"loop", "waiting", "exit"} /\ (timerpc' = "waiting" => timerpc = "waiting")
  BY DEF TimerPush, SignalTimer, TypeOK
<1>6. NoOversleep'
  <2> SUFFICES ASSUME timerpc' = "waiting", NEW g \in Elems(timer_queue')
               PROVE  deadline' > 0 /\ deadline' <= timer'[g]
    BY DEF NoOversleep
  <2>1. timer_queue' # << >>
    BY DEF Elems
  <2>2. /\ Head(timer_queue') \in Elems(timer_queue')
        /\ g \in Sleepers /\ Head(timer_queue') \in Sleepers
        /\ timer'[Head(timer_queue')] <= timer'[g]
    BY <1>1, <1>4, <2>1, HeadIsFirst
  <2>3. Head(timer_queue') # f
    BY DEF TimerPush, SignalTimer
  <2>4. Head(timer_queue') \in Elems(timer_queue)
    BY <1>4, <2>2, <2>3
  <2>5. /\ deadline > 0 /\ deadline <= timer[Head(timer_queue')]
    BY <1>5, <2>4 DEF NoOversleep
  <2> QED BY <2>2, <2>4, <2>5 DEF TypeOK
<1> QED BY <1>4, <1>5, <1>6

(* The scan of the timer thread stops somewhere, at the first fiber that   *)
(* has not expired.                                                        *)
LEMMA ExpiredExists ==
  ASSUME TypeOK
  PROVE  /\ Expired \in 0..Len(timer_queue)
         /\ \A i \in 1..Expired : timer[timer_queue[i]] <= now
<1> DEFINE q == timer_queue
           T == {n \in 0..Len(q) : n = Len(q) \/ timer[q[n + 1]] > now}
<1>0. /\ Len(q) \in Nat /\ \A i \in 1..Len(q) : q[i] \in Sleepers /\ timer[q[i]] \in Nat
      /\ now \in Nat
  BY ElementOfSeq DEF TypeOK
<1>1. T \subseteq Nat /\ Len(q) \in T
  BY <1>0
<1> HIDE DEF T
<1>3. PICK m \in T : \A y \in T : m <= y
  BY <1>1, LeastNat
<1>4. m \in 0..Len(q) /\ (m < Len(q) => timer[q[m + 1]] > now)
  BY DEF T
<1>5. ASSUME NEW i \in 1..m PROVE timer[q[i]] <= now
  <2>1. i - 1 \in 0..Len(q) /\ i \in 1..Len(q) /\ ~(m <= i - 1)
    BY <1>0, <1>4
  <2>2. i - 1 \notin T
    BY <1>3, <2>1
  <2>3. ~(timer[q[(i - 1) + 1]] > now)
    BY <2>1, <2>2 DEF T
  <2>4. (i - 1) + 1 = i
    BY <1>0, <1>4
  <2> QED BY <1>0, <2>1, <2>3, <2>4
<1>6. \E n \in 0..Len(q) :
        /\ \A i \in 1..n : timer[q[i]] <= now
        /\ n < Len(q) => timer[q[n + 1]] > now
  BY <1>4, <1>5
<1> QED BY <1>6 DEF Expired

(* The scan of the timer thread takes a prefix out of the queue.           *)
LEMMA PrefixRemoved ==
  ASSUME NEW S, NEW q \in Seq(S), NEW tm \in [S -> Int], NoDup(q),
         TimerSorted(q, tm), NEW n \in 0..Len(q)
  PROVE  /\ SubSeq(q, n + 1, Len(q)) \in Seq(S)
         /\ NoDup(SubSeq(q, n + 1, Len(q)))
         /\ TimerSorted(SubSeq(q, n + 1, Len(q)), tm)
         /\ Elems(SubSeq(q, n + 1, Len(q))) \subseteq Elems(q)
         /\ \A f \in Elems(q) : f \in Elems(SubSeq(q, n + 1, Len(q)))
                                 <=> ~ \E i \in 1..n : q[i] = f
<1> DEFINE r == SubSeq(q, n + 1, Len(q))
<1>0. Len(q) \in Nat /\ n \in Nat /\ n <= Len(q) /\ \A i \in 1..Len(q) : q[i] \in S
  BY ElementOfSeq
<1>1. /\ r \in Seq(S) /\ Len(r) = Len(q) - n
      /\ \A i \in 1..(Len(q) - n) : r[i] = q[n + i] /\ n + i \in 1..Len(q)
  <2>1. \A i \in (n + 1)..Len(q) : q[i] \in S
    BY <1>0
  <2>2. /\ r \in Seq(S) /\ Len(r) = IF n + 1 <= Len(q) THEN Len(q) - (n + 1) + 1 ELSE 0
        /\ \A i \in 1..(Len(q) - (n + 1) + 1) : r[i] = q[(n + 1) + i - 1]
    BY <1>0, <2>1, SubSeqProperties
  <2>3. ASSUME NEW i \in 1..(Len(q) - n) PROVE r[i] = q[n + i] /\ n + i \in 1..Len(q)
    <3>1. i \in 1..(Len(q) - (n + 1) + 1) /\ (n + 1) + i - 1 = n + i
      BY <1>0
    <3>2. r[i] = q[n + i]
      BY <2>2, <3>1
    <3>3. n + i \in 1..Len(q)
      BY <1>0
    <3> QED BY <3>2, <3>3
  <2> QED BY <1>0, <2>2, <2>3
<1> HIDE DEF r
<1>2. NoDup(r)
  <2>1. ASSUME NEW i \in 1..(Len(q) - n), NEW j \in 1..(Len(q) - n), r[i] = r[j]
        PROVE  i = j
    <3>1. /\ r[i] = q[n + i] /\ n + i \in 1..Len(q)
          /\ r[j] = q[n + j] /\ n + j \in 1..Len(q)
      BY <1>1
    <3>2. n + i = n + j
      BY <2>1, <3>1 DEF NoDup
    <3> QED BY <1>0, <3>2
  <2> QED BY <1>1, <2>1 DEF NoDup
<1>3. TimerSorted(r, tm)
  <2>1. ASSUME NEW i \in 1..(Len(q) - n), NEW j \in 1..(Len(q) - n), i < j
        PROVE  tm[r[i]] <= tm[r[j]]
    <3>1. /\ r[i] = q[n + i] /\ n + i \in 1..Len(q)
          /\ r[j] = q[n + j] /\ n + j \in 1..Len(q)
      BY <1>1
    <3>2. n + i < n + j
      BY <1>0, <2>1
    <3> QED BY <3>1, <3>2 DEF TimerSorted
  <2> QED BY <1>1, <2>1 DEF TimerSorted
<1>4. ASSUME NEW f \in Elems(r) PROVE f \in Elems(q) /\ ~ \E i \in 1..n : q[i] = f
  <2>1. PICK i \in 1..(Len(q) - n) : f = q[n + i] /\ n + i \in 1..Len(q)
    BY <1>1 DEF Elems
  <2>2. ASSUME NEW j \in 1..n, q[j] = f PROVE FALSE
    <3>1. j \in 1..Len(q) /\ q[j] = q[n + i]
      BY <1>0, <2>1, <2>2
    <3>2. j = n + i
      BY <2>1, <3>1 DEF NoDup
    <3> QED BY <1>0, <3>2
  <2> QED BY <2>1, <2>2 DEF Elems
<1>5. ASSUME NEW f \in Elems(q), ~ \E i \in 1..n : q[i] = f PROVE f \in Elems(r)
  <2>1. PICK i \in 1..Len(q) : f = q[i]
    BY DEF Elems
  <2>2. i - n \in 1..(Len(q) - n) /\ n + (i - n) = i
    BY <1>0, <1>5, <2>1
  <2>3. r[i - n] = f
    BY <1>1, <2>1, <2>2
  <2> QED BY <1>1, <2>2, <2>3 DEF Elems
<1>6. /\ Elems(r) \subseteq Elems(q)
      /\ \A f \in Elems(q) : f \in Elems(r) <=> ~ \E i \in 1..n : q[i] = f
  BY <1>4, <1>5
<1> QED BY <1>1, <1>2, <1>3, <1>6 DEF r

(* One iteration of the timer thread keeps the invariant.                  *)
LEMMA TimerLoopInv ==
  ASSUME TimerInv, TimerLoop PROVE TimerInv'
<1> USE DEF TimerInv, TimerLoop
<1>1. CASE stop
  BY <1>1 DEF TypeOK, QueueIsTheArmed, TimersSet, NoOversleep
<1>2. CASE ~stop
  <2> DEFINE n == Expired
  <2>1. n \in 0..Len(timer_queue)
    BY ExpiredExists
  <2>2. /\ timer_queue' = SubSeq(timer_queue, n + 1, Len(timer_queue))
        /\ fpc' = [f \in Sleepers |->
                     IF \E i \in 1..n : timer_queue[i] = f THEN "run" ELSE fpc[f]]
        /\ timerpc' = "waiting" /\ WaitForHead
        /\ UNCHANGED <<timer, now, until, stop, main>>
    BY <1>2 DEF Fire
  <2> HIDE DEF n
  <2>3. /\ timer_queue \in Seq(Sleepers) /\ timer \in [Sleepers -> Int]
        /\ NoDup(timer_queue) /\ TimerSorted(timer_queue, timer)
    BY DEF TypeOK, QueueIsTheArmed
  <2>4. /\ timer_queue' \in Seq(Sleepers) /\ NoDup(timer_queue')
        /\ TimerSorted(timer_queue', timer)
        /\ Elems(timer_queue') \subseteq Elems(timer_queue)
        /\ \A f \in Elems(timer_queue) :
             f \in Elems(timer_queue') <=> ~ \E i \in 1..n : timer_queue[i] = f
    <3> DEFINE r == SubSeq(timer_queue, n + 1, Len(timer_queue))
    <3>1. /\ r \in Seq(Sleepers) /\ NoDup(r) /\ TimerSorted(r, timer)
          /\ Elems(r) \subseteq Elems(timer_queue)
          /\ \A f \in Elems(timer_queue) :
               f \in Elems(r) <=> ~ \E i \in 1..n : timer_queue[i] = f
      BY <2>1, <2>3, PrefixRemoved
    <3>2. timer_queue' = r
      BY <2>2
    <3> HIDE DEF r
    <3> QED BY <3>1, <3>2
  <2>5. QueueIsTheArmed'
    BY <2>2, <2>4 DEF QueueIsTheArmed, TypeOK
  <2>6. TimersSet'
    BY <2>2 DEF TimersSet, TypeOK
  <2>7. CASE timer_queue' = << >>
    <3>0. deadline' = 0
      BY <2>2, <2>7 DEF WaitForHead
    <3>1. Elems(timer_queue') = {}
      BY <2>7 DEF Elems
    <3>2. TypeOK'
      BY <2>2, <2>4, <3>0 DEF TypeOK
    <3>3. NoOversleep'
      BY <3>1 DEF NoOversleep
    <3> QED BY <2>5, <2>6, <3>2, <3>3
  <2>8. CASE timer_queue' # << >>
    <3>1. deadline' = timer[Head(timer_queue')]
      BY <2>2, <2>8 DEF WaitForHead
    <3>2. /\ Head(timer_queue') \in Elems(timer_queue')
          /\ Head(timer_queue') \in Sleepers
          /\ \A f \in Elems(timer_queue') :
               f \in Sleepers /\ timer[Head(timer_queue')] <= timer[f]
      BY <2>3, <2>4, <2>8, HeadIsFirst
    <3>3. deadline' > 0
      BY <3>1, <3>2, <2>5, <2>6, <2>2 DEF QueueIsTheArmed, TimersSet
    <3>4. TypeOK'
      BY <2>2, <2>4, <3>1, <3>2 DEF TypeOK
    <3>5. NoOversleep'
      BY <2>2, <3>1, <3>2, <3>3 DEF NoOversleep
    <3> QED BY <2>5, <2>6, <3>4, <3>5
  <2> QED BY <2>7, <2>8
<1> QED BY <1>1, <1>2

(* A fiber that starts to wait for a deadline keeps the invariant.         *)
LEMMA ArmInv ==
  ASSUME TimerInv, NEW f \in Sleepers,
         \/ UsleepPush(f)
         \/ \E t \in 1..MaxTime : TimedWait(f, t)
  PROVE  TimerInv'
<1> USE DEF TimerInv
<1>1. PICK l \in {"asleep", "timed"} :
        /\ fpc[f] \in {"run", "arming"} /\ fpc' = [fpc EXCEPT ![f] = l]
        /\ TimerPush(f)
        /\ UNCHANGED <<now, deadline, stop, main>>
  BY DEF UsleepPush, TimedWait
<1>2. /\ timer' \in [Sleepers -> Nat] /\ timer'[f] > 0
      /\ \A g \in Sleepers \ {f} : timer'[g] = timer[g]
      /\ until' \in [Sleepers -> Nat]
  <2>1. CASE UsleepPush(f)
    BY <2>1 DEF UsleepPush, TypeOK, TimersSet
  <2>2. ASSUME NEW t \in 1..MaxTime, TimedWait(f, t)
        PROVE  /\ timer' = [timer EXCEPT ![f] = t] /\ t \in Nat /\ t > 0
               /\ until' = [until EXCEPT ![f] = t]
    BY <2>2 DEF TimedWait
  <2> QED BY <2>1, <2>2 DEF TypeOK
<1>3. f \notin Elems(timer_queue) /\ Elems(timer_queue) \subseteq Sleepers
  BY <1>1 DEF QueueIsTheArmed
<1>4. /\ timer_queue' \in Seq(Sleepers) /\ NoDup(timer_queue')
      /\ Elems(timer_queue') = Elems(timer_queue) \cup {f}
      /\ TimerSorted(timer_queue', timer')
      /\ timerpc' \in {"loop", "waiting", "exit"}
      /\ NoOversleep'
  BY <1>1, <1>2, <1>3, TimerPushKeeps
<1>5. TypeOK'
  BY <1>1, <1>2, <1>4 DEF TypeOK
<1>6. QueueIsTheArmed'
  BY <1>1, <1>4 DEF QueueIsTheArmed, TypeOK
<1>7. TimersSet'
  BY <1>1, <1>2 DEF TimersSet, TypeOK
<1> QED BY <1>4, <1>5, <1>6, <1>7

(* Computing a deadline, which arms nothing yet, keeps the invariant.      *)
LEMMA UsleepInv ==
  ASSUME TimerInv, NEW f \in Sleepers, NEW u \in Nat, NEW w \in Nat, Usleep(f, u, w)
  PROVE  TimerInv'
<1> USE DEF TimerInv, Usleep
<1>1. f \notin Elems(timer_queue) /\ Elems(timer_queue) \subseteq Sleepers
  BY DEF QueueIsTheArmed
<1>2. \A g \in Elems(timer_queue) : timer'[g] = timer[g]
  BY <1>1 DEF TypeOK
<1>3. TypeOK'
  BY DEF TypeOK
<1>4. TimerSorted(timer_queue, timer')
  BY <1>2, SortedSameTimers, Zenon DEF QueueIsTheArmed, TypeOK
<1>5. QueueIsTheArmed'
  BY <1>1, <1>4 DEF QueueIsTheArmed, TypeOK
<1>6. TimersSet'
  BY DEF TimersSet, TypeOK
<1>7. NoOversleep'
  BY <1>2 DEF NoOversleep
<1> QED BY <1>3, <1>5, <1>6, <1>7

(* An event that comes before the deadline keeps the invariant.            *)
LEMMA TimerRemoveInv ==
  ASSUME TimerInv, NEW f \in Sleepers, TimerRemove(f) PROVE TimerInv'
<1> USE DEF TimerInv, TimerRemove
<1>1. f \in Elems(timer_queue) /\ timer_queue \in Seq(Sleepers) /\ NoDup(timer_queue)
  BY DEF QueueIsTheArmed, TypeOK
<1>2. /\ timer_queue' \in Seq(Sleepers) /\ NoDup(timer_queue')
      /\ Elems(timer_queue') = Elems(timer_queue) \ {f}
  BY <1>1, UnlinkElems
<1>3. TimerSorted(timer_queue', timer)
  <2>1. timer \in [Sleepers -> Int]
    BY DEF TypeOK
  <2> QED BY <1>1, <2>1, UnlinkSorted DEF QueueIsTheArmed
<1>4. TypeOK'
  BY <1>2 DEF TypeOK
<1>5. QueueIsTheArmed'
  BY <1>2, <1>3 DEF QueueIsTheArmed, TypeOK
<1>6. TimersSet' /\ NoOversleep'
  BY <1>2 DEF TimersSet, NoOversleep, TypeOK
<1> QED BY <1>4, <1>5, <1>6

(* The microseconds of a sleep are a number.                               *)
LEMMA SleepUsecsNat ==
  ASSUME NEW s \in Secs
  PROVE  SleepUsecs(s) \in Nat /\ s * UsecPerSec \in Nat
  BY DEF SleepUsecs

(* The other steps keep the invariant.                                     *)
LEMMA QuietInv ==
  ASSUME TimerInv,
         \/ TimerDeadline \/ TimerSpurious \/ Tick
         \/ DeinitStop \/ DeinitSignal \/ DeinitJoin
  PROVE  TimerInv'
<1> USE DEF TimerInv
<1>0. stop' \in BOOLEAN
  BY Zenon DEF TypeOK, TimerDeadline, TimerSpurious, Tick, DeinitStop, DeinitSignal,
               DeinitJoin
<1>1. TypeOK'
  BY <1>0 DEF TypeOK, TimerDeadline, TimerSpurious, Tick, DeinitStop, DeinitSignal,
              DeinitJoin, SignalTimer
<1>2. QueueIsTheArmed'
  BY DEF QueueIsTheArmed, TimerDeadline, TimerSpurious, Tick, DeinitStop,
         DeinitSignal, DeinitJoin
<1>3. TimersSet' /\ NoOversleep'
  BY DEF TypeOK, TimersSet, NoOversleep, TimerDeadline, TimerSpurious, Tick,
         DeinitStop, DeinitSignal, DeinitJoin, SignalTimer
<1> QED BY <1>1, <1>2, <1>3

(* The timer queue holds the armed fibers in the order of their deadlines  *)
(* and the thread sleeps past none of them, in every state.                *)
THEOREM TimerInvariant == Spec => []TimerInv
<1>1. TimerInv /\ [Next]_vars => TimerInv'
  <2> SUFFICES ASSUME TimerInv, [Next]_vars PROVE TimerInv'
    OBVIOUS
  <2>1. CASE UNCHANGED vars
    BY <2>1 DEF vars, TimerInv, TypeOK, QueueIsTheArmed, TimersSet, NoOversleep
  <2>2. ASSUME NEW f \in Sleepers, NEW s \in Secs, Sleep(f, s) PROVE TimerInv'
    BY <2>2, SleepUsecsNat, UsleepInv DEF Sleep
  <2>3. ASSUME NEW f \in Sleepers, NEW u \in Usecs, Usleep(f, u, u) PROVE TimerInv'
    BY <2>3, UsleepInv
  <2> QED BY <2>1, <2>2, <2>3, ArmInv, TimerRemoveInv, TimerLoopInv, QuietInv DEF Next
<1> QED BY <1>1, InitTimerInv, PTL DEF Spec

(* The timer thread never sleeps past the deadline of a fiber in its queue.*)
THEOREM NeverOversleeps == Spec => []NoOversleep
<1>1. TimerInv => NoOversleep
  BY DEF TimerInv
<1> QED BY <1>1, TimerInvariant, PTL

(* The queue is exactly the fibers that wait for a deadline, in order.     *)
THEOREM QueueExact == Spec => []QueueIsTheArmed
<1>1. TimerInv => QueueIsTheArmed
  BY DEF TimerInv
<1> QED BY <1>1, TimerInvariant, PTL

(* When the microseconds of every melon_sleep fit in 32 bits, no sleep is  *)
(* cut short.  4295 seconds and more wrap, and the sleep returns early.    *)
THEOREM SleepNotCutShort ==
  ASSUME \A s \in Secs : s * UsecPerSec < UIntMod
  PROVE  Spec => SleepsLongEnough
<1>1. Init => PromiseArmed
  BY DEF Init, PromiseArmed
<1>2. TimerInv /\ PromiseArmed /\ [Next]_vars => PromiseArmed'
  <2> SUFFICES ASSUME TimerInv, PromiseArmed, [Next]_vars PROVE PromiseArmed'
    OBVIOUS
  <2> USE DEF PromiseArmed, TimerInv
  <2>1. ASSUME NEW f \in Sleepers, NEW u \in Nat, Usleep(f, u, u) PROVE PromiseArmed'
    BY <2>1 DEF Usleep, TypeOK
  <2>2. ASSUME NEW f \in Sleepers, NEW s \in Secs, Sleep(f, s) PROVE PromiseArmed'
    <3>1. s * UsecPerSec \in Nat /\ s * UsecPerSec < UIntMod
      BY SleepUsecsNat
    <3>2. \A x \in Nat : x < UIntMod => x % UIntMod = x
      OBVIOUS
    <3>3. SleepUsecs(s) = s * UsecPerSec
      BY <3>1, <3>2 DEF SleepUsecs
    <3> QED BY <2>1, <2>2, <3>1, <3>3 DEF Sleep
  <2>3. ASSUME NEW f \in Sleepers, UsleepPush(f) PROVE PromiseArmed'
    BY <2>3 DEF UsleepPush, TypeOK
  <2>4. ASSUME NEW f \in Sleepers, NEW t \in 1..MaxTime, TimedWait(f, t)
        PROVE  PromiseArmed'
    BY <2>4 DEF TimedWait, TypeOK
  <2>5. ASSUME NEW f \in Sleepers, TimerRemove(f) PROVE PromiseArmed'
    BY <2>5 DEF TimerRemove, TypeOK
  <2>6. CASE TimerLoop
    BY <2>6 DEF TimerLoop, Fire, TypeOK
  <2>7. CASE TimerDeadline \/ TimerSpurious \/ Tick \/ DeinitStop \/ DeinitSignal
             \/ DeinitJoin \/ UNCHANGED vars
    BY <2>7 DEF TimerDeadline, TimerSpurious, Tick, DeinitStop, DeinitSignal,
                DeinitJoin, vars
  <2> QED BY <2>1, <2>2, <2>3, <2>4, <2>5, <2>6, <2>7 DEF Next
<1>3. TimerInv /\ PromiseArmed /\ [Next]_vars =>
        [\A f \in Sleepers : fpc[f] = "asleep" /\ fpc'[f] = "run" => now >= until[f]]_vars
  <2> SUFFICES ASSUME TimerInv, PromiseArmed, Next, NEW f \in Sleepers,
                      fpc[f] = "asleep", fpc'[f] = "run"
               PROVE  now >= until[f]
    OBVIOUS
  <2> USE DEF TimerInv
  <2>1. TimerLoop
    BY DEF Next, Sleep, Usleep, UsleepPush, TimedWait, TimerRemove, TimerDeadline,
           TimerSpurious, Tick, DeinitStop, DeinitSignal, DeinitJoin, TypeOK
  <2>2. ~stop /\ \E i \in 1..Expired : timer_queue[i] = f
    BY <2>1 DEF TimerLoop, Fire, TypeOK
  <2>3. timer[f] <= now
    BY <2>2, ExpiredExists
  <2> QED BY <2>3 DEF PromiseArmed, TypeOK
<1> QED BY <1>1, <1>2, <1>3, TimerInvariant, PTL DEF Spec, SleepsLongEnough
=============================================================================
