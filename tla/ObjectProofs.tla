---------------------------- MODULE ObjectProofs ----------------------------
(***************************************************************************)
(* The objects built on melon's mutex and conditions, for any number of    *)
(* fibers: the read-write lock, joinable fibers and the barrier.           *)
(***************************************************************************)
EXTENDS Barrier, RWLock, Join, DlistProofs, FiniteSetTheorems

----------------------------------------------------------------------------
(* The read-write lock.                                                    *)

RWTypes ==
  /\ lock_count \in Nat /\ is_read \in BOOLEAN /\ wowner \in Fibers \cup {NULL}
  /\ op \in [Fibers -> Ops \cup {"none"}]
  /\ rpc \in [Fibers -> {"out", "entering", "waiting", "leaving", "timedout"}]
  /\ locks \in [Fibers -> [read : Nat, write : Nat]]

(* Every lock a fiber has is a unit of the count.                          *)
Nested(f) == locks[f].read + locks[f].write
Units == {u \in Fibers \X Nat : 1 <= u[2] /\ u[2] <= Nested(u[1])}
CountIsUnits == IsFiniteSet(Units) /\ lock_count = Cardinality(Units)

(* A writer is alone, and known as the owner; an owner is a writer.        *)
WriterAlone ==
  \A f \in Fibers : locks[f].write > 0 =>
    /\ wowner = f /\ ~is_read /\ locks[f].read = 0
    /\ \A g \in Fibers \ {f} : locks[g].read = 0 /\ locks[g].write = 0
OwnerWrites == wowner # NULL => locks[wowner].write > 0

(* A fiber inside a call is in one of the calls, and one that is about to  *)
(* unlock has something to unlock.                                         *)
InACall ==
  \A f \in Fibers :
    /\ rpc[f] # "out" => op[f] # "none"
    /\ rpc[f] = "entering" /\ op[f] = "unlock" => Nested(f) > 0

RWInv == RWTypes /\ CountIsUnits /\ WriterAlone /\ OwnerWrites /\ InACall

(* The count is zero exactly when nobody has a lock.                       *)
LEMMA CountZero ==
  ASSUME RWInv
  PROVE  /\ lock_count = 0 => \A f \in Fibers : locks[f].read = 0 /\ locks[f].write = 0
         /\ \A f \in Fibers : Nested(f) > 0 => lock_count > 0
<1>1. lock_count = 0 <=> Units = {}
  BY FS_EmptySet DEF RWInv, CountIsUnits
<1>2. ASSUME NEW f \in Fibers, Nested(f) > 0 PROVE Units # {}
  <2>1. <<f, 1>> \in Units
    BY <1>2 DEF Units, RWInv, RWTypes, Nested
  <2> QED BY <2>1
<1>3. \A f \in Fibers : /\ locks[f].read \in Nat /\ locks[f].write \in Nat
  BY DEF RWInv, RWTypes
<1>4. ASSUME lock_count = 0, NEW f \in Fibers
      PROVE  locks[f].read = 0 /\ locks[f].write = 0
  <2>1. ~(Nested(f) > 0)
    BY <1>1, <1>2, <1>4
  <2> QED BY <2>1, <1>3 DEF Nested
<1>5. lock_count \in Nat
  BY DEF RWInv, RWTypes
<1> QED BY <1>1, <1>2, <1>4, <1>5

(* One fiber's locks alone are counted by their number.                    *)
LEMMA UnitsOfOne ==
  ASSUME NEW f, NEW n \in Nat
  PROVE  Cardinality({u \in {f} \X Nat : 1 <= u[2] /\ u[2] <= n}) = n
<1> DEFINE U == {u \in {f} \X Nat : 1 <= u[2] /\ u[2] <= n}
           b == [i \in 1..n |-> <<f, i>>]
<1>1. b \in [1..n -> U]
  OBVIOUS
<1>2. \A i, j \in 1..n : b[i] = b[j] => i = j
  OBVIOUS
<1>3. \A u \in U : \E i \in 1..n : b[i] = u
  <2> SUFFICES ASSUME NEW u \in U PROVE \E i \in 1..n : b[i] = u
    OBVIOUS
  <2>1. u[2] \in 1..n /\ u = <<f, u[2]>>
    OBVIOUS
  <2> QED BY <2>1
<1> HIDE DEF b, U
<1>4. ExistsBijection(1..n, U)
  BY <1>1, <1>2, <1>3 DEF ExistsBijection, Bijection, Injection, Surjection, IsInjective
<1> QED BY <1>4, FS_CountingElements DEF U

(* A lock nobody has.                                                      *)
LEMMA RWInitInv == RWInit => RWInv
<1> SUFFICES ASSUME RWInit PROVE RWInv
  OBVIOUS
<1>1. RWTypes
  BY DEF RWInit, RWTypes
<1>2. Units = {}
  BY DEF RWInit, Units, Nested
<1> QED BY <1>1, <1>2, FS_EmptySet, MonitorAssumption
        DEF RWInit, RWInv, CountIsUnits, WriterAlone, OwnerWrites, InACall, Nested

(* A step that leaves the lock alone and moves one fiber's call.           *)
LEMMA RWMoves ==
  ASSUME RWInv, NEW f \in Fibers, NEW l \in {"out", "entering", "waiting", "leaving", "timedout"},
         NEW o \in Ops \cup {"none"},
         rpc' = [rpc EXCEPT ![f] = l], op' = [op EXCEPT ![f] = o],
         l # "out" => o # "none",
         l = "entering" /\ o = "unlock" => Nested(f) > 0,
         UNCHANGED <<lock_count, is_read, wowner, locks>>
  PROVE  RWInv'
<1>1. RWTypes'
  BY DEF RWInv, RWTypes
<1>2. Units' = Units
  BY DEF Units, Nested
<1>3. (WriterAlone /\ OwnerWrites /\ CountIsUnits)'
  BY <1>2 DEF RWInv, WriterAlone, OwnerWrites, CountIsUnits
<1>4. InACall'
  BY DEF RWInv, RWTypes, InACall, Nested
<1> QED BY <1>1, <1>3, <1>4 DEF RWInv

(* The lock is taken: one more unit.                                       *)
LEMMA RWAcquireInv ==
  ASSUME RWInv, NEW f \in Fibers, RWAcquire(f) PROVE RWInv'
<1>1. /\ lock_count' = lock_count + 1 /\ is_read' = (op[f] \in Reads)
      /\ wowner' = IF op[f] \in Writes THEN f ELSE wowner
      /\ \A g \in Fibers \ {f} : locks'[g] = locks[g]
      /\ locks'[f].read = IF op[f] \in Reads THEN locks[f].read + 1 ELSE locks[f].read
      /\ locks'[f].write = IF op[f] \in Reads THEN locks[f].write ELSE locks[f].write + 1
      /\ locks' \in [Fibers -> [read : Nat, write : Nat]]
      /\ rpc' = [rpc EXCEPT ![f] = "out"] /\ op' = [op EXCEPT ![f] = "none"]
  BY DEF RWAcquire, Return, At, RWInv, RWTypes
<1>2. op[f] \in Writes <=> op[f] \notin Reads
  BY DEF RWAcquire, Inside, RWInv, RWTypes, InACall, Ops, Reads, Writes
<1>3. \A g \in Fibers : locks[g].read \in Nat /\ locks[g].write \in Nat
  BY DEF RWInv, RWTypes
<1>4. RWTypes'
  BY <1>1 DEF RWInv, RWTypes
<1>5. CountIsUnits'
  <2>1. Nested(f)' = Nested(f) + 1 /\ \A g \in Fibers \ {f} : Nested(g)' = Nested(g)
    BY <1>1, <1>3 DEF Nested
  <2>2. \A g \in Fibers : Nested(g) \in Nat
    BY <1>3 DEF Nested
  <2>3. Units' = Units \cup {<<f, Nested(f) + 1>>}
    <3>1. \A g \in Fibers, i \in Nat : <<g, i>> \in Units <=> 1 <= i /\ i <= Nested(g)
      BY DEF Units
    <3>2. \A g \in Fibers, i \in Nat : <<g, i>> \in Units' <=> 1 <= i /\ i <= Nested(g)'
      BY DEF Units, Nested
    <3>3. \A g \in Fibers, i \in Nat :
            <<g, i>> \in Units' <=> <<g, i>> \in Units \/ (g = f /\ i = Nested(f) + 1)
      <4> SUFFICES ASSUME NEW g \in Fibers, NEW i \in Nat
                   PROVE  <<g, i>> \in Units' <=>
                            <<g, i>> \in Units \/ (g = f /\ i = Nested(f) + 1)
        OBVIOUS
      <4>1. CASE g = f
        <5>1. 1 <= i /\ i <= Nested(f) + 1 <=> (1 <= i /\ i <= Nested(f)) \/ i = Nested(f) + 1
          BY <2>2
        <5> QED BY <2>1, <3>1, <3>2, <4>1, <5>1
      <4>2. CASE g # f
        BY <2>1, <3>1, <3>2, <4>2
      <4> QED BY <4>1, <4>2
    <3>4. Units \subseteq Fibers \X Nat /\ Units' \subseteq Fibers \X Nat
      BY DEF Units
    <3> QED BY <2>2, <3>3, <3>4
  <2>4. <<f, Nested(f) + 1>> \notin Units
    BY <2>2 DEF Units
  <2>5. /\ IsFiniteSet(Units \cup {<<f, Nested(f) + 1>>})
        /\ Cardinality(Units \cup {<<f, Nested(f) + 1>>}) = Cardinality(Units) + 1
    BY <2>4, FS_AddElement DEF RWInv, CountIsUnits
  <2> QED BY <1>1, <2>3, <2>5 DEF RWInv, CountIsUnits
<1>6. CASE op[f] \in Reads
  <2>1. \A g \in Fibers : locks[g].write = 0
    BY <1>3, <1>6, CountZero DEF RWAcquire, May, MayRead, RWInv, WriterAlone
  <2>2. \A g \in Fibers : locks'[g].write = 0
    BY <1>1, <1>6, <2>1
  <2>3. wowner' = NULL
    BY <1>1, <1>2, <1>6, <2>1 DEF RWInv, OwnerWrites, RWTypes
  <2> QED BY <1>1, <1>4, <1>5, <2>2, <2>3
          DEF RWInv, WriterAlone, OwnerWrites, InACall, Nested, RWTypes
<1>7. CASE op[f] \in Writes
  <2>1. \A g \in Fibers \ {f} : locks[g].read = 0 /\ locks[g].write = 0
    BY <1>2, <1>7, CountZero, MonitorAssumption
       DEF RWAcquire, May, MayWrite, RWInv, WriterAlone, OwnerWrites, RWTypes
  <2>2. locks[f].read = 0
    BY <1>2, <1>7, CountZero, MonitorAssumption
       DEF RWAcquire, May, MayWrite, RWInv, WriterAlone, OwnerWrites, RWTypes
  <2>3. /\ locks'[f].write > 0 /\ locks'[f].read = 0
        /\ \A g \in Fibers \ {f} : locks'[g].read = 0 /\ locks'[g].write = 0
        /\ wowner' = f
    BY <1>1, <1>2, <1>3, <1>7, <2>1, <2>2
  <2>4. ~is_read'
    BY <1>1, <1>2, <1>7, Zenon
  <2>5. (WriterAlone /\ OwnerWrites)'
    BY <2>3, <2>4 DEF WriterAlone, OwnerWrites
  <2>6. InACall'
    BY <1>1 DEF RWInv, InACall, Nested, RWTypes
  <2> QED BY <1>4, <1>5, <2>5, <2>6 DEF RWInv
<1> QED BY <1>2, <1>6, <1>7

(* A unit is given back.                                                   *)
LEMMA RWUnlockInv ==
  ASSUME RWInv, NEW f \in Fibers, RWUnlock(f) PROVE RWInv'
<1>1. \A g \in Fibers : locks[g].read \in Nat /\ locks[g].write \in Nat
  BY DEF RWInv, RWTypes
<1>2. Nested(f) > 0
  BY DEF RWUnlock, RWInv, InACall
<1>3. /\ lock_count' = lock_count - 1 /\ is_read' = is_read
      /\ wowner' = IF lock_count - 1 = 0 THEN NULL ELSE wowner
      /\ \A g \in Fibers \ {f} : locks'[g] = locks[g]
      /\ locks'[f].read = IF locks[f].write > 0 THEN locks[f].read ELSE locks[f].read - 1
      /\ locks'[f].write = IF locks[f].write > 0 THEN locks[f].write - 1 ELSE locks[f].write
      /\ rpc' = [rpc EXCEPT ![f] = "leaving"] /\ op' = op
      /\ op[f] # "none"
  BY DEF RWUnlock, At, RWInv, RWTypes
<1>4. locks' \in [Fibers -> [read : Nat, write : Nat]]
  BY <1>1, <1>2 DEF RWUnlock, RWInv, RWTypes, Nested
<1>5. lock_count > 0
  BY <1>2, CountZero
<1>6. RWTypes'
  <2>1. lock_count' \in Nat /\ wowner' \in Fibers \cup {NULL}
    BY <1>3, <1>5 DEF RWInv, RWTypes
  <2>2. is_read' \in BOOLEAN /\ op' \in [Fibers -> Ops \cup {"none"}]
    BY <1>3 DEF RWInv, RWTypes
  <2>3. rpc' \in [Fibers -> {"out", "entering", "waiting", "leaving", "timedout"}]
    BY <1>3 DEF RWInv, RWTypes
  <2> QED BY <1>4, <2>1, <2>2, <2>3 DEF RWTypes
<1>7. Nested(f)' = Nested(f) - 1 /\ \A g \in Fibers \ {f} : Nested(g)' = Nested(g)
  BY <1>1, <1>3 DEF Nested
<1>8. CountIsUnits'
  <2>1. \A g \in Fibers : Nested(g) \in Nat
    BY <1>1 DEF Nested
  <2>2. Units' = Units \ {<<f, Nested(f)>>}
    <3>1. \A g \in Fibers, i \in Nat : <<g, i>> \in Units <=> 1 <= i /\ i <= Nested(g)
      BY DEF Units
    <3>2. \A g \in Fibers, i \in Nat : <<g, i>> \in Units' <=> 1 <= i /\ i <= Nested(g)'
      BY DEF Units, Nested
    <3>3. \A g \in Fibers, i \in Nat :
            <<g, i>> \in Units' <=> <<g, i>> \in Units /\ ~(g = f /\ i = Nested(f))
      <4> SUFFICES ASSUME NEW g \in Fibers, NEW i \in Nat
                   PROVE  <<g, i>> \in Units' <=>
                            <<g, i>> \in Units /\ ~(g = f /\ i = Nested(f))
        OBVIOUS
      <4>1. CASE g = f
        <5>1. 1 <= i /\ i <= Nested(f) - 1 <=> (1 <= i /\ i <= Nested(f)) /\ i # Nested(f)
          BY <2>1
        <5> QED BY <1>7, <3>1, <3>2, <4>1, <5>1
      <4>2. CASE g # f
        BY <1>7, <3>1, <3>2, <4>2
      <4> QED BY <4>1, <4>2
    <3>4. Units \subseteq Fibers \X Nat /\ Units' \subseteq Fibers \X Nat
      BY DEF Units
    <3> QED BY <2>1, <3>3, <3>4
  <2>3. <<f, Nested(f)>> \in Units
    BY <1>2, <2>1 DEF Units
  <2>4. /\ IsFiniteSet(Units \ {<<f, Nested(f)>>})
        /\ Cardinality(Units \ {<<f, Nested(f)>>}) = Cardinality(Units) - 1
    BY <2>3, FS_RemoveElement DEF RWInv, CountIsUnits
  <2> QED BY <1>3, <2>2, <2>4 DEF RWInv, CountIsUnits
<1>9. WriterAlone'
  <2>1. \A g \in Fibers : locks'[g].write > 0 => locks[g].write > 0
    BY <1>1, <1>3
  <2>2. ASSUME NEW g \in Fibers, locks'[g].write > 0
        PROVE  /\ wowner' = g /\ ~is_read' /\ locks'[g].read = 0
               /\ \A h \in Fibers \ {g} : locks'[h].read = 0 /\ locks'[h].write = 0
    <3>1. /\ wowner = g /\ ~is_read /\ locks[g].read = 0
          /\ \A h \in Fibers \ {g} : locks[h].read = 0 /\ locks[h].write = 0
      BY <2>1, <2>2 DEF RWInv, WriterAlone
    <3>2. f = g
      BY <1>1, <1>2, <3>1 DEF Nested
    <3>3. lock_count' # 0
      <4>1. Units' # {}
        <5>1. <<f, 1>> \in Units'
          BY <1>4, <2>2, <3>2 DEF Units, Nested
        <5> QED BY <5>1
      <4> QED BY <1>8, <4>1, FS_EmptySet DEF CountIsUnits
    <3> QED BY <1>3, <2>1, <2>2, <3>1, <3>2, <3>3
  <2> QED BY <2>2 DEF WriterAlone
<1>10. OwnerWrites'
  <2> SUFFICES ASSUME wowner' # NULL PROVE locks'[wowner'].write > 0
    BY DEF OwnerWrites
  <2>1. wowner' = wowner /\ lock_count' # 0 /\ wowner \in Fibers
    BY <1>3 DEF RWInv, RWTypes
  <2>2. locks[wowner].write > 0
    BY <2>1 DEF RWInv, OwnerWrites
  <2>3. f = wowner
    BY <1>1, <1>2, <2>1, <2>2 DEF RWInv, WriterAlone, Nested
  <2>4. /\ locks[f].read = 0
        /\ \A g \in Fibers \ {f} : locks[g].read = 0 /\ locks[g].write = 0
    BY <2>2, <2>3 DEF RWInv, WriterAlone
  <2>5. Units' # {}
    BY <1>8, <2>1, FS_EmptySet DEF CountIsUnits
  <2>6. PICK g \in Fibers, i \in Nat : 1 <= i /\ i <= locks'[g].read + locks'[g].write
    BY <2>5 DEF Units, Nested
  <2>7. g = f
    BY <1>3, <2>4, <2>6
  <2> QED BY <1>1, <1>3, <2>1, <2>2, <2>3, <2>4, <2>6, <2>7
<1>11. InACall'
  BY <1>3, <1>7 DEF RWInv, RWTypes, InACall
<1> QED BY <1>6, <1>8, <1>9, <1>10, <1>11 DEF RWInv

(* Every step of the read-write lock keeps the invariant.                  *)
LEMMA RWNextInv == RWInv /\ [RWNext]_<<mvars, rwVars>> => RWInv'
<1> SUFFICES ASSUME RWInv, [RWNext]_<<mvars, rwVars>> PROVE RWInv'
  OBVIOUS
<1> USE DEF At, Return, lockVars
<1>1. CASE UNCHANGED rwVars
  <2>1. Units' = Units
    BY <1>1 DEF rwVars, Units, Nested
  <2> QED BY <1>1, <2>1
          DEF rwVars, RWInv, RWTypes, CountIsUnits, WriterAlone, OwnerWrites, InACall, Nested
<1>2. ASSUME NEW f \in Fibers, NEW o \in Ops, RWCall(f, o) PROVE RWInv'
  <2>1. o \in Ops /\ o # "none"
    BY RWAssumption DEF Ops
  <2> QED BY <1>2, <2>1, RWMoves DEF RWCall, Nested
<1>3. ASSUME NEW f \in Fibers, RWWait(f) PROVE RWInv'
  <2>1. op' = [op EXCEPT ![f] = op[f]] /\ op[f] \in Ops \cup {"none"} /\ op[f] # "none"
    BY <1>3 DEF RWWait, Timed, RWInv, RWTypes
  <2> QED BY <1>3, <2>1, RWMoves DEF RWWait
<1>4. ASSUME NEW f \in Fibers, RWExpire(f) PROVE RWInv'
  <2>1. op' = [op EXCEPT ![f] = op[f]] /\ op[f] \in Ops \cup {"none"} /\ op[f] # "none"
    BY <1>4 DEF RWExpire, Timed, RWInv, RWTypes
  <2> QED BY <1>4, <2>1, RWMoves DEF RWExpire
<1>5. ASSUME NEW f \in Fibers, RWFail(f) \/ RWLeave(f) \/ RWGiveUp(f) PROVE RWInv'
  BY <1>5, RWMoves DEF RWFail, RWLeave, RWGiveUp
<1> QED BY <1>1, <1>2, <1>3, <1>4, <1>5, RWAcquireInv, RWUnlockInv
        DEF RWNext, RWGoesOn, rwVars

(* Readers keep writers out and a writer everyone else, however many       *)
(* fibers there are, however deep they nest, and whatever calls time out   *)
(* or fail: melon_rwlock_unlock clears wowner exactly when the last of the *)
(* owner's locks goes.                                                     *)
THEOREM RWLockExcludes == RWSpec => []RWExclusion
<1>1. RWInit => RWInv
  BY RWInitInv
<1>2. RWInv => RWExclusion
  <2> SUFFICES ASSUME RWInv, NEW f \in Fibers, NEW g \in Fibers, locks[f].write > 0
               PROVE  /\ lock_count = locks[f].write /\ wowner = f
                      /\ g # f => locks[g].write = 0 /\ locks[g].read = 0
    BY DEF RWExclusion
  <2>1. /\ wowner = f /\ locks[f].read = 0 /\ locks[f].write \in Nat
        /\ \A h \in Fibers \ {f} : locks[h].read = 0 /\ locks[h].write = 0
    BY DEF RWInv, RWTypes, WriterAlone
  <2>2. Units = {u \in {f} \X Nat : 1 <= u[2] /\ u[2] <= locks[f].write}
    <3>1. Nested(f) = locks[f].write /\ \A h \in Fibers \ {f} : Nested(h) = 0
      BY <2>1 DEF Nested
    <3> QED BY <3>1 DEF Units
  <2> QED BY <2>1, <2>2, UnitsOfOne DEF RWInv, CountIsUnits
<1> QED BY <1>1, <1>2, RWNextInv, PTL DEF RWSpec

(* The conditions of the read-write lock have their lists.                 *)
WaitersListed == waiters = [c \in Conds |-> waiters[c]]
AwakeInv == RWInv /\ WaitersListed /\ NoWriterAsleep

(* No step puts a writer to sleep on a lock that is free, or frees the     *)
(* lock under one that sleeps.                                             *)
LEMMA AwakeNext == AwakeInv /\ [RWNext]_<<mvars, rwVars>> => AwakeInv'
<1> SUFFICES ASSUME AwakeInv, [RWNext]_<<mvars, rwVars>> PROVE AwakeInv'
  OBVIOUS
<1>1. RWInv' /\ "wcond" \in Conds /\ lock_count \in Nat
  BY RWNextInv, RWAssumption DEF AwakeInv, RWInv, RWTypes
<1>2. WaitersListed /\ NoWriterAsleep
  BY DEF AwakeInv
<1>3. SUFFICES WaitersListed' /\ NoWriterAsleep'
  BY <1>1 DEF AwakeInv
<1>4. CASE waiters' = waiters /\ lock_count' = lock_count
  BY <1>2, <1>4 DEF WaitersListed, NoWriterAsleep
<1>5. ASSUME NEW f \in Fibers, RWAcquire(f) PROVE WaitersListed' /\ NoWriterAsleep'
  BY <1>1, <1>2, <1>5 DEF RWAcquire, Release, WaitersListed, NoWriterAsleep
<1>6. ASSUME NEW f \in Fibers, RWWait(f) PROVE WaitersListed' /\ NoWriterAsleep'
  <2>1. /\ waiters' = [waiters EXCEPT ![RWCond(f)] = DlistPush(@, f)]
        /\ lock_count' = lock_count
    BY <1>6 DEF RWWait, Wait, lockVars
  <2>2. lock_count = 0 => RWCond(f) = "rcond"
    BY <1>6 DEF RWWait, May, MayWrite, RWCond
  <2> QED BY <1>1, <1>2, <2>1, <2>2 DEF WaitersListed, NoWriterAsleep
<1>7. ASSUME NEW f \in Fibers, RWExpire(f) PROVE WaitersListed' /\ NoWriterAsleep'
  <2>1. /\ waiters' = [waiters EXCEPT ![RWCond(f)] = DlistUnlink(@, f)]
        /\ lock_count' = lock_count /\ f \in Elems(waiters[RWCond(f)])
    BY <1>7 DEF RWExpire, Expire, lockVars
  <2>2. lock_count = 0 => RWCond(f) # "wcond"
    BY <1>2, <2>1 DEF NoWriterAsleep, Elems
  <2> QED BY <1>1, <1>2, <2>1, <2>2 DEF WaitersListed, NoWriterAsleep
<1>8. ASSUME NEW f \in Fibers, RWUnlock(f) PROVE WaitersListed' /\ NoWriterAsleep'
  <2>1. CASE lock_count' = 0
    <3>1. waiters' = [waiters EXCEPT !["wcond"] = << >>]
      BY <1>8, <2>1 DEF RWUnlock, UnlockSignal, Signal
    <3> QED BY <1>1, <1>2, <3>1 DEF WaitersListed, NoWriterAsleep
  <2>2. CASE lock_count' # 0
    BY <1>2, <1>8, <2>2 DEF RWUnlock, mvars, WaitersListed, NoWriterAsleep
  <2> QED BY <2>1, <2>2
<1>9. ASSUME NEW f \in Fibers, NEW o \in Ops, RWCall(f, o)
      PROVE  waiters' = waiters /\ lock_count' = lock_count
  BY <1>9 DEF RWCall, Lock, lockVars
<1>10. ASSUME NEW f \in Fibers, RWFail(f) \/ RWLeave(f) \/ RWGiveUp(f)
       PROVE  waiters' = waiters /\ lock_count' = lock_count
  BY <1>10 DEF RWFail, RWLeave, RWGiveUp, Release, GiveUp, mvars, lockVars
<1>11. MonitorStep /\ UNCHANGED rwVars => waiters' = waiters /\ lock_count' = lock_count
  BY DEF MonitorStep, Grant, Wake, rwVars
<1>12. UNCHANGED <<mvars, rwVars>> => waiters' = waiters /\ lock_count' = lock_count
  BY DEF mvars, rwVars
<1> QED BY <1>4, <1>5, <1>6, <1>7, <1>8, <1>9, <1>10, <1>11, <1>12 DEF RWNext, RWGoesOn

(* However many writers wait, nest, time out or fail, none is asleep on    *)
(* wcond while the lock is free: what rwlock.c's loops need in order that  *)
(* the one signal of melon_rwlock_unlock is enough.                        *)
THEOREM WritersAwake == RWSpec => []NoWriterAsleep
<1>1. MonitorInit /\ RWInit => AwakeInv
  BY RWInitInv, RWAssumption DEF MonitorInit, RWInit, AwakeInv, WaitersListed, NoWriterAsleep
<1>2. AwakeInv => NoWriterAsleep
  BY DEF AwakeInv
<1> QED BY <1>1, <1>2, AwakeNext, PTL DEF RWSpec

----------------------------------------------------------------------------
(* The monitor, as far as the objects with one condition use it: a fiber   *)
(* has the lock, or waits on one list, or has nothing to do with it.       *)

Queued == Elems(queue)
Waiting == Elems(waiters["cond"])
Woken == Elems(waking)

MonitorTypes ==
  /\ holder \in Fibers \cup {NULL} /\ queue \in Seq(Fibers)
  /\ waiters \in [Conds -> Seq(Fibers)] /\ waking \in Seq(Fibers)
  /\ "cond" \in Conds

OnePlace ==
  /\ NoDup(queue) /\ NoDup(waiters["cond"]) /\ NoDup(waking)
  /\ Queued \cap Waiting = {} /\ Queued \cap Woken = {} /\ Waiting \cap Woken = {}
  /\ holder \notin Queued \cup Waiting \cup Woken

MonitorInv == MonitorTypes /\ OnePlace

(* The fiber has nothing to do with the monitor; it has its lock or will;  *)
(* it is somewhere.                                                        *)
Away(f) == holder # f /\ f \notin Queued \cup Waiting \cup Woken
Locks(f) == holder = f \/ f \in Queued
InMonitor(f) == Locks(f) \/ f \in Waiting \cup Woken

(* A fiber that asks for the lock gets it, when it is free and nobody is   *)
(* queued, or becomes the last of the queue.                               *)
Asks(f) ==
  \/ holder = NULL /\ queue = << >> /\ holder' = f /\ queue' = queue /\ Queued' = Queued
  \/ holder' = holder /\ queue' = Append(queue, f) /\ Queued' = Queued \cup {f}

(* Such a fiber is then linked once.                                       *)
LEMMA RelockAsks ==
  ASSUME MonitorTypes, NoDup(queue), NEW f \in Fibers, f \notin Queued, Relock(f)
  PROVE  /\ Asks(f) /\ holder' \in Fibers \cup {NULL}
         /\ queue' \in Seq(Fibers) /\ NoDup(queue)'
<1>1. CASE Gets(f)
  BY <1>1 DEF Gets, Asks, Queued, MonitorTypes
<1>2. CASE Queues(f)
  <2>1. /\ DlistPush(queue, f) \in Seq(Fibers) /\ NoDup(DlistPush(queue, f))
        /\ Elems(DlistPush(queue, f)) = Elems(queue) \cup {f}
        /\ DlistPush(queue, f) = Append(queue, f)
    BY PushElems DEF MonitorTypes, Queued, DlistPush
  <2>2. queue' = DlistPush(queue, f) /\ holder' = holder
    BY <1>2 DEF Queues
  <2> QED BY <2>1, <2>2 DEF Asks, Queued, MonitorTypes
<1> QED BY <1>1, <1>2 DEF Relock

(* melon_mutex_lock by a fiber that has nothing to do with the monitor.    *)
LEMMA LockStep ==
  ASSUME MonitorInv, NEW f \in Fibers, Away(f), Lock(f)
  PROVE  MonitorInv' /\ Asks(f) /\ Waiting' = Waiting /\ Woken' = Woken
<1>1. waiters' = waiters /\ waking' = waking /\ Waiting' = Waiting /\ Woken' = Woken
  BY DEF Lock, Waiting, Woken
<1>2. /\ Asks(f) /\ holder' \in Fibers \cup {NULL}
      /\ queue' \in Seq(Fibers) /\ NoDup(queue)'
  BY RelockAsks DEF Lock, MonitorInv, OnePlace, Away
<1>3. MonitorTypes'
  BY <1>1, <1>2 DEF MonitorInv, MonitorTypes
<1>4. OnePlace'
  BY <1>1, <1>2 DEF MonitorInv, OnePlace, Away, Asks
<1> QED BY <1>1, <1>2, <1>3, <1>4 DEF MonitorInv

(* A deadline in the lock queue.                                           *)
LEMMA GiveUpStep ==
  ASSUME MonitorInv, NEW f \in Fibers, GiveUp(f)
  PROVE  /\ MonitorInv' /\ f \in Queued /\ Queued' = Queued \ {f}
         /\ holder' = holder /\ Waiting' = Waiting /\ Woken' = Woken
<1>1. /\ waiters' = waiters /\ waking' = waking /\ Waiting' = Waiting /\ Woken' = Woken
      /\ holder' = holder /\ f \in Queued
  BY DEF GiveUp, Waiting, Woken, Queued
<1>2. queue' \in Seq(Fibers) /\ NoDup(queue)' /\ Queued' = Queued \ {f}
  BY UnlinkElems DEF GiveUp, Queued, MonitorInv, MonitorTypes, OnePlace
<1> QED BY <1>1, <1>2 DEF MonitorInv, MonitorTypes, OnePlace

(* melon_mutex_unlock.                                                     *)
LEMMA ReleaseStep ==
  ASSUME MonitorInv, NEW f \in Fibers, Release(f)
  PROVE  /\ MonitorInv' /\ holder = f /\ holder' = NULL /\ queue' = queue
         /\ Queued' = Queued /\ Waiting' = Waiting /\ Woken' = Woken
<1>1. /\ waiters' = waiters /\ waking' = waking /\ Waiting' = Waiting /\ Woken' = Woken
      /\ holder = f /\ holder' = NULL /\ queue' = queue /\ Queued' = Queued
  BY DEF Release, Waiting, Woken, Queued
<1>2. NULL \notin Queued \cup Waiting \cup Woken
  BY EmptyElems, MonitorAssumption
     DEF MonitorInv, MonitorTypes, Queued, Waiting, Woken
<1> QED BY <1>1, <1>2 DEF MonitorInv, MonitorTypes, OnePlace

(* The head of the queue gets the lock.                                    *)
LEMMA GrantStep ==
  ASSUME MonitorInv, NEW f \in Fibers, Grant(f)
  PROVE  /\ MonitorInv' /\ f \in Queued /\ Queued' = Queued \ {f}
         /\ holder = NULL /\ holder' = f /\ Waiting' = Waiting /\ Woken' = Woken
         /\ queue # << >> /\ f = Head(queue) /\ queue' = Tail(queue)
<1>1. /\ waiters' = waiters /\ waking' = waking /\ Waiting' = Waiting /\ Woken' = Woken
      /\ holder = NULL /\ holder' = f /\ queue # << >> /\ f = Head(queue) /\ queue' = Tail(queue)
  BY DEF Grant, Waiting, Woken
<1>2. f \in Queued /\ queue' \in Seq(Fibers) /\ NoDup(queue)' /\ Queued' = Queued \ {f}
  BY <1>1, PopElems DEF Queued, MonitorInv, MonitorTypes, OnePlace
<1> QED BY <1>1, <1>2 DEF MonitorInv, MonitorTypes, OnePlace

(* melon_cond_wait.                                                        *)
LEMMA WaitStep ==
  ASSUME MonitorInv, NEW f \in Fibers, Wait(f, "cond")
  PROVE  /\ MonitorInv' /\ holder = f /\ holder' = NULL /\ queue' = queue
         /\ Queued' = Queued /\ Waiting' = Waiting \cup {f} /\ Woken' = Woken
<1>1. /\ waking' = waking /\ Woken' = Woken /\ holder = f /\ holder' = NULL
      /\ queue' = queue /\ Queued' = Queued
      /\ waiters["cond"]' = DlistPush(waiters["cond"], f)
  BY DEF Wait, Woken, Queued, MonitorInv, MonitorTypes
<1>2. /\ DlistPush(waiters["cond"], f) \in Seq(Fibers)
      /\ NoDup(waiters["cond"])' /\ Waiting' = Waiting \cup {f}
  BY <1>1, PushElems DEF Waiting, MonitorInv, MonitorTypes, OnePlace
<1>3. waiters' \in [Conds -> Seq(Fibers)]
  BY <1>2 DEF Wait, MonitorInv, MonitorTypes
<1>4. NULL \notin Queued \cup Waiting \cup Woken
  BY EmptyElems, MonitorAssumption
     DEF MonitorInv, MonitorTypes, Queued, Waiting, Woken
<1> QED BY <1>1, <1>2, <1>3, <1>4, MonitorAssumption DEF MonitorInv, MonitorTypes, OnePlace

(* A deadline in the wait.                                                 *)
LEMMA ExpireStep ==
  ASSUME MonitorInv, NEW f \in Fibers, Expire(f, "cond")
  PROVE  /\ MonitorInv' /\ f \in Waiting /\ Asks(f)
         /\ Waiting' = Waiting \ {f} /\ Woken' = Woken
<1>1. /\ waking' = waking /\ Woken' = Woken /\ Relock(f) /\ f \in Waiting
      /\ waiters["cond"]' = DlistUnlink(waiters["cond"], f)
  BY DEF Expire, Woken, Waiting, MonitorInv, MonitorTypes
<1>2. /\ DlistUnlink(waiters["cond"], f) \in Seq(Fibers)
      /\ NoDup(waiters["cond"])' /\ Waiting' = Waiting \ {f}
  BY <1>1, UnlinkElems DEF Waiting, MonitorInv, MonitorTypes, OnePlace
<1>3. waiters' \in [Conds -> Seq(Fibers)]
  BY <1>2 DEF Expire, MonitorInv, MonitorTypes
<1>4. /\ Asks(f) /\ holder' \in Fibers \cup {NULL}
      /\ queue' \in Seq(Fibers) /\ NoDup(queue)'
  BY <1>1, RelockAsks DEF MonitorInv, OnePlace
<1> QED BY <1>1, <1>2, <1>3, <1>4 DEF MonitorInv, MonitorTypes, OnePlace, Asks

(* melon_cond_broadcast.                                                   *)
LEMMA SignalStep ==
  ASSUME MonitorInv, Signal("cond", 0)
  PROVE  /\ MonitorInv' /\ Woken = {} /\ Woken' = Waiting /\ Waiting' = {}
         /\ holder' = holder /\ queue' = queue /\ Queued' = Queued
<1>1. /\ waking = << >> /\ waking' = waiters["cond"] /\ waiters["cond"]' = << >>
      /\ holder' = holder /\ queue' = queue /\ Queued' = Queued
  BY DEF Signal, Queued, MonitorInv, MonitorTypes
<1>2. waiters' \in [Conds -> Seq(Fibers)]
  BY EmptyElems DEF Signal, MonitorInv, MonitorTypes
<1>3. Woken = {} /\ Woken' = Waiting /\ Waiting' = {}
  BY <1>1, EmptyElems DEF Woken, Waiting, MonitorInv, MonitorTypes
<1>4. MonitorTypes'
  BY <1>1, <1>2 DEF MonitorInv, MonitorTypes
<1>5. OnePlace'
  BY <1>1, <1>3, EmptyElems DEF MonitorInv, OnePlace
<1> QED BY <1>1, <1>3, <1>4, <1>5 DEF MonitorInv

(* The next of the fibers signalled asks for the lock.                     *)
LEMMA WakeStep ==
  ASSUME MonitorInv, NEW f \in Fibers, Wake(f)
  PROVE  /\ MonitorInv' /\ f \in Woken /\ Asks(f)
         /\ Waiting' = Waiting /\ Woken' = Woken \ {f}
<1>1. /\ waiters' = waiters /\ Waiting' = Waiting /\ Relock(f)
      /\ waking # << >> /\ f = Head(waking) /\ waking' = Tail(waking)
  BY DEF Wake, Waiting
<1>2. f \in Woken /\ waking' \in Seq(Fibers) /\ NoDup(waking)' /\ Woken' = Woken \ {f}
  BY <1>1, PopElems DEF Woken, MonitorInv, MonitorTypes, OnePlace
<1>3. /\ Asks(f) /\ holder' \in Fibers \cup {NULL}
      /\ queue' \in Seq(Fibers) /\ NoDup(queue)'
  BY <1>1, <1>2, RelockAsks DEF MonitorInv, OnePlace
<1> QED BY <1>1, <1>2, <1>3 DEF MonitorInv, MonitorTypes, OnePlace, Asks

(* A monitor nobody uses.                                                  *)
LEMMA MonitorInitInv ==
  ASSUME "cond" \in Conds, MonitorInit
  PROVE  MonitorInv /\ Queued = {} /\ Waiting = {} /\ Woken = {}
<1>1. << >> \in Seq(Fibers) /\ Elems(<< >>) = {} /\ NoDup(<< >>)
  BY DEF Elems, NoDup
<1> QED BY <1>1
        DEF MonitorInit, MonitorInv, MonitorTypes, OnePlace, Queued, Waiting, Woken

----------------------------------------------------------------------------
(* Joinable fibers.                                                        *)

JoinTypes ==
  /\ join_is_finished \in BOOLEAN /\ join_is_detached \in BOOLEAN
  /\ tpc \in {"running", "finish", "told", "lingering", "freed"}
  /\ jpc \in {"idle", "join", "timedjoin", "detach", "tryjoin", "join_wait",
              "timed_wait", "timedout", "answered", "done"}

(* Only the two fibers use the monitor, and each is where its call is.     *)
TwoFibers ==
  /\ holder \in {Target, Joiner, NULL}
  /\ Queued \cup Waiting \cup Woken \subseteq {Target, Joiner}
TargetPlace ==
  /\ tpc \in {"running", "freed"} => Away(Target)
  /\ tpc = "finish" => Locks(Target)
  /\ tpc = "told" => holder = Target
  /\ tpc = "lingering" => InMonitor(Target)
JoinerPlace ==
  /\ jpc \in {"idle", "done"} => Away(Joiner)
  /\ jpc \in {"join", "timedjoin", "detach", "timedout"} => Locks(Joiner)
  /\ jpc \in {"tryjoin", "answered"} => holder = Joiner
  /\ jpc \in {"join_wait", "timed_wait"} => InMonitor(Joiner)

(* Who is being woken, and by whom.                                        *)
WakerHolds ==
  Woken # {} => (holder = Target /\ tpc = "told") \/ (holder = Joiner /\ jpc = "answered")

(* What each side knows of the other.                                      *)
FinishedIsSaid ==
  /\ join_is_finished <=> tpc \in {"told", "lingering", "freed"}
  /\ join_is_finished => Joiner \notin Waiting
  /\ jpc \in {"join_wait", "timed_wait"} /\ Joiner \notin Waiting => join_is_finished
  /\ jpc = "answered" => join_is_finished
  /\ jpc = "done" => join_is_finished \/ join_is_detached
JoinedIsSaid ==
  /\ join_is_detached => jpc = "done"
  /\ tpc = "lingering" /\ Target \notin Waiting => jpc \in {"answered", "done"}
  /\ tpc = "freed" => jpc = "done"

JoinInv ==
  /\ MonitorInv /\ JoinTypes /\ TwoFibers /\ TargetPlace /\ JoinerPlace
  /\ WakerHolds /\ FinishedIsSaid /\ JoinedIsSaid

(* Before anything happened.                                               *)
LEMMA JoinInitInv == MonitorInit /\ JoinInit => JoinInv
<1> SUFFICES ASSUME MonitorInit, JoinInit PROVE JoinInv
  OBVIOUS
<1>1. MonitorInv /\ Queued = {} /\ Waiting = {} /\ Woken = {} /\ holder = NULL
  BY MonitorInitInv, JoinAssumption DEF MonitorInit
<1>2. JoinTypes /\ TwoFibers /\ WakerHolds /\ FinishedIsSaid /\ JoinedIsSaid
  BY <1>1 DEF JoinInit, JoinTypes, TwoFibers, WakerHolds, FinishedIsSaid, JoinedIsSaid
<1>3. TargetPlace /\ JoinerPlace
  BY <1>1, JoinAssumption, MonitorAssumption
     DEF JoinInit, TargetPlace, JoinerPlace, Away, Locks, InMonitor
<1> QED BY <1>1, <1>2, <1>3 DEF JoinInv

(* What the library does by itself.                                        *)
LEMMA JoinMonitorInv ==
  ASSUME JoinInv, MonitorStep, UNCHANGED joinVars PROVE JoinInv'
<1>1. PICK f \in Fibers : Grant(f) \/ Wake(f)
  BY DEF MonitorStep
<1>2. /\ MonitorInv /\ TwoFibers /\ JoinAssumption
      /\ Queued \cap Waiting = {} /\ Queued \cap Woken = {} /\ Waiting \cap Woken = {}
      /\ holder \notin Queued \cup Waiting \cup Woken
  BY JoinAssumption DEF JoinInv, MonitorInv, OnePlace
<1>3. /\ tpc' = tpc /\ jpc' = jpc /\ join_is_finished' = join_is_finished
      /\ join_is_detached' = join_is_detached
  BY DEF joinVars
<1> USE JoinAssumption, MonitorAssumption
        DEF JoinInv, TwoFibers, TargetPlace, JoinerPlace, WakerHolds, FinishedIsSaid,
            JoinedIsSaid, JoinTypes, Away, Locks, InMonitor
<1>4. CASE Grant(f)
  <2>1. /\ MonitorInv' /\ f \in Queued /\ Queued' = Queued \ {f}
        /\ holder = NULL /\ holder' = f /\ Waiting' = Waiting /\ Woken' = Woken
    BY <1>2, <1>4, GrantStep
  <2> QED BY <1>2, <1>3, <2>1
<1>5. CASE Wake(f)
  <2>1. /\ MonitorInv' /\ f \in Woken /\ Asks(f)
        /\ Waiting' = Waiting /\ Woken' = Woken \ {f}
    BY <1>2, <1>5, WakeStep
  <2>2. holder # NULL /\ holder' = holder /\ Queued' = Queued \cup {f}
    BY <2>1 DEF Asks
  <2> QED BY <1>2, <1>3, <2>1, <2>2
<1> QED BY <1>1, <1>4, <1>5

(* What the target does at its end.                                        *)
LEMMA TargetInv ==
  ASSUME JoinInv, TargetGoesOn PROVE JoinInv'
<1>1. /\ MonitorInv /\ Target \in Fibers
      /\ Queued \cap Waiting = {} /\ Queued \cap Woken = {} /\ Waiting \cap Woken = {}
      /\ holder \notin Queued \cup Waiting \cup Woken
  BY JoinAssumption DEF JoinInv, MonitorInv, OnePlace
<1>2. waking = << >> <=> Woken = {}
  BY EmptyElems DEF JoinInv, MonitorInv, MonitorTypes, Woken
<1> USE JoinAssumption, MonitorAssumption
        DEF JoinInv, TwoFibers, TargetPlace, JoinerPlace, WakerHolds, FinishedIsSaid,
            JoinedIsSaid, JoinTypes, Away, Locks, InMonitor, TargetStep
<1>3. CASE FinishLock
  <2>1. Away(Target) /\ Lock(Target)
    BY <1>3 DEF FinishLock
  <2>2. MonitorInv' /\ Asks(Target) /\ Waiting' = Waiting /\ Woken' = Woken
    BY <1>1, <2>1, LockStep
  <2>3. \/ holder = NULL /\ holder' = Target /\ Queued' = Queued
        \/ holder' = holder /\ Queued' = Queued \cup {Target}
    BY <2>2 DEF Asks
  <2> QED BY <1>1, <1>3, <2>2, <2>3 DEF FinishLock
<1>4. CASE FinishBroadcast
  <2>1. /\ MonitorInv' /\ Woken = {} /\ Woken' = Waiting /\ Waiting' = {}
        /\ holder' = holder /\ Queued' = Queued
    BY <1>1, <1>4, SignalStep DEF FinishBroadcast
  <2> QED BY <1>1, <1>4, <2>1 DEF FinishBroadcast
<1>5. CASE join_is_detached /\ FinishWait
  <2>1. /\ MonitorInv' /\ holder = Target /\ holder' = NULL
        /\ Queued' = Queued /\ Waiting' = Waiting /\ Woken' = Woken
    BY <1>1, <1>5, ReleaseStep DEF FinishWait
  <2> QED BY <1>1, <1>2, <1>5, <2>1 DEF FinishWait
<1>6. CASE ~join_is_detached /\ FinishWait
  <2>1. /\ MonitorInv' /\ holder = Target /\ holder' = NULL
        /\ Queued' = Queued /\ Waiting' = Waiting \cup {Target} /\ Woken' = Woken
    BY <1>1, <1>6, WaitStep DEF FinishWait
  <2> QED BY <1>1, <1>2, <1>6, <2>1 DEF FinishWait
<1>7. CASE FinishFree
  <2>1. /\ MonitorInv' /\ holder = Target /\ holder' = NULL
        /\ Queued' = Queued /\ Waiting' = Waiting /\ Woken' = Woken
    BY <1>1, <1>7, ReleaseStep DEF FinishFree
  <2> QED BY <1>1, <1>7, <2>1 DEF FinishFree
<1> QED BY <1>3, <1>4, <1>5, <1>6, <1>7 DEF TargetGoesOn

(* What the joiner's calls do.                                             *)
LEMMA JoinerInv ==
  ASSUME JoinInv, JoinCall \/ JoinerGoesOn \/ TimedJoinExpires PROVE JoinInv'
<1>1. /\ MonitorInv /\ Joiner \in Fibers
      /\ Queued \cap Waiting = {} /\ Queued \cap Woken = {} /\ Waiting \cap Woken = {}
      /\ holder \notin Queued \cup Waiting \cup Woken
  BY JoinAssumption DEF JoinInv, MonitorInv, OnePlace
<1>2. waking = << >> <=> Woken = {}
  BY EmptyElems DEF JoinInv, MonitorInv, MonitorTypes, Woken
<1> USE JoinAssumption, MonitorAssumption
        DEF JoinInv, TwoFibers, TargetPlace, JoinerPlace, WakerHolds, FinishedIsSaid,
            JoinedIsSaid, JoinTypes, Away, Locks, InMonitor, JoinerStep, JoinerOnly
<1>3. CASE JoinCall
  <2>1. jpc = "idle" /\ Lock(Joiner) /\ (jpc' = "tryjoin" => Gets(Joiner))
    BY <1>3 DEF JoinCall, TryLock, Lock, Relock
  <2>2. MonitorInv' /\ Asks(Joiner) /\ Waiting' = Waiting /\ Woken' = Woken
    BY <1>1, <2>1, LockStep
  <2>3. \/ holder = NULL /\ holder' = Joiner /\ Queued' = Queued
        \/ holder' = holder /\ Queued' = Queued \cup {Joiner}
    BY <2>2 DEF Asks
  <2>4. jpc' = "tryjoin" => holder' = Joiner
    BY <2>1 DEF Gets
  <2>5. /\ jpc' \in {"join", "timedjoin", "detach", "tryjoin"}
        /\ UNCHANGED <<join_is_finished, join_is_detached, tpc>>
    BY <1>3 DEF JoinCall
  <2> QED BY <1>1, <2>1, <2>2, <2>3, <2>4, <2>5
<1>4. CASE Answer \/ TimedWaited
  <2>1. /\ MonitorInv' /\ Woken = {} /\ Woken' = Waiting /\ Waiting' = {}
        /\ holder' = holder /\ Queued' = Queued /\ holder = Joiner
    BY <1>1, <1>4, SignalStep DEF Answer, TimedWaited
  <2>2. /\ jpc \notin {"idle", "done"} /\ jpc' = "answered" /\ join_is_finished
        /\ UNCHANGED <<join_is_finished, join_is_detached, tpc>>
    BY <1>1, <1>4 DEF Answer, TimedWaited
  <2> QED BY <1>1, <2>1, <2>2
<1>5. CASE NotYet /\ Wait(Joiner, "cond")
  <2>1. /\ MonitorInv' /\ holder = Joiner /\ holder' = NULL
        /\ Queued' = Queued /\ Waiting' = Waiting \cup {Joiner} /\ Woken' = Woken
    BY <1>1, <1>5, WaitStep
  <2>2. /\ ~join_is_finished /\ UNCHANGED <<join_is_finished, tpc>>
        /\ \/ /\ jpc = "join" /\ jpc' = "join_wait"
              /\ UNCHANGED join_is_detached
           \/ /\ jpc = "timedjoin" /\ jpc' = "timed_wait"
              /\ UNCHANGED join_is_detached
           \/ Release(Joiner)
    BY <1>5 DEF NotYet
  <2>3. ~Release(Joiner)
    BY <1>1, <2>1 DEF Release, Waiting
  <2> QED BY <1>1, <2>1, <2>2, <2>3
<1>6. CASE NotYet /\ Release(Joiner)
  <2>1. /\ MonitorInv' /\ holder = Joiner /\ holder' = NULL
        /\ Queued' = Queued /\ Waiting' = Waiting /\ Woken' = Woken
    BY <1>1, <1>6, ReleaseStep
  <2>2. ~Wait(Joiner, "cond")
    <3>1. Wait(Joiner, "cond") => Waiting' = Waiting \cup {Joiner}
      BY <1>1, WaitStep
    <3> QED BY <1>1, <2>1, <3>1
  <2>3. /\ ~join_is_finished /\ UNCHANGED <<join_is_finished, tpc>>
        /\ \/ jpc = "tryjoin" /\ jpc' = "idle" /\ UNCHANGED join_is_detached
           \/ jpc = "detach" /\ jpc' = "done" /\ join_is_detached' = TRUE
    BY <1>6, <2>2 DEF NotYet
  <2>4. Joiner # Target /\ jpc \in {"tryjoin", "detach"} /\ jpc' \in {"idle", "done"}
    BY <2>3
  <2>5. (JoinTypes /\ TwoFibers /\ TargetPlace /\ JoinerPlace)'
    BY <1>1, <2>1, <2>3, <2>4
  <2>6. (WakerHolds /\ FinishedIsSaid)'
    BY <1>1, <2>1, <2>3, <2>4
  <2>7. (join_is_detached => jpc = "done")' /\ (jpc = "done" => join_is_detached)'
    BY <2>3
  <2>8. JoinedIsSaid'
    BY <1>1, <2>1, <2>3, <2>4, <2>7
  <2> QED BY <2>1, <2>5, <2>6, <2>8
<1>7. CASE JoinWaited \/ Answered \/ TimedOut
  <2>1. /\ MonitorInv' /\ holder = Joiner /\ holder' = NULL
        /\ Queued' = Queued /\ Waiting' = Waiting /\ Woken' = Woken
    BY <1>1, <1>7, ReleaseStep DEF JoinWaited, Answered, TimedOut
  <2>2. CASE JoinWaited
    BY <1>1, <2>1, <2>2 DEF JoinWaited
  <2>3. CASE Answered
    BY <1>1, <1>2, <2>1, <2>3 DEF Answered
  <2>4. CASE TimedOut
    BY <1>1, <2>1, <2>4 DEF TimedOut
  <2> QED BY <1>7, <2>2, <2>3, <2>4
<1>8. CASE GiveUp(Joiner) /\ JoinerOnly("timedjoin", "idle")
  <2>1. /\ MonitorInv' /\ Joiner \in Queued /\ Queued' = Queued \ {Joiner}
        /\ holder' = holder /\ Waiting' = Waiting /\ Woken' = Woken
    BY <1>1, <1>8, GiveUpStep
  <2> QED BY <1>1, <1>8, <2>1
<1>9. CASE Expire(Joiner, "cond") /\ JoinerOnly("timed_wait", "timedout")
  <2>1. /\ MonitorInv' /\ Joiner \in Waiting /\ Asks(Joiner)
        /\ Waiting' = Waiting \ {Joiner} /\ Woken' = Woken
    BY <1>1, <1>9, ExpireStep
  <2>2. \/ holder = NULL /\ holder' = Joiner /\ Queued' = Queued
        \/ holder' = holder /\ Queued' = Queued \cup {Joiner}
    BY <2>1 DEF Asks
  <2> QED BY <1>1, <1>9, <2>1, <2>2
<1> QED BY <1>3, <1>4, <1>5, <1>6, <1>7, <1>8, <1>9
        DEF JoinerGoesOn, TimedJoinExpires, NotYet

(* A joinable fiber is freed only when its joiner or its detacher is done  *)
(* with it and nobody has or waits for its mutex, in whatever order the    *)
(* end of the fiber, the join, and the deadlines of timed joins fall; and  *)
(* melon_fiber_join and its variants never report the end of a fiber that  *)
(* still runs.                                                             *)
THEOREM JoinedThenFreed == JoinSpec => []FreedAfterJoin
<1>1. MonitorInit /\ JoinInit => JoinInv
  BY JoinInitInv
<1>2. JoinInv /\ [JoinNext]_<<mvars, joinVars>> => JoinInv'
  <2> SUFFICES ASSUME JoinInv, [JoinNext]_<<mvars, joinVars>> PROVE JoinInv'
    OBVIOUS
  <2>1. CASE UNCHANGED <<mvars, joinVars>>
    BY <2>1 DEF mvars, joinVars, JoinInv, MonitorInv, MonitorTypes, OnePlace, TwoFibers,
       TargetPlace, JoinerPlace, WakerHolds, FinishedIsSaid, JoinedIsSaid, JoinTypes,
       Away, Locks, InMonitor, Queued, Waiting, Woken
  <2> QED BY <2>1, JoinMonitorInv, TargetInv, JoinerInv DEF JoinNext
<1>3. JoinInv => FreedAfterJoin
  <2> SUFFICES ASSUME JoinInv PROVE FreedAfterJoin
    OBVIOUS
  <2>1. /\ Queued = {} <=> queue = << >>
        /\ Waiting = {} <=> waiters["cond"] = << >>
    BY EmptyElems, JoinAssumption DEF JoinInv, MonitorInv, MonitorTypes, Queued, Waiting
  <2> QED BY <2>1 DEF JoinInv, TwoFibers, TargetPlace, JoinerPlace, FinishedIsSaid,
          JoinedIsSaid, Away, FreedAfterJoin
<1> QED BY <1>1, <1>2, <1>3, PTL DEF JoinSpec

----------------------------------------------------------------------------
(* The barrier, for fewer fibers than its counter can count.               *)

BarrierTypes ==
  /\ members \subseteq Fibers /\ freed \in BOOLEAN
  /\ bpc \in [Fibers -> {"out", "enter", "wait", "leave", "release", "locked",
                         "unlock", "destroy"}]
  /\ round \in [Fibers -> 0..MaxRounds]

(* The count is the number of members that have still to come.             *)
Absent == {f \in members : bpc[f] \notin {"wait", "leave"}}
CountIsAbsent == count = Cardinality(Absent)

(* Each fiber is where its call is; only members wait, and only fibers     *)
(* that are members no longer are in the rest of melon_barrier_release.    *)
Placed ==
  \A f \in Fibers :
    /\ bpc[f] \in {"out", "release"} => Away(f)
    /\ bpc[f] \in {"enter", "locked", "destroy"} => Locks(f)
    /\ bpc[f] \in {"leave", "unlock"} => holder = f
    /\ bpc[f] = "wait" => InMonitor(f)
WhoIsWhere ==
  \A f \in Fibers :
    /\ bpc[f] \in {"enter", "wait", "leave", "destroy"} => f \in members
    /\ bpc[f] \in {"release", "locked", "unlock"} =>
         f \notin members /\ round[f] = MaxRounds /\ MaxRounds > 0

(* A fiber on the way out of a round.  They leave before anyone comes      *)
(* round again, and nobody waits for the next round before they have left. *)
Leaving(f) == bpc[f] = "leave" \/ (bpc[f] = "wait" /\ f \notin Waiting)
LeavingFirst ==
  \A i, j \in 1..Len(queue) : i < j /\ Leaving(queue[j]) => Leaving(queue[i])
LeavingAlone ==
  \A f \in Fibers : Leaving(f) =>
    /\ Waiting = {}
    /\ holder = NULL \/ Leaving(holder) \/ bpc[holder] = "unlock"
WakerLeaves ==
  Woken # {} =>
    /\ holder # NULL /\ bpc[holder] \in {"leave", "unlock"}
    /\ \A f \in members : Leaving(f)

(* The round all members are in: those that are on their way out of it     *)
(* have made one call less than those that wait for the next.              *)
SameRound(r) ==
  \A f \in members :
    /\ bpc[f] \in {"out", "destroy"} \/ Leaving(f) => round[f] = r
    /\ bpc[f] = "enter" \/ f \in Waiting => round[f] = r + 1
    /\ bpc[f] = "destroy" => r = MaxRounds
InStep == \E r \in Nat : SameRound(r)

(* A member that left for good found all others waiting, and they wait     *)
(* until it has woken them.                                                *)
Releasing(f) == bpc[f] \in {"release", "locked"}
ReleaseAwaited ==
  \A f \in Fibers : Releasing(f) =>
    /\ members \subseteq Waiting /\ members # {}
    /\ \A g \in Fibers : Releasing(g) => g = f
OneDestroys ==
  \A f, g \in Fibers : bpc[f] = "destroy" /\ bpc[g] = "destroy" => f = g
FreedUnused == freed => DestroyedUnused /\ Woken = {}

BarrierInv ==
  /\ MonitorInv /\ BarrierTypes /\ CountIsAbsent /\ Placed /\ WhoIsWhere
  /\ LeavingFirst /\ LeavingAlone /\ WakerLeaves /\ InStep
  /\ ReleaseAwaited /\ OneDestroys /\ FreedUnused

(* The order of the queue is kept when nobody in it changes sides ...      *)
LEMMA LeavingFirstSame ==
  ASSUME LeavingFirst, queue' = queue,
         \A g \in Queued : Leaving(g)' <=> Leaving(g)
  PROVE  LeavingFirst'
<1>1. \A i \in 1..Len(queue) : queue[i] \in Queued
  BY DEF Queued, Elems
<1> QED BY <1>1 DEF LeavingFirst

(* ... when its head goes ...                                              *)
LEMMA LeavingFirstTail ==
  ASSUME LeavingFirst, queue \in Seq(Fibers), queue # << >>, queue' = Tail(queue),
         \A g \in Queued : Leaving(g)' <=> Leaving(g)
  PROVE  LeavingFirst'
<1>1. \A i \in 1..Len(queue) : queue[i] \in Queued
  BY DEF Queued, Elems
<1>2. /\ Len(queue') = Len(queue) - 1
      /\ \A i \in 1..Len(queue') : queue'[i] = queue[i + 1]
  BY HeadTailProperties
<1>3. Len(queue) \in Nat
  OBVIOUS
<1> SUFFICES ASSUME NEW i \in 1..Len(queue'), NEW j \in 1..Len(queue'), i < j,
                    Leaving(queue[j])'
             PROVE  Leaving(queue[i])'
  BY DEF LeavingFirst
<1>4. i + 1 \in 1..Len(queue) /\ j + 1 \in 1..Len(queue) /\ i + 1 < j + 1
  BY <1>2, <1>3
<1>5. queue'[i] = queue[i + 1] /\ queue'[j] = queue[j + 1]
  BY <1>2
<1> QED BY <1>1, <1>4, <1>5 DEF LeavingFirst, Leaving

(* ... and when a fiber is queued that does not leave, or only such.       *)
LEMMA LeavingFirstAppend ==
  ASSUME LeavingFirst, queue \in Seq(Fibers), NEW f \in Fibers, queue' = Append(queue, f),
         \A g \in Queued : Leaving(g)' <=> Leaving(g),
         Leaving(f)' => \A g \in Queued : Leaving(g)
  PROVE  LeavingFirst'
<1>1. \A i \in 1..Len(queue) : queue[i] \in Queued
  BY DEF Queued, Elems
<1>2. /\ Len(queue') = Len(queue) + 1 /\ queue'[Len(queue) + 1] = f
      /\ \A i \in 1..Len(queue) : queue'[i] = queue[i]
  BY AppendProperties
<1>3. Len(queue) \in Nat
  OBVIOUS
<1> SUFFICES ASSUME NEW i \in 1..Len(queue'), NEW j \in 1..Len(queue'), i < j,
                    Leaving(queue[j])'
             PROVE  Leaving(queue[i])'
  BY DEF LeavingFirst
<1>4. i \in 1..Len(queue) /\ queue'[i] = queue[i] /\ queue[i] \in Queued
  BY <1>1, <1>2, <1>3
<1>5. CASE j \in 1..Len(queue)
  BY <1>1, <1>2, <1>4, <1>5 DEF LeavingFirst, Leaving
<1>6. CASE j = Len(queue) + 1
  BY <1>2, <1>4, <1>6 DEF Leaving
<1> QED BY <1>2, <1>3, <1>5, <1>6

(* Nobody is in an empty queue.                                            *)
LEMMA LeavingFirstEmpty ==
  ASSUME queue' = << >> PROVE LeavingFirst'
  BY DEF LeavingFirst

(* The members are finitely many, fewer than the counter can count.        *)
LEMMA AbsentCounted ==
  ASSUME BarrierTypes, NEW S \in SUBSET members
  PROVE  IsFiniteSet(S) /\ Cardinality(S) \in Nat /\ Cardinality(S) < CountMod
<1>1. S \subseteq Fibers
  BY DEF BarrierTypes
<1>2. IsFiniteSet(S) /\ Cardinality(S) <= Cardinality(Fibers)
  BY <1>1, FS_Subset, BarrierAssumption
<1>3. Cardinality(S) \in Nat /\ Cardinality(Fibers) \in Nat
  BY <1>2, FS_CardinalityType, BarrierAssumption
<1> QED BY <1>2, <1>3, BarrierAssumption

(* A fiber that is about to leave has the lock, waits for it, or is woken. *)
LEMMA LeavingPlace ==
  ASSUME BarrierInv, NEW f \in Fibers, Leaving(f)
  PROVE  /\ f \in members /\ Waiting = {}
         /\ holder = f \/ f \in Queued \/ f \in Woken
         /\ holder = NULL => f \in Queued
  BY MonitorAssumption
     DEF BarrierInv, Leaving, Placed, WhoIsWhere, LeavingAlone, WakerLeaves, InMonitor, Locks

(* When the members wait for each other nobody has a place in the queue.   *)
LEMMA AllWaitNobodyQueued ==
  ASSUME BarrierInv, holder # NULL, \A g \in members \ {holder} : g \in Waiting,
         bpc[holder] \in {"enter", "locked"}
  PROVE  queue = << >> /\ Queued = {} /\ Woken = {}
<1>1. Woken = {}
  BY DEF BarrierInv, WakerLeaves
<1>2. \A g \in Fibers : g \notin Queued
  <2> SUFFICES ASSUME NEW g \in Fibers, g \in Queued PROVE FALSE
    OBVIOUS
  <2>1. g # holder /\ g \notin Waiting /\ g \notin members
    BY DEF BarrierInv, MonitorInv, OnePlace
  <2>2. bpc[g] = "locked"
    BY <2>1 DEF BarrierInv, BarrierTypes, Placed, WhoIsWhere, Away
  <2>3. holder \in Fibers
    BY DEF BarrierInv, MonitorInv, MonitorTypes
  <2>4. bpc[holder] # "locked"
    BY <2>1, <2>2, <2>3 DEF BarrierInv, ReleaseAwaited, Releasing
  <2>5. holder \in members
    BY <2>3, <2>4 DEF BarrierInv, WhoIsWhere
  <2> QED BY <2>2, <2>5 DEF BarrierInv, ReleaseAwaited, Releasing, MonitorInv, OnePlace
<1>3. Queued = {} /\ queue = << >>
  BY <1>2, EmptyElems DEF BarrierInv, MonitorInv, MonitorTypes, Queued
<1> QED BY <1>1, <1>3

(* A new barrier.                                                          *)
LEMMA BarrierInitInv == MonitorInit /\ BarrierInit => BarrierInv
<1> SUFFICES ASSUME MonitorInit, BarrierInit PROVE BarrierInv
  OBVIOUS
<1>1. /\ MonitorInv /\ Queued = {} /\ Waiting = {} /\ Woken = {}
      /\ holder = NULL /\ queue = << >>
  BY MonitorInitInv, BarrierAssumption DEF MonitorInit
<1>2. BarrierTypes
  <2>1. 0 \in 0..MaxRounds
    BY BarrierAssumption
  <2>2. members \subseteq Fibers /\ freed \in BOOLEAN
    BY BarrierAssumption DEF BarrierInit
  <2> QED BY <2>1, <2>2 DEF BarrierInit, BarrierTypes
<1>3. CountIsAbsent
  <2>1. Absent = members
    BY <1>2 DEF Absent, BarrierInit, BarrierTypes
  <2> QED BY <2>1 DEF CountIsAbsent, BarrierInit
<1>4. SameRound(0)
  BY <1>1, <1>2 DEF SameRound, BarrierInit, Leaving, BarrierTypes
<1>5. LeavingFirst /\ LeavingAlone /\ WakerLeaves
  BY <1>1 DEF LeavingFirst, LeavingAlone, WakerLeaves, BarrierInit, Leaving
<1>6. Placed /\ WhoIsWhere
  BY <1>1, MonitorAssumption DEF Placed, WhoIsWhere, BarrierInit, Away
<1>7. ReleaseAwaited /\ OneDestroys /\ FreedUnused
  BY DEF ReleaseAwaited, Releasing, OneDestroys, FreedUnused, BarrierInit
<1> QED BY <1>1, <1>2, <1>3, <1>4, <1>5, <1>6, <1>7 DEF BarrierInv, InStep

(* What every action proof starts from: where the fibers on the lists are  *)
(* in their calls.                                                         *)
LEMMA BarrierFacts ==
  ASSUME BarrierInv
  PROVE  /\ Queued \cap Waiting = {} /\ Queued \cap Woken = {} /\ Waiting \cap Woken = {}
         /\ holder \notin Queued \cup Waiting \cup Woken
         /\ Queued \subseteq Fibers /\ Waiting \subseteq Fibers /\ Woken \subseteq Fibers
         /\ holder \in Fibers \cup {NULL} /\ members \subseteq Fibers
         /\ waking = << >> <=> Woken = {}
         /\ queue = << >> <=> Queued = {}
         /\ \A f \in Waiting \cup Woken : bpc[f] = "wait"
         /\ \A f \in Queued : bpc[f] \in {"enter", "locked", "destroy", "wait"}
         /\ holder # NULL => bpc[holder] \in {"enter", "locked", "destroy", "wait", "leave", "unlock"}
         /\ freed => /\ \A f \in Fibers : bpc[f] = "out"
                     /\ holder = NULL /\ Queued = {} /\ Waiting = {} /\ Woken = {}
<1>1. /\ Queued \subseteq Fibers /\ Waiting \subseteq Fibers /\ Woken \subseteq Fibers
      /\ holder \in Fibers \cup {NULL} /\ members \subseteq Fibers
      /\ waking = << >> <=> Woken = {}
      /\ queue = << >> <=> Queued = {}
      /\ waiters["cond"] = << >> <=> Waiting = {}
  BY EmptyElems DEF BarrierInv, BarrierTypes, MonitorInv, MonitorTypes, Queued, Waiting, Woken
<1>2. /\ Queued \cap Waiting = {} /\ Queued \cap Woken = {} /\ Waiting \cap Woken = {}
      /\ holder \notin Queued \cup Waiting \cup Woken
  BY DEF BarrierInv, MonitorInv, OnePlace
<1>3. \A f \in Fibers : bpc[f] \in {"out", "enter", "wait", "leave", "release", "locked",
                                    "unlock", "destroy"}
  BY DEF BarrierInv, BarrierTypes
<1>4. \A f \in Fibers : ~Away(f) => bpc[f] \notin {"out", "release"}
  BY DEF BarrierInv, Placed
<1>5. \A f \in Waiting \cup Woken : bpc[f] = "wait"
  BY <1>1, <1>2, <1>3, <1>4 DEF BarrierInv, Placed, Locks, Away
<1>6. \A f \in Queued : bpc[f] \in {"enter", "locked", "destroy", "wait"}
  BY <1>1, <1>2, <1>3, <1>4 DEF BarrierInv, Placed, Away
<1>7. holder # NULL => bpc[holder] \in {"enter", "locked", "destroy", "wait", "leave", "unlock"}
  BY <1>1, <1>2, <1>3, <1>4 DEF Away
<1>8. freed => /\ \A f \in Fibers : bpc[f] = "out"
               /\ holder = NULL /\ Queued = {} /\ Waiting = {} /\ Woken = {}
  BY <1>1 DEF BarrierInv, FreedUnused, DestroyedUnused
<1> QED BY <1>1, <1>2, <1>5, <1>6, <1>7, <1>8

(* The head of the queue gets the lock.                                    *)
LEMMA BarrierGrantInv ==
  ASSUME BarrierInv, NEW f \in Fibers, Grant(f), UNCHANGED barrierVars PROVE BarrierInv'
<1>1. /\ MonitorInv' /\ f \in Queued /\ Queued' = Queued \ {f}
      /\ holder = NULL /\ holder' = f /\ Waiting' = Waiting /\ Woken' = Woken
      /\ queue # << >> /\ f = Head(queue) /\ queue' = Tail(queue)
  BY GrantStep DEF BarrierInv
<1>2. /\ bpc' = bpc /\ members' = members /\ round' = round /\ count' = count /\ freed' = freed
  BY DEF barrierVars
<1>3. /\ \A g \in Fibers : Leaving(g)' <=> Leaving(g)
      /\ Queued \subseteq Fibers
  BY <1>1, <1>2, BarrierFacts DEF Leaving
<1>4. ~freed /\ Woken = {}
  BY <1>1, BarrierFacts DEF BarrierInv, WakerLeaves
<1>5. LeavingFirst'
  BY <1>1, <1>3, LeavingFirstTail DEF BarrierInv, MonitorInv, MonitorTypes
<1>6. ASSUME NEW g \in Fibers, Leaving(g) PROVE Leaving(f)
  <2>1. g \in Queued
    BY <1>1, <1>6, LeavingPlace
  <2>2. PICK i \in 1..Len(queue) : queue[i] = g
    BY <2>1 DEF Queued, Elems
  <2>3. Head(queue) = queue[1] /\ 1 \in 1..Len(queue) /\ Len(queue) \in Nat
    BY <1>1, <2>2, PopElems DEF BarrierInv, MonitorInv, MonitorTypes
  <2> QED BY <1>1, <1>6, <2>2, <2>3 DEF BarrierInv, LeavingFirst
<1>7. LeavingAlone'
  BY <1>1, <1>3, <1>6 DEF BarrierInv, LeavingAlone
<1>8. (WakerLeaves /\ BarrierTypes /\ WhoIsWhere /\ OneDestroys /\ FreedUnused)'
  BY <1>1, <1>2, <1>4 DEF BarrierInv, WakerLeaves, BarrierTypes, WhoIsWhere, OneDestroys, FreedUnused
<1>9. Placed' /\ ReleaseAwaited'
  BY <1>1, <1>2, BarrierFacts, MonitorAssumption
     DEF BarrierInv, Placed, ReleaseAwaited, Releasing, Away, Locks, InMonitor
<1>10. CountIsAbsent' /\ InStep'
  BY <1>1, <1>2 DEF BarrierInv, CountIsAbsent, Absent, InStep, SameRound, Leaving
<1> QED BY <1>1, <1>5, <1>7, <1>8, <1>9, <1>10 DEF BarrierInv

(* A fiber that was woken asks for the lock while its waker has it.        *)
LEMMA BarrierWakeInv ==
  ASSUME BarrierInv, NEW f \in Fibers, Wake(f), UNCHANGED barrierVars PROVE BarrierInv'
<1>1. /\ MonitorInv' /\ f \in Woken /\ Asks(f)
      /\ Waiting' = Waiting /\ Woken' = Woken \ {f}
  BY WakeStep DEF BarrierInv
<1>2. /\ bpc' = bpc /\ members' = members /\ round' = round /\ count' = count /\ freed' = freed
  BY DEF barrierVars
<1>3. /\ \A g \in Fibers : Leaving(g)' <=> Leaving(g)
      /\ Queued \subseteq Fibers
  BY <1>1, <1>2, BarrierFacts DEF Leaving
<1>4. /\ holder # NULL /\ bpc[holder] \in {"leave", "unlock"}
      /\ \A g \in members : Leaving(g)
  BY <1>1 DEF BarrierInv, WakerLeaves
<1>5. holder' = holder /\ queue' = Append(queue, f) /\ Queued' = Queued \cup {f} /\ ~freed
  BY <1>1, <1>4, BarrierFacts DEF Asks
<1>6. Leaving(f) /\ Waiting = {}
  BY <1>1, BarrierFacts DEF BarrierInv, Leaving, LeavingAlone
<1>7. \A g \in Queued : Leaving(g)
  <2> SUFFICES ASSUME NEW g \in Queued PROVE Leaving(g)
    OBVIOUS
  <2>1. bpc[g] # "locked"
    BY <1>3, <1>6 DEF BarrierInv, ReleaseAwaited, Releasing
  <2> QED BY <1>3, <1>4, <2>1, BarrierFacts DEF BarrierInv, WhoIsWhere
<1>8. LeavingFirst'
  BY <1>3, <1>5, <1>7, LeavingFirstAppend DEF BarrierInv, MonitorInv, MonitorTypes
<1>9. LeavingAlone' /\ WakerLeaves'
  BY <1>1, <1>2, <1>3, <1>4, <1>5, BarrierFacts DEF BarrierInv, LeavingAlone, WakerLeaves
<1>10. (BarrierTypes /\ WhoIsWhere /\ OneDestroys /\ FreedUnused)'
  BY <1>2, <1>5 DEF BarrierInv, BarrierTypes, WhoIsWhere, OneDestroys, FreedUnused
<1>11. Placed' /\ ReleaseAwaited'
  BY <1>1, <1>2, <1>5, BarrierFacts
     DEF BarrierInv, Placed, ReleaseAwaited, Releasing, Away, Locks, InMonitor
<1>12. CountIsAbsent' /\ InStep'
  BY <1>1, <1>2 DEF BarrierInv, CountIsAbsent, Absent, InStep, SameRound, Leaving
<1> QED BY <1>1, <1>8, <1>9, <1>10, <1>11, <1>12 DEF BarrierInv

(* melon_barrier_wait and melon_barrier_destroy up to the lock: the fiber  *)
(* cannot pass those that are on their way out.                            *)
LEMMA BarrierLockInv ==
  ASSUME BarrierInv, NEW f \in Fibers, BarrierWait(f) \/ BarrierDestroy(f) PROVE BarrierInv'
<1>1. /\ f \in members /\ ~freed /\ bpc[f] = "out" /\ Lock(f)
      /\ bpc' = [bpc EXCEPT ![f] = bpc'[f]]
      /\ count' = count /\ members' = members /\ freed' = freed
      /\ \/ /\ bpc'[f] = "enter" /\ round[f] < MaxRounds
            /\ round' = [round EXCEPT ![f] = @ + 1]
         \/ /\ bpc'[f] = "destroy" /\ round[f] = MaxRounds /\ round' = round
            /\ \A g \in Fibers : bpc[g] # "destroy"
  BY DEF BarrierWait, BarrierDestroy, Member, Move, Only, BarrierInv, BarrierTypes
<1>2. Away(f)
  BY <1>1 DEF BarrierInv, Placed
<1>3. /\ MonitorInv' /\ Asks(f) /\ Waiting' = Waiting /\ Woken' = Woken
  BY <1>1, <1>2, LockStep DEF BarrierInv
<1>4. \A g \in Fibers \ {f} : bpc'[g] = bpc[g] /\ round'[g] = round[g]
  BY <1>1 DEF BarrierInv, BarrierTypes
<1>5. /\ \A g \in Fibers : Leaving(g)' <=> Leaving(g)
      /\ ~Leaving(f) /\ Queued \subseteq Fibers
  BY <1>1, <1>3, <1>4, BarrierFacts DEF Leaving
<1>6. Woken = {}
  BY <1>1, <1>5 DEF BarrierInv, WakerLeaves
<1>7. \A g \in Fibers : ~Releasing(g)
  BY <1>1, <1>2 DEF BarrierInv, ReleaseAwaited, Away
<1>8. LeavingFirst'
  <2>1. CASE holder' = f /\ queue' = queue
    BY <1>3, <1>5, <2>1, LeavingFirstSame DEF BarrierInv
  <2>2. CASE queue' = Append(queue, f)
    BY <1>3, <1>5, <2>2, LeavingFirstAppend DEF BarrierInv, MonitorInv, MonitorTypes
  <2> QED BY <1>3, <2>1, <2>2 DEF Asks
<1>9. LeavingAlone'
  <2> SUFFICES ASSUME NEW g \in Fibers, Leaving(g)
               PROVE  /\ Waiting = {}
                      /\ holder' = NULL \/ Leaving(holder)' \/ bpc'[holder'] = "unlock"
    BY <1>3, <1>5 DEF LeavingAlone
  <2>1. holder = NULL => queue # << >>
    BY LeavingPlace, BarrierFacts
  <2>2. holder' = holder
    BY <1>3, <2>1 DEF Asks
  <2> QED BY <1>2, <1>4, <1>5, <2>2, BarrierFacts DEF BarrierInv, LeavingAlone, Away
<1>10. BarrierTypes'
  <2>1. round' \in [Fibers -> 0..MaxRounds]
    BY <1>1, BarrierAssumption DEF BarrierInv, BarrierTypes
  <2>2. bpc'[f] \in {"enter", "destroy"}
    BY <1>1
  <2> QED BY <1>1, <2>1, <2>2 DEF BarrierInv, BarrierTypes
<1>11. (WhoIsWhere /\ OneDestroys /\ FreedUnused /\ WakerLeaves)'
  BY <1>1, <1>3, <1>4, <1>6 DEF BarrierInv, WhoIsWhere, OneDestroys, FreedUnused, WakerLeaves
<1>12. Placed'
  BY <1>1, <1>2, <1>3, <1>4, BarrierFacts, MonitorAssumption
     DEF BarrierInv, Placed, Away, Locks, InMonitor, Asks
<1>13. ReleaseAwaited'
  BY <1>1, <1>4, <1>7 DEF ReleaseAwaited, Releasing
<1>14. CountIsAbsent'
  <2>1. Absent' = Absent
    BY <1>1, <1>4, BarrierFacts DEF Absent
  <2> QED BY <1>1, <2>1 DEF BarrierInv, CountIsAbsent
<1>15. InStep'
  <2>1. PICK r \in Nat : SameRound(r)
    BY DEF BarrierInv, InStep
  <2>2. round[f] = r /\ f \notin Waiting
    BY <1>1, <1>2, <2>1 DEF SameRound, Away
  <2>3. SameRound(r)'
    BY <1>1, <1>3, <1>4, <1>5, <2>1, <2>2, BarrierFacts DEF SameRound, BarrierInv, BarrierTypes
  <2> QED BY <2>3 DEF InStep
<1> QED BY <1>3, <1>8, <1>9, <1>10, <1>11, <1>12, <1>13, <1>14, <1>15 DEF BarrierInv

(* The counter does not wrap.                                              *)
LEMMA ModSmall ==
  ASSUME NEW n \in Nat, NEW m \in Nat, n < m PROVE n % m = n
  OBVIOUS

(* A member that arrives, or one that leaves for good, is one less to come.*)
LEMMA OneLessAbsent ==
  ASSUME BarrierInv, NEW f \in members, bpc[f] \notin {"wait", "leave"},
         count' = (count - 1) % CountMod, Absent' = Absent \ {f}
  PROVE  /\ count >= 1 /\ CountIsAbsent'
         /\ count' = 0 <=> Absent \ {f} = {}
<1>1. /\ IsFiniteSet(Absent) /\ Cardinality(Absent) \in Nat /\ Cardinality(Absent) < CountMod
      /\ f \in Absent
  BY AbsentCounted DEF BarrierInv, Absent
<1>2. /\ IsFiniteSet(Absent \ {f})
      /\ Cardinality(Absent \ {f}) = count - 1 /\ count \in Nat /\ count < CountMod
  BY <1>1, FS_RemoveElement DEF BarrierInv, CountIsAbsent
<1>3. count - 1 \in Nat /\ (Absent \ {f} = {} <=> count - 1 = 0)
  BY <1>2, FS_CardinalityType, FS_EmptySet
<1>4. (count - 1) % CountMod = count - 1
  BY <1>2, <1>3, ModSmall, BarrierAssumption
<1> QED BY <1>2, <1>3, <1>4 DEF CountIsAbsent

(* A member that comes out, or a new one, is one more.                     *)
LEMMA OneMoreAbsent ==
  ASSUME BarrierInv, BarrierTypes', NEW f, f \notin Absent,
         count' = (count + 1) % CountMod, Absent' = Absent \cup {f}
  PROVE  CountIsAbsent'
<1>1. IsFiniteSet(Absent)
  BY AbsentCounted DEF BarrierInv, Absent
<1>2. Cardinality(Absent \cup {f}) = count + 1
  BY <1>1, FS_AddElement DEF BarrierInv, CountIsAbsent
<1>3. Absent' \subseteq Fibers
  BY DEF Absent, BarrierTypes
<1>4. /\ IsFiniteSet(Absent') /\ Cardinality(Absent') <= Cardinality(Fibers)
  BY <1>3, FS_Subset, BarrierAssumption
<1>5. Cardinality(Absent') \in Nat /\ Cardinality(Fibers) \in Nat
  BY <1>4, FS_CardinalityType, BarrierAssumption
<1>6. (count + 1) % CountMod = count + 1
  BY <1>2, <1>4, <1>5, ModSmall, BarrierAssumption
<1> QED BY <1>2, <1>6 DEF CountIsAbsent

(* The fiber that has the lock and is about to wait: nobody is leaving.    *)
LEMMA EnterAlone ==
  ASSUME BarrierInv, NEW f \in Fibers, holder = f, bpc[f] \in {"enter", "locked", "destroy"}
  PROVE  /\ \A g \in Fibers : ~Leaving(g)
         /\ Woken = {} /\ ~freed
         /\ f \in members => \A g \in Fibers : ~Releasing(g)
         /\ bpc[f] # "locked" => f \in members
<1>1. Woken = {} /\ ~freed
  BY BarrierFacts DEF BarrierInv, WakerLeaves
<1>2. \A g \in Fibers : ~Leaving(g)
  BY <1>1, MonitorAssumption, BarrierFacts DEF BarrierInv, LeavingAlone, Leaving
<1>3. f \in members => \A g \in Fibers : ~Releasing(g)
  BY BarrierFacts DEF BarrierInv, ReleaseAwaited
<1>4. bpc[f] # "locked" => f \in members
  BY DEF BarrierInv, WhoIsWhere
<1> QED BY <1>1, <1>2, <1>3, <1>4

(* All members wait, and the fiber that has the lock wakes them: the round *)
(* is over.                                                                *)
LEMMA BroadcastInv ==
  ASSUME BarrierInv, NEW f \in Fibers, holder = f, Signal("cond", 0),
         \/ f \in members /\ bpc[f] = "enter" /\ bpc' = [bpc EXCEPT ![f] = "leave"]
         \/ f \notin members /\ bpc[f] = "locked" /\ bpc' = [bpc EXCEPT ![f] = "unlock"],
         \A g \in members \ {f} : g \in Waiting, members # {},
         UNCHANGED <<members, round, freed>>, CountIsAbsent'
  PROVE  BarrierInv'
<1>1. /\ MonitorInv' /\ Woken = {} /\ Woken' = Waiting /\ Waiting' = {}
      /\ holder' = f /\ queue' = queue /\ Queued' = Queued
  BY SignalStep DEF BarrierInv
<1>2. queue = << >> /\ Queued = {}
  BY AllWaitNobodyQueued, MonitorAssumption
<1>3. \A g \in Fibers \ {f} : bpc'[g] = bpc[g]
  BY DEF BarrierInv, BarrierTypes
<1>4. \/ f \in members /\ bpc[f] = "enter" /\ bpc'[f] = "leave"
      \/ f \notin members /\ bpc[f] = "locked" /\ bpc'[f] = "unlock"
  BY DEF BarrierInv, BarrierTypes
<1>5. /\ \A g \in Fibers : ~Leaving(g)
      /\ ~freed /\ \A g \in Fibers \ {f} : ~Releasing(g)
  BY <1>4, EnterAlone DEF BarrierInv, ReleaseAwaited, Releasing
<1>6. \A g \in members : Leaving(g)'
  BY <1>1, <1>3, <1>4, BarrierFacts DEF Leaving
<1>7. BarrierTypes'
  BY DEF BarrierInv, BarrierTypes
<1>8. Placed'
  BY <1>1, <1>2, <1>3, <1>4, BarrierFacts DEF BarrierInv, Placed, Away, Locks, InMonitor
<1>9. WhoIsWhere' /\ OneDestroys'
  BY <1>3, <1>4 DEF BarrierInv, WhoIsWhere, OneDestroys
<1>10. LeavingFirst'
  BY <1>1, <1>2, LeavingFirstEmpty
<1>11. LeavingAlone' /\ WakerLeaves'
  BY <1>1, <1>4, <1>6, MonitorAssumption DEF LeavingAlone, WakerLeaves, Leaving
<1>12. ReleaseAwaited' /\ FreedUnused'
  BY <1>3, <1>4, <1>5 DEF ReleaseAwaited, Releasing, FreedUnused
<1>13. InStep'
  <2>1. PICK r \in Nat : SameRound(r)
    BY DEF BarrierInv, InStep
  <2>2. \A g \in members : round[g] = r + 1
    BY <1>4, <2>1 DEF SameRound
  <2>3. \A g \in members : bpc'[g] \in {"wait", "leave"}
    BY <1>3, <1>4, BarrierFacts
  <2>4. SameRound(r + 1)'
    BY <1>1, <2>2, <2>3 DEF SameRound
  <2>5. r + 1 \in Nat
    OBVIOUS
  <2> QED BY <2>4, <2>5 DEF InStep
<1> QED BY <1>1, <1>7, <1>8, <1>9, <1>10, <1>11, <1>12, <1>13 DEF BarrierInv

(* melon_barrier_wait with the lock.                                       *)
LEMMA BarrierEnterInv ==
  ASSUME BarrierInv, NEW f \in Fibers, BarrierEnter(f) PROVE BarrierInv'
<1>1. /\ holder = f /\ bpc[f] = "enter" /\ count' = (count - 1) % CountMod
      /\ bpc' = [bpc EXCEPT ![f] = bpc'[f]] /\ bpc'[f] \in {"leave", "wait"}
      /\ members' = members /\ round' = round /\ freed' = freed
      /\ \/ count' = 0 /\ Signal("cond", 0) /\ bpc'[f] = "leave"
         \/ count' # 0 /\ Wait(f, "cond") /\ bpc'[f] = "wait"
  BY DEF BarrierEnter, Move, IsLast, BarrierInv, BarrierTypes
<1>2. f \in members /\ \A g \in Fibers \ {f} : bpc'[g] = bpc[g]
  BY <1>1 DEF BarrierInv, WhoIsWhere, BarrierTypes
<1>3. Absent' = Absent \ {f}
  BY <1>1, <1>2, BarrierFacts DEF Absent
<1>4. CountIsAbsent' /\ (count' = 0 <=> Absent \ {f} = {})
  BY <1>1, <1>2, <1>3, OneLessAbsent
<1>5. /\ \A g \in Fibers : ~Leaving(g) /\ ~Releasing(g)
      /\ Woken = {} /\ ~freed
  BY <1>1, <1>2, EnterAlone
<1>6. CASE count' = 0
  <2>1. \A g \in members \ {f} : g \in Waiting
    BY <1>4, <1>5, <1>6, BarrierFacts DEF Absent, Leaving
  <2> QED BY <1>1, <1>2, <1>4, <1>6, <2>1, BroadcastInv
<1>7. CASE count' # 0
  <2>1. /\ MonitorInv' /\ holder' = NULL /\ queue' = queue
        /\ Queued' = Queued /\ Waiting' = Waiting \cup {f} /\ Woken' = Woken
    BY <1>1, <1>7, WaitStep DEF BarrierInv
  <2>2. \A g \in Fibers : ~Leaving(g)'
    BY <1>1, <1>2, <1>5, <1>7, <2>1 DEF Leaving
  <2>3. BarrierTypes'
    BY <1>1 DEF BarrierInv, BarrierTypes
  <2>4. Placed'
    BY <1>1, <1>2, <1>7, <2>1, BarrierFacts, MonitorAssumption
       DEF BarrierInv, Placed, Away, Locks, InMonitor
  <2>5. WhoIsWhere' /\ OneDestroys'
    BY <1>1, <1>2, <1>7 DEF BarrierInv, WhoIsWhere, OneDestroys
  <2>6. LeavingFirst'
    BY <1>5, <2>1, <2>2, BarrierFacts, LeavingFirstSame DEF BarrierInv
  <2>7. LeavingAlone' /\ WakerLeaves'
    BY <1>5, <2>1, <2>2 DEF LeavingAlone, WakerLeaves
  <2>8. ReleaseAwaited' /\ FreedUnused'
    BY <1>1, <1>2, <1>5 DEF ReleaseAwaited, Releasing, FreedUnused
  <2>9. InStep'
    <3>1. PICK r \in Nat : SameRound(r)
      BY DEF BarrierInv, InStep
    <3>2. SameRound(r)'
      BY <1>1, <1>2, <1>7, <2>1, <2>2, <3>1, BarrierFacts DEF SameRound
    <3> QED BY <3>2 DEF InStep
  <2> QED BY <1>4, <2>1, <2>3, <2>4, <2>5, <2>6, <2>7, <2>8, <2>9 DEF BarrierInv
<1> QED BY <1>6, <1>7

(* The rest of melon_barrier_wait.                                         *)
LEMMA BarrierLeaveInv ==
  ASSUME BarrierInv, NEW f \in Fibers, BarrierLeave(f) PROVE BarrierInv'
<1>1. /\ holder = f /\ Release(f) /\ Woken = {} /\ bpc[f] \in {"leave", "wait"}
      /\ count' = (count + 1) % CountMod
      /\ bpc' = [bpc EXCEPT ![f] = "out"]
      /\ members' = members /\ round' = round /\ freed' = freed
  BY BarrierFacts DEF BarrierLeave, Move
<1>2. /\ MonitorInv' /\ holder' = NULL /\ queue' = queue
      /\ Queued' = Queued /\ Waiting' = Waiting /\ Woken' = Woken
  BY <1>1, ReleaseStep DEF BarrierInv
<1>3. bpc'[f] = "out" /\ f \in members /\ \A g \in Fibers \ {f} : bpc'[g] = bpc[g]
  BY <1>1 DEF BarrierInv, BarrierTypes, WhoIsWhere
<1>4. Leaving(f) /\ Waiting = {} /\ ~freed
  BY <1>1, BarrierFacts DEF Leaving, BarrierInv, LeavingAlone
<1>5. \A g \in Fibers \ {f} : Leaving(g)' <=> Leaving(g)
  BY <1>2, <1>3 DEF Leaving
<1>6. ~Leaving(f)'
  BY <1>3 DEF Leaving
<1>7. \A g \in Fibers : ~Releasing(g)
  BY <1>3, <1>4 DEF BarrierInv, ReleaseAwaited
<1>8. BarrierTypes'
  BY <1>1 DEF BarrierInv, BarrierTypes
<1>9. CountIsAbsent'
  <2>1. Absent' = Absent \cup {f} /\ f \notin Absent
    BY <1>1, <1>3, BarrierFacts DEF Absent
  <2> QED BY <1>1, <1>8, <2>1, OneMoreAbsent
<1>10. Placed'
  BY <1>1, <1>2, <1>3, BarrierFacts, MonitorAssumption
     DEF BarrierInv, Placed, Away, Locks, InMonitor
<1>11. WhoIsWhere' /\ OneDestroys'
  BY <1>1, <1>3 DEF BarrierInv, WhoIsWhere, OneDestroys
<1>12. LeavingFirst'
  BY <1>1, <1>2, <1>5, BarrierFacts, LeavingFirstSame DEF BarrierInv
<1>13. LeavingAlone' /\ WakerLeaves'
  BY <1>1, <1>2, <1>4 DEF LeavingAlone, WakerLeaves
<1>14. ReleaseAwaited' /\ FreedUnused'
  BY <1>1, <1>3, <1>4, <1>7 DEF ReleaseAwaited, Releasing, FreedUnused
<1>15. InStep'
  <2>1. PICK r \in Nat : SameRound(r)
    BY DEF BarrierInv, InStep
  <2>2. SameRound(r)'
    BY <1>1, <1>2, <1>3, <1>4, <1>5, <2>1, BarrierFacts DEF SameRound
  <2> QED BY <2>2 DEF InStep
<1> QED BY <1>2, <1>8, <1>9, <1>10, <1>11, <1>12, <1>13, <1>14, <1>15 DEF BarrierInv

(* melon_barrier_add: the new member is in the round of the others.        *)
LEMMA BarrierAddInv ==
  ASSUME BarrierInv, AnyTime = FALSE, NEW f \in Fibers, BarrierAdd(f) PROVE BarrierInv'
<1>1. /\ f \notin members /\ ~freed /\ round[f] = 0
      /\ \A g \in Fibers : ~Leaving(g) /\ ~Releasing(g)
      /\ count' = (count + 1) % CountMod /\ members' = members \cup {f}
      /\ holder' = holder /\ queue' = queue /\ waiters' = waiters /\ waking' = waking
      /\ bpc' = bpc /\ freed' = freed
  BY DEF BarrierAdd, BetweenRounds, mvars, Leaving, Releasing, Waiting
<1>2. PICK r \in Nat : SameRound(r)
  BY DEF BarrierInv, InStep
<1>3. Queued' = Queued /\ Waiting' = Waiting /\ Woken' = Woken /\ MonitorInv'
  BY <1>1 DEF Queued, Waiting, Woken, BarrierInv, MonitorInv, MonitorTypes, OnePlace
<1>4. r \in 0..MaxRounds /\ round' = [round EXCEPT ![f] = r]
  <2>1. PICK g \in members : round' = [round EXCEPT ![f] = Completed(g)]
    BY DEF BarrierAdd
  <2>2. g \in Fibers /\ round[g] \in 0..MaxRounds /\ ~Leaving(g)
    BY <1>1 DEF BarrierInv, BarrierTypes
  <2>3. bpc[g] \in {"out", "enter", "wait", "destroy"}
    BY <2>2 DEF BarrierInv, BarrierTypes, WhoIsWhere, Leaving
  <2>4. CASE bpc[g] \in {"out", "destroy"}
    <3>1. round[g] = r
      BY <1>2, <2>4 DEF SameRound
    <3>2. g \notin Waiting
      BY <2>2, <2>4 DEF BarrierInv, Placed, Away, Locks, MonitorInv, OnePlace
    <3> QED BY <2>1, <2>2, <2>4, <3>1, <3>2 DEF Completed, Waiting
  <2>5. CASE bpc[g] \in {"enter", "wait"}
    <3>1. bpc[g] = "enter" \/ g \in Waiting
      BY <2>2, <2>5 DEF Leaving
    <3>2. round[g] = r + 1
      BY <1>2, <3>1 DEF SameRound
    <3>3. r \in 0..MaxRounds /\ round[g] - 1 = r
      BY <2>2, <3>2, BarrierAssumption
    <3>4. Completed(g) = round[g] - 1
      BY <3>1 DEF Completed, Waiting
    <3> QED BY <2>1, <3>3, <3>4
  <2> QED BY <2>3, <2>4, <2>5
<1>5. round'[f] = r /\ \A h \in Fibers \ {f} : round'[h] = round[h]
  BY <1>4 DEF BarrierInv, BarrierTypes
<1>6. bpc[f] = "out"
  BY <1>1 DEF BarrierInv, BarrierTypes, WhoIsWhere
<1>7. \A h \in Fibers : ~Releasing(h)
  BY <1>1
<1>8. Woken = {} /\ \A h \in Fibers : ~Leaving(h)'
  BY <1>1, <1>2, <1>3, BarrierFacts DEF BarrierInv, WakerLeaves, Leaving
<1>9. BarrierTypes'
  BY <1>1, <1>4 DEF BarrierInv, BarrierTypes
<1>10. CountIsAbsent'
  <2>1. Absent' = Absent \cup {f} /\ f \notin Absent
    BY <1>1, <1>6 DEF Absent
  <2> QED BY <1>1, <1>9, <2>1, OneMoreAbsent
<1>11. Placed' /\ OneDestroys'
  BY <1>1, <1>3 DEF BarrierInv, Placed, Away, Locks, InMonitor, OneDestroys
<1>12. WhoIsWhere'
  BY <1>1, <1>6, <1>5 DEF BarrierInv, WhoIsWhere
<1>13. LeavingFirst'
  BY <1>1, <1>8, BarrierFacts, LeavingFirstSame DEF BarrierInv
<1>14. LeavingAlone' /\ WakerLeaves' /\ ReleaseAwaited' /\ FreedUnused'
  BY <1>1, <1>3, <1>7, <1>8
     DEF LeavingAlone, WakerLeaves, ReleaseAwaited, Releasing, FreedUnused
<1>15. InStep'
  <2>1. SameRound(r)'
    BY <1>1, <1>2, <1>3, <1>6, <1>8, <1>5, BarrierFacts DEF SameRound
  <2> QED BY <2>1 DEF InStep
<1> QED BY <1>3, <1>9, <1>10, <1>11, <1>12, <1>13, <1>14, <1>15 DEF BarrierInv

(* melon_barrier_release: the count no longer stands for the member.       *)
LEMMA BarrierReleaseInv ==
  ASSUME BarrierInv, AnyTime = FALSE, NEW f \in Fibers, BarrierRelease(f) PROVE BarrierInv'
<1>1. /\ f \in members /\ ~freed /\ members # {f} /\ bpc[f] = "out"
      /\ \A g \in Fibers : ~Leaving(g)
      /\ count' = (count - 1) % CountMod /\ members' = members \ {f}
      /\ holder' = holder /\ queue' = queue /\ waiters' = waiters /\ waking' = waking
      /\ bpc' = [bpc EXCEPT ![f] = bpc'[f]] /\ freed' = freed
      /\ bpc'[f] = IF count' = 0 THEN "release" ELSE "out"
      /\ round' = [round EXCEPT ![f] = MaxRounds]
  BY DEF BarrierRelease, BetweenRounds, Member, Move, IsLast, mvars, Leaving, Waiting,
         BarrierInv, BarrierTypes
<1>2. Queued' = Queued /\ Waiting' = Waiting /\ Woken' = Woken /\ MonitorInv'
  BY <1>1 DEF Queued, Waiting, Woken, BarrierInv, MonitorInv, MonitorTypes, OnePlace
<1>3. /\ round'[f] = MaxRounds
      /\ \A g \in Fibers \ {f} : round'[g] = round[g] /\ bpc'[g] = bpc[g]
  BY <1>1 DEF BarrierInv, BarrierTypes
<1>4. Absent' = Absent \ {f}
  BY <1>1, <1>3, BarrierFacts DEF Absent
<1>5. CountIsAbsent' /\ (count' = 0 <=> Absent \ {f} = {})
  BY <1>1, <1>4, OneLessAbsent
<1>6. Away(f) /\ \A g \in Fibers : ~Releasing(g)
  BY <1>1 DEF BarrierInv, Placed, Away, ReleaseAwaited
<1>7. Woken = {} /\ \A g \in Fibers : ~Leaving(g)'
  BY <1>1, <1>2, <1>3, BarrierFacts DEF BarrierInv, WakerLeaves, Leaving
<1>8. count' = 0 => members \ {f} \subseteq Waiting
  BY <1>1, <1>5, BarrierFacts DEF Absent, Leaving
<1>9. PICK r \in Nat : SameRound(r)
  BY DEF BarrierInv, InStep
<1>10. count' = 0 => MaxRounds > 0
  <2> SUFFICES ASSUME count' = 0 PROVE MaxRounds > 0
    OBVIOUS
  <2>1. PICK g \in members : g # f
    BY <1>1
  <2>2. round[g] = r + 1 /\ round[g] \in 0..MaxRounds
    BY <1>8, <1>9, <2>1 DEF SameRound, BarrierInv, BarrierTypes
  <2> QED BY <2>2, BarrierAssumption
<1>11. BarrierTypes'
  <2>1. MaxRounds \in 0..MaxRounds
    BY BarrierAssumption
  <2>2. bpc'[f] \in {"release", "out"}
    BY <1>1
  <2>3. round' \in [Fibers -> 0..MaxRounds]
    BY <1>1, <2>1 DEF BarrierInv, BarrierTypes
  <2> QED BY <1>1, <2>2, <2>3 DEF BarrierInv, BarrierTypes
<1>12. Placed' /\ OneDestroys'
  BY <1>1, <1>2, <1>3, <1>6 DEF BarrierInv, Placed, Away, Locks, InMonitor, OneDestroys
<1>13. WhoIsWhere'
  BY <1>1, <1>3, <1>10 DEF BarrierInv, WhoIsWhere
<1>14. LeavingFirst'
  BY <1>1, <1>7, BarrierFacts, LeavingFirstSame DEF BarrierInv
<1>15. LeavingAlone' /\ WakerLeaves' /\ FreedUnused'
  BY <1>1, <1>2, <1>7 DEF LeavingAlone, WakerLeaves, FreedUnused
<1>16. ReleaseAwaited'
  BY <1>1, <1>2, <1>3, <1>6, <1>8 DEF ReleaseAwaited, Releasing
<1>17. InStep'
  <2>1. SameRound(r)'
    BY <1>1, <1>2, <1>3, <1>7, <1>9, BarrierFacts DEF SameRound
  <2> QED BY <2>1 DEF InStep
<1> QED BY <1>2, <1>5, <1>11, <1>12, <1>13, <1>14, <1>15, <1>16, <1>17 DEF BarrierInv

(* The fiber that left for good takes the lock, to wake the others.        *)
LEMMA ReleaseLockInv ==
  ASSUME BarrierInv, NEW f \in Fibers, Lock(f), Only(f, "release", "locked")
  PROVE  BarrierInv'
<1>1. /\ bpc[f] = "release" /\ bpc' = [bpc EXCEPT ![f] = "locked"]
      /\ count' = count /\ members' = members /\ round' = round /\ freed' = freed
  BY DEF Only, Move
<1>2. /\ MonitorInv' /\ Asks(f) /\ Waiting' = Waiting /\ Woken' = Woken /\ Away(f)
  BY <1>1, LockStep DEF BarrierInv, Placed
<1>3. bpc'[f] = "locked" /\ \A g \in Fibers \ {f} : bpc'[g] = bpc[g]
  BY <1>1 DEF BarrierInv, BarrierTypes
<1>4. f \notin members /\ members \subseteq Waiting /\ members # {} /\ ~freed
  BY <1>1, BarrierFacts DEF BarrierInv, WhoIsWhere, ReleaseAwaited, Releasing
<1>5. \A g \in Fibers : ~Leaving(g) /\ ~Leaving(g)'
  <2>1. \A g \in Fibers : ~Leaving(g)
    BY <1>4 DEF BarrierInv, LeavingAlone
  <2> QED BY <1>2, <1>3, <2>1 DEF Leaving
<1>6. Woken = {}
  <2>1. \E g \in members : ~Leaving(g)
    BY <1>4, <1>5, BarrierFacts
  <2> QED BY <2>1 DEF BarrierInv, WakerLeaves
<1>7. BarrierTypes'
  BY <1>1 DEF BarrierInv, BarrierTypes
<1>8. CountIsAbsent'
  <2>1. Absent' = Absent
    BY <1>1, <1>3, <1>4, BarrierFacts DEF Absent
  <2> QED BY <1>1, <2>1 DEF BarrierInv, CountIsAbsent
<1>9. Placed'
  BY <1>1, <1>2, <1>3, BarrierFacts, MonitorAssumption
     DEF BarrierInv, Placed, Away, Locks, InMonitor, Asks
<1>10. WhoIsWhere' /\ OneDestroys' /\ ReleaseAwaited'
  BY <1>1, <1>2, <1>3 DEF BarrierInv, WhoIsWhere, OneDestroys, ReleaseAwaited, Releasing
<1>11. LeavingFirst'
  <2>1. CASE queue' = queue
    BY <1>5, <2>1, BarrierFacts, LeavingFirstSame DEF BarrierInv
  <2>2. CASE queue' = Append(queue, f)
    BY <1>5, <2>2, BarrierFacts, LeavingFirstAppend DEF BarrierInv, MonitorInv, MonitorTypes
  <2> QED BY <1>2, <2>1, <2>2 DEF Asks
<1>12. LeavingAlone' /\ WakerLeaves' /\ FreedUnused'
  BY <1>1, <1>2, <1>4, <1>5, <1>6 DEF LeavingAlone, WakerLeaves, FreedUnused
<1>13. InStep'
  <2>1. PICK r \in Nat : SameRound(r)
    BY DEF BarrierInv, InStep
  <2>2. SameRound(r)'
    BY <1>1, <1>2, <1>3, <1>4, <1>5, <2>1, BarrierFacts DEF SameRound
  <2> QED BY <2>2 DEF InStep
<1> QED BY <1>2, <1>7, <1>8, <1>9, <1>10, <1>11, <1>12, <1>13 DEF BarrierInv

(* It gives the lock back; or the barrier is destroyed.                    *)
LEMMA BarrierUnlockInv ==
  ASSUME BarrierInv, NEW f \in Fibers, Release(f), bpc[f] \in {"unlock", "destroy"},
         bpc' = [bpc EXCEPT ![f] = "out"], UNCHANGED <<count, members, round>>,
         bpc[f] = "unlock" => freed' = freed,
         bpc[f] = "destroy" => freed' = TRUE, Woken = {}
  PROVE  BarrierInv'
<1>1. /\ MonitorInv' /\ holder = f /\ holder' = NULL /\ queue' = queue
      /\ Queued' = Queued /\ Waiting' = Waiting /\ Woken' = Woken
  BY ReleaseStep DEF BarrierInv
<1>2. bpc'[f] = "out" /\ \A g \in Fibers \ {f} : bpc'[g] = bpc[g]
  BY DEF BarrierInv, BarrierTypes
<1>3. /\ \A g \in Fibers : Leaving(g)' <=> Leaving(g)
      /\ ~Leaving(f) /\ ~freed
  BY <1>1, <1>2, BarrierFacts DEF Leaving
<1>4. Woken' = {}
  BY <1>1
<1>5. bpc[f] = "unlock" => f \notin members
  BY DEF BarrierInv, WhoIsWhere
<1>6. CountIsAbsent'
  <2>1. Absent' = Absent
    BY <1>2, BarrierFacts DEF Absent
  <2> QED BY <2>1 DEF BarrierInv, CountIsAbsent
<1>7. Placed'
  BY <1>1, <1>2, BarrierFacts, MonitorAssumption
     DEF BarrierInv, Placed, Away, Locks, InMonitor
<1>8. WhoIsWhere' /\ OneDestroys' /\ ReleaseAwaited'
  BY <1>1, <1>2 DEF BarrierInv, WhoIsWhere, OneDestroys, ReleaseAwaited, Releasing
<1>9. LeavingFirst'
  BY <1>1, <1>3, BarrierFacts, LeavingFirstSame DEF BarrierInv
<1>10. LeavingAlone' /\ WakerLeaves'
  BY <1>1, <1>3, <1>4 DEF BarrierInv, LeavingAlone, WakerLeaves
<1>11. PICK r \in Nat : SameRound(r)
  BY DEF BarrierInv, InStep
<1>12. InStep'
  <2>1. SameRound(r)'
    BY <1>1, <1>2, <1>3, <1>5, <1>11, BarrierFacts DEF SameRound
  <2> QED BY <2>1 DEF InStep
<1>13. CASE bpc[f] = "unlock"
  <2>1. BarrierTypes' /\ FreedUnused'
    BY <1>3, <1>13 DEF BarrierInv, BarrierTypes, FreedUnused
  <2> QED BY <1>1, <1>6, <1>7, <1>8, <1>9, <1>10, <1>12, <2>1 DEF BarrierInv
<1>14. CASE bpc[f] = "destroy"
  <2>1. BarrierTypes'
    BY <1>14 DEF BarrierInv, BarrierTypes
  <2>2. f \in members /\ r = MaxRounds /\ \A g \in Fibers : ~Leaving(g) /\ ~Releasing(g)
    BY <1>1, <1>11, <1>14, EnterAlone DEF SameRound
  <2>3. \A g \in Fibers : round[g] \in 0..MaxRounds
    BY DEF BarrierInv, BarrierTypes
  <2>4. \A g \in members : bpc[g] # "enter" /\ g \notin Waiting
    BY <1>11, <2>2, <2>3, BarrierFacts, BarrierAssumption DEF SameRound
  <2>5. \A g \in Fibers \ {f} : bpc[g] = "out"
    <3> SUFFICES ASSUME NEW g \in Fibers \ {f} PROVE bpc[g] = "out"
      OBVIOUS
    <3>1. bpc[g] \notin {"release", "locked"}
      BY <2>2 DEF Releasing
    <3>2. bpc[g] \notin {"leave", "unlock"}
      BY <1>1 DEF BarrierInv, Placed
    <3>3. bpc[g] # "enter"
      BY <2>4 DEF BarrierInv, WhoIsWhere
    <3>4. bpc[g] # "wait"
      BY <2>2, <2>4 DEF BarrierInv, WhoIsWhere, Leaving
    <3>5. bpc[g] # "destroy"
      BY <1>14 DEF BarrierInv, OneDestroys
    <3> QED BY <3>1, <3>2, <3>3, <3>4, <3>5 DEF BarrierInv, BarrierTypes
  <2>6. Queued = {} /\ Waiting = {}
    BY <1>1, <2>5, BarrierFacts
  <2>7. queue' = << >> /\ waiters'["cond"] = << >>
    BY <1>1, <2>6, EmptyElems DEF MonitorInv, MonitorTypes, Queued, Waiting
  <2>8. FreedUnused'
    BY <1>1, <1>2, <1>4, <2>5, <2>7 DEF FreedUnused, DestroyedUnused
  <2> QED BY <1>1, <1>6, <1>7, <1>8, <1>9, <1>10, <1>12, <2>1, <2>8 DEF BarrierInv
<1> QED BY <1>13, <1>14

(* Every step of the barrier keeps the invariant, in a program that adds   *)
(* and releases between rounds only.                                       *)
LEMMA BarrierNextInv ==
  ASSUME AnyTime = FALSE
  PROVE  BarrierInv /\ [BarrierNext]_<<mvars, barrierVars>> => BarrierInv'
<1> SUFFICES ASSUME BarrierInv, [BarrierNext]_<<mvars, barrierVars>> PROVE BarrierInv'
  OBVIOUS
<1>1. CASE UNCHANGED <<mvars, barrierVars>>
  <2>1. /\ holder' = holder /\ queue' = queue /\ waiters' = waiters /\ waking' = waking
        /\ bpc' = bpc /\ members' = members /\ round' = round /\ count' = count /\ freed' = freed
    BY <1>1 DEF mvars, barrierVars
  <2>2. (MonitorInv /\ BarrierTypes /\ CountIsAbsent /\ Placed /\ WhoIsWhere)'
    BY <2>1 DEF BarrierInv, MonitorInv, MonitorTypes, OnePlace, Queued, Waiting, Woken,
       BarrierTypes, CountIsAbsent, Absent, Placed, Away, Locks, InMonitor, WhoIsWhere
  <2>3. (LeavingFirst /\ LeavingAlone /\ WakerLeaves /\ InStep)'
    BY <2>1 DEF BarrierInv, LeavingFirst, LeavingAlone, WakerLeaves, InStep, SameRound, Leaving,
       Waiting, Woken
  <2>4. (ReleaseAwaited /\ OneDestroys /\ FreedUnused)'
    BY <2>1 DEF BarrierInv, ReleaseAwaited, OneDestroys, FreedUnused, DestroyedUnused, Releasing,
       Waiting, Woken
  <2> QED BY <2>2, <2>3, <2>4 DEF BarrierInv
<1>2. CASE MonitorStep /\ UNCHANGED barrierVars
  BY <1>2, BarrierGrantInv, BarrierWakeInv DEF MonitorStep
<1>3. ASSUME NEW f \in Fibers, BarrierReleaseRest(f) PROVE BarrierInv'
  <2>1. CASE Lock(f) /\ Only(f, "release", "locked")
    BY <2>1, ReleaseLockInv
  <2>2. CASE holder = f /\ Signal("cond", 0) /\ Only(f, "locked", "unlock")
    <3>1. /\ bpc[f] = "locked" /\ bpc' = [bpc EXCEPT ![f] = "unlock"]
          /\ UNCHANGED <<count, members, round, freed>>
      BY <2>2 DEF Only, Move
    <3>2. /\ f \notin members /\ \A g \in members \ {f} : g \in Waiting
          /\ members # {}
      BY <3>1 DEF BarrierInv, WhoIsWhere, ReleaseAwaited, Releasing
    <3>3. Absent' = Absent
      BY <3>1, <3>2, BarrierFacts DEF Absent, BarrierInv, BarrierTypes
    <3>4. CountIsAbsent'
      BY <3>1, <3>3 DEF BarrierInv, CountIsAbsent
    <3> QED BY <2>2, <3>1, <3>2, <3>4, BroadcastInv
  <2>3. CASE holder = f /\ waking = << >> /\ Release(f) /\ Only(f, "unlock", "out")
    <3>1. /\ bpc[f] = "unlock" /\ bpc' = [bpc EXCEPT ![f] = "out"]
          /\ UNCHANGED <<count, members, round>> /\ freed' = freed
      BY <2>3 DEF Only, Move
    <3> QED BY <2>3, <3>1, BarrierFacts, BarrierUnlockInv
  <2> QED BY <1>3, <2>1, <2>2, <2>3 DEF BarrierReleaseRest
<1>4. ASSUME NEW f \in Fibers, BarrierFree(f) PROVE BarrierInv'
  <2>1. /\ bpc[f] = "destroy" /\ bpc' = [bpc EXCEPT ![f] = "out"] /\ Release(f)
        /\ UNCHANGED <<count, members, round>> /\ freed' = TRUE /\ holder = f
    BY <1>4 DEF BarrierFree, Move, Release
  <2>2. Woken = {}
    BY <2>1, EnterAlone
  <2> QED BY <2>1, <2>2, BarrierUnlockInv
<1> QED BY <1>1, <1>2, <1>3, <1>4, BarrierLockInv, BarrierEnterInv, BarrierLeaveInv,
           BarrierAddInv, BarrierReleaseInv
        DEF BarrierNext, BarrierGoesOn

(* The invariant is one of the barrier of such a program.                  *)
LEMMA BarrierInvariant == ASSUME AnyTime = FALSE PROVE BarrierSpec => []BarrierInv
  BY BarrierInitInv, BarrierNextInv, PTL DEF BarrierSpec

(* However many fibers meet at the barrier and however often, none is past *)
(* its n-th melon_barrier_wait before every member has called its n-th:    *)
(* the count is only partly restored while a round ends, and nothing but   *)
(* the order of the lock queue keeps the ones that come again behind the   *)
(* ones that leave.  This is so in a program that calls melon_barrier_add  *)
(* and melon_barrier_release between rounds only; in one that calls them   *)
(* while a round ends it is not (run barrier_any_time).                    *)
THEOREM BarrierKeepsStep == ASSUME AnyTime = FALSE PROVE BarrierSpec => []RoundsInStep
<1>1. BarrierInv => RoundsInStep
  <2> SUFFICES ASSUME BarrierInv, NEW f \in members, NEW g \in members,
                      bpc[f] \notin {"enter", "wait"}
               PROVE  round[g] >= round[f]
    BY DEF RoundsInStep
  <2>1. PICK r \in Nat : SameRound(r)
    BY DEF BarrierInv, InStep
  <2>2. \A h \in members : round[h] = r \/ round[h] = r + 1
    <3> SUFFICES ASSUME NEW h \in members PROVE round[h] = r \/ round[h] = r + 1
      OBVIOUS
    <3>1. bpc[h] \in {"out", "enter", "wait", "leave", "destroy"}
      BY DEF BarrierInv, BarrierTypes, WhoIsWhere
    <3> QED BY <2>1, <3>1 DEF SameRound, Leaving
  <2>3. round[f] = r
    <3>1. bpc[f] \in {"out", "leave", "destroy"}
      BY DEF BarrierInv, BarrierTypes, WhoIsWhere
    <3> QED BY <2>1, <3>1 DEF SameRound, Leaving
  <2> QED BY <2>2, <2>3
<1> QED BY <1>1, BarrierInvariant, PTL

(* melon_barrier_destroy frees the barrier only when every fiber has left  *)
(* its last round and nobody has or waits for its lock: locking before     *)
(* destroying is enough, because those that leave are queued ahead.  As    *)
(* above, for a program that adds and releases between rounds only.        *)
THEOREM BarrierDestroyedUnused ==
  ASSUME AnyTime = FALSE PROVE BarrierSpec => []DestroyedUnused
<1>1. BarrierInv => DestroyedUnused
  BY DEF BarrierInv, FreedUnused, DestroyedUnused
<1> QED BY <1>1, BarrierInvariant, PTL
=============================================================================
