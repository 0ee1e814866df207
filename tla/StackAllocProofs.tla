-------------------------- MODULE StackAllocProofs --------------------------
(***************************************************************************)
(* For any number of threads and stacks and any limit: the cache of stacks *)
(* never holds more than the limit and one stack for each thread, and      *)
(* every mapped stack is in one place.                                     *)
(***************************************************************************)
EXTENDS StackAlloc, DlistProofs, FiniteSetTheorems

USE StackAssumption

StackType ==
  /\ g_stack_list \in Stacks \cup {NoStack}
  /\ g_stack_list_nb \in Int
  /\ next \in [Stacks -> Stacks \cup {NoStack}]
  /\ freeing \in [Threads -> Stacks \cup {NoStack}]
  /\ used \subseteq Stacks

(* The threads that have passed the test of the limit and not yet pushed.  *)
Keeping == {t \in Threads : freeing[t] # NoStack}

(* The number of stacks alone is not bounded inductively: a thread pushes  *)
(* whatever it is by then.  With the stacks on their way it is.            *)
CacheInv ==
  /\ StackType
  /\ g_stack_list_nb + Cardinality(Keeping) <= Limit + Cardinality(Threads)

(* The counts are natural numbers, and no more threads keep than there are.*)
LEMMA KeepingCount ==
  /\ Cardinality(Threads) \in Nat
  /\ IsFiniteSet(Keeping) /\ Cardinality(Keeping) \in Nat
  /\ Cardinality(Keeping) <= Cardinality(Threads)
<1>1. Keeping \in SUBSET Threads
  BY DEF Keeping
<1> QED BY <1>1, FS_Subset, FS_CardinalityType

(* What melon_list_pop takes out is a stack, and the ring keeps its type.  *)
LEMMA PopType ==
  ASSUME StackType, g_stack_list # NoStack, ListPop
  PROVE  /\ ListHead \in Stacks
         /\ g_stack_list' \in Stacks \cup {NoStack}
         /\ next' \in [Stacks -> Stacks \cup {NoStack}]
<1>1. ListHead \in Stacks
  BY DEF ListHead, StackType
<1> HIDE DEF ListHead
<1> QED BY <1>1 DEF ListPop, StackType

(* The empty cache satisfies the invariant.                                *)
LEMMA InitCacheInv == StackInit => CacheInv
<1> SUFFICES ASSUME StackInit PROVE CacheInv
  OBVIOUS
<1>1. StackType
  BY DEF StackInit, StackType
<1>2. g_stack_list_nb = 0
  BY DEF StackInit
<1> QED BY <1>1, <1>2, KeepingCount DEF CacheInv

(* A step that changes neither the number of cached stacks upwards nor who *)
(* keeps one.                                                              *)
LEMMA SameKeeping ==
  ASSUME CacheInv, StackType', freeing' = freeing, g_stack_list_nb' <= g_stack_list_nb
  PROVE  CacheInv'
<1>1. Keeping' = Keeping
  BY DEF Keeping
<1> QED BY <1>1, KeepingCount DEF CacheInv, StackType

(* melon_stack_alloc keeps the invariant.                                  *)
LEMMA AllocInv ==
  ASSUME CacheInv, NEW t \in Threads, AllocCached(t) \/ AllocMiss(t) \/ AllocMapped(t)
  PROVE  CacheInv'
<1>1. CASE AllocCached(t)
  <2>1. StackType'
    BY <1>1, PopType DEF AllocCached, CacheInv, StackType
  <2>2. g_stack_list_nb' <= g_stack_list_nb /\ freeing' = freeing
    BY <1>1 DEF AllocCached, CacheInv, StackType
  <2> QED BY <2>1, <2>2, SameKeeping
<1>2. CASE AllocMiss(t) \/ AllocMapped(t)
  <2>1. StackType'
    BY <1>2 DEF AllocMiss, AllocMapped, CacheInv, StackType
  <2>2. g_stack_list_nb' <= g_stack_list_nb /\ freeing' = freeing
    BY <1>2 DEF AllocMiss, AllocMapped, CacheInv, StackType
  <2> QED BY <2>1, <2>2, SameKeeping
<1> QED BY <1>1, <1>2

(* The look at the limit keeps the invariant: a thread goes on to keep its *)
(* stack only when there is room for one of each thread.                   *)
LEMMA FreeCheckInv ==
  ASSUME CacheInv, NEW t \in Threads, NEW s \in Stacks, FreeCheck(t, s)
  PROVE  CacheInv'
<1>1. StackType'
  BY DEF FreeCheck, CacheInv, StackType
<1>2. CASE CacheFull
  <2>1. freeing' = freeing /\ g_stack_list_nb' <= g_stack_list_nb
    BY <1>2 DEF FreeCheck, CacheInv, StackType
  <2> QED BY <1>1, <2>1, SameKeeping
<1>3. CASE ~CacheFull
  <2>1. g_stack_list_nb' = g_stack_list_nb /\ g_stack_list_nb <= Limit
    BY <1>3 DEF FreeCheck, CacheFull, CacheInv, StackType
  <2>2. Keeping' \in SUBSET Threads
    BY DEF Keeping
  <2>3. Cardinality(Keeping') <= Cardinality(Threads) /\ Cardinality(Keeping') \in Nat
    BY <2>2, FS_Subset, FS_CardinalityType
  <2> QED BY <1>1, <2>1, <2>3, KeepingCount DEF CacheInv, StackType
<1> QED BY <1>2, <1>3

(* The push keeps the invariant: one more in the ring, one fewer on its    *)
(* way.                                                                    *)
LEMMA FreePushInv ==
  ASSUME CacheInv, NEW t \in Threads, FreePush(t) PROVE CacheInv'
<1>1. StackType'
  BY DEF FreePush, ListPush, CacheInv, StackType
<1>2. t \in Keeping /\ Keeping' = Keeping \ {t}
  BY DEF FreePush, Keeping, CacheInv, StackType
<1>3. Cardinality(Keeping') = Cardinality(Keeping) - 1
  BY <1>2, KeepingCount, FS_RemoveElement
<1> QED BY <1>1, <1>3, KeepingCount DEF FreePush, CacheInv, StackType

(* melon_stack_deinit and melon_stack_init keep the invariant.             *)
LEMMA LifeInv ==
  ASSUME CacheInv, StackDeinit \/ StackReinit PROVE CacheInv'
<1>1. CASE StackDeinit
  <2>1. StackType'
    BY <1>1, PopType DEF StackDeinit, CacheInv, StackType
  <2>2. g_stack_list_nb' <= g_stack_list_nb /\ freeing' = freeing
    BY <1>1 DEF StackDeinit, CacheInv, StackType
  <2> QED BY <2>1, <2>2, SameKeeping
<1>2. CASE StackReinit
  <2>1. StackType' /\ g_stack_list_nb' = 0
    BY <1>2 DEF StackReinit, CacheInv, StackType
  <2>2. Keeping' = Keeping
    BY <1>2 DEF StackReinit, Keeping
  <2> QED BY <2>1, <2>2, KeepingCount DEF CacheInv
<1> QED BY <1>1, <1>2

(* The cache never exceeds its limit by more than the threads that read    *)
(* its length before others had pushed, though melon_stack_free reads it   *)
(* without the lock.                                                       *)
THEOREM CacheLimit == StackSpec => []CacheBounded
<1>1. CacheInv /\ [StackNext]_stackVars => CacheInv'
  <2> SUFFICES ASSUME CacheInv, [StackNext]_stackVars PROVE CacheInv'
    OBVIOUS
  <2>1. CASE UNCHANGED stackVars
    <3>1. StackType' /\ freeing' = freeing /\ g_stack_list_nb' <= g_stack_list_nb
      BY <2>1 DEF stackVars, CacheInv, StackType
    <3> QED BY <3>1, SameKeeping
  <2> QED BY <2>1, AllocInv, FreeCheckInv, FreePushInv, LifeInv DEF StackNext
<1>2. CacheInv => CacheBounded
  BY KeepingCount DEF CacheInv, CacheBounded, StackType
<1> QED BY <1>1, <1>2, InitCacheInv, PTL DEF StackSpec

----------------------------------------------------------------------------
(* The ring, first element first: each stack links to the next and the     *)
(* last, which g_stack_list points to, to the first.                       *)
Ring(r) ==
  /\ NoDup(r)
  /\ g_stack_list = NoStack <=> r = << >>
  /\ r # << >> => g_stack_list = r[Len(r)] /\ next[r[Len(r)]] = r[1]
  /\ \A i \in 1..Len(r) : i < Len(r) => next[r[i]] = r[i + 1]

(* Where the stacks are that are not in the ring, whose set is S.          *)
Accounted(S) ==
  /\ mapped = S \cup InHand \cup used
  /\ S \cap InHand = {} /\ S \cap used = {} /\ InHand \cap used = {}

(* No stack is freed by two threads.                                       *)
OneHand ==
  \A t, u \in Threads : freeing[t] = freeing[u] /\ freeing[t] # NoStack => t = u

AccountInv ==
  /\ StackType /\ OneHand
  /\ \E r \in Seq(Stacks) :
       /\ Ring(r) /\ Accounted(Elems(r))
       /\ ~down => g_stack_list_nb = Len(r)

(* The stacks of a queue without repetition are as many as it is long.     *)
LEMMA ElemsCount ==
  ASSUME NEW S, NEW q \in Seq(S), NoDup(q)
  PROVE  Cardinality(Elems(q)) = Len(q)
<1>1. Len(q) \in Nat /\ q \in [1..Len(q) -> Elems(q)]
  BY DEF Elems
<1>2. /\ \A i, j \in 1..Len(q) : q[i] = q[j] => i = j
      /\ \A x \in Elems(q) : \E i \in 1..Len(q) : q[i] = x
  BY DEF NoDup, Elems
<1>3. ExistsBijection(1..Len(q), Elems(q))
  BY <1>1, <1>2 DEF ExistsBijection, Bijection, Injection, Surjection, IsInjective
<1> QED BY <1>1, <1>3, FS_CountingElements

(* Following the links from g_stack_list finds the ring and nothing else.  *)
LEMMA RingCached ==
  ASSUME NEW r \in Seq(Stacks), Ring(r) PROVE Cached = Elems(r)
<1>1. Len(r) \in Nat /\ Elems(r) \subseteq Stacks
  BY DEF Elems
<1>2. Cached \subseteq Elems(r)
  <2>1. g_stack_list \in Elems(r) \cup {NoStack}
    <3>1. CASE r # << >>
      <4>1. Len(r) \in 1..Len(r)
        BY <1>1, <3>1, EmptySeq
      <4> QED BY <3>1, <4>1 DEF Ring, Elems
    <3> QED BY <3>1 DEF Ring
  <2>2. ASSUME NEW s \in Elems(r) PROVE next[s] \in Elems(r)
    <3>1. PICK i \in 1..Len(r) : r[i] = s
      BY <2>2 DEF Elems
    <3>2. CASE i < Len(r)
      <4>1. i + 1 \in 1..Len(r) /\ next[s] = r[i + 1]
        BY <1>1, <3>1, <3>2 DEF Ring
      <4> QED BY <4>1 DEF Elems
    <3>3. CASE i = Len(r)
      <4>1. 1 \in 1..Len(r) /\ r # << >>
        BY <1>1, <3>1
      <4>2. next[s] = r[1]
        BY <3>1, <3>3, <4>1 DEF Ring
      <4> QED BY <4>1, <4>2 DEF Elems
    <3> QED BY <1>1, <3>2, <3>3
  <2>3. FollowsLinks(Elems(r))
    BY <2>1, <2>2 DEF FollowsLinks
  <2> QED BY <1>1, <2>3 DEF Cached
<1>3. Elems(r) \subseteq Cached
  <2> SUFFICES ASSUME NEW S \in SUBSET Stacks, FollowsLinks(S), NEW s \in Elems(r), s \notin S
               PROVE  FALSE
    BY <1>1 DEF Cached
  <2> DEFINE T == {i \in 1..Len(r) : r[i] \notin S}
  <2>1. T \subseteq Nat /\ T # {}
    BY <1>1 DEF Elems
  <2>2. PICK m \in T : \A y \in T : m <= y
    BY <2>1, LeastNat, Zenon
  <2>3. m \in 1..Len(r) /\ r[m] \notin S /\ r[m] \in Stacks
    BY <2>2
  <2>4. 1 \in 1..Len(r) /\ Len(r) \in 1..Len(r) /\ r # << >>
    BY <1>1, <2>3
  <2>5. r[1] \in S
    <3>1. g_stack_list = r[Len(r)] /\ next[r[Len(r)]] = r[1] /\ r[Len(r)] \in Stacks /\ r[1] \in Stacks
      BY <2>4 DEF Ring
    <3> QED BY <3>1 DEF FollowsLinks
  <2>6. m - 1 \in 1..Len(r) /\ m - 1 < m /\ m - 1 < Len(r)
    BY <1>1, <2>3, <2>5
  <2>7. m - 1 \notin T
    BY <1>1, <2>2, <2>6
  <2>8. r[m - 1] \in S /\ next[r[m - 1]] = r[m]
    BY <1>1, <2>3, <2>6, <2>7 DEF Ring
  <2> QED BY <2>3, <2>8 DEF FollowsLinks
<1> QED BY <1>2, <1>3

(* melon_list_push makes the stack the last of the ring.                   *)
LEMMA PushRing ==
  ASSUME StackType, NEW r \in Seq(Stacks), Ring(r), NEW s \in Stacks, s \notin Elems(r),
         ListPush(s)
  PROVE  Ring(Append(r, s))'
<1> DEFINE p == Append(r, s)
<1>1. /\ p \in Seq(Stacks) /\ p # << >> /\ Len(p) = Len(r) + 1 /\ Len(r) \in Nat
      /\ p[Len(r) + 1] = s /\ \A i \in 1..Len(r) : p[i] = r[i] /\ r[i] \in Stacks
  BY AppendProperties
<1>2. NoDup(p)
  BY PushElems DEF Ring, DlistPush
<1> HIDE DEF p
<1>3. g_stack_list' = s /\ next \in [Stacks -> Stacks \cup {NoStack}]
  BY DEF ListPush, StackType
<1>4. CASE r = << >>
  <2>1. Len(p) = 1 /\ next'[s] = s
    BY <1>1, <1>3, <1>4 DEF ListPush, Ring
  <2> QED BY <1>1, <1>2, <1>3, <2>1 DEF Ring, p
<1>5. CASE r # << >>
  <2>1. Len(r) \in 1..Len(r) /\ 1 \in 1..Len(r)
    BY <1>1, <1>5, EmptySeq
  <2>2. /\ g_stack_list = r[Len(r)] /\ g_stack_list \in Stacks /\ g_stack_list # s
        /\ next[g_stack_list] = r[1]
    BY <1>5, <2>1 DEF Ring, Elems
  <2>3. /\ next'[g_stack_list] = s /\ next'[s] = r[1]
        /\ \A x \in Stacks \ {s, g_stack_list} : next'[x] = next[x]
    BY <1>3, <2>2 DEF ListPush
  <2>4. ASSUME NEW i \in 1..Len(p), i < Len(p) PROVE next'[p[i]] = p[i + 1]
    <3>1. CASE i = Len(r)
      BY <1>1, <2>1, <2>2, <2>3, <3>1
    <3>2. CASE i < Len(r)
      <4>1. i \in 1..Len(r) /\ i + 1 \in 1..Len(r)
        BY <1>1, <3>2
      <4>2. r[i] # g_stack_list /\ r[i] # s
        BY <2>1, <2>2, <3>2, <4>1 DEF Ring, NoDup, Elems
      <4>3. next[r[i]] = r[i + 1]
        BY <3>2, <4>1 DEF Ring
      <4> QED BY <1>1, <2>3, <4>1, <4>2, <4>3
    <3> QED BY <1>1, <2>4, <3>1, <3>2
  <2>5. next'[p[Len(p)]] = p[1] /\ g_stack_list' = p[Len(p)]
    BY <1>1, <1>3, <2>1, <2>3
  <2> QED BY <1>1, <1>2, <1>3, <2>4, <2>5 DEF Ring, p
<1> QED BY <1>4, <1>5

(* melon_list_pop takes the first of the ring.                             *)
LEMMA PopRing ==
  ASSUME StackType, NEW r \in Seq(Stacks), Ring(r), g_stack_list # NoStack, ListPop
  PROVE  r # << >> /\ ListHead = Head(r) /\ Ring(Tail(r))'
<1> DEFINE p == Tail(r)
<1>1. r # << >> /\ Len(r) \in Nat /\ Len(r) >= 1
  BY EmptySeq DEF Ring
<1>2. /\ p \in Seq(Stacks) /\ Len(p) = Len(r) - 1 /\ Head(r) = r[1] /\ NoDup(p)
      /\ \A i \in 1..Len(p) : p[i] = r[i + 1]
  BY <1>1, PopElems, HeadTailProperties DEF Ring
<1> HIDE DEF p
<1>3. 1 \in 1..Len(r) /\ Len(r) \in 1..Len(r) /\ \A i \in 1..Len(r) : r[i] \in Stacks
  BY <1>1
<1>4. g_stack_list = r[Len(r)] /\ next[g_stack_list] = r[1] /\ r[1] # NoStack
  BY <1>1, <1>3 DEF Ring
<1>5. ListHead = r[1]
  BY <1>4 DEF ListHead
<1>6. next \in [Stacks -> Stacks \cup {NoStack}]
  BY DEF StackType
<1>7. CASE Len(r) = 1
  <2>1. g_stack_list' = NoStack
    BY <1>4, <1>5, <1>7 DEF ListPop
  <2>2. p = << >>
    BY <1>2, <1>7, EmptySeq
  <2> QED BY <1>1, <1>2, <1>5, <2>1, <2>2 DEF Ring, p, NoDup
<1>8. CASE Len(r) > 1
  <2>1. r[1] # r[Len(r)] /\ 1 \in 1..Len(r) /\ 2 \in 1..Len(r) /\ next[r[1]] = r[2]
    BY <1>1, <1>3, <1>8 DEF Ring, NoDup
  <2>2. /\ g_stack_list' = g_stack_list /\ next'[g_stack_list] = r[2]
        /\ \A x \in Stacks \ {r[1], g_stack_list} : next'[x] = next[x]
    BY <1>3, <1>4, <1>5, <1>6, <2>1 DEF ListPop
  <2>3. p # << >> /\ p[Len(p)] = r[Len(r)] /\ p[1] = r[2]
    BY <1>1, <1>2, <1>8
  <2>4. ASSUME NEW i \in 1..Len(p), i < Len(p) PROVE next'[p[i]] = p[i + 1]
    <3>1. /\ i + 1 \in 1..Len(r) /\ i + 2 \in 1..Len(r) /\ i + 1 # Len(r) /\ i + 1 # 1
          /\ i + 1 \in 1..Len(p) /\ i + 1 < Len(r)
      BY <1>1, <1>2, <2>4
    <3>2. r[i + 1] # r[1] /\ r[i + 1] # r[Len(r)]
      BY <1>3, <3>1 DEF Ring, NoDup
    <3>3. next[r[i + 1]] = r[i + 2] /\ p[i] = r[i + 1] /\ p[i + 1] = r[i + 2]
      <4>1. i + 1 + 1 = i + 2
        OBVIOUS
      <4> QED BY <1>2, <3>1, <4>1 DEF Ring
    <3> QED BY <1>3, <1>4, <2>2, <3>1, <3>2, <3>3
  <2>5. Ring(p)'
    BY <1>2, <1>4, <2>2, <2>3, <2>4 DEF Ring
  <2> QED BY <1>1, <1>2, <1>5, <2>5 DEF p
<1>9. Len(r) = 1 \/ Len(r) > 1
  <2>1. \A n \in Nat : n >= 1 => n = 1 \/ n > 1
    OBVIOUS
  <2> QED BY <1>1, <2>1, Zenon
<1> QED BY <1>7, <1>8, <1>9, Zenon

(* The empty cache.                                                        *)
LEMMA InitAccountInv == StackInit => AccountInv
<1> SUFFICES ASSUME StackInit PROVE AccountInv
  OBVIOUS
<1>1. StackType /\ OneHand
  BY DEF StackInit, StackType, OneHand
<1>2. << >> \in Seq(Stacks) /\ Len(<< >>) = 0 /\ Elems(<< >>) = {} /\ NoDup(<< >>)
  BY DEF Elems, NoDup
<1>3. InHand = {}
  BY DEF StackInit, InHand
<1>4. Ring(<< >>) /\ Accounted(Elems(<< >>)) /\ (~down => g_stack_list_nb = Len(<< >>))
  BY <1>2, <1>3 DEF Ring, Accounted, StackInit
<1> QED BY <1>1, <1>2, <1>4 DEF AccountInv

(* A step that leaves the ring and the threads' stacks alone.              *)
LEMMA SameRing ==
  ASSUME NEW r \in Seq(Stacks), Ring(r), next' = next, g_stack_list' = g_stack_list
  PROVE  Ring(r)'
  BY DEF Ring

(* melon_stack_alloc and melon_stack_deinit take a stack from the ring.    *)
LEMMA TakeAccount ==
  ASSUME AccountInv, g_stack_list # NoStack, ListPop, freeing' = freeing,
         \/ /\ used' = used \cup {ListHead} /\ mapped' = mapped
            /\ g_stack_list_nb' = g_stack_list_nb - 1 /\ down' = down
         \/ /\ used' = used /\ mapped' = mapped \ {ListHead} /\ down' = TRUE
            /\ g_stack_list_nb' = g_stack_list_nb
  PROVE  AccountInv'
<1>1. PICK r \in Seq(Stacks) :
        /\ Ring(r) /\ Accounted(Elems(r)) /\ (~down => g_stack_list_nb = Len(r))
  BY DEF AccountInv
<1>2. r # << >> /\ ListHead = Head(r) /\ Ring(Tail(r))'
  BY <1>1, PopRing DEF AccountInv
<1>3. StackType'
  BY PopType DEF AccountInv, StackType
<1>4. OneHand' /\ InHand' = InHand
  BY DEF AccountInv, OneHand, InHand
<1>5. /\ Tail(r) \in Seq(Stacks) /\ Elems(Tail(r)) = Elems(r) \ {ListHead} /\ ListHead \in Elems(r)
      /\ Len(Tail(r)) = Len(r) - 1
  BY <1>1, <1>2, PopElems, HeadTailProperties DEF Ring
<1>6. Accounted(Elems(Tail(r)))'
  BY <1>1, <1>4, <1>5 DEF Accounted
<1>7. ~down' => g_stack_list_nb' = Len(Tail(r))
  BY <1>1, <1>5
<1> QED BY <1>2, <1>3, <1>4, <1>5, <1>6, <1>7 DEF AccountInv

(* A miss, and what the mapping then gives.                                *)
LEMMA MapAccount ==
  ASSUME AccountInv, NEW t \in Threads, AllocMiss(t) \/ AllocMapped(t) PROVE AccountInv'
<1>1. PICK r \in Seq(Stacks) :
        /\ Ring(r) /\ Accounted(Elems(r)) /\ (~down => g_stack_list_nb = Len(r))
  BY DEF AccountInv
<1>2. /\ g_stack_list' = g_stack_list /\ next' = next /\ freeing' = freeing /\ down' = down
      /\ g_stack_list_nb' = g_stack_list_nb
      /\ \/ mapped' = mapped /\ used' = used
         \/ \E s \in Stacks \ mapped : mapped' = mapped \cup {s} /\ used' = used \cup {s}
  BY DEF AllocMiss, AllocMapped
<1>3. StackType'
  BY <1>2 DEF AccountInv, StackType
<1>4. OneHand' /\ InHand' = InHand /\ Ring(r)'
  BY <1>1, <1>2, SameRing DEF AccountInv, OneHand, InHand
<1>5. Accounted(Elems(r))'
  BY <1>1, <1>2, <1>4 DEF Accounted
<1> QED BY <1>1, <1>2, <1>3, <1>4, <1>5 DEF AccountInv

(* The look at the limit: the stack is unmapped or on its way.             *)
LEMMA FreeCheckAccount ==
  ASSUME AccountInv, NEW t \in Threads, NEW s \in Stacks, FreeCheck(t, s) PROVE AccountInv'
<1>1. PICK r \in Seq(Stacks) :
        /\ Ring(r) /\ Accounted(Elems(r)) /\ (~down => g_stack_list_nb = Len(r))
  BY DEF AccountInv
<1>2. /\ g_stack_list' = g_stack_list /\ next' = next /\ down' = down
      /\ g_stack_list_nb' = g_stack_list_nb
      /\ s \in used /\ used' = used \ {s} /\ freeing[t] = NoStack
      /\ \/ mapped' = mapped \ {s} /\ freeing' = freeing
         \/ mapped' = mapped /\ freeing' = [freeing EXCEPT ![t] = s]
  BY DEF FreeCheck, Idle
<1>3. StackType' /\ Ring(r)'
  BY <1>1, <1>2, SameRing DEF AccountInv, StackType
<1>4. s \notin InHand /\ s \notin Elems(r) /\ s # NoStack
  BY <1>1, <1>2 DEF Accounted
<1>5. CASE freeing' = freeing
  <2>1. OneHand' /\ InHand' = InHand
    BY <1>5 DEF AccountInv, OneHand, InHand
  <2>2. freeing # [freeing EXCEPT ![t] = s]
    BY <1>2, <1>4 DEF AccountInv, StackType
  <2>3. Accounted(Elems(r))'
    BY <1>1, <1>2, <1>4, <1>5, <2>1, <2>2 DEF Accounted
  <2> QED BY <1>1, <1>2, <1>3, <2>1, <2>3 DEF AccountInv
<1>6. CASE mapped' = mapped /\ freeing' = [freeing EXCEPT ![t] = s]
  <2>1. freeing'[t] = s /\ \A u \in Threads \ {t} : freeing'[u] = freeing[u]
    BY <1>6 DEF AccountInv, StackType
  <2>2. InHand' = InHand \cup {s}
    BY <1>2, <1>4, <2>1 DEF InHand
  <2>3. OneHand'
    BY <1>4, <2>1 DEF AccountInv, OneHand, InHand
  <2>4. Accounted(Elems(r))'
    BY <1>1, <1>2, <1>4, <1>6, <2>2 DEF Accounted
  <2> QED BY <1>1, <1>2, <1>3, <2>3, <2>4 DEF AccountInv
<1> QED BY <1>2, <1>5, <1>6

(* The push.                                                               *)
LEMMA FreePushAccount ==
  ASSUME AccountInv, NEW t \in Threads, FreePush(t) PROVE AccountInv'
<1>1. PICK r \in Seq(Stacks) :
        /\ Ring(r) /\ Accounted(Elems(r)) /\ (~down => g_stack_list_nb = Len(r))
  BY DEF AccountInv
<1>2. PICK s \in Stacks : s = freeing[t]
  BY DEF FreePush, AccountInv, StackType
<1>3. /\ ListPush(s) /\ freeing' = [freeing EXCEPT ![t] = NoStack] /\ mapped' = mapped
      /\ used' = used /\ down' = down /\ g_stack_list_nb' = g_stack_list_nb + 1 /\ s # NoStack
  BY <1>2 DEF FreePush
<1>4. freeing'[t] = NoStack /\ \A u \in Threads \ {t} : freeing'[u] = freeing[u] /\ freeing[u] # s
  BY <1>2, <1>3 DEF AccountInv, StackType, OneHand
<1>5. StackType'
  BY <1>3 DEF AccountInv, StackType, ListPush
<1>6. s \in InHand /\ InHand' = InHand \ {s}
  BY <1>2, <1>3, <1>4 DEF InHand
<1>7. OneHand'
  BY <1>4 DEF AccountInv, OneHand
<1>8. s \notin Elems(r)
  BY <1>1, <1>6 DEF Accounted
<1>9. Ring(Append(r, s))'
  BY <1>1, <1>3, <1>8, PushRing DEF AccountInv
<1>10. /\ Append(r, s) \in Seq(Stacks) /\ Elems(Append(r, s)) = Elems(r) \cup {s}
       /\ Len(Append(r, s)) = Len(r) + 1
  BY PushElems, AppendProperties DEF DlistPush
<1>11. Accounted(Elems(Append(r, s)))'
  BY <1>1, <1>3, <1>6, <1>8, <1>10 DEF Accounted
<1>12. ~down' => g_stack_list_nb' = Len(Append(r, s))
  BY <1>1, <1>3, <1>10
<1> QED BY <1>5, <1>7, <1>9, <1>10, <1>11, <1>12 DEF AccountInv

(* melon_stack_init, again: nothing is in the ring.                        *)
LEMMA ReinitAccount ==
  ASSUME AccountInv, StackReinit PROVE AccountInv'
<1>1. PICK r \in Seq(Stacks) :
        /\ Ring(r) /\ Accounted(Elems(r)) /\ (~down => g_stack_list_nb = Len(r))
  BY DEF AccountInv
<1>2. r = << >> /\ Len(r) = 0
  BY <1>1, EmptySeq DEF StackReinit, Ring
<1>3. StackType' /\ OneHand'
  BY DEF StackReinit, AccountInv, StackType, OneHand
<1>4. Ring(r)'
  BY <1>1, SameRing DEF StackReinit
<1>5. Accounted(Elems(r))'
  BY <1>1 DEF StackReinit, Accounted, InHand
<1>6. g_stack_list_nb' = Len(r)
  BY <1>2 DEF StackReinit
<1> QED BY <1>3, <1>4, <1>5, <1>6 DEF AccountInv

(* For any number of threads and stacks, no stack is ever given to two     *)
(* fibers, leaked, or unmapped while it is linked, and the counter is the  *)
(* length of the ring: melon_list_push and melon_list_pop keep one ring of *)
(* exactly the stacks that are free.                                       *)
THEOREM StacksKept == StackSpec => []StacksAccounted
<1>1. AccountInv /\ [StackNext]_stackVars => AccountInv'
  <2> SUFFICES ASSUME AccountInv, [StackNext]_stackVars PROVE AccountInv'
    OBVIOUS
  <2>1. CASE UNCHANGED stackVars
    BY <2>1 DEF stackVars, AccountInv, StackType, OneHand, Ring, Accounted, InHand
  <2>2. ASSUME NEW t \in Threads, AllocCached(t) PROVE AccountInv'
    BY <2>2, TakeAccount DEF AllocCached
  <2>3. CASE StackDeinit
    BY <2>3, TakeAccount DEF StackDeinit
  <2> QED BY <2>1, <2>2, <2>3, MapAccount, FreeCheckAccount, FreePushAccount, ReinitAccount
          DEF StackNext
<1>2. AccountInv => StacksAccounted
  <2> SUFFICES ASSUME AccountInv PROVE StacksAccounted
    OBVIOUS
  <2>1. PICK r \in Seq(Stacks) :
          /\ Ring(r) /\ Accounted(Elems(r)) /\ (~down => g_stack_list_nb = Len(r))
    BY DEF AccountInv
  <2>2. Cached = Elems(r) /\ Cardinality(Elems(r)) = Len(r)
    BY <2>1, RingCached, ElemsCount DEF Ring
  <2> QED BY <2>1, <2>2 DEF StacksAccounted, Accounted
<1> QED BY <1>1, <1>2, InitAccountInv, PTL DEF StackSpec
=============================================================================
