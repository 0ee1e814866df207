---------------------------- MODULE DlistProofs ----------------------------
(***************************************************************************)
(* What the queue operators of module Dlist return, for every queue: their *)
(* elements, that no fiber is linked twice, and that the timer queue stays *)
(* sorted.                                                                 *)
(***************************************************************************)
EXTENDS Dlist, SequenceTheorems, WellFoundedInduction, NaturalsInduction, TLAPS

(* Removing at a place shifts what follows by one.                         *)
LEMMA RemoveAtShape ==
  ASSUME NEW S, NEW q \in Seq(S), NEW i \in 1..Len(q)
  PROVE  /\ RemoveAt(q, i) \in Seq(S)
         /\ Len(RemoveAt(q, i)) = Len(q) - 1
         /\ \A k \in 1..(Len(q) - 1) :
              RemoveAt(q, i)[k] = IF k < i THEN q[k] ELSE q[k + 1]
<1> DEFINE a == SubSeq(q, 1, i - 1)
           b == SubSeq(q, i + 1, Len(q))
<1>1. /\ a \in Seq(S) /\ Len(a) = i - 1
      /\ \A k \in 1..(i - 1) : a[k] = q[k]
  <2>1. \A k \in 1..(i - 1) : k \in 1..Len(q)
    OBVIOUS
  <2> QED BY <2>1, SubSeqProperties
<1>2. /\ b \in Seq(S) /\ Len(b) = Len(q) - i
      /\ \A k \in 1..(Len(q) - i) : b[k] = q[i + k]
  <2>1. \A k \in (i + 1)..Len(q) : k \in 1..Len(q)
    OBVIOUS
  <2> QED BY <2>1, SubSeqProperties
<1>3. RemoveAt(q, i) = a \o b
  BY DEF RemoveAt
<1> HIDE DEF a, b
<1>4. /\ a \o b \in Seq(S)
      /\ Len(a \o b) = Len(a) + Len(b)
      /\ \A k \in 1..(Len(a) + Len(b)) :
           (a \o b)[k] = IF k <= Len(a) THEN a[k] ELSE b[k - Len(a)]
  BY <1>1, <1>2, ConcatProperties
<1> QED BY <1>1, <1>2, <1>3, <1>4

(* Inserting at a place shifts what follows by one.                        *)
LEMMA InsertAtShape ==
  ASSUME NEW S, NEW q \in Seq(S), NEW i \in 1..(Len(q) + 1), NEW x \in S
  PROVE  /\ InsertAt(q, i, x) \in Seq(S)
         /\ Len(InsertAt(q, i, x)) = Len(q) + 1
         /\ \A k \in 1..(Len(q) + 1) :
              InsertAt(q, i, x)[k] =
                IF k < i THEN q[k] ELSE IF k = i THEN x ELSE q[k - 1]
<1> DEFINE a == SubSeq(q, 1, i - 1)
           b == SubSeq(q, i, Len(q))
           c == a \o <<x>>
<1>1. /\ a \in Seq(S) /\ Len(a) = i - 1
      /\ \A k \in 1..(i - 1) : a[k] = q[k]
  <2>1. \A k \in 1..(i - 1) : k \in 1..Len(q)
    OBVIOUS
  <2> QED BY <2>1, SubSeqProperties
<1>2. /\ b \in Seq(S) /\ Len(b) = Len(q) - i + 1
      /\ \A k \in 1..(Len(q) - i + 1) : b[k] = q[i + k - 1]
  <2>1. \A k \in i..Len(q) : k \in 1..Len(q)
    OBVIOUS
  <2> QED BY <2>1, SubSeqProperties
<1>3. InsertAt(q, i, x) = c \o b
  BY DEF InsertAt
<1> HIDE DEF a, b
<1>4. /\ c \in Seq(S)
      /\ Len(c) = i
      /\ \A k \in 1..i : c[k] = IF k < i THEN q[k] ELSE x
  <2>1. /\ <<x>> \in Seq(S) /\ Len(<<x>>) = 1 /\ <<x>>[1] = x
    OBVIOUS
  <2>2. /\ a \o <<x>> \in Seq(S)
        /\ Len(a \o <<x>>) = Len(a) + 1
        /\ \A k \in 1..(Len(a) + 1) :
             (a \o <<x>>)[k] = IF k <= Len(a) THEN a[k] ELSE <<x>>[k - Len(a)]
    BY <1>1, <2>1, ConcatProperties
  <2> QED BY <1>1, <2>1, <2>2
<1> HIDE DEF c
<1>5. /\ c \o b \in Seq(S)
      /\ Len(c \o b) = Len(c) + Len(b)
      /\ \A k \in 1..(Len(c) + Len(b)) :
           (c \o b)[k] = IF k <= Len(c) THEN c[k] ELSE b[k - Len(c)]
  BY <1>2, <1>4, ConcatProperties
<1>6. ASSUME NEW k \in 1..(Len(q) + 1)
      PROVE  (c \o b)[k] = IF k < i THEN q[k] ELSE IF k = i THEN x ELSE q[k - 1]
  <2>1. CASE k <= i
    BY <1>2, <1>4, <1>5, <2>1
  <2>2. CASE k > i
    <3>1. /\ (c \o b)[k] = b[k - i]
          /\ k - i \in 1..(Len(q) - i + 1)
      BY <1>2, <1>4, <1>5, <2>2
    <3>2. b[k - i] = q[i + (k - i) - 1]
      BY <1>2, <3>1
    <3>3. i + (k - i) - 1 = k - 1
      OBVIOUS
    <3> QED BY <2>2, <3>1, <3>2, <3>3
  <2>3. k <= i \/ k > i
    OBVIOUS
  <2> QED BY <2>1, <2>2, <2>3
<1> QED BY <1>2, <1>3, <1>4, <1>5, <1>6

(* melon_dlist_push adds the item at the end.                              *)
LEMMA PushElems ==
  ASSUME NEW S, NEW q \in Seq(S), NEW x \in S
  PROVE  /\ DlistPush(q, x) \in Seq(S)
         /\ DlistPush(q, x) # << >>
         /\ Elems(DlistPush(q, x)) = Elems(q) \cup {x}
         /\ q # << >> => Head(DlistPush(q, x)) = Head(q)
         /\ NoDup(q) /\ x \notin Elems(q) => NoDup(DlistPush(q, x))
<1> DEFINE p == Append(q, x)
<1>1. /\ p \in Seq(S) /\ p # << >>
      /\ Len(p) = Len(q) + 1
      /\ \A i \in 1..Len(q) : p[i] = q[i]
      /\ p[Len(q) + 1] = x
  BY AppendProperties
<1>2. DlistPush(q, x) = p
  BY DEF DlistPush
<1>3. q # << >> => Head(p) = Head(q)
  BY HeadTailAppend
<1> HIDE DEF p
<1>4. Elems(p) = Elems(q) \cup {x}
  <2>1. Elems(p) \subseteq Elems(q) \cup {x}
    BY <1>1 DEF Elems
  <2>2. x \in Elems(p)
    <3>1. Len(q) + 1 \in 1..Len(p)
      BY <1>1
    <3> QED BY <1>1, <3>1 DEF Elems
  <2>3. Elems(q) \subseteq Elems(p)
    BY <1>1 DEF Elems
  <2> QED BY <2>1, <2>2, <2>3
<1>5. ASSUME NoDup(q), x \notin Elems(q) PROVE NoDup(p)
  <2> SUFFICES ASSUME NEW i \in 1..Len(p), NEW j \in 1..Len(p), p[i] = p[j]
               PROVE  i = j
    BY DEF NoDup
  <2>1. CASE i <= Len(q) /\ j <= Len(q)
    BY <1>1, <1>5, <2>1 DEF NoDup
  <2>2. CASE i = Len(q) + 1 /\ j <= Len(q)
    BY <1>1, <1>5, <2>2 DEF Elems
  <2>3. CASE i <= Len(q) /\ j = Len(q) + 1
    BY <1>1, <1>5, <2>3 DEF Elems
  <2> QED BY <1>1, <2>1, <2>2, <2>3
<1> QED BY <1>1, <1>2, <1>3, <1>4, <1>5

(* Popping removes the head and nothing else.                              *)
LEMMA PopElems ==
  ASSUME NEW S, NEW q \in Seq(S), q # << >>
  PROVE  /\ Head(q) \in Elems(q)
         /\ Head(q) = q[1]
         /\ Tail(q) \in Seq(S)
         /\ Elems(Tail(q)) \subseteq Elems(q)
         /\ Elems(q) \ {Head(q)} \subseteq Elems(Tail(q))
         /\ NoDup(q) => NoDup(Tail(q)) /\ Elems(Tail(q)) = Elems(q) \ {Head(q)}
<1>1. /\ Tail(q) \in Seq(S) /\ Len(Tail(q)) = Len(q) - 1
      /\ \A i \in 1..(Len(q) - 1) : Tail(q)[i] = q[i + 1]
  BY HeadTailProperties
<1>2. Len(q) \in Nat \ {0} /\ Head(q) = q[1]
  BY EmptySeq
<1>3. Head(q) \in Elems(q)
  BY <1>2 DEF Elems
<1>4. Elems(Tail(q)) \subseteq Elems(q)
  BY <1>1, <1>2 DEF Elems
<1>5. Elems(q) \ {Head(q)} \subseteq Elems(Tail(q))
  <2> SUFFICES ASSUME NEW i \in 1..Len(q), q[i] # q[1]
               PROVE  q[i] \in Elems(Tail(q))
    BY <1>2 DEF Elems
  <2>1. i - 1 \in 1..Len(Tail(q)) /\ Tail(q)[i - 1] = q[i]
    BY <1>1, <1>2
  <2> QED BY <2>1 DEF Elems
<1>6. ASSUME NoDup(q) PROVE NoDup(Tail(q)) /\ Head(q) \notin Elems(Tail(q))
  <2>1. NoDup(Tail(q))
    <3> SUFFICES ASSUME NEW i \in 1..Len(Tail(q)), NEW j \in 1..Len(Tail(q)),
                        Tail(q)[i] = Tail(q)[j]
                 PROVE  i = j
      BY DEF NoDup
    <3>1. q[i + 1] = q[j + 1] /\ i + 1 \in 1..Len(q) /\ j + 1 \in 1..Len(q)
      BY <1>1, <1>2
    <3> QED BY <1>6, <3>1 DEF NoDup
  <2>2. ASSUME NEW i \in 1..Len(Tail(q)), Tail(q)[i] = q[1] PROVE FALSE
    <3>1. q[i + 1] = q[1] /\ i + 1 \in 1..Len(q) /\ 1 \in 1..Len(q)
      BY <1>1, <1>2, <2>2
    <3> QED BY <1>1, <1>2, <1>6, <3>1 DEF NoDup
  <2> QED BY <1>2, <2>1, <2>2 DEF Elems
<1> QED BY <1>1, <1>2, <1>3, <1>4, <1>5, <1>6

(* An empty list has no elements, and no other.                            *)
LEMMA EmptyElems ==
  ASSUME NEW S, NEW q \in Seq(S)
  PROVE  /\ Elems(q) = {} <=> q = << >>
         /\ Elems(<< >>) = {} /\ NoDup(<< >>) /\ << >> \in Seq(S)
         /\ Elems(q) \subseteq S
<1>1. Elems(<< >>) = {} /\ NoDup(<< >>) /\ << >> \in Seq(S)
  BY DEF Elems, NoDup
<1>2. q # << >> => Head(q) \in Elems(q)
  BY PopElems
<1>3. Elems(q) \subseteq S
  BY DEF Elems
<1> QED BY <1>1, <1>2, <1>3

(* The elements of two queues one after the other.                         *)
LEMMA ConcatElems ==
  ASSUME NEW S, NEW p \in Seq(S), NEW q \in Seq(S)
  PROVE  /\ p \o q \in Seq(S)
         /\ Elems(p \o q) = Elems(p) \cup Elems(q)
         /\ NoDup(p) /\ NoDup(q) /\ Elems(p) \cap Elems(q) = {} => NoDup(p \o q)
<1> DEFINE c == p \o q
<1>1. /\ c \in Seq(S) /\ Len(c) = Len(p) + Len(q)
      /\ \A i \in 1..(Len(p) + Len(q)) :
           c[i] = IF i <= Len(p) THEN p[i] ELSE q[i - Len(p)]
  BY ConcatProperties
<1>2. Len(p) \in Nat /\ Len(q) \in Nat
  OBVIOUS
<1> HIDE DEF c
<1>3. \A i \in 1..Len(p) : i \in 1..Len(c) /\ c[i] = p[i]
  BY <1>1, <1>2
<1>4. \A i \in 1..Len(q) : Len(p) + i \in 1..Len(c) /\ c[Len(p) + i] = q[i]
  <2> SUFFICES ASSUME NEW i \in 1..Len(q)
               PROVE  Len(p) + i \in 1..Len(c) /\ c[Len(p) + i] = q[i]
    OBVIOUS
  <2>1. Len(p) + i \in 1..(Len(p) + Len(q)) /\ ~(Len(p) + i <= Len(p))
        /\ (Len(p) + i) - Len(p) = i
    BY <1>2
  <2> QED BY <1>1, <2>1
<1>5. \A i \in 1..Len(c) :
        \/ i \in 1..Len(p) /\ c[i] = p[i]
        \/ i - Len(p) \in 1..Len(q) /\ c[i] = q[i - Len(p)] /\ i > Len(p)
  BY <1>1, <1>2
<1>6. Elems(c) = Elems(p) \cup Elems(q)
  <2>1. Elems(c) \subseteq Elems(p) \cup Elems(q)
    BY <1>5 DEF Elems
  <2>2. Elems(p) \subseteq Elems(c)
    BY <1>3 DEF Elems
  <2>3. Elems(q) \subseteq Elems(c)
    BY <1>4 DEF Elems
  <2> QED BY <2>1, <2>2, <2>3
<1>7. ASSUME NoDup(p), NoDup(q), Elems(p) \cap Elems(q) = {} PROVE NoDup(c)
  <2> SUFFICES ASSUME NEW i \in 1..Len(c), NEW j \in 1..Len(c), c[i] = c[j]
               PROVE  i = j
    BY DEF NoDup
  <2>1. CASE i \in 1..Len(p) /\ j \in 1..Len(p)
    BY <1>3, <1>7, <2>1 DEF NoDup
  <2>2. CASE i \notin 1..Len(p) /\ j \notin 1..Len(p)
    <3>1. i - Len(p) = j - Len(p)
      BY <1>5, <1>7, <2>2 DEF NoDup
    <3> QED BY <1>2, <3>1
  <2>3. \A a \in 1..Len(p), b \in 1..Len(q) : p[a] # q[b]
    BY <1>7 DEF Elems
  <2> QED BY <1>5, <2>1, <2>2, <2>3
<1> QED BY <1>1, <1>6, <1>7 DEF c

(* melon_dlist_unlink of a linked item removes it and nothing else.        *)
LEMMA UnlinkElems ==
  ASSUME NEW S, NEW q \in Seq(S), NoDup(q), NEW x \in Elems(q)
  PROVE  /\ DlistUnlink(q, x) \in Seq(S)
         /\ NoDup(DlistUnlink(q, x))
         /\ Elems(DlistUnlink(q, x)) = Elems(q) \ {x}
<1> DEFINE i == PositionOf(q, x)
           u == RemoveAt(q, i)
<1>1. i \in 1..Len(q) /\ q[i] = x
  BY DEF PositionOf, Elems
<1>2. /\ u \in Seq(S)
      /\ Len(u) = Len(q) - 1
      /\ \A k \in 1..(Len(q) - 1) : u[k] = IF k < i THEN q[k] ELSE q[k + 1]
  BY <1>1, RemoveAtShape
<1>3. DlistUnlink(q, x) = u
  <2>1. CASE Len(q) = 1
    <3>1. u = << >>
      BY <1>2, <2>1, EmptySeq
    <3> QED BY <2>1, <3>1 DEF DlistUnlink
  <2>2. CASE Len(q) # 1
    BY <2>2 DEF DlistUnlink
  <2> QED BY <2>1, <2>2
<1> HIDE DEF i, u
<1>8. \A k \in 1..Len(u) :
        \/ k < i /\ k \in 1..Len(q) /\ u[k] = q[k]
        \/ k >= i /\ k + 1 \in 1..Len(q) /\ u[k] = q[k + 1]
  BY <1>1, <1>2
<1>4. NoDup(u)
  <2> SUFFICES ASSUME NEW k \in 1..Len(u), NEW l \in 1..Len(u), u[k] = u[l]
               PROVE  k = l
    BY DEF NoDup
  <2>1. CASE k < i /\ l < i
    BY <1>1, <1>8, <2>1 DEF NoDup
  <2>2. CASE k < i /\ l >= i
    <3>1. q[k] = q[l + 1] /\ k \in 1..Len(q) /\ l + 1 \in 1..Len(q)
      BY <1>1, <1>8, <2>2
    <3> QED BY <1>1, <2>2, <3>1 DEF NoDup
  <2>3. CASE k >= i /\ l < i
    <3>1. q[k + 1] = q[l] /\ k + 1 \in 1..Len(q) /\ l \in 1..Len(q)
      BY <1>1, <1>8, <2>3
    <3> QED BY <1>1, <2>3, <3>1 DEF NoDup
  <2>4. CASE k >= i /\ l >= i
    <3>1. q[k + 1] = q[l + 1] /\ k + 1 \in 1..Len(q) /\ l + 1 \in 1..Len(q)
      BY <1>1, <1>8, <2>4
    <3> QED BY <1>1, <2>4, <3>1 DEF NoDup
  <2> QED BY <1>8, <2>1, <2>2, <2>3, <2>4
<1>5. Elems(u) \subseteq Elems(q) \ {x}
  <2> SUFFICES ASSUME NEW k \in 1..Len(u)
               PROVE  u[k] \in Elems(q) /\ u[k] # x
    BY DEF Elems
  <2>1. PICK j \in 1..Len(q) : u[k] = q[j] /\ j # i
    BY <1>1, <1>8
  <2> QED BY <1>1, <2>1 DEF Elems, NoDup
<1>6. ASSUME NEW k \in 1..Len(q), q[k] # x PROVE q[k] \in Elems(u)
  <2>1. CASE k < i
    BY <1>1, <1>2, <1>6, <2>1 DEF Elems
  <2>2. CASE k > i
    <3>1. k - 1 \in 1..Len(u) /\ u[k - 1] = q[k]
      BY <1>1, <1>2, <2>2
    <3> QED BY <3>1 DEF Elems
  <2> QED BY <2>1, <2>2, <1>1, <1>6
<1>7. Elems(q) \ {x} \subseteq Elems(u)
  BY <1>6 DEF Elems
<1> QED BY <1>2, <1>3, <1>4, <1>5, <1>7

(* Unlinking keeps the timer queue sorted.                                 *)
LEMMA UnlinkSorted ==
  ASSUME NEW S, NEW q \in Seq(S), NEW timer \in [S -> Int],
         NEW x \in Elems(q), TimerSorted(q, timer)
  PROVE  TimerSorted(DlistUnlink(q, x), timer)
<1> DEFINE i == PositionOf(q, x)
           u == RemoveAt(q, i)
<1>1. i \in 1..Len(q) /\ q[i] = x
  BY DEF PositionOf, Elems
<1>2. /\ u \in Seq(S)
      /\ Len(u) = Len(q) - 1
      /\ \A k \in 1..(Len(q) - 1) : u[k] = IF k < i THEN q[k] ELSE q[k + 1]
  BY <1>1, RemoveAtShape
<1>3. DlistUnlink(q, x) = u
  <2>1. CASE Len(q) = 1
    <3>1. u = << >>
      BY <1>2, <2>1, EmptySeq
    <3> QED BY <2>1, <3>1 DEF DlistUnlink
  <2>2. CASE Len(q) # 1
    BY <2>2 DEF DlistUnlink
  <2> QED BY <2>1, <2>2
<1> HIDE DEF i, u
<1>8. \A k \in 1..Len(u) :
        \/ k < i /\ k \in 1..Len(q) /\ u[k] = q[k]
        \/ k >= i /\ k + 1 \in 1..Len(q) /\ u[k] = q[k + 1]
  BY <1>1, <1>2
<1>4. TimerSorted(u, timer)
  <2> SUFFICES ASSUME NEW k \in 1..Len(u), NEW l \in 1..Len(u), k < l
               PROVE  timer[u[k]] <= timer[u[l]]
    BY DEF TimerSorted
  <2>1. \E K \in 1..Len(q), L \in 1..Len(q) : K < L /\ u[k] = q[K] /\ u[l] = q[L]
    <3>1. CASE k < i /\ l < i
      BY <1>1, <1>8, <3>1
    <3>2. CASE k < i /\ l >= i
      BY <1>1, <1>8, <3>2
    <3>3. CASE k >= i
      BY <1>1, <1>8, <3>3
    <3> QED BY <1>8, <3>1, <3>2, <3>3
  <2> QED BY <2>1 DEF TimerSorted
<1> QED BY <1>3, <1>4

(* A set of numbers has a least one: how far a scan of a queue goes.       *)
LEMMA LeastNat ==
  ASSUME NEW T, T \subseteq Nat, T # {}
  PROVE  \E m \in T : \A y \in T : m <= y
<1>1. PICK m \in T : \A y \in T : ~(<<y, m>> \in OpToRel(<, Nat))
  BY NatLessThanWellFounded, WFMin, Zenon
<1>2. ASSUME NEW y \in T PROVE m <= y
  <2>1. m \in Nat /\ y \in Nat /\ ~(<<y, m>> \in OpToRel(<, Nat))
    BY <1>1
  <2>2. y < m => <<y, m>> \in OpToRel(<, Nat)
    BY <2>1 DEF OpToRel
  <2>3. ~(y < m)
    BY <2>1, <2>2, Zenon
  <2>4. m \in Nat /\ y \in Nat
    OBVIOUS
  <2> QED BY <2>3, <2>4
<1> QED BY <1>2

(* melon_timer_push_locked always finds a place.                           *)
LEMMA TimerPositionExists ==
  ASSUME NEW S, NEW q \in Seq(S), NEW timer \in [S -> Int], NEW t \in Int
  PROVE  LET i == TimerPosition(q, timer, t)
         IN  /\ i \in 1..(Len(q) + 1)
             /\ \A j \in 1..(i - 1) : timer[q[j]] < t
             /\ i <= Len(q) => t <= timer[q[i]]
<1> DEFINE T == {i \in 1..(Len(q) + 1) : i = Len(q) + 1 \/ t <= timer[q[i]]}
<1>1. T \subseteq Nat /\ Len(q) + 1 \in T
  OBVIOUS
<1> HIDE DEF T
<1>2. PICK m \in T : \A y \in T : m <= y
  BY <1>1, LeastNat
<1>4. /\ m \in 1..(Len(q) + 1)
      /\ \A j \in 1..(m - 1) : timer[q[j]] < t
      /\ m <= Len(q) => t <= timer[q[m]]
  <2>1. m \in 1..(Len(q) + 1) /\ (m <= Len(q) => t <= timer[q[m]])
    BY DEF T
  <2>2. ASSUME NEW j \in 1..(m - 1) PROVE timer[q[j]] < t
    <3>1. j \in 1..Len(q) /\ j \notin T
      BY <1>2, <2>1
    <3>2. timer[q[j]] \in Int
      BY <3>1, ElementOfSeq
    <3> QED BY <3>1, <3>2 DEF T
  <2> QED BY <2>1, <2>2
<1> QED BY <1>4 DEF TimerPosition

(* Inserting before the first element that is not smaller keeps the order. *)
LEMMA InsertSorted ==
  ASSUME NEW S, NEW q \in Seq(S), NEW timer \in [S -> Int], NEW f \in S,
         NEW i \in 1..(Len(q) + 1),
         \A j \in 1..(i - 1) : timer[q[j]] < timer[f],
         i <= Len(q) => timer[f] <= timer[q[i]]
  PROVE  /\ InsertAt(q, i, f) \in Seq(S)
         /\ Elems(InsertAt(q, i, f)) = Elems(q) \cup {f}
         /\ NoDup(q) /\ f \notin Elems(q) => NoDup(InsertAt(q, i, f))
         /\ TimerSorted(q, timer) => TimerSorted(InsertAt(q, i, f), timer)
<1> DEFINE r == InsertAt(q, i, f)
<1>0. timer[f] \in Int /\ \A k \in 1..Len(q) : q[k] \in S /\ timer[q[k]] \in Int
  BY ElementOfSeq
<1>1. /\ i \in 1..(Len(q) + 1)
      /\ \A j \in 1..(i - 1) : timer[q[j]] < timer[f]
      /\ i <= Len(q) => timer[f] <= timer[q[i]]
  OBVIOUS
<1>2. /\ r \in Seq(S)
      /\ Len(r) = Len(q) + 1
      /\ \A k \in 1..(Len(q) + 1) :
           r[k] = IF k < i THEN q[k] ELSE IF k = i THEN f ELSE q[k - 1]
  BY InsertAtShape
<1> HIDE DEF r
<1>9. \A k \in 1..Len(r) :
        \/ k < i /\ k \in 1..Len(q) /\ r[k] = q[k]
        \/ k = i /\ r[k] = f
        \/ k > i /\ k - 1 \in 1..Len(q) /\ r[k] = q[k - 1]
  BY <1>1, <1>2
<1>3. Elems(r) \subseteq Elems(q) \cup {f}
  <2> SUFFICES ASSUME NEW k \in 1..Len(r) PROVE r[k] \in Elems(q) \cup {f}
    BY DEF Elems
  <2>1. k < i => k \in 1..Len(q) /\ r[k] = q[k]
    BY <1>1, <1>2
  <2>2. k > i => k - 1 \in 1..Len(q) /\ r[k] = q[k - 1]
    BY <1>1, <1>2
  <2>3. k = i => r[k] = f
    BY <1>1, <1>2
  <2>4. k < i \/ k = i \/ k > i
    BY <1>1, <1>2
  <2> QED BY <2>1, <2>2, <2>3, <2>4 DEF Elems
<1>4. f \in Elems(r)
  <2>1. i \in 1..Len(r) /\ r[i] = f
    BY <1>1, <1>2
  <2> QED BY <2>1 DEF Elems
<1>5. ASSUME NEW k \in 1..Len(q) PROVE q[k] \in Elems(r)
  <2>1. k < i => k \in 1..Len(r) /\ r[k] = q[k]
    BY <1>1, <1>2
  <2>2. ASSUME k >= i PROVE k + 1 \in 1..Len(r) /\ r[k + 1] = q[k]
    <3>1. k + 1 \in 1..Len(r) /\ k + 1 > i /\ (k + 1) - 1 = k
      BY <1>1, <1>2, <2>2
    <3>2. r[k + 1] = q[(k + 1) - 1]
      BY <1>1, <1>9, <3>1
    <3> QED BY <3>1, <3>2
  <2>3. k < i \/ k >= i
    BY <1>1
  <2> QED BY <2>1, <2>2, <2>3 DEF Elems
<1>6. Elems(q) \subseteq Elems(r)
  BY <1>5 DEF Elems
<1>7. ASSUME NoDup(q), f \notin Elems(q) PROVE NoDup(r)
  <2> SUFFICES ASSUME NEW k \in 1..Len(r), NEW l \in 1..Len(r), r[k] = r[l]
               PROVE  k = l
    BY DEF NoDup
  <2>0. \A j \in 1..Len(q) : q[j] # f
    BY <1>7 DEF Elems
  <2>1. CASE k < i /\ l < i
    BY <1>1, <1>7, <1>9, <2>1 DEF NoDup
  <2>2. CASE k < i /\ l > i
    <3>1. q[k] = q[l - 1] /\ k \in 1..Len(q) /\ l - 1 \in 1..Len(q)
      BY <1>1, <1>9, <2>2
    <3> QED BY <1>1, <1>7, <2>2, <3>1 DEF NoDup
  <2>3. CASE k > i /\ l < i
    <3>1. q[k - 1] = q[l] /\ k - 1 \in 1..Len(q) /\ l \in 1..Len(q)
      BY <1>1, <1>9, <2>3
    <3> QED BY <1>1, <1>7, <2>3, <3>1 DEF NoDup
  <2>4. CASE k > i /\ l > i
    <3>1. q[k - 1] = q[l - 1] /\ k - 1 \in 1..Len(q) /\ l - 1 \in 1..Len(q)
      BY <1>1, <1>9, <2>4
    <3>2. k - 1 = l - 1
      BY <1>7, <3>1 DEF NoDup
    <3> QED BY <3>2
  <2>5. CASE k = i
    <3>1. r[l] = f
      BY <1>9, <2>5
    <3> QED BY <1>9, <2>0, <2>5, <3>1
  <2>6. CASE l = i
    <3>1. r[k] = f
      BY <1>9, <2>6
    <3> QED BY <1>9, <2>0, <2>6, <3>1
  <2> QED BY <1>9, <2>1, <2>2, <2>3, <2>4, <2>5, <2>6
<1>8. ASSUME TimerSorted(q, timer) PROVE TimerSorted(r, timer)
  <2> SUFFICES ASSUME NEW k \in 1..Len(r), NEW l \in 1..Len(r), k < l
               PROVE  timer[r[k]] <= timer[r[l]]
    BY DEF TimerSorted
  <2>1. CASE k # i /\ l # i
    <3>1. \E K \in 1..Len(q), L \in 1..Len(q) : K < L /\ r[k] = q[K] /\ r[l] = q[L]
      <4>1. CASE l < i
        BY <1>1, <1>9, <2>1, <4>1
      <4>2. CASE k < i /\ l > i
        BY <1>1, <1>9, <2>1, <4>2
      <4>3. CASE k > i
        <5>1. /\ k - 1 \in 1..Len(q) /\ r[k] = q[k - 1]
              /\ l - 1 \in 1..Len(q) /\ r[l] = q[l - 1] /\ k - 1 < l - 1
          BY <1>1, <1>9, <4>3
        <5> QED BY <5>1
      <4> QED BY <1>9, <2>1, <4>1, <4>2, <4>3
    <3> QED BY <1>8, <3>1 DEF TimerSorted
  <2>2. CASE l = i
    <3>1. k \in 1..(i - 1) /\ r[k] = q[k] /\ r[l] = f /\ k \in 1..Len(q)
      BY <1>1, <1>9, <2>2
    <3> QED BY <1>0, <1>1, <3>1
  <2>3. CASE k = i
    <3>1. /\ i \in 1..Len(q) /\ l - 1 \in 1..Len(q) /\ i <= l - 1
          /\ r[k] = f /\ r[l] = q[l - 1]
      BY <1>1, <1>9, <2>3
    <3>2. timer[q[i]] <= timer[q[l - 1]]
      <4>1. CASE i = l - 1
        BY <1>0, <3>1, <4>1
      <4>2. CASE i < l - 1
        BY <1>8, <3>1, <4>2 DEF TimerSorted
      <4> QED BY <3>1, <4>1, <4>2
    <3> QED BY <1>0, <1>1, <3>1, <3>2
  <2> QED BY <2>1, <2>2, <2>3
<1> QED BY <1>2, <1>3, <1>4, <1>6, <1>7, <1>8 DEF r

(* melon_timer_push_locked links the fiber and keeps the order.            *)
LEMMA TimerInsertElems ==
  ASSUME NEW S, NEW q \in Seq(S), NEW timer \in [S -> Int], NEW f \in S
  PROVE  /\ TimerInsert(q, timer, f) \in Seq(S)
         /\ Elems(TimerInsert(q, timer, f)) = Elems(q) \cup {f}
         /\ NoDup(q) /\ f \notin Elems(q) => NoDup(TimerInsert(q, timer, f))
         /\ TimerSorted(q, timer) => TimerSorted(TimerInsert(q, timer, f), timer)
<1>1. timer[f] \in Int
  OBVIOUS
<1>2. PICK i \in 1..(Len(q) + 1) :
         /\ i = TimerPosition(q, timer, timer[f])
         /\ \A j \in 1..(i - 1) : timer[q[j]] < timer[f]
         /\ i <= Len(q) => timer[f] <= timer[q[i]]
  BY <1>1, TimerPositionExists
<1>3. TimerInsert(q, timer, f) = InsertAt(q, i, f)
  BY <1>2 DEF TimerInsert
<1> QED BY <1>2, <1>3, InsertSorted

(* The order only depends on the timers of the linked fibers.              *)
LEMMA SortedSameTimers ==
  ASSUME NEW S, NEW q \in Seq(S), NEW timer, NEW timer2,
         \A f \in Elems(q) : timer[f] = timer2[f], TimerSorted(q, timer)
  PROVE  TimerSorted(q, timer2)
  BY DEF TimerSorted, Elems
=============================================================================
