----------------------------- MODULE StackAlloc -----------------------------
(***************************************************************************)
(* The cache of fiber stacks (stack_alloc.c): freed stacks are kept in a   *)
(* ring threaded through the stacks themselves (list.h), up to a limit     *)
(* that melon_stack_free looks at before it takes the lock.                *)
(*                                                                         *)
(* The ring is modelled by its pointers.  Kernel threads allocate and free *)
(* on behalf of the fibers they create and destroy.                        *)
(***************************************************************************)
EXTENDS Integers, FiniteSets

CONSTANTS
  Threads,   \* the kernel threads
  Stacks,    \* the addresses mmap may return
  NoStack,   \* NULL
  Limit      \* how many stacks the cache may hold before one more (100)

ASSUME StackAssumption ==
  NoStack \notin Stacks /\ Limit \in Nat /\ IsFiniteSet(Threads)

VARIABLES
  g_stack_list,     \* the last stack of the ring
  g_stack_list_nb,
  next,             \* the link in each stack
  mapped,           \* the stacks that are mapped
  used,             \* the stacks that fibers run on
  freeing,          \* the stack each thread frees and has decided to keep
  mapping,          \* the threads that found no cached stack
  down              \* melon_stack_deinit has run

stackVars == <<g_stack_list, g_stack_list_nb, next, mapped, used, freeing, mapping, down>>

(* melon_stack_init.                                                       *)
StackInit ==
  /\ g_stack_list = NoStack /\ g_stack_list_nb = 0
  /\ next = [s \in Stacks |-> NoStack]
  /\ mapped = {} /\ used = {}
  /\ freeing = [t \in Threads |-> NoStack] /\ mapping = {}
  /\ down = FALSE

----------------------------------------------------------------------------
(* Mutant: the ring's first element is not linked behind the new last one. *)
ListPushOpen(s) ==
  /\ g_stack_list' = s
  /\ next' = IF g_stack_list = NoStack THEN [next EXCEPT ![s] = s]
             ELSE [next EXCEPT ![g_stack_list] = s]

(* melon_list_push.                                                        *)
ListPush(s) ==
  /\ g_stack_list' = s
  /\ next' = IF g_stack_list = NoStack THEN [next EXCEPT ![s] = s]
             ELSE [next EXCEPT ![s] = next[g_stack_list], ![g_stack_list] = s]

(* melon_list_pop: the first element, which the last one points to.        *)
ListHead ==
  IF next[g_stack_list] \in {g_stack_list, NoStack} THEN g_stack_list
  ELSE next[g_stack_list]

ListPop ==
  IF ListHead = g_stack_list
  THEN /\ g_stack_list' = NoStack
       /\ next' = [next EXCEPT ![ListHead] = NoStack]
  ELSE /\ UNCHANGED g_stack_list
       /\ next' = [next EXCEPT ![g_stack_list] = next[ListHead],
                               ![ListHead] = NoStack]

(* A thread that is in none of the calls below.                            *)
Idle(t) == freeing[t] = NoStack /\ t \notin mapping

(* melon_stack_alloc: from the ring, under the lock.                       *)
AllocCached(t) ==
  /\ Idle(t) /\ ~down /\ g_stack_list # NoStack
  /\ ListPop
  /\ g_stack_list_nb' = g_stack_list_nb - 1
  /\ used' = used \cup {ListHead}
  /\ UNCHANGED <<mapped, freeing, mapping, down>>

(* The ring is empty: a new mapping is made without the lock, or fails.    *)
AllocMiss(t) ==
  /\ Idle(t) /\ ~down /\ g_stack_list = NoStack
  /\ mapping' = mapping \cup {t}
  /\ UNCHANGED <<g_stack_list, g_stack_list_nb, next, mapped, used, freeing, down>>

AllocMapped(t) ==
  /\ t \in mapping /\ mapping' = mapping \ {t}
  /\ \/ \E s \in Stacks \ mapped :
          mapped' = mapped \cup {s} /\ used' = used \cup {s}
     \/ UNCHANGED <<mapped, used>>
  /\ UNCHANGED <<g_stack_list, g_stack_list_nb, next, freeing, down>>

(* Mutant: the limit is not looked at.                                     *)
CacheFullNever == FALSE

CacheFull == g_stack_list_nb > Limit

(* melon_stack_free looks at the number of stacks without the lock, and    *)
(* unmaps the stack or goes on to keep it.                                 *)
FreeCheck(t, s) ==
  /\ Idle(t) /\ s \in used
  /\ used' = used \ {s}
  /\ IF CacheFull THEN mapped' = mapped \ {s} /\ UNCHANGED freeing
     ELSE freeing' = [freeing EXCEPT ![t] = s] /\ UNCHANGED mapped
  /\ UNCHANGED <<g_stack_list, g_stack_list_nb, next, mapping, down>>

FreePush(t) ==
  /\ freeing[t] # NoStack
  /\ g_stack_list_nb' = g_stack_list_nb + 1
  /\ ListPush(freeing[t])
  /\ freeing' = [freeing EXCEPT ![t] = NoStack]
  /\ UNCHANGED <<mapped, used, mapping, down>>

(* melon_stack_deinit, which melon_deinit calls once there are no fibers   *)
(* and no threads left: one round of its loop.                             *)
StackDeinit ==
  /\ used = {} /\ \A t \in Threads : Idle(t)
  /\ down' = TRUE
  /\ g_stack_list # NoStack
  /\ mapped' = mapped \ {ListHead}
  /\ ListPop
  /\ UNCHANGED <<g_stack_list_nb, used, freeing, mapping>>

(* melon_init calls melon_stack_init again.                                *)
StackReinit ==
  /\ down /\ g_stack_list = NoStack
  /\ g_stack_list_nb' = 0
  /\ down' = FALSE
  /\ UNCHANGED <<g_stack_list, next, mapped, used, freeing, mapping>>

StackNext ==
  \/ \E t \in Threads :
       \/ AllocCached(t) \/ AllocMiss(t) \/ AllocMapped(t)
       \/ FreePush(t) \/ \E s \in Stacks : FreeCheck(t, s)
  \/ StackDeinit \/ StackReinit

StackSpec == StackInit /\ [][StackNext]_stackVars

----------------------------------------------------------------------------
(* The stacks of the ring: the smallest set that holds the one its pointer *)
(* points to and, with each stack, the next.                               *)
FollowsLinks(S) ==
  /\ g_stack_list \in S \cup {NoStack}
  /\ \A s \in S : next[s] \in S \cup {NoStack}
Cached == {s \in Stacks : \A S \in SUBSET Stacks : FollowsLinks(S) => s \in S}

(* The stacks that threads are about to push.                              *)
InHand == {freeing[t] : t \in Threads} \ {NoStack}

(* Every stack that is mapped is in the ring, on its way there or used by  *)
(* one fiber, never two of these: no stack is given to two fibers and none *)
(* is leaked or unmapped while it is linked; and the number of stacks is   *)
(* the length of the ring, until melon_stack_deinit, which leaves none.    *)
StacksAccounted ==
  /\ mapped = Cached \cup InHand \cup used
  /\ Cached \cap InHand = {} /\ Cached \cap used = {} /\ InHand \cap used = {}
  /\ ~down => g_stack_list_nb = Cardinality(Cached)

(* The limit holds although it is read without the lock, up to one stack   *)
(* for each thread that read it in time.                                   *)
CacheBounded == g_stack_list_nb <= Limit + Cardinality(Threads)
=============================================================================
