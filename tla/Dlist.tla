------------------------------- MODULE Dlist -------------------------------
(***************************************************************************)
(* The intrusive queues of melon as sequences, head first.                 *)
(*                                                                         *)
(* A fiber carries one pair of links next/prev, used by the ready queue,   *)
(* the lock queues and the wait queues, and one pair timer_next/timer_prev *)
(* used by the timer queue only.  The macros of list.h keep a pointer to   *)
(* the tail of a ring, those of dlist.h a pointer to its head; both are    *)
(* FIFO queues, so both are sequences here.                                *)
(***************************************************************************)
EXTENDS Integers, Sequences, SequencesExt

(* The fibers linked in a queue.                                           *)
Elems(q) == {q[i] : i \in 1..Len(q)}

(* No fiber is linked twice in the queue.                                  *)
NoDup(q) == \A i, j \in 1..Len(q) : q[i] = q[j] => i = j

(* Where a fiber is linked.                                                *)
PositionOf(q, x) == CHOOSE i \in 1..Len(q) : q[i] = x

(* melon_dlist_push: the item becomes the last one of the ring.            *)
DlistPush(q, x) == Append(q, x)

(* melon_dlist_unlink, with what the macro does to a ring the item is not  *)
(* on: a ring of one is emptied whoever its element is, a longer ring      *)
(* keeps its elements (the item's own neighbours are relinked).  On an     *)
(* empty list the macro reads through NULL, which the callers that can     *)
(* reach it model as a fault.                                              *)
DlistUnlink(q, x) ==
  IF Len(q) = 1 THEN << >>
  ELSE IF x \in Elems(q) THEN RemoveAt(q, PositionOf(q, x))
  ELSE q

(* The place melon_timer_push_locked finds for a deadline t: before the    *)
(* first fiber whose timer is not smaller, after the last one otherwise.   *)
TimerPosition(q, timer, t) ==
  CHOOSE i \in 1..(Len(q) + 1) :
    /\ \A j \in 1..(i - 1) : timer[q[j]] < t
    /\ i <= Len(q) => t <= timer[q[i]]

(* melon_timer_push_locked: link fiber f, whose timer is timer[f].         *)
TimerInsert(q, timer, f) == InsertAt(q, TimerPosition(q, timer, timer[f]), f)

(* The order the timer thread relies on.                                   *)
TimerSorted(q, timer) ==
  \A i, j \in 1..Len(q) : i < j => timer[q[i]] <= timer[q[j]]
=============================================================================
