------------------------------ MODULE MCSched ------------------------------
(* Sched for model checking: threads are interchangeable, and so are       *)
(* fibers.                                                                 *)
EXTENDS Sched

SchedSymmetry == Permutations(Threads) \cup Permutations(Fibers)
=============================================================================
