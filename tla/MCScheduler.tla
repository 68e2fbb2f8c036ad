------------------------------ MODULE MCScheduler ------------------------------
(* Scheduler on small instances. *)
EXTENDS Scheduler

CONSTANTS p1, p2

\* One clock is right, the other runs ahead by half a period.
Ahead == [p \in Schedulers |-> IF p = p1 THEN 0 ELSE 1]
===============================================================================
