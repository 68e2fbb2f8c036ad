---------------------------- MODULE MCEventEngine ----------------------------
(* EventEngine on small instances. *)
EXTENDS EventEngine, TLC

NeverOr1 == {Out, 1}
Interchangeable == Permutations(Events) \cup Permutations(Names)
===============================================================================
