------------------------------ MODULE MCTaskWait ------------------------------
(* TaskWait on small instances. *)
EXTENDS TaskWait
===============================================================================
