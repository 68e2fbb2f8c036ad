---------------------------- MODULE MCTaskHistory ----------------------------
(* TaskHistory on a small instance: one reader, and a cap it can fall behind. *)
EXTENDS TaskHistory
===============================================================================
