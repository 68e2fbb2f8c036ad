----------------------------- MODULE MCConnections -----------------------------
(* Connections on a small instance. *)
EXTENDS Connections

OneOrNone == {<<1, 2>>, <<0, 2>>}
===============================================================================
