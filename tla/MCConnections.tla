------------------------------ MODULE MCConnections -----------------------------
(***************************************************************************)
(* TLC's instance of Connections: three sockets, so that one that leaves   *)
(* can shift another past a third, and two messages, enough to be          *)
(* published or received out of order.  No symmetry: the run checks        *)
(* liveness.                                                               *)
(***************************************************************************)
EXTENDS Connections
===============================================================================
