------------------------------- MODULE MCHandoff -------------------------------
(***************************************************************************)
(* Handoff for TLC: two staff members, one of them a superadmin, two staff *)
(* requests in flight, two messages (the second is what tells a late       *)
(* message from one read during the handling) and two executions per job.  *)
(* Requests and messages are interchangeable: they start alike, and every  *)
(* property quantifies over them.                                          *)
(***************************************************************************)
EXTENDS Handoff, TLC

Symmetry == Permutations(Requests) \cup Permutations(Messages)
===============================================================================
