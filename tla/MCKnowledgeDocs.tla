---------------------------- MODULE MCKnowledgeDocs ----------------------------
(***************************************************************************)
(* KnowledgeDocs for TLC: three requests, so that a document is created,   *)
(* replaced and reprocessed, replaced twice, or deleted under two jobs;    *)
(* two executions per job.  Requests are interchangeable, and the run      *)
(* checks safety only.                                                     *)
(***************************************************************************)
EXTENDS KnowledgeDocs, TLC

Symmetry == Permutations(Requests)
===============================================================================
