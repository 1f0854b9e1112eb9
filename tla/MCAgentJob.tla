------------------------------ MODULE MCAgentJob ------------------------------
(***************************************************************************)
(* AgentJob for TLC: two messages answered concurrently, two executions    *)
(* per job, so that runs overlap and a retry follows every kind of fault.  *)
(***************************************************************************)
EXTENDS AgentJob
===============================================================================
