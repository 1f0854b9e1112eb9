------------------------------- MODULE MCSettings -------------------------------
(***************************************************************************)
(* TLC's instance of Settings: two processes, so that one of them is told  *)
(* nothing of the other's update, and two updates, which may overlap.      *)
(* Processes, updates and values are interchangeable.                      *)
(***************************************************************************)
EXTENDS Settings, TLC

Symmetry == Permutations(Processes) \cup Permutations(Updates) \cup Permutations(Values)
===============================================================================
