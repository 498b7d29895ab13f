---------------------------- MODULE MCPlanGraph ----------------------------
(* An instance of PlanGraph for TLC: interchangeable steps. *)
EXTENDS PlanGraph, TLC

StepSymmetry == Permutations(Steps)
=============================================================================
