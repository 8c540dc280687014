---------------------------- MODULE MCGoalState ----------------------------
(* Processes of GoalState are interchangeable: nothing orders them. *)
EXTENDS GoalState, TLC

ProcSymmetry == Permutations(Proc)
============================================================================
