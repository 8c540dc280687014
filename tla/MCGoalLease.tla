---------------------------- MODULE MCGoalLease ----------------------------
(* Two calls at a time, each of one of two processes: the daemon and the one *)
(* that replaces it, or for a while runs beside it.  Nothing orders callers, *)
(* processes or tokens, so they are interchangeable.                         *)
EXTENDS GoalLease, TLC

LeaseSymmetry == Permutations(Caller) \cup Permutations(Proc) \cup Permutations(Token)
============================================================================
