----------------------------- MODULE MCGoalRuntime -----------------------------
EXTENDS GoalRuntimeProperties

(* Every fuse can be the first to blow: two requests a turn, three a step  *)
(* and four in the life of the goal, one context without progress.         *)
MCTightLimits ==
  [ noProgressLimit |-> 1, totalLimit |-> 3, turnLimit |-> 2,
    evidenceGrant |-> 1, lifetimeCeiling |-> 4 ]

(* Budgets out of the way of the scheduling: one request blows them all.   *)
MCMinimalLimits ==
  [ noProgressLimit |-> 1, totalLimit |-> 1, turnLimit |-> 1,
    evidenceGrant |-> 1, lifetimeCeiling |-> 2 ]

=============================================================================
