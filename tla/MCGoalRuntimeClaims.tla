-------------------------- MODULE MCGoalRuntimeClaims --------------------------
EXTENDS GoalRuntimeClaims

(* Two requests before anything is exhausted.                              *)
MCLimits ==
  [ noProgressLimit |-> 1, totalLimit |-> 2, turnLimit |-> 2,
    evidenceGrant |-> 1, lifetimeCeiling |-> 4 ]

=============================================================================
