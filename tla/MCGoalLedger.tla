----------------------------- MODULE MCGoalLedger -----------------------------
EXTENDS GoalLedger

(* Two requests a turn, three a step, five in all: every fuse can be the   *)
(* first to blow, and evidence renews a step that the ceiling then stops.  *)
MCLimits ==
  [ noProgressLimit |-> 1, totalLimit |-> 3, turnLimit |-> 2,
    evidenceGrant |-> 2, lifetimeCeiling |-> 5 ]

=============================================================================
