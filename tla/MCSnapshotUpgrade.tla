--------------------------- MODULE MCSnapshotUpgrade ---------------------------
EXTENDS SnapshotUpgradeClaims

(* The defaults in miniature: a total of one is below the default turn     *)
(* bound, a total of five above the default ceiling.                       *)
MCLimits ==
  [ noProgressLimit |-> 1, totalLimit |-> 2, turnLimit |-> 2,
    evidenceGrant |-> 1, lifetimeCeiling |-> 4 ]

MCOldTotals == {1, 5}

MCSymmetry == Permutations(Evidence)

=============================================================================
