-------------------------- MODULE MCEvidenceValidation --------------------------
EXTENDS EvidenceValidation, TLC

MCContents == {<<1, 1>>, <<2, 1>>}

MCEvidence == {"edit"} \X {"a"} \X {1, 2}

MCLimits ==
  [ noProgressLimit |-> 1, totalLimit |-> 1, turnLimit |-> 1,
    evidenceGrant |-> 1, lifetimeCeiling |-> 4 ]

MCSymmetry == Permutations(Files)

=============================================================================
