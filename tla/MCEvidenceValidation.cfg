SPECIFICATION Spec
CONSTANTS
  NoGoal = NoGoal
  Evidence <- MCEvidence
  Notes = {}
  EmptyNotes = n0
  MaxCreditedEvidence = 3
  MaxCreditGrantHeadroom = 1
  Artifacts = {"a"}
  Inside = {"a", "b"}
  Outside = {"c"}
  Files = {f1, f2}
  Nothing = Nothing
  Contents <- MCContents
  Operations = {"edit"}
  Limits <- MCLimits
  Steps = 2
  CriteriaPerStep = 2
  MaxRefs = 2
SYMMETRY MCSymmetry
INVARIANTS EvidenceTypeOK PaidOncePerResult
PROPERTIES EvidenceIsShown
CHECK_DEADLOCK FALSE
