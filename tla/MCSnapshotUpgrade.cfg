SPECIFICATION UpgradeSpec
CONSTANTS
  NoGoal = NoGoal
  Evidence = {k1, k2, k3, k4, k5}
  Notes = {}
  EmptyNotes = n0
  MaxCreditedEvidence = 4
  MaxCreditGrantHeadroom = 1
  Limits <- MCLimits
  DefaultLimits <- MCLimits
  OldTotals <- MCOldTotals
  LegacyMaxCredited = 2
  MaxGoals = 2
  MaxSteps = 2
  MaxRevision = 0
SYMMETRY MCSymmetry
INVARIANTS UpgradeTypeOK UpgradedIsLoadable KeepsOldProgress
PROPERTIES PaidOnceAcrossUpgrade
CHECK_DEADLOCK FALSE
