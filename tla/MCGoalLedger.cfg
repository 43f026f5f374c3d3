SPECIFICATION LedgerSpec
CONSTANTS
  NoGoal = NoGoal
  Evidence = {k1, k2, k3}
  Notes = {n1}
  EmptyNotes = n0
  MaxCreditedEvidence = 3
  MaxCreditGrantHeadroom = 1
  Limits <- MCLimits
  MaxGoals = 2
  MaxSteps = 2
  MaxRevision = 1
INVARIANTS LedgerTypeOK Loadable BudgetConserved EvidencePaysOnce StepsInOrder PauseReasonIsTrue
PROPERTIES NothingIsRefunded TotalGrowsOnlyForEvidence
CHECK_DEADLOCK FALSE
