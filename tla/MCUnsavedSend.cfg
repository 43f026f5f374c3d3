SPECIFICATION Spec
CONSTANTS
  NoGoal = NoGoal
  Evidence = {}
  Notes = {n1}
  EmptyNotes = n0
  MaxCreditedEvidence = 3
  MaxCreditGrantHeadroom = 1
  Limits <- MCLimits
  HumanSteps = {}
  ToolCalls = {c1}
  MaxAccepted = 1
  MaxGoals = 1
  MaxSteps = 1
  MaxRevision = 1
  MaxMessages = 0
  MaxFailures = 1
  MaxRestarts = 0
  MaxNavigations = 0
  MaxAborts = 0
  TrailLength = 0
PROPERTY NothingIsSentUnsaved
