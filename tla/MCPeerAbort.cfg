SPECIFICATION Spec
CONSTANTS
  NoGoal = NoGoal
  Evidence = {}
  Notes = {}
  EmptyNotes = n0
  MaxCreditedEvidence = 3
  MaxCreditGrantHeadroom = 1
  Limits <- MCLimits
  HumanSteps = {}
  ToolCalls = {c1}
  MaxAccepted = 1
  MaxGoals = 1
  MaxSteps = 1
  MaxRevision = 0
  MaxMessages = 1
  MaxFailures = 0
  MaxRestarts = 0
  MaxNavigations = 0
  MaxAborts = 0
  TrailLength = 0
PROPERTY AbortsSparePeerLoop
