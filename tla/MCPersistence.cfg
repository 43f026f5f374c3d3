SPECIFICATION Spec
CONSTANTS
  NoGoal = NoGoal
  Evidence = {k1}
  Notes = {n1}
  EmptyNotes = n0
  MaxCreditedEvidence = 3
  MaxCreditGrantHeadroom = 1
  Limits <- MCTightLimits
  HumanSteps = {}
  ToolCalls = {c1}
  MaxAccepted = 1
  MaxGoals = 2
  MaxSteps = 2
  MaxRevision = 1
  MaxMessages = 0
  MaxFailures = 1
  MaxRestarts = 1
  MaxNavigations = 0
  MaxAborts = 0
  TrailLength = 0
INVARIANTS TypeOK MemoryIsCommitted AcknowledgedStepsAreDurable
PROPERTIES WorkRestartsOnlyByHuman ImplementsLedger
