SPECIFICATION FairSpec
CONSTANTS
  NoGoal = NoGoal
  Evidence = {}
  Notes = {}
  EmptyNotes = n0
  MaxCreditedEvidence = 3
  MaxCreditGrantHeadroom = 1
  Limits <- MCMinimalLimits
  HumanSteps = {}
  ToolCalls = {c1}
  MaxAccepted = 1
  MaxGoals = 2
  MaxSteps = 2
  MaxRevision = 0
  MaxMessages = 1
  MaxFailures = 1
  MaxRestarts = 0
  MaxNavigations = 1
  MaxAborts = 1
  TrailLength = 0
INVARIANTS OneGoalMessage OneTimer NoWorkForStoppedGoal
PROPERTIES AckMatchesMessage SendsAreAdmitted AbortsSpareUserLoop GoalLoopStaysRecognised OnlyHumanLosesMessage KeepsGoing
