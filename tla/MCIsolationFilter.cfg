SPECIFICATION Spec
CONSTANTS
  MaxGoals = 2
  Steps = 2
  MaxClock = 3
  MaxCalls = 3
  MaxEntries = 6
INVARIANTS TypeOK NoOldStepWork OwnWorkStays ResultsHaveCalls
CHECK_DEADLOCK FALSE
