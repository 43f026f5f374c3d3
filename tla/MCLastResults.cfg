SPECIFICATION Spec
CONSTANTS
  MaxGoals = 1
  Steps = 2
  MaxClock = 2
  MaxCalls = 3
  MaxEntries = 6
INVARIANTS LastResultsHaveCalls
CHECK_DEADLOCK FALSE
