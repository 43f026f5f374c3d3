SPECIFICATION FairSpec
CONSTANTS
  Selections = {s1, s2}
  Notes = {n1, n2}
  EmptyNotes = n0
  Unacceptable = {n2}
  Nothing = Nothing
  MaxWorks = 2
  MaxOperations <- MCOperations
  MaxRetainedOperations = 2
INVARIANTS TypeOK Loadable AcknowledgedIsCommitted
PROPERTIES VerdictsAreFinal IntentsSurvive KeepsWorkingMemory SwitchesEnd
