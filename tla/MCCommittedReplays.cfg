SPECIFICATION Spec
CONSTANTS
  Selections = {s1, s2}
  Notes = {n1}
  EmptyNotes = n0
  Unacceptable = {}
  Nothing = Nothing
  MaxWorks = 1
  MaxOperations <- MCOperations
  MaxRetainedOperations = 2
PROPERTIES CommittedReplaysSettle
