SPECIFICATION Spec
CONSTANTS
  s1 = s1  s2 = s2  doc = doc  w1 = w1
  Skills <- MCSkills
  Templates <- MCTemplates
  Workflows <- MCWorkflows
  Installs <- MCInstalls
  MaxEdits = 2
  MaxSyncs = 3
  MaxStops = 1
INVARIANTS CompletedSyncIsClean
PROPERTIES SecondSyncChangesNothing AdopterFilesSurvive
CHECK_DEADLOCK FALSE
