SPECIFICATION SpecAll
CONSTANTS
  Epic = 1
  Kids = {2, 3}
  Stories = {"story"}
  Plans <- PlansDef
  Absent = {9}
  CycleDoc = TRUE
  Ceiling = 3
  MaxEdits = 2
  MaxRuns = 1
  Wayfinders = {s1, s2}
  Tickets = {1, 2, 3}
  Opening = {1, 2}
  MaxGraduations = 3
  MaxMapEdits = 1
  s1 = s1
  s2 = s2
  s3 = s3
  bot = bot
  Sessions = {s1, s2, s3}
  Author <- SharedLogin
  Writers = {bot}
  ProbesFail = TRUE
  MaxFaults = 2
INVARIANTS
  PickableIsSound
  Lockstep
  AnswersOutliveOverlap
  OneHolder
  HolderIsNeverEvicted
  ClaimsEndWithRuns
PROPERTIES
  LoopEnds
  LockedEpicIsPlannableAgain
CHECK_DEADLOCK FALSE
