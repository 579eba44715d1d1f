SPECIFICATION Spec
CONSTANTS
  Sessions = {s1, s2}
  Units = {u1}
  Prs = {p1}
  MaxIssues = 3
  MaxJobs = 4
INVARIANTS
  OneHolder
  PreservedOnce
  NothingKilledIsLost
  HealedOnce
SYMMETRY AnySession
CHECK_DEADLOCK FALSE
