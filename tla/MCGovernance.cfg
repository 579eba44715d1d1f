SPECIFICATION SpecBoth
CONSTANTS
  People <- MCPeople
  Author = "author"
  BaseAgentPolicy <- MCBasePolicy
  PushedPolicy <- MCPushedPolicy
  BaseOwners <- MCBaseOwners
  PushedOwners <- MCPushedOwners
  Changes <- MCChanges
  Rosters <- MCRosters
  NamespaceOf <- MCNamespaceOf
  MaxPushes = 1
  MaxReviews = 2
  MaxRosterEdits = 1
  MaxGathers = 1
  Prs = {"one", "two"}
  Repairs = {"mend"}
  MaxMoves = 1
  Seed <- MCSeed
  Edits <- MCEdits
  ByHand <- MCByHand
  Milestones <- MCMilestones
  Ignored = {"dist"}
  CatalogRule <- MCRule
  BRIDGE_ALLOWLIST <- MCAllowlist
  READ_ONLY_AGENTS = {"investigator"}
INVARIANTS
  DischargeIsEarned
  GatesAnswerForTheBase
  BrokenMainWasOverlapped
CHECK_DEADLOCK FALSE
