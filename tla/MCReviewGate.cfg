SPECIFICATION Spec
CONSTANTS
  r1 = r1
  r2 = r2
  sh = sh
  au = au
  ra = ra
  rb = rb
  Gates = {"code", "doc"}
  Logins = {au, ra, rb}
  Writers = {au, ra}
  PrAuthor = au
  Paths <- MCPaths
  FilePage = 100
  Reviewers = {r1}
  Shippers = {sh}
  Account0 <- MCAccount
  FilesAt <- MCFilesAt
  PolicyAt <- MCPolicyAt
  BasePolicy <- MCBasePolicy
  NamedGates <- Derived
  Sites = {"src/a.ts:1"}
  MaxHead = 1
  MaxComments = 2
  MaxMeddling = 1
  MaxRounds = 0
CONSTRAINT NoneFailed
INVARIANTS
  EvidenceIsCurrent
  UnmovedHeadIsReviewed
  VerdictNamesTheTreeRead
  ReportedMergeLanded
CHECK_DEADLOCK FALSE
