SPECIFICATION MCSpec
CONSTANTS
  w1 = w1
  Agents = {a, b}
  Nobody = Nobody
  Primary = Primary
  ManagedTrees = {w1}
  ReviewTrees = {r1}
  OtherTrees = {o1}
  None = None
  MaxOps = 1
  AgentOps <- MCAgentOps
  CdTargets = {w1}
  BlockThreshold = 1
  Trusted = TRUE
SYMMETRY AnyAgent
INVARIANTS
  BleedOnlyUnread
PROPERTIES
  ArmedAgentsStayOut
  SyncedMeansCurrent
  OwnersKeepTheirTree
CHECK_DEADLOCK FALSE
