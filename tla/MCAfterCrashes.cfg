SPECIFICATION SpecAll
CONSTANTS
  Dialers = {s1, s2}
  Exiters = {t1}
  NoFile = NoFile
  MaxFaults = 2
  SeenBetween = TRUE
  Senders = {s1, s2}
  AddressesOf <- MCAddresses
  Bridges <- MCBridges
  MaxSends = 1
  MaxLives = 2
  Stages = 3
  RESUME_CAP = 2
  HEALTHY_RESUME_CAP = 5
  RETRY_CAP = 2
  MaxRuns = 2
  MaxEvents = 4
  MaxPolls = 2
  MaxEvals = 3
  Configs <- MCConfigs
  Versions <- MCVersions
  CrewServer = "server:crew"
  ServerRefs <- MCServerRefs
  MaxCommands = 3
  Policies <- MCPolicies
  Calls <- MCCalls
  Numerals <- MCNumerals
  JsonFields <- MCJson
  Corpora <- MCCorpora
  MaxSteps = 2
  Lookers = {"desk"}
  Titles <- MCTitles
  Bodies <- MCBodies
  STOPWORDS = {"the"}
  ShortWords = {"id"}
  Stems <- MCStems
  MAX_QUERY_TOKENS = 4
  MIN_DISCRIMINATING_TOKENS = 3
  Limit = 1
  MaxIssues = 3
  MaxChanges = 2
  Peers = {p1, p2}
  Roles = {r1, r2}
  Resources = {i1}
  TTLs = {1, 2}
  DEFAULT_TTL = 2
  MaxTime = 3
  None = None
INVARIANTS
  SerialStartsMeet
  SendersAreToldTheTruth
  AnswersAreTrue
PROPERTIES
  WhatCrashesComesToItsEnd
  LiveHolderKeepsClaim
  PruneChangesNoAnswer
  ImplementsBoard
CHECK_DEADLOCK FALSE
