SPECIFICATION MCSpec
CONSTANTS
  b1 = b1
  b2 = b2
  e1 = e1
  BridgeSessions = {b1, b2}
  EngineSessions = {e1}
  Issues = {i1}
  TTL = 2
  INTERVAL = 1
  Slack = 1
  MaxTrackerCrashes = 1
  None = None
INVARIANTS
  AwakeSessionNeverAgesOut
  LaneIsHeld
PROPERTIES
  ServingIsDiscoverable
  DeadPeerIsForgotten
