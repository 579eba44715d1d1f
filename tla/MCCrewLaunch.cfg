SPECIFICATION Spec
CONSTANTS
  c1 = c1
  c2 = c2
  c3 = c3
  p1 = p1
  bridge = bridge
  engine = engine
  Nobody = Nobody
  Commands = {c1, c2, c3}
  Projects = {p1}
  Roster <- OneOfEach
  EngineSeats = {engine}
  MaxFaults = 2
SYMMETRY Symmetry
INVARIANTS
  PanesAreAccountedFor
  ServingMemberKeepsInbox
PROPERTY CommandsCloseOnlyTheirOwn
CHECK_DEADLOCK FALSE
