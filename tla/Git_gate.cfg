SPECIFICATION Spec
CONSTANTS
  Clients = {c1, c2}
  Workspaces = {w1, w2}
  Openable = {w1}
  Calls = {p1, p2}
  Contexts = {"gated", "bare"}
  MaxFailures = 2
  MaxTimers = 1
  None = None
INVARIANTS TypeOK GateExclusive ViewersExact
PROPERTIES CommandsEnd ViewedIsFetched
CHECK_DEADLOCK FALSE
