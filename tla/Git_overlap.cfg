SPECIFICATION Spec
CONSTANTS
  Clients = {c1, c2}
  Workspaces = {w1, w2}
  Openable = {w1}
  Calls = {p1, p2}
  Contexts = {"bare"}
  MaxFailures = 2
  MaxTimers = 1
  None = None
INVARIANT NetworkExclusive
CHECK_DEADLOCK FALSE
