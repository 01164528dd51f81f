SPECIFICATION Spec
CONSTANTS
  r1 = r1  r2 = r2  c1 = c1  c2 = c2
  Runs = {r1, r2}
  Calls = {c1, c2}
  Ops = {"pause", "resume", "delete", "restore"}
  Triggers = {"manual"}
  MaxCount = 0
  RetryMax = 0
  IoFails = TRUE
  MaxTime = 0
  MaxRuns = 2
  MaxCalls = 2
SYMMETRY Slots
\* Clients and the session may have stopped for good.
CHECK_DEADLOCK FALSE
INVARIANTS OneCycle CycleOwnsSupervisor
PROPERTIES CancelledNeverInjects SlotSpec
