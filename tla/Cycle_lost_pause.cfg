SPECIFICATION Spec
CONSTANTS
  r1 = r1  r2 = r2  c1 = c1  c2 = c2
  Runs = {r1, r2}
  Calls = {c1, c2}
  Ops = {"pause"}
  Triggers = {"manual", "turn_completed"}
  MaxCount = 0
  RetryMax = 0
  IoFails = FALSE
  MaxTime = 0
  MaxRuns = 2
  MaxCalls = 2
SYMMETRY Slots
\* Clients and the session may have stopped for good.
CHECK_DEADLOCK FALSE
INVARIANTS PauseHolds
