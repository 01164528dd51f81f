SPECIFICATION Spec
CONSTANTS
  r1 = r1  r2 = r2  c1 = c1  c2 = c2
  Runs = {r1, r2}
  Calls = {c1, c2}
  Ops = {"pause", "resume", "delete"}
  Triggers = {"manual", "turn_completed", "scheduled"}
  MaxCount = 1
  RetryMax = 1
  IoFails = FALSE
  MaxTime = 2
  MaxRuns = 3
  MaxCalls = 2
SYMMETRY Slots
\* Clients and the session may have stopped for good.
CHECK_DEADLOCK FALSE
INVARIANTS TypeOK NothingOutlivesCycle PauseHoldsBeforeOutcome DeletesAreKept ScheduleFiresOnce CountExact
