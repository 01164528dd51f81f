SPECIFICATION FairSpec
CONSTANTS
  r1 = r1  r2 = r2  c1 = c1  c2 = c2
  Runs = {r1, r2}
  Calls = {c1, c2}
  Ops = {"objective", "edit", "delete"}
  Triggers = {"manual"}
  MaxCount = 0
  RetryMax = 1
  IoFails = TRUE
  MaxTime = 0
  MaxRuns = 1
  MaxCalls = 2
\* Clients and the session may have stopped for good.
CHECK_DEADLOCK FALSE
INVARIANTS WaitersHaveCycle
PROPERTIES CycleEnds CallsReturn
