SPECIFICATION Spec
CONSTANTS
  Tabs = {A, B}
  MaxConnections = 2
  MaxFaults = 2
  None = None
INVARIANTS TypeOK ActiveOwnsLease
PROPERTIES Settles
CHECK_DEADLOCK FALSE
