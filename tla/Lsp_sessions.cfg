SPECIFICATION Spec
CONSTANTS
  Callers = {k1, k2}
  Texts = {t1, t2}
  None = None
  Companion = TRUE
  MaxCalls = 3
  MaxStarts = 6
  MaxExits = 1
INVARIANTS
  TypeOK
  ProcessesAccounted
  ServerInStep
PROPERTIES
  AllEnds
CHECK_DEADLOCK FALSE
