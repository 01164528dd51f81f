CONSTANTS
  RingSize = 2
  BucketCap = 2
  MaxOut = 4
  MaxDisconnects = 1
  MaxResumes = 1
SPECIFICATION Spec
INVARIANTS TypeOK Accounted HonestPosition
PROPERTIES NeverRewinds CatchesUp
CHECK_DEADLOCK FALSE
