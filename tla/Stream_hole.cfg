CONSTANTS
  RingSize = 2
  BucketCap = 1
  MaxOut = 3
  MaxDisconnects = 1
  MaxResumes = 1
SPECIFICATION Spec
INVARIANT NoHole
