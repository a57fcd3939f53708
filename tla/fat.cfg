SPECIFICATION Spec
CONSTANTS
  Files = {f, g}
  NClusters = 3
  ClustersPerSector = 2
  SecPerClus = 1
  CacheSize = 1
  MAX_OPEN = 2
  MaxSize = 3
  MaxCrashes = 2
INVARIANT Exclusive
INVARIANT Survives
INVARIANT Accounted
SYMMETRY NameSymmetry
CHECK_DEADLOCK FALSE
