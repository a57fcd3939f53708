SPECIFICATION Spec
CONSTANTS
  NClusters = 3
  ClustersPerSector = 4
  SecPerClus = 2
  SECTOR_SIZE = 2
  Byte = {a, b}
  JUNK = junk
  MaxSize = 5
  MaxCall = 4
  Layouts = {{3}, {2, 4}}
INVARIANT ReadsTrue
INVARIANT OthersIntact
PROPERTY ImplementsFile
SYMMETRY ByteSymmetry
CHECK_DEADLOCK FALSE
