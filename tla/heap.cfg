SPECIFICATION Spec
CONSTANTS
  PoolSize = 24
  HDR = 2
  SizeQuant = 2
  Width = 6
  Requests = {1, 4}
  MaxPid = 3
  Loaders = {0}
  InfoSize = 2
  StackSize = 4
  CodeSize = 2
INVARIANT TypeOK
INVARIANT BlocksTile
INVARIANT FreeListExact
INVARIANT OwnersListed
INVARIANT BigEnough
PROPERTY BuffersStay
