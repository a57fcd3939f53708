SPECIFICATION FairSpec
\* A tick that waits for a disk without power never returns (diskpower_hang).
CHECK_DEADLOCK FALSE
CONSTANTS
  Disks = {"HD"}
  Count = 1
  HdDelay = 2
  WaitTicks = 1
  StopMax = 2
  CableMoves = 0
  UsbUsed = FALSE
  DiskFails = FALSE
PROPERTY TickReturns
