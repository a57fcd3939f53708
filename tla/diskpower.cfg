SPECIFICATION FairSpec
\* A tick that waits for a disk without power never returns (diskpower_hang).
CHECK_DEADLOCK FALSE
CONSTANTS
  Disks = {"HD", "CF"}
  Count = 2
  HdDelay = 2
  WaitTicks = 1
  StopMax = 2
  CableMoves = 1
  UsbUsed = TRUE
  DiskFails = TRUE
INVARIANT TypeOK
INVARIANT AsleepIsOff
INVARIANT StopIsWatched
PROPERTY IdleDiskStops
