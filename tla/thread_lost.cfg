SPECIFICATION FairSpec
CHECK_DEADLOCK FALSE
CONSTANTS
  MaxPid = 2
  MaxLines = 1
  MaxPrio = 1
  Starters = {}
  KillTargets = {}
  StateTargets = {}
  NiceTargets = {}
  NicePrios = {}
  MemFails = FALSE
PROPERTY LinesAreRead
