SPECIFICATION FairSpec
CONSTANTS
  MaxPid = 5
  MaxLines = 1
  MaxPrio = 1
  Starters = {0}
  KillTargets = {}
  StateTargets = {}
  NiceTargets = {2}
  NicePrios = {0}
  MemFails = FALSE
INVARIANT ArgsAlive
PROPERTY EnabledRuns
PROPERTY ShellReturns
INVARIANT SysStackOwned
