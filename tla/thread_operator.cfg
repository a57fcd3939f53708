SPECIFICATION Spec
\* The model stops at a wild access (fault).
CHECK_DEADLOCK FALSE
CONSTANTS
  MaxPid = 3
  MaxLines = 1
  MaxPrio = 2
  Starters = {0}
  KillTargets = {0, 1, 2, 3}
  StateTargets = {1, 2, 3}
  NiceTargets = {0, 2, 3}
  NicePrios = {0, 2, 3}
  MemFails = TRUE
INVARIANT TypeOK
INVARIANT RingSound
INVARIANT ShellAlive
INVARIANT BoundedWait
