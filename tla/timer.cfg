SPECIFICATION Spec
\* Time ends at MaxTime.
CHECK_DEADLOCK FALSE
CONSTANTS
  N = 3
  FreeRun = {2}
  StdDelay = 2
  Delays = {2, 3}
  Width = 4
  MaxTime = 7
  Lag = 1
INVARIANT TypeOK
INVARIANT NeverEarly
INVARIANT OnTime
INVARIANT StaysArmed
