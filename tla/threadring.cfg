SPECIFICATION Spec
\* A thread whose walk stands on a freed struct stops there, and all may have ended.
CHECK_DEADLOCK FALSE
CONSTANTS
  MaxPid = 4
  Walkers = {2}
  Victims = {2, 3, 4}
INVARIANT LinksAgree
INVARIANT OneRing
INVARIANT FindsWhatIsThere
PROPERTY ImplementsRing
