SPECIFICATION Spec
CONSTANTS
  Users = {u1, u2}
  NbPipes = 2
  PipeSize = 5
  EvtSize = 2
  Classes = {"btn"}
  Masks = {{"btn"}}
  MaxSent = 3
  Apart = TRUE
  Senders = {u1}
  u1 = u1
  u2 = u2
INVARIANT TypeOK
INVARIANT HandlersApart
INVARIANT HandlersOwned
PROPERTY ImplementsQueue
CONSTRAINT Unbroken
