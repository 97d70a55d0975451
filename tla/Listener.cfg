SPECIFICATION FairSpec
CONSTANTS
  Fibers = {f1, f2}
  Connections = {c1, c2, c3}
  NoFiber = NoFiber
  HoldLimits = {1, 2}
INVARIANT TypeOK
INVARIANT AcceptersAreInOnePlace
INVARIANT PromisedConnectionIsThere
PROPERTY ConnectionsAreAccepted
CHECK_DEADLOCK FALSE
