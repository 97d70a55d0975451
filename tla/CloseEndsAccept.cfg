SPECIFICATION FairSpec
CONSTANTS
  Fibers = {f1, f2}
  Connections = {c1}
  NoFiber = NoFiber
  HoldLimits = {1}
PROPERTY CloseEndsAccept
CHECK_DEADLOCK FALSE
