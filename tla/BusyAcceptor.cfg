SPECIFICATION FairSpec
CONSTANTS
  Fibers = {f1}
  Connections = {c1, c2}
  NoFiber = NoFiber
  HoldLimits = {1}
PROPERTY BusyServerAccepts
CHECK_DEADLOCK FALSE
