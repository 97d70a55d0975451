SPECIFICATION FairSpec
CONSTANTS
  Fibers = {f1}
  NoFiber = NoFiber
  Connections = {c1}
  Clients = {c1}
  PeerSends = {"close_notify"}
  MaxRecords = 2
  MaxCalls = 1
PROPERTY ReadEndsAtCloseNotify
CHECK_DEADLOCK FALSE
