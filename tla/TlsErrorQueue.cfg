SPECIFICATION Spec
CONSTANTS
  Fibers = {f1, f2}
  NoFiber = NoFiber
  Connections = {c1, c2}
  Clients = {c1, c2}
  PeerSends = {"fin"}
  MaxRecords = 2
  MaxCalls = 2
PROPERTY ReadFailsOnlyAtEnd
CHECK_DEADLOCK FALSE
