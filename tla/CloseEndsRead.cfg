SPECIFICATION FairSpec
CONSTANTS
  Fibers = {f1, f2}
  NoFiber = NoFiber
  Sockets = {s1}
  Clients = {}
  Datagrams = {s1}
  MaxChunks = 1
PROPERTY CloseEndsRead
CHECK_DEADLOCK FALSE
