SPECIFICATION Spec
CONSTANTS
  Fibers = {f1}
  NoFiber = NoFiber
  Sockets = {s1}
  Clients = {s1}
  Datagrams = {}
  MaxChunks = 1
INVARIANT NeverMisused
CHECK_DEADLOCK FALSE
