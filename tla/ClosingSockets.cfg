SPECIFICATION Spec
CONSTANTS
  Fibers = {f1, f2}
  NoFiber = NoFiber
  Sockets = {s1}
  Clients = {}
  Datagrams = {}
  MaxChunks = 1
INVARIANT ClosingSocketsAreAllocated
CHECK_DEADLOCK FALSE
