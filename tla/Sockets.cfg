SPECIFICATION FairSpec
CONSTANTS
  Fibers = {f1, f2}
  NoFiber = NoFiber
  Sockets = {s1, s2, s3}
  Clients = {s2}
  Datagrams = {s3}
  MaxChunks = 2
INVARIANT TypeOK
INVARIANT ReadersHaveBuffers
INVARIANT RequestsHaveHandles
INVARIANT BlockedInOnePlace
PROPERTY ChunksAreReturnedInOrder
PROPERTY CloseEndsWrite
CHECK_DEADLOCK FALSE
