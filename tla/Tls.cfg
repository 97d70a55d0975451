SPECIFICATION FairSpec
CONSTANTS
  Fibers = {f1, f2}
  NoFiber = NoFiber
  Connections = {c1, c2}
  Clients = {c2}
  PeerSends = {"fin", "reset"}
  MaxRecords = 2
  MaxCalls = 1
INVARIANT TypeOK
INVARIANT CallbackHasContext
INVARIANT SuspendedInOnePlace
PROPERTY ReadyOperationContinues
PROPERTY PeerEndsOperation
CHECK_DEADLOCK FALSE
