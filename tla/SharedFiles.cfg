SPECIFICATION Spec
CONSTANTS
  Fibers = {f1, f2}
  NoFiber = NoFiber
  Fds = {3, 4}
  MaxOpens = 2
  MaxEntries = 1
  SharedHandles = TRUE
INVARIANT ActsOnOwnFile
CHECK_DEADLOCK FALSE
