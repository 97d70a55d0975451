SPECIFICATION Spec
CONSTANTS
  Fibers = {f1, f2, f3}
  NoFiber = NoFiber
  Fds = {3, 4}
  MaxOpens = 3
  MaxEntries = 2
  SharedHandles = FALSE
INVARIANT TypeOK
INVARIANT ActsOnOwnFile
INVARIANT UnclosedObjectsAreStored
INVARIANT OpenFilesAreKnown
INVARIANT NamesAreOwned
CHECK_DEADLOCK FALSE
SYMMETRY FibersAreAlike
