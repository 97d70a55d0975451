SPECIFICATION Spec
CONSTANTS
  Fibers = {f1, f2}
  Main = Main
  NoFiber = NoFiber
  Platform = "posix"
  NestedRun = TRUE
  BlockInScript = FALSE
  MaxCalls = 1
INVARIANT OwnResult
CHECK_DEADLOCK FALSE
