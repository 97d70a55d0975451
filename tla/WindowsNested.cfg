SPECIFICATION FairSpec
CONSTANTS
  Fibers = {f1, f2, f3}
  Main = Main
  NoFiber = NoFiber
  Platform = "windows"
  NestedRun = TRUE
  BlockInScript = FALSE
  MaxCalls = 2
INVARIANT OwnResult
PROPERTY CompletedCallReturns
CHECK_DEADLOCK FALSE
