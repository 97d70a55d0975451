SPECIFICATION FairSpec
CONSTANTS
  Fibers = {f1, f2, f3}
  Main = Main
  NoFiber = NoFiber
  Platform = "posix"
  NestedRun = FALSE
  BlockInScript = FALSE
  MaxCalls = 2
INVARIANT TypeOK
INVARIANT NoUndefinedBehaviour
INVARIANT CurrentIsExecuting
INVARIANT OwnResult
INVARIANT ContextsMatchWaitingFibers
INVARIANT SignalledWhileQueued
INVARIANT DoneFibersAreFreed
PROPERTY RunReturns
PROPERTY CompletedCallReturns
PROPERTY ImplementsCoroutines
CHECK_DEADLOCK FALSE
