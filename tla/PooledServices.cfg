CONSTANTS
  Inputs = {1, 2, 3}
  None = None
  Concurrency = 2
  Panics = TRUE
  Observed = 1
  Faults = {"exit", "crash", "deadline"}
SPECIFICATION MCSpec
INVARIANTS
  ExclusiveUse
  AllFnsKept
PROPERTIES
  KeepsInvokesApart
  ImplementsPooledContract
  PooledInvokeReturns
\* The run ends when every input has been handled.
CHECK_DEADLOCK FALSE
