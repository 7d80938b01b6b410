CONSTANTS
  Inputs = {1, 2, 3}
  None = None
  Serial = TRUE
  Faults = {"start", "exit", "crash", "deadline", "kill"}
SPECIFICATION MCSpec
INVARIANTS
  OneProcessUntilFailure
  FailureKills
PROPERTIES
  ImplementsContract
  InvokeReturns
\* The run ends when every input has been handled.
CHECK_DEADLOCK FALSE
