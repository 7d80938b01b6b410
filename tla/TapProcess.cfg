CONSTANTS
  Inputs = {i1, i2}
  None = None
  Lines = {"input", "output", "error"}
  PipeCapacity = 1
  Faults = {"start", "end"}
SPECIFICATION ReadingSpec
INVARIANTS
  OneProcess
  LinesStayTogether
  TapIsComplete
PROPERTIES
  InvokeReturns
\* The run ends when every input has been handled.
CHECK_DEADLOCK FALSE
