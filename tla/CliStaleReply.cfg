CONSTANTS
  Inputs = {1, 2}
  None = None
  Serial = TRUE
  Faults = {"deadline"}
SPECIFICATION Spec
INVARIANTS
  OwnReply
\* The run ends when every input has been handled.
CHECK_DEADLOCK FALSE
