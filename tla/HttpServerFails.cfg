CONSTANTS
  Requests = {r1}
  TreatOutputAsBody = FALSE
  Faults = {"listen"}
SPECIFICATION FairSpec
PROPERTIES
  FailureEndsServe
\* A source that has returned does nothing more.
CHECK_DEADLOCK FALSE
