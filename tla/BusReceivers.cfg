CONSTANTS
  Nodes = {n1, n2}
  Messages = {m1}
  Tokens = {d1, d2}
  None = None
  AutoRenew = TRUE
  DeadLetter = FALSE
  Faults = {"expire", "settle", "receive"}
SPECIFICATION FairSpec
INVARIANTS
  UndisturbedFn
PROPERTIES
  ImplementsDelivery
  AllCompleted
  RenewalEnds
\* The run ends when every message is completed.
CHECK_DEADLOCK FALSE
