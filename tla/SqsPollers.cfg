CONSTANTS
  Nodes = {n1, n2}
  Messages = {m1, m2}
  None = None
  BatchSize = 2
  Faults = {"expire", "delete", "receive"}
SPECIFICATION FairSpec
INVARIANTS
  HandledOnce
PROPERTIES
  ImplementsDelivery
  AllDeleted
\* The run ends when every message is deleted.
CHECK_DEADLOCK FALSE
