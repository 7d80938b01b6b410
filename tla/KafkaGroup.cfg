CONSTANTS
  Nodes = {n1, n2}
  Partitions = {p1}
  None = None
  Last = 2
  Oldest = {n1}
  IgnoreErrors = FALSE
  Faults = {"setup", "consume", "rebalance", "evict", "crash", "cancel"}
SPECIFICATION FairSpec
INVARIANTS
  InOrder
PROPERTIES
  ImplementsDelivery
  AllCommitted
  StopsWhenCancelled
\* A cancelled context stops the source.
CHECK_DEADLOCK FALSE
