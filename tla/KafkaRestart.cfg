CONSTANTS
  Nodes = {n1}
  Partitions = {p1}
  None = None
  Last = 2
  Oldest = {n1}
  IgnoreErrors = FALSE
  Faults = {"consume"}
SPECIFICATION FairSpec
PROPERTIES
  Restarts
