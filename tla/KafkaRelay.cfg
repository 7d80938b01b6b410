CONSTANTS
  n1 = n1
  n2 = n2
  a1 = a1
  a2 = a2
  b1 = b1
  MaxFaults = 1
  Nodes = {n1, n2}
  Processes = {n1, n2}
  Partitions = {p1, p2}
  None = None
  Last = 1
  Oldest = {n1, n2}
  IgnoreErrors = FALSE
  Faults = {"evict", "crash", "cancel"}
  Inputs = {a1, a2, b1}
  Process <- MCProcess
  SuccessTopic = TRUE
  ErrorTopic = TRUE
  SendingFaults = {"connect", "send"}
SPECIFICATION MCSpec
INVARIANTS
  ProducerIsReady
  TopicsTellOutcome
PROPERTIES
  ImplementsRelay
SYMMETRY Symmetry
\* The run ends when every Invoke has been used.
CHECK_DEADLOCK FALSE
