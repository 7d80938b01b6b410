CONSTANTS
  Documents <- MCDocuments
  Inputs = {1, 2, 3}
  JsonReplies = {2}
  Garbled = {2}
  Large = {3}
  Burst = 1
  MaxFailures = 0
  MaxRequests = 1
SPECIFICATION MCSpec
INVARIANTS
  AcceptedIsUsable
  PipelineInOrder
  RateKept
  NoOrphans
  LeaksOnlyAfterDeadline
  AnswersAreTrue
PROPERTIES
  ImplementsContract
  InvokeReturns
  AsksForEvents
\* A document may be refused, and events and jobs come to an end.
CHECK_DEADLOCK FALSE
