CONSTANTS
  Requests = {r1, r2}
  TreatOutputAsBody = FALSE
  Faults = {"listen", "body", "panic"}
SPECIFICATION FairSpec
INVARIANTS
  DrainedWhenClosed
  StatusIsTrue
PROPERTIES
  RequestsAnswered
  ServeEnds
\* A source that has returned does nothing more.
CHECK_DEADLOCK FALSE
