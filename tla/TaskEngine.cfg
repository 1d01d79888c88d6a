SPECIFICATION McSpec
CONSTANTS
  Nodes = {n1, n2}
  Gateways = {g1, g2}
  NULL = NULL
  PushCalls = {c1}
  MaxTasks = 2
  PullMax = 1
  MaxRuns = 2
  Reported = {"failure", "running"}
  RetryCounts = {0, 1, 2, 3, 4, 5, 27, 28, 31, 32, 33, 36}
SYMMETRY Symmetry
CHECK_DEADLOCK FALSE
INVARIANTS
  TypeOK
  EventLogExplainsStatus
  DeliveredAtMostOnce
  RunningIsOwned
  BackoffDoubles
PROPERTIES
  ImplementsLedger
