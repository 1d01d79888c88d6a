SPECIFICATION SysSpec
CONSTANTS
  Nodes = {n1, n2}
  Gateways = {g1}
  NULL = NULL
  PushCalls = {c1}
  MaxTasks = 2
  PullMax = 1
  MaxRuns = 9
  Reported = {}
  Home <- MCHome
  MaxCrashes = 1
  MaxFaults = 1
SYMMETRY Symmetry
CHECK_DEADLOCK FALSE
INVARIANTS
  ExecutedAtMostOnce
  RunsAreTruthful
  CancelStopsDelivery
PROPERTIES
  FileOutlivesReport
