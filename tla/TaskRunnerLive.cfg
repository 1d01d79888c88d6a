SPECIFICATION FairSpec
CONSTANTS
  Nodes = {n1}
  Gateways = {g1}
  NULL = NULL
  PushCalls = {}
  MaxTasks = 2
  PullMax = 1
  MaxRuns = 9
  Reported = {}
  Home <- MCHome
  MaxCrashes = 2
  MaxFaults = 0
CHECK_DEADLOCK FALSE
PROPERTIES
  EveryTaskEnds
  SavedResultIsReported
