SPECIFICATION FairSpec
CONSTANTS
  Nodes = {n1}
  Gateways = {g1}
  NULL = NULL
  PushCalls = {}
  MaxTasks = 1
  PullMax = 1
  MaxRuns = 9
  Reported = {}
  Home <- MCHome
  MaxCrashes = 0
  MaxFaults = 0
CHECK_DEADLOCK FALSE
PROPERTIES
  TerminalIsFinal
