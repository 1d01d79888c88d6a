SPECIFICATION DepSpec
CONSTANTS
  Nodes = {n1, n2}
  Controllers = {c1, c2}
  Models = {m1}
  NULL = NULL
  MaxDeployments = 2
  MaxUpdates = 1
  Target <- MCTarget
  ModelOf <- MCModelOf
SYMMETRY Symmetry
CHECK_DEADLOCK FALSE
INVARIANTS
  DispatchedOncePerPending
  DesiredIsDispatched
PROPERTIES
  SettledUntouched
  RolloutJudged
  ImplementsOneController
