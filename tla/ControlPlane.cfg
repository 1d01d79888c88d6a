SPECIFICATION CpSpec
CONSTANTS
  Names = {"a", "b", "c"}
  Regions = {"", "east"}
  LabelSets = {"{}"}
  nil = nil
  Clients = {c1, c2}
  PageLimit = 2
  MaxFailures = 1
  DefaultLimit = 1
  MaxLimit = 2
  PageSizes = {0, 1, 2, 3}
  Rows = {1, 2, 3, 4}
  CreatedAt <- MCCreatedAt
  Requests = {r1, r2}
  MaxStarts = 1
  MaxKills = 1
CHECK_DEADLOCK FALSE
INVARIANTS
  OneIdPerName
  LookupFindsRow
  WalkIsExact
  HandlersKeepDatabase
  CallsAreServed
PROPERTIES
  ServersStop
