SPECIFICATION GwSpec
CONSTANTS
  Tokens = {k1}
  Gateways = {g1, g2}
  Observed = {g1}
  Serials = {none, s1}
  EmptySerial = none
  NULL = NULL
  MaxUses = 2
  MaxNodes = 2
  MaxCerts = 2
  AuditRowAccepted = TRUE
  MaxSyncs = 1
CHECK_DEADLOCK FALSE
INVARIANTS
  ServedAtHome
PROPERTIES
  RevokedIsLockedOut
