SPECIFICATION OnbSpec
CONSTANTS
  Tokens = {k1, k2}
  Gateways = {g1, g2}
  Serials = {none, s1}
  EmptySerial = none
  NULL = NULL
  MaxUses = 1
  MaxNodes = 2
  MaxCerts = 4
  AuditRowAccepted = FALSE
CHECK_DEADLOCK FALSE
INVARIANTS
  RevokeTakesEffect
