SPECIFICATION AgSpec
CONSTANTS
  Tokens = {k1}
  Gateways = {g1, g2}
  Serials = {none, s1}
  EmptySerial = none
  NULL = NULL
  MaxUses = 2
  MaxNodes = 3
  MaxCerts = 4
  AuditRowAccepted = TRUE
  DeviceToken = k1
  DeviceGateway = g1
  MaxStops = 2
CHECK_DEADLOCK FALSE
INVARIANTS
  TokenBudget
  OneLiveIdentityPerSerial
  FilesAgree
  PresentsKnownCertificate
PROPERTIES
  DeadTokenStaysDead
  RevocationSticks
  ImplementsRegistry
