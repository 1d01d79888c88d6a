SPECIFICATION ExecSpec
CONSTANTS
  Jobs = {j1, j2}
  NULL = NULL
  Versions = {v1, v2}
  Contended = {}
  Chunks = 2
  MaxLocal = 1
  MaxFaults = 1
  MaxCrashes = 1
  Releases = {1, 2, 3}
  Signed = {1, 2}
  BinChunks = 2
  KeyConfigured = TRUE
  MaxUpgrades = 3
  MaxUpFaults = 2
  Models = {m1, m2}
  Adapters = {"llamacpp"}
  Runtimes = {"llamacpp", "onnxruntime"}
  MaxRtTasks = 4
SYMMETRY Symmetry
CHECK_DEADLOCK FALSE
INVARIANTS
  SuccessIsIntact
  ResumePoint
  BinaryRecoverable
  SignedOnly
  RuntimeOutcomeExplained
