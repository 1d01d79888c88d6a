SPECIFICATION ArtSpec
CONSTANTS
  Requests = {r1, r2, r3}
  Models = {m1, m2}
  Uris = {u1, u2}
  NULL = NULL
  Chunks = 2
  MaxCached = 1
  MaxFaults = 1
SYMMETRY Symmetry
INVARIANTS
  TornOnlyBehindAWriter
  RowHasFile
  CacheBounded
