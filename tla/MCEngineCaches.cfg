SPECIFICATION Spec
CONSTANTS
  None = None
  File = {f}
  Memory = {m}
  MaxVectors = 1
  MaxFailures = 1
  CacheMin = 2
INVARIANTS CachesCover FileComplete
