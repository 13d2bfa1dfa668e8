SPECIFICATION Spec
CONSTANTS
  File = {f1, f2}
  MaxPieces = 2
  MaxVersions = 3
  MaxLoads = 1
  MaxKills = 1
INVARIANTS RowForEach OwnWhileAppending
