SPECIFICATION Spec
CONSTANTS
  Path = {p1}
  Agent = {a, b}
  Worktree = {w1, w2}
  Coordinated = TRUE
  TTL = 2
  MaxTime = 4
INVARIANTS HolderKnows MutualExclusion
PROPERTY LogTruthful
