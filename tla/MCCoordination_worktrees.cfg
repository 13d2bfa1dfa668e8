SPECIFICATION Spec
CONSTANTS
  s1 = s1
  s2 = s2
  w1 = w1
  w2 = w2
  a = a
  b = b
  Nobody = Nobody
  Torn = Torn
  Path = {p1}
  Agent = {a, b}
  Server = {s1, s2}
  Worktree = {w1, w2}
  Home <- TwoHomes
  ServerAgent <- Agents
  Fresh = {}
  TTL = 1
  MaxTime = 2
  MaxNotes = 0
  MaxCrashes = 0
INVARIANT MutualExclusion
