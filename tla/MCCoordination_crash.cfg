SPECIFICATION FairSpec
CONSTANTS
  s1 = s1
  s2 = s2
  w1 = w1
  w2 = w2
  a = a
  b = b
  Nobody = Nobody
  Torn = Torn
  Path = {p1}
  Agent = {a}
  Server = {s1, s2}
  Worktree = {w1, w2}
  Home <- TwoHomes
  ServerAgent <- OneAgent
  Fresh = {s2}
  TTL = 1
  MaxTime = 2
  MaxNotes = 0
  MaxCrashes = 1
INVARIANT CrashSafe
PROPERTY StoreComesFree
