SPECIFICATION Spec
CONSTANTS
  CHUNK_SIZE = 4
  MAX_CHUNK_SIZE = 7
  WINDOW = 6
  Texts <- MCTexts
  Languages = {"py", "js", "txt"}
  Alikes <- MCAlikes
  NOISE = {}
  NoExt = "no ext"
  LanguageOf <- MCLanguageOf
  Above <- MCAbove
  SymbolLists <- MCSymbolLists
  ChunkPaths <- MCChunkPaths
  Referrals <- MCReferrals
  Depths = {0, 1, 2, 3}
  Before <- MCBefore
  Occurs <- MCOccurs
  Squeezed <- MCSqueezed
  GroupTokens <- MCGroupTokens
  Near <- MCNear
  PathLanguage <- MCPathLanguage
  NoLanguage = "no language"
  MAX_HITS = 2
  GREP_LIMIT = 3
  RESERVE = 1
  FLOOR = 3
  Indexes <- MCIndexes
  Disks <- MCDisks
  Patterns = {"x"}
  Budgets = {4, 9}
  Symbols <- MCSymbols
  Rankings <- MCRankings
  PathPrefixes <- MCPrefixes
  Recents <- MCRecents
  QueryTexts <- MCQueryTexts
  CONTEXT = 1
  Olds <- MCOlds
  News <- MCNews
  Edits <- MCEdits
  Ordinal <- MCCode
  Unset = Unset
  Skipped <- MCSkipped
  Supported <- MCSupported
  Scenes <- MCScenes
  Weight <- MCWeight
  IdBelow <- MCIdBelow
  FLAT = 35
  LOW = 700
  CLEAR = 150
  BASE = 420
  Cases <- MCCases
  Distance <- MCDistance
  M = 1
  M0 = 2
  EF = 3
  Vectors <- MCVectors
  MaxLevel = 1
  Steps = 5
  WordChars = {"a", "b", "c"}
  Spaces <- MCSpaces
  FUEL = 200
  BEHIND = 2
  Regexes <- MCRegexes
  Subjects <- MCSubjects
  USABLE = 39
  VECTOR = 2
  Estimate <- MCEstimate
  Signature <- MCSignature
  RuntimeAgent <- MCRuntime
  Legacies <- MCLegacies
  MAX_INT = 99
  Float <- MCFloat
  Controls = {"^_"}
  Hex <- MCHex
  Scalar <- MCScalar
  JsonTexts <- MCJsonTexts
  JsonValues <- MCJsonValues
  MemoryWords = {"memory:x"}
  States <- MCStates
  MAX_CHAIN = 32
  NICE = 128
  LAZY = 16
  WIDTH = 32768
  MAX_MATCH = 258
  Hash <- MCHash
  Payloads <- MCPayloads
  Streams <- MCStreams
  LITE <- MCLite
  STANDARD_EXTRA <- MCStandard
  REMOVED <- MCRemoved
  SIGS <- MCSigs
  WRITE_TOOLS <- MCWrite
  AgentId <- Agent
  Alias <- MCAlias
  Folded <- MCLower
  MAX_STRING_SIZE = 4
  ToolUses <- MCToolUses
  Misspelt <- MCMisspelt
  GROUPS <- MCGroups
  CATALOGUE <- MCCatalogue
  Settings <- MCSettings
INVARIANTS IndexKept ImpactIsDistance QueryAccounts DiffRebuilds WalkSettles RankingSound RegexTrue LegacyCopied FormatsKeep CallsBind
CHECK_DEADLOCK FALSE
