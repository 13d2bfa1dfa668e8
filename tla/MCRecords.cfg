SPECIFICATION Spec
CONSTANTS
    Server = {s1, s2}
    Session = {default}
    Default = default
    Chunk = {c}
    Tokens <- OneToken
    Path = {p}
    Agent = {a}
    Name = {n}
    None = None
    MaxHistory = 2
    Topics <- OneTopic
    MaxMade = 3
    MaxChanges = 4
    MaxIds = 3
    MaxFailures = 2
    MaxRestarts = 1
SYMMETRY Symmetry
INVARIANTS IdsKeepNotes IdsKeepSymbols TurnsGoOn HistoryInOrder PrunedStaysGone
