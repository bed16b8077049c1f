SPECIFICATION Spec
CONSTANTS
    Streams = {s1, s2}
    Nobody = nobody
    FileLen = 2
    CacheSize = 2
    MaxRetries = 2
    SeqNumbers = 4
    MaxSlots = 2
    MaxSessions = 2
    ReadSizes = {1}
    MaxOps = 7
    MaxTrouble = 1
    MaxExpiries = 0
    Careful = TRUE
    Framed = TRUE
    OpenAlone = TRUE
INVARIANTS ReadsTrue WritesLand
CHECK_DEADLOCK FALSE
