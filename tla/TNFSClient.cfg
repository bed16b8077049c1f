CONSTANTS
    Streams = {s1}
    Nobody = nobody
    FileLen = 3
    CacheSize = 2
    MaxRetries = 2
    SeqNumbers = 4
    MaxSlots = 2
    MaxSessions = 3
    ReadSizes = {2}
    MaxOps = 5
    MaxTrouble = 2
    MaxExpiries = 1
    Careful = TRUE
    Framed = TRUE
    OpenAlone = FALSE
SPECIFICATION FairSpec
INVARIANTS TypeOK ReadsTrue WritesLand
PROPERTY Returns
CHECK_DEADLOCK FALSE
