\* One channel and a failing write where a full block is linked to the next.
CONSTANTS
    Channels = {c1}
    Shell = shell
    Names = {A, B}
    Nobody = nobody
    Tracks = 2
    Sectors = 3
    DirTrack = 2
    SlotsPerSector = 1
    MaxBlocks = 2
    MaxSaves = 2
    MaxTrouble = 1
    FaultPoints = {"link"}
    CutPoints = {}
    BufferedHandles = {FALSE}
    OneAtATime = TRUE
SPECIFICATION Spec
INVARIANT NoOrphans
CHECK_DEADLOCK FALSE
