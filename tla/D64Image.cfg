\* Two channels and a shell on an image of three file blocks and two
\* directory sectors of one slot: saves run out of blocks, of slots and of
\* directory sectors.
CONSTANTS
    Channels = {c1, c2}
    Shell = shell
    Names = {A, B}
    Nobody = nobody
    Tracks = 2
    Sectors = 3
    DirTrack = 2
    SlotsPerSector = 1
    MaxBlocks = 2
    MaxSaves = 3
    MaxTrouble = 1
    FaultPoints = {"begin", "next", "last", "slot", "extend",
                   "dirLink", "entry"}
    CutPoints = {"idle", "begin", "next", "link", "last", "slot", "extend",
                 "dirLink", "undoDir", "entry", "rollback", "reclaim", "restore"}
    BufferedHandles = {TRUE, FALSE}
    OneAtATime = TRUE
SPECIFICATION Spec
INVARIANTS TypeOK NoSharedBlock ChainsAllocated NoOrphans AckedOnDisk
PROPERTIES ImplementsFileStore
SYMMETRY Symmetry
CHECK_DEADLOCK FALSE
