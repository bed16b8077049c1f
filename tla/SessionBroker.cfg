SPECIFICATION FairSpec
CONSTANTS
    Keys = {k1}
    Clients = {iec, console}
    Sessions = {s1, s2}
    NONE = NONE
    NetworkFails = TRUE
    Commands = {"clear", "dispose"}
INVARIANTS
    TypeOK
    IoBalanced
    DeadSessionLeaves
PROPERTY
    UnusedDisposed
