SPECIFICATION Spec
CONSTANTS
    Keys = {k1, k2}
    Clients = {iec}
    Sessions = {s1, s2, s3}
    NONE = NONE
    NetworkFails = FALSE
    Commands = {}
INVARIANT
    RemovalStillJustified
