SPECIFICATION Spec
CONSTANTS
    Paths = {p1, p2, p3}
    Tasks = {iec, console}
    NoPath = NoPath
    MaxEntries = 2
INVARIANT
    CacheBounded
