SPECIFICATION Spec
CONSTANTS
    Data = {1}
    BufferSize = 2
    MaxFileLen = 1
    MaxOwed = 1
    CanServeATN = FALSE
    CloseThenSecondary = TRUE
INVARIANT
    BufferNotShared
