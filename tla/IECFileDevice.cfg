SPECIFICATION Spec
CONSTANTS
    Data = {1, 2}
    BufferSize = 3
    MaxFileLen = 3
    MaxOwed = 2
    CanServeATN = TRUE
    CloseThenSecondary = FALSE
INVARIANTS
    TypeOK
    OperationsInOrder
    AllCarriedOut
    DeferredChannelValid
