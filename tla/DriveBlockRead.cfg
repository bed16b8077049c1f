SPECIFICATION Spec
CONSTANTS
    Channels = {2}
    Blocks = 3
    BlockSize = 2
    BufferSize = 4
    WriteSizes = {1}
    MaxFailures = 1
    Rules = {"seeks", "inside", "checks"}
INVARIANT
    BlocksSelectable
