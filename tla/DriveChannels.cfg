\* One channel on an image of two blocks of two bytes; a buffer that holds more
\* than a block and less than the image.
SPECIFICATION Spec
CONSTANTS
    Channels = {2}
    Blocks = 2
    BlockSize = 2
    BufferSize = 3
    WriteSizes = {1, 2}
    MaxFailures = 1
    Rules = {"seeks", "inside", "checks"}
INVARIANTS
    TypeOK
    ReadsInPlace
    WritesInPlace
    PositionsAgree
