SPECIFICATION Spec
CONSTANTS
    Byte <- MCByte
    NUL = "0"
    Uninit = Uninit
    Text <- MCText
    Methods = {"render", "display"}
    Nobody = Nobody
    EstimatedSize = 2
    ChunkSize = 3
    MaxOutput = 6
INVARIANTS
    NoOverrun
    BufferHoldsOutput
PROPERTY
    ImplementsRendering
