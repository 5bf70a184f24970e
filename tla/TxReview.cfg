SPECIFICATION ReviewSpec
CONSTANTS
    ByteSize = 256
    OwnerLen = 1
    MaxTags = 2
    UiBuffer = 3
    KeyLine = 3
    DeviceOwner <- MCOwner
    Amounts <- MCAmounts
    ChunkSize = 4
    MaxParses = 2
    Inputs <- MCInputs
INVARIANTS
    ReviewTypeOK
    ElementsInBuffer
    ParserInv
    ParsedIsEncoded
    ReviewIsComplete
    DigestIsDeepHash
