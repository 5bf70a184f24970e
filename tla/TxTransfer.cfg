SPECIFICATION TransferSpec
CONSTANTS
    ByteSize = 8
    OwnerLen = 1
    MaxTags = 2
    UiBuffer = 3
    KeyLine = 3
    DeviceOwner <- MCOwner
    Amounts <- MCAmounts
    ChunkSize = 4
    MaxParses = 2
    Inputs = {}
    Messages <- MCMessages
    Capacity = 45
INVARIANTS
    ChunksJoin
    MessageIsReviewed
