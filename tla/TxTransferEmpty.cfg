SPECIFICATION TransferSpec
CONSTANTS
    ByteSize = 256
    OwnerLen = 1
    MaxTags = 2
    UiBuffer = 3
    KeyLine = 3
    DeviceOwner <- MCOwner
    Amounts <- MCAmounts
    ChunkSize = 4
    MaxParses = 1
    Inputs = {}
    Messages <- MCMessages
    Capacity = 16384
INVARIANTS
    MessageIsShown
