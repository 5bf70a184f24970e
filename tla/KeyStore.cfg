SPECIFICATION FairSpec
CONSTANTS
    Seeds = {A, B, C}
    A = A
    B = B
    C = C
    Blank = Blank
    Torn = Torn
    Worlds <- MCWorlds
INVARIANTS
    TypeOK
    NoForeignPrivateKey
    KeyPairsMatch
    IInv
    ReadyHasKeyPairUncut
    IdleMeansReadyFaultless
    SlotsHoldDifferentSeeds
    FaultlessInv
PROPERTIES
    ServiceSpec
    EnvironmentSpec
    KeysAreKept
    EventuallyReady
