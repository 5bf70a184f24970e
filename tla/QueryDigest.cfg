SPECIFICATION QuerySpec
CONSTANTS
    A = A
    B = B
    Keys = {A, B}
    NoKey = NoKey
    Slots = {1}
    KEY_SLOT_1 = 1
    Inputs <- MCInputs
    Modulus <- MCModulus
    Sha256 <- MCSha256
    CX_SHA256_SIZE = 5
    RSA_MODULUS_HALVE = 2
    AddressSize = 7
    BufferSize = 13
    PageSize = 4
    Version <- MCVersion
    TARGET_ID <- MCTarget
    Kinds = {"digest"}
    Message <- MCMessage
    DeepHash <- MCDeepHash
    DIGEST_LEN = 12
    Lossy = TRUE
INVARIANTS
    DigestIsOfMessage
