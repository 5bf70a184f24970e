SPECIFICATION Spec
CONSTANTS
    A = A
    B = B
    headA = headA
    headB = headB
    Keys = {A, B}
    NoKey = NoKey
    Heads = {headA, headB}
    Tails = {tail}
    NoTx = NoTx
    Owner <- MCOwner
    Slots = {1, 2}
    KEY_SLOT_1 = 1
    Capacity = 2
    Faulty = TRUE
SYMMETRY OwnerSymmetry
INVARIANTS
    TypeOK
    SignedIsApproved
    SignatureByOwner
    SecondHalfOnce
    NoGapInReview
    ReviewIsBuffered
    AppInv
PROPERTIES
    SignerSpec
