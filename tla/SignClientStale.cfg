SPECIFICATION ClientSpec
CONSTANTS
    A = A
    head1 = head1
    head2 = head2
    tail1 = tail1
    tail2 = tail2
    Keys = {A}
    NoKey = NoKey
    Heads = {head1, head2}
    Tails = {tail1, tail2}
    NoTx = NoTx
    Owner <- MCOwner
    Slots = {1}
    KEY_SLOT_1 = 1
    Capacity = 4
    Faulty = FALSE
    Calls = {call1}
    Messages <- MCMessages
    Lossy = TRUE
INVARIANTS
    ResolvesWithItsMessage
