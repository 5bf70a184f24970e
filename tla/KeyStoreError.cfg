SPECIFICATION Spec
CONSTANTS
    Seeds = {A, B}
    A = A
    B = B
    Blank = Blank
    Torn = Torn
    Worlds <- StaxWithFailures
SYMMETRY SeedSymmetry
INVARIANTS
    IdleMeansReady
