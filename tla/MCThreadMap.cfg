SPECIFICATION MapSpec
CONSTANTS
    Threads = {w1, w2, w3, w4}
    Constructor = main
    Capacity = 3
SYMMETRY ThreadSymmetry
INVARIANTS
    ObjectsAreExclusive
    SameObjectEachTime
    ThrowsOnlyWhenFull
