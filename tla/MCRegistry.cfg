SPECIFICATION Spec
CONSTANTS
    Xmls <- MCXmls
    OptionSets <- MCOptionSets
    None = None
    MaxDepth = 3
    Overflow = Overflow
INVARIANTS
    DeclaredBeforeUse
    RemovalsWin
    NothingMissing
    DependsMeansTheSame
CHECK_DEADLOCK FALSE
