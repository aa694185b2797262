SPECIFICATION Spec
CONSTANTS
    Commits = {"c1", "c2", "c3"}
    Branches = {"main", "topic"}
    Tip <- MCTip
    MaxCommands = 3
    None = None
INVARIANTS
    MeasurementsAreOfTheirCommit
    BackOnTheBranch
CHECK_DEADLOCK FALSE
