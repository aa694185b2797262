SPECIFICATION Spec
CONSTANTS
    s1 = s1  s2 = s2  s3 = s3  p1 = p1  p2 = p2
    none = none  start = start  batch = batch
    Procs = {s1, s2, s3}
    Command <- MCCommand
    Nobody = none
    Projects = {p1, p2}
    Sources = {"h"}
    Others = {"txt"}
    Batch = batch
    BatchOrder <- MCBatchOrder
    Start = start
    NoFile = none
    Partial = Partial
    NoTimer = none
    Sites <- MCSites
    MaxActive = 2
    MaxInputs = 3
    Killed = p1
    Left = Left
INVARIANTS QuietListsAreCurrent OutputIsWhole
PROPERTIES ListsCatchUp CommandsReturn
CHECK_DEADLOCK FALSE
