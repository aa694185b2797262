SPECIFICATION FairSpec
CONSTANTS
    MaxTasks = 3
    NumThreads = 2
    Throwers = {1}
INVARIANTS
    DependentsRunOnceAfter
PROPERTIES
    EveryTaskRuns
    WaitsEnd
    WaitCoversLaunchedTasks
