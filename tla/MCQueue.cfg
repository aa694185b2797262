SPECIFICATION FairSpec
CONSTANTS
    MaxSubmits = 3
    Callers = {c1, c2}
    SchedulerThread = sched
INVARIANTS
    FenceHasOneOwner
    NextFenceIsIdle
    CallbackOnceAfterExecution
    WaitCoversItsSubmissions
PROPERTIES
    Refinement
    EveryCallbackIsCalled
    StopTerminates
