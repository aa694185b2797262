SPECIFICATION FairSpec
CONSTANTS
    MaxTasks = 3
    MaxRounds = 4
    RendersOutside = TRUE
INVARIANTS
    PresentedFramesAreWaitedFor
    OneFramePerTask
PROPERTY FramesProceed
