SPECIFICATION FairSpec
CONSTANTS
    Surfaces = {s1}
    NumImages = 3
    MaxFrames = 4
    MaxRecreations = 2
INVARIANTS
    AcquireSemaphoreIdle
    ImageInOneFrame
    SwapchainOutlivesItsImages
PROPERTY FramesAreShown
