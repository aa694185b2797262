SPECIFICATION FairSpec
CONSTANTS
    MaxSlots = 3
    Workers = {w1, w2}
INVARIANTS
    BatchesFollowSlotOrder
    HandlerInOnePlace
    LiveCommandBuffersDistinct
PROPERTY EveryHandlerRuns
