SPECIFICATION FairSpec
CONSTANTS
    Textures = {color, depth}
    DepthTextures = {depth}
    MaxNodes = 3
INVARIANTS
    LayoutsMatch
    ReadsSeeLastWrite
PROPERTY ListenersAreServed
