\* Fast forward.
SPECIFICATION FairSpec
CONSTANTS
    Keys = {ka, kb}
    Parts = 2
    FrameLengths = {1, 5}
    Delays = {1, 4}
    Sleeps = {1, 2}
    MaxRemain = 2
    TurboTicks = 2
    Turbo = {TRUE}
    MaxTicks = 7
PROPERTY FrameEnds
CHECK_DEADLOCK FALSE
