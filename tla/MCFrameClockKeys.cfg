\* A device waits for longer than a frame.
SPECIFICATION Spec
CONSTANTS
    Keys = {ka, kb}
    Parts = 2
    FrameLengths = {1, 5}
    Delays = {1, 4}
    Sleeps = {1, 2}
    MaxRemain = 2
    TurboTicks = 2
    Turbo = {}
    MaxTicks = 7
INVARIANT ReleaseArrives
CHECK_DEADLOCK FALSE
