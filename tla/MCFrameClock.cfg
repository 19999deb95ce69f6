\* Frames of half a tick and of two and a half ticks; devices that wait for one tick,
\* or for more than a frame; automatic cycles, with sleeps of one or two ticks.
\* The guest may set fast forward.
\* The host may stop calling.
SPECIFICATION FairSpec
CONSTANTS
    Keys = {ka, kb}
    Parts = 2
    FrameLengths = {1, 5}
    Delays = {1, 4}
    Sleeps = {1, 2}
    MaxRemain = 2
    TurboTicks = 2
    Turbo = {TRUE, FALSE}
    MaxTicks = 7
INVARIANTS FrameOnTime NoTickLost KeysFollow
PROPERTIES NoGhostKeys FrameNearer FramesReturn
CHECK_DEADLOCK FALSE
