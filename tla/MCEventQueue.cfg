\* A timer of 7/8 ms, late by up to half a millisecond, and a pool that runs out
\* while it is served. A handler that adds itself with no delay never lets the
\* queue end: none does.
SPECIFICATION FairSpec
CONSTANTS
    PIC_QUEUESIZE = 3
    CPU_CycleMax = 4
    RESOLUTION = 2
    Handlers = {ha}
    Timer = Timer
    Period = 7
    Vals = {0, 1}
    Delays = {0, 3, 9}
    ServiceDelays = {1, 4}
    MaxPending = 2
    MaxOverrun = 2
    TickWrap = 7
    NoEntry = NoEntry
INVARIANTS EntriesConserved ServedOnTime TimeIsCycles NoDrift
PROPERTIES CountsDown TimerKept TimerFires LoopComesRound
