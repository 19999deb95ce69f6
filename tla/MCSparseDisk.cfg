\* Requests over three chunks, the last one cut short, and a savestate slot.
SPECIFICATION FairSpec
CONSTANTS
    Size = 5
    CHUNK = 2
    Values = {0, 1, 2}
    Zero = 0
    BaseLen = 3
    BaseBytes <- Base3
    MaxLen = 4
    Payloads <- Ramp
    Slots = {s1}
    HostMayFail = TRUE
    ReadErrors = FALSE
    NoBlock = NoBlock
    NoCall = NoCall
    NoState = NoState
INVARIANT TypeOK
PROPERTIES FlatSpec OverlayIsWritten CallsReturn
