\* The host's fread stops early.
SPECIFICATION Spec
CONSTANTS
    Size = 3
    CHUNK = 2
    Values = {0, 1, 2}
    Zero = 0
    BaseLen = 3
    BaseBytes <- Base3
    MaxLen = 2
    Payloads <- Ramp
    Slots = {}
    HostMayFail = TRUE
    ReadErrors = TRUE
    NoBlock = NoBlock
    NoCall = NoCall
    NoState = NoState
PROPERTY StartsAsTheBase
