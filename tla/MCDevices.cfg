SPECIFICATION Spec
CONSTANTS
    Keys = {k1, k2}
    NoKey = none
    KEYBUFSIZE = 4
    MaxPacket = 2
    MaxResponses = 3
    MouseButtons = {left, right}
    QUEUE_SIZE = 3
    MaxNested = 2
    Codes = {c1, c2}
    Ring = 4
    MaxSends = 2
INVARIANTS DevicesTypeOK NoByteStranded NoOverrun RepeatIsHeld EventsHaveTimer LastEventIsTrue ReadInOrder
PROPERTIES ByteComes EventsAreTaken ByteComesUp
