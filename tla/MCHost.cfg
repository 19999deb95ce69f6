SPECIFICATION Spec
CONSTANTS
    Keys = {k1}
    Sticks = {fire}
    MaxFloppies = 2
    MOUSE_ABS_STEPS = 8
    CLIENT_FRAMES = 2
    Ranges = {2, 3}
    Lows = {0, 1}
    Speeds = {1}
    Positions = {0, 5}
    MaxMoves = 3
    lines_total = 2
    Contents = {a, b}
    Blank = none
INVARIANTS HostTypeOK InputFollows InsertedIsInDrive PlacedIsFollowed DriftIsBounded PictureCatchesUp
