\* An AT in normal EOI mode under fair scheduling.
SPECIFICATION FairSpec
CONSTANTS
    NLines = 4
    Arch = "at"
    Irqs = {0, 3, 4, 7}
    EdgeIrqs = {3}
    MaskIrqs = {3, 7}
    Masks <- NoMasks
    SpecialMask = {FALSE}
    Icws <- NoIcw
    AutoEois = {}
    NeverMarkCascade = FALSE
    IgnoreCascade = FALSE
    Hacked = {}
PROPERTIES HighestFirst FullyNested OneRequestPerInterrupt WaitingIsTaken
