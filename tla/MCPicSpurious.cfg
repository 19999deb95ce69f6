\* The spurious cascade of an AT.
SPECIFICATION Spec
CONSTANTS
    NLines = 4
    Arch = "at"
    Irqs = {4, 7}
    EdgeIrqs = {}
    MaskIrqs = {7}
    Masks <- NoMasks
    SpecialMask = {FALSE}
    Icws <- NoIcw
    AutoEois = {}
    NeverMarkCascade = FALSE
    IgnoreCascade = FALSE
    Hacked = {}
PROPERTIES SpuriousCascadeIsCleared
