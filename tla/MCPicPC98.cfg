\* A PC-98 (cascade on the last line, ignored while in service) whose guest
\* reinitialises the controllers and uses every mode of them.
SPECIFICATION Spec
CONSTANTS
    NLines = 3
    Arch = "pc98"
    Irqs = {1, 4}
    EdgeIrqs = {}
    MaskIrqs = {}
    Masks <- TwoMasks
    SpecialMask = {TRUE, FALSE}
    Icws <- SlaveIcw
    AutoEois = {TRUE, FALSE}
    NeverMarkCascade = FALSE
    IgnoreCascade = TRUE
    Hacked = {}
INVARIANTS NoLostInterrupt ActiveMatchesService
