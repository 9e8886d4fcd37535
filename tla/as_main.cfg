SPECIFICATION Spec
CONSTANTS
    Threads = {t1, t2}
    Ctxs = {c1, c2}
    Vms = {v1, v2}
    AsSlotMax = 4
    AsPresent = {0, 1, 2, 3}
    Versions = {1, 2}
    NULL = NULL
    Off = Off
    Idle = Idle
SYMMETRY Symmetry
CHECK_DEADLOCK FALSE
INVARIANTS
    SlotsSound
    
PROPERTIES
    TranslationKept
