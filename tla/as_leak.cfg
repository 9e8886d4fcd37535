SPECIFICATION Spec
CONSTANTS
    Threads = {t1}
    Ctxs = {c1}
    Vms = {v1}
    AsSlotMax = 4
    AsPresent = {0, 1, 2, 3}
    Versions = {1}
    NULL = NULL
    Off = Off
    Idle = Idle
CHECK_DEADLOCK FALSE
INVARIANTS
    ContextSlotReleased
