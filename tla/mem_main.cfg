SPECIFICATION Spec
CONSTANTS
    Allocs = {a1}
    Bos = {b1}
    Ranges = {1}
    ContextVas = {1}
    MaxGrants = 3
CHECK_DEADLOCK FALSE
INVARIANTS
    MemorySound
    TlbFollowsTables
    TakenOutOfReach
