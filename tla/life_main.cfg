SPECIFICATION Spec
CONSTANTS
    Vms = {v1, v2}
    VmSlots = {2, 3}
    MaxSessions = 3
SYMMETRY Symmetry
CHECK_DEADLOCK FALSE
INVARIANTS
    LeavesNothing
    JobsReady
    MemoryUnderGpu
    CleanStart
    VmsApart
