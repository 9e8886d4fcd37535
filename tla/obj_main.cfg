SPECIFICATION Spec
CONSTANTS
    Threads = {t1, t2}
    Devices = {d1, d2}
    MaxBo = 3
    MaxVm = 1
    MaxGroup = 1
    Builders = {d1}
    UserVas = {101}
    KmdVaTop = 3
    ChunkCounts = {1, 2}
    HeapPagesMax = 2
    None = None
SYMMETRY Symmetry
CHECK_DEADLOCK FALSE
INVARIANTS
    TablesSound
    MappingFollowsBo
    HeapWalkable
