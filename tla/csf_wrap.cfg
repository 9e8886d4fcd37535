SPECIFICATION Spec
CONSTANTS
    Groups = {g1}
    Kernel = {}
    BringupAs = BringupAs
    None = None
    RingSlots = 2
    MaxJobs = 3
    MaxCalls = 3
    Fates = {"ok"}
    StartAcks = {TRUE}
INVARIANTS
    JobReachable
