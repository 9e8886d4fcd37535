SPECIFICATION FairSpec
CONSTANTS
    Groups = {g1, g2}
    Kernel = {k1}
    BringupAs = BringupAs
    None = None
    RingSlots = 2
    MaxJobs = 3
    MaxCalls = 3
    Fates = {"ok", "slow", "hang", "fault"}
    StartAcks = {TRUE, FALSE}
INVARIANTS
    TypeOK
    SuccessMeansRan
    RightAddressSpace
    RanOnce
PROPERTIES
    ContractImplemented
    SubmitReturns
