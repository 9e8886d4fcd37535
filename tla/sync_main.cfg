SPECIFICATION FairSpec
CONSTANTS
    Signallers = {s1}
    Waiters = {w1}
    Timelines = {TRUE, FALSE}
    MaxHandles = 2
    MaxPoint = 2
    MaxCount = 2
    MaxCalls = 3
    Limits = {"forever", "poll", "finite"}
INVARIANTS
    ObjectsCounted
    
PROPERTIES
    ReachedReturns
