SPECIFICATION FairSpec
CONSTANTS
    Callers = {c1}
    Workers = {w1}
    NoThread = NoThread
    SubDepth = 5
    NotDepth = 6
    MaxFence = 4
    MaxStarts = 1
    Ops = {"submit", "preempt", "stop"}
    StartOutcomes = {"ok", "nothread", "orphan"}
INVARIANTS
    BoundaryExact
PROPERTIES
    CompletionInOrder
    EventuallyResolved
    StopReturns
