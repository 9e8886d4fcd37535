SPECIFICATION Spec
CONSTANTS
    Callers = {c1, c2}
    Workers = {w1}
    NoThread = NoThread
    SubDepth = 3
    NotDepth = 3
    MaxFence = 3
    MaxStarts = 2
    Ops = {"submit", "preempt", "reset", "stop"}
    StartOutcomes = {"ok", "nothread", "bare"}
SYMMETRY CallerSymmetry
INVARIANTS
    TypeOK
    AccountedOnce
    NoLostWakeup
    DpcComing
    NoJobAfterTeardown
PROPERTIES
    SubmitLostOnlyBy
    LedgerImplemented
