SPECIFICATION FairSpec
CONSTANTS
    Calls = {c1, c2}
    a = a
    b = b
    Syncs = {a, b}
    Points = {1}
    Programs <- MCPrograms
    NoCall = NoCall
CHECK_DEADLOCK FALSE
INVARIANTS
    NoFakeCompletion
    OutcomeReported

    
