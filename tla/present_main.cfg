SPECIFICATION Spec
CONSTANTS
    Buffers = {b1, b2}
    Bpp = 2
    PitchAlign = 4
    PageSize = 8
    Sizes <- MCSizes
    Corners <- MCCorners
    MaxFrames = 3
    None = None
SYMMETRY Symmetry
CHECK_DEADLOCK FALSE
INVARIANTS
    
    LastPresentWins
PROPERTIES
    OlderOnlyBetween
