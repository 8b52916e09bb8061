SPECIFICATION Spec
CONSTANTS
    Keys = {k1, k2}
    Workers = {w1, w2}
    Sizes = {1, 2}
    Positions = {0, 1, 2}
    TtlEnabled = TRUE
    EvictionThreshold = 1
    None = None
SYMMETRY Symmetry
INVARIANTS
    FlowTypeOK
    HardCeiling
    HitsOwnUntilRecycled
