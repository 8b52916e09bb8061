SPECIFICATION Spec
CONSTANTS
    Keys = {k1, k2}
    Workers = {w1}
    Sizes = {2}
    Positions = {0, 1, 2}
    TtlEnabled = TRUE
    EvictionThreshold = 1
    None = None
INVARIANTS
    HitsOwn
