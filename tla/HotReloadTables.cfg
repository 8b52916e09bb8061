SPECIFICATION HotSpec
CONSTANTS
    Workers = {w1, w2}
    Null = null
SYMMETRY WorkerSymmetry
INVARIANTS
    HotTypeOK
    FreedTablesUnused
