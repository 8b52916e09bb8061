SPECIFICATION HotSpec
CONSTANTS
    Workers = {w1}
    Null = null
INVARIANT HeldTablesAlive
