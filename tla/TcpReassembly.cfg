SPECIFICATION Spec
CONSTANTS
    Paddings = {0}
    Traffic <- ThreeStreams
    Content <- Pipelined
    StartByte = "S"
    Segments <- Short
    Corruptible = TRUE
    Noise = "x"
    Isn = 14
    Modulus = 16
    MaxStreams = 2
    MaxBufferedBytes = 2
    MaxOutOfOrder = 2
    Budget = 3
    DropConflictingOverlap = TRUE
    None = None
INVARIANTS
    AccountingExact
    WithinLimits
    PayloadIntact
    NoByteLost
