SPECIFICATION Spec
CONSTANTS
    None = None
    AddressBits = 3
    LongPrefix = 2
    IndexBase = 6
    ChunkGroups = 2
    BulkMax = 2
    ParseThreads = 1
    BuildThreads = 1
    Configs <- WildcardConfigs
    Packets <- WebPackets
    MaxBurst = 1
    MaxCompiles = 1
    BurstCompiles = 1
    MemberAddsFail = FALSE
INVARIANT MemberFilterSound
CHECK_DEADLOCK FALSE
