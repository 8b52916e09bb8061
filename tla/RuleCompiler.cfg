SPECIFICATION Spec
CONSTANTS
    None = None
    AddressBits = 3
    LongPrefix = 2
    IndexBase = 6
    ChunkGroups = 2
    BulkMax = 2
    ParseThreads = 2
    BuildThreads = 2
    Configs <- MCConfigs
    Packets <- MCPackets
    MaxBurst = 3
    MaxCompiles = 4
    BurstCompiles = 1
    MemberAddsFail = TRUE
INVARIANTS
    TypeOK
    PartitionExact
    MatchPicksPreferred
    BulkAgreesWithMatch
    
    LeakBounded
CHECK_DEADLOCK FALSE
