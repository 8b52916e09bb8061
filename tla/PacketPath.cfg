SPECIFICATION Spec
CONSTANTS
    PortCount = 3
    Configs <- MCConfigs
    BurstSize = 2
    StagingSize = 2
    RingSize = 1
    MaxFlows = 1
    FlushInterval = 2
    None = None
INVARIANTS
    TypeOK
    MbufOwnedOnce
    ParsedBalanced
    TotalsExact
    FlowAffinity
    StagingBounded
    DropRulesHonoured
CHECK_DEADLOCK FALSE
