SPECIFICATION Spec
CONSTANTS
    PortCount = 3
    Configs <- MCConfigs
    BurstSize = 2
    StagingSize = 2
    RingSize = 1
    MaxFlows = 1
    FlushInterval = 2
    None = None
INVARIANT NoMbufLost
CHECK_DEADLOCK FALSE
