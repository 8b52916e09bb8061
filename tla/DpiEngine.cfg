SPECIFICATION Spec
CONSTANTS
    Hosts <- MCHosts
    Slots = 3
    MaxProbes = 3
    Hash <- MCHash
    Key <- MCKey
    NoMatchIdx = 99
    Configs <- MCConfigs
    SmallSort = 3
    MaxLoads = 3
    None = None
INVARIANTS
    TypeOK
    VerdictMatches
    VerdictPreferred
    HitInRange
    OneSlotPerHost
    LinksBound
CHECK_DEADLOCK FALSE
