CONSTANTS
    None = None
    Cpus = 2
    MaxBuildMb = 4
    Settings <- MCSettings
    Sites <- MCSites
SPECIFICATION FairSpec
INVARIANTS
    TypeOK
    ReleasedInOrder
    AcceptedRuns
    LagExplained
PROPERTIES
    ShutdownCompletes
    PublicationKept
CHECK_DEADLOCK FALSE
