SPECIFICATION FairSpec
CONSTANT Workers = {w1, w2}
INVARIANTS
    TypeOK
    PausedCountExact
    NoLostReload
PROPERTIES
    Shutdown
    ReloadsFinish
    WorkersResume
