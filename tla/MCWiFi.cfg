SPECIFICATION FairSpec
CONSTANTS
    Task = {t1, t2}
    NoTask = NoTask
    MaxQueue = 3
CONSTRAINT Orderly
INVARIANTS
    FlagsTruthful
    StoppedMeansDown
    ListenersTold
    OneReconnectTask
PROPERTIES
    Reconnects
