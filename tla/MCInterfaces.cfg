SPECIFICATION Spec
CONSTANTS
    Wanted <- MCWanted
    Broken <- MCBroken
    Loose <- MCLoose
    Chosen = {0, 3}
    Router = {1, 6, 11, 14}
    Lease <- MCLease
    None = None
CONSTRAINT OneSide
INVARIANTS
    TypeOK
    StaticApplied
    ChannelSynced
    ScanAnnounced
