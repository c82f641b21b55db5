SPECIFICATION Spec
CONSTANTS
    Handle = {h1, h2}
    None = None
    Uri = {u1}
    MaxPages = 2
    MaxSockets = 1
CONSTRAINT NotCorrupted
INVARIANTS
    TypeOK
    ServerUp
    RoutesServed
    NoLostServer
    BroadcastOwn
PROPERTIES
    ReportEnds
