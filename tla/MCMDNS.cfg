SPECIFICATION EnderSpec
CONSTANTS
    Worker = {w1, w2}
INVARIANTS
    TypeOK
    OneWorker
    EndReleases
PROPERTIES
    EndReturns
