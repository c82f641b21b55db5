SPECIFICATION FairSpec
CONSTANTS
    Worker = {w1, w2}
PROPERTIES
    ServiceReturns
