SPECIFICATION FairSpec
CONSTANTS
    Task = {t1, t2}
    Conn = {c1, c2}
    Port = {p1}
    None = None
INVARIANTS
    TypeOK
    NoLeak
    SendSafe
    StoppedMeansClosed
CONSTRAINT OneMishap
PROPERTIES
    SelfHeals
    TaskEnds
