SPECIFICATION FairSpec
CONSTANTS
    Task = {t1, t2}
    Conn = {c1, c2}
    Port = {p1}
    None = None
PROPERTIES
    ImmuneToMess
