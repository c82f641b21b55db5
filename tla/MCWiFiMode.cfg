SPECIFICATION Spec
CONSTANTS
    Task = {t1, t2}
    NoTask = NoTask
    MaxQueue = 3
INVARIANTS
    ModeFollowsSta
