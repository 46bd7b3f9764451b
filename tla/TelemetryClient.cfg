SPECIFICATION Spec
CONSTANTS
    Procs = {p1, p2, p3}
    MaxConcurrent = 2
    MaxQueue = 2
    MaxBatch = 1
    Envs = {"unset", "on"}
    NoState = NoState
    Free = Free
    Dead = Dead
SYMMETRY Symmetry
INVARIANTS TypeOK NoEventLost LoneOptOutHolds NoticeFirst NeverWaits
CHECK_DEADLOCK FALSE
