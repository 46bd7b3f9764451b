SPECIFICATION Spec
CONSTANTS
    Procs = {p1, p2}
    MaxConcurrent = 2
    Slugs = {s1, s2}
    Agents = {a1, a2}
    MaxVersion = 2
    MaxKey = 2
    Rekeyed = {s1}
SYMMETRY Symmetry
INVARIANTS TypeOK NeverBehindRecord RecordedIsInstalled PinHolds
CHECK_DEADLOCK FALSE
