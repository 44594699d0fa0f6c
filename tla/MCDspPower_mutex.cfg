SPECIFICATION Spec
CONSTANTS
    Tasks = {t1, t2, t3}
    NoTask = NoTask
SYMMETRY TaskSymmetry
INVARIANTS TypeOK OneOffRequest
PROPERTY NoCopyUnderRunningDsp
