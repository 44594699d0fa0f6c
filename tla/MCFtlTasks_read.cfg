CONSTANTS
    NPages = 2
    Params = {p1}
    Vals = {v0, v1}
    Damaged = Damaged
    ErasedNum = 5
    DefaultContents <- MCDefault
    Tasks = {t1, t2}
SPECIFICATION TasksSpec
INVARIANT NoTornRead
SYMMETRY TaskSymmetry
