CONSTANTS
    NPages = 2
    Params = {p1}
    Vals = {v0, v1}
    Damaged = Damaged
    None = None
    ErasedNum = 5
    DefaultContents <- MCDefault
    IsFactory = TRUE
    MinVbatSet = TRUE
    GarbledTags = TRUE
    PageDecay = TRUE
SPECIFICATION FairSpec
INVARIANT NoDamagedRead
PROPERTY CallsReturn
