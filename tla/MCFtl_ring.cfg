CONSTANTS
    NPages = 3
    Params = {p1, p2}
    Vals = {v0, v1}
    Damaged = Damaged
    None = None
    ErasedNum = 7
    DefaultContents <- MCDefault
    IsFactory = FALSE
    MinVbatSet = TRUE
    GarbledTags = FALSE
    PageDecay = FALSE
SPECIFICATION Spec
INVARIANTS TypeOK RingInv ClocksFromStored
PROPERTIES ImplementsCell NewestCopySurvives
