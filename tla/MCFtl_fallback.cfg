CONSTANTS
    NPages = 3
    Params = {p1, p2}
    Vals = {v0, v1}
    Damaged = Damaged
    None = None
    ErasedNum = 6
    DefaultContents <- MCDefault
    IsFactory = FALSE
    MinVbatSet = FALSE
    GarbledTags = FALSE
    PageDecay = TRUE
SPECIFICATION Spec
INVARIANT ChooseFindsValid
