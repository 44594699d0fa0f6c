SPECIFICATION Spec
CONSTANTS
    Configs <- AllConfigs
    MaxTime = 2
    Ctxs = {c1, c2, c3, c4}
    Fragile <- OneCopyConfigs
    None = None
SYMMETRY CtxSymmetry
INVARIANT TypeOK
PROPERTIES CampOnIsCurrent NothingLostInSleep
