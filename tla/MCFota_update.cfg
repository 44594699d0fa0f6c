SPECIFICATION Spec
CONSTANTS
    Images = {"v1", "v2"}
    Packages <- SomePackages
    ShaPart = 1
    HeadLen = 3
    BlockLens = {1, 3}
    AreaBase = 1
    AreaLen = 7
    FlashEnd = 9
    Code = Code
    Erased = Erased
    Garbage = Garbage
    None = None
    Broken = Broken
INVARIANTS TypeOK HandedOverIsWhole HashIsOfFlash RunningImageKept
PROPERTY OnlyGenuineUpdates
