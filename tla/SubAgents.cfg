CONSTANTS
    Invocations = {i1, i2, i3}
    Main = Main
    NoSession = NoSession
    Agents = {a, b}
    CacheMax = 1
    MaxDropped = 1
    MaxTurns = 2
SPECIFICATION Spec
SYMMETRY CallSymmetry
INVARIANTS TypeOK ScopesRight FilesOwnUnlessMixed
PROPERTIES PartialKept
CHECK_DEADLOCK FALSE
