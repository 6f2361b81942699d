CONSTANTS
    Invocations = {i1, i2, i3}
    Main = Main
    NoSession = NoSession
    Agents = {a, b}
    CacheMax = 1
    MaxDropped = 0
    MaxTurns = 1
SPECIFICATION Spec
SYMMETRY CallSymmetry
PROPERTIES PartialCaptured
CHECK_DEADLOCK FALSE
