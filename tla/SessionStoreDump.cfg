CONSTANTS
    Procs = {p1}
    Nil = Nil
    Throttle = 2
    MaxSessions = 1
    MaxClock = 2
    MaxTurns = 2
    MaxConvs = 3
    Commands = {"dump", "fail"}
SPECIFICATION Spec
INVARIANTS SavedMeansOnDisk
CHECK_DEADLOCK FALSE
