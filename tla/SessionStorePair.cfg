CONSTANTS
    Procs = {p1, p2}
    Nil = Nil
    Throttle = 2
    MaxSessions = 1
    MaxClock = 2
    MaxTurns = 1
    MaxConvs = 2
    Commands = {"load", "fail"}
SPECIFICATION Spec
PROPERTIES NoClobber
CHECK_DEADLOCK FALSE
