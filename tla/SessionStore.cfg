CONSTANTS
    Procs = {p1}
    Nil = Nil
    Throttle = 2
    MaxSessions = 1
    MaxClock = 2
    MaxTurns = 2
    MaxConvs = 3
    Commands = {"quiet", "dump", "new", "crash", "load"}
SPECIFICATION Spec
INVARIANTS TypeOK CanonicalIsNewest LossBounded
CHECK_DEADLOCK FALSE
