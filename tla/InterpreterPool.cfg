CONSTANTS
    Calls = {c1, c2}
    Interps = {i1, i2}
    NoInterp = NoInterp
    MaxWorkers = 1
    KeepAlive = TRUE
SPECIFICATION LiveSpec
INVARIANTS PoolTypeOK Exclusive NoForgotten DestroyedOnlyByTimeout OnlyLateReleasesSurviveShutdown
PROPERTIES CallsReturn
CHECK_DEADLOCK FALSE
