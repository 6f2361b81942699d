CONSTANTS
  Commands = {c1, c2}
  PoolSize = 1
  MaxPresses = 2
SPECIFICATION FairSpec
INVARIANTS TypeOK ContextCounted UntrackedOnlyInVain NoneOutlives
PROPERTIES CommandsReturn
CHECK_DEADLOCK FALSE
