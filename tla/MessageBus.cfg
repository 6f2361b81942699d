CONSTANTS
  MaxSize = 2
  MaxEmits = 6
  MaxStarts = 1
SPECIFICATION FairSpec
INVARIANTS TypeOK AccountedWhileUp
PROPERTIES ShownInOrder DropsOldest EventuallyHandled
CHECK_DEADLOCK FALSE
