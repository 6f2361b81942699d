CONSTANTS
  Prompts <- ManyPrompts
  Replies <- OneReply
  Results <- SomeResults
  LongTexts = {"paste"}
  Facts = {TRUE}
  Thoughts = {"no", "thought"}
  MaxTurns = 4
  MaxCalls = 4
  ModelMax = 20
  Overhead = 2
  Threshold = 60
  SafePct = 80
  FloorTokens = 2
  HardCap = 6
  Protected = 15
  Huge = 16
  Emergency = 5
  PruneAt = 50
  MaxPruned = 1
  Strategies = {"truncation", "summarization"}
SPECIFICATION Spec
INVARIANTS TypeOK PairedWhenSent TruncateSound
PROPERTIES SystemStaysFirst NothingLostWithoutPressure
CHECK_DEADLOCK FALSE
