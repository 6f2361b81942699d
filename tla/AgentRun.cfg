CONSTANTS
    MaxTries = 2
    MaxHook = 2
    MaxCritic = 2
    MaxLoop = 3
    MaxReview = 4
    Streaming = TRUE
SPECIFICATION FairSpec
INVARIANTS TypeOK RewritesBounded
PROPERTIES WithinBudget PromptsEnd
