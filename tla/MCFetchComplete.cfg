SPECIFICATION Spec
CONSTANTS
    Transactions <- FewTransactions
    Source <- MCSource
    Configurations <- Both
    Outages <- AnyOutage
    TornMerges = TRUE
    IndexLoss = TRUE
    LongPauses = TRUE
    Lag = 1
    Window = 2
    Overlap = 1
    Span = 3
    MaxRetries = 1
    FirstDay = 3
    LastDay = 6
INVARIANTS
    CompleteOnSuccess
    NoSilentGap
PROPERTIES
    RunEnds
