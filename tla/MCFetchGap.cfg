SPECIFICATION Spec
CONSTANTS
    Transactions <- GapTransactions
    Source <- MCSource
    Configurations <- Both
    Outages = {}
    TornMerges = FALSE
    IndexLoss = FALSE
    LongPauses = FALSE
    Lag = 1
    Window = 2
    Overlap = 1
    Span = 5
    MaxRetries = 1
    FirstDay = 6
    LastDay = 8
PROPERTIES
    FetchAllCanBeResumed
