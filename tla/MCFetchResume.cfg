SPECIFICATION Spec
CONSTANTS
    Transactions <- MCTransactions
    Source <- MCSource
    Configurations <- EachAlone
    Outages = {}
    TornMerges = FALSE
    IndexLoss = FALSE
    LongPauses = FALSE
    Lag = 1
    Window = 2
    Overlap = 1
    Span = 5
    MaxRetries = 1
    FirstDay = 4
    LastDay = 10
INVARIANTS
    TypeOK
    ResumeLosesNothing
