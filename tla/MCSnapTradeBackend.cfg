SPECIFICATION Spec
CONSTANTS
    Accounts = {"ira", "roth"}
    Securities = {"VTI", "BND"}
    None = "none"
    Activities <- MCActivities
    Orders <- MCOrders
    DtStart = 1
    DtEnd = 7
    Window = 3
    PageLimit = 2
INVARIANTS
    TypeOK
    NothingMissed
    ChunkDescribed
PROPERTIES
    CallEnds
CHECK_DEADLOCK FALSE
