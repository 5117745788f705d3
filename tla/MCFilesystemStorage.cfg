SPECIFICATION Spec
CONSTANTS
    Accounts <- MCAccounts
    Conns <- MCConns
    Dir <- MCDir
    Names <- MCNames
    Display <- MCDisplay
    Chunks <- MCChunks
    TxnIds = {t1, t2}
    Versions = {v1, v2}
    Securities = {s1, s2}
    Backends = {simplefin}
    t1 = t1
    t2 = t2
    v1 = v1
    v2 = v2
    s1 = s1
    s2 = s2
    Absent = Absent
    Torn = Torn
CONSTRAINT Explored
INVARIANTS
    TypeOK
    IndexSound
    AckedKept
    InvestmentIdsUnique
    RegistryCoversPositions
PROPERTIES
    HistoryKept
    CountsNeverShrink
    ImplementsLedger
