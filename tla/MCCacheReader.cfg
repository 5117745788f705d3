SPECIFICATION ReaderSpec
CONSTANTS
    Accounts <- MCAccounts
    Conns <- MCConns
    Dir <- MCDir
    Names <- MCNames
    Display <- MCDisplay
    Chunks <- MCChunks
    TxnIds = {t1}
    Versions = {v1}
    Securities = {s1, s2}
    Backends = {}
    t1 = t1
    v1 = v1
    s1 = s1
    s2 = s2
    Absent = Absent
    Torn = Torn
    Unread = Unread
INVARIANTS
    ReaderTypeOK
    CountedIsRead
    PositionsDescribed
    OnlyResetsBreakReads
