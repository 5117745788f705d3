SPECIFICATION Spec
CONSTANTS
    Accounts <- SameNameAccounts
    Conns <- MCConns
    Dir <- MCDir
    Names <- MCNames
    Display <- MCDisplay
    Chunks <- SameNameChunks
    TxnIds = {t1, t2}
    Versions = {v1, v2}
    Securities = {s1, s2}
    Backends = {simplefin}
    t1 = t1
    t2 = t2
    v1 = v1
    v2 = v2
    s1 = s1
    s2 = s2
    Absent = Absent
    Torn = Torn
PROPERTIES
    WipeKeepsCredentials
