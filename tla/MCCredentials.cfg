SPECIFICATION Spec
CONSTANTS
    Tokens <- MCTokens
    Urls <- MCUrls
    Grant <- MCGrant
    Users <- MCUsers
    tok1 = tok1
    tok2 = tok2
    url1 = url1
    url2 = url2
    pasted = pasted
    u1 = u1
    u2 = u2
    u3 = u3
    Personal = Personal
    None = None
SYMMETRY UserSymmetry
INVARIANTS
    TypeOK
    SetupKeepsOrReplaces
    NoOrphans
    DeleteIsComplete
    SetupEnablesFetch
