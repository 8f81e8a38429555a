CONSTANTS
    Keys = {k1, k2}
    Ids = {i1, i2}
    None = None
    MaxPerOwner = 1
    MaxFailures = 2
    PurgeDays = 1
    Requests = {r1, r2}
    Revokers = {v1}
SPECIFICATION FairSpec
INVARIANTS QuotaRespected RevocationCountExact
PROPERTIES DisabledIsFinal OnlyJustifiedRemoval ImplementsRegistry TransactionsEnd
