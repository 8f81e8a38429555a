CONSTANTS
    Points = {p1}
    Readings = {full, bare}
    WithMix = {full}
    None = None
    Writers = {w1, w2}
    MaxBatch = 3
    Amounts = {1, 2}
    Runs = {1, 2}
    Valids = {1, 2, 3}
    MaxReach = 2
    Visits = {q1, q2}
    Visitors = {v1, v2}
    Days = {1, 2}
    Requests = {r1, r2}
    Ips = {a}
    ApiKeys = {k1, k2}
    NoKey = NoKey
    Overflow = Overflow
    AnonLimit = 1
    KeyLimit = 2
    MaxTracked = 1
    CacheMax = 1
    Ttl = 1
    Minute = 1
    MaxTime = 2
SYMMETRY Symmetry
SPECIFICATION StoreOrQuotaSpec
INVARIANTS AcvMatchesRte VisitCounted Bounded KeysObeyed QuotaUnlessStraddled
PROPERTIES VintageNeverDown ImplementsRegister OneStatement NothingForgotten
