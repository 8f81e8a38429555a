CONSTANTS
    Requests = {r1, r2}
    Ips = {a}
    ApiKeys = {k1, k2}
    NoKey = NoKey
    Overflow = Overflow
    AnonLimit = 1
    KeyLimit = 2
    MaxTracked = 1
    CacheMax = 1
    Ttl = 2
    Minute = 2
    MaxTime = 3
SYMMETRY Symmetry
SPECIFICATION QuotaSpec
PROPERTIES OnlyPastPurged
