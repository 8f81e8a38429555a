CONSTANTS
    Requests = {q1, q2}
    Models = {"climatology", "acv"}
    Grid = {3, 6}
    Froms = {6, 7, 8}
    Horizons = {3}
    Bucket = 3
    Ttl = 1
    MaxEntries = 1
    Lag = 1
    Start = 6
    MaxTime = 8
    Step = 3
    Week = 6
    Weeks = 1
    Bands = 0
    MaxSteps = 10
    MaxAge = 3
    None = None
SYMMETRY Symmetry
SPECIFICATION Spec
INVARIANTS ServedAsComputed StalenessBounded
