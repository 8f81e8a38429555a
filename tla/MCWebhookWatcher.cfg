CONSTANTS
    i1 = i1
    i2 = i2
    Keys = {k1}
    Ids = {i1, i2}
    None = None
    MaxPerOwner = 2
    MaxFailures = 1
    PurgeDays = 1
    Values = {1, 2, 3}
    Threshold <- MCThreshold
    Direction <- MCDirection
    Capacity = 1
    Permits = 1
    MaxAttempts = 2
    Slots = {s1, s2}
    Outages = {"read", "record"}
SPECIFICATION LoopFairSpec
PROPERTIES NotifiesExactlyOnCrossings NoRepeat NothingStalls
