CONSTANTS
    i1 = i1
    i2 = i2
    Keys = {k1}
    Ids = {i1}
    None = None
    MaxPerOwner = 1
    MaxFailures = 2
    PurgeDays = 1
    Values = {1, 2}
    Threshold <- MCThresholdOne
    Direction <- MCDirectionOne
    Capacity = 1
    Permits = 1
    MaxAttempts = 1
    Slots = {s1}
    Outages = {"record"}
SPECIFICATION Spec
PROPERTIES NeverDisabledEarly
