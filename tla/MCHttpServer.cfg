CONSTANTS
    Clients = {c1, c2, c3}
    MaxConnections = 2
    SseMax = 1
    RingCap = 1
    MaxStamp = 2
SPECIFICATION FairSpec
INVARIANT CapsKept
PROPERTIES ForwardOnly DrainEnds BacklogServed
