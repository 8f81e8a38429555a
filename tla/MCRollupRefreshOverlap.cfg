CONSTANTS
    Points = {1, 2, 3}
    None = None
    Bucket <- MCBucket
    Since = 2
    Jobs = {"poller", "heal"}
    Parts = 2
    Archive = {0, 1, 2}
    MayFail = {}
SPECIFICATION Spec
INVARIANTS ExactWhenIdle
