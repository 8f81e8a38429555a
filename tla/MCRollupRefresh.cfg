CONSTANTS
    Points = {1, 2, 3}
    None = None
    Bucket <- MCBucket
    Since = 2
    Jobs = {"poller", "backfill"}
    Parts = 2
    Archive = {0, 1}
    MayFail = {"source", "refresh", "crash"}
SPECIFICATION FairSpec
INVARIANT ExactUnlessSpoiled
PROPERTIES UpdatesForward RecentRecovers
