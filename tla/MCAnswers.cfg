CONSTANTS
    Subjects = {"series", "scheduling", "eligibility"}
    NOWCAST_COVERAGE = 2
    MAX_PRICE_AGE = 4
    Minute = 1
    Lookback = 2
    Week = 4
    MaxHorizon = 2
    Spread = 3
    Ttl = 1
    Lag = 1
    Instants = {0, 2, 4}
    Hours = {0, 4}
    Shares = {80, 95}
    Prices = {20}
    Requests <- MCRequests
    MaxTime = 2
    MaxWrites = 1
    MaxInstant = 2
    FlowAge = 1
    SpotAge = 1
    SpotMargin = 2
    Bucket = 2
    Step = 2
    MaxPoints = 4
    Intensities = {1, 2}
    Margins = {0, 2}
SPECIFICATION AnswersSpec
INVARIANTS RangesAgree AdviceIsBest VerdictIsCertain PillarsAtTheirSlot QuietMeansCurrent
PROPERTY NowMatchesHistory
