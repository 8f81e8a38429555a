CONSTANTS
    Sdks = {"rust", "typescript"}
    Policies = {"enabled", "disabled"}
    InitialBackoff = 1
    MaxBackoff = 4
    ConnectTimeout = 2
    IdleTimeout = 3
    KeepAlive = 1
    StreamMax = 2
    Unread = 2
    MaxFaults = 3
    Unreadable = Unreadable
SPECIFICATION SdkSpec
INVARIANT AnswerDecoded
PROPERTIES DelayFitsFailures GivesUpForCause StreamComesBack CallsUnderstood VersionServedAsAsked ReadsBounded
