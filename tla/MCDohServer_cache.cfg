SPECIFICATION FairSpec
CONSTANTS
    Handlers = {h1, h2}
    Names = {"a"}
    Nets = {"home", "away"}
    Ttls = {0, 1}
    TenMinutes = 1
    MaxTime = 2
    MaxRequests = 3
CHECK_DEADLOCK FALSE
INVARIANTS
    AnswerIsLive
PROPERTIES
    CleanUpSpares
    OnlyUpstreamDelays
