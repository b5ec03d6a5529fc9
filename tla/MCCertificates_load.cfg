SPECIFICATION FairSpec
CONSTANTS
    wide = wide
    narrow = narrow
    inner = inner
    outer = outer
    foreign = foreign
    Wildcards = {wide, narrow}
    Names = {inner, outer, foreign}
    Covers <- MCCovers
    Fits <- MCFits
    WildcardEntries <- MCWildcardEntries
    VHostEntries <- MCVHostEntries
    MaxEntries = 2
    MaxRetries = 2
    Handshakes = {h1, h2}
INVARIANTS
    LoadedIsIssued
    ZeroSslHasEmail
    OneManager
    UsableIsFound
    ServedWhenLoaded
PROPERTIES
    AnswerIsStable
    ReadConfigEnds
