SPECIFICATION FairSpec
CONSTANTS
    Streams <- MCStreams
    VHosts <- MCVHosts
    PeekMax = 6
    Labels <- MCLabels
    GoodLabels = {"a", "A", "b", "example", "Example", "com"}
    LowerCase <- MCLowerCase
    MaxLabels = 4
    GoodTokens = {"token"}
    PortOf <- MCPortOf
    Requests <- MCRequests
    Wizards <- MCWizards
    Forms <- MCForms
CHECK_DEADLOCK FALSE
INVARIANTS
    TypeIsRight
    FirstMatchWins
    HandlerReadsStream
    GeneratedServiceIsReached
    FormIsServed
    WildcardServesGenerated
PROPERTIES
    ShortRequestIsServed
