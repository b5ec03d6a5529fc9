SPECIFICATION FairSpec
CONSTANTS
    Conns = {f1, f2, m1}
    Tracked = {f1, f2}
    NoConn = NoConn
INVARIANTS
    TrackedIsKept
PROPERTIES
    ReachesServer
    GoroutineEnds
