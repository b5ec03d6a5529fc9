SPECIFICATION FairSpec
CONSTANTS
    Handlers = {h1, h2}
    Configs = {c1, c2, c3}
    Accepted = {c2, c3}
    Loaded = {c1, c2}
    MaxGen = 3
CHECK_DEADLOCK FALSE
INVARIANTS
    SavedIsServed
PROPERTIES
    ImplementsRegister
    SaveEnds
