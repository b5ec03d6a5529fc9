SPECIFICATION FairSpec
CONSTANTS
    Conns = {c1}
    Reloads = {hup, web}
    Sighup = hup
PROPERTIES
    ReloadEnds
    SignalServed
    RefusalEnds
    ClosedListenerEnds
