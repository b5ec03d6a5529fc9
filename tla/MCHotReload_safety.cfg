SPECIFICATION Spec
CONSTANTS
    Conns = {c1, c2, c3}
    Reloads = {hup, web}
    Sighup = hup
SYMMETRY ConnSymmetry
INVARIANTS
    CountersExact
    RefusesOnlyForReload
    ClosedOnlyToExit
    CutsAtMostOne
PROPERTIES
    NoAdmissionDuringReload
    ImplementsLedger
    ImplementsHandover
