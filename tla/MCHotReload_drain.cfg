SPECIFICATION Spec
CONSTANTS
    Conns = {c1}
    Reloads = {hup}
    Sighup = hup
INVARIANTS
    DrainIsRespected
