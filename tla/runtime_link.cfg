SPECIFICATION Spec
CONSTANTS
    Thread = {t1, t2}
    Loop = {}
    Worker = {w1, w2}
    Ident = {i1, i2}
    Cred = {c1, c2}
    Ops = {"activate", "refresh", "recheck"}
    ConfigModes = {"cloud"}
    PortBusy = {FALSE}
    Other = other
    None = None
SYMMETRY Symmetry
INVARIANTS TypeOK OneWorker LinkedHasItsIdentity
PROPERTY StoredNotReplaced
