SPECIFICATION FairSpec
CONSTANTS
    Thread = {t1, loop}
    Loop = {loop}
    Worker = {w1}
    Ident = {i1}
    Cred = {c1}
    Ops = {"activate"}
    ConfigModes = {"local"}
    PortBusy = {FALSE}
    Other = other
    None = None
PROPERTIES RefusedIsForgotten CallsReturn DenialStopsEngine
