SPECIFICATION Spec
CONSTANTS
    Thread = {t1, t2}
    Loop = {}
    Worker = {w1}
    Ident = {i1}
    Cred = {c1, c2}
    Ops = {"activate", "refresh"}
    ConfigModes = {"cloud"}
    PortBusy = {FALSE}
    Other = other
    None = None
PROPERTY OnlyRefusedIsForgotten
