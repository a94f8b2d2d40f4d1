SPECIFICATION Spec
CONSTANTS
    Thread = {t1}
    Loop = {}
    Worker = {w1}
    Ident = {i1}
    Cred = {c1}
    Ops = {"activate", "recheck", "start_download", "start_model", "stop_model", "restart_model", "chat"}
    ConfigModes = {"local", "cloud", "demo"}
    PortBusy = {TRUE, FALSE}
    Other = other
    None = None
INVARIANT NoEngineElsewhere
