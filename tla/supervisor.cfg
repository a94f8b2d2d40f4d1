SPECIFICATION FairSpec
CONSTANTS
    Thread = {t1, t2}
    Proc = {p1, p2}
    JobObject = TRUE
    None = None
INVARIANTS TypeOK NoOrphan AddressIsOurs
PROPERTIES DeathTakesTheChild StopReturns
