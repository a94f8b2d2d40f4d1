SPECIFICATION Spec
CONSTANTS
    Req = {r1, r2}
    Ids = {u1, u2, u3}
    Emails = {e1, e2}
    Projects = {"immediate", "confirm", "repeat"}
    Nothing = Nothing
    Kids = {k1, k2}
    Threads = {t1, t2}
    Ttl = 3
    Pause = 2
    Timeout = 1
    End = 5
    NoKey = NoKey
    Deployments <- MCDeployments
SYMMETRY Symmetry
INVARIANT AddressIsFreeAgain
PROPERTIES RegisteredIsKept RetiredKeyDies LiveKeyIsLearned
CHECK_DEADLOCK FALSE
