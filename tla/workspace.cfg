SPECIFICATION Spec
CONSTANTS
    u1 = u1
    u2 = u2
    u3 = u3
    o1 = o1
    o2 = o2
    Orgs = {o1, o2}
    Users = {u1, u2, u3}
    OrgOf <- MCOrgOf
    Admins = {u2, u3}
    Conversations = {1, 2}
    Titles = {t1, t2}
    Files = {1, 2}
    Paths = {p1, p2}
    Req = {r1, r2}
    None = None
    Deleted = Deleted
    Deployments <- MCDeployments
    Derived = t1
    MaxMessages = 1
    MaxRestarts = 1
SYMMETRY Symmetry
INVARIANTS TypeOK ExchangesAreWhole RecordsAreTrue
PROPERTIES ConversationIsPrivate OnlyLateChunksOutlive
CHECK_DEADLOCK FALSE
