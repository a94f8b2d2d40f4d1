SPECIFICATION Spec
CONSTANTS
    Orgs = {1, 2}
    Slugs = {s1, s2}
    UserIds = {1, 2, 3, 4}
    Emails = {e1, e2, e3}
    SeatCounts = {1, 2}
    LastDay = 2
    None = None
    Req = {r1, r2}
    Deployments <- MCDeployments
    Home = 1
    Admin = 1
    Colleague = 2
    HomeSlug = s1
    AdminEmail = e1
    ColleagueEmail = e2
SYMMETRY Symmetry
INVARIANTS TypeOK IdentitiesAreUnique SeatOverrunIsBounded
PROPERTIES TenantsAreApart LastAdminFallsToARace
CHECK_DEADLOCK FALSE
