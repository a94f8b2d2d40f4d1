----------------------------- MODULE Directory -----------------------------
(***************************************************************************)
(* Organizations, users and seats over the API: the requests of several    *)
(* threads run between each other's store calls.  A step is one store call  *)
(* with the rules decided on what it returned.  Routes guarded by the       *)
(* access token read the account first (api/dependencies.py); the two       *)
(* routes of the operator are guarded by the provisioning key.  A request   *)
(* that is refused or fails answers and is forgotten: answers are left out. *)
(***************************************************************************)
EXTENDS DirectoryStores

CONSTANTS
    Req,         \* threads that serve requests
    Deployments, \* bound: <<DATA_STORE, the routes that are called together>>
    Home, Admin, Colleague, \* what the seed data holds: an organization, its accounts
    HomeSlug, AdminEmail, ColleagueEmail

Operation == {"login", "create", "update", "disable", "slug", "provision", "subscription"}

ASSUME DirectoryAssumption ==
    /\ Deployments \subseteq Providers \X SUBSET Operation
    /\ Home \in Orgs /\ HomeSlug \in Slugs
    /\ Admin \in UserIds /\ Colleague \in UserIds \ {Admin}
    /\ AdminEmail \in Emails /\ ColleagueEmail \in Emails \ {AdminEmail}
    /\ IsFiniteSet(Req) /\ Req # {}

VARIABLES
    routes,      \* bound: the routes in use
    tokens,      \* accounts that hold an access token (a JWT is never revoked)
    req,         \* [Req -> Request]
    peak         \* history: the most seats each organization ever had, at least 1

config == <<provider, routes>>
stores == <<orgs, users, subs>>
vars   == <<config, today, stores, tokens, req, peak>>

-----------------------------------------------------------------------------
(* pc: the store call that comes next.  by, role: the caller, as read when  *)
(* the request arrived.  seen: the subscription an edit has read.           *)

CallPC == {"idle", "entitle", "look", "seat", "write", "organization", "admin",
           "subscribe", "merge", "ticket", "audit"}

Request == [pc : CallPC, op : Operation \cup {None},
            by : UserIds \cup {None}, role : Roles \cup {None}, org : Orgs \cup {None},
            target : UserIds \cup {None}, email : Emails \cup {None},
            newRole : Roles \cup {None}, active : BOOLEAN \cup {None},
            slug : Slugs \cup {None}, status : Statuses \cup {None},
            seats : SeatCounts \cup {None}, expires : 1 .. LastDay \cup {None},
            seen : SubRow \cup {None}]

Blank == [pc |-> "idle", op |-> None, by |-> None, role |-> None, org |-> None,
          target |-> None, email |-> None, newRole |-> None, active |-> None,
          slug |-> None, status |-> None, seats |-> None, expires |-> None, seen |-> None]

At(r, pc)   == req[r].pc = pc
Park(r, pc) == req' = [req EXCEPT ![r].pc = pc]
Answer(r)   == req' = [req EXCEPT ![r] = Blank]
\* the write was the last decision: the payload is of no use any more
Record(r)   == req' = [req EXCEPT ![r] = [Blank EXCEPT !.pc = "audit", !.op = req[r].op,
                                                       !.by = req[r].by, !.org = req[r].org]]

\* The payloads: UserCreateRequest, UserUpdateRequest, DELETE, OrganizationUpdateRequest.
\* Bound: an update passes the role or the state.  An unknown id is a 404.
CreateCall(e, role) == [Blank EXCEPT !.op = "create", !.email = e, !.newRole = role]

UpdateCall(u, role, active) ==
    [Blank EXCEPT !.op = "update", !.target = u, !.newRole = role, !.active = active]

CreateCalls  == {CreateCall(e, role) : e \in Emails, role \in Roles}
UpdateCalls  == {UpdateCall(u, role, None) : u \in Known, role \in Roles \cup {None}}
                \cup {UpdateCall(u, None, b) : u \in Known, b \in BOOLEAN}
DisableCalls == {[Blank EXCEPT !.op = "disable", !.target = u, !.active = FALSE] : u \in Known}
SlugCalls    == {[Blank EXCEPT !.op = "slug", !.slug = s] : s \in Slugs}

TokenCalls == {c \in CreateCalls \cup UpdateCalls \cup DisableCalls \cup SlugCalls : c.op \in routes}

-----------------------------------------------------------------------------
(* Who may do what.                                                        *)

EnsureActive(o) == subs[o] # None /\ NotBlocked(subs[o])

\* Mutant: <= for <.
EnsureLastSeatTwice(o) == EnsureActive(o) /\ CountActiveUsers(o) <= subs[o].seats

EnsureSeatAvailable(o) == EnsureActive(o) /\ CountActiveUsers(o) < subs[o].seats

\* require_admin and _require_admin ask for the role the token's account had.
RequireAdmin(q) == q.op \in {"create", "disable", "slug"} => q.role = "admin"

\* Mutant: an administrator may take his own rights.
MayUpdateHimself(q) ==
    /\ GetUser(q.target, q.org) # None
    /\ q.role = "admin" \/ (q.target = q.by /\ q.newRole = None /\ q.active = None)

MayUpdate(q) ==
    /\ GetUser(q.target, q.org) # None
    /\ LET isSelf            == q.target = q.by
           changesPrivileges == q.newRole # None \/ q.active # None
       IN  IF q.role = "admin" THEN ~(isSelf /\ changesPrivileges)
                               ELSE isSelf /\ ~changesPrivileges

\* _load_user_in_scope, and nobody disables himself
MayDeactivate(q) == GetUser(q.target, q.org) # None /\ q.target # q.by

-----------------------------------------------------------------------------
(* Login: the account, then the subscription, then the token.              *)

FindCandidate(r, e) ==
    /\ "login" \in routes /\ At(r, "idle") /\ SupabaseHasLogin
    /\ \E u \in FindLoginCandidates(e) :
          /\ FindLoginCandidates(e) = {u} /\ users[u].active
          /\ req' = [req EXCEPT ![r] = [Blank EXCEPT !.pc = "ticket", !.op = "login",
                                            !.by = u, !.org = users[u].org]]
    /\ UNCHANGED <<config, today, stores, tokens, peak>>

CreateAccessToken(r) ==
    /\ At(r, "ticket")
    /\ \/ EnsureActive(req[r].org) /\ tokens' = tokens \cup {req[r].by} /\ Record(r)
       \/ ~EnsureActive(req[r].org) /\ Answer(r) /\ UNCHANGED tokens
    /\ UNCHANGED <<config, today, stores, peak>>

-----------------------------------------------------------------------------
(* A request with a token: the account, the subscription, the rules, the    *)
(* seat, the write, the audit log.                                          *)

ResolveCurrentUser(r, u, c) ==
    /\ At(r, "idle") /\ u \in tokens \cap Known /\ users[u].active
    /\ req' = [req EXCEPT ![r] = [c EXCEPT !.pc = "entitle", !.by = u,
                                      !.role = users[u].role, !.org = users[u].org]]
    /\ UNCHANGED <<config, today, stores, tokens, peak>>

GetCurrentUser(r) ==
    /\ At(r, "entitle")
    /\ \/ EnsureActive(req[r].org) /\ RequireAdmin(req[r])
          /\ Park(r, IF req[r].op = "slug" THEN "write" ELSE "look")
       \/ ~(EnsureActive(req[r].org) /\ RequireAdmin(req[r])) /\ Answer(r)
    /\ UNCHANGED <<config, today, stores, tokens, peak>>

CreateUserRules(r) ==
    /\ At(r, "look") /\ req[r].op = "create"
    /\ IF EmailIsTaken(req[r].email) THEN Answer(r) ELSE Park(r, "seat")
    /\ UNCHANGED <<config, today, stores, tokens, peak>>

\* An account that is active already takes no seat: only what was read counts.
UpdateUserRules(r) ==
    /\ At(r, "look") /\ req[r].op = "update"
    /\ \/ ~MayUpdate(req[r]) /\ Answer(r)
       \/ /\ MayUpdate(req[r])
          /\ Park(r, IF req[r].active = TRUE /\ ~users[req[r].target].active
                     THEN "seat" ELSE "write")
    /\ UNCHANGED <<config, today, stores, tokens, peak>>

DeactivateUserRules(r) ==
    /\ At(r, "look") /\ req[r].op = "disable"
    /\ IF MayDeactivate(req[r]) THEN Park(r, "write") ELSE Answer(r)
    /\ UNCHANGED <<config, today, stores, tokens, peak>>

TakeSeat(r) ==
    /\ At(r, "seat")
    /\ IF EnsureSeatAvailable(req[r].org) THEN Park(r, "write") ELSE Answer(r)
    /\ UNCHANGED <<config, today, stores, tokens, peak>>

\* The address may have been taken since the look: DuplicateEmailError.
WriteNewUser(r) ==
    /\ At(r, "write") /\ req[r].op = "create"
    /\ \/ \E u \in UserIds :
             /\ CreateUser(u, req[r].org, req[r].email, req[r].newRole)
             /\ Record(r)
       \/ EmailIsTaken(req[r].email) /\ Answer(r) /\ UNCHANGED users
    /\ UNCHANGED <<config, today, orgs, subs, tokens, peak>>

WriteUser(r) ==
    /\ At(r, "write") /\ req[r].op \in {"update", "disable"}
    /\ UpdateUser(req[r].target, req[r].org, req[r].newRole, req[r].active)
    /\ IF req[r].op = "disable" THEN Record(r) ELSE Answer(r)
    /\ UNCHANGED <<config, today, orgs, subs, tokens, peak>>

WriteOrganization(r) ==
    /\ At(r, "write") /\ req[r].op = "slug"
    /\ \/ UpdateOrganization(req[r].org, req[r].slug)
       \/ (\E o \in Orgs : orgs[o] = req[r].slug) /\ UNCHANGED orgs
    /\ Answer(r)
    /\ UNCHANGED <<config, today, users, subs, tokens, peak>>

-----------------------------------------------------------------------------
(* The operator's routes.  POST /organizations: the address, the            *)
(* organization, its administrator, its subscription, the audit log.        *)

Provision(r, s, e) ==
    /\ "provision" \in routes /\ At(r, "idle")
    /\ ~EmailIsTaken(e)
    /\ req' = [req EXCEPT ![r] = [Blank EXCEPT !.pc = "organization", !.op = "provision",
                                      !.slug = s, !.email = e, !.newRole = "admin"]]
    /\ UNCHANGED <<config, today, stores, tokens, peak>>

ProvisionOrganization(r) ==
    /\ At(r, "organization")
    /\ \/ \E o \in Orgs :
             /\ CreateOrganization(o, req[r].slug)
             /\ req' = [req EXCEPT ![r].pc = "admin", ![r].org = o]
       \/ (\E o \in Orgs : orgs[o] = req[r].slug) /\ Answer(r) /\ UNCHANGED orgs
    /\ UNCHANGED <<config, today, users, subs, tokens, peak>>

\* A refusal here leaves the organization that was created a call ago.
ProvisionAdmin(r) ==
    /\ At(r, "admin")
    /\ \/ \E u \in UserIds :
             /\ CreateUser(u, req[r].org, req[r].email, "admin")
             /\ req' = [req EXCEPT ![r].pc = "subscribe", ![r].target = u]
       \/ (EmailIsTaken(req[r].email) \/ provider = "supabase") /\ Answer(r) /\ UNCHANGED users
    /\ UNCHANGED <<config, today, orgs, subs, tokens, peak>>

ProvisionSubscription(r, seats) ==
    /\ At(r, "subscribe")
    /\ UpsertSubscription(req[r].org,
                          [status |-> "active", seats |-> seats, expires |-> LastDay])
    /\ peak' = [peak EXCEPT ![req[r].org] = IF @ < seats THEN seats ELSE @]
    /\ Record(r)
    /\ UNCHANGED <<config, today, orgs, users, tokens>>

\* PATCH /organizations/{id}/subscription: every field is written, those that
\* were not passed as they were when they were read.  Bound: one is passed.
EditCalls(o) ==
    LET edit == [Blank EXCEPT !.pc = "merge", !.op = "subscription", !.org = o, !.seen = subs[o]]
    IN  {[edit EXCEPT !.status = status] : status \in Statuses}
          \cup {[edit EXCEPT !.seats = seats] : seats \in SeatCounts}
          \cup {[edit EXCEPT !.expires = day] : day \in 1 .. LastDay}

ReadSubscription(r, o) ==
    /\ "subscription" \in routes /\ At(r, "idle") /\ subs[o] # None
    /\ \E c \in EditCalls(o) : req' = [req EXCEPT ![r] = c]
    /\ UNCHANGED <<config, today, stores, tokens, peak>>

\* Mutant: what was not passed is written too.
Unmerged(q) == [status |-> q.status, seats |-> q.seen.seats, expires |-> q.seen.expires]

Merged(q) ==
    [status  |-> IF q.status = None THEN q.seen.status ELSE q.status,
     seats   |-> IF q.seats = None THEN q.seen.seats ELSE q.seats,
     expires |-> IF q.expires = None THEN q.seen.expires ELSE q.expires]

UpdateSubscription(r) ==
    LET row == Merged(req[r])
    IN  /\ At(r, "merge")
        /\ UpsertSubscription(req[r].org, row)
        /\ peak' = [peak EXCEPT ![req[r].org] = IF @ < row.seats THEN row.seats ELSE @]
        /\ Record(r)
        /\ UNCHANGED <<config, today, orgs, users, tokens>>

-----------------------------------------------------------------------------
(* record() swallows its own failure; every other call may fail outside the *)
(* memory of the process, before its commit or after it.                    *)

RecordEvent(r) ==
    /\ At(r, "audit") /\ Answer(r)
    /\ UNCHANGED <<config, today, stores, tokens, peak>>

CallFails(r) ==
    /\ ~At(r, "idle") /\ provider # "memory"
    /\ Answer(r)
    /\ UNCHANGED <<config, today, stores, tokens, peak>>

DayPasses ==
    /\ today + 1 < LastDay /\ today' = today + 1
    /\ UNCHANGED <<config, stores, tokens, req, peak>>

-----------------------------------------------------------------------------
SeedUsers(active) ==
    [u \in UserIds |->
        IF u = Admin THEN NewUser(Home, AdminEmail, "admin")
        ELSE IF u = Colleague
             THEN [NewUser(Home, ColleagueEmail, "employee") EXCEPT !.active = active]
        ELSE None]

\* Tokens of the mode before the switch to Supabase are good until they expire.
Init ==
    /\ \E d \in Deployments : provider = d[1] /\ routes = d[2]
    /\ today = 0
    /\ orgs = [o \in Orgs |-> IF o = Home THEN HomeSlug ELSE None]
    /\ \E active \in BOOLEAN : users = SeedUsers(active)
    /\ \E seats \in SeatCounts :
          /\ CountActiveUsers(Home) <= seats
          /\ subs = [o \in Orgs |-> IF o = Home THEN [status |-> "active", seats |-> seats,
                                                     expires |-> 1] ELSE None]
          /\ peak = [o \in Orgs |-> IF o = Home THEN seats ELSE 1]
    /\ tokens = {Admin, Colleague}
    /\ req = [r \in Req |-> Blank]

TokenStep(r) ==
    \/ \E e \in Emails : FindCandidate(r, e)
    \/ CreateAccessToken(r)
    \/ At(r, "idle") /\ \E u \in UserIds, c \in TokenCalls : ResolveCurrentUser(r, u, c)
    \/ GetCurrentUser(r)
    \/ CreateUserRules(r) \/ UpdateUserRules(r) \/ DeactivateUserRules(r)
    \/ TakeSeat(r)
    \/ WriteNewUser(r) \/ WriteUser(r) \/ WriteOrganization(r)

KeyStep(r) ==
    \/ \E s \in Slugs, e \in Emails : Provision(r, s, e)
    \/ ProvisionOrganization(r) \/ ProvisionAdmin(r)
    \/ \E seats \in SeatCounts : ProvisionSubscription(r, seats)
    \/ \E o \in Orgs : ReadSubscription(r, o)
    \/ UpdateSubscription(r)

Next ==
    \/ \E r \in Req : TokenStep(r) \/ KeyStep(r) \/ RecordEvent(r) \/ CallFails(r)
    \/ DayPasses

Spec == Init /\ [][Next]_vars

-----------------------------------------------------------------------------
TypeOK ==
    /\ <<provider, routes>> \in Deployments
    /\ today \in 0 .. LastDay - 1
    /\ orgs \in [Orgs -> Slugs \cup {None}]
    /\ users \in [UserIds -> UserRow \cup {None}]
    /\ subs \in [Orgs -> SubRow \cup {None}]
    /\ tokens \subseteq Known
    /\ req \in [Req -> Request]
    /\ peak \in [Orgs -> Nat \ {0}]

\* Whatever two requests create or rename at once, an address is one account's
\* and a slug one organization's: the look before the write decides nothing,
\* the store's own check does (email_is_taken, uq_users_email_lower).
IdentitiesAreUnique == EmailsUnique(users) /\ SlugsUnique(orgs)

\* The requests that may make account u of organization o active at their next
\* step, and those that may add one.
Returning(o) == {req[r].target : r \in {q \in Req : /\ At(q, "write") /\ req[q].op = "update"
                                                   /\ req[q].org = o /\ req[q].active = TRUE}}

Joining(o) == {r \in Req : /\ req[r].org = o /\ req[r].op \in {"create", "provision"}
                           /\ req[r].pc \in {"write", "admin"}}

\* The seat is looked for in one call and taken in a later one, so a licence can
\* be exceeded; but by no more than the other requests that were under way at
\* the same time: refused seats do not add up (ensure_seat_available).
SeatOverrunIsBounded ==
    \A o \in Orgs : orgs[o] # None =>
        Cardinality(ActiveUsers(o) \cup Returning(o)) + Cardinality(Joining(o))
            <= peak[o] - 1 + Cardinality(Req)

-----------------------------------------------------------------------------
ActiveAdmins(o) == {u \in ActiveUsers(o) : users[u].role = "admin"}

\* Nobody takes his own rights away, so an organization can lose its last
\* administrator only when two of them act at once: the one whose request does
\* it has already lost his rights while it was under way.
LastAdminFallsToARace ==
    [][\A o \in Orgs : ActiveAdmins(o) # {} /\ ActiveAdmins(o)' = {} =>
          \E r \in Req : /\ At(r, "write") /\ req[r].pc # req'[r].pc
                          /\ req[r].org = o /\ req[r].by \notin ActiveAdmins(o)]_vars

\* A request that came with a token touches rows of its account's organization
\* only, and no request but the operator's touches a subscription.
TenantsAreApart ==
    [][\A r \in Req : req'[r] # req[r] /\ req[r].by # None =>
          /\ subs' = subs
          /\ \A o \in Orgs \ {users[req[r].by].org} :
                orgs'[o] = orgs[o] /\ ListUsers(o)' = ListUsers(o)
          /\ \A u \in Known : users'[u] # users[u] => users[u].org = users[req[r].by].org]_vars

=============================================================================
