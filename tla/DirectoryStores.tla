-------------------------- MODULE DirectoryStores --------------------------
(***************************************************************************)
(* The three stores of organizations, users and subscriptions: the memory  *)
(* of the process, Oracle, and Supabase over HTTP.  DATA_STORE picks one.  *)
(* A write is the step that commits it; what a store refuses is a guard    *)
(* that fails, and the caller turns the refusal into its answer.           *)
(* Passwords, names and the start of a subscription are left out, an       *)
(* address stands for its lower case (normalize_email).                    *)
(***************************************************************************)
EXTENDS Integers, FiniteSets

CONSTANTS Orgs, Slugs, UserIds, Emails, SeatCounts, LastDay, None

ASSUME StoreAssumption ==
    /\ SeatCounts \subseteq Nat \ {0}
    /\ LastDay \in Nat \ {0}            \* bound: the days the clock passes
    /\ Orgs \subseteq Nat /\ UserIds \subseteq Nat
    /\ IsFiniteSet(UserIds)
    /\ None \notin Nat \cup Slugs \cup Emails

VARIABLES
    provider,    \* settings.data_store
    today,       \* the clock
    orgs,        \* organizations: id -> slug, or None
    users,       \* users: id -> row, or None
    subs         \* subscriptions: organization id -> row, or None

Providers == {"memory", "oracle", "supabase"}

Roles == {"admin", "employee"}

Statuses == {"active", "expired", "suspended"}

UserRow == [org : Orgs, email : Emails, role : Roles, active : BOOLEAN]

SubRow == [status : Statuses, seats : SeatCounts, expires : 1 .. LastDay]

ASSUME NoneIsNoRow == None \notin UserRow \cup SubRow

Known == {u \in UserIds : users[u] # None}

\* Ids are given out in order: _next_user_id, GENERATED AS IDENTITY.
IsNextUser(u) == u \notin Known /\ \A v \in UserIds : v < u => v \in Known

IsNextOrganization(o) == orgs[o] = None /\ \A p \in Orgs : p < o => orgs[p] # None

-----------------------------------------------------------------------------
(* Reads.  Every one after the login carries the organization.             *)

FindLoginCandidates(e) == {u \in Known : users[u].email = e}

\* In Supabase the accounts live in auth.users: the old login is refused.
SupabaseHasLogin == provider # "supabase"

EmailIsTaken(e) == \E u \in Known : users[u].email = e

\* Mutant: the row is looked up by its id alone.
GetUserAnywhere(u, o) == IF u \in Known THEN users[u] ELSE None

GetUser(u, o) == IF u \in Known /\ users[u].org = o THEN users[u] ELSE None

ListUsers(o) == {u \in Known : users[u].org = o}

ActiveUsers(o) == {u \in ListUsers(o) : users[u].active}

CountActiveUsers(o) == Cardinality(ActiveUsers(o))

-----------------------------------------------------------------------------
(* Writes to organizations.                                                *)

\* Under the class lock: the look and the insertion are one step.
MemoryCreateOrganization(o, s) ==
    /\ IsNextOrganization(o)
    /\ \A p \in Orgs : orgs[p] # s
    /\ orgs' = [orgs EXCEPT ![o] = s]

\* The statement is undone by a unique index: slugs, and addresses.
SlugsUnique(rows) ==
    \A p, q \in Orgs : rows[p] # None /\ rows[p] = rows[q] => p = q

EmailsUnique(rows) ==
    \A v, w \in UserIds :
        rows[v] # None /\ rows[w] # None /\ rows[v].email = rows[w].email => v = w

OracleInsertOrganization(o, s) ==
    LET rows == [orgs EXCEPT ![o] = s]
    IN  IsNextOrganization(o) /\ SlugsUnique(rows) /\ orgs' = rows

SupabaseCreateOrganization(o, s) ==
    LET rows == [orgs EXCEPT ![o] = s]
    IN  IsNextOrganization(o) /\ SlugsUnique(rows) /\ orgs' = rows

CreateOrganization(o, s) ==
    \/ provider = "memory" /\ MemoryCreateOrganization(o, s)
    \/ provider = "oracle" /\ OracleInsertOrganization(o, s)
    \/ provider = "supabase" /\ SupabaseCreateOrganization(o, s)

MemoryUpdateOrganization(o, s) ==
    /\ orgs[o] # None
    /\ \A p \in Orgs \ {o} : orgs[p] # s
    /\ orgs' = [orgs EXCEPT ![o] = s]

OracleUpdateOrganization(o, s) ==
    LET rows == [orgs EXCEPT ![o] = s]
    IN  orgs[o] # None /\ SlugsUnique(rows) /\ orgs' = rows

SupabaseUpdateOrganization(o, s) ==
    LET rows == [orgs EXCEPT ![o] = s]
    IN  orgs[o] # None /\ SlugsUnique(rows) /\ orgs' = rows

UpdateOrganization(o, s) ==
    \/ provider = "memory" /\ MemoryUpdateOrganization(o, s)
    \/ provider = "oracle" /\ OracleUpdateOrganization(o, s)
    \/ provider = "supabase" /\ SupabaseUpdateOrganization(o, s)

-----------------------------------------------------------------------------
(* Writes to users.                                                        *)

NewUser(o, e, role) == [org |-> o, email |-> e, role |-> role, active |-> TRUE]

\* Mutant: the service's look is trusted.
MemoryCreateUserUnchecked(u, o, e, role) ==
    IsNextUser(u) /\ users' = [users EXCEPT ![u] = NewUser(o, e, role)]

\* The unlocked look of EmailIsTaken is repeated under the class lock.
MemoryCreateUser(u, o, e, role) ==
    /\ IsNextUser(u)
    /\ \A v \in Known : users[v].email # e
    /\ users' = [users EXCEPT ![u] = NewUser(o, e, role)]

OracleInsertUser(u, o, e, role) ==
    LET rows == [users EXCEPT ![u] = NewUser(o, e, role)]
    IN  IsNextUser(u) /\ EmailsUnique(rows) /\ users' = rows

\* SupabaseUserStore.create_user raises UserStoreError whatever it is given.
CreateUser(u, o, e, role) ==
    \/ provider = "memory" /\ MemoryCreateUser(u, o, e, role)
    \/ provider = "oracle" /\ OracleInsertUser(u, o, e, role)

\* Only the fields that were passed are written: None leaves one as it is.
Patched(row, role, active) ==
    [row EXCEPT !.role   = IF role = None THEN @ ELSE role,
                !.active = IF active = None THEN @ ELSE active]

MemoryUpdateUser(u, o, role, active) ==
    /\ GetUser(u, o) # None
    /\ users' = [users EXCEPT ![u] = Patched(@, role, active)]

\* SET role = COALESCE(:role, role), ... WHERE id = :id AND organization_id = :org
OracleUpdateUser(u, o, role, active) ==
    /\ users[u] # None /\ users[u].org = o
    /\ users' = [users EXCEPT ![u] = Patched(@, role, active)]

\* PATCH profiles?app_user_id=eq.<u>&organization_id=eq.<o>: no row, no change.
SupabaseUpdateUser(u, o, role, active) ==
    /\ GetUser(u, o) # None
    /\ users' = [users EXCEPT ![u] = Patched(@, role, active)]

UpdateUser(u, o, role, active) ==
    \/ provider = "memory" /\ MemoryUpdateUser(u, o, role, active)
    \/ provider = "oracle" /\ OracleUpdateUser(u, o, role, active)
    \/ provider = "supabase" /\ SupabaseUpdateUser(u, o, role, active)

-----------------------------------------------------------------------------
(* Subscriptions.                                                          *)

NotBlocked(sub) == sub.status = "active" /\ sub.expires > today

MemoryUpsertSubscription(o, row) == subs' = [subs EXCEPT ![o] = row]

\* MERGE: one statement, whether the row is there or not.
OracleMergeSubscription(o, row) == subs' = [subs EXCEPT ![o] = row]

\* PATCH; the POST that follows when no row came back is never reached: in
\* this mode provisioning stops at the account, and an edit found the row.
SupabasePatchSubscription(o, row) ==
    subs[o] # None /\ subs' = [subs EXCEPT ![o] = row]

UpsertSubscription(o, row) ==
    \/ provider = "memory" /\ MemoryUpsertSubscription(o, row)
    \/ provider = "oracle" /\ OracleMergeSubscription(o, row)
    \/ provider = "supabase" /\ SupabasePatchSubscription(o, row)

=============================================================================
