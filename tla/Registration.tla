---------------------------- MODULE Registration ----------------------------
(***************************************************************************)
(* A customer registers himself (registration_service.py): the account at  *)
(* the authentication service, the personal workspace in the database in   *)
(* one transaction, and the deletion of the account when that fails.  No   *)
(* transaction spans the two, any reply may be lost, and an address may be *)
(* registered twice at once.  A step is one HTTP call.                     *)
(***************************************************************************)
EXTENDS FiniteSets

CONSTANTS
    Req,             \* threads that serve requests
    Ids,             \* ids the authentication service gives out
    Emails,
    Projects,        \* bound: the settings of the project, see project
    Nothing

ASSUME RegistrationAssumption == Nothing \notin Ids \cup Emails

VARIABLES
    project,         \* "immediate", "confirm" or "repeat"
    given,           \* ids given out so far: none is given twice
    identity,        \* auth.users: [Ids -> row or Nothing]
    profile,         \* public.profiles and its membership: [Ids -> address or Nothing]
    workspace,       \* organizations and trial subscriptions, by the owner's id
    call,            \* [Req -> a request]
    stranded         \* history: accounts a lost reply or a failed deletion left behind

regVars == <<project, given, identity, profile, workspace, call, stranded>>

Identity == [email : Emails, confirmed : BOOLEAN]

ASSUME NothingIsNoRow == Nothing \notin Identity

CallPC == {"idle", "register", "undo", "enter", "account"}

\* lost: the registration was committed and its reply did not arrive.
Call == [pc : CallPC, email : Emails \cup {Nothing}, user : Ids \cup {Nothing},
         session : BOOLEAN, lost : BOOLEAN]

Quiet == [pc |-> "idle", email |-> Nothing, user |-> Nothing, session |-> FALSE, lost |-> FALSE]

CallAt(r, pc) == call[r].pc = pc
Reply(r) == call' = [call EXCEPT ![r] = Quiet]
Proceed(r, pc) == call' = [call EXCEPT ![r].pc = pc]

Accounts == {u \in Ids : identity[u] # Nothing}
HolderOf(e) == {u \in Accounts : identity[u].email = e}

-----------------------------------------------------------------------------
(* The authentication service, as far as the code relies on it.            *)

\* The project asks for no confirmation of the address.
UsableAtOnce == project = "immediate"

\* A new address gets a new account: usable at once, or to be confirmed by mail.
NewAccount(u, e) ==
    /\ u \notin given /\ HolderOf(e) = {}
    /\ given' = given \cup {u}
    /\ identity' = [identity EXCEPT ![u] = [email |-> e, confirmed |-> UsableAtOnce]]

\* A known address is refused, but a project may answer the repeated request of
\* an account that is not confirmed yet with the account it has.
KnownAccount(u, e) ==
    /\ project = "repeat" /\ u \in HolderOf(e) /\ ~identity[u].confirmed
    /\ UNCHANGED <<given, identity>>

SignupReplies(r, u, e) ==
    call' = [call EXCEPT ![r] = [Quiet EXCEPT !.pc = "register", !.email = e, !.user = u,
                                              !.session = UsableAtOnce]]

\* POST /signup.  A refusal changes nothing and is left out; so is a reply
\* without an id that no account stands behind.
CreateAuthUser(r, u, e) ==
    /\ CallAt(r, "idle")
    /\ \/ NewAccount(u, e) /\ SignupReplies(r, u, e) /\ UNCHANGED stranded
       \/ KnownAccount(u, e) /\ SignupReplies(r, u, e) /\ UNCHANGED stranded
       \/ NewAccount(u, e) /\ stranded' = stranded \cup {u} /\ UNCHANGED call
    /\ UNCHANGED <<project, profile, workspace>>

-----------------------------------------------------------------------------
(* POST /rpc/register_organization: all four rows or none.                 *)

\* The address of the workspace is made of the account's id: u-<32 hex digits>.
PersonalSlug(u) == u

\* The workspace's address is free, the account is there (the profile refers to
\* it) and the address has no profile.
CanRegister(u, e) ==
    /\ PersonalSlug(u) \notin workspace
    /\ u \in Accounts
    /\ \A v \in Ids : profile[v] # e

RegisterOrganization(u, e) ==
    /\ CanRegister(u, e)
    /\ profile' = [profile EXCEPT ![u] = e]
    /\ workspace' = workspace \cup {PersonalSlug(u)}

\* rpc() raises whatever went wrong, and cannot tell a commit whose reply was
\* lost from a refusal.
RpcRaises(r, lost) == call' = [call EXCEPT ![r] = [@ EXCEPT !.pc = "undo", !.lost = lost]]

\* Mutant: an unknown error is passed on without the deletion.
RegisterWithoutUndo(r) ==
    LET u == call[r].user
        e == call[r].email
    IN  /\ CallAt(r, "register")
        /\ \/ RegisterOrganization(u, e) /\ Proceed(r, "enter")
           \/ Reply(r) /\ UNCHANGED <<profile, workspace>>
        /\ UNCHANGED <<project, given, identity, stranded>>

\* Whatever rpc() raised, the account is to be deleted again.
Register(r) ==
    LET u == call[r].user
        e == call[r].email
    IN  /\ CallAt(r, "register")
        /\ \/ RegisterOrganization(u, e) /\ Proceed(r, "enter")
           \/ RegisterOrganization(u, e) /\ RpcRaises(r, TRUE)
           \/ RpcRaises(r, FALSE) /\ UNCHANGED <<profile, workspace>>
        /\ UNCHANGED <<project, given, identity, stranded>>

\* DELETE /admin/users/<id>; profile and membership follow, the workspace stays.
\* Neither an error nor a status is looked at.
DeleteAuthUser(r) ==
    LET u == call[r].user
    IN  /\ CallAt(r, "undo") /\ Reply(r)
        /\ \/ /\ identity' = [identity EXCEPT ![u] = Nothing]
              /\ profile' = [profile EXCEPT ![u] = Nothing]
              /\ stranded' = stranded \ {u}
           \/ /\ stranded' = stranded \cup {u}
              /\ UNCHANGED <<identity, profile>>
        /\ UNCHANGED <<project, given, workspace>>

-----------------------------------------------------------------------------
(* POST /token, then the profile for the answer.                           *)

CanSignIn(u) == u \in Accounts /\ identity[u].confirmed

\* Mutant: a sign-in that fails undoes the registration.
TrySignInOrUndo(r) ==
    /\ CallAt(r, "enter")
    /\ \/ (call[r].session \/ CanSignIn(call[r].user)) /\ Proceed(r, "account")
       \/ ~call[r].session /\ Proceed(r, "undo")
    /\ UNCHANGED <<project, given, identity, profile, workspace, stranded>>

\* The session of the sign-up, or a sign-in; without either the answer asks for
\* the confirmation of the address.
TrySignIn(r) ==
    /\ CallAt(r, "enter")
    /\ \/ (call[r].session \/ CanSignIn(call[r].user)) /\ Proceed(r, "account")
       \/ ~call[r].session /\ Reply(r)
    /\ UNCHANGED <<project, given, identity, profile, workspace, stranded>>

Login(r, u) ==
    /\ CallAt(r, "idle") /\ CanSignIn(u)
    /\ call' = [call EXCEPT ![r] = [Quiet EXCEPT !.pc = "account", !.user = u, !.session = TRUE]]
    /\ UNCHANGED <<project, given, identity, profile, workspace, stranded>>

\* Without a profile, or without an answer, the session is sent without account.
LoadAccount(r) ==
    /\ CallAt(r, "account") /\ Reply(r)
    /\ UNCHANGED <<project, given, identity, profile, workspace, stranded>>

\* The link in the mail.
ConfirmAddress(u) ==
    /\ u \in Accounts /\ ~identity[u].confirmed
    /\ identity' = [identity EXCEPT ![u].confirmed = TRUE]
    /\ UNCHANGED <<project, given, profile, workspace, call, stranded>>

RegistrationInit ==
    /\ project \in Projects
    /\ identity = [u \in Ids |-> Nothing] /\ profile = [u \in Ids |-> Nothing]
    /\ given = {} /\ workspace = {} /\ stranded = {}
    /\ call = [r \in Req |-> Quiet]

RegistrationNext ==
    \/ \E r \in Req :
          \/ \E u \in Ids, e \in Emails : CreateAuthUser(r, u, e)
          \/ Register(r) \/ DeleteAuthUser(r) \/ TrySignIn(r) \/ LoadAccount(r)
          \/ \E u \in Ids : Login(r, u)
    \/ \E u \in Ids : ConfirmAddress(u)

-----------------------------------------------------------------------------
RegistrationTypeOK ==
    /\ project \in Projects
    /\ identity \in [Ids -> Identity \cup {Nothing}]
    /\ profile \in [Ids -> Emails \cup {Nothing}]
    /\ workspace \subseteq given /\ stranded \subseteq given /\ given \subseteq Ids
    /\ call \in [Req -> Call]
    /\ \A u \in Ids : profile[u] # Nothing => identity[u] # Nothing

\* The requests that still have to register account u, or to delete it.
Busy(u) == \E r \in Req : call[r].user = u /\ call[r].pc \in {"register", "undo"}

\* An address is never kept by an account without a workspace, unless the reply
\* that named the account was lost or its deletion failed (the compensation of
\* register(): the owner could neither use it nor register again).
AddressIsFreeAgain ==
    \A u \in Accounts : profile[u] = Nothing => Busy(u) \/ u \in stranded

\* What a registration committed is undone only by the request that made it, when
\* it did not learn of the commit: in no project that keeps ids apart does the
\* compensation of one request reach the account of another.
RegisteredIsKept ==
    [][\A u \in Ids : profile[u] # Nothing /\ profile'[u] = Nothing /\ project # "repeat" =>
          \E r \in Req : CallAt(r, "undo") /\ call[r].user = u /\ call[r].lost]_regVars

=============================================================================
