--------------------------- MODULE DeviceRegistry ---------------------------
(***************************************************************************)
(* The backend's register of devices: installation sessions (one-time      *)
(* tokens), device activations (one seat per subscription) and device      *)
(* credentials, as kept by the PostgreSQL functions of database/supabase   *)
(* and driven by the request handlers of backend/app.                      *)
(*                                                                         *)
(* A request is a process.  Each of its steps is one SQL statement that    *)
(* reads committed rows, takes a row lock or commits: transactions run     *)
(* under READ COMMITTED, so what a statement has read may be stale when    *)
(* the next one runs.  Writes appear when their transaction commits; the   *)
(* row locks of an open transaction follow from its program counter.       *)
(***************************************************************************)
EXTENDS Naturals, FiniteSets

CONSTANTS
    Subs,       \* subscriptions
    Devices,    \* hashed device identities (Runtime secrets, browser ids)
    Tokens,     \* installation tokens that may be generated
    ActIds,     \* bound: identities of device_activations rows
    Creds,      \* bound: credentials the server may generate
    Req,        \* concurrent requests
    None

ASSUME NoneIsFresh == None \notin Subs \cup Devices \cup Tokens \cup ActIds \cup Creds

VARIABLES
    subscription,   \* [Subs -> SubscriptionState]
    session,        \* [Tokens -> row of installation_sessions]
    activation,     \* [ActIds -> row of device_activations]
    credential,     \* [Creds -> row of device_credentials]
    req             \* [Req -> the request's program counter and locals]

vars == <<subscription, session, activation, credential, req>>
rows == <<session, activation, credential>>

-----------------------------------------------------------------------------
(* Rows.                                                                   *)

\* "open": in service; "future": status and expiry allow service but
\* starts_at is ahead; "closed": suspended, cancelled or past expires_at.
SubscriptionState == {"open", "future", "closed"}

Session == [status : {"absent", "live", "expired", "used", "purged"},
            sub : Subs \cup {None}]

Activation == [status : {"absent", "active", "revoked"},
               sub : Subs \cup {None}, dev : Devices \cup {None}]

Credential == [status : {"absent", "active", "revoked", "purged"},
               act : ActIds \cup {None}]

RequestPC ==
    { "idle", "done",
      "session_check", "session_insert", "session_purge",
      "redeem_lock", "redeem_subscription", "redeem_existing",
      "redeem_burn", "redeem_insert",
      "issue_lock", "issue_subscription", "issue_rotate", "issue_purge",
      "direct_subscription", "direct_read", "direct_insert",
      "replace_check", "replace_lock", "replace_read", "replace_touch",
      "replace_revoke", "replace_commit",
      "revoke_read", "revoke_update", "revoke_cascade",
      "auth_cred", "auth_act", "auth_sub", "auth_touch_cred",
      "auth_touch_act" }

Outcome ==
    { "none", "ok", "invalid_token", "not_serviceable", "device_limit",
      "issue_refused", "not_found", "denied401", "denied403", "unavailable" }

Request == [pc : RequestPC, tok : Tokens \cup {None},
            dev : Devices \cup {None}, sub : Subs \cup {None},
            act : ActIds \cup {None}, cred : Creds \cup {None},
            mode : {"none", "strict", "lax", "classify"},
            out : Outcome]

IdleRequest == [pc |-> "idle", tok |-> None, dev |-> None, sub |-> None,
                act |-> None, cred |-> None, mode |-> "none", out |-> "none"]

TypeOK ==
    /\ subscription \in [Subs -> SubscriptionState]
    /\ session \in [Tokens -> Session]
    /\ activation \in [ActIds -> Activation]
    /\ credential \in [Creds -> Credential]
    /\ req \in [Req -> Request]

Init ==
    /\ subscription \in [Subs -> SubscriptionState]
    /\ session = [t \in Tokens |-> [status |-> "absent", sub |-> None]]
    /\ activation = [a \in ActIds |->
                        [status |-> "absent", sub |-> None, dev |-> None]]
    /\ credential = [c \in Creds |-> [status |-> "absent", act |-> None]]
    /\ req = [r \in Req |-> IdleRequest]

-----------------------------------------------------------------------------
(* The conditions the statements test.                                     *)

\* status in ('trial', 'active') and expires_at > now(): the SQL test.
SqlServiceable(s) == subscription[s] # "closed"

\* blocked_reason() is None: the Python test, which also reads starts_at.
Unblocked(s) == subscription[s] = "open"

ActiveOn(s) == {a \in ActIds : activation[a].status = "active"
                               /\ activation[a].sub = s}

ActiveCredsOf(a) == {c \in Creds : credential[c].status = "active"
                                   /\ credential[c].act = a}

-----------------------------------------------------------------------------
(* Row locks held by an open transaction.                                  *)

LocksSession(r, t) ==
    /\ req[r].tok = t
    /\ req[r].pc \in {"redeem_subscription", "redeem_existing",
                      "redeem_burn", "redeem_insert"}

LocksSubscription(r, s) ==
    /\ req[r].sub = s
    /\ req[r].pc \in {"replace_read", "replace_touch", "replace_revoke",
                      "replace_commit"}

LocksActivation(r, a) ==
    /\ req[r].act = a
    /\ req[r].pc \in {"issue_subscription", "issue_rotate",
                      "replace_commit", "revoke_cascade"}

LocksCredential(r, c) ==
    /\ req[r].cred = c
    /\ req[r].pc = "auth_touch_act"

SessionFree(r, t) == \A q \in Req \ {r} : ~LocksSession(q, t)
SubscriptionFree(r, s) == \A q \in Req \ {r} : ~LocksSubscription(q, s)
ActivationFree(r, a) == \A q \in Req \ {r} : ~LocksActivation(q, a)
CredentialsFree(r, cs) == \A q \in Req \ {r}, c \in cs : ~LocksCredential(q, c)

\* An insert into device_activations takes FOR KEY SHARE on its subscription
\* row (foreign key) and waits for an open transaction that is revoking the
\* row it would collide with on uq_device_activations_one_active.
MayInsertActivation(r, s) ==
    /\ SubscriptionFree(r, s)
    /\ \A q \in Req \ {r}, a \in ActiveOn(s) :
          ~(req[q].pc = "revoke_cascade" /\ req[q].act = a)

\* Mutant: the columns of the insert are swapped.
NewActivationSwapped(s, d) == [status |-> "active", sub |-> d, dev |-> s]

NewActivation(s, d) == [status |-> "active", sub |-> s, dev |-> d]

-----------------------------------------------------------------------------
(* Moves of a request.                                                     *)

\* Request r goes on as q.
Become(r, q) == req' = [req EXCEPT ![r] = q]

Start(r, pc, fields) ==
    /\ req[r].pc = "idle"
    /\ Become(r, [fields EXCEPT !.pc = pc])
    /\ UNCHANGED <<subscription, rows>>

At(r, pc) == req[r].pc = pc

Goto(r, pc) == Become(r, [req[r] EXCEPT !.pc = pc])

Finish(r, out) == Become(r, [req[r] EXCEPT !.pc = "done", !.out = out])

\* The response leaves, read by its caller or lost on the way.
Reply(r) ==
    /\ At(r, "done")
    /\ Become(r, IdleRequest)
    /\ UNCHANGED <<subscription, rows>>

\* The connection drops, the statement times out or the process dies: the open
\* transaction rolls back, what earlier transactions committed stays.
Abort(r) ==
    /\ req[r].pc \notin {"idle", "done"}
    /\ Finish(r, "unavailable")
    /\ UNCHANGED <<subscription, rows>>

-----------------------------------------------------------------------------
(* POST /api/account/installation-sessions                                  *)

StartSession(r, s) ==
    /\ Start(r, "session_check", [IdleRequest EXCEPT !.sub = s])

SessionCheck(r) ==
    /\ At(r, "session_check")
    /\ IF Unblocked(req[r].sub) THEN Goto(r, "session_insert")
                                ELSE Finish(r, "not_serviceable")
    /\ UNCHANGED <<subscription, rows>>

SessionInsert(r) ==
    /\ At(r, "session_insert")
    /\ SubscriptionFree(r, req[r].sub)
    /\ \E t \in Tokens :
          /\ session[t].status = "absent"
          /\ session' = [session EXCEPT ![t] =
                            [status |-> "live", sub |-> req[r].sub]]
    /\ Goto(r, "session_purge")
    /\ UNCHANGED <<subscription, activation, credential>>

\* Deletes the rows used or expired long enough ago; {} when it fails, which
\* the handler ignores.
SessionPurge(r) ==
    /\ At(r, "session_purge")
    /\ \E old \in SUBSET {t \in Tokens : /\ session[t].status \in {"used", "expired"}
                                         /\ SessionFree(r, t)} :
          session' = [t \in Tokens |-> IF t \in old
                                         THEN [session[t] EXCEPT !.status = "purged"]
                                         ELSE session[t]]
    /\ Finish(r, "ok")
    /\ UNCHANGED <<subscription, activation, credential>>

-----------------------------------------------------------------------------
(* POST /api/runtime/activate: redeem, then issue, in two transactions.    *)

StartActivate(r, t, d) ==
    /\ session[t].status # "absent"
    /\ Start(r, "redeem_lock", [IdleRequest EXCEPT !.tok = t, !.dev = d])

RedeemLock(r) ==
    /\ At(r, "redeem_lock")
    /\ LET t == req[r].tok IN
          \/ /\ session[t].status = "live"
             /\ SessionFree(r, t)
             /\ Become(r, [req[r] EXCEPT !.pc = "redeem_subscription",
                                         !.sub = session[t].sub])
          \/ /\ session[t].status # "live"
             /\ Finish(r, "invalid_token")
    /\ UNCHANGED <<subscription, rows>>

RedeemSubscription(r) ==
    /\ At(r, "redeem_subscription")
    /\ IF SqlServiceable(req[r].sub) THEN Goto(r, "redeem_existing")
                                     ELSE Finish(r, "not_serviceable")
    /\ UNCHANGED <<subscription, rows>>

RedeemExisting(r) ==
    /\ At(r, "redeem_existing")
    /\ \/ \E a \in ActiveOn(req[r].sub) :
             /\ activation[a].dev = req[r].dev
             /\ Become(r, [req[r] EXCEPT !.pc = "redeem_burn", !.act = a])
       \/ /\ \A a \in ActiveOn(req[r].sub) : activation[a].dev # req[r].dev
          /\ Goto(r, "redeem_insert")
    /\ UNCHANGED <<subscription, rows>>

BurnToken(t) == session' = [session EXCEPT ![t].status = "used"]

RedeemBurn(r) ==
    /\ At(r, "redeem_burn")
    /\ BurnToken(req[r].tok)
    /\ Goto(r, "issue_lock")
    /\ UNCHANGED <<subscription, activation, credential>>

\* Mutant: the unique index covers (subscription, device).
RedeemInsertPerDevice(r) ==
    /\ At(r, "redeem_insert")
    /\ MayInsertActivation(r, req[r].sub)
    /\ \E a \in ActIds :
          /\ activation[a].status = "absent"
          /\ activation' = [activation EXCEPT ![a] =
                               NewActivation(req[r].sub, req[r].dev)]
          /\ Become(r, [req[r] EXCEPT !.pc = "issue_lock", !.act = a])
    /\ BurnToken(req[r].tok)
    /\ UNCHANGED <<subscription, credential>>

\* Mutant: the token is burned in a transaction of its own, before the insert.
RedeemInsertBurnsFirst(r) ==
    /\ At(r, "redeem_insert")
    /\ ActiveOn(req[r].sub) # {}
    /\ BurnToken(req[r].tok)
    /\ Finish(r, "device_limit")
    /\ UNCHANGED <<subscription, activation, credential>>

RedeemInsert(r) ==
    /\ At(r, "redeem_insert")
    /\ MayInsertActivation(r, req[r].sub)
    /\ \/ /\ ActiveOn(req[r].sub) = {}
          /\ \E a \in ActIds :
                /\ activation[a].status = "absent"
                /\ activation' = [activation EXCEPT ![a] =
                                     NewActivation(req[r].sub, req[r].dev)]
                /\ Become(r, [req[r] EXCEPT !.pc = "issue_lock", !.act = a])
          /\ BurnToken(req[r].tok)
          /\ UNCHANGED <<subscription, credential>>
       \/ /\ ActiveOn(req[r].sub) # {}
          /\ Finish(r, "device_limit")
          /\ UNCHANGED <<subscription, rows>>

\* Mutant: a credential is issued to a revoked activation too.
IssueLockUnchecked(r) ==
    /\ At(r, "issue_lock")
    /\ ActivationFree(r, req[r].act)
    /\ Goto(r, "issue_subscription")
    /\ UNCHANGED <<subscription, rows>>

IssueLock(r) ==
    /\ At(r, "issue_lock")
    /\ ActivationFree(r, req[r].act)
    /\ IF activation[req[r].act].status = "active"
         THEN Goto(r, "issue_subscription")
         ELSE Finish(r, "issue_refused")
    /\ UNCHANGED <<subscription, rows>>

IssueSubscription(r) ==
    /\ At(r, "issue_subscription")
    /\ IF SqlServiceable(activation[req[r].act].sub)
         THEN Goto(r, "issue_rotate")
         ELSE Finish(r, "issue_refused")
    /\ UNCHANGED <<subscription, rows>>

\* Mutant: the trigger and the rotation forget to revoke.
RevokeCredsForgotten(cs) == credential

RevokeCreds(cs) == [c \in Creds |-> IF c \in cs
                                      THEN [credential[c] EXCEPT !.status = "revoked"]
                                      ELSE credential[c]]

\* Mutant: the previous credential stays valid.
IssueRotateKeepsOld(r) ==
    /\ At(r, "issue_rotate")
    /\ \E c \in Creds :
          /\ credential[c].status = "absent"
          /\ credential' = [credential EXCEPT ![c] =
                               [status |-> "active", act |-> req[r].act]]
          /\ Become(r, [req[r] EXCEPT !.pc = "issue_purge", !.cred = c])
    /\ UNCHANGED <<subscription, session, activation>>

\* Rotation: the previous credential is revoked and a new one inserted; then
\* revoked rows older than a month are purged in a transaction of their own
\* whose failure (old = {}) is ignored.
IssueRotate(r) ==
    /\ At(r, "issue_rotate")
    /\ LET a == req[r].act IN
          /\ CredentialsFree(r, ActiveCredsOf(a))
          /\ \E c \in Creds :
                /\ credential[c].status = "absent"
                /\ credential' = [RevokeCreds(ActiveCredsOf(a)) EXCEPT ![c] =
                                     [status |-> "active", act |-> a]]
                /\ Become(r, [req[r] EXCEPT !.pc = "issue_purge", !.cred = c])
    /\ UNCHANGED <<subscription, session, activation>>

IssuePurge(r) ==
    /\ At(r, "issue_purge")
    /\ \E old \in SUBSET {c \in Creds : credential[c].status = "revoked"} :
          credential' = [c \in Creds |-> IF c \in old
                                           THEN [credential[c] EXCEPT !.status = "purged"]
                                           ELSE credential[c]]
    /\ Finish(r, "ok")
    /\ UNCHANGED <<subscription, session, activation>>

-----------------------------------------------------------------------------
(* POST /api/account/devices/activate: check, then insert.  The touch of   *)
(* last_seen_at on an existing row writes nothing modelled here.           *)

StartDirect(r, s, d) ==
    /\ Start(r, "direct_subscription", [IdleRequest EXCEPT !.sub = s, !.dev = d])

DirectSubscription(r) ==
    /\ At(r, "direct_subscription")
    /\ IF Unblocked(req[r].sub) THEN Goto(r, "direct_read")
                                ELSE Finish(r, "not_serviceable")
    /\ UNCHANGED <<subscription, rows>>

DirectRead(r) ==
    /\ At(r, "direct_read")
    /\ \/ /\ ActiveOn(req[r].sub) = {}
          /\ Goto(r, "direct_insert")
       \/ \E a \in ActiveOn(req[r].sub) :
             Finish(r, IF activation[a].dev = req[r].dev THEN "ok" ELSE "device_limit")
    /\ UNCHANGED <<subscription, rows>>

DirectInsert(r) ==
    /\ At(r, "direct_insert")
    /\ MayInsertActivation(r, req[r].sub)
    /\ \/ /\ ActiveOn(req[r].sub) = {}
          /\ \E a \in ActIds :
                /\ activation[a].status = "absent"
                /\ activation' = [activation EXCEPT ![a] =
                                     NewActivation(req[r].sub, req[r].dev)]
          /\ Finish(r, "ok")
       \/ /\ ActiveOn(req[r].sub) # {}
          /\ Finish(r, "device_limit")
          /\ UNCHANGED activation
    /\ UNCHANGED <<subscription, session, credential>>

-----------------------------------------------------------------------------
(* POST /api/account/devices/replace                                        *)

StartReplace(r, s, d) ==
    /\ Start(r, "replace_check", [IdleRequest EXCEPT !.sub = s, !.dev = d])

ReplaceCheck(r) ==
    /\ At(r, "replace_check")
    /\ IF Unblocked(req[r].sub) THEN Goto(r, "replace_lock")
                                ELSE Finish(r, "not_serviceable")
    /\ UNCHANGED <<subscription, rows>>

ReplaceLock(r) ==
    /\ At(r, "replace_lock")
    /\ SubscriptionFree(r, req[r].sub)
    /\ IF SqlServiceable(req[r].sub) THEN Goto(r, "replace_read")
                                     ELSE Finish(r, "not_serviceable")
    /\ UNCHANGED <<subscription, rows>>

ReplaceRead(r) ==
    /\ At(r, "replace_read")
    /\ \/ /\ ActiveOn(req[r].sub) = {}
          /\ Goto(r, "replace_commit")
       \/ \E a \in ActiveOn(req[r].sub) :
             Become(r, [req[r] EXCEPT !.act = a,
                                      !.pc = IF activation[a].dev = req[r].dev
                                               THEN "replace_touch"
                                               ELSE "replace_revoke"])
    /\ UNCHANGED <<subscription, rows>>

\* The same device: its row is touched by id, whatever became of it since.
ReplaceTouch(r) ==
    /\ At(r, "replace_touch")
    /\ ActivationFree(r, req[r].act)
    /\ Finish(r, "ok")
    /\ UNCHANGED <<subscription, rows>>

Revoked(as) == [a \in ActIds |-> IF a \in as
                                   THEN [activation[a] EXCEPT !.status = "revoked"]
                                   ELSE activation[a]]

\* Mutant: the revocation is a transaction of its own.
ReplaceRevokeCommits(r) ==
    /\ At(r, "replace_revoke")
    /\ ActivationFree(r, req[r].act)
    /\ CredentialsFree(r, ActiveCredsOf(req[r].act))
    /\ activation' = Revoked({req[r].act})
    /\ credential' = RevokeCreds(ActiveCredsOf(req[r].act))
    /\ Goto(r, "replace_commit")
    /\ UNCHANGED <<subscription, session>>

\* The update of revoked_at takes the row's lock; the trigger then updates the
\* credential rows.
ReplaceRevoke(r) ==
    /\ At(r, "replace_revoke")
    /\ ActivationFree(r, req[r].act)
    /\ Goto(r, "replace_commit")
    /\ UNCHANGED <<subscription, rows>>

ReplaceCommit(r) ==
    /\ At(r, "replace_commit")
    /\ LET s == req[r].sub
           old == {a \in ActIds : a = req[r].act}
           cascade == UNION {ActiveCredsOf(a) : a \in old}
       IN  /\ CredentialsFree(r, cascade)
           /\ \A a \in ActiveOn(s) \ old, q \in Req \ {r} :
                 ~(req[q].pc = "revoke_cascade" /\ req[q].act = a)
           /\ \/ /\ ActiveOn(s) \ old = {}
                 /\ \E n \in ActIds :
                       /\ activation[n].status = "absent"
                       /\ activation' = [Revoked(old) EXCEPT ![n] =
                                            NewActivation(s, req[r].dev)]
                 /\ credential' = RevokeCreds(cascade)
                 /\ Finish(r, "ok")
                 /\ UNCHANGED <<subscription, session>>
              \/ /\ ActiveOn(s) \ old # {}
                 /\ Finish(r, "device_limit")
                 /\ UNCHANGED <<subscription, rows>>

-----------------------------------------------------------------------------
(* POST /api/account/devices/{id}/revoke                                    *)

StartRevoke(r, s, a) ==
    Start(r, "revoke_read", [IdleRequest EXCEPT !.sub = s, !.act = a])

RevokeRead(r) ==
    /\ At(r, "revoke_read")
    /\ LET row == activation[req[r].act] IN
          \/ /\ row.status = "absent" \/ row.sub # req[r].sub
             /\ Finish(r, "not_found")
          \/ /\ row.sub = req[r].sub
             /\ IF row.status = "active" THEN Goto(r, "revoke_update")
                                         ELSE Finish(r, "ok")
    /\ UNCHANGED <<subscription, rows>>

\* where revoked_at is null: tested again once the row's lock is had.
RevokeUpdate(r) ==
    /\ At(r, "revoke_update")
    /\ ActivationFree(r, req[r].act)
    /\ IF activation[req[r].act].status = "active"
         THEN Goto(r, "revoke_cascade")
         ELSE Finish(r, "ok")
    /\ UNCHANGED <<subscription, rows>>

RevokeCascade(r) ==
    /\ At(r, "revoke_cascade")
    /\ CredentialsFree(r, ActiveCredsOf(req[r].act))
    /\ activation' = Revoked({req[r].act})
    /\ credential' = RevokeCreds(ActiveCredsOf(req[r].act))
    /\ Finish(r, "ok")
    /\ UNCHANGED <<subscription, session>>

-----------------------------------------------------------------------------
(* Authentication of a device credential: /api/runtime/chat and /model ask *)
(* strictly, /entitlement leaves the subscription test out ("lax"), and a  *)
(* strict refusal is classified by a second, lax call.                     *)

StartAuth(r, c, mode) ==
    /\ credential[c].status # "absent"
    /\ Start(r, "auth_cred", [IdleRequest EXCEPT !.cred = c, !.mode = mode])

\* Mutant: every refusal is a 401.
RefuseUnclassified(r) ==
    /\ req[r].mode # "none"
    /\ Finish(r, "denied401")

\* Mutant: the second call asks strictly again.
RefuseAsksAgain(r) ==
    \/ /\ req[r].mode = "strict"
       /\ Goto(r, "auth_cred")
    \/ /\ req[r].mode \in {"lax", "classify"}
       /\ Finish(r, "denied401")

\* Zero rows came back.
Refuse(r) ==
    \/ /\ req[r].mode = "strict"
       /\ Become(r, [req[r] EXCEPT !.pc = "auth_cred", !.mode = "classify"])
    \/ /\ req[r].mode \in {"lax", "classify"}
       /\ Finish(r, "denied401")

AuthCred(r) ==
    /\ At(r, "auth_cred")
    /\ LET row == credential[req[r].cred] IN
          \/ /\ row.status = "active"
             /\ Become(r, [req[r] EXCEPT !.pc = "auth_act", !.act = row.act])
          \/ /\ row.status # "active"
             /\ Refuse(r)
    /\ UNCHANGED <<subscription, rows>>

AuthAct(r) ==
    /\ At(r, "auth_act")
    /\ LET row == activation[req[r].act] IN
          \/ /\ row.status = "active"
             /\ Become(r, [req[r] EXCEPT !.pc = "auth_sub", !.sub = row.sub])
          \/ /\ row.status # "active"
             /\ Refuse(r)
    /\ UNCHANGED <<subscription, rows>>

AuthSub(r) ==
    /\ At(r, "auth_sub")
    /\ IF req[r].mode = "strict" /\ ~SqlServiceable(req[r].sub)
         THEN Refuse(r)
         ELSE Goto(r, "auth_touch_cred")
    /\ UNCHANGED <<subscription, rows>>

\* last_used_at, then last_seen_at: the locks are taken in this order, the
\* opposite of what a revocation does.
AuthTouchCred(r) ==
    /\ At(r, "auth_touch_cred")
    /\ CredentialsFree(r, {req[r].cred})
    /\ Goto(r, "auth_touch_act")
    /\ UNCHANGED <<subscription, rows>>

AuthTouchAct(r) ==
    /\ At(r, "auth_touch_act")
    /\ ActivationFree(r, req[r].act)
    /\ Finish(r, IF req[r].mode = "classify" THEN "denied403" ELSE "ok")
    /\ UNCHANGED <<subscription, rows>>

-----------------------------------------------------------------------------
(* Deadlock detection: of two transactions that wait for each other's row, *)
(* PostgreSQL rolls one back.                                              *)

WaitsFor(r, q) ==
    \/ At(r, "auth_touch_act") /\ LocksActivation(q, req[r].act)
    \/ /\ req[r].pc \in {"issue_rotate", "replace_commit", "revoke_cascade"}
       /\ \E a \in ActIds : /\ a = req[r].act
                            /\ \E c \in ActiveCredsOf(a) : LocksCredential(q, c)

DeadlockVictim(r) ==
    /\ \E q \in Req \ {r} : WaitsFor(r, q) /\ WaitsFor(q, r)
    /\ Finish(r, "unavailable")
    /\ UNCHANGED <<subscription, rows>>

-----------------------------------------------------------------------------
(* Bound: a request that needs a row of a kind of which all are taken ends *)
(* as if its transaction had failed.                                       *)

OutOfRows(r) ==
    /\ \/ /\ At(r, "session_insert")
          /\ \A t \in Tokens : session[t].status # "absent"
       \/ /\ req[r].pc \in {"redeem_insert", "direct_insert", "replace_commit"}
          /\ \A a \in ActIds : activation[a].status # "absent"
       \/ /\ At(r, "issue_rotate")
          /\ \A c \in Creds : credential[c].status # "absent"
    /\ Finish(r, "unavailable")
    /\ UNCHANGED <<subscription, rows>>

-----------------------------------------------------------------------------
(* The environment: the clock and the service operator.                    *)

TokenExpires(t) ==
    /\ session[t].status = "live"
    /\ session' = [session EXCEPT ![t].status = "expired"]
    /\ UNCHANGED <<subscription, activation, credential, req>>

\* starts_at or expires_at passes.
SubscriptionClock(s) ==
    /\ \/ subscription[s] = "future" /\ subscription' = [subscription EXCEPT ![s] = "open"]
       \/ subscription[s] = "open" /\ subscription' = [subscription EXCEPT ![s] = "closed"]
    /\ UNCHANGED <<rows, req>>

\* The operator suspends, renews or reschedules; the update waits for a
\* transaction that locked the row.
SubscriptionUpdated(s, state) ==
    /\ \A q \in Req : ~LocksSubscription(q, s)
    /\ subscription[s] # state
    /\ subscription' = [subscription EXCEPT ![s] = state]
    /\ UNCHANGED <<rows, req>>

-----------------------------------------------------------------------------
Begin(r) ==
    \/ \E s \in Subs : StartSession(r, s)
    \/ \E t \in Tokens, d \in Devices : StartActivate(r, t, d)
    \/ \E s \in Subs, d \in Devices : StartDirect(r, s, d) \/ StartReplace(r, s, d)
    \/ \E s \in Subs, a \in ActIds : StartRevoke(r, s, a)
    \/ \E c \in Creds, mode \in {"strict", "lax"} : StartAuth(r, c, mode)

Step(r) ==
    \/ SessionCheck(r) \/ SessionInsert(r) \/ SessionPurge(r)
    \/ RedeemLock(r) \/ RedeemSubscription(r) \/ RedeemExisting(r)
    \/ RedeemBurn(r) \/ RedeemInsert(r)
    \/ IssueLock(r) \/ IssueSubscription(r) \/ IssueRotate(r) \/ IssuePurge(r)
    \/ DirectSubscription(r) \/ DirectRead(r) \/ DirectInsert(r)
    \/ ReplaceCheck(r) \/ ReplaceLock(r) \/ ReplaceRead(r) \/ ReplaceTouch(r)
    \/ ReplaceRevoke(r) \/ ReplaceCommit(r)
    \/ RevokeRead(r) \/ RevokeUpdate(r) \/ RevokeCascade(r)
    \/ AuthCred(r) \/ AuthAct(r) \/ AuthSub(r)
    \/ AuthTouchCred(r) \/ AuthTouchAct(r)
    \/ Reply(r) \/ OutOfRows(r)

Environment ==
    \/ \E t \in Tokens : TokenExpires(t)
    \/ \E s \in Subs : SubscriptionClock(s)
    \/ \E s \in Subs, state \in SubscriptionState : SubscriptionUpdated(s, state)

Next ==
    \/ \E r \in Req : Begin(r) \/ Step(r) \/ Abort(r) \/ DeadlockVictim(r)
    \/ Environment

Spec == Init /\ [][Next]_vars

\* A request's code runs on, row locks are granted in the order they were
\* asked for (hence strong fairness), and a deadlock is detected.
FairSpec ==
    /\ Spec
    /\ \A r \in Req : SF_vars(Step(r)) /\ WF_vars(DeadlockVictim(r))

-----------------------------------------------------------------------------
(* Safety.                                                                  *)

\* A subscription works on one device: whatever the interleaving of redemption,
\* direct activation, replacement and revocation, at most one of its
\* activations is active (0001:226-231).
OneActiveDevice ==
    \A s \in Subs : \A a, b \in ActiveOn(s) : a = b

\* A revoked or replaced device holds no valid credential, not even when a
\* credential is being issued to it while it is revoked (0005:116-125).
CredentialNeedsActiveDevice ==
    \A c \in Creds : credential[c].status = "active" =>
        /\ credential[c].act \in ActIds
        /\ activation[credential[c].act].status = "active"

\* Concurrent activations of one device leave it one valid credential
\* (0005:91-95).
OneCredentialPerDevice ==
    \A a \in ActIds : \A c, d \in ActiveCredsOf(a) : c = d

\* What a replacement has read stays true until it commits: nobody takes the
\* seat in between, so it never fails on the unique index (0004:28-33, 92).
ReplacementSeesTheSeat ==
    \A r \in Req : req[r].pc \in {"replace_revoke", "replace_commit"} =>
        ActiveOn(req[r].sub) \subseteq {req[r].act}

\* The requests that hold what redemption gave them.
Redeemed(r) ==
    /\ req[r].tok # None
    /\ \/ req[r].pc \in {"issue_lock", "issue_subscription", "issue_rotate", "issue_purge"}
       \/ req[r].pc = "done" /\ req[r].out \in {"ok", "issue_refused"}

TokenSpentOnce ==
    \A q, r \in Req : q # r /\ Redeemed(q) /\ Redeemed(r) => req[q].tok # req[r].tok

-----------------------------------------------------------------------------
(* What a step may never do.                                               *)

\* Revocation is final: no step brings a revoked activation or a revoked
\* credential back, whoever held its row when it was revoked.
RevocationIsFinal ==
    [][ /\ \A a \in ActIds : activation[a].status = "revoked"
                              => activation'[a] = activation[a]
        /\ \A c \in Creds : credential[c].status \in {"revoked", "purged"}
                              => credential'[c].status \in {"revoked", "purged"} ]_vars

\* A token is burned only together with the activation it pays for, one of the
\* subscription it was issued on: a redemption that fails leaves it live
\* (0002:107-118).  And it is spent once: two redemptions of it never both get
\* past the burn, although both may have found it live (0002:148-149).
TokenBuysActivation ==
    /\ []TokenSpentOnce
    /\ [][ \A t \in Tokens :
             session[t].status = "live" /\ session'[t].status = "used" =>
               \E r \in Req : /\ req[r].tok = t
                              /\ req'[r].act \in ActIds
                              /\ activation'[req'[r].act].sub = session[t].sub
                              /\ activation'[req'[r].act].dev = req[r].dev ]_vars

\* "No moment in which the account has no device" (api/entitlements.py:494):
\* a seat changes hands in one step, and only a revocation empties it.
ReplacementKeepsTheSeat ==
    [][ \A s \in Subs : ActiveOn(s) # {} /\ ActiveOn(s)' = {} =>
          \E r \in Req : req[r].pc = "revoke_cascade" /\ req[r].act \in ActiveOn(s) ]_vars

\* What an account is told of its device stays so: a replacement hands the seat
\* over in one step on what it read, and nothing brings a revoked device back.
SeatIsHandedOver == []ReplacementSeesTheSeat /\ ReplacementKeepsTheSeat /\ RevocationIsFinal

-----------------------------------------------------------------------------
(* Liveness.                                                               *)

\* Every request is answered, although an authentication and a revocation of
\* the same device take their row locks in opposite orders.
RequestsAreAnswered ==
    \A r \in Req : req[r].pc # "idle" ~> req[r].pc = "idle"
=============================================================================
