------------------------ MODULE DeviceRegistryProofs ------------------------
(***************************************************************************)
(* Proofs about DeviceRegistry for every set of subscriptions, devices,    *)
(* tokens, rows and concurrent requests: what a request knows of the rows, *)
(* what the row locks exclude, and from these the seat, the credentials    *)
(* and what a revocation leaves.                                           *)
(***************************************************************************)
EXTENDS DeviceRegistry, TLAPS

-----------------------------------------------------------------------------
(* What a request knows.  TypeOK is not inductive: a statement reads the   *)
(* row its locals name, so the locals must name a row.                     *)

\* The rows a request at q.pc holds the names of exist, and say what it read of
\* them that no write changes.
Local(q) ==
    /\ q.pc \in {"redeem_lock", "redeem_subscription", "redeem_existing",
                 "redeem_burn", "redeem_insert"} =>
          q.tok \in Tokens /\ q.dev \in Devices /\ session[q.tok].status # "absent"
    /\ q.pc \in {"redeem_subscription", "redeem_existing", "redeem_burn",
                 "redeem_insert"} => q.sub = session[q.tok].sub
    /\ q.pc \in {"redeem_burn", "issue_lock", "issue_subscription", "issue_rotate"} =>
          q.act \in ActIds /\ activation[q.act].status # "absent"
    /\ q.pc = "redeem_burn" =>
          activation[q.act].sub = q.sub /\ activation[q.act].dev = q.dev
    /\ q.pc \in {"session_check", "session_insert", "direct_subscription",
                 "direct_read", "direct_insert", "replace_check", "replace_lock",
                 "replace_read", "replace_touch", "replace_revoke",
                 "replace_commit", "revoke_read", "revoke_update",
                 "revoke_cascade"} => q.sub \in Subs
    /\ q.pc \in {"direct_subscription", "direct_read", "direct_insert",
                 "replace_check", "replace_lock", "replace_read", "replace_touch",
                 "replace_revoke", "replace_commit"} => q.dev \in Devices
    /\ q.pc \in {"replace_check", "replace_lock", "replace_read"} => q.act = None
    /\ q.pc \in {"replace_touch", "replace_revoke"} => q.act # None
    /\ q.pc \in {"replace_touch", "replace_revoke", "replace_commit"} /\ q.act # None =>
          /\ q.act \in ActIds
          /\ activation[q.act].status # "absent"
          /\ activation[q.act].sub = q.sub
    /\ q.pc \in {"replace_revoke", "replace_commit"} /\ q.act # None =>
          activation[q.act].dev # q.dev
    /\ q.pc \in {"revoke_read", "revoke_update", "revoke_cascade"} => q.act \in ActIds
    /\ q.pc = "revoke_cascade" => activation[q.act].status # "absent"
    /\ q.pc \in {"auth_cred", "auth_act", "auth_sub", "auth_touch_cred",
                 "auth_touch_act"} => q.mode # "none"
    /\ q.mode # "none" => q.cred \in Creds /\ credential[q.cred].status # "absent"
    /\ q.pc \in {"auth_act", "auth_sub", "auth_touch_cred", "auth_touch_act"} =>
          q.act = credential[q.cred].act
    /\ q.pc = "auth_sub" => q.sub = activation[q.act].sub
    /\ q.pc # "done" => q.out = "none"

RowsTyped ==
    /\ subscription \in [Subs -> SubscriptionState]
    /\ session \in [Tokens -> Session]
    /\ activation \in [ActIds -> Activation]
    /\ credential \in [Creds -> Credential]

\* A row that exists names rows that exist.
RowsOK ==
    /\ \A t \in Tokens : session[t].status # "absent" => session[t].sub \in Subs
    /\ \A a \in ActIds : activation[a].status # "absent" =>
          activation[a].sub \in Subs /\ activation[a].dev \in Devices
    /\ \A c \in Creds : credential[c].status # "absent" =>
          /\ credential[c].act \in ActIds
          /\ activation[credential[c].act].status # "absent"

LocalsOK == \A r \in Req : Local(req[r])

Inv == TypeOK /\ RowsOK /\ LocalsOK

\* No write removes a row or changes what it was created for.
RowsKept ==
    /\ \A t \in Tokens : session[t].status # "absent" =>
          session'[t].status # "absent" /\ session'[t].sub = session[t].sub
    /\ \A a \in ActIds : activation[a].status # "absent" =>
          /\ activation'[a].status # "absent"
          /\ activation'[a].sub = activation[a].sub
          /\ activation'[a].dev = activation[a].dev
    /\ \A c \in Creds : credential[c].status # "absent" =>
          credential'[c].status # "absent" /\ credential'[c].act = credential[c].act

-----------------------------------------------------------------------------
(* Frames: what is left to show of a step once its writes are known.       *)

\* A request that goes on as a well typed one.
LEMMA BecomeTyped ==
    ASSUME req \in [Req -> Request], NEW r \in Req, NEW q \in Request, Become(r, q)
    PROVE  req' \in [Req -> Request]
BY DEF Become

\* A request that has not begun is well typed.
LEMMA IdleTyped == IdleRequest \in Request
BY DEF IdleRequest, Request, RequestPC, Outcome

\* What a request knows stays true when rows are only kept or added.
LEMMA LocalKept ==
    ASSUME Inv, RowsKept, NEW q \in Request, Local(q)
    PROVE  Local(q)'
<1>1. q.tok \in Tokens /\ session[q.tok].status # "absent" =>
          session'[q.tok].status # "absent" /\ session'[q.tok].sub = session[q.tok].sub
  BY DEF RowsKept
<1>2. q.act \in ActIds /\ activation[q.act].status # "absent" =>
          /\ activation'[q.act].status # "absent"
          /\ activation'[q.act].sub = activation[q.act].sub
          /\ activation'[q.act].dev = activation[q.act].dev
  BY DEF RowsKept
<1>3. q.cred \in Creds /\ credential[q.cred].status # "absent" =>
          /\ credential'[q.cred].status # "absent"
          /\ credential'[q.cred].act = credential[q.cred].act
  BY DEF RowsKept
<1>4. q.pc = "auth_sub" =>
          /\ q.cred \in Creds /\ credential[q.cred].status # "absent"
          /\ q.act = credential[q.cred].act
          /\ q.sub = activation[q.act].sub
  BY DEF Local
<1>5. q.pc = "auth_sub" => q.act \in ActIds /\ activation[q.act].status # "absent"
  BY <1>4 DEF Inv, RowsOK
<1>6. q.pc = "auth_sub" => q.sub = activation'[q.act].sub
  BY <1>2, <1>4, <1>5
<1> QED
  BY <1>1, <1>2, <1>3, <1>6
     DEF Local

\* A statement of r that keeps every row and its type, whatever it writes.
LEMMA WriteKeepsInv ==
    ASSUME Inv, NEW r \in Req, NEW q \in Request, Become(r, q),
           RowsKept, RowsTyped', RowsOK', Local(q)'
    PROVE  Inv'
<1>1. TypeOK'
  BY BecomeTyped DEF Inv, TypeOK, RowsTyped
<1>2. LocalsOK'
  <2> SUFFICES ASSUME NEW p \in Req PROVE Local(req[p])'
    BY DEF LocalsOK
  <2>1. CASE p = r
    BY <2>1 DEF Become, Inv, TypeOK
  <2>2. CASE p # r
    <3>1. req'[p] = req[p] /\ req[p] \in Request /\ Local(req[p])
      BY <2>2 DEF Become, Inv, TypeOK, LocalsOK
    <3> QED
      BY <3>1, LocalKept
  <2> QED
    BY <2>1, <2>2
<1> QED
  BY <1>1, <1>2 DEF Inv

\* A statement that only reads.
LEMMA ReadKeepsInv ==
    ASSUME Inv, NEW r \in Req, NEW q \in Request, Become(r, q), Local(q),
           UNCHANGED <<subscription, rows>>
    PROVE  Inv'
<1> USE DEF rows
<1>1. RowsKept
  BY DEF RowsKept
<1>2. Local(q)'
  BY <1>1, LocalKept
<1>3. RowsOK'
  BY DEF Inv, RowsOK
<1>4. RowsTyped'
  BY DEF Inv, TypeOK, RowsTyped
<1> QED
  BY <1>1, <1>2, <1>3, <1>4, WriteKeepsInv

\* A request that answers knows nothing new.
LEMMA FinishedIsLocal ==
    ASSUME NEW q \in Request, Local(q), NEW out \in Outcome
    PROVE  \E p \in Request : p = [q EXCEPT !.pc = "done", !.out = out] /\ Local(p)
<1> DEFINE p == [q EXCEPT !.pc = "done", !.out = out]
<1>1. "done" \in RequestPC
  BY DEF RequestPC
<1>2. p \in Request
  BY <1>1 DEF Request
<1>3. Local(p)
  BY DEF Local, Request
<1> QED
  BY <1>2, <1>3

\* A request that answers.
LEMMA FinishKeepsInv ==
    ASSUME Inv, NEW r \in Req, NEW out \in Outcome, Finish(r, out),
           UNCHANGED <<subscription, rows>>
    PROVE  Inv'
<1>1. req[r] \in Request /\ Local(req[r])
  BY DEF Inv, TypeOK, LocalsOK
<1>2. PICK p \in Request :
          p = [req[r] EXCEPT !.pc = "done", !.out = out] /\ Local(p)
  BY <1>1, FinishedIsLocal
<1> QED
  BY <1>2, ReadKeepsInv DEF Finish

\* A request that moves to its next statement.
LEMMA GotoKeepsInv ==
    ASSUME Inv, NEW r \in Req, NEW pc \in RequestPC, Goto(r, pc),
           Local([req[r] EXCEPT !.pc = pc]), UNCHANGED <<subscription, rows>>
    PROVE  Inv'
<1>1. [req[r] EXCEPT !.pc = pc] \in Request
  BY DEF Inv, TypeOK, Request
<1> QED
  BY <1>1, ReadKeepsInv DEF Goto

\* The writes keep the rows typed.
LEMMA RevokeCredsTyped ==
    ASSUME credential \in [Creds -> Credential], NEW cs
    PROVE  RevokeCreds(cs) \in [Creds -> Credential]
BY DEF RevokeCreds, Credential

\* So does the revocation of activations.
LEMMA RevokedTyped ==
    ASSUME activation \in [ActIds -> Activation], NEW as
    PROVE  Revoked(as) \in [ActIds -> Activation]
BY DEF Revoked, Activation

\* A fresh activation is well typed.
LEMMA NewActivationTyped ==
    ASSUME NEW s \in Subs \cup {None}, NEW d \in Devices \cup {None}
    PROVE  NewActivation(s, d) \in Activation
BY DEF NewActivation, Activation

-----------------------------------------------------------------------------
(* The invariant is inductive: one lemma per handler.                      *)

\* An empty register satisfies the invariant.
LEMMA InitInv == Init => Inv
<1> SUFFICES ASSUME Init PROVE Inv
  OBVIOUS
<1>1. TypeOK
  BY IdleTyped DEF Init, TypeOK, Session, Activation, Credential
<1>2. RowsOK
  BY DEF Init, RowsOK
<1>3. Local(IdleRequest)
  BY DEF Local, IdleRequest
<1>4. LocalsOK
  BY <1>3 DEF Init, LocalsOK
<1> QED
  BY <1>1, <1>2, <1>4 DEF Inv

\* The arrival of a request.
LEMMA BeginKeepsInv ==
    ASSUME Inv, NEW r \in Req, Begin(r)
    PROVE  Inv'
<1> USE IdleTyped DEF Local
<1>0. UNCHANGED <<subscription, rows>>
  BY DEF Begin, StartSession, StartActivate, StartDirect, StartReplace, StartRevoke,
         StartAuth, Start
<1>1. ASSUME NEW s \in Subs, StartSession(r, s) PROVE Inv'
  <2> DEFINE q == [IdleRequest EXCEPT !.sub = s, !.pc = "session_check"]
  <2>1. q \in Request /\ Local(q)
    BY DEF Request, RequestPC, IdleRequest
  <2>2. Become(r, q)
    BY <1>1 DEF StartSession, Start, IdleRequest
  <2> QED
    BY <1>0, <2>1, <2>2, ReadKeepsInv
<1>2. ASSUME NEW t \in Tokens, NEW d \in Devices, StartActivate(r, t, d) PROVE Inv'
  <2> DEFINE q == [IdleRequest EXCEPT !.tok = t, !.dev = d, !.pc = "redeem_lock"]
  <2>1. q \in Request /\ Local(q)
    BY <1>2 DEF StartActivate, Request, RequestPC, IdleRequest
  <2>2. Become(r, q)
    BY <1>2 DEF StartActivate, Start, IdleRequest
  <2> QED
    BY <1>0, <2>1, <2>2, ReadKeepsInv
<1>3. ASSUME NEW s \in Subs, NEW d \in Devices, StartDirect(r, s, d) PROVE Inv'
  <2> DEFINE q == [IdleRequest EXCEPT !.sub = s, !.dev = d, !.pc = "direct_subscription"]
  <2>1. q \in Request /\ Local(q)
    BY <1>3 DEF StartDirect, Start, Request, RequestPC, IdleRequest
  <2>2. Become(r, q)
    BY <1>3 DEF StartDirect, Start, IdleRequest
  <2> QED
    BY <1>0, <2>1, <2>2, ReadKeepsInv
<1>4. ASSUME NEW s \in Subs, NEW d \in Devices, StartReplace(r, s, d) PROVE Inv'
  <2> DEFINE q == [IdleRequest EXCEPT !.sub = s, !.dev = d, !.pc = "replace_check"]
  <2>1. q \in Request /\ Local(q)
    BY <1>4 DEF StartReplace, Start, Request, RequestPC, IdleRequest
  <2>2. Become(r, q)
    BY <1>4 DEF StartReplace, Start, IdleRequest
  <2> QED
    BY <1>0, <2>1, <2>2, ReadKeepsInv
<1>5. ASSUME NEW s \in Subs, NEW a \in ActIds, StartRevoke(r, s, a) PROVE Inv'
  <2> DEFINE q == [IdleRequest EXCEPT !.sub = s, !.act = a, !.pc = "revoke_read"]
  <2>1. q \in Request /\ Local(q)
    BY <1>5 DEF StartRevoke, Start, Request, RequestPC, IdleRequest
  <2>2. Become(r, q)
    BY <1>5 DEF StartRevoke, Start, IdleRequest
  <2> QED
    BY <1>0, <2>1, <2>2, ReadKeepsInv
<1>6. ASSUME NEW c \in Creds, NEW m \in {"strict", "lax"}, StartAuth(r, c, m) PROVE Inv'
  <2> DEFINE q == [IdleRequest EXCEPT !.cred = c, !.mode = m, !.pc = "auth_cred"]
  <2>1. q \in Request /\ Local(q)
    BY <1>6 DEF StartAuth, Start, Request, RequestPC, IdleRequest
  <2>2. Become(r, q)
    BY <1>6 DEF StartAuth, Start, IdleRequest
  <2> QED
    BY <1>0, <2>1, <2>2, ReadKeepsInv
<1> QED
  BY <1>1, <1>2, <1>3, <1>4, <1>5, <1>6 DEF Begin

\* The installation session handler.
LEMMA SessionKeepsInv ==
    ASSUME Inv, NEW r \in Req,
           SessionCheck(r) \/ SessionInsert(r) \/ SessionPurge(r)
    PROVE  Inv'
<1>0. req[r] \in Request /\ Local(req[r]) /\ TypeOK
  BY DEF Inv, TypeOK, LocalsOK
<1>1. CASE SessionCheck(r)
  <2>1. Local([req[r] EXCEPT !.pc = "session_insert"])
    BY <1>0, <1>1 DEF SessionCheck, At, Request, Local
  <2> QED
    BY <1>1, <2>1, GotoKeepsInv, FinishKeepsInv DEF SessionCheck, RequestPC, Outcome
<1>2. CASE SessionInsert(r)
  <2>0. [req[r] EXCEPT !.pc = "session_purge"] \in Request
    BY <1>0 DEF Request, RequestPC
  <2>1. PICK q \in Request : q = [req[r] EXCEPT !.pc = "session_purge"]
    BY <2>0
  <2>2. Become(r, q) /\ UNCHANGED <<subscription, activation, credential>>
    BY <1>2, <2>1 DEF SessionInsert, Goto
  <2>3. PICK t \in Tokens : /\ session[t].status = "absent"
                            /\ session' = [session EXCEPT ![t] =
                                  [status |-> "live", sub |-> req[r].sub]]
    BY <1>2 DEF SessionInsert
  <2>4. req[r].sub \in Subs
    BY <1>0, <1>2 DEF SessionInsert, At, Local
  <2>5. RowsTyped'
    BY <1>0, <2>2, <2>3, <2>4 DEF TypeOK, RowsTyped, Session
  <2>6. RowsKept
    BY <1>0, <2>2, <2>3 DEF TypeOK, RowsKept
  <2>7. RowsOK'
    BY <1>0, <2>2, <2>3, <2>4 DEF TypeOK, Inv, RowsOK
  <2>8. Local(q)
    BY <1>0, <1>2, <2>1 DEF Request, SessionInsert, At, Local
  <2> QED
    BY <2>2, <2>5, <2>6, <2>7, <2>8, LocalKept, WriteKeepsInv
<1>3. CASE SessionPurge(r)
  <2>1. PICK q \in Request :
            q = [req[r] EXCEPT !.pc = "done", !.out = "ok"] /\ Local(q)
    BY <1>0, FinishedIsLocal DEF Outcome
  <2>2. Become(r, q) /\ UNCHANGED <<subscription, activation, credential>>
    BY <1>3, <2>1 DEF SessionPurge, Finish
  <2>3. PICK old \in SUBSET {t \in Tokens : session[t].status \in {"used", "expired"}} :
            session' = [t \in Tokens |-> IF t \in old
                                           THEN [session[t] EXCEPT !.status = "purged"]
                                           ELSE session[t]]
    BY <1>3 DEF SessionPurge
  <2>4. RowsTyped'
    BY <1>0, <2>2, <2>3 DEF TypeOK, RowsTyped, Session
  <2>5. RowsKept
    BY <1>0, <2>2, <2>3 DEF TypeOK, RowsKept, Session
  <2>6. RowsOK'
    BY <1>0, <2>2, <2>3 DEF TypeOK, Inv, RowsOK, Session
  <2> QED
    BY <2>1, <2>2, <2>4, <2>5, <2>6, LocalKept, WriteKeepsInv
<1> QED
  BY <1>1, <1>2, <1>3

\* The redemption, up to the insert.
LEMMA RedeemKeepsInv ==
    ASSUME Inv, NEW r \in Req,
           RedeemLock(r) \/ RedeemSubscription(r) \/ RedeemExisting(r) \/ RedeemBurn(r)
    PROVE  Inv'
<1>0. req[r] \in Request /\ Local(req[r]) /\ TypeOK /\ RowsOK
  BY DEF Inv, TypeOK, LocalsOK
<1>1. CASE RedeemLock(r)
  <2>1. CASE Finish(r, "invalid_token")
    BY <1>1, <2>1, FinishKeepsInv DEF RedeemLock, Outcome
  <2> DEFINE q == [req[r] EXCEPT !.pc = "redeem_subscription",
                                 !.sub = session[req[r].tok].sub]
  <2>2. CASE session[req[r].tok].status = "live" /\ Become(r, q)
    <3>1. req[r].tok \in Tokens
      BY <1>0, <1>1 DEF RedeemLock, At, Local
    <3>2. session[req[r].tok].sub \in Subs
      BY <1>0, <2>2, <3>1 DEF RowsOK
    <3>3. "redeem_subscription" \in RequestPC
      BY DEF RequestPC
    <3>4. q \in Request
      BY <1>0, <3>2, <3>3 DEF Request
    <3>5. Local(q)
      BY <1>0, <1>1 DEF RedeemLock, At, Request, Local
    <3> QED
      BY <1>1, <2>2, <3>4, <3>5, ReadKeepsInv DEF RedeemLock
  <2> QED
    BY <1>1, <2>1, <2>2 DEF RedeemLock
<1>2. CASE RedeemSubscription(r)
  <2>1. Local([req[r] EXCEPT !.pc = "redeem_existing"])
    BY <1>0, <1>2 DEF RedeemSubscription, At, Request, Local
  <2> QED
    BY <1>2, <2>1, GotoKeepsInv, FinishKeepsInv DEF RedeemSubscription, RequestPC, Outcome
<1>3. CASE RedeemExisting(r)
  <2>1. CASE Goto(r, "redeem_insert")
    <3>1. Local([req[r] EXCEPT !.pc = "redeem_insert"])
      BY <1>0, <1>3 DEF RedeemExisting, At, Request, Local
    <3> QED
      BY <1>3, <2>1, <3>1, GotoKeepsInv DEF RedeemExisting, RequestPC
  <2>2. ASSUME NEW a \in ActiveOn(req[r].sub),
               activation[a].dev = req[r].dev,
               Become(r, [req[r] EXCEPT !.pc = "redeem_burn", !.act = a])
        PROVE  Inv'
    <3>1. /\ a \in ActIds
          /\ activation[a].status = "active"
          /\ activation[a].sub = req[r].sub
      BY DEF ActiveOn
    <3>2. "redeem_burn" \in RequestPC
      BY DEF RequestPC
    <3>3. [req[r] EXCEPT !.pc = "redeem_burn", !.act = a] \in Request
      BY <1>0, <3>1, <3>2 DEF Request
    <3>4. Local([req[r] EXCEPT !.pc = "redeem_burn", !.act = a])
      BY <1>0, <1>3, <2>2, <3>1 DEF RedeemExisting, At, Request, Local
    <3> QED
      BY <1>3, <2>2, <3>3, <3>4, ReadKeepsInv DEF RedeemExisting
  <2> QED
    BY <1>3, <2>1, <2>2 DEF RedeemExisting
<1>4. CASE RedeemBurn(r)
  <2>0. [req[r] EXCEPT !.pc = "issue_lock"] \in Request
    BY <1>0 DEF Request, RequestPC
  <2>1. PICK q \in Request : q = [req[r] EXCEPT !.pc = "issue_lock"]
    BY <2>0
  <2>2. Become(r, q) /\ UNCHANGED <<subscription, activation, credential>>
    BY <1>4, <2>1 DEF RedeemBurn, Goto
  <2>3. session' = [session EXCEPT ![req[r].tok].status = "used"]
    BY <1>4 DEF RedeemBurn, BurnToken
  <2>4. RowsTyped'
    BY <1>0, <2>2, <2>3 DEF TypeOK, RowsTyped, Session
  <2>5. RowsKept
    BY <1>0, <2>2, <2>3 DEF TypeOK, RowsKept, Session
  <2>6. req[r].tok \in Tokens /\ session[req[r].tok].status # "absent"
    BY <1>0, <1>4 DEF RedeemBurn, At, Local
  <2>7. RowsOK'
    BY <1>0, <2>2, <2>3, <2>6 DEF TypeOK, RowsOK, Session
  <2>8. Local(q)
    BY <1>0, <1>4, <2>1 DEF Request, RedeemBurn, At, Local
  <2> QED
    BY <2>2, <2>4, <2>5, <2>7, <2>8, LocalKept, WriteKeepsInv
<1> QED
  BY <1>1, <1>2, <1>3, <1>4

\* The inserts of a redemption and of a direct activation.
LEMMA InsertKeepsInv ==
    ASSUME Inv, NEW r \in Req,
           RedeemInsert(r) \/ DirectInsert(r)
    PROVE  Inv'
<1>0. req[r] \in Request /\ Local(req[r]) /\ TypeOK /\ RowsOK
  BY DEF Inv, TypeOK, LocalsOK
<1>1. ASSUME NEW a \in ActIds, activation[a].status = "absent",
             NEW q \in Request, Local(q)', Become(r, q),
             req[r].sub \in Subs, req[r].dev \in Devices,
             activation' = [activation EXCEPT ![a] =
                               NewActivation(req[r].sub, req[r].dev)],
             UNCHANGED <<subscription, credential>>,
             \/ session' = session
             \/ /\ BurnToken(req[r].tok)
                /\ req[r].tok \in Tokens /\ session[req[r].tok].status # "absent"
      PROVE  Inv'
  <2>1. RowsTyped'
    BY <1>0, <1>1 DEF TypeOK, RowsTyped, BurnToken, NewActivation, Session, Activation
  <2>2. RowsKept
    BY <1>0, <1>1 DEF TypeOK, RowsKept, BurnToken, Session
  <2>3. RowsOK'
    <3>1. \A t \in Tokens : session'[t].status # "absent" => session'[t].sub \in Subs
      BY <1>0, <1>1 DEF TypeOK, RowsOK, BurnToken, Session
    <3>2. \A b \in ActIds : activation'[b].status # "absent" =>
              activation'[b].sub \in Subs /\ activation'[b].dev \in Devices
      BY <1>0, <1>1 DEF TypeOK, RowsOK, NewActivation
    <3>3. \A c \in Creds : credential'[c].status # "absent" =>
              /\ credential'[c].act \in ActIds
              /\ activation'[credential'[c].act].status # "absent"
      BY <1>0, <1>1 DEF TypeOK, RowsOK, NewActivation
    <3> QED
      BY <3>1, <3>2, <3>3 DEF RowsOK
  <2> QED
    BY <1>1, <2>1, <2>2, <2>3, WriteKeepsInv
<1>2. CASE RedeemInsert(r)
  <2>0. /\ req[r].sub \in Subs /\ req[r].dev \in Devices /\ req[r].tok \in Tokens
        /\ session[req[r].tok].status # "absent"
    BY <1>0, <1>2 DEF RedeemInsert, At, Local, RowsOK
  <2>1. ASSUME NEW a \in ActIds, activation[a].status = "absent",
               activation' = [activation EXCEPT ![a] =
                                 NewActivation(req[r].sub, req[r].dev)],
               Become(r, [req[r] EXCEPT !.pc = "issue_lock", !.act = a]),
               BurnToken(req[r].tok), UNCHANGED <<subscription, credential>>
        PROVE  Inv'
    <3>1. "issue_lock" \in RequestPC
      BY DEF RequestPC
    <3>2. [req[r] EXCEPT !.pc = "issue_lock", !.act = a] \in Request
      BY <1>0, <2>1, <3>1 DEF Request
    <3>3. PICK q \in Request : q = [req[r] EXCEPT !.pc = "issue_lock", !.act = a]
      BY <3>2
    <3>4. Local(q)'
      BY <1>0, <1>2, <2>1, <3>3 DEF TypeOK, Request, RedeemInsert, At, Local, NewActivation
    <3> QED
      BY <1>1, <2>0, <2>1, <3>3, <3>4
  <2>2. CASE Finish(r, "device_limit") /\ UNCHANGED <<subscription, rows>>
    BY <2>2, FinishKeepsInv DEF Outcome
  <2> QED
    BY <1>2, <2>1, <2>2 DEF RedeemInsert
<1>3. CASE DirectInsert(r)
  <2>0. req[r].sub \in Subs /\ req[r].dev \in Devices
    BY <1>0, <1>3 DEF DirectInsert, At, Local
  <2>1. ASSUME NEW a \in ActIds, activation[a].status = "absent",
               activation' = [activation EXCEPT ![a] =
                                 NewActivation(req[r].sub, req[r].dev)],
               Finish(r, "ok"), UNCHANGED <<subscription, session, credential>>
        PROVE  Inv'
    <3>1. PICK q \in Request :
              q = [req[r] EXCEPT !.pc = "done", !.out = "ok"] /\ Local(q)
      BY <1>0, FinishedIsLocal DEF Outcome
    <3>2. RowsKept
      BY <1>0, <2>1 DEF TypeOK, RowsKept
    <3> QED
      BY <1>1, <2>0, <2>1, <3>1, <3>2, LocalKept DEF Finish
  <2>2. CASE Finish(r, "device_limit") /\ UNCHANGED <<subscription, rows>>
    BY <2>2, FinishKeepsInv DEF Outcome
  <2> QED
    BY <1>3, <2>1, <2>2 DEF DirectInsert, rows
<1> QED
  BY <1>2, <1>3

\* The issue of a credential.
LEMMA IssueKeepsInv ==
    ASSUME Inv, NEW r \in Req,
           IssueLock(r) \/ IssueSubscription(r) \/ IssueRotate(r) \/ IssuePurge(r)
    PROVE  Inv'
<1>0. req[r] \in Request /\ Local(req[r]) /\ TypeOK /\ RowsOK
  BY DEF Inv, TypeOK, LocalsOK
<1>1. CASE IssueLock(r)
  <2>1. Local([req[r] EXCEPT !.pc = "issue_subscription"])
    BY <1>0, <1>1 DEF IssueLock, At, Request, Local
  <2> QED
    BY <1>1, <2>1, GotoKeepsInv, FinishKeepsInv DEF IssueLock, RequestPC, Outcome
<1>2. CASE IssueSubscription(r)
  <2>1. Local([req[r] EXCEPT !.pc = "issue_rotate"])
    BY <1>0, <1>2 DEF IssueSubscription, At, Request, Local
  <2> QED
    BY <1>2, <2>1, GotoKeepsInv, FinishKeepsInv DEF IssueSubscription, RequestPC, Outcome
<1>3. CASE IssueRotate(r)
  <2>0. req[r].act \in ActIds /\ activation[req[r].act].status # "absent"
    BY <1>0, <1>3 DEF IssueRotate, At, Local
  <2>1. PICK c \in Creds :
            /\ credential[c].status = "absent"
            /\ credential' = [RevokeCreds(ActiveCredsOf(req[r].act)) EXCEPT ![c] =
                                 [status |-> "active", act |-> req[r].act]]
            /\ Become(r, [req[r] EXCEPT !.pc = "issue_purge", !.cred = c])
    BY <1>3 DEF IssueRotate
  <2>2. UNCHANGED <<subscription, session, activation>>
    BY <1>3 DEF IssueRotate
  <2>3. "issue_purge" \in RequestPC
    BY DEF RequestPC
  <2>4. [req[r] EXCEPT !.pc = "issue_purge", !.cred = c] \in Request
    BY <1>0, <2>3 DEF Request
  <2>5. PICK q \in Request : q = [req[r] EXCEPT !.pc = "issue_purge", !.cred = c]
    BY <2>4
  <2>6. RevokeCreds(ActiveCredsOf(req[r].act)) \in [Creds -> Credential]
    BY <1>0, RevokeCredsTyped DEF TypeOK
  <2>7. RowsTyped'
    BY <1>0, <2>0, <2>1, <2>2, <2>6 DEF TypeOK, RowsTyped, Credential
  <2>8. \A d \in Creds \ {c} :
            /\ credential'[d].act = credential[d].act
            /\ credential'[d].status # "absent" <=> credential[d].status # "absent"
    BY <1>0, <2>1, <2>6 DEF TypeOK, RevokeCreds, ActiveCredsOf, Credential
  <2>9. credential'[c] = [status |-> "active", act |-> req[r].act]
    BY <2>1, <2>6
  <2>10. RowsKept
    BY <2>1, <2>2, <2>8 DEF RowsKept
  <2>11. RowsOK'
    BY <1>0, <2>0, <2>2, <2>8, <2>9 DEF RowsOK
  <2>12. Local(q)'
    <3>1. /\ q.pc = "issue_purge" /\ q.cred = c /\ q.out = req[r].out
      BY <1>0, <2>5 DEF Request
    <3>2. req[r].out = "none"
      BY <1>0, <1>3 DEF IssueRotate, At, Local
    <3> QED
      BY <2>1, <2>9, <3>1, <3>2 DEF Local
  <2> QED
    BY <2>1, <2>5, <2>7, <2>10, <2>11, <2>12, WriteKeepsInv
<1>4. CASE IssuePurge(r)
  <2>1. PICK q \in Request :
            q = [req[r] EXCEPT !.pc = "done", !.out = "ok"] /\ Local(q)
    BY <1>0, FinishedIsLocal DEF Outcome
  <2>2. PICK old \in SUBSET {c \in Creds : credential[c].status = "revoked"} :
            credential' = [c \in Creds |-> IF c \in old
                                             THEN [credential[c] EXCEPT !.status = "purged"]
                                             ELSE credential[c]]
    BY <1>4 DEF IssuePurge
  <2>3. Become(r, q) /\ UNCHANGED <<subscription, session, activation>>
    BY <1>4, <2>1 DEF IssuePurge, Finish
  <2>4. RowsTyped'
    BY <1>0, <2>2, <2>3 DEF TypeOK, RowsTyped, Credential
  <2>5. RowsKept
    BY <1>0, <2>2, <2>3 DEF TypeOK, RowsKept, Credential
  <2>6. RowsOK'
    BY <1>0, <2>2, <2>3 DEF TypeOK, RowsOK, Credential
  <2> QED
    BY <2>1, <2>3, <2>4, <2>5, <2>6, LocalKept, WriteKeepsInv
<1> QED
  BY <1>1, <1>2, <1>3, <1>4

\* The reads of a direct activation.
LEMMA DirectKeepsInv ==
    ASSUME Inv, NEW r \in Req,
           DirectSubscription(r) \/ DirectRead(r)
    PROVE  Inv'
<1>0. req[r] \in Request /\ Local(req[r]) /\ TypeOK /\ RowsOK
  BY DEF Inv, TypeOK, LocalsOK
<1>1. CASE DirectSubscription(r)
  <2>1. Local([req[r] EXCEPT !.pc = "direct_read"])
    BY <1>0, <1>1 DEF DirectSubscription, At, Request, Local
  <2> QED
    BY <1>1, <2>1, GotoKeepsInv, FinishKeepsInv DEF DirectSubscription, RequestPC, Outcome
<1>2. CASE DirectRead(r)
  <2>1. Local([req[r] EXCEPT !.pc = "direct_insert"])
    BY <1>0, <1>2 DEF DirectRead, At, Request, Local
  <2> QED
    BY <1>2, <2>1, GotoKeepsInv, FinishKeepsInv DEF DirectRead, RequestPC, Outcome
<1> QED
  BY <1>1, <1>2

\* The replacement, up to its commit.
LEMMA ReplaceKeepsInv ==
    ASSUME Inv, NEW r \in Req,
           \/ ReplaceCheck(r) \/ ReplaceLock(r) \/ ReplaceRead(r)
           \/ ReplaceTouch(r) \/ ReplaceRevoke(r)
    PROVE  Inv'
<1>0. req[r] \in Request /\ Local(req[r]) /\ TypeOK /\ RowsOK
  BY DEF Inv, TypeOK, LocalsOK
<1>1. CASE ReplaceCheck(r)
  <2>1. Local([req[r] EXCEPT !.pc = "replace_lock"])
    BY <1>0, <1>1 DEF ReplaceCheck, At, Request, Local
  <2> QED
    BY <1>1, <2>1, GotoKeepsInv, FinishKeepsInv DEF ReplaceCheck, RequestPC, Outcome
<1>2. CASE ReplaceLock(r)
  <2>1. Local([req[r] EXCEPT !.pc = "replace_read"])
    BY <1>0, <1>2 DEF ReplaceLock, At, Request, Local
  <2> QED
    BY <1>2, <2>1, GotoKeepsInv, FinishKeepsInv DEF ReplaceLock, RequestPC, Outcome
<1>3. CASE ReplaceRead(r)
  <2>1. CASE Goto(r, "replace_commit")
    <3>1. Local([req[r] EXCEPT !.pc = "replace_commit"])
      BY <1>0, <1>3 DEF ReplaceRead, At, Request, Local
    <3> QED
      BY <1>3, <2>1, <3>1, GotoKeepsInv DEF ReplaceRead, RequestPC
  <2>2. ASSUME NEW a \in ActiveOn(req[r].sub), NEW pc \in {"replace_touch", "replace_revoke"},
               pc = "replace_revoke" => activation[a].dev # req[r].dev,
               Become(r, [req[r] EXCEPT !.act = a, !.pc = pc])
        PROVE  Inv'
    <3>1. /\ a \in ActIds /\ a # None
          /\ activation[a].status = "active"
          /\ activation[a].sub = req[r].sub
      BY NoneIsFresh DEF ActiveOn
    <3>2. pc \in RequestPC
      BY DEF RequestPC
    <3>3. [req[r] EXCEPT !.act = a, !.pc = pc] \in Request
      BY <1>0, <3>1, <3>2 DEF Request
    <3>4. Local([req[r] EXCEPT !.act = a, !.pc = pc])
      BY <1>0, <1>3, <2>2, <3>1 DEF ReplaceRead, At, Request, Local
    <3> QED
      BY <1>3, <2>2, <3>3, <3>4, ReadKeepsInv DEF ReplaceRead
  <2> QED
    BY <1>3, <2>1, <2>2 DEF ReplaceRead
<1>4. CASE ReplaceTouch(r)
  BY <1>4, FinishKeepsInv DEF ReplaceTouch, Outcome
<1>5. CASE ReplaceRevoke(r)
  <2>1. Local([req[r] EXCEPT !.pc = "replace_commit"])
    BY <1>0, <1>5 DEF ReplaceRevoke, At, Request, Local
  <2> QED
    BY <1>5, <2>1, GotoKeepsInv, FinishKeepsInv DEF ReplaceRevoke, RequestPC, Outcome
<1> QED
  BY <1>1, <1>2, <1>3, <1>4, <1>5

\* Revoking an activation with its credentials keeps every row and its type.
LEMMA RevocationKeepsRows ==
    ASSUME RowsTyped, NEW as, NEW cs
    PROVE  /\ \A a \in ActIds : /\ Revoked(as)[a].sub = activation[a].sub
                                /\ Revoked(as)[a].dev = activation[a].dev
                                /\ a \notin as => Revoked(as)[a] = activation[a]
                                /\ a \in as => Revoked(as)[a].status = "revoked"
           /\ \A c \in Creds : /\ RevokeCreds(cs)[c].act = credential[c].act
                               /\ c \notin cs => RevokeCreds(cs)[c] = credential[c]
                               /\ c \in cs => RevokeCreds(cs)[c].status = "revoked"
BY DEF RowsTyped, Revoked, RevokeCreds, Activation, Credential

\* The revocation of a device.
LEMMA RevokeKeepsInv ==
    ASSUME Inv, NEW r \in Req,
           RevokeRead(r) \/ RevokeUpdate(r) \/ RevokeCascade(r)
    PROVE  Inv'
<1>0. req[r] \in Request /\ Local(req[r]) /\ TypeOK /\ RowsOK
  BY DEF Inv, TypeOK, LocalsOK
<1>1. CASE RevokeRead(r)
  <2>1. Local([req[r] EXCEPT !.pc = "revoke_update"])
    BY <1>0, <1>1 DEF RevokeRead, At, Request, Local
  <2> QED
    BY <1>1, <2>1, GotoKeepsInv, FinishKeepsInv DEF RevokeRead, RequestPC, Outcome
<1>2. CASE RevokeUpdate(r)
  <2>1. ASSUME activation[req[r].act].status = "active"
        PROVE  Local([req[r] EXCEPT !.pc = "revoke_cascade"])
    BY <1>0, <1>2, <2>1 DEF RevokeUpdate, At, Request, Local
  <2> QED
    BY <1>2, <2>1, GotoKeepsInv, FinishKeepsInv DEF RevokeUpdate, RequestPC, Outcome
<1>3. CASE RevokeCascade(r)
  <2> DEFINE a == req[r].act
             cs == ActiveCredsOf(a)
  <2>1. a \in ActIds /\ activation[a].status # "absent"
    BY <1>0, <1>3 DEF RevokeCascade, At, Local
  <2>2. PICK q \in Request :
            q = [req[r] EXCEPT !.pc = "done", !.out = "ok"] /\ Local(q)
    BY <1>0, FinishedIsLocal DEF Outcome
  <2>3. Become(r, q) /\ UNCHANGED <<subscription, session>>
    BY <1>3, <2>2 DEF RevokeCascade, Finish
  <2>4. activation' = Revoked({a}) /\ credential' = RevokeCreds(cs)
    BY <1>3 DEF RevokeCascade
  <2>5. RowsTyped
    BY <1>0 DEF TypeOK, RowsTyped
  <2>6. RowsTyped'
    BY <2>3, <2>4, <2>5, RevokedTyped, RevokeCredsTyped DEF RowsTyped
  <2>7. \A c \in Creds : credential[c].status = "absent" => c \notin cs
    BY DEF ActiveCredsOf
  <2>8. RowsKept
    BY <2>3, <2>4, <2>5, RevocationKeepsRows DEF RowsKept
  <2>9. RowsOK'
    BY <1>0, <2>1, <2>3, <2>4, <2>5, <2>7, RevocationKeepsRows DEF RowsOK
  <2> QED
    BY <2>2, <2>3, <2>6, <2>8, <2>9, LocalKept, WriteKeepsInv
<1> QED
  BY <1>1, <1>2, <1>3

\* The commit of a replacement.
LEMMA ReplaceCommitKeepsInv ==
    ASSUME Inv, NEW r \in Req,
           ReplaceCommit(r)
    PROVE  Inv'
<1>0. req[r] \in Request /\ Local(req[r]) /\ TypeOK /\ RowsOK
  BY DEF Inv, TypeOK, LocalsOK
<1> DEFINE s == req[r].sub
           d == req[r].dev
           old == {a \in ActIds : a = req[r].act}
           cs == UNION {ActiveCredsOf(a) : a \in old}
<1>1. s \in Subs /\ d \in Devices /\ (\A a \in old : activation[a].status # "absent")
  BY <1>0, NoneIsFresh DEF ReplaceCommit, At, Local
<1>2. ASSUME NEW n \in ActIds, activation[n].status = "absent",
             activation' = [Revoked(old) EXCEPT ![n] = NewActivation(s, d)],
             credential' = RevokeCreds(cs), Finish(r, "ok"),
             UNCHANGED <<subscription, session>>
      PROVE  Inv'
  <2>1. PICK q \in Request :
            q = [req[r] EXCEPT !.pc = "done", !.out = "ok"] /\ Local(q)
    BY <1>0, FinishedIsLocal DEF Outcome
  <2>2. Become(r, q)
    BY <1>2, <2>1 DEF Finish
  <2>3. RowsTyped
    BY <1>0 DEF TypeOK, RowsTyped
  <2>4. NewActivation(s, d) \in Activation
    BY <1>1, NewActivationTyped
  <2>5. /\ Revoked(old) \in [ActIds -> Activation]
        /\ RevokeCreds(cs) \in [Creds -> Credential]
    BY <2>3, RevokedTyped, RevokeCredsTyped DEF RowsTyped
  <2>6. RowsTyped'
    BY <1>2, <2>3, <2>4, <2>5 DEF RowsTyped
  <2>7. \A c \in Creds : credential[c].status = "absent" => c \notin cs
    BY DEF ActiveCredsOf
  <2> HIDE DEF old, cs
  <2>8. \A a \in ActIds \ {n} : /\ activation'[a].sub = activation[a].sub
                                /\ activation'[a].dev = activation[a].dev
                                /\ a \notin old => activation'[a] = activation[a]
                                /\ a \in old => activation'[a].status = "revoked"
    BY <1>2, <2>3, <2>5, RevocationKeepsRows
  <2>9. activation'[n] = NewActivation(s, d)
    BY <1>2, <2>5
  <2>10. RowsKept
    BY <1>1, <1>2, <2>3, <2>8, RevocationKeepsRows DEF RowsKept
  <2>11. RowsOK'
    <3>1. \A t \in Tokens : session'[t].status # "absent" => session'[t].sub \in Subs
      BY <1>0, <1>2 DEF RowsOK
    <3>2. \A a \in ActIds : activation'[a].status # "absent" =>
              activation'[a].sub \in Subs /\ activation'[a].dev \in Devices
      BY <1>0, <1>1, <2>8, <2>9 DEF RowsOK, NewActivation
    <3>3. \A c \in Creds : credential'[c].status # "absent" =>
              /\ credential'[c].act \in ActIds
              /\ activation'[credential'[c].act].status # "absent"
      BY <1>0, <1>2, <2>3, <2>7, <2>8, <2>9, RevocationKeepsRows DEF RowsOK, NewActivation
    <3> QED
      BY <3>1, <3>2, <3>3 DEF RowsOK
  <2> QED
    BY <2>1, <2>2, <2>6, <2>10, <2>11, LocalKept, WriteKeepsInv
<1>3. CASE Finish(r, "device_limit") /\ UNCHANGED <<subscription, rows>>
  BY <1>3, FinishKeepsInv DEF Outcome
<1> QED
  BY <1>2, <1>3 DEF ReplaceCommit

\* Authentication.
LEMMA AuthKeepsInv ==
    ASSUME Inv, NEW r \in Req,
           \/ AuthCred(r) \/ AuthAct(r) \/ AuthSub(r)
           \/ AuthTouchCred(r) \/ AuthTouchAct(r)
    PROVE  Inv'
<1>0. req[r] \in Request /\ Local(req[r]) /\ TypeOK /\ RowsOK
  BY DEF Inv, TypeOK, LocalsOK
<1>1. ASSUME Refuse(r), req[r].mode # "none", req[r].out = "none",
             UNCHANGED <<subscription, rows>>
      PROVE  Inv'
  <2>1. CASE Finish(r, "denied401")
    BY <1>1, <2>1, FinishKeepsInv DEF Outcome
  <2> DEFINE q == [req[r] EXCEPT !.pc = "auth_cred", !.mode = "classify"]
  <2>2. CASE Become(r, q)
    <3>1. "auth_cred" \in RequestPC
      BY DEF RequestPC
    <3>2. q \in Request
      BY <1>0, <3>1 DEF Request
    <3>3. Local(q)
      BY <1>0, <1>1 DEF Request, Local
    <3> QED
      BY <1>1, <2>2, <3>2, <3>3, ReadKeepsInv
  <2> QED
    BY <1>1, <2>1, <2>2 DEF Refuse
<1>2. CASE AuthCred(r)
  <2>0. /\ req[r].mode # "none" /\ req[r].out = "none" /\ req[r].cred \in Creds
        /\ credential[req[r].cred].status # "absent"
    BY <1>0, <1>2 DEF AuthCred, At, Local
  <2> DEFINE q == [req[r] EXCEPT !.pc = "auth_act", !.act = credential[req[r].cred].act]
  <2>1. CASE Become(r, q)
    <3>1. "auth_act" \in RequestPC
      BY DEF RequestPC
    <3>2. credential[req[r].cred].act \in ActIds
      BY <1>0, <2>0 DEF RowsOK
    <3>3. q \in Request
      BY <1>0, <3>1, <3>2 DEF Request
    <3>4. Local(q)
      BY <1>0, <2>0, <3>2 DEF Request, Local
    <3> QED
      BY <1>2, <2>1, <3>3, <3>4, ReadKeepsInv DEF AuthCred
  <2>2. CASE Refuse(r)
    BY <1>1, <1>2, <2>0, <2>2 DEF AuthCred
  <2> QED
    BY <1>2, <2>1, <2>2 DEF AuthCred
<1>3. CASE AuthAct(r)
  <2>0. /\ req[r].mode # "none" /\ req[r].out = "none" /\ req[r].cred \in Creds
        /\ req[r].act = credential[req[r].cred].act
        /\ credential[req[r].cred].status # "absent"
    BY <1>0, <1>3 DEF AuthAct, At, Local
  <2>1. req[r].act \in ActIds /\ activation[req[r].act].sub \in Subs
    BY <1>0, <2>0 DEF RowsOK
  <2> DEFINE q == [req[r] EXCEPT !.pc = "auth_sub", !.sub = activation[req[r].act].sub]
  <2>2. CASE Become(r, q)
    <3>1. "auth_sub" \in RequestPC
      BY DEF RequestPC
    <3>2. q \in Request
      BY <1>0, <2>1, <3>1 DEF Request
    <3>3. Local(q)
      BY <1>0, <2>0 DEF Request, Local
    <3> QED
      BY <1>3, <2>2, <3>2, <3>3, ReadKeepsInv DEF AuthAct
  <2>3. CASE Refuse(r)
    BY <1>1, <1>3, <2>0, <2>3 DEF AuthAct
  <2> QED
    BY <1>3, <2>2, <2>3 DEF AuthAct
<1>4. CASE AuthSub(r)
  <2>1. req[r].mode # "none" /\ req[r].out = "none"
    BY <1>0, <1>4 DEF AuthSub, At, Local
  <2>2. Local([req[r] EXCEPT !.pc = "auth_touch_cred"])
    BY <1>0, <1>4 DEF AuthSub, At, Request, Local
  <2> QED
    BY <1>1, <1>4, <2>1, <2>2, GotoKeepsInv DEF AuthSub, RequestPC
<1>5. CASE AuthTouchCred(r)
  <2>1. Local([req[r] EXCEPT !.pc = "auth_touch_act"])
    BY <1>0, <1>5 DEF AuthTouchCred, At, Request, Local
  <2> QED
    BY <1>5, <2>1, GotoKeepsInv DEF AuthTouchCred, RequestPC
<1>6. CASE AuthTouchAct(r)
  BY <1>6, FinishKeepsInv DEF AuthTouchAct, Outcome
<1> QED
  BY <1>2, <1>3, <1>4, <1>5, <1>6

\* The ends of a request.
LEMMA EndKeepsInv ==
    ASSUME Inv, NEW r \in Req,
           Reply(r) \/ Abort(r) \/ DeadlockVictim(r) \/ OutOfRows(r)
    PROVE  Inv'
<1>0. req[r] \in Request /\ Local(req[r]) /\ TypeOK /\ RowsOK
  BY DEF Inv, TypeOK, LocalsOK
<1>1. CASE Reply(r)
  <2>1. Local(IdleRequest)
    BY DEF Local, IdleRequest
  <2> QED
    BY <1>1, <2>1, IdleTyped, ReadKeepsInv DEF Reply
<1>2. CASE Abort(r) \/ DeadlockVictim(r) \/ OutOfRows(r)
  BY <1>2, FinishKeepsInv DEF Abort, DeadlockVictim, OutOfRows, Outcome
<1> QED
  BY <1>1, <1>2

\* The clock and the service operator.
LEMMA EnvironmentKeepsInv ==
    ASSUME Inv, Environment
    PROVE  Inv'
<1>0. TypeOK /\ RowsOK /\ RowsTyped
  BY DEF Inv, TypeOK, RowsTyped
<1>1. UNCHANGED <<activation, credential, req>>
  BY DEF Environment, TokenExpires, SubscriptionClock, SubscriptionUpdated, rows
<1>2. /\ session' \in [Tokens -> Session]
      /\ \A t \in Tokens : session'[t].sub = session[t].sub
      /\ \A t \in Tokens : session[t].status # "absent" <=> session'[t].status # "absent"
  BY <1>0 DEF Environment, TokenExpires, SubscriptionClock, SubscriptionUpdated, rows,
              RowsTyped, Session
<1>3. subscription' \in [Subs -> SubscriptionState]
  BY <1>0 DEF Environment, TokenExpires, SubscriptionClock, SubscriptionUpdated, rows,
              RowsTyped, SubscriptionState
<1>4. TypeOK'
  BY <1>0, <1>1, <1>2, <1>3 DEF TypeOK
<1>5. RowsKept
  BY <1>1, <1>2 DEF RowsKept
<1>6. RowsOK'
  BY <1>0, <1>1, <1>2 DEF RowsOK
<1>7. LocalsOK'
  <2> SUFFICES ASSUME NEW p \in Req PROVE Local(req[p])'
    BY DEF LocalsOK
  <2>1. req'[p] = req[p] /\ req[p] \in Request /\ Local(req[p])
    BY <1>0, <1>1 DEF TypeOK, Inv, LocalsOK
  <2> QED
    BY <1>5, <2>1, LocalKept
<1> QED
  BY <1>4, <1>6, <1>7 DEF Inv

\* Any step of a request.
Act(r) == Begin(r) \/ Step(r) \/ Abort(r) \/ DeadlockVictim(r)

\* Whatever a request does keeps the invariant.
LEMMA ActKeepsInv ==
    ASSUME Inv, NEW r \in Req, Act(r)
    PROVE  Inv'
<1>1. CASE Step(r)
  BY <1>1, SessionKeepsInv, RedeemKeepsInv, InsertKeepsInv, IssueKeepsInv, DirectKeepsInv,
     ReplaceKeepsInv, ReplaceCommitKeepsInv, RevokeKeepsInv, AuthKeepsInv, EndKeepsInv
     DEF Step
<1> QED
  BY <1>1, BeginKeepsInv, EndKeepsInv DEF Act

\* The invariant is inductive.
LEMMA NextKeepsInv == Inv /\ [Next]_vars => Inv'
<1> SUFFICES ASSUME Inv, [Next]_vars PROVE Inv'
  OBVIOUS
<1>1. CASE UNCHANGED vars
  BY <1>1 DEF vars, Inv, TypeOK, RowsOK, LocalsOK, Local
<1> QED
  BY <1>1, ActKeepsInv, EnvironmentKeepsInv DEF Next, Act

\* The rows are typed and keep their links, and each request's locals point at
\* rows that exist, in every interleaving of the handlers.
THEOREM InvHolds == Spec => []Inv
BY InitInv, NextKeepsInv, PTL DEF Spec

\* Every variable keeps its type: no statement reads a row through a null id.
THEOREM TypeCorrect == Spec => []TypeOK
<1>1. Inv => TypeOK
  BY DEF Inv
<1> QED
  BY <1>1, InvHolds, PTL

-----------------------------------------------------------------------------
(* Frames.                                                                  *)

\* A step of r leaves every other request alone.
LEMMA OthersWait ==
    ASSUME NEW r \in Req, Act(r), TypeOK
    PROVE  \A q \in Req \ {r} : req'[q] = req[q]
<1> SUFFICES \E v : Become(r, v)
  BY DEF Become, TypeOK
<1>1. CASE Begin(r)
  BY <1>1 DEF Begin, StartSession, StartActivate, StartDirect, StartReplace,
              StartRevoke, StartAuth, Start
<1>2. CASE Abort(r) \/ DeadlockVictim(r) \/ OutOfRows(r) \/ Reply(r)
  BY <1>2 DEF Abort, DeadlockVictim, OutOfRows, Reply, Finish
<1>3. CASE SessionCheck(r) \/ SessionInsert(r) \/ SessionPurge(r)
  BY <1>3 DEF SessionCheck, SessionInsert, SessionPurge, Goto, Finish
<1>4. CASE RedeemLock(r) \/ RedeemSubscription(r) \/ RedeemExisting(r)
           \/ RedeemBurn(r) \/ RedeemInsert(r)
  BY <1>4 DEF RedeemLock, RedeemSubscription, RedeemExisting, RedeemBurn,
              RedeemInsert, Goto, Finish
<1>5. CASE IssueLock(r) \/ IssueSubscription(r) \/ IssueRotate(r) \/ IssuePurge(r)
  BY <1>5 DEF IssueLock, IssueSubscription, IssueRotate, IssuePurge, Goto, Finish
<1>6. CASE DirectSubscription(r) \/ DirectRead(r) \/ DirectInsert(r)
  BY <1>6 DEF DirectSubscription, DirectRead, DirectInsert, Goto, Finish
<1>7. CASE ReplaceCheck(r) \/ ReplaceLock(r) \/ ReplaceRead(r) \/ ReplaceTouch(r)
           \/ ReplaceRevoke(r) \/ ReplaceCommit(r)
  BY <1>7 DEF ReplaceCheck, ReplaceLock, ReplaceRead, ReplaceTouch, ReplaceRevoke,
              ReplaceCommit, Goto, Finish
<1>8. CASE RevokeRead(r) \/ RevokeUpdate(r) \/ RevokeCascade(r)
  BY <1>8 DEF RevokeRead, RevokeUpdate, RevokeCascade, Goto, Finish
<1>9. CASE AuthCred(r) \/ AuthAct(r) \/ AuthSub(r) \/ AuthTouchCred(r) \/ AuthTouchAct(r)
  BY <1>9 DEF AuthCred, AuthAct, AuthSub, AuthTouchCred, AuthTouchAct, Refuse, Goto, Finish
<1> QED
  BY <1>1, <1>2, <1>3, <1>4, <1>5, <1>6, <1>7, <1>8, <1>9 DEF Act, Step

\* The one statement, or two, that lead to each statement past a row lock.
LEMMA NextPC ==
    ASSUME Inv, NEW r \in Req, Act(r)
    PROVE  /\ req'[r].pc = "redeem_subscription" => RedeemLock(r)
           /\ req'[r].pc = "redeem_existing" => RedeemSubscription(r)
           /\ req'[r].pc \in {"redeem_burn", "redeem_insert"} => RedeemExisting(r)
           /\ req'[r].pc = "issue_lock" => RedeemBurn(r) \/ RedeemInsert(r)
           /\ req'[r].pc = "issue_subscription" => IssueLock(r)
           /\ req'[r].pc = "issue_rotate" => IssueSubscription(r)
           /\ req'[r].pc = "issue_purge" => IssueRotate(r)
           /\ req'[r].pc = "replace_read" => ReplaceLock(r)
           /\ req'[r].pc = "replace_touch" => ReplaceRead(r)
           /\ req'[r].pc \in {"replace_revoke", "replace_commit"} =>
                ReplaceRead(r) \/ ReplaceRevoke(r)
           /\ req'[r].pc = "revoke_cascade" => RevokeUpdate(r)
<1> USE DEF At
<1>0. req \in [Req -> Request] /\ req[r] \in Request
  BY DEF Inv, TypeOK
<1>a. ASSUME NEW q, Become(r, q) PROVE req'[r] = q
  BY <1>0, <1>a DEF Become
<1>b. ASSUME NEW out, Finish(r, out) PROVE req'[r].pc = "done"
  BY <1>0, <1>a, <1>b DEF Finish, Request
<1>c. ASSUME NEW pc, Goto(r, pc) PROVE req'[r].pc = pc
  BY <1>0, <1>a, <1>c DEF Goto, Request
<1>1. CASE Begin(r)
  <2>1. req'[r].pc \in {"session_check", "redeem_lock", "direct_subscription",
                        "replace_check", "revoke_read", "auth_cred"}
    BY <1>a, <1>1 DEF Begin, StartSession, StartActivate, StartDirect, StartReplace,
                      StartRevoke, StartAuth, Start, IdleRequest
  <2> QED
    BY <2>1
<1>2. CASE Abort(r) \/ DeadlockVictim(r) \/ OutOfRows(r) \/ Reply(r)
  BY <1>a, <1>b, <1>2 DEF Abort, DeadlockVictim, OutOfRows, Reply, IdleRequest
<1>3. CASE SessionCheck(r) \/ SessionInsert(r) \/ SessionPurge(r)
  BY <1>b, <1>c, <1>3 DEF SessionCheck, SessionInsert, SessionPurge
<1>4. CASE RedeemLock(r)
  <2>1. req'[r].pc \in {"redeem_subscription", "done"}
    BY <1>0, <1>a, <1>b, <1>4 DEF RedeemLock, Request
  <2> QED
    BY <1>4, <2>1
<1>5. CASE RedeemSubscription(r)
  BY <1>b, <1>c, <1>5 DEF RedeemSubscription
<1>6. CASE RedeemExisting(r)
  <2>1. ASSUME NEW a, Become(r, [req[r] EXCEPT !.pc = "redeem_burn", !.act = a])
        PROVE  req'[r].pc = "redeem_burn"
    BY <1>0, <1>a, <2>1 DEF Request
  <2>2. req'[r].pc \in {"redeem_burn", "redeem_insert"}
    BY <1>c, <1>6, <2>1 DEF RedeemExisting
  <2> QED
    BY <1>6, <2>2
<1>7. CASE RedeemBurn(r) \/ RedeemInsert(r)
  <2>1. ASSUME NEW a, Become(r, [req[r] EXCEPT !.pc = "issue_lock", !.act = a])
        PROVE  req'[r].pc = "issue_lock"
    BY <1>0, <1>a, <2>1 DEF Request
  <2>2. req'[r].pc \in {"issue_lock", "done"}
    BY <1>b, <1>c, <1>7, <2>1 DEF RedeemBurn, RedeemInsert
  <2> QED
    BY <1>7, <2>2
<1>8. CASE IssueLock(r) \/ IssueSubscription(r)
  BY <1>b, <1>c, <1>8 DEF IssueLock, IssueSubscription
<1>9. CASE IssueRotate(r) \/ IssuePurge(r)
  <2>1. ASSUME NEW c, Become(r, [req[r] EXCEPT !.pc = "issue_purge", !.cred = c])
        PROVE  req'[r].pc = "issue_purge"
    BY <1>0, <1>a, <2>1 DEF Request
  <2> QED
    BY <1>b, <1>9, <2>1 DEF IssueRotate, IssuePurge
<1>10. CASE DirectSubscription(r) \/ DirectRead(r) \/ DirectInsert(r)
  BY <1>b, <1>c, <1>10 DEF DirectSubscription, DirectRead, DirectInsert
<1>11. CASE ReplaceCheck(r) \/ ReplaceLock(r)
  BY <1>b, <1>c, <1>11 DEF ReplaceCheck, ReplaceLock
<1>12. CASE ReplaceRead(r)
  <2>1. ASSUME NEW a, NEW pc, Become(r, [req[r] EXCEPT !.act = a, !.pc = pc])
        PROVE  req'[r].pc = pc
    BY <1>0, <1>a, <2>1 DEF Request
  <2>2. req'[r].pc \in {"replace_commit", "replace_touch", "replace_revoke"}
    BY <1>c, <1>12, <2>1 DEF ReplaceRead
  <2> QED
    BY <1>12, <2>2
<1>13. CASE ReplaceTouch(r) \/ ReplaceRevoke(r) \/ ReplaceCommit(r)
  BY <1>b, <1>c, <1>13 DEF ReplaceTouch, ReplaceRevoke, ReplaceCommit
<1>14. CASE RevokeRead(r) \/ RevokeUpdate(r) \/ RevokeCascade(r)
  BY <1>b, <1>c, <1>14 DEF RevokeRead, RevokeUpdate, RevokeCascade
<1>15. CASE AuthCred(r) \/ AuthAct(r) \/ AuthSub(r) \/ AuthTouchCred(r) \/ AuthTouchAct(r)
  <2>1. ASSUME Refuse(r) PROVE req'[r].pc \in {"auth_cred", "done"}
    BY <1>0, <1>a, <1>b, <2>1 DEF Refuse, Request
  <2>2. ASSUME NEW a, Become(r, [req[r] EXCEPT !.pc = "auth_act", !.act = a])
        PROVE  req'[r].pc = "auth_act"
    BY <1>0, <1>a, <2>2 DEF Request
  <2>3. ASSUME NEW s, Become(r, [req[r] EXCEPT !.pc = "auth_sub", !.sub = s])
        PROVE  req'[r].pc = "auth_sub"
    BY <1>0, <1>a, <2>3 DEF Request
  <2>4. req'[r].pc \in {"auth_cred", "auth_act", "auth_sub", "auth_touch_cred",
                        "auth_touch_act", "done"}
    BY <1>b, <1>c, <1>15, <2>1, <2>2, <2>3
       DEF AuthCred, AuthAct, AuthSub, AuthTouchCred, AuthTouchAct
  <2> QED
    BY <2>4
<1> QED
  BY <1>1, <1>2, <1>3, <1>4, <1>5, <1>6, <1>7, <1>8, <1>9, <1>10, <1>11, <1>12, <1>13,
     <1>14, <1>15 DEF Act, Step

\* A request comes to hold a row only when nobody else holds it.
LEMMA LocksTaken ==
    ASSUME Inv, NEW r \in Req, Act(r)
    PROVE  /\ \A a \in ActIds :
                LocksActivation(r, a)' => LocksActivation(r, a) \/ ActivationFree(r, a)
           /\ \A s \in Subs :
                LocksSubscription(r, s)' => LocksSubscription(r, s) \/ SubscriptionFree(r, s)
           /\ \A t \in Tokens :
                LocksSession(r, t)' => LocksSession(r, t) \/ SessionFree(r, t)
<1> USE DEF LocksActivation, LocksSubscription, LocksSession, At
<1>0. req \in [Req -> Request] /\ req[r] \in Request /\ Local(req[r])
  BY DEF Inv, TypeOK, LocalsOK
<1>a. ASSUME NEW q, Become(r, q) PROVE req'[r] = q
  BY <1>0, <1>a DEF Become
<1>c. ASSUME NEW pc, Goto(r, pc)
      PROVE  /\ req'[r].tok = req[r].tok /\ req'[r].sub = req[r].sub
             /\ req'[r].act = req[r].act
  BY <1>0, <1>a, <1>c DEF Goto, Request
<1>d. ASSUME NEW out, Finish(r, out) PROVE req'[r].pc = "done"
  BY <1>0, <1>a, <1>d DEF Finish, Request
<1>1. ASSUME NEW a \in ActIds, LocksActivation(r, a)'
      PROVE  LocksActivation(r, a) \/ ActivationFree(r, a)
  <2>1. CASE IssueLock(r) \/ IssueSubscription(r) \/ ReplaceRevoke(r) \/ RevokeUpdate(r)
    BY <1>c, <1>d, <1>1, <2>1 DEF IssueLock, IssueSubscription, ReplaceRevoke, RevokeUpdate
  <2>2. CASE ReplaceRead(r)
    <3>1. req[r].act = None /\ req[r].pc = "replace_read"
      BY <1>0, <2>2 DEF ReplaceRead, Local
    <3>2. ASSUME NEW b, NEW pc \in {"replace_touch", "replace_revoke"},
                 Become(r, [req[r] EXCEPT !.act = b, !.pc = pc])
          PROVE  FALSE
      <4>1. req'[r].pc \in {"replace_touch", "replace_revoke"}
        BY <1>0, <1>a, <3>2 DEF Request
      <4> QED
        BY <1>1, <4>1
    <3>3. CASE Goto(r, "replace_commit")
      BY <1>1, <1>c, <3>1, <3>3, NoneIsFresh
    <3> QED
      BY <2>2, <3>2, <3>3 DEF ReplaceRead
  <2> QED
    BY <1>1, <2>1, <2>2, NextPC
<1>2. ASSUME NEW s \in Subs, LocksSubscription(r, s)'
      PROVE  LocksSubscription(r, s) \/ SubscriptionFree(r, s)
  <2>1. CASE ReplaceLock(r) \/ ReplaceRevoke(r)
    BY <1>c, <1>d, <1>2, <2>1 DEF ReplaceLock, ReplaceRevoke
  <2>2. CASE ReplaceRead(r)
    <3>1. ASSUME NEW b, NEW pc, Become(r, [req[r] EXCEPT !.act = b, !.pc = pc])
          PROVE  req'[r].sub = req[r].sub
      BY <1>0, <1>a, <3>1 DEF Request
    <3> QED
      BY <1>2, <1>c, <2>2, <3>1 DEF ReplaceRead
  <2> QED
    BY <1>2, <2>1, <2>2, NextPC
<1>3. ASSUME NEW t \in Tokens, LocksSession(r, t)'
      PROVE  LocksSession(r, t) \/ SessionFree(r, t)
  <2>1. CASE RedeemLock(r)
    <3>1. ASSUME NEW s, Become(r, [req[r] EXCEPT !.pc = "redeem_subscription", !.sub = s])
          PROVE  req'[r].tok = req[r].tok
      BY <1>0, <1>a, <3>1 DEF Request
    <3> QED
      BY <1>3, <1>d, <2>1, <3>1 DEF RedeemLock
  <2>2. CASE RedeemSubscription(r)
    BY <1>3, <1>c, <1>d, <2>2 DEF RedeemSubscription
  <2>3. CASE RedeemExisting(r)
    <3>1. ASSUME NEW b, Become(r, [req[r] EXCEPT !.pc = "redeem_burn", !.act = b])
          PROVE  req'[r].tok = req[r].tok
      BY <1>0, <1>a, <3>1 DEF Request
    <3> QED
      BY <1>3, <1>c, <2>3, <3>1 DEF RedeemExisting
  <2> QED
    BY <1>3, <2>1, <2>2, <2>3, NextPC
<1> QED
  BY <1>1, <1>2, <1>3

-----------------------------------------------------------------------------
(* The writes, by kind.                                                     *)

\* r inserts an activation of subscription s.
Inserts(r, s) ==
    /\ req[r].pc \in {"redeem_insert", "direct_insert"}
    /\ s = req[r].sub
    /\ MayInsertActivation(r, s)
    /\ ActiveOn(s) = {}
    /\ \E a \in ActIds : /\ activation[a].status = "absent"
                         /\ activation' = [activation EXCEPT ![a] =
                                              NewActivation(s, req[r].dev)]
    /\ credential' = credential

\* r revokes the activations as and their credentials.
Revokes(r, as) ==
    /\ \A a \in as : LocksActivation(r, a)
    /\ credential' = RevokeCreds(UNION {ActiveCredsOf(a) : a \in as})
    /\ \/ activation' = Revoked(as) /\ req[r].pc = "revoke_cascade"
       \/ /\ req[r].pc = "replace_commit"
          /\ ActiveOn(req[r].sub) \subseteq as
          /\ \E n \in ActIds : /\ activation[n].status = "absent"
                               /\ activation' = [Revoked(as) EXCEPT ![n] =
                                     NewActivation(req[r].sub, req[r].dev)]

Quiet == UNCHANGED <<activation, credential>>

\* Every write of a request to the activations and the credentials is one of
\* an insert, a revocation, a rotation and a purge.
LEMMA Writes ==
    ASSUME Inv, NEW r \in Req, Act(r)
    PROVE  \/ Quiet
           \/ Inserts(r, req[r].sub)
           \/ \E as \in SUBSET ActIds : Revokes(r, as)
           \/ IssueRotate(r)
           \/ IssuePurge(r)
<1> USE DEF Quiet, rows
<1>1. CASE Begin(r) \/ Abort(r) \/ DeadlockVictim(r) \/ OutOfRows(r) \/ Reply(r)
  BY <1>1 DEF Begin, StartSession, StartActivate, StartDirect, StartReplace, StartRevoke,
              StartAuth, Start, Abort, DeadlockVictim, OutOfRows, Reply
<1>2. CASE \/ SessionCheck(r) \/ SessionInsert(r) \/ SessionPurge(r)
           \/ RedeemLock(r) \/ RedeemSubscription(r) \/ RedeemExisting(r) \/ RedeemBurn(r)
           \/ IssueLock(r) \/ IssueSubscription(r)
  BY <1>2 DEF SessionCheck, SessionInsert, SessionPurge, RedeemLock, RedeemSubscription,
              RedeemExisting, RedeemBurn, IssueLock, IssueSubscription
<1>3. CASE \/ DirectSubscription(r) \/ DirectRead(r) \/ ReplaceCheck(r) \/ ReplaceLock(r)
           \/ ReplaceRead(r) \/ ReplaceTouch(r) \/ ReplaceRevoke(r)
           \/ RevokeRead(r) \/ RevokeUpdate(r)
  BY <1>3 DEF DirectSubscription, DirectRead, ReplaceCheck, ReplaceLock, ReplaceRead,
              ReplaceTouch, ReplaceRevoke, RevokeRead, RevokeUpdate
<1>4. CASE AuthCred(r) \/ AuthAct(r) \/ AuthSub(r) \/ AuthTouchCred(r) \/ AuthTouchAct(r)
  BY <1>4 DEF AuthCred, AuthAct, AuthSub, AuthTouchCred, AuthTouchAct
<1>5. CASE RedeemInsert(r) \/ DirectInsert(r)
  BY <1>5 DEF RedeemInsert, DirectInsert, Inserts, At
<1>6. CASE ReplaceCommit(r)
  <2> DEFINE as == {a \in ActIds : a = req[r].act}
  <2>1. (\A a \in as : LocksActivation(r, a)) /\ req[r].pc = "replace_commit"
    BY <1>6 DEF ReplaceCommit, At, LocksActivation
  <2>2. Quiet \/ Revokes(r, as)
    BY <1>6, <2>1 DEF ReplaceCommit, Revokes
  <2> QED
    BY <2>2
<1>7. CASE RevokeCascade(r)
  <2> DEFINE a == req[r].act
  <2>1. /\ a \in ActIds /\ LocksActivation(r, a)
        /\ req[r].pc = "revoke_cascade"
    BY <1>7 DEF RevokeCascade, At, LocksActivation, Inv, LocalsOK, Local
  <2>2. UNION {ActiveCredsOf(b) : b \in {a}} = ActiveCredsOf(a)
    OBVIOUS
  <2>3. Revokes(r, {a})
    BY <1>7, <2>1, <2>2 DEF RevokeCascade, Revokes
  <2> QED
    BY <2>1, <2>3
<1> QED
  BY <1>1, <1>2, <1>3, <1>4, <1>5, <1>6, <1>7 DEF Act, Step

\* A write takes a device off a seat, or puts one on an empty seat that no
\* replacement of another request has locked.
LEMMA SeatWrites ==
    ASSUME Inv, NEW r \in Req, Act(r), NEW s \in Subs
    PROVE  \/ ActiveOn(s)' \subseteq ActiveOn(s)
           \/ /\ \E a \in ActIds : ActiveOn(s)' = {a}
              /\ s = req[r].sub
              /\ SubscriptionFree(r, s) \/ LocksSubscription(r, s)
<1>0. RowsTyped /\ TypeOK
  BY DEF Inv, TypeOK, RowsTyped
<1>1. CASE Quiet \/ IssueRotate(r) \/ IssuePurge(r)
  BY <1>1 DEF Quiet, IssueRotate, IssuePurge, ActiveOn
<1>2. CASE Inserts(r, req[r].sub)
  <2>1. PICK a \in ActIds : /\ activation[a].status = "absent"
                            /\ activation' = [activation EXCEPT ![a] =
                                  NewActivation(req[r].sub, req[r].dev)]
    BY <1>2 DEF Inserts
  <2>2. ActiveOn(req[r].sub) = {} /\ SubscriptionFree(r, req[r].sub)
    BY <1>2 DEF Inserts, MayInsertActivation
  <2>3. /\ activation'[a] = NewActivation(req[r].sub, req[r].dev)
        /\ \A b \in ActIds \ {a} : activation'[b] = activation[b]
    BY <1>0, <2>1 DEF RowsTyped
  <2>4. CASE s = req[r].sub
    <3>1. ActiveOn(s)' = {a}
      BY <2>2, <2>3, <2>4 DEF ActiveOn, NewActivation
    <3> QED
      BY <2>2, <2>4, <3>1
  <2>5. CASE s # req[r].sub
    BY <2>3, <2>5 DEF ActiveOn, NewActivation
  <2> QED
    BY <2>4, <2>5
<1>3. ASSUME NEW as \in SUBSET ActIds, Revokes(r, as)
      PROVE  \/ ActiveOn(s)' \subseteq ActiveOn(s)
             \/ /\ \E a \in ActIds : ActiveOn(s)' = {a}
                /\ s = req[r].sub
                /\ LocksSubscription(r, s)
  <2>1. CASE activation' = Revoked(as)
    BY <1>0, <2>1, RevocationKeepsRows DEF ActiveOn
  <2>2. ASSUME NEW n \in ActIds, activation[n].status = "absent",
               activation' = [Revoked(as) EXCEPT ![n] =
                                 NewActivation(req[r].sub, req[r].dev)],
               req[r].pc = "replace_commit", ActiveOn(req[r].sub) \subseteq as
        PROVE  \/ ActiveOn(s)' \subseteq ActiveOn(s)
               \/ ActiveOn(s)' = {n} /\ s = req[r].sub /\ LocksSubscription(r, s)
    <3>1. Revoked(as) \in [ActIds -> Activation]
      BY <1>0, RevokedTyped DEF RowsTyped
    <3>2. /\ activation'[n] = NewActivation(req[r].sub, req[r].dev)
          /\ \A b \in ActIds \ {n} :
                /\ activation'[b].sub = activation[b].sub
                /\ b \notin as => activation'[b] = activation[b]
                /\ b \in as => activation'[b].status = "revoked"
      BY <1>0, <2>2, <3>1, RevocationKeepsRows
    <3>3. CASE s = req[r].sub
      <4>1. LocksSubscription(r, s)
        BY <2>2, <3>3 DEF LocksSubscription
      <4>2. activation'[n].status = "active" /\ activation'[n].sub = s
        BY <3>2, <3>3 DEF NewActivation
      <4>3. ActiveOn(s) \subseteq as
        BY <2>2, <3>3
      <4>4. \A b \in ActIds \ {n} : ~(activation'[b].status = "active" /\ activation'[b].sub = s)
        BY <3>2, <4>3 DEF ActiveOn
      <4>5. ActiveOn(s)' = {n}
        BY <4>2, <4>4 DEF ActiveOn
      <4> QED
        BY <3>3, <4>1, <4>5
    <3>4. CASE s # req[r].sub
      <4>1. activation'[n].sub # s
        BY <3>2, <3>4 DEF NewActivation
      <4>2. \A b \in ActIds \ {n} : activation'[b].status = "active" =>
                /\ activation[b].status = "active"
                /\ activation'[b].sub = activation[b].sub
        BY <3>2
      <4> QED
        BY <4>1, <4>2 DEF ActiveOn
    <3> QED
      BY <3>3, <3>4
  <2> QED
    BY <1>3, <2>1, <2>2 DEF Revokes
<1> QED
  BY <1>1, <1>2, <1>3, Writes

-----------------------------------------------------------------------------
(* The seat.                                                                *)

\* Two requests never hold the same row.
LocksExclusive ==
    \A q, r \in Req : q # r =>
        /\ \A a \in ActIds : ~(LocksActivation(q, a) /\ LocksActivation(r, a))
        /\ \A s \in Subs : ~(LocksSubscription(q, s) /\ LocksSubscription(r, s))
        /\ \A t \in Tokens : ~(LocksSession(q, t) /\ LocksSession(r, t))

\* An activation locked by the issue of a credential is still active.
IssuedToActive ==
    \A r \in Req : req[r].pc \in {"issue_subscription", "issue_rotate"} =>
        activation[req[r].act].status = "active"

SeatInv ==
    /\ LocksExclusive
    /\ OneActiveDevice
    /\ ReplacementSeesTheSeat
    /\ IssuedToActive
    /\ CredentialNeedsActiveDevice
    /\ OneCredentialPerDevice

\* Two requests never hold the same row.
LEMMA LocksStayExclusive ==
    ASSUME Inv, LocksExclusive, NEW r \in Req, Act(r)
    PROVE  LocksExclusive'
<1>1. \A q \in Req \ {r} : req'[q] = req[q]
  BY OthersWait DEF Inv
<1>2. ASSUME NEW q \in Req \ {r}
      PROVE  /\ \A a \in ActIds : ~(LocksActivation(q, a)' /\ LocksActivation(r, a)')
             /\ \A s \in Subs : ~(LocksSubscription(q, s)' /\ LocksSubscription(r, s)')
             /\ \A t \in Tokens : ~(LocksSession(q, t)' /\ LocksSession(r, t)')
  <2>1. /\ \A a : LocksActivation(q, a)' <=> LocksActivation(q, a)
        /\ \A s : LocksSubscription(q, s)' <=> LocksSubscription(q, s)
        /\ \A t : LocksSession(q, t)' <=> LocksSession(q, t)
    BY <1>1 DEF LocksActivation, LocksSubscription, LocksSession
  <2> QED
    BY <2>1, LocksTaken DEF LocksExclusive, ActivationFree, SubscriptionFree, SessionFree
<1>3. ASSUME NEW p \in Req \ {r}, NEW q \in Req \ {r}, p # q
      PROVE  /\ \A a \in ActIds : ~(LocksActivation(p, a)' /\ LocksActivation(q, a)')
             /\ \A s \in Subs : ~(LocksSubscription(p, s)' /\ LocksSubscription(q, s)')
             /\ \A t \in Tokens : ~(LocksSession(p, t)' /\ LocksSession(q, t)')
  BY <1>1, <1>3 DEF LocksExclusive, LocksActivation, LocksSubscription, LocksSession
<1> QED
  BY <1>2, <1>3 DEF LocksExclusive

\* At most one device has the seat, and a replacement's view of it holds.
LEMMA SeatStaysOne ==
    ASSUME Inv, SeatInv, NEW r \in Req, Act(r)
    PROVE  OneActiveDevice' /\ ReplacementSeesTheSeat'
<1>1. OneActiveDevice'
  BY SeatWrites DEF SeatInv, OneActiveDevice
<1>2. ASSUME NEW p \in Req, req'[p].pc \in {"replace_revoke", "replace_commit"}
      PROVE  ActiveOn(req[p].sub)' \subseteq {req'[p].act}
  <2>0. req \in [Req -> Request] /\ Local(req[p])
    BY DEF Inv, TypeOK, LocalsOK
  <2>1. CASE p # r
    <3>1. req'[p] = req[p]
      BY <2>1, OthersWait DEF Inv
    <3>2. PICK s \in Subs : s = req[p].sub
      BY <1>2, <2>0, <3>1 DEF Local
    <3>3. LocksSubscription(p, s)
      BY <1>2, <3>1, <3>2 DEF LocksSubscription
    <3>4. ~SubscriptionFree(r, s) /\ ~LocksSubscription(r, s)
      BY <2>1, <3>3 DEF SubscriptionFree, SeatInv, LocksExclusive
    <3>5. ActiveOn(s)' \subseteq ActiveOn(s)
      BY <3>4, SeatWrites
    <3>6. ActiveOn(s) \subseteq {req[p].act}
      BY <1>2, <3>1, <3>2 DEF SeatInv, ReplacementSeesTheSeat
    <3>7. ActiveOn(req[p].sub)' = ActiveOn(s)'
      BY <3>1, <3>2
    <3> QED
      BY <3>1, <3>5, <3>6, <3>7
  <2>2. CASE p = r
    <3>1. CASE ReplaceRead(r)
      <4>0. PICK s \in Subs : s = req[r].sub
        BY <2>0, <2>2, <3>1 DEF ReplaceRead, At, Local
      <4>1. ActiveOn(s)' = ActiveOn(s)
        BY <3>1 DEF ReplaceRead, rows, ActiveOn
      <4>2. ASSUME NEW a \in ActiveOn(s), NEW pc,
                   Become(r, [req[r] EXCEPT !.act = a, !.pc = pc])
            PROVE  req'[r].sub = s /\ ActiveOn(s) \subseteq {req'[r].act}
        <5>1. req'[r].sub = s /\ req'[r].act = a
          BY <2>0, <2>2, <4>0, <4>2 DEF Become, Request
        <5>2. ActiveOn(s) \subseteq {a}
          BY DEF SeatInv, OneActiveDevice
        <5> QED
          BY <5>1, <5>2
      <4>3. ASSUME ActiveOn(s) = {}, Goto(r, "replace_commit")
            PROVE  req'[r].sub = s /\ ActiveOn(s) \subseteq {req'[r].act}
        BY <2>0, <2>2, <4>0, <4>3 DEF Goto, Become, Request
      <4>4. req'[r].sub = s /\ ActiveOn(s) \subseteq {req'[r].act}
        BY <3>1, <4>0, <4>2, <4>3 DEF ReplaceRead
      <4>5. ActiveOn(req[r].sub)' = ActiveOn(s)'
        BY <4>4
      <4> QED
        BY <2>2, <4>1, <4>4, <4>5
    <3>2. CASE ReplaceRevoke(r)
      <4>1. req[r].pc = "replace_revoke"
        BY <3>2 DEF ReplaceRevoke, At
      <4>2. req'[r].sub = req[r].sub /\ req'[r].act = req[r].act
        BY <2>0, <2>2, <3>2 DEF ReplaceRevoke, Goto, Become, Request
      <4>3. \A s : ActiveOn(s)' = ActiveOn(s)
        BY <3>2 DEF ReplaceRevoke, rows, ActiveOn
      <4>4. ActiveOn(req[r].sub)' = ActiveOn(req[r].sub)
        BY <4>2, <4>3
      <4> QED
        BY <2>2, <4>1, <4>2, <4>4 DEF SeatInv, ReplacementSeesTheSeat
    <3>3. ReplaceRead(r) \/ ReplaceRevoke(r)
      BY <1>2, <2>2, NextPC
    <3> QED
      BY <3>1, <3>2, <3>3
  <2> QED
    BY <2>1, <2>2
<1> QED
  BY <1>1, <1>2 DEF ReplacementSeesTheSeat

\* A write of r takes only the devices r has locked off their seats.
LEMMA ActiveKept ==
    ASSUME Inv, NEW r \in Req, Act(r), NEW a \in ActIds,
           activation[a].status = "active", ~LocksActivation(r, a)
    PROVE  activation'[a] = activation[a]
<1>0. RowsTyped
  BY DEF Inv, TypeOK, RowsTyped
<1>1. CASE Quiet \/ IssueRotate(r) \/ IssuePurge(r)
  BY <1>1 DEF Quiet, IssueRotate, IssuePurge
<1>2. CASE Inserts(r, req[r].sub)
  BY <1>0, <1>2 DEF Inserts, RowsTyped
<1>3. ASSUME NEW as \in SUBSET ActIds, Revokes(r, as) PROVE activation'[a] = activation[a]
  <2>1. a \notin as
    BY <1>3 DEF Revokes
  <2>2. Revoked(as) \in [ActIds -> Activation] /\ Revoked(as)[a] = activation[a]
    BY <1>0, <2>1, RevokedTyped, RevocationKeepsRows DEF RowsTyped
  <2> QED
    BY <1>3, <2>2 DEF Revokes
<1> QED
  BY <1>1, <1>2, <1>3, Writes

\* A device keeps its seat while a credential is being issued to it.
LEMMA IssuedStaysActive ==
    ASSUME Inv, SeatInv, NEW r \in Req, Act(r)
    PROVE  IssuedToActive'
<1> SUFFICES ASSUME NEW p \in Req, req'[p].pc \in {"issue_subscription", "issue_rotate"}
             PROVE  activation'[req'[p].act].status = "active"
  BY DEF IssuedToActive
<1>0. req \in [Req -> Request] /\ Local(req[p])
  BY DEF Inv, TypeOK, LocalsOK
<1>1. CASE p # r
  <2>1. req'[p] = req[p]
    BY <1>1, OthersWait DEF Inv
  <2>2. PICK a \in ActIds : a = req[p].act
    BY <1>0, <2>1 DEF Local
  <2>3. LocksActivation(p, a) /\ activation[a].status = "active"
    BY <2>1, <2>2 DEF LocksActivation, SeatInv, IssuedToActive
  <2>4. ~LocksActivation(r, a)
    BY <1>1, <2>3 DEF SeatInv, LocksExclusive
  <2>5. activation'[a] = activation[a]
    BY <2>3, <2>4, ActiveKept
  <2> QED
    BY <2>1, <2>2, <2>3, <2>5
<1>2. CASE p = r
  <2>1. CASE IssueLock(r)
    <3>1. Goto(r, "issue_subscription") /\ activation[req[r].act].status = "active"
      BY <1>0, <1>2, <2>1 DEF IssueLock, Finish, Become, Request
    <3>2. req'[r].act = req[r].act /\ activation' = activation
      BY <1>0, <1>2, <2>1, <3>1 DEF IssueLock, Goto, Become, Request, rows
    <3> QED
      BY <1>2, <3>1, <3>2
  <2>2. CASE IssueSubscription(r)
    <3>0. activation[req[r].act].status = "active"
      BY <2>2 DEF IssueSubscription, At, SeatInv, IssuedToActive
    <3>1. Goto(r, "issue_rotate") /\ activation[req[r].act].status = "active"
      BY <1>0, <1>2, <2>2, <3>0 DEF IssueSubscription, Finish, Become, Request
    <3>2. req'[r].act = req[r].act /\ activation' = activation
      BY <1>0, <1>2, <2>2, <3>1 DEF IssueSubscription, Goto, Become, Request, rows
    <3> QED
      BY <1>2, <3>1, <3>2
  <2> QED
    BY <1>2, <2>1, <2>2, NextPC
<1> QED
  BY <1>1, <1>2

-----------------------------------------------------------------------------
(* The credentials.                                                         *)

\* What a rotation leaves: the fresh credential and no other of its device.
LEMMA Rotation ==
    ASSUME Inv, NEW r \in Req, IssueRotate(r)
    PROVE  /\ activation' = activation
           /\ \E c \in Creds :
                 /\ credential[c].status = "absent"
                 /\ credential'[c] = [status |-> "active", act |-> req[r].act]
                 /\ \A d \in Creds \ {c} :
                       /\ credential'[d].act = credential[d].act
                       /\ credential'[d].status = "active" =>
                             /\ credential[d].status = "active"
                             /\ credential[d].act # req[r].act
                       /\ credential[d].status # "active" => credential'[d] = credential[d]
<1>1. RowsTyped
  BY DEF Inv, TypeOK, RowsTyped
<1> DEFINE cs == ActiveCredsOf(req[r].act)
<1>2. RevokeCreds(cs) \in [Creds -> Credential]
  BY <1>1, RevokeCredsTyped DEF RowsTyped
<1>3. PICK c \in Creds :
          /\ credential[c].status = "absent"
          /\ credential' = [RevokeCreds(cs) EXCEPT ![c] =
                               [status |-> "active", act |-> req[r].act]]
  BY DEF IssueRotate
<1>4. /\ credential'[c] = [status |-> "active", act |-> req[r].act]
      /\ \A d \in Creds \ {c} : credential'[d] = RevokeCreds(cs)[d]
  BY <1>2, <1>3
<1>5. \A d \in Creds : /\ RevokeCreds(cs)[d].act = credential[d].act
                       /\ d \notin cs => RevokeCreds(cs)[d] = credential[d]
                       /\ d \in cs => RevokeCreds(cs)[d].status = "revoked"
  BY <1>1, RevocationKeepsRows
<1>6. \A d \in Creds : d \in cs <=> /\ credential[d].status = "active"
                                    /\ credential[d].act = req[r].act
  BY DEF ActiveCredsOf
<1> HIDE DEF cs
<1> QED
  BY <1>3, <1>4, <1>5, <1>6 DEF IssueRotate

\* A write that is not a rotation activates no credential, and takes the
\* credentials of a device that leaves its seat with it.
LEMMA CredentialWrites ==
    ASSUME Inv, CredentialNeedsActiveDevice, NEW r \in Req, Act(r), ~IssueRotate(r),
           NEW c \in Creds, credential'[c].status = "active"
    PROVE  /\ credential'[c] = credential[c]
           /\ activation'[credential[c].act].status = "active"
<1>0. RowsTyped
  BY DEF Inv, TypeOK, RowsTyped
<1>1. CASE Quiet \/ IssuePurge(r)
  <2>1. credential'[c] = credential[c] /\ activation' = activation
    BY <1>0, <1>1 DEF Quiet, IssuePurge, RowsTyped, Credential
  <2> QED
    BY <2>1 DEF CredentialNeedsActiveDevice
<1>2. CASE Inserts(r, req[r].sub)
  <2>1. credential' = credential
    BY <1>2 DEF Inserts
  <2>2. \A a \in ActIds : activation[a].status = "active" => activation'[a] = activation[a]
    BY <1>0, <1>2 DEF Inserts, RowsTyped
  <2> QED
    BY <2>1, <2>2 DEF CredentialNeedsActiveDevice
<1>3. ASSUME NEW as \in SUBSET ActIds, Revokes(r, as)
      PROVE  /\ credential'[c] = credential[c]
             /\ activation'[credential[c].act].status = "active"
  <2> DEFINE cs == UNION {ActiveCredsOf(a) : a \in as}
  <2>1. credential' = RevokeCreds(cs)
    BY <1>3 DEF Revokes
  <2>2. c \notin cs /\ credential'[c] = credential[c]
    BY <1>0, <2>1, RevocationKeepsRows
  <2>3. /\ credential[c].act \in ActIds
        /\ activation[credential[c].act].status = "active"
    BY <2>2 DEF CredentialNeedsActiveDevice
  <2>4. PICK a \in ActIds : a = credential[c].act
    BY <2>3
  <2>5. c \in ActiveCredsOf(a)
    BY <2>2, <2>4 DEF ActiveCredsOf
  <2>6. a \notin as
    BY <2>2, <2>5
  <2>7. Revoked(as)[a] = activation[a]
    BY <2>4, <2>6 DEF Revoked
  <2>8. activation'[a] = activation[a]
    BY <1>0, <1>3, <2>3, <2>4, <2>7, RevokedTyped DEF Revokes, RowsTyped
  <2> QED
    BY <2>2, <2>3, <2>4, <2>8
<1> QED
  BY <1>1, <1>2, <1>3, Writes

\* A valid credential is its active device's only one.
LEMMA CredentialsStaySound ==
    ASSUME Inv, SeatInv, NEW r \in Req, Act(r)
    PROVE  CredentialNeedsActiveDevice' /\ OneCredentialPerDevice'
<1>1. CASE IssueRotate(r)
  <2>1. /\ req[r].pc = "issue_rotate" /\ req[r].act \in ActIds
        /\ activation[req[r].act].status = "active"
    BY <1>1 DEF IssueRotate, At, Inv, LocalsOK, Local, SeatInv, IssuedToActive
  <2>2. PICK c \in Creds :
                 /\ credential[c].status = "absent"
                 /\ credential'[c] = [status |-> "active", act |-> req[r].act]
                 /\ \A d \in Creds \ {c} :
                       /\ credential'[d].act = credential[d].act
                       /\ credential'[d].status = "active" =>
                             /\ credential[d].status = "active"
                             /\ credential[d].act # req[r].act
    BY <1>1, Rotation
  <2>3. activation' = activation
    BY <1>1, Rotation
  <2>4. CredentialNeedsActiveDevice'
    BY <2>1, <2>2, <2>3 DEF SeatInv, CredentialNeedsActiveDevice
  <2>5. OneCredentialPerDevice'
    BY <2>2 DEF SeatInv, OneCredentialPerDevice, ActiveCredsOf
  <2> QED
    BY <2>4, <2>5
<1>2. CASE ~IssueRotate(r)
  <2>1. \A c \in Creds : credential'[c].status = "active" =>
            /\ credential'[c] = credential[c]
            /\ activation'[credential[c].act].status = "active"
    BY <1>2, CredentialWrites DEF SeatInv
  <2>2. CredentialNeedsActiveDevice'
    BY <2>1 DEF SeatInv, CredentialNeedsActiveDevice
  <2>3. OneCredentialPerDevice'
    BY <2>1 DEF SeatInv, OneCredentialPerDevice, ActiveCredsOf
  <2> QED
    BY <2>2, <2>3
<1> QED
  BY <1>1, <1>2

-----------------------------------------------------------------------------
(* The theorems.                                                            *)

\* An empty register has no seat taken.
LEMMA InitSeat == Init => SeatInv
BY DEF Init, SeatInv, LocksExclusive, LocksActivation, LocksSubscription, LocksSession,
       OneActiveDevice, ActiveOn, ReplacementSeesTheSeat, IssuedToActive,
       CredentialNeedsActiveDevice, OneCredentialPerDevice, ActiveCredsOf, IdleRequest

\* The seat's invariant is inductive, given the register's.
LEMMA NextSeat == Inv /\ SeatInv /\ [Next]_vars => SeatInv'
<1> SUFFICES ASSUME Inv, SeatInv, [Next]_vars PROVE SeatInv'
  OBVIOUS
<1>1. ASSUME NEW r \in Req, Act(r) PROVE SeatInv'
  BY <1>1, LocksStayExclusive, SeatStaysOne, IssuedStaysActive, CredentialsStaySound
     DEF SeatInv
<1>2. CASE UNCHANGED <<activation, credential, req>>
  BY <1>2 DEF SeatInv, LocksExclusive, LocksActivation, LocksSubscription, LocksSession,
              OneActiveDevice, ActiveOn, ReplacementSeesTheSeat, IssuedToActive,
              CredentialNeedsActiveDevice, OneCredentialPerDevice, ActiveCredsOf
<1>3. CASE Environment
  BY <1>2, <1>3 DEF Environment, TokenExpires, SubscriptionClock, SubscriptionUpdated, rows
<1>4. CASE UNCHANGED vars
  BY <1>2, <1>4 DEF vars
<1> QED
  BY <1>1, <1>3, <1>4 DEF Next, Act

\* The seat, its locks and its credentials agree in every interleaving of the
\* handlers (0004:76-118, 0005:126-220).
THEOREM SeatInvHolds == Spec => []SeatInv
BY InvHolds, InitSeat, NextSeat, PTL DEF Spec

\* A subscription never works on two devices, whatever requests race for it.
THEOREM OneActiveDeviceHolds == Spec => []OneActiveDevice
BY SeatInvHolds, PTL DEF SeatInv

\* A device that lost its seat holds no valid credential.
THEOREM CredentialNeedsActiveDeviceHolds == Spec => []CredentialNeedsActiveDevice
BY SeatInvHolds, PTL DEF SeatInv

\* A device never holds two valid credentials.
THEOREM OneCredentialPerDeviceHolds == Spec => []OneCredentialPerDevice
BY SeatInvHolds, PTL DEF SeatInv

\* A replacement acts on a seat that is still as it read it.
THEOREM ReplacementSeesTheSeatHolds == Spec => []ReplacementSeesTheSeat
BY SeatInvHolds, PTL DEF SeatInv

-----------------------------------------------------------------------------
(* What a step never does.                                                  *)

\* No write of a request touches a revoked row.
LEMMA WritesRespectRevocation ==
    ASSUME Inv, NEW r \in Req, Act(r)
    PROVE  /\ \A a \in ActIds : activation[a].status = "revoked"
                                 => activation'[a] = activation[a]
           /\ \A c \in Creds : credential[c].status \in {"revoked", "purged"}
                                 => credential'[c].status \in {"revoked", "purged"}
<1>0. RowsTyped
  BY DEF Inv, TypeOK, RowsTyped
<1>1. CASE Quiet
  BY <1>1 DEF Quiet
<1>2. CASE Inserts(r, req[r].sub)
  BY <1>0, <1>2 DEF Inserts, RowsTyped
<1>3. CASE IssueRotate(r)
  BY <1>3, Rotation
<1>4. CASE IssuePurge(r)
  BY <1>0, <1>4 DEF IssuePurge, RowsTyped, Credential
<1>5. ASSUME NEW as \in SUBSET ActIds, Revokes(r, as)
      PROVE  /\ \A a \in ActIds : activation[a].status = "revoked"
                                   => activation'[a] = activation[a]
             /\ \A c \in Creds : credential[c].status \in {"revoked", "purged"}
                                   => credential'[c].status \in {"revoked", "purged"}
  <2>1. \A c \in Creds : credential[c].status \in {"revoked", "purged"}
            => credential'[c].status \in {"revoked", "purged"}
    BY <1>0, <1>5, RevocationKeepsRows DEF Revokes
  <2>2. \A a \in ActIds : activation[a].status = "revoked" => Revoked(as)[a] = activation[a]
    BY <1>0 DEF Revoked, RowsTyped, Activation
  <2>3. Revoked(as) \in [ActIds -> Activation]
    BY <1>0, RevokedTyped DEF RowsTyped
  <2> QED
    BY <1>5, <2>1, <2>2, <2>3 DEF Revokes
<1> QED
  BY <1>1, <1>2, <1>3, <1>4, <1>5, Writes

\* No interleaving brings a revoked device or credential back.
THEOREM RevocationIsFinalHolds == Spec => RevocationIsFinal
<1> DEFINE Final ==
      /\ \A a \in ActIds : activation[a].status = "revoked" => activation'[a] = activation[a]
      /\ \A c \in Creds : credential[c].status \in {"revoked", "purged"}
                            => credential'[c].status \in {"revoked", "purged"}
<1>1. Inv /\ [Next]_vars => [Final]_vars
  <2> SUFFICES ASSUME Inv, [Next]_vars PROVE [Final]_vars
    OBVIOUS
  <2>1. CASE Environment
    BY <2>1 DEF Environment, TokenExpires, SubscriptionClock, SubscriptionUpdated, rows
  <2> QED
    BY <2>1, WritesRespectRevocation DEF Next, Act
<1> QED
  BY <1>1, InvHolds, PTL DEF Spec, RevocationIsFinal

\* The step that empties a seat is the commit of a revocation.
LEMMA SeatEmptiedByRevocation ==
    ASSUME Inv, NEW r \in Req, Act(r), NEW s \in Subs,
           ActiveOn(s) # {}, ActiveOn(s)' = {}
    PROVE  req[r].pc = "revoke_cascade" /\ req[r].act \in ActiveOn(s)
<1>0. RowsTyped
  BY DEF Inv, TypeOK, RowsTyped
<1>1. PICK a \in ActIds : /\ a \in ActiveOn(s) /\ activation[a].status = "active"
                          /\ activation[a].sub = s
  BY DEF ActiveOn
<1>2. activation'[a] # activation[a]
  BY <1>1 DEF ActiveOn
<1>3. LocksActivation(r, a)
  BY <1>1, <1>2, ActiveKept
<1>4. ~(Quiet \/ IssueRotate(r) \/ IssuePurge(r))
  BY <1>2 DEF Quiet, IssueRotate, IssuePurge
<1>5. ~Inserts(r, req[r].sub)
  BY <1>3 DEF Inserts, LocksActivation
<1>6. PICK as \in SUBSET ActIds : Revokes(r, as)
  BY <1>4, <1>5, Writes
<1>7. req[r].pc # "replace_commit"
  <2> SUFFICES ASSUME req[r].pc = "replace_commit" PROVE FALSE
    OBVIOUS
  <2>1. req[r].act = a /\ a # None
    BY <1>1, <1>3, NoneIsFresh DEF LocksActivation
  <2>2. req[r].sub = s
    BY <1>1, <2>1 DEF Inv, LocalsOK, Local
  <2>3. PICK n \in ActIds : activation' = [Revoked(as) EXCEPT ![n] =
                                NewActivation(req[r].sub, req[r].dev)]
    BY <1>6 DEF Revokes
  <2>4. activation'[n].status = "active" /\ activation'[n].sub = s
    BY <1>0, <2>2, <2>3, RevokedTyped DEF RowsTyped, NewActivation
  <2> QED
    BY <2>4 DEF ActiveOn
<1> QED
  BY <1>1, <1>3, <1>6, <1>7 DEF Revokes, LocksActivation

\* Only a revocation empties a seat: a replacement hands it over in one step.
THEOREM ReplacementKeepsTheSeatHolds == Spec => ReplacementKeepsTheSeat
<1> DEFINE Kept ==
      \A s \in Subs : ActiveOn(s) # {} /\ ActiveOn(s)' = {} =>
          \E r \in Req : req[r].pc = "revoke_cascade" /\ req[r].act \in ActiveOn(s)
<1>1. Inv /\ [Next]_vars => [Kept]_vars
  <2> SUFFICES ASSUME Inv, [Next]_vars PROVE [Kept]_vars
    OBVIOUS
  <2>1. CASE Environment
    BY <2>1 DEF Environment, TokenExpires, SubscriptionClock, SubscriptionUpdated, rows,
                ActiveOn
  <2> QED
    BY <2>1, SeatEmptiedByRevocation DEF Next, Act
<1> QED
  BY <1>1, InvHolds, PTL DEF Spec, ReplacementKeepsTheSeat

\* What an account is told of its device stays so.
THEOREM SeatIsHandedOverHolds == Spec => SeatIsHandedOver
BY ReplacementSeesTheSeatHolds, ReplacementKeepsTheSeatHolds, RevocationIsFinalHolds, PTL
   DEF SeatIsHandedOver
=============================================================================
