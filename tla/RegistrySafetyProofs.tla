------------------------ MODULE RegistrySafetyProofs ------------------------
(***************************************************************************)
(* What the register of devices promises outside, proved on top of what    *)
(* its rows and locks keep true: a token buys one activation, the register *)
(* implements the licence of DeviceLicence, and the answer of an           *)
(* authentication was true at some moment of the call.                     *)
(***************************************************************************)
EXTENDS DeviceRegistryProofs, RegistryLicence, AuthWindow

-----------------------------------------------------------------------------
(* The tokens.                                                              *)

\* The statements of a redemption and of the issue that follows.
TokenPC ==
    { "redeem_lock", "redeem_subscription", "redeem_existing", "redeem_burn",
      "redeem_insert", "issue_lock", "issue_subscription", "issue_rotate",
      "issue_purge", "done" }

\* A token is unspent while a redemption holds its row, and spent once somebody
\* has what it pays for.
TokenInv ==
    /\ \A r \in Req : req[r].tok # None => req[r].pc \in TokenPC
    /\ \A r \in Req, t \in Tokens :
          LocksSession(r, t) => session[t].status \in {"live", "expired"}
    /\ \A r \in Req : Redeemed(r) => session[req[r].tok].status \in {"used", "purged"}
    /\ TokenSpentOnce

\* A request has its token from its arrival to its end.
LEMMA TokenMoves ==
    ASSUME Inv, NEW r \in Req, Act(r)
    PROVE  \/ req'[r].tok = None
           \/ req'[r].pc = "redeem_lock"
           \/ /\ req'[r].tok = req[r].tok
              /\ req[r].pc \notin TokenPC \/ req'[r].pc \in TokenPC
              /\ req[r].pc \in TokenPC =>
                    \/ ~Redeemed(r)'
                    \/ Redeemed(r)
                    \/ RedeemBurn(r)
                    \/ RedeemInsert(r) /\ BurnToken(req[r].tok)
<1> USE DEF At, TokenPC, Redeemed
<1>0. req \in [Req -> Request] /\ req[r] \in Request
  BY DEF Inv, TypeOK
<1>a. ASSUME NEW q, Become(r, q) PROVE req'[r] = q
  BY <1>0, <1>a DEF Become
<1>b. ASSUME NEW out, Finish(r, out)
      PROVE  req'[r].pc = "done" /\ req'[r].out = out /\ req'[r].tok = req[r].tok
  BY <1>0, <1>a, <1>b DEF Finish, Request
<1>c. ASSUME NEW pc, Goto(r, pc) PROVE req'[r].pc = pc /\ req'[r].tok = req[r].tok
  BY <1>0, <1>a, <1>c DEF Goto, Request
<1>1. CASE Begin(r)
  BY <1>a, <1>1 DEF Begin, StartSession, StartActivate, StartDirect, StartReplace,
                    StartRevoke, StartAuth, Start, IdleRequest
<1>2. CASE Reply(r)
  BY <1>a, <1>2 DEF Reply, IdleRequest
<1>3. CASE Abort(r) \/ DeadlockVictim(r) \/ OutOfRows(r)
  <2>1. Finish(r, "unavailable")
    BY <1>3 DEF Abort, DeadlockVictim, OutOfRows
  <2> QED
    BY <1>b, <2>1
<1>4. CASE SessionCheck(r) \/ SessionInsert(r) \/ SessionPurge(r)
  BY <1>b, <1>c, <1>4 DEF SessionCheck, SessionInsert, SessionPurge
<1>5. CASE RedeemLock(r)
  <2>1. ASSUME NEW s, Become(r, [req[r] EXCEPT !.pc = "redeem_subscription", !.sub = s])
        PROVE  req'[r].tok = req[r].tok /\ req'[r].pc = "redeem_subscription"
    BY <1>0, <1>a, <2>1 DEF Request
  <2>2. /\ req'[r].tok = req[r].tok
        /\ \/ req'[r].pc = "redeem_subscription"
           \/ req'[r].pc = "done" /\ req'[r].out = "invalid_token"
    BY <1>b, <1>5, <2>1 DEF RedeemLock
  <2> QED
    BY <2>2
<1>6. CASE RedeemSubscription(r)
  BY <1>b, <1>c, <1>6 DEF RedeemSubscription
<1>7. CASE RedeemExisting(r)
  <2>1. ASSUME NEW a, Become(r, [req[r] EXCEPT !.pc = "redeem_burn", !.act = a])
        PROVE  req'[r].tok = req[r].tok /\ req'[r].pc = "redeem_burn"
    BY <1>0, <1>a, <2>1 DEF Request
  <2>2. req'[r].tok = req[r].tok /\ req'[r].pc \in {"redeem_burn", "redeem_insert"}
    BY <1>c, <1>7, <2>1 DEF RedeemExisting
  <2> QED
    BY <2>2
<1>8. CASE RedeemBurn(r)
  BY <1>c, <1>8 DEF RedeemBurn
<1>9. CASE RedeemInsert(r)
  <2>1. ASSUME NEW a, Become(r, [req[r] EXCEPT !.pc = "issue_lock", !.act = a])
        PROVE  req'[r].tok = req[r].tok /\ req'[r].pc = "issue_lock"
    BY <1>0, <1>a, <2>1 DEF Request
  <2>2. /\ req'[r].tok = req[r].tok
        /\ \/ req'[r].pc = "issue_lock" /\ BurnToken(req[r].tok)
           \/ req'[r].pc = "done" /\ req'[r].out = "device_limit"
    BY <1>b, <1>9, <2>1 DEF RedeemInsert
  <2> QED
    BY <1>9, <2>2
<1>10. CASE IssueLock(r) \/ IssueSubscription(r) \/ IssuePurge(r)
  <2>1. req'[r].tok = req[r].tok /\ req'[r].pc \in TokenPC
    BY <1>b, <1>c, <1>10 DEF IssueLock, IssueSubscription, IssuePurge
  <2>2. req[r].pc \in {"issue_lock", "issue_subscription", "issue_purge"}
    BY <1>10 DEF IssueLock, IssueSubscription, IssuePurge
  <2> QED
    BY <2>1, <2>2
<1>11. CASE IssueRotate(r)
  <2>1. ASSUME NEW c, Become(r, [req[r] EXCEPT !.pc = "issue_purge", !.cred = c])
        PROVE  req'[r].tok = req[r].tok /\ req'[r].pc = "issue_purge"
    BY <1>0, <1>a, <2>1 DEF Request
  <2> QED
    BY <1>11, <2>1 DEF IssueRotate
<1>12. CASE DirectSubscription(r) \/ DirectRead(r) \/ DirectInsert(r)
  BY <1>b, <1>c, <1>12 DEF DirectSubscription, DirectRead, DirectInsert
<1>13. CASE ReplaceCheck(r) \/ ReplaceLock(r) \/ ReplaceTouch(r) \/ ReplaceRevoke(r)
            \/ ReplaceCommit(r)
  BY <1>b, <1>c, <1>13
     DEF ReplaceCheck, ReplaceLock, ReplaceTouch, ReplaceRevoke, ReplaceCommit
<1>14. CASE ReplaceRead(r)
  <2>1. ASSUME NEW a, NEW pc, Become(r, [req[r] EXCEPT !.act = a, !.pc = pc])
        PROVE  req'[r].tok = req[r].tok
    BY <1>0, <1>a, <2>1 DEF Request
  <2> QED
    BY <1>c, <1>14, <2>1 DEF ReplaceRead
<1>15. CASE RevokeRead(r) \/ RevokeUpdate(r) \/ RevokeCascade(r)
  BY <1>b, <1>c, <1>15 DEF RevokeRead, RevokeUpdate, RevokeCascade
<1>16. CASE AuthCred(r) \/ AuthAct(r) \/ AuthSub(r) \/ AuthTouchCred(r) \/ AuthTouchAct(r)
  <2>1. ASSUME Refuse(r) PROVE req'[r].tok = req[r].tok
    BY <1>0, <1>a, <1>b, <2>1 DEF Refuse, Request
  <2>2. ASSUME NEW a, Become(r, [req[r] EXCEPT !.pc = "auth_act", !.act = a])
        PROVE  req'[r].tok = req[r].tok
    BY <1>0, <1>a, <2>2 DEF Request
  <2>3. ASSUME NEW s, Become(r, [req[r] EXCEPT !.pc = "auth_sub", !.sub = s])
        PROVE  req'[r].tok = req[r].tok
    BY <1>0, <1>a, <2>3 DEF Request
  <2> QED
    BY <1>b, <1>c, <1>16, <2>1, <2>2, <2>3
       DEF AuthCred, AuthAct, AuthSub, AuthTouchCred, AuthTouchAct
<1> QED
  BY <1>1, <1>2, <1>3, <1>4, <1>5, <1>6, <1>7, <1>8, <1>9, <1>10, <1>11, <1>12, <1>13,
     <1>14, <1>15, <1>16 DEF Act, Step

\* Every write of a request to the sessions: an insert, the burn of the token it
\* has locked, or a purge of rows that nobody has.
LEMMA SessionWrites ==
    ASSUME Inv, NEW r \in Req, Act(r)
    PROVE  \/ session' = session
           \/ SessionInsert(r)
           \/ SessionPurge(r)
           \/ RedeemBurn(r)
           \/ RedeemInsert(r) /\ BurnToken(req[r].tok)
<1> USE DEF rows
<1>1. CASE Begin(r) \/ Abort(r) \/ DeadlockVictim(r) \/ OutOfRows(r) \/ Reply(r)
  BY <1>1 DEF Begin, StartSession, StartActivate, StartDirect, StartReplace, StartRevoke,
              StartAuth, Start, Abort, DeadlockVictim, OutOfRows, Reply
<1>2. CASE \/ SessionCheck(r) \/ RedeemLock(r) \/ RedeemSubscription(r) \/ RedeemExisting(r)
           \/ IssueLock(r) \/ IssueSubscription(r) \/ IssueRotate(r) \/ IssuePurge(r)
  BY <1>2 DEF SessionCheck, RedeemLock, RedeemSubscription, RedeemExisting,
              IssueLock, IssueSubscription, IssueRotate, IssuePurge
<1>3. CASE RedeemInsert(r)
  BY <1>3 DEF RedeemInsert
<1>4. CASE \/ DirectSubscription(r) \/ DirectRead(r) \/ DirectInsert(r)
           \/ ReplaceCheck(r) \/ ReplaceLock(r) \/ ReplaceRead(r) \/ ReplaceTouch(r)
           \/ ReplaceRevoke(r) \/ ReplaceCommit(r)
           \/ RevokeRead(r) \/ RevokeUpdate(r) \/ RevokeCascade(r)
  BY <1>4 DEF DirectSubscription, DirectRead, DirectInsert, ReplaceCheck, ReplaceLock,
              ReplaceRead, ReplaceTouch, ReplaceRevoke, ReplaceCommit, RevokeRead,
              RevokeUpdate, RevokeCascade
<1>5. CASE AuthCred(r) \/ AuthAct(r) \/ AuthSub(r) \/ AuthTouchCred(r) \/ AuthTouchAct(r)
  BY <1>5 DEF AuthCred, AuthAct, AuthSub, AuthTouchCred, AuthTouchAct
<1> QED
  BY <1>1, <1>2, <1>3, <1>4, <1>5 DEF Act, Step

\* The burn of a token is done by the request that has its row locked, for an
\* activation of the token's subscription and the request's device.
LEMMA BurnPays ==
    ASSUME Inv, NEW r \in Req, RedeemBurn(r) \/ RedeemInsert(r), BurnToken(req[r].tok),
           session[req[r].tok].status # "used"
    PROVE  /\ LocksSession(r, req[r].tok) /\ req[r].tok \in Tokens
           /\ \A t \in Tokens \ {req[r].tok} : session'[t] = session[t]
           /\ session'[req[r].tok].status = "used"
           /\ req'[r].tok = req[r].tok /\ req'[r].pc = "issue_lock"
           /\ req'[r].act \in ActIds
           /\ activation'[req'[r].act].sub = session[req[r].tok].sub
           /\ activation'[req'[r].act].dev = req[r].dev
<1>0. TypeOK /\ RowsTyped /\ req[r] \in Request /\ Local(req[r])
  BY DEF Inv, TypeOK, RowsTyped, LocalsOK
<1>1. /\ LocksSession(r, req[r].tok) /\ req[r].tok \in Tokens
      /\ req[r].sub = session[req[r].tok].sub
  BY <1>0 DEF RedeemBurn, RedeemInsert, At, LocksSession, Local
<1>2. /\ \A t \in Tokens \ {req[r].tok} : session'[t] = session[t]
      /\ session'[req[r].tok].status = "used"
  BY <1>0, <1>1 DEF RowsTyped, Session, BurnToken
<1>3. CASE RedeemBurn(r)
  <2>1. req'[r].tok = req[r].tok /\ req'[r].pc = "issue_lock" /\ req'[r].act = req[r].act
    BY <1>0, <1>3 DEF RedeemBurn, Goto, Become, Request, TypeOK
  <2>2. /\ activation' = activation /\ req[r].act \in ActIds
        /\ activation[req[r].act].sub = req[r].sub /\ activation[req[r].act].dev = req[r].dev
    BY <1>0, <1>3 DEF RedeemBurn, At, Local
  <2> QED
    BY <1>1, <1>2, <2>1, <2>2
<1>4. CASE RedeemInsert(r)
  <2>1. session' # session
    BY <1>2
  <2>2. PICK a \in ActIds :
            /\ activation' = [activation EXCEPT ![a] = NewActivation(req[r].sub, req[r].dev)]
            /\ Become(r, [req[r] EXCEPT !.pc = "issue_lock", !.act = a])
    BY <1>4, <2>1 DEF RedeemInsert, rows
  <2>3. req'[r].tok = req[r].tok /\ req'[r].pc = "issue_lock" /\ req'[r].act = a
    BY <1>0, <2>2 DEF Become, Request, TypeOK
  <2>4. activation'[a] = NewActivation(req[r].sub, req[r].dev)
    BY <1>0, <2>2 DEF RowsTyped
  <2> QED
    BY <1>1, <1>2, <2>3, <2>4 DEF NewActivation
<1> QED
  BY <1>3, <1>4

\* A token is spent once: the invariant is inductive, given the register's locks.
LEMMA TokensStaySpent ==
    ASSUME Inv, LocksExclusive, LocksExclusive', TokenInv, NEW r \in Req, Act(r)
    PROVE  TokenInv'
<1>0. TypeOK /\ RowsTyped /\ \A q \in Req : req[q] \in Request /\ req'[q] \in Request
  BY ActKeepsInv DEF Inv, TypeOK, RowsTyped
<1>1. \A q \in Req \ {r} : req'[q] = req[q]
  BY <1>0, OthersWait
<1> DEFINE Burn == /\ RedeemBurn(r) \/ RedeemInsert(r)
                   /\ BurnToken(req[r].tok)
<1>2. \A q \in Req : req'[q].tok # None => req'[q].tok \in Tokens
  BY <1>0 DEF Request
<1>3. ASSUME Burn
      PROVE  /\ LocksSession(r, req[r].tok) /\ req[r].tok \in Tokens
             /\ \A t \in Tokens \ {req[r].tok} : session'[t] = session[t]
             /\ session'[req[r].tok].status = "used"
             /\ req'[r].tok = req[r].tok /\ req'[r].pc = "issue_lock"
             /\ session[req[r].tok].status \in {"live", "expired"}
  <2>1. LocksSession(r, req[r].tok) /\ req[r].tok \in Tokens
    BY <1>0, <1>3 DEF RedeemBurn, RedeemInsert, At, LocksSession, Inv, LocalsOK, Local
  <2>2. session[req[r].tok].status \in {"live", "expired"}
    BY <2>1 DEF TokenInv
  <2> QED
    BY <1>3, <2>2, BurnPays
<1>4. RedeemBurn(r) => BurnToken(req[r].tok)
  BY DEF RedeemBurn
<1>5. SessionInsert(r) => \E t \in Tokens :
          /\ session[t].status = "absent" /\ session'[t].status = "live"
          /\ \A u \in Tokens \ {t} : session'[u] = session[u]
  BY <1>0 DEF SessionInsert, RowsTyped
<1>6. SessionPurge(r) => \A t \in Tokens :
          \/ session'[t] = session[t]
          \/ /\ session[t].status \in {"used", "expired"} /\ SessionFree(r, t)
             /\ session'[t].status = "purged"
  BY <1>0 DEF SessionPurge, RowsTyped, Session
<1>7. session' = session \/ SessionInsert(r) \/ SessionPurge(r) \/ Burn
  BY <1>4, SessionWrites
<1>8. \A q \in Req : req'[q].tok # None => req'[q].pc \in TokenPC
  BY <1>1, TokenMoves DEF TokenInv, TokenPC
<1>9. \/ req'[r].tok = None
      \/ ~Redeemed(r)'
      \/ Redeemed(r) /\ req'[r].tok = req[r].tok
      \/ Burn
  <2>1. req'[r].pc = "redeem_lock" => ~Redeemed(r)'
    BY DEF Redeemed
  <2>2. req[r].tok # None => req[r].pc \in TokenPC
    BY DEF TokenInv
  <2> QED
    BY <1>4, <2>1, <2>2, TokenMoves
<1> HIDE DEF Burn
<1>10. ASSUME NEW q \in Req, NEW t \in Tokens, LocksSession(q, t)'
       PROVE  session'[t].status \in {"live", "expired"}
  <2>1. session[t].status \in {"live", "expired"}
    <3>1. CASE LocksSession(q, t)
      BY <3>1 DEF TokenInv
    <3>2. CASE ~LocksSession(q, t)
      <4>1. q = r
        BY <1>1, <1>10, <3>2 DEF LocksSession
      <4>2. req'[r].pc \in {"redeem_subscription", "redeem_existing", "redeem_burn",
                            "redeem_insert"} /\ req'[r].tok = t
        BY <1>10, <4>1 DEF LocksSession
      <4>3. CASE RedeemLock(r)
        <5>1. ~Finish(r, "invalid_token")
          <6> SUFFICES ASSUME Finish(r, "invalid_token") PROVE FALSE
            OBVIOUS
          <6>1. req[r] \in Request /\ req \in [Req -> Request]
            BY <1>0 DEF TypeOK
          <6>2. req'[r].pc = "done"
            BY <6>1 DEF Finish, Become, Request
          <6> QED
            BY <4>2, <6>2
        <5>2. /\ session[req[r].tok].status = "live"
              /\ \E s : Become(r, [req[r] EXCEPT !.pc = "redeem_subscription", !.sub = s])
          BY <4>3, <5>1 DEF RedeemLock
        <5>3. req'[r].tok = req[r].tok
          BY <1>0, <5>2 DEF Become, Request, TypeOK
        <5> QED
          BY <4>2, <5>2, <5>3
      <4>4. CASE ~RedeemLock(r)
        <5>1. \/ req[r].pc = "redeem_subscription"
              \/ req[r].pc = "redeem_existing"
          BY <4>2, <4>4, NextPC DEF RedeemSubscription, RedeemExisting, At
        <5>2. req'[r].tok = req[r].tok
          BY <1>2, <4>2, TokenMoves, NoneIsFresh
        <5> QED
          BY <3>2, <4>1, <4>2, <5>1, <5>2 DEF LocksSession
      <4> QED
        BY <4>3, <4>4
    <3> QED
      BY <3>1, <3>2
  <2>2. ~Burn \/ t # req[r].tok
    <3> SUFFICES ASSUME Burn, t = req[r].tok PROVE FALSE
      OBVIOUS
    <3>1. LocksSession(r, t) /\ req'[r].pc = "issue_lock"
      BY <1>3
    <3>2. q # r
      BY <1>10, <3>1 DEF LocksSession
    <3>3. LocksSession(q, t)
      BY <1>1, <1>10, <3>2 DEF LocksSession
    <3> QED
      BY <3>1, <3>2, <3>3 DEF LocksExclusive
  <2>3. SessionPurge(r) => session'[t].status \in {"live", "expired"}
    <3> SUFFICES ASSUME SessionPurge(r) PROVE session'[t].status \in {"live", "expired"}
      OBVIOUS
    <3>1. ~LocksSession(r, t)'
      <4>1. ~(req'[r].pc \in {"redeem_subscription", "redeem_existing", "redeem_burn",
                              "redeem_insert"})
        BY NextPC DEF SessionPurge, RedeemLock, RedeemSubscription, RedeemExisting, At
      <4> QED
        BY <4>1 DEF LocksSession
    <3>2. q # r
      BY <1>10, <3>1
    <3>3. ~SessionFree(r, t)
      BY <1>1, <1>10, <3>2 DEF SessionFree, LocksSession
    <3> QED
      BY <1>6, <2>1, <3>3
  <2> QED
    BY <1>3, <1>5, <1>7, <2>1, <2>2, <2>3
<1>11. \A t \in Tokens : session[t].status \in {"used", "purged"} =>
            session'[t].status \in {"used", "purged"}
  BY <1>3, <1>5, <1>6, <1>7
<1>12. ASSUME NEW q \in Req, Redeemed(q)'
       PROVE  session'[req'[q].tok].status \in {"used", "purged"}
  <2>0. req'[q].tok \in Tokens
    BY <1>2, <1>12 DEF Redeemed
  <2>1. CASE Redeemed(q) /\ req'[q].tok = req[q].tok
    BY <1>11, <2>0, <2>1 DEF TokenInv
  <2>2. CASE ~(Redeemed(q) /\ req'[q].tok = req[q].tok)
    <3>1. q = r
      BY <1>1, <1>12, <2>2 DEF Redeemed
    <3>2. Burn
      BY <1>9, <1>12, <2>2, <3>1 DEF Redeemed
    <3> QED
      BY <1>3, <3>1, <3>2
  <2> QED
    BY <2>1, <2>2
<1>13. ASSUME NEW p \in Req, NEW q \in Req, p # q, Redeemed(p)', Redeemed(q)'
       PROVE  req'[p].tok # req'[q].tok
  <2>1. ASSUME NEW o \in Req \ {r}, Redeemed(o)', Redeemed(r)' PROVE req'[o].tok # req'[r].tok
    <3>1. Redeemed(o) /\ req'[o].tok = req[o].tok
      BY <1>1, <2>1 DEF Redeemed
    <3>2. CASE Burn
      BY <1>3, <3>1, <3>2 DEF TokenInv
    <3>3. CASE Redeemed(r) /\ req'[r].tok = req[r].tok
      BY <3>1, <3>3 DEF TokenInv, TokenSpentOnce
    <3> QED
      BY <1>9, <2>1, <3>2, <3>3 DEF Redeemed
  <2>2. CASE p # r /\ q # r
    BY <1>1, <1>13, <2>2 DEF TokenInv, TokenSpentOnce, Redeemed
  <2> QED
    BY <1>13, <2>1, <2>2
<1> QED
  BY <1>8, <1>10, <1>12, <1>13 DEF TokenInv, TokenSpentOnce

\* No token is out in an empty register.
LEMMA InitTokens == Init => TokenInv
BY NoneIsFresh DEF Init, TokenInv, LocksSession, Redeemed, TokenSpentOnce, IdleRequest

\* The tokens' invariant is inductive, given the register's and the seat's.
LEMMA NextTokens == Inv /\ SeatInv /\ SeatInv' /\ TokenInv /\ [Next]_vars => TokenInv'
<1> SUFFICES ASSUME Inv, SeatInv, SeatInv', TokenInv, [Next]_vars PROVE TokenInv'
  OBVIOUS
<1>1. ASSUME NEW r \in Req, Act(r) PROVE TokenInv'
  BY <1>1, TokensStaySpent DEF SeatInv
<1>2. ASSUME req' = req,
             \A t \in Tokens : \/ session'[t] = session[t]
                               \/ /\ session[t].status = "live"
                                  /\ session'[t].status = "expired"
      PROVE  TokenInv'
  <2>1. \A r \in Req : Redeemed(r) => req[r].tok \in Tokens
    BY DEF Redeemed, Inv, TypeOK, Request
  <2> QED
    BY <1>2, <2>1 DEF TokenInv, LocksSession, Redeemed, TokenSpentOnce
<1>3. CASE Environment
  <2>1. RowsTyped
    BY DEF Inv, TypeOK, RowsTyped
  <2>2. CASE session' = session
    BY <1>2, <1>3, <2>2 DEF Environment, TokenExpires, SubscriptionClock,
                            SubscriptionUpdated
  <2>3. ASSUME NEW t \in Tokens, TokenExpires(t) PROVE TokenInv'
    BY <1>2, <2>1, <2>3 DEF TokenExpires, RowsTyped, Session
  <2> QED
    BY <1>3, <2>2, <2>3 DEF Environment, SubscriptionClock, SubscriptionUpdated, rows
<1>4. CASE UNCHANGED vars
  BY <1>2, <1>4 DEF vars
<1> QED
  BY <1>1, <1>3, <1>4 DEF Next, Act

\* Two redemptions of a token never both get what it pays for, however many race.
THEOREM TokenSpentOnceHolds == Spec => []TokenSpentOnce
<1>1. Spec => []TokenInv
  BY InvHolds, SeatInvHolds, InitTokens, NextTokens, PTL DEF Spec
<1> QED
  BY <1>1, PTL DEF TokenInv

\* A token is burned in the step that gives its subscription a device, or finds it
\* there: a redemption that fails leaves it live, and no two succeed.
THEOREM TokenBuysActivationHolds == Spec => TokenBuysActivation
<1> DEFINE Paid ==
      \A t \in Tokens :
         session[t].status = "live" /\ session'[t].status = "used" =>
           \E r \in Req : /\ req[r].tok = t
                          /\ req'[r].act \in ActIds
                          /\ activation'[req'[r].act].sub = session[t].sub
                          /\ activation'[req'[r].act].dev = req[r].dev
<1>1. Inv /\ [Next]_vars => [Paid]_vars
  <2> SUFFICES ASSUME Inv, Next, NEW t \in Tokens,
                      session[t].status = "live", session'[t].status = "used"
               PROVE  \E r \in Req : /\ req[r].tok = t
                                     /\ req'[r].act \in ActIds
                                     /\ activation'[req'[r].act].sub = session[t].sub
                                     /\ activation'[req'[r].act].dev = req[r].dev
    OBVIOUS
  <2>0. RowsTyped
    BY DEF Inv, TypeOK, RowsTyped
  <2>1. ~Environment
    BY <2>0 DEF Environment, TokenExpires, SubscriptionClock, SubscriptionUpdated, rows,
                RowsTyped, Session
  <2>2. PICK r \in Req : Act(r)
    BY <2>1 DEF Next, Act
  <2>3. ~SessionInsert(r) /\ ~SessionPurge(r) /\ session' # session
    BY <2>0 DEF SessionInsert, SessionPurge, RowsTyped, Session
  <2>4. RedeemBurn(r) \/ RedeemInsert(r)
    BY <2>2, <2>3, SessionWrites
  <2>5. BurnToken(req[r].tok)
    BY <2>2, <2>3, SessionWrites DEF RedeemBurn
  <2>6. req[r].tok = t
    BY <2>0, <2>5 DEF BurnToken, RowsTyped
  <2> QED
    BY <2>4, <2>5, <2>6, BurnPays
<1>2. Spec => [][Paid]_vars
  BY <1>1, InvHolds, PTL DEF Spec
<1> QED
  BY <1>2, TokenSpentOnceHolds, PTL DEF TokenBuysActivation

-----------------------------------------------------------------------------
(* The licence.                                                             *)

\* Whom the mapping's CHOOSE picks, before a step and after it.
LEMMA HolderIs ==
    ASSUME OneActiveDevice, NEW s \in Subs
    PROVE  /\ ActiveOn(s) = {} => Holder[s] = None
           /\ \A a \in ActiveOn(s) : Holder[s] = activation[a].dev
<1>1. \A a \in ActiveOn(s) : (CHOOSE b \in ActiveOn(s) : TRUE) = a
  BY DEF OneActiveDevice
<1> QED
  BY <1>1 DEF Holder

\* The same after a step.
LEMMA HolderIsAfter ==
    ASSUME OneActiveDevice', NEW s \in Subs
    PROVE  /\ ActiveOn(s)' = {} => Holder'[s] = None
           /\ \A a \in ActiveOn(s)' : Holder'[s] = activation'[a].dev
<1>1. \A a \in ActiveOn(s)' : (CHOOSE b \in ActiveOn(s)' : TRUE) = a
  BY DEF OneActiveDevice
<1> QED
  BY <1>1 DEF Holder

\* A device that has the seat is one of the licence's.
LEMMA HolderIsDevice ==
    ASSUME Inv, OneActiveDevice, NEW s \in Subs, NEW a \in ActiveOn(s)
    PROVE  Holder[s] = activation[a].dev /\ Holder[s] \in Devices /\ Holder[s] # None
BY HolderIs, NoneIsFresh DEF ActiveOn, Inv, RowsOK

\* The valid credentials of a subscription, read from their own rows.
LEMMA KeysAre ==
    ASSUME CredentialNeedsActiveDevice, NEW s \in Subs
    PROVE  KeysOf(s) = {c \in Creds : /\ credential[c].status = "active"
                                      /\ activation[credential[c].act].sub = s}
<1>1. ASSUME NEW c \in KeysOf(s)
      PROVE  /\ c \in Creds /\ credential[c].status = "active"
             /\ activation[credential[c].act].sub = s
  BY DEF KeysOf, ActiveCredsOf, ActiveOn
<1>2. ASSUME NEW c \in Creds, credential[c].status = "active",
             activation[credential[c].act].sub = s
      PROVE  c \in KeysOf(s)
  <2>1. credential[c].act \in ActiveOn(s) /\ c \in ActiveCredsOf(credential[c].act)
    BY <1>2 DEF CredentialNeedsActiveDevice, ActiveOn, ActiveCredsOf
  <2> QED
    BY <2>1 DEF KeysOf
<1> QED
  BY <1>1, <1>2

\* The same after a step.
LEMMA KeysAreAfter ==
    ASSUME CredentialNeedsActiveDevice', NEW s \in Subs
    PROVE  KeysOf(s)' = {c \in Creds : /\ credential'[c].status = "active"
                                       /\ activation'[credential'[c].act].sub = s}
<1>1. ASSUME NEW c \in KeysOf(s)'
      PROVE  /\ c \in Creds /\ credential'[c].status = "active"
             /\ activation'[credential'[c].act].sub = s
  BY DEF KeysOf, ActiveCredsOf, ActiveOn
<1>2. ASSUME NEW c \in Creds, credential'[c].status = "active",
             activation'[credential'[c].act].sub = s
      PROVE  c \in KeysOf(s)'
  <2>1. PICK a \in ActIds : a = credential'[c].act
    BY <1>2 DEF CredentialNeedsActiveDevice
  <2>2. a \in ActiveOn(s)' /\ c \in ActiveCredsOf(a)'
    BY <1>2, <2>1 DEF CredentialNeedsActiveDevice, ActiveOn, ActiveCredsOf
  <2> QED
    BY <2>2 DEF KeysOf
<1> QED
  BY <1>1, <1>2

\* Which credential the mapping's CHOOSE picks.
LEMMA KeyIs ==
    ASSUME OneActiveDevice, OneCredentialPerDevice, NEW s \in Subs
    PROVE  /\ KeysOf(s) = {} => Key[s] = None
           /\ \A c \in KeysOf(s) : Key[s] = c
<1>1. \A c \in KeysOf(s) : (CHOOSE d \in KeysOf(s) : TRUE) = c
  BY DEF OneActiveDevice, OneCredentialPerDevice, KeysOf
<1> QED
  BY <1>1 DEF Key

\* The same after a step.
LEMMA KeyIsAfter ==
    ASSUME OneActiveDevice', OneCredentialPerDevice', NEW s \in Subs
    PROVE  /\ KeysOf(s)' = {} => Key'[s] = None
           /\ \A c \in KeysOf(s)' : Key'[s] = c
<1>1. \A c \in KeysOf(s)' : (CHOOSE d \in KeysOf(s)' : TRUE) = c
  BY DEF OneActiveDevice, OneCredentialPerDevice, KeysOf
<1> QED
  BY <1>1 DEF Key

\* An empty register is a licence nobody holds.
LEMMA InitLicence == Init => Licence!LicenceInit
<1> SUFFICES ASSUME Init PROVE Licence!LicenceInit
  OBVIOUS
<1>1. \A s \in Subs : ActiveOn(s) = {}
  BY DEF Init, ActiveOn
<1>2. \A s \in Subs : KeysOf(s) = {}
  BY <1>1 DEF KeysOf
<1>3. Holder = [s \in Subs |-> None] /\ Key = [s \in Subs |-> None]
  BY <1>1, <1>2 DEF Holder, Key
<1>4. Spent = {}
  BY DEF Init, Spent
<1> QED
  BY <1>3, <1>4 DEF Licence!LicenceInit

\* A mapped variable that changes at one subscription.
LEMMA HolderMoves ==
    ASSUME NEW s \in Subs, NEW d, Holder'[s] = d,
           \A t \in Subs \ {s} : Holder'[t] = Holder[t]
    PROVE  Holder' = [Holder EXCEPT ![s] = d]
<1>1. /\ Holder = [t \in Subs |-> Holder[t]]
      /\ Holder' = [t \in Subs |-> Holder'[t]]
  BY DEF Holder
<1> QED
  BY <1>1

\* The same of the valid credential.
LEMMA KeyMoves ==
    ASSUME NEW s \in Subs, NEW k, Key'[s] = k,
           \A t \in Subs \ {s} : Key'[t] = Key[t]
    PROVE  Key' = [Key EXCEPT ![s] = k]
<1>1. /\ Key = [t \in Subs |-> Key[t]]
      /\ Key' = [t \in Subs |-> Key'[t]]
  BY DEF Key
<1> QED
  BY <1>1

\* The seat of one subscription is taken or emptied, the other seats are as they were.
LEMMA SeatMoves ==
    ASSUME OneActiveDevice, OneActiveDevice', NEW s \in Subs,
           NEW now \in SUBSET ActIds, ActiveOn(s)' = now,
           NEW d, \A a \in now : activation'[a].dev = d,
           now = {} => d = None,
           \A t \in Subs \ {s} : ActiveOn(t)' = ActiveOn(t),
           \A a \in ActIds \ now : activation'[a].dev = activation[a].dev
    PROVE  Holder' = [Holder EXCEPT ![s] = d]
<1>1. Holder'[s] = d
  BY HolderIsAfter
<1>2. ASSUME NEW t \in Subs \ {s} PROVE Holder'[t] = Holder[t]
  <2>1. CASE ActiveOn(t) = {}
    BY <2>1, HolderIs, HolderIsAfter
  <2>2. ASSUME NEW a \in ActiveOn(t) PROVE Holder'[t] = Holder[t]
    <3>1. a \in ActIds /\ a \notin now
      <4>1. a \in ActiveOn(t)'
        BY <2>2
      <4>2. a \notin ActiveOn(s)'
        BY <4>1 DEF ActiveOn
      <4> QED
        BY <4>2 DEF ActiveOn
    <3>2. activation'[a].dev = activation[a].dev
      BY <3>1
    <3> QED
      BY <2>2, <3>2, HolderIs, HolderIsAfter
  <2> QED
    BY <2>1, <2>2
<1> QED
  BY <1>1, <1>2, HolderMoves

\* The valid credentials of a subscription are its key, if it has one.
LEMMA KeyIsSpent ==
    ASSUME SeatInv, NEW s \in Subs
    PROVE  {Key[s]} \ {None} = KeysOf(s)
<1> USE DEF SeatInv
<1>1. CASE KeysOf(s) = {}
  BY <1>1, KeyIs
<1>2. ASSUME NEW c \in KeysOf(s) PROVE {Key[s]} \ {None} = KeysOf(s)
  <2>1. \A d \in KeysOf(s) : Key[s] = d /\ d # None
    BY KeysAre, KeyIs, NoneIsFresh
  <2> QED
    BY <2>1
<1> QED
  BY <1>1, <1>2

\* What becomes of a subscription's key when its device loses the seat.
LEMMA KeySpent ==
    ASSUME Inv, SeatInv, SeatInv', NEW s \in Subs,
           \A c \in Creds \ KeysOf(s) : credential'[c] = credential[c],
           \A c \in KeysOf(s) : /\ credential'[c].status = "revoked"
                                /\ credential'[c].act = credential[c].act,
           \A c \in Creds : credential[c].status = "active" =>
               activation'[credential[c].act].sub = activation[credential[c].act].sub
    PROVE  /\ Key' = [Key EXCEPT ![s] = None]
           /\ Licence!Spend(s)
<1> USE DEF SeatInv
<1>1. \A c \in KeysOf(s) : c \in Creds /\ credential[c].status = "active"
  BY KeysAre
<1>2. KeysOf(s)' = {}
  BY <1>1, KeysAre, KeysAreAfter
<1>3. \A t \in Subs \ {s} : KeysOf(t)' = KeysOf(t)
  BY <1>1, KeysAre, KeysAreAfter
<1>4. Key'[s] = None
  BY <1>2, KeyIsAfter
<1>5. \A t \in Subs \ {s} : Key'[t] = Key[t]
  BY <1>3, KeyIs, KeyIsAfter
<1>6. {Key[s]} \ {None} = KeysOf(s)
  BY KeyIsSpent
<1>7. Spent' = Spent \cup KeysOf(s)
  <2>1. \A c \in Creds : c \in Spent' <=> c \in Spent \/ c \in KeysOf(s)
    BY <1>1 DEF Spent
  <2> QED
    BY <1>1, <2>1 DEF Spent
<1> QED
  BY <1>4, <1>5, <1>6, <1>7, KeyMoves DEF Licence!Spend

\* The key of a subscription whose valid credentials a step leaves as they are.
LEMMA SameKey ==
    ASSUME SeatInv, SeatInv', NEW s \in Subs,
           \A c \in Creds : credential'[c].status = "active" <=> credential[c].status = "active",
           \A c \in Creds : credential[c].status = "active" =>
              activation'[credential'[c].act].sub = activation[credential[c].act].sub
    PROVE  Key'[s] = Key[s]
<1>1. \A c \in Creds : /\ credential'[c].status = "active"
                       /\ activation'[credential'[c].act].sub = s
                       <=> /\ credential[c].status = "active"
                           /\ activation[credential[c].act].sub = s
  OBVIOUS
<1>2. KeysOf(s)' = KeysOf(s)
  BY <1>1, KeysAre, KeysAreAfter DEF SeatInv
<1> QED
  BY <1>2, KeyIs, KeyIsAfter DEF SeatInv

\* A step that changes neither the seats nor what is valid is none of the licence.
LEMMA LicenceStutters ==
    ASSUME SeatInv, SeatInv', activation' = activation,
           \A c \in Creds :
              \/ credential'[c] = credential[c]
              \/ /\ credential[c].status = "revoked" /\ credential'[c].status = "purged"
                 /\ credential'[c].act = credential[c].act
    PROVE  UNCHANGED Licence!licence
<1>1. Holder' = Holder
  BY DEF Holder, ActiveOn
<1>2. \A c \in Creds : credential[c].status = "active" => credential'[c] = credential[c]
  OBVIOUS
<1>3. \A s \in Subs : Key'[s] = Key[s]
  BY <1>2, SameKey
<1>4. Key' = Key
  BY <1>3 DEF Key
<1>5. Spent' = Spent
  BY DEF Spent
<1> QED
  BY <1>1, <1>4, <1>5 DEF Licence!licence

\* The insert of an activation claims the free seat.
LEMMA InsertClaims ==
    ASSUME Inv, SeatInv, SeatInv', NEW r \in Req, Inserts(r, req[r].sub)
    PROVE  \E s \in Subs, d \in Devices : Licence!Claim(s, d)
<1> USE DEF SeatInv
<1>0. RowsTyped /\ RowsOK /\ Local(req[r])
  BY DEF Inv, TypeOK, RowsTyped, LocalsOK
<1>1. PICK s \in Subs, d \in Devices : s = req[r].sub /\ d = req[r].dev
  BY <1>0 DEF Inserts, Local, RowsOK
<1>2. PICK n \in ActIds : /\ activation[n].status = "absent"
                          /\ activation' = [activation EXCEPT ![n] = NewActivation(s, d)]
  BY <1>1 DEF Inserts
<1>3. /\ activation'[n].status = "active" /\ activation'[n].sub = s /\ activation'[n].dev = d
      /\ \A b \in ActIds \ {n} : activation'[b] = activation[b]
      /\ credential' = credential /\ ActiveOn(s) = {}
  BY <1>0, <1>1, <1>2 DEF RowsTyped, NewActivation, Inserts
<1>4. ActiveOn(s)' = {n} /\ \A t \in Subs \ {s} : ActiveOn(t)' = ActiveOn(t)
  BY <1>2, <1>3 DEF ActiveOn
<1>5. Holder' = [Holder EXCEPT ![s] = d]
  BY <1>3, <1>4, SeatMoves
<1>6. \A c \in Creds : credential[c].status = "active" =>
          activation'[credential[c].act] = activation[credential[c].act]
  BY <1>2, <1>3 DEF CredentialNeedsActiveDevice
<1>8. \A t \in Subs : Key'[t] = Key[t]
  BY <1>3, <1>6, SameKey
<1>9. Key' = Key
  BY <1>8 DEF Key
<1>10. Spent' = Spent
  BY <1>3 DEF Spent
<1>11. Holder[s] = None
  BY <1>3, HolderIs
<1> QED
  BY <1>5, <1>9, <1>10, <1>11 DEF Licence!Claim

\* What a revocation of the activations as writes.
LEMMA RevokedRows ==
    ASSUME Inv, SeatInv, NEW r \in Req, NEW as \in SUBSET ActIds, Revokes(r, as)
    PROVE  /\ \A a \in as : a = req[r].act
           /\ \A c \in Creds :
                 IF credential[c].status = "active" /\ credential[c].act \in as
                   THEN credential'[c].status = "revoked" /\ credential'[c].act = credential[c].act
                   ELSE credential'[c] = credential[c]
<1>1. \A a \in as : a = req[r].act
  BY DEF Revokes, LocksActivation
<1> DEFINE cs == UNION {ActiveCredsOf(a) : a \in as}
<1>2. ASSUME NEW c \in Creds
      PROVE  c \in cs <=> /\ credential[c].status = "active"
                          /\ credential[c].act \in as
  <2>1. ASSUME c \in cs PROVE credential[c].status = "active" /\ credential[c].act \in as
    <3>1. PICK a \in as : c \in ActiveCredsOf(a)
      BY <2>1
    <3> QED
      BY <3>1 DEF ActiveCredsOf
  <2>2. ASSUME credential[c].status = "active", credential[c].act \in as PROVE c \in cs
    <3>1. c \in ActiveCredsOf(credential[c].act)
      BY <2>2 DEF ActiveCredsOf
    <3> QED
      BY <2>2, <3>1
  <2> QED
    BY <2>1, <2>2
<1>3. credential' = RevokeCreds(cs) /\ RowsTyped
  BY DEF Revokes, Inv, TypeOK, RowsTyped
<1> HIDE DEF cs
<1>4. \A c \in Creds : /\ credential'[c].act = credential[c].act
                       /\ c \notin cs => credential'[c] = credential[c]
                       /\ c \in cs => credential'[c].status = "revoked"
  BY <1>3, RevocationKeepsRows
<1> QED
  BY <1>1, <1>2, <1>4

\* The revocation of an active device releases the licence; that of one that has
\* lost its seat already changes nothing.
LEMMA RevocationReleases ==
    ASSUME Inv, SeatInv, SeatInv', NEW r \in Req, NEW as \in SUBSET ActIds, Revokes(r, as),
           activation' = Revoked(as)
    PROVE  UNCHANGED Licence!licence \/ \E s \in Subs : Licence!Release(s)
<1> USE DEF SeatInv
<1>0. RowsTyped /\ RowsOK
  BY DEF Inv, TypeOK, RowsTyped
<1>1. \A a \in ActIds : /\ activation'[a].sub = activation[a].sub
                        /\ activation'[a].dev = activation[a].dev
                        /\ a \notin as => activation'[a] = activation[a]
                        /\ a \in as => activation'[a].status = "revoked"
  BY <1>0, RevocationKeepsRows
<1>2. CASE \E a \in as : activation[a].status = "active"
  <2>0. PICK a \in as : activation[a].status = "active"
    BY <1>2
  <2>1. a \in ActIds /\ as = {a} /\ activation[a].status = "active"
    <3>1. \A b \in as : b = req[r].act
      BY RevokedRows
    <3> QED
      BY <2>0, <3>1
  <2>2. PICK s \in Subs : s = activation[a].sub
    BY <1>0, <2>1 DEF RowsOK
  <2>3. ActiveOn(s) = {a}
    BY <2>1, <2>2 DEF OneActiveDevice, ActiveOn
  <2>4. ActiveOn(s)' = {}
    <3>1. \A b \in ActIds : b # a => b \notin ActiveOn(s)
      BY <2>3
    <3>2. \A b \in ActIds : ~(activation'[b].status = "active" /\ activation'[b].sub = s)
      BY <1>1, <2>1, <3>1 DEF ActiveOn
    <3> QED
      BY <3>2 DEF ActiveOn
  <2>5. ASSUME NEW t \in Subs \ {s} PROVE ActiveOn(t)' = ActiveOn(t)
    <3>1. \A b \in ActIds : /\ activation'[b].status = "active"
                            /\ activation'[b].sub = t
                            <=> /\ activation[b].status = "active"
                                /\ activation[b].sub = t
      BY <1>1, <2>1, <2>2
    <3> QED
      BY <3>1 DEF ActiveOn
  <2>6. Holder' = [Holder EXCEPT ![s] = None]
    BY <1>1, <2>4, <2>5, SeatMoves
  <2>7. \A c \in Creds : c \in KeysOf(s) <=> /\ credential[c].status = "active"
                                             /\ credential[c].act = a
    <3>1. \A c \in Creds : credential[c].status = "active" /\ activation[credential[c].act].sub = s
              => credential[c].act \in ActiveOn(s)
      BY DEF CredentialNeedsActiveDevice, ActiveOn
    <3> QED
      BY <2>2, <2>3, <3>1, KeysAre
  <2>8. \A c \in Creds : credential[c].status = "active" =>
            activation'[credential[c].act].sub = activation[credential[c].act].sub
    BY <1>1 DEF CredentialNeedsActiveDevice
  <2>9. \A c \in KeysOf(s) : c \in Creds
    BY KeysAre
  <2>10. Key' = [Key EXCEPT ![s] = None] /\ Licence!Spend(s)
    <3>1. \A c \in Creds :
             IF c \in KeysOf(s)
               THEN credential'[c].status = "revoked" /\ credential'[c].act = credential[c].act
               ELSE credential'[c] = credential[c]
      BY <2>1, <2>7, RevokedRows
    <3> QED
      BY <2>8, <2>9, <3>1, KeySpent
  <2>11. Holder[s] # None
    BY <2>3, HolderIsDevice
  <2> QED
    BY <2>6, <2>10, <2>11 DEF Licence!Release
<1>3. CASE \A a \in as : activation[a].status # "active"
  <2>1. \A s \in Subs : ActiveOn(s)' = ActiveOn(s)
    BY <1>1, <1>3 DEF ActiveOn
  <2>2. \A s \in Subs : Holder'[s] = Holder[s]
    <3> SUFFICES ASSUME NEW s \in Subs PROVE Holder'[s] = Holder[s]
      OBVIOUS
    <3>1. CASE ActiveOn(s) = {}
      BY <2>1, <3>1, HolderIs, HolderIsAfter
    <3>2. ASSUME NEW a \in ActiveOn(s) PROVE Holder'[s] = Holder[s]
      <4>1. a \in ActIds /\ a \in ActiveOn(s)'
        BY <2>1, <3>2 DEF ActiveOn
      <4> QED
        BY <1>1, <3>2, <4>1, HolderIs, HolderIsAfter
    <3> QED
      BY <3>1, <3>2
  <2>3. credential' = credential
    <3>1. \A c \in Creds : credential'[c] = credential[c]
      <4>1. \A c \in Creds : ~(credential[c].status = "active" /\ credential[c].act \in as)
        BY <1>3 DEF CredentialNeedsActiveDevice
      <4>2. ASSUME NEW c \in Creds PROVE credential'[c] = credential[c]
        <5>1. IF credential[c].status = "active" /\ credential[c].act \in as
                THEN credential'[c].status = "revoked" /\ credential'[c].act = credential[c].act
                ELSE credential'[c] = credential[c]
          BY RevokedRows
        <5> QED
          BY <4>1, <5>1
      <4> QED
        BY <4>2
    <3>2. credential' \in [Creds -> Credential]
      BY <1>0, RevokeCredsTyped DEF Revokes, RowsTyped
    <3> QED
      BY <1>0, <3>1, <3>2 DEF RowsTyped
  <2>4. \A c \in Creds : credential[c].status = "active" =>
            activation'[credential[c].act].sub = activation[credential[c].act].sub
    BY <1>1 DEF CredentialNeedsActiveDevice
  <2>6. \A s \in Subs : Key'[s] = Key[s]
    BY <2>3, <2>4, SameKey
  <2>7. Holder' = Holder /\ Key' = Key /\ Spent' = Spent
    BY <2>2, <2>3, <2>6 DEF Holder, Key, Spent
  <2> QED
    BY <2>7 DEF Licence!licence
<1> QED
  BY <1>2, <1>3

\* r commits a replacement of the activations as by n.
HandsOver(r, as, n) ==
    /\ req[r].pc = "replace_commit"
    /\ ActiveOn(req[r].sub) \subseteq as
    /\ activation[n].status = "absent"
    /\ activation' = [Revoked(as) EXCEPT ![n] = NewActivation(req[r].sub, req[r].dev)]

\* The commit of a replacement claims a free seat, or replaces the device that has
\* it by another and spends its key.
LEMMA CommitReplaces ==
    ASSUME Inv, SeatInv, SeatInv', NEW r \in Req, NEW as \in SUBSET ActIds, Revokes(r, as),
           NEW n \in ActIds, HandsOver(r, as, n)
    PROVE  \E s \in Subs, d \in Devices : Licence!Claim(s, d) \/ Licence!Replace(s, d)
<1> USE DEF SeatInv
<1>0. RowsTyped /\ RowsOK /\ Local(req[r])
  BY DEF Inv, TypeOK, RowsTyped, LocalsOK
<1>1. PICK s \in Subs, d \in Devices : s = req[r].sub /\ d = req[r].dev
  BY <1>0 DEF HandsOver, Local
<1>a. ActiveOn(s) \subseteq as /\ activation[n].status = "absent"
  BY <1>1 DEF HandsOver
<1>2. Revoked(as) \in [ActIds -> Activation]
  BY <1>0, RevokedTyped DEF RowsTyped
<1>3. /\ activation'[n] = NewActivation(s, d)
      /\ \A b \in ActIds \ {n} :
            /\ activation'[b].sub = activation[b].sub
            /\ activation'[b].dev = activation[b].dev
            /\ b \notin as => activation'[b] = activation[b]
            /\ b \in as => activation'[b].status = "revoked"
  BY <1>0, <1>1, <1>2, RevocationKeepsRows DEF HandsOver
<1>4. activation'[n].status = "active" /\ activation'[n].sub = s /\ activation'[n].dev = d
  BY <1>3 DEF NewActivation
<1>5. \A a \in as : /\ a = req[r].act /\ a # None
                    /\ activation[a].sub = s /\ activation[a].dev # d
  <2>1. \A a \in as : a = req[r].act
    BY RevokedRows
  <2>2. \A a \in as : a \in ActIds /\ a # None
    BY NoneIsFresh
  <2>3. req[r].pc = "replace_commit"
    BY DEF HandsOver
  <2>4. req[r].act # None => activation[req[r].act].sub = s /\ activation[req[r].act].dev # d
    BY <1>0, <1>1, <2>3 DEF Local
  <2> QED
    BY <2>1, <2>2, <2>4
<1>6. ActiveOn(s)' = {n}
  <2>1. \A b \in ActIds \ {n} : ~(activation'[b].status = "active" /\ activation'[b].sub = s)
    BY <1>a, <1>3 DEF ActiveOn
  <2> QED
    BY <1>4, <2>1 DEF ActiveOn
<1>7. ASSUME NEW t \in Subs \ {s} PROVE ActiveOn(t)' = ActiveOn(t)
  <2>1. \A b \in ActIds : /\ activation'[b].status = "active"
                          /\ activation'[b].sub = t
                          <=> /\ activation[b].status = "active"
                              /\ activation[b].sub = t
    BY <1>a, <1>3, <1>4, <1>5
  <2> QED
    BY <2>1 DEF ActiveOn
<1>8. Holder' = [Holder EXCEPT ![s] = d]
  <2>1. {n} \in SUBSET ActIds /\ \A a \in {n} : activation'[a].dev = d
    BY <1>4
  <2>2. \A a \in ActIds \ {n} : activation'[a].dev = activation[a].dev
    BY <1>3
  <2> QED
    BY <1>6, <1>7, <2>1, <2>2, SeatMoves
<1>9. \A c \in Creds : credential[c].status = "active" =>
          /\ credential[c].act \in ActIds \ {n}
          /\ activation'[credential[c].act].sub = activation[credential[c].act].sub
  BY <1>a, <1>3 DEF CredentialNeedsActiveDevice
<1>10. CASE ActiveOn(s) = {}
  <2>1. \A a \in as : activation[a].status # "active"
    BY <1>5, <1>10 DEF ActiveOn
  <2>2. ASSUME NEW c \in Creds PROVE credential'[c] = credential[c]
    <3>1. ~(credential[c].status = "active" /\ credential[c].act \in as)
      BY <2>1 DEF CredentialNeedsActiveDevice
    <3>2. IF credential[c].status = "active" /\ credential[c].act \in as
            THEN credential'[c].status = "revoked" /\ credential'[c].act = credential[c].act
            ELSE credential'[c] = credential[c]
      BY RevokedRows
    <3> QED
      BY <3>1, <3>2
  <2>3. \A t \in Subs : Key'[t] = Key[t]
    BY <1>9, <2>2, SameKey
  <2>4. Key' = Key /\ Spent' = Spent
    BY <2>2, <2>3 DEF Key, Spent
  <2>5. Holder[s] = None
    BY <1>10, HolderIs
  <2> QED
    BY <1>8, <2>4, <2>5 DEF Licence!Claim
<1>11. CASE ActiveOn(s) # {}
  <2>1. PICK a \in ActIds : a \in ActiveOn(s) /\ a \in as
    BY <1>a, <1>11 DEF ActiveOn
  <2>2. as = {a} /\ ActiveOn(s) = {a}
    <3>1. ActiveOn(s) = {a}
      BY <2>1 DEF OneActiveDevice
    <3>2. \A b \in as : b = a
      BY <1>5, <2>1
    <3> QED
      BY <2>1, <3>1, <3>2
  <2>3. Holder[s] \notin {None, d}
    BY <1>5, <2>1, HolderIsDevice
  <2>4. \A c \in Creds : c \in KeysOf(s) <=> /\ credential[c].status = "active"
                                             /\ credential[c].act \in as
    <3>1. \A c \in Creds : credential[c].status = "active" =>
              (activation[credential[c].act].sub = s <=> credential[c].act \in ActiveOn(s))
      BY DEF CredentialNeedsActiveDevice, ActiveOn
    <3> QED
      BY <2>2, <3>1, KeysAre
  <2>5. ASSUME NEW c \in Creds
        PROVE  IF c \in KeysOf(s)
                 THEN credential'[c].status = "revoked" /\ credential'[c].act = credential[c].act
                 ELSE credential'[c] = credential[c]
    <3>1. IF credential[c].status = "active" /\ credential[c].act \in as
            THEN credential'[c].status = "revoked" /\ credential'[c].act = credential[c].act
            ELSE credential'[c] = credential[c]
      BY RevokedRows
    <3> QED
      BY <2>4, <3>1
  <2>6. \A c \in KeysOf(s) : c \in Creds
    BY KeysAre
  <2>7. Key' = [Key EXCEPT ![s] = None] /\ Licence!Spend(s)
    BY <1>9, <2>5, <2>6, KeySpent
  <2> QED
    BY <1>8, <2>3, <2>7 DEF Licence!Replace
<1> QED
  BY <1>10, <1>11

\* A rotation issues the holder a key that nobody had before.
LEMMA RotationIssues ==
    ASSUME Inv, SeatInv, SeatInv', NEW r \in Req, IssueRotate(r)
    PROVE  \E s \in Subs, k \in Creds : Licence!IssueKey(s, k)
<1> USE DEF SeatInv
<1>0. RowsTyped /\ RowsOK /\ Local(req[r])
  BY DEF Inv, TypeOK, RowsTyped, LocalsOK
<1>1. PICK a \in ActIds : a = req[r].act /\ activation[a].status = "active"
  BY <1>0 DEF IssueRotate, At, Local, IssuedToActive
<1>2. PICK s \in Subs : s = activation[a].sub
  BY <1>0, <1>1 DEF RowsOK
<1>3. a \in ActiveOn(s)
  BY <1>1, <1>2 DEF ActiveOn
<1>4. activation' = activation
  BY Rotation
<1>5. PICK k \in Creds :
          /\ credential[k].status = "absent"
          /\ credential' = [RevokeCreds(ActiveCredsOf(a)) EXCEPT ![k] =
                               [status |-> "active", act |-> a]]
  BY <1>1 DEF IssueRotate
<1>6. RevokeCreds(ActiveCredsOf(a)) \in [Creds -> Credential]
  BY <1>0, RevokeCredsTyped DEF RowsTyped
<1>7. \A c \in Creds : c \in ActiveCredsOf(a) <=> c \in KeysOf(s)
  <2>1. \A c \in Creds : credential[c].status = "active" =>
            (activation[credential[c].act].sub = s <=> credential[c].act \in ActiveOn(s))
    BY DEF CredentialNeedsActiveDevice, ActiveOn
  <2>2. ActiveOn(s) = {a}
    BY <1>3 DEF OneActiveDevice
  <2> QED
    BY <2>1, <2>2, KeysAre DEF ActiveCredsOf
<1>8. /\ credential'[k] = [status |-> "active", act |-> a]
      /\ \A c \in Creds \ {k} :
            /\ credential'[c].act = credential[c].act
            /\ c \notin KeysOf(s) => credential'[c] = credential[c]
            /\ c \in KeysOf(s) => credential'[c].status = "revoked"
  <2>1. \A c \in Creds \ {k} : credential'[c] = RevokeCreds(ActiveCredsOf(a))[c]
    BY <1>5, <1>6
  <2> QED
    BY <1>0, <1>5, <1>6, <1>7, <2>1, RevocationKeepsRows
<1>9. \A c \in KeysOf(s) : c \in Creds \ {k} /\ credential[c].status = "active"
  BY <1>5, KeysAre
<1>10. \A t \in Subs : Key[t] # k
  <2> SUFFICES ASSUME NEW t \in Subs PROVE Key[t] # k
    OBVIOUS
  <2>1. CASE KeysOf(t) = {}
    BY <2>1, KeyIs, NoneIsFresh
  <2>2. ASSUME NEW c \in KeysOf(t) PROVE Key[t] # k
    <3>1. Key[t] = c
      BY <2>2, KeyIs
    <3>2. credential[c].status = "active"
      BY <2>2, KeysAre
    <3> QED
      BY <1>5, <3>1, <3>2
  <2> QED
    BY <2>1, <2>2
<1>11. k \notin Spent
  BY <1>5 DEF Spent
<1>12. Key'[s] = k
  <2>1. k \in KeysOf(s)'
    BY <1>2, <1>4, <1>8, KeysAreAfter
  <2> QED
    BY <2>1, KeyIsAfter
<1>13. ASSUME NEW t \in Subs \ {s} PROVE Key'[t] = Key[t]
  <2>1. \A c \in Creds : /\ credential'[c].status = "active"
                         /\ activation'[credential'[c].act].sub = t
                         <=> /\ credential[c].status = "active"
                             /\ activation[credential[c].act].sub = t
    BY <1>2, <1>4, <1>5, <1>8, KeysAre
  <2>2. KeysOf(t)' = KeysOf(t)
    BY <2>1, KeysAre, KeysAreAfter
  <2> QED
    BY <2>2, KeyIs, KeyIsAfter
<1>14. Spent' = Spent \cup KeysOf(s)
  <2>1. \A c \in Creds : c \in Spent' <=> c \in Spent \/ c \in KeysOf(s)
    BY <1>5, <1>8, <1>9 DEF Spent
  <2> QED
    BY <1>9, <2>1 DEF Spent
<1>15. Licence!Spend(s)
  BY <1>14, KeyIsSpent DEF Licence!Spend
<1>16. Holder' = Holder /\ Holder[s] # None
  BY <1>3, <1>4, HolderIsDevice DEF Holder, ActiveOn
<1>17. Key' = [Key EXCEPT ![s] = k]
  BY <1>12, <1>13, KeyMoves
<1> QED
  BY <1>10, <1>11, <1>15, <1>16, <1>17 DEF Licence!IssueKey

\* Every step of a request is one of the licence, or none.
LEMMA ActImplements ==
    ASSUME Inv, SeatInv, SeatInv', NEW r \in Req, Act(r)
    PROVE  [Licence!LicenceNext]_(Licence!licence)
<1>0. RowsTyped
  BY DEF Inv, TypeOK, RowsTyped
<1>1. CASE Quiet
  BY <1>1, LicenceStutters DEF Quiet
<1>2. CASE IssuePurge(r)
  <2>1. activation' = activation
    BY <1>2 DEF IssuePurge
  <2>2. \A c \in Creds : \/ credential'[c] = credential[c]
                         \/ /\ credential[c].status = "revoked"
                            /\ credential'[c].status = "purged"
                            /\ credential'[c].act = credential[c].act
    BY <1>0, <1>2 DEF IssuePurge, RowsTyped, Credential
  <2> QED
    BY <2>1, <2>2, LicenceStutters
<1>3. CASE Inserts(r, req[r].sub)
  BY <1>3, InsertClaims DEF Licence!LicenceNext
<1>4. CASE IssueRotate(r)
  BY <1>4, RotationIssues DEF Licence!LicenceNext
<1>5. ASSUME NEW as \in SUBSET ActIds, Revokes(r, as)
      PROVE  [Licence!LicenceNext]_(Licence!licence)
  <2>1. CASE activation' = Revoked(as)
    BY <1>5, <2>1, RevocationReleases DEF Licence!LicenceNext
  <2>2. ASSUME NEW n \in ActIds, HandsOver(r, as, n)
        PROVE  Licence!LicenceNext
    BY <1>5, <2>2, CommitReplaces DEF Licence!LicenceNext
  <2> QED
    BY <1>5, <2>1, <2>2 DEF Revokes, HandsOver
<1> QED
  BY <1>1, <1>2, <1>3, <1>4, <1>5, Writes

\* The register implements the licence: every interleaving of its statements claims,
\* replaces, releases and issues, one at a time, as DeviceLicence says.
THEOREM ImplementsLicenceHolds == Spec => ImplementsLicence
<1>1. Inv /\ SeatInv /\ SeatInv' /\ [Next]_vars => [Licence!LicenceNext]_(Licence!licence)
  <2> SUFFICES ASSUME Inv, SeatInv, SeatInv', [Next]_vars
               PROVE  [Licence!LicenceNext]_(Licence!licence)
    OBVIOUS
  <2>1. CASE Environment \/ UNCHANGED vars
    <3>1. UNCHANGED <<activation, credential>>
      BY <2>1 DEF Environment, TokenExpires, SubscriptionClock, SubscriptionUpdated, rows,
                  vars
    <3> QED
      BY <3>1, LicenceStutters
  <2> QED
    BY <2>1, ActImplements DEF Next, Act
<1> QED
  BY <1>1, InvHolds, SeatInvHolds, InitLicence, PTL
     DEF Spec, ImplementsLicence, Licence!LicenceSpec

-----------------------------------------------------------------------------
(* The answers of an authentication.                                        *)

\* The statements of an authentication that come after it found the credential.
PastTheCredential == {"auth_act", "auth_sub", "auth_touch_cred", "auth_touch_act"}

Dead(c) == credential[c].status \in {"revoked", "purged"}

\* What a call has seen by the time it is where it is: a strict call that is asked
\* again was refused for a closed subscription or a dead credential, and only the
\* former gets past the credential a second time.
Informed(r) ==
    /\ Calling(r) => req[r].pc \in PastTheCredential \cup {"auth_cred", "done"}
    /\ Calling(r) => FactsNow(r) \subseteq seen[r]
    /\ req[r].pc \in PastTheCredential => "linked" \in seen[r]
    /\ req[r].mode = "classify" /\ req[r].pc = "auth_cred" =>
          "closed" \in seen[r] \/ Dead(req[r].cred)
    /\ req[r].mode = "classify" /\ req[r].pc \in PastTheCredential => "closed" \in seen[r]
    /\ Accepted(r) => "linked" \in seen[r]
    /\ req[r].out = "denied403" => Calling(r) /\ "closed" \in seen[r]
    /\ req[r].out = "denied401" => Calling(r) /\ Dead(req[r].cred)

WindowInv == \A r \in Req : Informed(r)

\* The window only watches the register.
LEMMA WindowWatches == WindowSpec => Spec
<1>1. WindowInit => Init
  BY DEF WindowInit
<1>2. [WindowNext]_<<vars, seen>> => [Next]_vars
  BY DEF WindowNext
<1> QED
  BY <1>1, <1>2, PTL DEF WindowSpec, Spec

\* What a step adds to what a call has seen.
LEMMA Remembered ==
    ASSUME Remember, NEW r \in Req
    PROVE  /\ Calling(r)' => /\ FactsNow(r)' \subseteq seen'[r]
                             /\ seen[r] \subseteq seen'[r]
BY DEF Remember

\* A credential that was taken away stays so.
LEMMA DeadStaysDead ==
    ASSUME Inv, Next, NEW c \in Creds, Dead(c)
    PROVE  Dead(c)'
<1>1. CASE Environment
  BY <1>1 DEF Environment, TokenExpires, SubscriptionClock, SubscriptionUpdated, rows, Dead
<1> QED
  BY <1>1, WritesRespectRevocation DEF Next, Act, Dead

\* What a call has seen it has seen, whatever others do.
LEMMA OthersStayInformed ==
    ASSUME Inv, Next, Remember, NEW r \in Req, req'[r] = req[r], Informed(r)
    PROVE  Informed(r)'
<1>1. Calling(r)' <=> Calling(r)
  BY DEF Calling
<1>2. /\ Calling(r) => req[r].cred \in Creds
      /\ req[r].pc \in PastTheCredential => Calling(r)
  BY DEF Inv, LocalsOK, Local, Calling, PastTheCredential
<1>3. req[r].mode = "classify" => Calling(r)
  BY DEF Calling
<1>4. Accepted(r)' <=> Accepted(r)
  BY <1>1 DEF Accepted
<1>5. Calling(r) /\ Dead(req[r].cred) => Dead(req[r].cred)'
  <2> SUFFICES ASSUME Calling(r), Dead(req[r].cred) PROVE Dead(req[r].cred)'
    OBVIOUS
  <2>1. PICK c \in Creds : c = req[r].cred
    BY <1>2
  <2>2. Dead(c)'
    BY <2>1, DeadStaysDead
  <2> QED
    BY <2>1, <2>2 DEF Dead
<1>6. Accepted(r) => Calling(r)
  BY DEF Accepted
<1> QED
  BY <1>1, <1>2, <1>3, <1>4, <1>5, <1>6, Remembered DEF Informed

\* A request that is done, or is no call, with an answer that says nothing.
LEMMA NothingSaid ==
    ASSUME Remember, NEW r \in Req,
           req'[r].mode # "none" => /\ req'[r].pc \in {"auth_cred", "done"}
                                    /\ req'[r].mode # "classify" \/ req'[r].pc = "done",
           req'[r].mode # "none" => req'[r].out # "ok",
           req'[r].out \notin {"denied403", "denied401"},
           req'[r].pc \notin PastTheCredential
    PROVE  Informed(r)'
BY Remembered DEF Informed, Accepted, Calling

\* The requests that authenticate nobody say nothing of a credential.
LEMMA NoCallNoWord ==
    ASSUME Inv, NEW r \in Req, Step(r), req[r].mode = "none"
    PROVE  /\ req'[r].mode = "none"
           /\ req'[r].out \notin {"denied403", "denied401"}
           /\ req'[r].pc \notin PastTheCredential
<1> USE DEF PastTheCredential
<1>0. req \in [Req -> Request] /\ req[r] \in Request /\ Local(req[r])
  BY DEF Inv, TypeOK, LocalsOK
<1>a. ASSUME NEW q, Become(r, q) PROVE req'[r] = q
  BY <1>0, <1>a DEF Become
<1>b. ASSUME NEW out, Finish(r, out)
      PROVE  req'[r].pc = "done" /\ req'[r].out = out /\ req'[r].mode = req[r].mode
  BY <1>0, <1>a, <1>b DEF Finish, Request
<1>c. ASSUME NEW pc, Goto(r, pc), req[r].pc # "done"
      PROVE  req'[r].pc = pc /\ req'[r].mode = req[r].mode /\ req'[r].out = "none"
  BY <1>0, <1>a, <1>c DEF Goto, Request, Local
<1> USE DEF At
<1>1. CASE Reply(r)
  BY <1>a, <1>1 DEF Reply, IdleRequest
<1>2. CASE OutOfRows(r)
  BY <1>b, <1>2 DEF OutOfRows
<1>3. CASE SessionCheck(r) \/ SessionInsert(r) \/ SessionPurge(r)
  BY <1>b, <1>c, <1>3 DEF SessionCheck, SessionInsert, SessionPurge
<1>4. CASE RedeemLock(r)
  <2>1. ASSUME NEW s, Become(r, [req[r] EXCEPT !.pc = "redeem_subscription", !.sub = s]),
               req[r].pc # "done"
        PROVE  /\ req'[r].mode = req[r].mode /\ req'[r].out = "none"
               /\ req'[r].pc = "redeem_subscription"
    BY <1>0, <1>a, <2>1 DEF Request, Local
  <2>2. /\ req'[r].mode = req[r].mode
        /\ req'[r].out \in {"none", "invalid_token"}
        /\ req'[r].pc \in {"redeem_subscription", "done"}
    BY <1>b, <1>4, <2>1 DEF RedeemLock
  <2> QED
    BY <2>2
<1>5. CASE RedeemSubscription(r) \/ RedeemBurn(r)
  BY <1>b, <1>c, <1>5 DEF RedeemSubscription, RedeemBurn
<1>6. CASE RedeemExisting(r)
  <2>1. ASSUME NEW a, Become(r, [req[r] EXCEPT !.pc = "redeem_burn", !.act = a]),
               req[r].pc # "done"
        PROVE  /\ req'[r].mode = req[r].mode /\ req'[r].out = "none"
               /\ req'[r].pc = "redeem_burn"
    BY <1>0, <1>a, <2>1 DEF Request, Local
  <2>2. /\ req'[r].mode = req[r].mode /\ req'[r].out = "none"
        /\ req'[r].pc \in {"redeem_burn", "redeem_insert"}
    BY <1>c, <1>6, <2>1 DEF RedeemExisting
  <2> QED
    BY <2>2
<1>7. CASE RedeemInsert(r)
  <2>1. ASSUME NEW a, Become(r, [req[r] EXCEPT !.pc = "issue_lock", !.act = a]),
               req[r].pc # "done"
        PROVE  /\ req'[r].mode = req[r].mode /\ req'[r].out = "none"
               /\ req'[r].pc = "issue_lock"
    BY <1>0, <1>a, <2>1 DEF Request, Local
  <2>2. /\ req'[r].mode = req[r].mode
        /\ req'[r].out \in {"none", "device_limit"}
        /\ req'[r].pc \in {"issue_lock", "done"}
    BY <1>b, <1>7, <2>1 DEF RedeemInsert
  <2> QED
    BY <2>2
<1>8. CASE IssueLock(r) \/ IssueSubscription(r) \/ IssuePurge(r)
  BY <1>b, <1>c, <1>8 DEF IssueLock, IssueSubscription, IssuePurge
<1>9. CASE IssueRotate(r)
  <2>1. ASSUME NEW c, Become(r, [req[r] EXCEPT !.pc = "issue_purge", !.cred = c]),
               req[r].pc # "done"
        PROVE  /\ req'[r].mode = req[r].mode /\ req'[r].out = "none"
               /\ req'[r].pc = "issue_purge"
    BY <1>0, <1>a, <2>1 DEF Request, Local
  <2> QED
    BY <1>9, <2>1 DEF IssueRotate
<1>10. CASE DirectSubscription(r) \/ DirectRead(r) \/ DirectInsert(r)
  BY <1>b, <1>c, <1>10 DEF DirectSubscription, DirectRead, DirectInsert
<1>11. CASE ReplaceCheck(r) \/ ReplaceLock(r) \/ ReplaceTouch(r) \/ ReplaceRevoke(r)
            \/ ReplaceCommit(r)
  BY <1>b, <1>c, <1>11
     DEF ReplaceCheck, ReplaceLock, ReplaceTouch, ReplaceRevoke, ReplaceCommit
<1>12. CASE ReplaceRead(r)
  <2>1. ASSUME NEW a, NEW pc, Become(r, [req[r] EXCEPT !.act = a, !.pc = pc]),
               req[r].pc # "done"
        PROVE  req'[r].mode = req[r].mode /\ req'[r].out = "none" /\ req'[r].pc = pc
    BY <1>0, <1>a, <2>1 DEF Request, Local
  <2>2. /\ req'[r].mode = req[r].mode /\ req'[r].out = "none"
        /\ req'[r].pc \in {"replace_commit", "replace_touch", "replace_revoke"}
    BY <1>c, <1>12, <2>1 DEF ReplaceRead
  <2> QED
    BY <2>2
<1>13. CASE RevokeRead(r) \/ RevokeUpdate(r) \/ RevokeCascade(r)
  BY <1>b, <1>c, <1>13 DEF RevokeRead, RevokeUpdate, RevokeCascade
<1>14. CASE AuthCred(r) \/ AuthAct(r) \/ AuthSub(r) \/ AuthTouchCred(r) \/ AuthTouchAct(r)
  BY <1>0, <1>14 DEF AuthCred, AuthAct, AuthSub, AuthTouchCred, AuthTouchAct, Local
<1> QED
  BY <1>1, <1>2, <1>3, <1>4, <1>5, <1>6, <1>7, <1>8, <1>9, <1>10, <1>11, <1>12, <1>13,
     <1>14 DEF Step

\* What a call sees where it is: an active credential is of an active device, a
\* credential that is not active is dead, and a subscription that does not serve.
LEMMA CallSees ==
    ASSUME Inv, SeatInv, NEW r \in Req, Informed(r), Calling(r)
    PROVE  LET row == credential[req[r].cred] IN
           /\ row.status = "active" => "linked" \in seen[r]
           /\ row.status # "active" => Dead(req[r].cred)
           /\ activation[row.act].status # "active" => Dead(req[r].cred)
           /\ ~SqlServiceable(activation[row.act].sub) => "closed" \in seen[r]
<1>1. PICK c \in Creds : c = req[r].cred /\ credential[c].status # "absent"
  BY DEF Inv, LocalsOK, Local, Calling
<1>2. credential[c] \in Credential
  BY DEF Inv, TypeOK
<1>3. credential[c].status # "active" => Dead(c)
  BY <1>1, <1>2 DEF Credential, Dead
<1>4. credential[c].status = "active" => activation[credential[c].act].status = "active"
  BY DEF SeatInv, CredentialNeedsActiveDevice
<1>5. credential[c].status = "active" => "linked" \in FactsNow(r)
  BY <1>1, <1>4 DEF FactsNow, Facts, Linked
<1>6. ~SqlServiceable(activation[credential[c].act].sub) => "closed" \in FactsNow(r)
  BY <1>1 DEF FactsNow, Facts, Serves
<1>7. FactsNow(r) \subseteq seen[r]
  BY DEF Informed
<1> QED
  BY <1>1, <1>3, <1>4, <1>5, <1>6, <1>7

\* A statement of a call writes no row, so that what it saw stays seen.
LEMMA CallGoesOn ==
    ASSUME Remember, NEW r \in Req, UNCHANGED <<subscription, rows>>,
           req'[r].cred = req[r].cred, req'[r].mode # "none"
    PROVE  /\ FactsNow(r)' \subseteq seen'[r]
           /\ seen[r] \subseteq seen'[r]
           /\ Dead(req[r].cred) => Dead(req[r].cred)'
<1>1. Calling(r)'
  BY DEF Calling
<1>2. Dead(req[r].cred) => Dead(req[r].cred)'
  BY DEF rows, Dead
<1> QED
  BY <1>1, <1>2, Remembered

\* A refused call: a strict one is asked again, any other ends with a 401.
LEMMA RefusedCall ==
    ASSUME Inv, Remember, NEW r \in Req, Informed(r), Refuse(r),
           UNCHANGED <<subscription, rows>>,
           req[r].mode # "none", req[r].out = "none",
           \/ Dead(req[r].cred)
           \/ (req[r].mode = "strict" /\ "closed" \in seen[r])
    PROVE  Informed(r)'
<1>0. req \in [Req -> Request] /\ req[r] \in Request
  BY DEF Inv, TypeOK
<1>1. CASE req[r].mode = "strict"
  <2>1. /\ req'[r].pc = "auth_cred" /\ req'[r].mode = "classify"
        /\ req'[r].cred = req[r].cred /\ req'[r].out = "none"
    BY <1>0, <1>1 DEF Refuse, Become, Request
  <2>2. "closed" \in seen'[r] \/ Dead(req[r].cred)'
    BY <2>1, CallGoesOn
  <2>3. FactsNow(r)' \subseteq seen'[r]
    BY <2>1, CallGoesOn
  <2> QED
    BY <2>1, <2>2, <2>3 DEF Informed, Calling, Accepted, PastTheCredential
<1>2. CASE req[r].mode # "strict"
  <2>1. /\ req'[r].pc = "done" /\ req'[r].mode = req[r].mode
        /\ req'[r].cred = req[r].cred /\ req'[r].out = "denied401"
    BY <1>0, <1>2 DEF Refuse, Finish, Become, Request
  <2>2. Dead(req[r].cred)' /\ FactsNow(r)' \subseteq seen'[r]
    BY <1>2, <2>1, CallGoesOn
  <2> QED
    BY <2>1, <2>2 DEF Informed, Calling, Accepted, PastTheCredential
<1> QED
  BY <1>1, <1>2

\* A call that found what it asked for goes on, or answers.
LEMMA ServedCall ==
    ASSUME Inv, Remember, NEW r \in Req, Informed(r), Calling(r),
           UNCHANGED <<subscription, rows>>,
           req'[r].mode = req[r].mode, req'[r].cred = req[r].cred,
           "linked" \in seen[r],
           req[r].mode = "classify" => "closed" \in seen[r],
           \/ req'[r].pc \in PastTheCredential /\ req'[r].out = "none"
           \/ /\ req'[r].pc = "done"
              /\ req'[r].out = IF req[r].mode = "classify" THEN "denied403" ELSE "ok"
    PROVE  Informed(r)'
<1>1. /\ FactsNow(r)' \subseteq seen'[r]
      /\ seen[r] \subseteq seen'[r]
  BY CallGoesOn DEF Calling
<1>2. Calling(r)'
  BY DEF Calling
<1>3. req'[r].out \in {"none", "denied403", "ok"}
  OBVIOUS
<1>4. req'[r].out = "denied403" => req[r].mode = "classify"
  OBVIOUS
<1> QED
  BY <1>1, <1>2, <1>3, <1>4 DEF Informed, Accepted, PastTheCredential

\* The statements of an authentication.
LEMMA CallStaysInformed ==
    ASSUME Inv, SeatInv, Remember, NEW r \in Req, Informed(r),
           \/ AuthCred(r) \/ AuthAct(r) \/ AuthSub(r)
           \/ AuthTouchCred(r) \/ AuthTouchAct(r)
    PROVE  Informed(r)'
<1>0. req \in [Req -> Request] /\ req[r] \in Request /\ Local(req[r])
  BY DEF Inv, TypeOK, LocalsOK
<1>1. /\ req[r].mode # "none" /\ req[r].out = "none" /\ Calling(r)
      /\ UNCHANGED <<subscription, rows>>
  BY <1>0 DEF AuthCred, AuthAct, AuthSub, AuthTouchCred, AuthTouchAct, At, Local, Calling
<1>2. /\ credential[req[r].cred].status = "active" => "linked" \in seen[r]
      /\ credential[req[r].cred].status # "active" => Dead(req[r].cred)
      /\ activation[credential[req[r].cred].act].status # "active" => Dead(req[r].cred)
      /\ ~SqlServiceable(activation[credential[req[r].cred].act].sub) => "closed" \in seen[r]
  BY <1>1, CallSees
<1>3. CASE AuthCred(r)
  <2>1. CASE credential[req[r].cred].status # "active"
    BY <1>1, <1>2, <1>3, <2>1, RefusedCall DEF AuthCred
  <2>2. CASE credential[req[r].cred].status = "active"
    <3>1. PICK a : Become(r, [req[r] EXCEPT !.pc = "auth_act", !.act = a])
      BY <1>3, <2>2 DEF AuthCred
    <3>2. /\ req'[r].mode = req[r].mode /\ req'[r].cred = req[r].cred
          /\ req'[r].pc \in PastTheCredential /\ req'[r].out = "none"
      BY <1>0, <1>1, <3>1 DEF Become, Request, PastTheCredential
    <3>3. ~Dead(req[r].cred)
      BY <2>2 DEF Dead
    <3>4. req[r].mode = "classify" => "closed" \in seen[r]
      BY <1>3, <3>3 DEF Informed, AuthCred, At
    <3> QED
      BY <1>1, <1>2, <2>2, <3>2, <3>4, ServedCall
  <2> QED
    BY <2>1, <2>2
<1>4. ASSUME req[r].pc \in PastTheCredential
      PROVE  "linked" \in seen[r] /\ (req[r].mode = "classify" => "closed" \in seen[r])
  BY <1>4 DEF Informed
<1>5. CASE AuthAct(r)
  <2>0. /\ req[r].pc \in PastTheCredential
        /\ req[r].act = credential[req[r].cred].act
    BY <1>0, <1>5 DEF AuthAct, At, PastTheCredential, Local
  <2>1. CASE activation[req[r].act].status # "active"
    BY <1>1, <1>2, <1>5, <2>0, <2>1, RefusedCall DEF AuthAct
  <2>2. CASE activation[req[r].act].status = "active"
    <3>1. PICK s : Become(r, [req[r] EXCEPT !.pc = "auth_sub", !.sub = s])
      BY <1>5, <2>2 DEF AuthAct
    <3>2. /\ req'[r].mode = req[r].mode /\ req'[r].cred = req[r].cred
          /\ req'[r].pc \in PastTheCredential /\ req'[r].out = "none"
      BY <1>0, <1>1, <3>1 DEF Become, Request, PastTheCredential
    <3> QED
      BY <1>1, <1>4, <2>0, <3>2, ServedCall
  <2> QED
    BY <2>1, <2>2
<1>6. CASE AuthSub(r)
  <2>0. /\ req[r].pc \in PastTheCredential
        /\ req[r].act = credential[req[r].cred].act
        /\ req[r].sub = activation[req[r].act].sub
    BY <1>0, <1>1, <1>6 DEF AuthSub, At, PastTheCredential, Local
  <2>1. CASE req[r].mode = "strict" /\ ~SqlServiceable(req[r].sub)
    <3>1. "closed" \in seen[r]
      BY <1>2, <2>0, <2>1
    <3> QED
      BY <1>1, <1>6, <2>1, <3>1, RefusedCall DEF AuthSub
  <2>2. CASE ~(req[r].mode = "strict" /\ ~SqlServiceable(req[r].sub))
    <3>1. Goto(r, "auth_touch_cred")
      BY <1>6, <2>2 DEF AuthSub
    <3>2. /\ req'[r].mode = req[r].mode /\ req'[r].cred = req[r].cred
          /\ req'[r].pc \in PastTheCredential /\ req'[r].out = "none"
      BY <1>0, <1>1, <3>1 DEF Goto, Become, Request, PastTheCredential
    <3> QED
      BY <1>1, <1>4, <2>0, <3>2, ServedCall
  <2> QED
    BY <2>1, <2>2
<1>7. CASE AuthTouchCred(r)
  <2>0. req[r].pc \in PastTheCredential
    BY <1>7 DEF AuthTouchCred, At, PastTheCredential
  <2>1. /\ req'[r].mode = req[r].mode /\ req'[r].cred = req[r].cred
        /\ req'[r].pc \in PastTheCredential /\ req'[r].out = "none"
    BY <1>0, <1>1, <1>7 DEF AuthTouchCred, Goto, Become, Request, PastTheCredential
  <2> QED
    BY <1>1, <1>4, <2>0, <2>1, ServedCall
<1>8. CASE AuthTouchAct(r)
  <2>0. req[r].pc \in PastTheCredential
    BY <1>8 DEF AuthTouchAct, At, PastTheCredential
  <2>1. /\ req'[r].mode = req[r].mode /\ req'[r].cred = req[r].cred
        /\ req'[r].pc = "done"
        /\ req'[r].out = IF req[r].mode = "classify" THEN "denied403" ELSE "ok"
    BY <1>0, <1>8 DEF AuthTouchAct, Finish, Become, Request
  <2> QED
    BY <1>1, <1>4, <2>0, <2>1, ServedCall
<1> QED
  BY <1>3, <1>5, <1>6, <1>7, <1>8

\* A request that begins asks about a credential, or is no call.
LEMMA BegunIsInformed ==
    ASSUME Inv, Remember, NEW r \in Req, Begin(r)
    PROVE  Informed(r)'
<1>0. req \in [Req -> Request]
  BY DEF Inv, TypeOK
<1>1. ASSUME NEW pc, NEW q, Start(r, pc, q), q.out = "none", q \in Request
      PROVE  req'[r].pc = pc /\ req'[r].mode = q.mode /\ req'[r].out = "none"
  BY <1>0, <1>1 DEF Start, Become, Request
<1>2. IdleRequest \in Request /\ IdleRequest.out = "none" /\ IdleRequest.mode = "none"
  BY IdleTyped DEF IdleRequest
<1>3. CASE \E c \in Creds, mode \in {"strict", "lax"} : StartAuth(r, c, mode)
  <2>1. PICK c \in Creds, mode \in {"strict", "lax"} : StartAuth(r, c, mode)
    BY <1>3
  <2> DEFINE q == [IdleRequest EXCEPT !.cred = c, !.mode = mode]
  <2>2. q \in Request /\ q.out = "none" /\ q.mode = mode
    BY <1>2 DEF Request
  <2>3. req'[r].pc = "auth_cred" /\ req'[r].mode = mode /\ req'[r].out = "none"
    BY <1>1, <2>1, <2>2 DEF StartAuth
  <2> QED
    BY <2>3, NothingSaid DEF PastTheCredential
<1>4. CASE ~\E c \in Creds, mode \in {"strict", "lax"} : StartAuth(r, c, mode)
  <2>1. PICK pc \in {"session_check", "redeem_lock", "direct_subscription",
                     "replace_check", "revoke_read"}, q \in Request :
            Start(r, pc, q) /\ q.out = "none" /\ q.mode = "none"
    <3>1. CASE \E s \in Subs : StartSession(r, s)
      BY <1>2, <3>1 DEF StartSession, Request
    <3>2. CASE \E t \in Tokens, d \in Devices : StartActivate(r, t, d)
      <4>1. PICK t \in Tokens, d \in Devices : StartActivate(r, t, d)
        BY <3>2
      <4> DEFINE q == [IdleRequest EXCEPT !.tok = t, !.dev = d]
      <4>2. q \in Request /\ q.out = "none" /\ q.mode = "none"
        BY <1>2 DEF Request
      <4>3. Start(r, "redeem_lock", q)
        BY <4>1 DEF StartActivate
      <4> QED
        BY <4>2, <4>3
    <3>3. CASE \E s \in Subs, d \in Devices : StartDirect(r, s, d)
      <4>1. PICK s \in Subs, d \in Devices : StartDirect(r, s, d)
        BY <3>3
      <4> DEFINE q == [IdleRequest EXCEPT !.sub = s, !.dev = d]
      <4>2. q \in Request /\ q.out = "none" /\ q.mode = "none"
        BY <1>2 DEF Request
      <4>3. Start(r, "direct_subscription", q)
        BY <4>1 DEF StartDirect
      <4> QED
        BY <4>2, <4>3
    <3>4. CASE \E s \in Subs, d \in Devices : StartReplace(r, s, d)
      <4>1. PICK s \in Subs, d \in Devices : StartReplace(r, s, d)
        BY <3>4
      <4> DEFINE q == [IdleRequest EXCEPT !.sub = s, !.dev = d]
      <4>2. q \in Request /\ q.out = "none" /\ q.mode = "none"
        BY <1>2 DEF Request
      <4>3. Start(r, "replace_check", q)
        BY <4>1 DEF StartReplace
      <4> QED
        BY <4>2, <4>3
    <3>5. CASE \E s \in Subs, a \in ActIds : StartRevoke(r, s, a)
      <4>1. PICK s \in Subs, a \in ActIds : StartRevoke(r, s, a)
        BY <3>5
      <4> DEFINE q == [IdleRequest EXCEPT !.sub = s, !.act = a]
      <4>2. q \in Request /\ q.out = "none" /\ q.mode = "none"
        BY <1>2 DEF Request
      <4>3. Start(r, "revoke_read", q)
        BY <4>1 DEF StartRevoke
      <4> QED
        BY <4>2, <4>3
    <3> QED
      BY <1>4, <3>1, <3>2, <3>3, <3>4, <3>5 DEF Begin
  <2>2. req'[r].pc = pc /\ req'[r].mode = "none" /\ req'[r].out = "none"
    BY <1>1, <2>1
  <2> QED
    BY <2>2, NothingSaid DEF PastTheCredential
<1> QED
  BY <1>3, <1>4

\* A request that dies says nothing.
LEMMA FailedIsInformed ==
    ASSUME Inv, Remember, NEW r \in Req, Finish(r, "unavailable")
    PROVE  Informed(r)'
<1>1. req'[r].pc = "done" /\ req'[r].out = "unavailable"
  BY DEF Inv, TypeOK, Finish, Become, Request
<1> QED
  BY <1>1, NothingSaid DEF PastTheCredential

\* A statement of r leaves it informed.
LEMMA ActorStaysInformed ==
    ASSUME Inv, SeatInv, Remember, NEW r \in Req, Informed(r), Act(r)
    PROVE  Informed(r)'
<1>0. req \in [Req -> Request] /\ req[r] \in Request /\ Local(req[r])
  BY DEF Inv, TypeOK, LocalsOK
<1>1. CASE Begin(r)
  BY <1>1, BegunIsInformed
<1>2. CASE Abort(r) \/ DeadlockVictim(r) \/ OutOfRows(r)
  BY <1>2, FailedIsInformed DEF Abort, DeadlockVictim, OutOfRows
<1>3. CASE Reply(r)
  <2>1. req'[r] = IdleRequest
    BY <1>0, <1>3 DEF Reply, Become
  <2> QED
    BY <2>1, NothingSaid DEF IdleRequest, PastTheCredential
<1>4. CASE Step(r) /\ req[r].mode = "none"
  BY <1>4, NoCallNoWord, NothingSaid
<1>5. CASE Step(r) /\ ~Reply(r) /\ ~OutOfRows(r) /\ req[r].mode # "none"
  <2>1. req[r].pc \in PastTheCredential \cup {"auth_cred", "done"}
    BY <1>5 DEF Informed, Calling
  <2>2. \/ AuthCred(r) \/ AuthAct(r) \/ AuthSub(r)
        \/ AuthTouchCred(r) \/ AuthTouchAct(r)
    BY <1>5, <2>1
       DEF Step, At, PastTheCredential, SessionCheck, SessionInsert, SessionPurge,
           RedeemLock, RedeemSubscription, RedeemExisting, RedeemBurn, RedeemInsert,
           IssueLock, IssueSubscription, IssueRotate, IssuePurge, DirectSubscription,
           DirectRead, DirectInsert, ReplaceCheck, ReplaceLock, ReplaceRead,
           ReplaceTouch, ReplaceRevoke, ReplaceCommit, RevokeRead, RevokeUpdate,
           RevokeCascade
  <2> QED
    BY <2>2, CallStaysInformed
<1> QED
  BY <1>1, <1>2, <1>3, <1>4, <1>5 DEF Act

\* No request has said anything yet.
LEMMA InitWindow == WindowInit => WindowInv
BY DEF WindowInit, Init, IdleRequest, WindowInv, Informed, Calling, Accepted,
       PastTheCredential

\* Every step leaves every call informed.
LEMMA NextWindow ==
    Inv /\ SeatInv /\ WindowInv /\ [WindowNext]_<<vars, seen>> => WindowInv'
<1> SUFFICES ASSUME Inv, SeatInv, WindowInv, [WindowNext]_<<vars, seen>>, NEW p \in Req
             PROVE  Informed(p)'
  BY DEF WindowInv
<1>0. Informed(p)
  BY DEF WindowInv
<1>1. CASE UNCHANGED <<vars, seen>>
  BY <1>0, <1>1 DEF vars, Informed, Calling, FactsNow, Linked, Serves, SqlServiceable,
                    Accepted, Dead
<1>2. CASE WindowNext /\ Environment
  <2>1. req' = req
    BY <1>2 DEF Environment, TokenExpires, SubscriptionClock, SubscriptionUpdated
  <2> QED
    BY <1>0, <1>2, <2>1, OthersStayInformed DEF WindowNext
<1>3. CASE WindowNext /\ ~Environment
  <2>1. PICK r \in Req : Act(r)
    BY <1>3 DEF WindowNext, Next, Act
  <2>2. CASE p = r
    BY <1>0, <1>3, <2>1, <2>2, ActorStaysInformed DEF WindowNext
  <2>3. CASE p # r
    <3>1. req'[p] = req[p]
      BY <2>1, <2>3, OthersWait DEF Inv
    <3> QED
      BY <1>0, <1>3, <3>1, OthersStayInformed DEF WindowNext
  <2> QED
    BY <2>2, <2>3
<1> QED
  BY <1>1, <1>2, <1>3

\* What a call has been told it knows.
LEMMA InformedIsTrue == WindowInv => AnswersWereTrue
BY DEF WindowInv, Informed, AnswersWereTrue, AcceptedWasLinked, ForbiddenWasClosed,
       RefusedCredentialIsDead, Dead

\* Whatever commits between the three reads of an authentication, its answer was
\* true at some moment of the call (api/runtime.py:166-215).
THEOREM AnswersWereTrueHolds == WindowSpec => []AnswersWereTrue
<1>1. WindowSpec => []Inv /\ []SeatInv
  BY WindowWatches, InvHolds, SeatInvHolds, PTL
<1> QED
  BY <1>1, InitWindow, NextWindow, InformedIsTrue, PTL DEF WindowSpec
=============================================================================
