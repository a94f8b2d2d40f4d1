--------------------------- MODULE DirectoryProofs ---------------------------
(***************************************************************************)
(* Directory for every number of requests, organizations and accounts.     *)
(* The inductive invariant ties a request under way to the rows it read    *)
(* before: the account it came from is still there, in the organization    *)
(* the request works in (an account never moves), and who changes rights   *)
(* or states has been found to change those of another.  For the seats it  *)
(* also says that accounts are in organizations that are there and that a  *)
(* licence never had more seats than its peak: a seat that was free when a *)
(* request looked for it bounds all that the others may take meanwhile.    *)
(***************************************************************************)
EXTENDS Directory, FiniteSetTheorems, TLAPS

TokenPC == {"entitle", "look", "seat", "write", "ticket"}

KeyPC == {"organization", "admin", "subscribe", "merge"}

CallPending(q, us) == q.pc \in {"entitle", "look", "seat", "write"}

\* The caller of q and the account table us agree.
CallerIsThere(q, us) ==
    /\ q.by # None => q.by \in UserIds /\ us[q.by] # None /\ q.org = us[q.by].org
    /\ q.pc \in TokenPC => q.by # None
    /\ q.pc \in KeyPC => q.by = None

\* What the next store call of q is given.
PayloadIsThere(q) ==
    /\ q.pc \in TokenPC => /\ q.op = "create" => q.email \in Emails /\ q.newRole \in Roles
                           /\ q.op \in {"update", "disable"} => q.target \in UserIds
                           /\ q.op = "disable" => q.active \in {FALSE, None}
                           /\ q.op = "slug" => q.slug \in Slugs
    /\ q.pc \in {"organization", "admin"} =>
          q.op = "provision" /\ q.slug \in Slugs /\ q.email \in Emails
    /\ q.pc \in {"admin", "subscribe", "merge"} => q.org \in Orgs
    /\ q.pc = "merge" => q.seen \in SubRow

\* Rights and states are another's.
RightsOfAnother(q) ==
    /\ q.pc \in {"seat", "write"} /\ q.op \in {"update", "disable"}
    /\ q.newRole # None \/ q.active # None
    => q.by # q.target

Proper(q, us) == CallerIsThere(q, us) /\ PayloadIsThere(q) /\ RightsOfAnother(q)

DirInv == TypeOK /\ IdentitiesAreUnique /\ \A r \in Req : Proper(req[r], users)

\* The bodies of the two action properties.
AdminsStep ==
    \A o \in Orgs : ActiveAdmins(o) # {} /\ ActiveAdmins(o)' = {} =>
          \E r \in Req : /\ At(r, "write") /\ req[r].pc # req'[r].pc
                          /\ req[r].org = o /\ req[r].by \notin ActiveAdmins(o)

TenantsStep ==
    \A r \in Req : req'[r] # req[r] /\ req[r].by # None =>
          /\ subs' = subs
          /\ \A o \in Orgs \ {users[req[r].by].org} :
                orgs'[o] = orgs[o] /\ ListUsers(o)' = ListUsers(o)
          /\ \A u \in Known : users'[u] # users[u] => users[u].org = users[req[r].by].org

StepOK == DirInv' /\ AdminsStep /\ TenantsStep

-----------------------------------------------------------------------------
(* Requests.                                                               *)

LEMMA BlankRow == Blank \in Request /\ Proper(Blank, users)
  BY StoreAssumption
  DEF Blank, Request, CallPC, Proper, CallerIsThere, PayloadIsThere, RightsOfAnother, TokenPC, KeyPC

LEMMA ParkRow ==
    ASSUME NEW q \in Request, NEW pc \in CallPC
    PROVE  LET row == [q EXCEPT !.pc = pc]
           IN  /\ row \in Request /\ row.pc = pc /\ row.op = q.op /\ row.by = q.by
               /\ row.org = q.org /\ row.target = q.target /\ row.email = q.email
               /\ row.newRole = q.newRole /\ row.active = q.active /\ row.slug = q.slug
               /\ row.seen = q.seen /\ row.role = q.role
  BY DEF Request

\* One field at a time: a request with another value in it is a request.
LEMMA FieldRows ==
    ASSUME NEW q \in Request
    PROVE  /\ \A v \in CallPC : [q EXCEPT !.pc = v] \in Request
           /\ \A v \in Operation \cup {None} : [q EXCEPT !.op = v] \in Request
           /\ \A v \in UserIds \cup {None} : [q EXCEPT !.by = v] \in Request
           /\ \A v \in UserIds \cup {None} : [q EXCEPT !.target = v] \in Request
           /\ \A v \in Orgs \cup {None} : [q EXCEPT !.org = v] \in Request
           /\ \A v \in Emails \cup {None} : [q EXCEPT !.email = v] \in Request
           /\ \A v \in Roles \cup {None} : [q EXCEPT !.role = v] \in Request
           /\ \A v \in Roles \cup {None} : [q EXCEPT !.newRole = v] \in Request
           /\ \A v \in BOOLEAN \cup {None} : [q EXCEPT !.active = v] \in Request
           /\ \A v \in Slugs \cup {None} : [q EXCEPT !.slug = v] \in Request
           /\ \A v \in Statuses \cup {None} : [q EXCEPT !.status = v] \in Request
           /\ \A v \in SeatCounts \cup {None} : [q EXCEPT !.seats = v] \in Request
           /\ \A v \in (1 .. LastDay) \cup {None} : [q EXCEPT !.expires = v] \in Request
           /\ \A v \in SubRow \cup {None} : [q EXCEPT !.seen = v] \in Request
<1>1. \A v \in CallPC : [q EXCEPT !.pc = v] \in Request
  BY DEF Request
<1>2. \A v \in Operation \cup {None} : [q EXCEPT !.op = v] \in Request
  BY DEF Request
<1>3. \A v \in UserIds \cup {None} : [q EXCEPT !.by = v] \in Request
  BY DEF Request
<1>4. \A v \in UserIds \cup {None} : [q EXCEPT !.target = v] \in Request
  BY DEF Request
<1>5. \A v \in Orgs \cup {None} : [q EXCEPT !.org = v] \in Request
  BY DEF Request
<1>6. \A v \in Emails \cup {None} : [q EXCEPT !.email = v] \in Request
  BY DEF Request
<1>7. \A v \in Roles \cup {None} : [q EXCEPT !.role = v] \in Request
  BY DEF Request
<1>8. \A v \in Roles \cup {None} : [q EXCEPT !.newRole = v] \in Request
  BY DEF Request
<1>9. \A v \in BOOLEAN \cup {None} : [q EXCEPT !.active = v] \in Request
  BY DEF Request
<1>10. \A v \in Slugs \cup {None} : [q EXCEPT !.slug = v] \in Request
  BY DEF Request
<1>11. \A v \in Statuses \cup {None} : [q EXCEPT !.status = v] \in Request
  BY DEF Request
<1>12. \A v \in SeatCounts \cup {None} : [q EXCEPT !.seats = v] \in Request
  BY DEF Request
<1>13. \A v \in (1 .. LastDay) \cup {None} : [q EXCEPT !.expires = v] \in Request
  BY DEF Request
<1>14. \A v \in SubRow \cup {None} : [q EXCEPT !.seen = v] \in Request
  BY DEF Request
<1> QED BY <1>1, <1>2, <1>3, <1>4, <1>5, <1>6, <1>7, <1>8, <1>9, <1>10, <1>11, <1>12, <1>13, <1>14

LEMMA RecordRow ==
    ASSUME NEW q \in Request, NEW us, CallerIsThere(q, us)
    PROVE  LET row == [Blank EXCEPT !.pc = "audit", !.op = q.op, !.by = q.by, !.org = q.org]
           IN  row \in Request /\ Proper(row, us) /\ row.pc = "audit"
<1> DEFINE row == [Blank EXCEPT !.pc = "audit", !.op = q.op, !.by = q.by, !.org = q.org]
<1>1. /\ row \in Request /\ row.pc = "audit" /\ row.by = q.by /\ row.org = q.org
  <2>1. q.op \in Operation \cup {None} /\ q.by \in UserIds \cup {None} /\ q.org \in Orgs \cup {None}
    BY DEF Request
  <2> DEFINE b1 == [Blank EXCEPT !.pc = "audit"]
             b2 == [b1 EXCEPT !.op = q.op]
             b3 == [b2 EXCEPT !.by = q.by]
  <2>2. b1 \in Request /\ b1.pc = "audit"
    <3>1. b1 \in Request
      BY BlankRow, FieldRows DEF CallPC
    <3> QED BY <3>1, BlankRow DEF Request
  <2> HIDE DEF b1
  <2>3. b2 \in Request /\ b2.pc = "audit"
    BY <2>1, <2>2, FieldRows DEF Request
  <2> HIDE DEF b2
  <2>4. b3 \in Request /\ b3.pc = "audit" /\ b3.by = q.by
    BY <2>1, <2>3, FieldRows DEF Request
  <2> HIDE DEF b3
  <2>5. LET b4 == [b3 EXCEPT !.org = q.org]
        IN  b4 \in Request /\ b4.pc = "audit" /\ b4.by = q.by /\ b4.org = q.org
    BY <2>1, <2>4, FieldRows DEF Request
  <2> QED BY <2>5 DEF b3, b2, b1
<1> HIDE DEF row
<1>2. Proper(row, us)
  BY <1>1 DEF Proper, CallerIsThere, PayloadIsThere, RightsOfAnother, TokenPC, KeyPC
<1> QED BY <1>1, <1>2 DEF row

\* The request of r becomes row, and every account stays where it was.
LEMMA RequestsStayProper ==
    ASSUME DirInv, NEW r \in Req, NEW row \in Request, req' = [req EXCEPT ![r] = row],
           \A u \in UserIds : users[u] # None => users'[u] # None /\ users'[u].org = users[u].org,
           Proper(row, users')
    PROVE  req' \in [Req -> Request] /\ \A q \in Req : Proper(req[q], users)'
<1>1. req \in [Req -> Request]
  BY DEF DirInv, TypeOK
<1>2. ASSUME NEW q \in Req PROVE Proper(req'[q], users')
  <2>1. CASE q = r
    BY <1>1, <2>1
  <2>2. CASE q # r
    <3>1. req'[q] = req[q] /\ Proper(req[q], users)
      BY <1>1, <2>2 DEF DirInv
    <3> QED BY <3>1 DEF Proper, CallerIsThere
  <2> QED BY <2>1, <2>2
<1> QED BY <1>1, <1>2

\* A step that writes no row.
LEMMA QuietStep ==
    ASSUME DirInv, NEW r \in Req, NEW row \in Request, req' = [req EXCEPT ![r] = row],
           Proper(row, users), UNCHANGED <<config, today, stores, peak>>,
           tokens' = tokens \/ (req[r].pc = "ticket" /\ tokens' = tokens \cup {req[r].by})
    PROVE  StepOK
<1>1. /\ provider' = provider /\ routes' = routes /\ today' = today /\ orgs' = orgs
      /\ users' = users /\ subs' = subs /\ peak' = peak
  BY DEF config, stores
<1>2. req' \in [Req -> Request] /\ \A q \in Req : Proper(req[q], users)'
  BY <1>1, RequestsStayProper
<1>3. tokens' \subseteq Known'
  BY <1>1 DEF DirInv, TypeOK, Known, Proper, CallerIsThere, TokenPC
<1>4. DirInv'
  BY <1>1, <1>2, <1>3 DEF DirInv, TypeOK, IdentitiesAreUnique
<1>5. AdminsStep
  BY <1>1 DEF AdminsStep, ActiveAdmins, ActiveUsers, ListUsers, Known
<1>6. TenantsStep
  BY <1>1 DEF TenantsStep, ListUsers, Known
<1> QED BY <1>4, <1>5, <1>6 DEF StepOK

LEMMA AnswerStep ==
    ASSUME DirInv, NEW r \in Req, Answer(r), UNCHANGED <<config, today, stores, tokens, peak>>
    PROVE  StepOK
  BY BlankRow, QuietStep DEF Answer

LEMMA ParkStep ==
    ASSUME DirInv, NEW r \in Req, NEW pc \in CallPC, Park(r, pc),
           Proper([req[r] EXCEPT !.pc = pc], users),
           UNCHANGED <<config, today, stores, tokens, peak>>
    PROVE  StepOK
<1>1. req[r] \in Request
  BY DEF DirInv, TypeOK
<1>2. [req[r] EXCEPT !.pc = pc] \in Request
  BY <1>1, ParkRow
<1> QED BY <1>2, QuietStep DEF Park

-----------------------------------------------------------------------------
(* Steps that decide.                                                      *)

LEMMA LoginStep ==
    ASSUME DirInv, NEW r \in Req, NEW e \in Emails, FindCandidate(r, e)
    PROVE  StepOK
<1>1. PICK u \in Known : req' = [req EXCEPT ![r] = [Blank EXCEPT !.pc = "ticket", !.op = "login",
                                            !.by = u, !.org = users[u].org]]
  BY DEF FindCandidate, FindLoginCandidates
<1> DEFINE row == [Blank EXCEPT !.pc = "ticket", !.op = "login", !.by = u, !.org = users[u].org]
<1>2. u \in UserIds /\ users[u] # None /\ users[u].org \in Orgs
  BY DEF Known, DirInv, TypeOK, UserRow
<1>3. /\ row \in Request /\ row.pc = "ticket" /\ row.op = "login" /\ row.by = u
      /\ row.org = users[u].org
  BY <1>2 DEF Blank, Request, CallPC, Operation
<1> HIDE DEF row
<1>4. Proper(row, users)
  BY <1>2, <1>3, StoreAssumption
  DEF Proper, CallerIsThere, PayloadIsThere, RightsOfAnother, TokenPC, KeyPC
<1> QED BY <1>1, <1>3, <1>4, QuietStep DEF FindCandidate, row

LEMMA TicketStep ==
    ASSUME DirInv, NEW r \in Req, CreateAccessToken(r)
    PROVE  StepOK
<1>1. req[r] \in Request /\ Proper(req[r], users) /\ req[r].pc = "ticket"
  BY DEF DirInv, TypeOK, CreateAccessToken, At
<1>2. CASE tokens' = tokens \cup {req[r].by} /\ Record(r)
  BY <1>1, <1>2, RecordRow, QuietStep DEF CreateAccessToken, Record, Proper
<1>3. CASE Answer(r) /\ UNCHANGED tokens
  BY <1>3, AnswerStep DEF CreateAccessToken
<1> QED BY <1>2, <1>3 DEF CreateAccessToken

\* The calls of TokenCalls, as ResolveCurrentUser admits them.
LEMMA CallRow ==
    ASSUME DirInv, NEW c \in TokenCalls
    PROVE  /\ c \in Request
           /\ c.op = "create" => c.email \in Emails /\ c.newRole \in Roles
           /\ c.op \in {"update", "disable"} => c.target \in UserIds
           /\ c.op = "disable" => c.active \in {FALSE, None}
           /\ c.op = "slug" => c.slug \in Slugs
<1> USE DEF Operation
<1>1. CASE c \in CreateCalls
  <2>1. PICK e \in Emails, role \in Roles : c = CreateCall(e, role)
    BY <1>1 DEF CreateCalls
  <2>2. c.op = "create" /\ c.email = e /\ c.newRole = role
    BY <2>1 DEF CreateCall, Blank
  <2> DEFINE b1 == [Blank EXCEPT !.op = "create"]
             b2 == [b1 EXCEPT !.email = e]
  <2>3. b1 \in Request
    BY BlankRow, FieldRows
  <2> HIDE DEF b1
  <2>4. b2 \in Request
    BY <2>3, FieldRows
  <2> HIDE DEF b2
  <2>5. [b2 EXCEPT !.newRole = role] \in Request
    BY <2>4, FieldRows
  <2> QED BY <2>1, <2>2, <2>5 DEF CreateCall, b2, b1
<1>2. CASE c \in UpdateCalls
  <2>1. PICK u \in Known, role \in Roles \cup {None}, active \in BOOLEAN \cup {None} :
           c = UpdateCall(u, role, active)
    <3>1. CASE c \in {UpdateCall(u, role, None) : u \in Known, role \in Roles \cup {None}}
      BY <3>1
    <3>2. CASE c \in {UpdateCall(u, None, b) : u \in Known, b \in BOOLEAN}
      BY <3>2
    <3> QED BY <1>2, <3>1, <3>2 DEF UpdateCalls
  <2>2. c.op = "update" /\ c.target = u /\ u \in UserIds
    BY <2>1 DEF UpdateCall, Known, Blank
  <2> DEFINE b1 == [Blank EXCEPT !.op = "update"]
             b2 == [b1 EXCEPT !.target = u]
             b3 == [b2 EXCEPT !.newRole = role]
  <2>3. b1 \in Request
    BY BlankRow, FieldRows
  <2> HIDE DEF b1
  <2>4. b2 \in Request
    BY <2>2, <2>3, FieldRows
  <2> HIDE DEF b2
  <2>5. b3 \in Request
    BY <2>4, FieldRows
  <2> HIDE DEF b3
  <2>6. [b3 EXCEPT !.active = active] \in Request
    BY <2>5, FieldRows
  <2> QED BY <2>1, <2>2, <2>6 DEF UpdateCall, b3, b2, b1
<1>3. CASE c \in DisableCalls
  BY <1>3 DEF DisableCalls, Known, Blank, Request, CallPC
<1>4. CASE c \in SlugCalls
  BY <1>4 DEF SlugCalls, Blank, Request, CallPC
<1> QED BY <1>1, <1>2, <1>3, <1>4 DEF TokenCalls

LEMMA ResolveStep ==
    ASSUME DirInv, NEW r \in Req, NEW u \in UserIds, NEW c \in TokenCalls,
           ResolveCurrentUser(r, u, c)
    PROVE  StepOK
<1> DEFINE row == [c EXCEPT !.pc = "entitle", !.by = u, !.role = users[u].role,
                            !.org = users[u].org]
<1>1. c \in Request /\ users[u] # None /\ users[u] \in UserRow
  BY CallRow DEF ResolveCurrentUser, Known, DirInv, TypeOK
<1>2. users[u].role \in Roles /\ users[u].org \in Orgs
  BY <1>1 DEF UserRow
<1>3. /\ row \in Request /\ row.pc = "entitle" /\ row.by = u /\ row.org = users[u].org
      /\ row.op = c.op /\ row.email = c.email /\ row.newRole = c.newRole
      /\ row.target = c.target /\ row.slug = c.slug /\ row.active = c.active
  <2> DEFINE b1 == [c EXCEPT !.pc = "entitle"]
             b2 == [b1 EXCEPT !.by = u]
             b3 == [b2 EXCEPT !.role = users[u].role]
  <2>1. b1 \in Request
    BY <1>1, FieldRows DEF CallPC
  <2>2. /\ b1.pc = "entitle" /\ b1.op = c.op /\ b1.email = c.email /\ b1.newRole = c.newRole
        /\ b1.target = c.target /\ b1.slug = c.slug /\ b1.active = c.active
    BY <1>1 DEF Request
  <2> HIDE DEF b1
  <2>3. b2 \in Request
    BY <2>1, FieldRows
  <2>4. /\ b2.pc = "entitle" /\ b2.op = c.op /\ b2.email = c.email /\ b2.newRole = c.newRole
        /\ b2.target = c.target /\ b2.slug = c.slug /\ b2.by = u
        /\ b2.active = c.active
    BY <2>1, <2>2 DEF Request
  <2> HIDE DEF b2
  <2>5. b3 \in Request
    BY <1>2, <2>3, FieldRows
  <2>6. /\ b3.pc = "entitle" /\ b3.op = c.op /\ b3.email = c.email /\ b3.newRole = c.newRole
        /\ b3.target = c.target /\ b3.slug = c.slug /\ b3.by = u
        /\ b3.active = c.active
    BY <2>3, <2>4 DEF Request
  <2> HIDE DEF b3
  <2>7. [b3 EXCEPT !.org = users[u].org] \in Request
    BY <1>2, <2>5, FieldRows
  <2>8. LET b4 == [b3 EXCEPT !.org = users[u].org]
        IN  /\ b4.pc = "entitle" /\ b4.op = c.op /\ b4.email = c.email /\ b4.newRole = c.newRole
            /\ b4.target = c.target /\ b4.slug = c.slug /\ b4.by = u /\ b4.org = users[u].org
            /\ b4.active = c.active
    BY <2>5, <2>6 DEF Request
  <2> QED BY <2>7, <2>8 DEF b3, b2, b1
<1>4. req' = [req EXCEPT ![r] = row]
  BY DEF ResolveCurrentUser
<1> HIDE DEF row
<1>5. Proper(row, users)
  BY <1>1, <1>2, <1>3, StoreAssumption, CallRow
  DEF Proper, CallerIsThere, PayloadIsThere, RightsOfAnother, TokenPC, KeyPC
<1> QED BY <1>3, <1>4, <1>5, QuietStep DEF ResolveCurrentUser

\* The request goes on to the next call of its route.
LEMMA OnwardStep ==
    ASSUME DirInv, NEW r \in Req, NEW pc \in {"look", "seat", "write"}, Park(r, pc),
           req[r].pc \in {"entitle", "look", "seat"},
           RightsOfAnother([req[r] EXCEPT !.pc = pc]),
           UNCHANGED <<config, today, stores, tokens, peak>>
    PROVE  StepOK
<1> DEFINE row == [req[r] EXCEPT !.pc = pc]
<1>1. req[r] \in Request /\ Proper(req[r], users) /\ pc \in CallPC
  BY DEF DirInv, TypeOK, CallPC
<1>2. /\ row \in Request /\ row.pc = pc /\ row.op = req[r].op /\ row.by = req[r].by
      /\ row.org = req[r].org /\ row.target = req[r].target /\ row.email = req[r].email
      /\ row.newRole = req[r].newRole /\ row.slug = req[r].slug /\ row.active = req[r].active
  BY <1>1, ParkRow
<1>3. RightsOfAnother(row)
  OBVIOUS
<1> HIDE DEF row
<1>4. Proper(row, users)
  BY <1>1, <1>2, <1>3 DEF Proper, CallerIsThere, PayloadIsThere, TokenPC, KeyPC
<1> QED BY <1>1, <1>4, ParkStep DEF row

LEMMA GetCurrentUserStep ==
    ASSUME DirInv, NEW r \in Req, GetCurrentUser(r)
    PROVE  StepOK
<1>1. /\ UNCHANGED <<config, today, stores, tokens, peak>> /\ req[r].pc = "entitle"
      /\ req[r] \in Request
  BY DEF GetCurrentUser, At, DirInv, TypeOK
<1>2. CASE Park(r, "write") /\ req[r].op = "slug"
  <2>1. RightsOfAnother([req[r] EXCEPT !.pc = "write"])
    BY <1>1, <1>2, ParkRow DEF RightsOfAnother, CallPC
  <2> QED BY <1>1, <1>2, <2>1, OnwardStep
<1>3. CASE Park(r, "look")
  <2>1. RightsOfAnother([req[r] EXCEPT !.pc = "look"])
    BY <1>1, ParkRow DEF RightsOfAnother, CallPC
  <2> QED BY <1>1, <1>3, <2>1, OnwardStep
<1>4. CASE Answer(r)
  BY <1>1, <1>4, AnswerStep
<1> QED BY <1>2, <1>3, <1>4 DEF GetCurrentUser

LEMMA CreateRulesStep ==
    ASSUME DirInv, NEW r \in Req, CreateUserRules(r)
    PROVE  StepOK
<1>1. /\ UNCHANGED <<config, today, stores, tokens, peak>> /\ req[r].pc = "look"
      /\ req[r] \in Request /\ req[r].op = "create"
  BY DEF CreateUserRules, At, DirInv, TypeOK
<1>2. CASE Park(r, "seat")
  <2>1. RightsOfAnother([req[r] EXCEPT !.pc = "seat"])
    BY <1>1, ParkRow DEF RightsOfAnother, CallPC
  <2> QED BY <1>1, <1>2, <2>1, OnwardStep
<1>3. CASE Answer(r)
  BY <1>1, <1>3, AnswerStep
<1> QED BY <1>2, <1>3 DEF CreateUserRules

\* Who may go on changes another, or neither a right nor a state.
LEMMA UpdateRulesStep ==
    ASSUME DirInv, NEW r \in Req, UpdateUserRules(r)
    PROVE  StepOK
<1>1. /\ UNCHANGED <<config, today, stores, tokens, peak>> /\ req[r].pc = "look"
      /\ req[r] \in Request
  BY DEF UpdateUserRules, At, DirInv, TypeOK
<1>2. CASE Answer(r)
  BY <1>1, <1>2, AnswerStep
<1>3. ASSUME MayUpdate(req[r]), NEW pc \in {"seat", "write"}, Park(r, pc) PROVE StepOK
  <2>1. req[r].newRole # None \/ req[r].active # None => req[r].by # req[r].target
    BY <1>3 DEF MayUpdate
  <2>2. RightsOfAnother([req[r] EXCEPT !.pc = pc])
    BY <1>1, <2>1, ParkRow DEF RightsOfAnother, CallPC
  <2> QED BY <1>1, <1>3, <2>2, OnwardStep
<1> QED BY <1>2, <1>3 DEF UpdateUserRules

LEMMA DeactivateRulesStep ==
    ASSUME DirInv, NEW r \in Req, DeactivateUserRules(r)
    PROVE  StepOK
<1>1. /\ UNCHANGED <<config, today, stores, tokens, peak>> /\ req[r].pc = "look"
      /\ req[r] \in Request
  BY DEF DeactivateUserRules, At, DirInv, TypeOK
<1>2. CASE Answer(r)
  BY <1>1, <1>2, AnswerStep
<1>3. CASE MayDeactivate(req[r]) /\ Park(r, "write")
  <2>1. RightsOfAnother([req[r] EXCEPT !.pc = "write"])
    BY <1>1, <1>3, ParkRow DEF RightsOfAnother, CallPC, MayDeactivate
  <2> QED BY <1>1, <1>3, <2>1, OnwardStep
<1> QED BY <1>2, <1>3 DEF DeactivateUserRules

LEMMA SeatStep ==
    ASSUME DirInv, NEW r \in Req, TakeSeat(r)
    PROVE  StepOK
<1>1. /\ UNCHANGED <<config, today, stores, tokens, peak>> /\ req[r].pc = "seat"
      /\ req[r] \in Request /\ RightsOfAnother(req[r])
  BY DEF TakeSeat, At, DirInv, TypeOK, Proper
<1>2. CASE Answer(r)
  BY <1>1, <1>2, AnswerStep
<1>3. CASE Park(r, "write")
  <2>1. RightsOfAnother([req[r] EXCEPT !.pc = "write"])
    BY <1>1, ParkRow DEF RightsOfAnother, CallPC
  <2> QED BY <1>1, <1>3, <2>1, OnwardStep
<1> QED BY <1>2, <1>3 DEF TakeSeat

LEMMA AuditStep ==
    ASSUME DirInv, NEW r \in Req, RecordEvent(r) \/ CallFails(r)
    PROVE  StepOK
  BY AnswerStep DEF RecordEvent, CallFails

LEMMA ProvisionStep ==
    ASSUME DirInv, NEW r \in Req, NEW s \in Slugs, NEW e \in Emails, Provision(r, s, e)
    PROVE  StepOK
<1> DEFINE row == [Blank EXCEPT !.pc = "organization", !.op = "provision",
                                !.slug = s, !.email = e, !.newRole = "admin"]
           b1 == [Blank EXCEPT !.pc = "organization"]
           b2 == [b1 EXCEPT !.op = "provision"]
           b3 == [b2 EXCEPT !.slug = s]
           b4 == [b3 EXCEPT !.email = e]
<1>1. /\ row.pc = "organization" /\ row.op = "provision" /\ row.slug = s /\ row.email = e
      /\ row.by = None
  BY DEF Blank
<1>2. row \in Request
  <2>1. b1 \in Request
    BY BlankRow, FieldRows DEF CallPC
  <2> HIDE DEF b1
  <2>2. b2 \in Request
    BY <2>1, FieldRows DEF Operation
  <2> HIDE DEF b2
  <2>3. b3 \in Request
    BY <2>2, FieldRows
  <2> HIDE DEF b3
  <2>4. b4 \in Request
    BY <2>3, FieldRows
  <2> HIDE DEF b4
  <2>5. [b4 EXCEPT !.newRole = "admin"] \in Request
    BY <2>4, FieldRows DEF Roles
  <2> QED BY <2>5 DEF b4, b3, b2, b1
<1>3. req' = [req EXCEPT ![r] = row] /\ UNCHANGED <<config, today, stores, tokens, peak>>
  BY DEF Provision
<1> HIDE DEF row
<1>4. Proper(row, users)
  BY <1>1 DEF Proper, CallerIsThere, PayloadIsThere, RightsOfAnother, TokenPC, KeyPC
<1> QED BY <1>2, <1>3, <1>4, QuietStep

LEMMA EditRow ==
    ASSUME DirInv, NEW o \in Orgs, subs[o] # None, NEW c \in EditCalls(o)
    PROVE  /\ c \in Request /\ c.pc = "merge" /\ c.by = None /\ c.org = o
           /\ c.seen = subs[o] /\ c.op = "subscription"
<1> DEFINE edit == [Blank EXCEPT !.pc = "merge", !.op = "subscription", !.org = o, !.seen = subs[o]]
           b1 == [Blank EXCEPT !.pc = "merge"]
           b2 == [b1 EXCEPT !.op = "subscription"]
           b3 == [b2 EXCEPT !.org = o]
<1>1. /\ edit.pc = "merge" /\ edit.by = None /\ edit.org = o /\ edit.seen = subs[o]
      /\ edit.op = "subscription"
  BY DEF Blank
<1>2. edit \in Request
  <2>1. b1 \in Request
    BY BlankRow, FieldRows DEF CallPC
  <2> HIDE DEF b1
  <2>2. b2 \in Request
    BY <2>1, FieldRows DEF Operation
  <2> HIDE DEF b2
  <2>3. b3 \in Request
    BY <2>2, FieldRows
  <2> HIDE DEF b3
  <2>4. [b3 EXCEPT !.seen = subs[o]] \in Request
    BY <2>3, FieldRows DEF DirInv, TypeOK
  <2> QED BY <2>4 DEF b3, b2, b1
<1>3. \/ \E v \in Statuses : c = [edit EXCEPT !.status = v]
      \/ \E v \in SeatCounts : c = [edit EXCEPT !.seats = v]
      \/ \E v \in 1 .. LastDay : c = [edit EXCEPT !.expires = v]
  <2>1. c \in {[edit EXCEPT !.status = v] : v \in Statuses}
               \cup {[edit EXCEPT !.seats = v] : v \in SeatCounts}
               \cup {[edit EXCEPT !.expires = v] : v \in 1 .. LastDay}
    BY DEF EditCalls
  <2> HIDE DEF edit
  <2> QED BY <2>1
<1> HIDE DEF edit
<1>4. c \in Request
  BY <1>2, <1>3, FieldRows
<1> QED BY <1>1, <1>2, <1>3, <1>4 DEF Request

LEMMA ReadSubscriptionStep ==
    ASSUME DirInv, NEW r \in Req, NEW o \in Orgs, ReadSubscription(r, o)
    PROVE  StepOK
<1>1. PICK c \in EditCalls(o) : req' = [req EXCEPT ![r] = c]
  BY DEF ReadSubscription
<1>2. subs[o] # None /\ subs[o] \in SubRow
  BY DEF ReadSubscription, DirInv, TypeOK
<1>3. /\ c \in Request /\ c.pc = "merge" /\ c.by = None /\ c.org = o
      /\ c.seen = subs[o] /\ c.op = "subscription"
  BY <1>1, <1>2, EditRow
<1>4. Proper(c, users)
  BY <1>2, <1>3 DEF Proper, CallerIsThere, PayloadIsThere, RightsOfAnother, TokenPC, KeyPC
<1> QED BY <1>1, <1>3, <1>4, QuietStep DEF ReadSubscription

-----------------------------------------------------------------------------
(* Steps that write.                                                       *)

\* A new account, in the caller's organization.
LEMMA NewUserStep ==
    ASSUME DirInv, NEW r \in Req, NEW row \in Request, req' = [req EXCEPT ![r] = row],
           NEW u \in UserIds, NEW o \in Orgs, NEW e \in Emails, NEW role \in Roles,
           CreateUser(u, o, e, role),
           \A us : CallerIsThere(req[r], us) => Proper(row, us),
           req[r].by # None => o = users[req[r].by].org,
           UNCHANGED <<config, today, orgs, subs, tokens, peak>>
    PROVE  StepOK
<1> DEFINE new == NewUser(o, e, role)
<1>1. new \in UserRow /\ new.org = o /\ new.email = e /\ new # None
  <2>1. new \in UserRow
    BY DEF NewUser, UserRow
  <2>2. new.org = o /\ new.email = e
    BY DEF NewUser
  <2> QED BY <2>1, <2>2, NoneIsNoRow
<1>2. /\ users' = [users EXCEPT ![u] = new] /\ users[u] = None
      /\ provider = "memory" => \A v \in Known : users[v].email # e
      /\ provider # "memory" => EmailsUnique(users')
  BY DEF CreateUser, MemoryCreateUser, OracleInsertUser, IsNextUser, Known
<1> HIDE DEF new
<1>3. users \in [UserIds -> UserRow \cup {None}] /\ EmailsUnique(users) /\ SlugsUnique(orgs)
  BY DEF DirInv, TypeOK, IdentitiesAreUnique
<1>4. users' \in [UserIds -> UserRow \cup {None}] /\ EmailsUnique(users')
  <2>1. CASE provider = "memory"
    BY <1>1, <1>2, <1>3, <2>1 DEF EmailsUnique, Known
  <2>2. CASE provider # "memory"
    BY <1>1, <1>2, <1>3, <2>2
  <2> QED BY <2>1, <2>2
<1>5. \A v \in UserIds : users[v] # None => users'[v] = users[v]
  BY <1>2, <1>3
<1>6. Proper(row, users')
  <2>1. CallerIsThere(req[r], users)
    BY DEF DirInv, Proper
  <2>2. CallerIsThere(req[r], users')
    BY <1>5, <2>1 DEF CallerIsThere
  <2> QED BY <2>2
<1>7. req' \in [Req -> Request] /\ \A q \in Req : Proper(req[q], users)'
  BY <1>5, <1>6, RequestsStayProper
<1>8. DirInv'
  <2>1. tokens' \subseteq Known'
    BY <1>5 DEF DirInv, TypeOK, Known
  <2> QED BY <1>3, <1>4, <1>7, <2>1 DEF DirInv, TypeOK, IdentitiesAreUnique, config
<1>9. AdminsStep
  BY <1>5 DEF AdminsStep, ActiveAdmins, ActiveUsers, ListUsers, Known
<1>10. TenantsStep
  <2> SUFFICES ASSUME req[r].by # None
               PROVE  /\ \A p \in Orgs \ {o} : ListUsers(p)' = ListUsers(p)
                      /\ \A v \in Known : users'[v] = users[v]
    BY DEF TenantsStep, DirInv, TypeOK
  <2> QED BY <1>1, <1>2, <1>3, <1>5 DEF ListUsers, Known
<1> QED BY <1>8, <1>9, <1>10 DEF StepOK

LEMMA WriteNewUserStep ==
    ASSUME DirInv, NEW r \in Req, WriteNewUser(r)
    PROVE  StepOK
<1>1. /\ req[r] \in Request /\ req[r].pc = "write" /\ req[r].op = "create"
      /\ Proper(req[r], users) /\ UNCHANGED <<config, today, orgs, subs, tokens, peak>>
  BY DEF WriteNewUser, At, DirInv, TypeOK
<1>2. /\ req[r].by # None /\ req[r].org = users[req[r].by].org /\ req[r].org \in Orgs
      /\ req[r].email \in Emails /\ req[r].newRole \in Roles
  BY <1>1 DEF Proper, CallerIsThere, PayloadIsThere, TokenPC, DirInv, TypeOK, UserRow
<1>3. ASSUME NEW u \in UserIds, CreateUser(u, req[r].org, req[r].email, req[r].newRole), Record(r)
      PROVE  StepOK
  <2> DEFINE row == [Blank EXCEPT !.pc = "audit", !.op = req[r].op,
                                  !.by = req[r].by, !.org = req[r].org]
  <2>1. req' = [req EXCEPT ![r] = row]
    BY <1>3 DEF Record
  <2>2. row \in Request
    BY <1>1, RecordRow DEF Proper
  <2>3. \A us : CallerIsThere(req[r], us) => Proper(row, us)
    BY <1>1, RecordRow
  <2> HIDE DEF row
  <2> QED BY <1>1, <1>2, <1>3, <2>1, <2>2, <2>3, NewUserStep
<1>4. CASE Answer(r) /\ UNCHANGED users
  BY <1>1, <1>4, AnswerStep DEF stores
<1> QED BY <1>3, <1>4 DEF WriteNewUser

LEMMA ProvisionAdminStep ==
    ASSUME DirInv, NEW r \in Req, ProvisionAdmin(r)
    PROVE  StepOK
<1>1. /\ req[r] \in Request /\ req[r].pc = "admin" /\ Proper(req[r], users)
      /\ UNCHANGED <<config, today, orgs, subs, tokens, peak>>
  BY DEF ProvisionAdmin, At, DirInv, TypeOK
<1>2. req[r].by = None /\ req[r].org \in Orgs /\ req[r].email \in Emails
  BY <1>1 DEF Proper, CallerIsThere, PayloadIsThere, KeyPC
<1>3. ASSUME NEW u \in UserIds, CreateUser(u, req[r].org, req[r].email, "admin"),
             req' = [req EXCEPT ![r].pc = "subscribe", ![r].target = u]
      PROVE  StepOK
  <2> DEFINE b1 == [req[r] EXCEPT !.pc = "subscribe"]
             row == [b1 EXCEPT !.target = u]
  <2>1. b1 \in Request /\ b1.pc = "subscribe" /\ b1.by = None /\ b1.org = req[r].org
    BY <1>1, <1>2, ParkRow DEF CallPC
  <2>2. req' = [req EXCEPT ![r] = row]
    BY <1>3 DEF DirInv, TypeOK
  <2> HIDE DEF b1
  <2>3. row \in Request /\ row.pc = "subscribe" /\ row.by = None /\ row.org = req[r].org
    BY <2>1, FieldRows DEF Request
  <2> HIDE DEF row
  <2>4. \A us : Proper(row, us)
    BY <1>2, <2>3 DEF Proper, CallerIsThere, PayloadIsThere, RightsOfAnother, TokenPC, KeyPC
  <2> QED BY <1>1, <1>2, <1>3, <2>2, <2>3, <2>4, NewUserStep DEF Roles
<1>4. CASE Answer(r) /\ UNCHANGED users
  BY <1>1, <1>4, AnswerStep DEF stores
<1> QED BY <1>3, <1>4 DEF ProvisionAdmin

LEMMA PatchedRow ==
    ASSUME NEW old \in UserRow, NEW role \in Roles \cup {None}, NEW active \in BOOLEAN \cup {None}
    PROVE  LET row == Patched(old, role, active)
           IN  /\ row \in UserRow /\ row.org = old.org /\ row.email = old.email
               /\ role = None /\ active = None => row = old
<1> DEFINE half == [old EXCEPT !.role = IF role = None THEN @ ELSE role]
<1>1. /\ half \in UserRow /\ half.org = old.org /\ half.email = old.email
      /\ role = None => half = old
  BY DEF UserRow
<1>2. Patched(old, role, active) = [half EXCEPT !.active = IF active = None THEN @ ELSE active]
  BY DEF Patched, UserRow
<1> HIDE DEF half
<1> DEFINE row == [half EXCEPT !.active = IF active = None THEN @ ELSE active]
<1>3. row \in UserRow /\ row.org = half.org /\ row.email = half.email
  BY <1>1 DEF UserRow
<1>4. active = None => row = half
  BY <1>1 DEF UserRow
<1> HIDE DEF row
<1>5. Patched(old, role, active) = row
  BY <1>2 DEF row
<1> QED BY <1>1, <1>3, <1>4, <1>5

\* An account keeps its organization and its address.
LEMMA WriteUserStep ==
    ASSUME DirInv, NEW r \in Req, WriteUser(r)
    PROVE  StepOK
<1> DEFINE t  == req[r].target
           by == req[r].by
           o  == req[r].org
           new == Patched(users[t], req[r].newRole, req[r].active)
<1>1. /\ req[r] \in Request /\ req[r].pc = "write" /\ req[r].op \in {"update", "disable"}
      /\ Proper(req[r], users) /\ UNCHANGED <<config, today, orgs, subs, tokens, peak>>
  BY DEF WriteUser, At, DirInv, TypeOK
<1>2. by \in UserIds /\ users[by] # None /\ o = users[by].org /\ t \in UserIds /\ by # None
  BY <1>1, StoreAssumption DEF Proper, CallerIsThere, PayloadIsThere, TokenPC
<1>3. /\ users \in [UserIds -> UserRow \cup {None}] /\ EmailsUnique(users) /\ SlugsUnique(orgs)
      /\ req \in [Req -> Request]
  BY DEF DirInv, TypeOK, IdentitiesAreUnique
<1>4. users' = [users EXCEPT ![t] = new] /\ users[t] # None /\ users[t].org = o
  BY DEF WriteUser, UpdateUser, MemoryUpdateUser, OracleUpdateUser, SupabaseUpdateUser, GetUser,
         Known
<1>5. /\ new \in UserRow /\ new.org = users[t].org /\ new.email = users[t].email
      /\ req[r].newRole = None /\ req[r].active = None => new = users[t]
  <2>1. users[t] \in UserRow
    BY <1>2, <1>3, <1>4
  <2>2. req[r].newRole \in Roles \cup {None} /\ req[r].active \in BOOLEAN \cup {None}
    BY <1>1 DEF Request
  <2> QED BY <2>1, <2>2, PatchedRow
<1>6. req[r].newRole # None \/ req[r].active # None => by # t
  BY <1>1 DEF Proper, RightsOfAnother
<1>7. new # None
  BY <1>5, NoneIsNoRow
<1> HIDE DEF new, t
<1>8. /\ users' \in [UserIds -> UserRow \cup {None}] /\ EmailsUnique(users')
      /\ \A v \in UserIds : users[v] # None => users'[v] # None /\ users'[v].org = users[v].org
      /\ \A v \in UserIds : users'[v] # users[v] => v = t
      /\ Known' = Known
  BY <1>2, <1>3, <1>4, <1>5, <1>7 DEF EmailsUnique, Known
<1>9. PICK row \in Request : /\ req' = [req EXCEPT ![r] = row] /\ Proper(row, users')
                             /\ row.pc # "write"
  <2>1. CASE Answer(r)
    <3>1. Proper(Blank, users')
      BY StoreAssumption
      DEF Blank, Proper, CallerIsThere, PayloadIsThere, RightsOfAnother, TokenPC, KeyPC
    <3>2. Blank \in Request /\ Blank.pc # "write"
      BY BlankRow DEF Blank
    <3> QED BY <2>1, <3>1, <3>2 DEF Answer
  <2>2. CASE Record(r)
    <3> DEFINE rec == [Blank EXCEPT !.pc = "audit", !.op = req[r].op,
                                    !.by = req[r].by, !.org = req[r].org]
    <3>1. CallerIsThere(req[r], users')
      BY <1>1, <1>8 DEF Proper, CallerIsThere
    <3>2. rec \in Request /\ Proper(rec, users') /\ rec.pc = "audit"
      BY <1>1, <3>1, RecordRow
    <3>3. req' = [req EXCEPT ![r] = rec]
      BY <2>2 DEF Record
    <3> HIDE DEF rec
    <3> QED BY <3>2, <3>3
  <2> QED BY <2>1, <2>2 DEF WriteUser
<1>10. DirInv'
  <2>1. req' \in [Req -> Request] /\ \A q \in Req : Proper(req[q], users)'
    BY <1>8, <1>9, RequestsStayProper
  <2>2. tokens' \subseteq Known'
    BY <1>1, <1>8 DEF DirInv, TypeOK
  <2> QED BY <1>1, <1>3, <1>8, <2>1, <2>2 DEF DirInv, TypeOK, IdentitiesAreUnique, config
<1>11. AdminsStep
  <2> SUFFICES ASSUME NEW p \in Orgs, ActiveAdmins(p) # {}, ActiveAdmins(p)' = {}
               PROVE  /\ At(r, "write") /\ req[r].pc # req'[r].pc /\ req[r].org = p
                      /\ req[r].by \notin ActiveAdmins(p)
    BY DEF AdminsStep
  <2>1. PICK a \in ActiveAdmins(p) : users'[a] # users[a]
    BY <1>8 DEF ActiveAdmins, ActiveUsers, ListUsers, Known
  <2>2. a = t /\ o = p
    BY <1>4, <1>8, <2>1 DEF ActiveAdmins, ActiveUsers, ListUsers, Known
  <2>3. by # t
    BY <1>4, <1>5, <1>6, <2>1, <2>2
  <2>4. by \notin ActiveAdmins(p)
    BY <1>2, <1>8, <2>3 DEF ActiveAdmins, ActiveUsers, ListUsers, Known
  <2> QED BY <1>1, <1>3, <1>9, <2>2, <2>4 DEF At
<1>12. TenantsStep
  <2> SUFFICES ASSUME NEW q \in Req, req'[q] # req[q], req[q].by # None
               PROVE  /\ subs' = subs
                      /\ \A p \in Orgs \ {users[by].org} :
                            orgs'[p] = orgs[p] /\ ListUsers(p)' = ListUsers(p)
                      /\ \A u \in Known : users'[u] # users[u] => users[u].org = users[by].org
                      /\ q = r
    BY DEF TenantsStep
  <2>1. q = r
    BY <1>3, <1>9
  <2>2. \A u \in Known : users'[u] # users[u] => users[u].org = users[by].org
    BY <1>2, <1>4, <1>8 DEF Known
  <2>3. \A p \in Orgs : ListUsers(p)' = ListUsers(p)
    BY <1>8 DEF ListUsers, Known
  <2> QED BY <1>1, <2>1, <2>2, <2>3
<1> QED BY <1>10, <1>11, <1>12 DEF StepOK

\* The slug an administrator gives his organization.
LEMMA WriteOrganizationStep ==
    ASSUME DirInv, NEW r \in Req, WriteOrganization(r)
    PROVE  StepOK
<1>1. /\ req[r] \in Request /\ req[r].pc = "write" /\ req[r].op = "slug"
      /\ Proper(req[r], users) /\ UNCHANGED <<config, today, users, subs, tokens, peak>>
      /\ Answer(r)
  BY DEF WriteOrganization, At, DirInv, TypeOK
<1>2. CASE UNCHANGED orgs
  BY <1>1, <1>2, AnswerStep DEF stores
<1>3. CASE UpdateOrganization(req[r].org, req[r].slug)
  <2> DEFINE o == req[r].org
             s == req[r].slug
  <2>1. /\ o \in Orgs /\ s \in Slugs /\ o = users[req[r].by].org /\ s # None
    BY <1>1, StoreAssumption DEF Proper, CallerIsThere, PayloadIsThere, TokenPC, DirInv, TypeOK,
                                 UserRow
  <2>2. orgs \in [Orgs -> Slugs \cup {None}] /\ SlugsUnique(orgs)
    BY DEF DirInv, TypeOK, IdentitiesAreUnique
  <2>3. orgs' = [orgs EXCEPT ![o] = s] /\ SlugsUnique(orgs')
    <3>1. CASE MemoryUpdateOrganization(o, s)
      BY <2>1, <2>2, <3>1 DEF MemoryUpdateOrganization, SlugsUnique
    <3>2. CASE OracleUpdateOrganization(o, s) \/ SupabaseUpdateOrganization(o, s)
      BY <3>2 DEF OracleUpdateOrganization, SupabaseUpdateOrganization
    <3> QED BY <1>3, <3>1, <3>2 DEF UpdateOrganization
  <2>4. orgs' \in [Orgs -> Slugs \cup {None}] /\ \A p \in Orgs \ {o} : orgs'[p] = orgs[p]
    BY <2>1, <2>2, <2>3
  <2>5. req' = [req EXCEPT ![r] = Blank] /\ Blank \in Request /\ Proper(Blank, users')
    BY <1>1, BlankRow DEF Answer
  <2>6. req' \in [Req -> Request] /\ \A q \in Req : Proper(req[q], users)'
    BY <1>1, <2>5, RequestsStayProper
  <2>7. DirInv'
    BY <1>1, <2>3, <2>4, <2>6 DEF DirInv, TypeOK, IdentitiesAreUnique, config, Known
  <2>8. AdminsStep
    BY <1>1 DEF AdminsStep, ActiveAdmins, ActiveUsers, ListUsers, Known
  <2>9. TenantsStep
    <3>1. \A q \in Req : req'[q] # req[q] => q = r
      BY <2>5 DEF DirInv, TypeOK
    <3> QED BY <1>1, <2>1, <2>4, <3>1 DEF TenantsStep, ListUsers, Known
  <2> QED BY <2>7, <2>8, <2>9 DEF StepOK
<1> QED BY <1>2, <1>3 DEF WriteOrganization

\* The operator's request has no account: what it writes is its business.
LEMMA OperatorStep ==
    ASSUME DirInv, NEW r \in Req, NEW row \in Request, req' = [req EXCEPT ![r] = row],
           Proper(row, users), req[r].by = None,
           orgs' \in [Orgs -> Slugs \cup {None}], SlugsUnique(orgs'),
           subs' \in [Orgs -> SubRow \cup {None}], peak' \in [Orgs -> Nat \ {0}],
           UNCHANGED <<config, today, users, tokens>>
    PROVE  StepOK
<1>1. users' = users
  OBVIOUS
<1>2. req' \in [Req -> Request] /\ \A q \in Req : Proper(req[q], users)'
  BY RequestsStayProper
<1>3. DirInv'
  BY <1>2 DEF DirInv, TypeOK, IdentitiesAreUnique, config, Known
<1>4. AdminsStep
  BY <1>1 DEF AdminsStep, ActiveAdmins, ActiveUsers, ListUsers, Known
<1>5. TenantsStep
  BY DEF TenantsStep, DirInv, TypeOK
<1> QED BY <1>3, <1>4, <1>5 DEF StepOK

LEMMA ProvisionOrganizationStep ==
    ASSUME DirInv, NEW r \in Req, ProvisionOrganization(r)
    PROVE  StepOK
<1>1. /\ req[r] \in Request /\ req[r].pc = "organization" /\ Proper(req[r], users)
      /\ UNCHANGED <<config, today, users, subs, tokens, peak>>
  BY DEF ProvisionOrganization, At, DirInv, TypeOK
<1>2. /\ req[r].by = None /\ req[r].slug \in Slugs /\ req[r].email \in Emails
      /\ req[r].op = "provision"
  BY <1>1 DEF Proper, CallerIsThere, PayloadIsThere, KeyPC
<1>3. ASSUME NEW o \in Orgs, CreateOrganization(o, req[r].slug),
             req' = [req EXCEPT ![r].pc = "admin", ![r].org = o]
      PROVE  StepOK
  <2> DEFINE s   == req[r].slug
             b1  == [req[r] EXCEPT !.pc = "admin"]
             row == [b1 EXCEPT !.org = o]
  <2>1. /\ b1 \in Request /\ b1.pc = "admin" /\ b1.by = None /\ b1.slug = s
        /\ b1.email = req[r].email /\ b1.op = "provision"
    BY <1>1, <1>2, ParkRow DEF CallPC
  <2>2. req' = [req EXCEPT ![r] = row]
    BY <1>3 DEF DirInv, TypeOK
  <2> HIDE DEF b1
  <2>3. /\ row \in Request /\ row.pc = "admin" /\ row.by = None /\ row.org = o /\ row.slug = s
        /\ row.email = req[r].email /\ row.op = "provision"
    BY <2>1, FieldRows DEF Request
  <2> HIDE DEF row
  <2>4. Proper(row, users)
    BY <1>2, <2>3 DEF Proper, CallerIsThere, PayloadIsThere, RightsOfAnother, TokenPC, KeyPC
  <2>5. orgs \in [Orgs -> Slugs \cup {None}] /\ SlugsUnique(orgs) /\ s # None
    BY <1>2, StoreAssumption DEF DirInv, TypeOK, IdentitiesAreUnique
  <2>6. orgs' = [orgs EXCEPT ![o] = s] /\ SlugsUnique(orgs')
    <3>1. CASE MemoryCreateOrganization(o, s)
      BY <2>5, <3>1 DEF MemoryCreateOrganization, SlugsUnique
    <3>2. CASE OracleInsertOrganization(o, s) \/ SupabaseCreateOrganization(o, s)
      BY <3>2 DEF OracleInsertOrganization, SupabaseCreateOrganization
    <3> QED BY <1>3, <3>1, <3>2 DEF CreateOrganization
  <2>7. orgs' \in [Orgs -> Slugs \cup {None}]
    BY <1>2, <2>5, <2>6
  <2>8. subs' \in [Orgs -> SubRow \cup {None}] /\ peak' \in [Orgs -> Nat \ {0}]
    BY <1>1 DEF DirInv, TypeOK
  <2> QED BY <1>1, <1>2, <2>2, <2>3, <2>4, <2>6, <2>7, <2>8, OperatorStep
<1>4. CASE Answer(r) /\ UNCHANGED orgs
  BY <1>1, <1>4, AnswerStep DEF stores
<1> QED BY <1>3, <1>4 DEF ProvisionOrganization

\* A subscription of the operator's is written.
LEMMA UpsertStep ==
    ASSUME DirInv, NEW r \in Req, NEW sub \in SubRow, UpsertSubscription(req[r].org, sub),
           req[r].org \in Orgs, req[r].by = None, Record(r),
           peak' = [peak EXCEPT ![req[r].org] = IF @ < sub.seats THEN sub.seats ELSE @],
           UNCHANGED <<config, today, orgs, users, tokens>>
    PROVE  StepOK
<1> DEFINE row == [Blank EXCEPT !.pc = "audit", !.op = req[r].op,
                                !.by = req[r].by, !.org = req[r].org]
<1>1. req[r] \in Request /\ CallerIsThere(req[r], users)
  BY DEF DirInv, TypeOK, Proper
<1>2. row \in Request /\ Proper(row, users)
  BY <1>1, RecordRow
<1>3. req' = [req EXCEPT ![r] = row]
  BY DEF Record
<1> HIDE DEF row
<1>4. subs' \in [Orgs -> SubRow \cup {None}]
  BY DEF UpsertSubscription, MemoryUpsertSubscription, OracleMergeSubscription,
         SupabasePatchSubscription, DirInv, TypeOK
<1>5. sub.seats \in Nat \ {0}
  BY StoreAssumption DEF SubRow
<1>6. peak' \in [Orgs -> Nat \ {0}]
  BY <1>5 DEF DirInv, TypeOK
<1>7. orgs' \in [Orgs -> Slugs \cup {None}] /\ SlugsUnique(orgs')
  BY DEF DirInv, TypeOK, IdentitiesAreUnique
<1> QED BY <1>2, <1>3, <1>4, <1>6, <1>7, OperatorStep

LEMMA ProvisionSubscriptionStep ==
    ASSUME DirInv, NEW r \in Req, NEW seats \in SeatCounts, ProvisionSubscription(r, seats)
    PROVE  StepOK
<1> DEFINE sub == [status |-> "active", seats |-> seats, expires |-> LastDay]
<1>1. sub \in SubRow /\ sub.seats = seats
  BY StoreAssumption DEF SubRow, Statuses
<1>2. req[r].org \in Orgs /\ req[r].by = None
  BY DEF ProvisionSubscription, At, DirInv, Proper, CallerIsThere, PayloadIsThere, KeyPC
<1> QED BY <1>1, <1>2, UpsertStep DEF ProvisionSubscription

LEMMA UpdateSubscriptionStep ==
    ASSUME DirInv, NEW r \in Req, UpdateSubscription(r)
    PROVE  StepOK
<1>1. /\ req[r] \in Request /\ req[r].org \in Orgs /\ req[r].by = None /\ req[r].seen \in SubRow
  BY DEF UpdateSubscription, At, DirInv, TypeOK, Proper, CallerIsThere, PayloadIsThere, KeyPC
<1>2. Merged(req[r]) \in SubRow
  <2>1. /\ req[r].status \in Statuses \cup {None} /\ req[r].seats \in SeatCounts \cup {None}
        /\ req[r].expires \in (1 .. LastDay) \cup {None}
    BY <1>1 DEF Request
  <2> QED BY <1>1, <2>1 DEF Merged, SubRow
<1> QED BY <1>1, <1>2, UpsertStep DEF UpdateSubscription

-----------------------------------------------------------------------------
(* Every step.                                                             *)

LEMMA DirInit == ASSUME Init PROVE DirInv
<1>1. PICK active \in BOOLEAN : users = SeedUsers(active)
  BY DEF Init
<1> DEFINE first  == NewUser(Home, AdminEmail, "admin")
           other  == NewUser(Home, ColleagueEmail, "employee")
           second == [other EXCEPT !.active = active]
<1>2. first \in UserRow /\ first.email = AdminEmail
  BY DirectoryAssumption DEF NewUser, UserRow, Roles
<1>3. other \in UserRow /\ other.email = ColleagueEmail
  BY DirectoryAssumption DEF NewUser, UserRow, Roles
<1>4. second \in UserRow /\ second.email = ColleagueEmail
  BY <1>3 DEF UserRow
<1>5. \A u \in UserIds :
          users[u] = IF u = Admin THEN first ELSE IF u = Colleague THEN second ELSE None
  BY <1>1 DEF SeedUsers
<1>6. DOMAIN users = UserIds /\ users = [u \in UserIds |-> users[u]]
  BY <1>1 DEF SeedUsers
<1> HIDE DEF first, second
<1>7. users \in [UserIds -> UserRow \cup {None}] /\ EmailsUnique(users)
  <2>1. users \in [UserIds -> UserRow \cup {None}]
    BY <1>2, <1>4, <1>5, <1>6
  <2>2. EmailsUnique(users)
    BY <1>2, <1>4, <1>5, DirectoryAssumption DEF EmailsUnique
  <2> QED BY <2>1, <2>2
<1>8. orgs \in [Orgs -> Slugs \cup {None}] /\ SlugsUnique(orgs)
  BY DirectoryAssumption DEF Init, SlugsUnique
<1>9. PICK seats \in SeatCounts :
        /\ subs = [o \in Orgs |-> IF o = Home THEN [status |-> "active", seats |-> seats,
                                                     expires |-> 1] ELSE None]
        /\ peak = [o \in Orgs |-> IF o = Home THEN seats ELSE 1]
  BY DEF Init
<1>10. subs \in [Orgs -> SubRow \cup {None}] /\ peak \in [Orgs -> Nat \ {0}]
  BY <1>9, StoreAssumption DEF SubRow, Statuses
<1>11. tokens \subseteq Known
  BY <1>2, <1>4, <1>5, DirectoryAssumption, NoneIsNoRow DEF Init, Known
<1>12. req \in [Req -> Request] /\ \A r \in Req : Proper(req[r], users)
  BY BlankRow DEF Init
<1>13. <<provider, routes>> \in Deployments /\ today \in 0 .. LastDay - 1
  BY DirectoryAssumption, StoreAssumption DEF Init
<1> QED BY <1>7, <1>8, <1>10, <1>11, <1>12, <1>13 DEF DirInv, TypeOK, IdentitiesAreUnique

LEMMA StillStep ==
    ASSUME DirInv, UNCHANGED vars
    PROVE  StepOK
<1>1. /\ provider' = provider /\ routes' = routes /\ today' = today /\ orgs' = orgs
      /\ users' = users /\ subs' = subs /\ peak' = peak /\ tokens' = tokens /\ req' = req
  BY DEF vars, config, stores
<1>2. DirInv'
  BY <1>1 DEF DirInv, TypeOK, IdentitiesAreUnique, Known
<1> QED BY <1>1, <1>2 DEF StepOK, AdminsStep, TenantsStep, ActiveAdmins, ActiveUsers, ListUsers,
                          Known

LEMMA DayStep ==
    ASSUME DirInv, DayPasses
    PROVE  StepOK
<1>1. /\ provider' = provider /\ routes' = routes /\ today' = today + 1 /\ orgs' = orgs
      /\ users' = users /\ subs' = subs /\ peak' = peak /\ tokens' = tokens /\ req' = req
      /\ today + 1 < LastDay
  BY DEF DayPasses, config, stores
<1>2. DirInv'
  BY <1>1, StoreAssumption DEF DirInv, TypeOK, IdentitiesAreUnique, Known
<1> QED BY <1>1, <1>2 DEF StepOK, AdminsStep, TenantsStep, ActiveAdmins, ActiveUsers, ListUsers,
                          Known

LEMMA TokenStepOK ==
    ASSUME DirInv, NEW r \in Req, TokenStep(r)
    PROVE  StepOK
<1>1. CASE \E e \in Emails : FindCandidate(r, e)
  BY <1>1, LoginStep
<1>2. CASE \E u \in UserIds, c \in TokenCalls : ResolveCurrentUser(r, u, c)
  BY <1>2, ResolveStep
<1>3. CASE CreateAccessToken(r) \/ GetCurrentUser(r) \/ TakeSeat(r)
  BY <1>3, TicketStep, GetCurrentUserStep, SeatStep
<1>4. CASE CreateUserRules(r) \/ UpdateUserRules(r) \/ DeactivateUserRules(r)
  BY <1>4, CreateRulesStep, UpdateRulesStep, DeactivateRulesStep
<1>5. CASE WriteNewUser(r) \/ WriteUser(r) \/ WriteOrganization(r)
  BY <1>5, WriteNewUserStep, WriteUserStep, WriteOrganizationStep
<1> QED BY <1>1, <1>2, <1>3, <1>4, <1>5 DEF TokenStep

LEMMA KeyStepOK ==
    ASSUME DirInv, NEW r \in Req, KeyStep(r)
    PROVE  StepOK
<1>1. CASE \E s \in Slugs, e \in Emails : Provision(r, s, e)
  BY <1>1, ProvisionStep
<1>2. CASE ProvisionOrganization(r) \/ ProvisionAdmin(r)
  BY <1>2, ProvisionOrganizationStep, ProvisionAdminStep
<1>3. CASE \E seats \in SeatCounts : ProvisionSubscription(r, seats)
  BY <1>3, ProvisionSubscriptionStep
<1>4. CASE \E o \in Orgs : ReadSubscription(r, o)
  BY <1>4, ReadSubscriptionStep
<1>5. CASE UpdateSubscription(r)
  BY <1>5, UpdateSubscriptionStep
<1> QED BY <1>1, <1>2, <1>3, <1>4, <1>5 DEF KeyStep

LEMMA NextStep ==
    ASSUME DirInv, [Next]_vars
    PROVE  StepOK
<1>1. ASSUME NEW r \in Req, TokenStep(r) PROVE StepOK
  BY <1>1, TokenStepOK
<1>2. ASSUME NEW r \in Req, KeyStep(r) PROVE StepOK
  BY <1>2, KeyStepOK
<1>3. ASSUME NEW r \in Req, RecordEvent(r) \/ CallFails(r) PROVE StepOK
  BY <1>3, AuditStep
<1> QED BY <1>1, <1>2, <1>3, DayStep, StillStep DEF Next

-----------------------------------------------------------------------------
LEMMA DirInvHolds == Spec => []DirInv
<1>1. DirInv /\ [Next]_vars => DirInv'
  BY NextStep DEF StepOK
<1> QED BY <1>1, DirInit, PTL DEF Spec

\* The stores and the requests keep their shape: TypeOK of api and stores.
THEOREM DirectoryTyped == Spec => []TypeOK
<1>1. DirInv => TypeOK
  BY DEF DirInv
<1> QED BY <1>1, DirInvHolds, PTL

\* However many requests create and rename at once, an address is one
\* account's and a slug one organization's (user_store.py, organizations.py).
THEOREM IdentitiesAreUniqueHolds == Spec => []IdentitiesAreUnique
<1>1. DirInv => IdentitiesAreUnique
  BY DEF DirInv
<1> QED BY <1>1, DirInvHolds, PTL

\* An organization loses its last administrator only to a request whose own
\* administrator lost his rights under way (directory_service.py).
THEOREM LastAdminFallsToARaceHolds == Spec => LastAdminFallsToARace
<1>1. DirInv /\ [Next]_vars => AdminsStep
  BY NextStep DEF StepOK
<1> QED BY <1>1, DirInvHolds, PTL DEF Spec, LastAdminFallsToARace, AdminsStep

\* A request with a token touches its own organization's rows only
\* (api/dependencies.py, user_store.py).
THEOREM TenantsAreApartHolds == Spec => TenantsAreApart
<1>1. DirInv /\ [Next]_vars => TenantsStep
  BY NextStep DEF StepOK
<1> QED BY <1>1, DirInvHolds, PTL DEF Spec, TenantsAreApart, TenantsStep

-----------------------------------------------------------------------------
(* Seats.  What a request may still do to the seats of organization o: bring *)
(* an account back to work, or add one.                                      *)

Returns(q, o) == q.pc = "write" /\ q.op = "update" /\ q.org = o /\ q.active = TRUE

Joins(q, o) == q.org = o /\ q.op \in {"create", "provision"} /\ q.pc \in {"write", "admin"}

\* The sets of Directory, of any table of accounts and of requests.
WorkersOf(us, o) == {u \in UserIds : us[u] # None /\ us[u].org = o /\ us[u].active}

Threads(rq, o) == {q \in Req : Returns(rq[q], o)}

ReturningOf(rq, o) == {rq[q].target : q \in Threads(rq, o)}

JoiningOf(rq, o) == {q \in Req : Joins(rq[q], o)}

Bounded(us, rq, top, o) ==
    Cardinality(WorkersOf(us, o) \cup ReturningOf(rq, o)) + Cardinality(JoiningOf(rq, o))
        <= top - 1 + Cardinality(Req)

\* Accounts are in organizations that are there, and so is the administrator
\* who is on his way.
OrgsExist ==
    /\ \A u \in UserIds : users[u] # None => orgs[users[u].org] # None
    /\ \A q \in Req : req[q].pc = "admin" => orgs[req[q].org] # None

PeakHolds == \A o \in Orgs : subs[o] # None => subs[o].seats <= peak[o]

SeatsOK ==
    /\ OrgsExist /\ PeakHolds
    /\ \A o \in Orgs : orgs[o] # None => Bounded(users, req, peak[o], o)

LEMMA SeatSets ==
    ASSUME NEW rq \in [Req -> Request], NEW us, NEW o
    PROVE  /\ IsFiniteSet(WorkersOf(us, o)) /\ IsFiniteSet(ReturningOf(rq, o))
           /\ IsFiniteSet(JoiningOf(rq, o)) /\ IsFiniteSet(Threads(rq, o))
           /\ Cardinality(ReturningOf(rq, o)) <= Cardinality(Threads(rq, o))
<1>1. IsFiniteSet(WorkersOf(us, o))
  <2>1. WorkersOf(us, o) \in SUBSET UserIds /\ IsFiniteSet(UserIds)
    BY StoreAssumption DEF WorkersOf
  <2> QED BY <2>1, FS_Subset
<1>2. IsFiniteSet(Req) /\ JoiningOf(rq, o) \in SUBSET Req /\ Threads(rq, o) \in SUBSET Req
  BY DirectoryAssumption DEF JoiningOf, Threads
<1>3. IsFiniteSet(JoiningOf(rq, o)) /\ IsFiniteSet(Threads(rq, o))
  BY <1>2, FS_Subset
<1> DEFINE f == [q \in Threads(rq, o) |-> rq[q].target]
<1>4. f \in Surjection(Threads(rq, o), ReturningOf(rq, o))
  BY DEF Surjection, ReturningOf
<1> HIDE DEF f
<1> QED BY <1>1, <1>3, <1>4, FS_Surjection

\* The sum of two set sizes is a number.
LEMMA LoadIsNat ==
    ASSUME NEW rq \in [Req -> Request], NEW us, NEW o
    PROVE  /\ IsFiniteSet(WorkersOf(us, o) \cup ReturningOf(rq, o))
           /\ Cardinality(WorkersOf(us, o) \cup ReturningOf(rq, o)) \in Nat
           /\ Cardinality(WorkersOf(us, o)) \in Nat
           /\ Cardinality(ReturningOf(rq, o)) \in Nat
           /\ Cardinality(JoiningOf(rq, o)) \in Nat
           /\ Cardinality(Threads(rq, o)) \in Nat
           /\ Cardinality(Req) \in Nat \ {0}
<1>1. IsFiniteSet(WorkersOf(us, o)) /\ IsFiniteSet(ReturningOf(rq, o))
  BY SeatSets
<1>2. IsFiniteSet(WorkersOf(us, o) \cup ReturningOf(rq, o))
  BY <1>1, FS_Union
<1>3. IsFiniteSet(JoiningOf(rq, o)) /\ IsFiniteSet(Threads(rq, o))
  BY SeatSets
<1>4. IsFiniteSet(Req) /\ Req # {}
  BY DirectoryAssumption
<1>5. Cardinality(Req) \in Nat /\ Cardinality(Req) # 0
  BY <1>4, FS_CardinalityType, FS_EmptySet
<1>6. Cardinality(WorkersOf(us, o)) \in Nat /\ Cardinality(ReturningOf(rq, o)) \in Nat
  BY <1>1, FS_CardinalityType
<1>7. Cardinality(JoiningOf(rq, o)) \in Nat /\ Cardinality(Threads(rq, o)) \in Nat
  BY <1>3, FS_CardinalityType
<1>8. Cardinality(WorkersOf(us, o) \cup ReturningOf(rq, o)) \in Nat
  BY <1>2, FS_CardinalityType
<1> QED BY <1>2, <1>5, <1>6, <1>7, <1>8

\* A seat was free when it was looked for: every thread may take it, and no
\* thread takes it twice.
LEMMA LoadTaken ==
    ASSUME NEW rq \in [Req -> Request], NEW us, NEW o, NEW top \in Nat,
           Cardinality(WorkersOf(us, o)) <= top - 1
    PROVE  Bounded(us, rq, top, o)
<1> DEFINE W == WorkersOf(us, o)
           R == ReturningOf(rq, o)
           J == JoiningOf(rq, o)
           T == Threads(rq, o)
<1>1. /\ IsFiniteSet(W) /\ IsFiniteSet(R) /\ IsFiniteSet(J) /\ IsFiniteSet(T)
      /\ Cardinality(R) <= Cardinality(T)
  BY SeatSets
<1>2. /\ Cardinality(W) \in Nat /\ Cardinality(R) \in Nat /\ Cardinality(J) \in Nat
      /\ Cardinality(T) \in Nat /\ Cardinality(Req) \in Nat
  BY LoadIsNat
<1>3. T \cap J = {} /\ T \cup J \in SUBSET Req
  BY DEF Threads, JoiningOf, Returns, Joins
<1>4. Cardinality(W) <= top - 1
  OBVIOUS
<1>5. Cardinality(W \cup R) \in Nat
  BY LoadIsNat
<1> SUFFICES Cardinality(W \cup R) + Cardinality(J) <= top - 1 + Cardinality(Req)
  BY DEF Bounded
<1> HIDE DEF W, R, J, T
<1>6. Cardinality(T \cup J) = Cardinality(T) + Cardinality(J)
  <2>1. Cardinality(T \cup J) = Cardinality(T) + Cardinality(J) - Cardinality(T \cap J)
    BY <1>1, FS_Union
  <2> QED BY <1>2, <1>3, <2>1, FS_EmptySet
<1>7. Cardinality(T \cup J) <= Cardinality(Req)
  BY <1>3, FS_Subset, DirectoryAssumption
<1>8. Cardinality(W \cup R) <= Cardinality(W) + Cardinality(R)
  <2>1. Cardinality(W \cup R) = Cardinality(W) + Cardinality(R) - Cardinality(W \cap R)
    BY <1>1, FS_Union
  <2>2. IsFiniteSet(W \cap R)
    BY <1>1, FS_Intersection
  <2>3. Cardinality(W \cap R) \in Nat
    BY <2>2, FS_CardinalityType
  <2> QED BY <1>2, <1>5, <2>1, <2>3
<1> QED BY <1>1, <1>2, <1>4, <1>5, <1>6, <1>7, <1>8

\* Nobody new: the load does not grow.
LEMMA LoadFalls ==
    ASSUME NEW rq \in [Req -> Request], NEW rn \in [Req -> Request], NEW us, NEW un, NEW o,
           NEW top \in Nat, NEW higher \in Nat, top <= higher, Bounded(us, rq, top, o),
           WorkersOf(un, o) \cup ReturningOf(rn, o)
               \subseteq WorkersOf(us, o) \cup ReturningOf(rq, o),
           JoiningOf(rn, o) \subseteq JoiningOf(rq, o)
    PROVE  Bounded(un, rn, higher, o)
<1> DEFINE L  == WorkersOf(us, o) \cup ReturningOf(rq, o)
           Ln == WorkersOf(un, o) \cup ReturningOf(rn, o)
           J  == JoiningOf(rq, o)
           Jn == JoiningOf(rn, o)
<1>1. IsFiniteSet(L) /\ IsFiniteSet(J) /\ Ln \in SUBSET L /\ Jn \in SUBSET J
  BY LoadIsNat, SeatSets
<1>2. Cardinality(L) \in Nat /\ Cardinality(J) \in Nat /\ Cardinality(Req) \in Nat
  BY LoadIsNat
<1>3. Cardinality(Ln) \in Nat /\ Cardinality(Jn) \in Nat
  BY LoadIsNat
<1>4. Cardinality(L) + Cardinality(J) <= top - 1 + Cardinality(Req)
  BY DEF Bounded
<1> SUFFICES Cardinality(Ln) + Cardinality(Jn) <= higher - 1 + Cardinality(Req)
  BY DEF Bounded
<1> HIDE DEF L, Ln, J, Jn
<1>5. Cardinality(Ln) <= Cardinality(L)
  BY <1>1, FS_Subset
<1>6. Cardinality(Jn) <= Cardinality(J)
  BY <1>1, FS_Subset
<1> QED BY <1>2, <1>3, <1>4, <1>5, <1>6

\* Who was joining has joined.
LEMMA LoadJoins ==
    ASSUME NEW rq \in [Req -> Request], NEW rn \in [Req -> Request], NEW us, NEW un, NEW o,
           NEW top \in Nat, Bounded(us, rq, top, o), NEW u, NEW r \in JoiningOf(rq, o),
           WorkersOf(un, o) \cup ReturningOf(rn, o)
               \subseteq (WorkersOf(us, o) \cup ReturningOf(rq, o)) \cup {u},
           JoiningOf(rn, o) \subseteq JoiningOf(rq, o) \ {r}
    PROVE  Bounded(un, rn, top, o)
<1> DEFINE L  == WorkersOf(us, o) \cup ReturningOf(rq, o)
           Ln == WorkersOf(un, o) \cup ReturningOf(rn, o)
           J  == JoiningOf(rq, o)
           Jn == JoiningOf(rn, o)
<1>1. /\ IsFiniteSet(L) /\ IsFiniteSet(J) /\ Ln \in SUBSET (L \cup {u})
      /\ Jn \in SUBSET (J \ {r}) /\ r \in J
  BY LoadIsNat, SeatSets
<1>2. Cardinality(L) \in Nat /\ Cardinality(J) \in Nat /\ Cardinality(Req) \in Nat
  BY LoadIsNat
<1>3. Cardinality(Ln) \in Nat /\ Cardinality(Jn) \in Nat
  BY LoadIsNat
<1>4. Cardinality(L) + Cardinality(J) <= top - 1 + Cardinality(Req)
  BY DEF Bounded
<1> SUFFICES Cardinality(Ln) + Cardinality(Jn) <= top - 1 + Cardinality(Req)
  BY DEF Bounded
<1> HIDE DEF L, Ln, J, Jn
<1>5. /\ IsFiniteSet(L \cup {u})
      /\ Cardinality(L \cup {u}) = IF u \in L THEN Cardinality(L) ELSE Cardinality(L) + 1
  BY <1>1, FS_AddElement
<1>6. Cardinality(Ln) <= Cardinality(L \cup {u})
  BY <1>1, <1>5, FS_Subset
<1>7. /\ IsFiniteSet(J \ {r})
      /\ Cardinality(J \ {r}) = IF r \in J THEN Cardinality(J) - 1 ELSE Cardinality(J)
  BY <1>1, FS_RemoveElement
<1>8. Cardinality(Jn) <= Cardinality(J \ {r})
  BY <1>1, <1>7, FS_Subset
<1> QED BY <1>1, <1>2, <1>3, <1>4, <1>5, <1>6, <1>7, <1>8

-----------------------------------------------------------------------------
(* The steps, as the seats see them: r moves, the other requests wait.      *)

OthersWait(r) == \A q \in Req \ {r} : req'[q] = req[q]

LEMMA RequestMoves ==
    ASSUME DirInv, DirInv', NEW r \in Req, OthersWait(r), NEW o
    PROVE  /\ req \in [Req -> Request] /\ req' \in [Req -> Request]
           /\ \A x \in ReturningOf(req', o) :
                 x \in ReturningOf(req, o) \/ (Returns(req'[r], o) /\ x = req'[r].target)
           /\ \A q \in JoiningOf(req', o) :
                 (q \in JoiningOf(req, o) /\ q # r) \/ (Joins(req'[r], o) /\ q = r)
<1>1. req \in [Req -> Request] /\ req' \in [Req -> Request]
  BY DEF DirInv, TypeOK
<1>2. ASSUME NEW x \in ReturningOf(req', o)
      PROVE  x \in ReturningOf(req, o) \/ (Returns(req'[r], o) /\ x = req'[r].target)
  <2>1. PICK q \in Req : Returns(req'[q], o) /\ x = req'[q].target
    BY DEF ReturningOf, Threads
  <2>2. CASE q = r
    BY <2>1, <2>2
  <2>3. CASE q # r
    <3>1. req'[q] = req[q]
      BY <2>3 DEF OthersWait
    <3> QED BY <2>1, <3>1 DEF ReturningOf, Threads
  <2> QED BY <2>2, <2>3
<1>3. ASSUME NEW q \in JoiningOf(req', o)
      PROVE  (q \in JoiningOf(req, o) /\ q # r) \/ (Joins(req'[r], o) /\ q = r)
  BY DEF JoiningOf, OthersWait
<1> QED BY <1>1, <1>2, <1>3

\* Who returns, at the latest when the step is done, was active or returning.
LEMMA QuietSeats ==
    ASSUME DirInv, DirInv', SeatsOK, NEW r \in Req, OthersWait(r),
           UNCHANGED <<users, orgs, subs, peak>>,
           \A o \in Orgs : orgs[o] # None =>
              /\ Joins(req'[r], o) => Joins(req[r], o)
              /\ Returns(req'[r], o) =>
                    req'[r].target \in WorkersOf(users, o) \cup ReturningOf(req, o),
           req'[r].pc = "admin" => orgs[req'[r].org] # None
    PROVE  SeatsOK'
<1>1. OrgsExist' /\ PeakHolds'
  BY DEF SeatsOK, OrgsExist, PeakHolds, OthersWait
<1>2. ASSUME NEW o \in Orgs, orgs[o] # None PROVE Bounded(users, req', peak[o], o)
  <2>1. /\ req \in [Req -> Request] /\ req' \in [Req -> Request]
        /\ \A x \in ReturningOf(req', o) :
              x \in ReturningOf(req, o) \/ (Returns(req'[r], o) /\ x = req'[r].target)
        /\ \A q \in JoiningOf(req', o) :
              (q \in JoiningOf(req, o) /\ q # r) \/ (Joins(req'[r], o) /\ q = r)
    BY RequestMoves
  <2>2. JoiningOf(req', o) \subseteq JoiningOf(req, o)
    BY <1>2, <2>1 DEF JoiningOf
  <2>3. WorkersOf(users, o) \cup ReturningOf(req', o)
            \subseteq WorkersOf(users, o) \cup ReturningOf(req, o)
    BY <1>2, <2>1
  <2>4. peak[o] \in Nat /\ peak[o] <= peak[o] /\ Bounded(users, req, peak[o], o)
    BY <1>2 DEF SeatsOK, DirInv, TypeOK
  <2>5. req \in [Req -> Request] /\ req' \in [Req -> Request]
    BY <2>1
  <2> QED BY <2>2, <2>3, <2>4, <2>5, LoadFalls
<1> QED BY <1>1, <1>2 DEF SeatsOK

\* Not on its way to a seat.
LEMMA CalmSeats ==
    ASSUME DirInv, DirInv', SeatsOK, NEW r \in Req, OthersWait(r),
           UNCHANGED <<users, orgs, subs, peak>>, req'[r].pc \notin {"write", "admin"}
    PROVE  SeatsOK'
  BY QuietSeats DEF Joins, Returns

LEMMA AnswerRow ==
    ASSUME DirInv, NEW r \in Req, Answer(r)
    PROVE  OthersWait(r) /\ req'[r].pc = "idle"
  BY DEF Answer, Blank, OthersWait, DirInv, TypeOK

LEMMA RecordedRow ==
    ASSUME DirInv, NEW r \in Req, Record(r)
    PROVE  OthersWait(r) /\ req'[r].pc = "audit"
<1>1. req[r] \in Request /\ CallerIsThere(req[r], users) /\ req \in [Req -> Request]
  BY DEF DirInv, TypeOK, Proper
<1> DEFINE row == [Blank EXCEPT !.pc = "audit", !.op = req[r].op,
                                !.by = req[r].by, !.org = req[r].org]
<1>2. row.pc = "audit"
  BY <1>1, RecordRow
<1>3. req' = [req EXCEPT ![r] = row]
  BY DEF Record
<1> HIDE DEF row
<1> QED BY <1>1, <1>2, <1>3 DEF OthersWait

LEMMA ParkedRow ==
    ASSUME DirInv, NEW r \in Req, NEW pc \in CallPC, Park(r, pc)
    PROVE  /\ OthersWait(r) /\ req'[r].pc = pc /\ req'[r].op = req[r].op
           /\ req'[r].org = req[r].org /\ req'[r].target = req[r].target
           /\ req'[r].active = req[r].active /\ req[r] \in Request
<1>1. req[r] \in Request /\ req \in [Req -> Request]
  BY DEF DirInv, TypeOK
<1> DEFINE row == [req[r] EXCEPT !.pc = pc]
<1>2. /\ row.pc = pc /\ row.op = req[r].op /\ row.org = req[r].org
      /\ row.target = req[r].target /\ row.active = req[r].active
  BY <1>1, ParkRow
<1>3. req' = [req EXCEPT ![r] = row]
  BY DEF Park
<1> HIDE DEF row
<1> QED BY <1>1, <1>2, <1>3 DEF OthersWait

LEMMA AnswerSeats ==
    ASSUME DirInv, DirInv', SeatsOK, NEW r \in Req, Answer(r) \/ Record(r),
           UNCHANGED <<users, orgs, subs, peak>>
    PROVE  SeatsOK'
  BY AnswerRow, RecordedRow, CalmSeats

\* The request goes on, and not to the write that takes a seat.
LEMMA OnwardSeats ==
    ASSUME DirInv, DirInv', SeatsOK, NEW r \in Req, NEW pc \in {"look", "seat", "write"},
           Park(r, pc), pc = "write" => req[r].op \in {"slug", "disable"},
           UNCHANGED <<users, orgs, subs, peak>>
    PROVE  SeatsOK'
<1>1. OthersWait(r) /\ req'[r].pc = pc /\ req'[r].op = req[r].op
  BY ParkedRow DEF CallPC
<1>2. req'[r].pc # "admin" /\ \A o : ~Joins(req'[r], o) /\ ~Returns(req'[r], o)
  BY <1>1 DEF Joins, Returns
<1> QED BY <1>1, <1>2, QuietSeats

\* A new account, of an organization that is there.
LEMMA CreateUserSeats ==
    ASSUME DirInv, DirInv', SeatsOK, NEW r \in Req, OthersWait(r),
           NEW u \in UserIds, NEW o \in Orgs, NEW e, NEW role, CreateUser(u, o, e, role),
           orgs[o] # None, Joins(req[r], o), req'[r].pc \notin {"write", "admin"},
           UNCHANGED <<orgs, subs, peak>>
    PROVE  SeatsOK'
<1>1. /\ users' = [users EXCEPT ![u] = NewUser(o, e, role)]
      /\ users \in [UserIds -> UserRow \cup {None}]
  BY DEF CreateUser, MemoryCreateUser, OracleInsertUser, DirInv, TypeOK
<1>2. users'[u].org = o /\ \A v \in UserIds \ {u} : users'[v] = users[v]
  BY <1>1 DEF NewUser
<1>3. OrgsExist' /\ PeakHolds'
  BY <1>2 DEF SeatsOK, OrgsExist, PeakHolds, OthersWait
<1>4. ASSUME NEW p \in Orgs, orgs[p] # None PROVE Bounded(users', req', peak[p], p)
  <2>1. /\ \A x \in ReturningOf(req', p) :
              x \in ReturningOf(req, p) \/ (Returns(req'[r], p) /\ x = req'[r].target)
        /\ \A q \in JoiningOf(req', p) :
              (q \in JoiningOf(req, p) /\ q # r) \/ (Joins(req'[r], p) /\ q = r)
    BY RequestMoves
  <2>2. req \in [Req -> Request] /\ req' \in [Req -> Request]
    BY RequestMoves
  <2>3. ~Joins(req'[r], p) /\ ~Returns(req'[r], p)
    BY DEF Joins, Returns
  <2>4. JoiningOf(req', p) \subseteq JoiningOf(req, p) \ {r}
    BY <2>1, <2>3
  <2>5. ReturningOf(req', p) \subseteq ReturningOf(req, p)
    BY <2>1, <2>3
  <2>6. peak[p] \in Nat /\ peak[p] <= peak[p] /\ Bounded(users, req, peak[p], p)
    BY <1>4 DEF SeatsOK, DirInv, TypeOK
  <2>7. CASE p = o
    <3>1. r \in JoiningOf(req, p)
      BY <2>7 DEF JoiningOf
    <3>2. WorkersOf(users', p) \subseteq WorkersOf(users, p) \cup {u}
      BY <1>2 DEF WorkersOf
    <3>3. WorkersOf(users', p) \cup ReturningOf(req', p)
              \subseteq (WorkersOf(users, p) \cup ReturningOf(req, p)) \cup {u}
      BY <2>5, <3>2
    <3> QED BY <2>2, <2>4, <2>6, <3>1, <3>3, LoadJoins
  <2>8. CASE p # o
    <3>1. WorkersOf(users', p) \subseteq WorkersOf(users, p)
      BY <1>2, <2>8 DEF WorkersOf
    <3>2. WorkersOf(users', p) \cup ReturningOf(req', p)
              \subseteq WorkersOf(users, p) \cup ReturningOf(req, p)
      BY <2>5, <3>1
    <3>3. JoiningOf(req', p) \subseteq JoiningOf(req, p)
      BY <2>4
    <3> QED BY <2>2, <2>6, <3>2, <3>3, LoadFalls
  <2> QED BY <2>7, <2>8
<1> QED BY <1>3, <1>4 DEF SeatsOK

LEMMA WriteNewUserSeats ==
    ASSUME DirInv, DirInv', SeatsOK, NEW r \in Req, WriteNewUser(r)
    PROVE  SeatsOK'
<1>1. CASE Answer(r) /\ UNCHANGED users
  BY <1>1, AnswerSeats DEF WriteNewUser
<1>2. ASSUME NEW u \in UserIds, CreateUser(u, req[r].org, req[r].email, req[r].newRole), Record(r)
      PROVE  SeatsOK'
  <2>1. req[r].pc = "write" /\ req[r].op = "create" /\ UNCHANGED <<orgs, subs, peak>>
    BY DEF WriteNewUser, At
  <2>2. /\ req[r].by \in UserIds /\ users[req[r].by] # None
        /\ req[r].org = users[req[r].by].org /\ req[r].org \in Orgs
    BY <2>1 DEF DirInv, Proper, CallerIsThere, TokenPC, TypeOK, UserRow
  <2>3. orgs[req[r].org] # None
    BY <2>2 DEF SeatsOK, OrgsExist
  <2>4. Joins(req[r], req[r].org)
    BY <2>1 DEF Joins
  <2>5. OthersWait(r) /\ req'[r].pc = "audit"
    BY <1>2, RecordedRow
  <2> QED BY <1>2, <2>1, <2>2, <2>3, <2>4, <2>5, CreateUserSeats
<1> QED BY <1>1, <1>2 DEF WriteNewUser

LEMMA ProvisionAdminSeats ==
    ASSUME DirInv, DirInv', SeatsOK, NEW r \in Req, ProvisionAdmin(r)
    PROVE  SeatsOK'
<1>1. CASE Answer(r) /\ UNCHANGED users
  BY <1>1, AnswerSeats DEF ProvisionAdmin
<1>2. ASSUME NEW u \in UserIds, CreateUser(u, req[r].org, req[r].email, "admin"),
             req' = [req EXCEPT ![r].pc = "subscribe", ![r].target = u]
      PROVE  SeatsOK'
  <2>1. /\ req[r].pc = "admin" /\ UNCHANGED <<orgs, subs, peak>>
        /\ req[r] \in Request /\ req \in [Req -> Request]
    BY DEF ProvisionAdmin, At, DirInv, TypeOK
  <2>2. req[r].org \in Orgs /\ req[r].op = "provision"
    BY <2>1 DEF DirInv, Proper, PayloadIsThere
  <2>3. orgs[req[r].org] # None
    BY <2>1 DEF SeatsOK, OrgsExist
  <2>4. Joins(req[r], req[r].org)
    BY <2>1, <2>2 DEF Joins
  <2>5. OthersWait(r)
    BY <1>2, <2>1 DEF OthersWait
  <2>6. req'[r].pc = "subscribe"
    BY <1>2, <2>1 DEF Request
  <2> QED BY <1>2, <2>1, <2>2, <2>3, <2>4, <2>5, <2>6, CreateUserSeats
<1> QED BY <1>1, <1>2 DEF ProvisionAdmin

\* Whom an update makes active was returning.
LEMMA WriteUserSeats ==
    ASSUME DirInv, DirInv', SeatsOK, NEW r \in Req, WriteUser(r)
    PROVE  SeatsOK'
<1> DEFINE t   == req[r].target
           o   == req[r].org
           new == Patched(users[t], req[r].newRole, req[r].active)
<1>1. /\ req[r] \in Request /\ req[r].pc = "write" /\ req[r].op \in {"update", "disable"}
      /\ req[r].op = "disable" => req[r].active \in {FALSE, None}
      /\ t \in UserIds /\ UNCHANGED <<orgs, subs, peak>>
      /\ users \in [UserIds -> UserRow \cup {None}]
  BY DEF WriteUser, At, DirInv, TypeOK, Proper, PayloadIsThere, TokenPC
<1>2. users' = [users EXCEPT ![t] = new] /\ users[t] # None /\ users[t].org = o
  BY DEF WriteUser, UpdateUser, MemoryUpdateUser, OracleUpdateUser, SupabaseUpdateUser, GetUser,
         Known
<1>3. users[t] \in UserRow
  BY <1>1, <1>2
<1>4. new.org = users[t].org
  <2>1. req[r].newRole \in Roles \cup {None} /\ req[r].active \in BOOLEAN \cup {None}
    BY <1>1 DEF Request
  <2> QED BY <1>3, <2>1, PatchedRow
<1>5. new.active /\ ~users[t].active => t \in ReturningOf(req, o)
  <2>1. new.active /\ ~users[t].active => req[r].active = TRUE
    BY <1>1, <1>3 DEF Patched, UserRow, Request
  <2>2. req[r].active = TRUE /\ req[r].op = "disable" => ~new.active \/ users[t].active
    BY <1>1, <1>3 DEF Patched, UserRow
  <2>3. req[r].active = TRUE /\ req[r].op = "update" => t \in ReturningOf(req, o)
    BY <1>1 DEF ReturningOf, Threads, Returns
  <2> QED BY <1>1, <2>1, <2>2, <2>3
<1>6. OthersWait(r) /\ req'[r].pc \notin {"write", "admin"}
  BY AnswerRow, RecordedRow DEF WriteUser
<1>7. \A v \in UserIds \ {t} : users'[v] = users[v]
  BY <1>1, <1>2
<1>8. users'[t] = new
  BY <1>1, <1>2
<1> HIDE DEF new, t
<1>9. OrgsExist' /\ PeakHolds'
  BY <1>1, <1>2, <1>4, <1>6, <1>7, <1>8 DEF SeatsOK, OrgsExist, PeakHolds, OthersWait
<1>10. ASSUME NEW p \in Orgs, orgs[p] # None PROVE Bounded(users', req', peak[p], p)
  <2>1. /\ \A x \in ReturningOf(req', p) :
              x \in ReturningOf(req, p) \/ (Returns(req'[r], p) /\ x = req'[r].target)
        /\ \A q \in JoiningOf(req', p) :
              (q \in JoiningOf(req, p) /\ q # r) \/ (Joins(req'[r], p) /\ q = r)
    BY <1>6, RequestMoves
  <2>2. req \in [Req -> Request] /\ req' \in [Req -> Request]
    BY DEF DirInv, TypeOK
  <2>3. ~Joins(req'[r], p) /\ ~Returns(req'[r], p)
    BY <1>6 DEF Joins, Returns
  <2>4. JoiningOf(req', p) \subseteq JoiningOf(req, p)
    BY <2>1, <2>3
  <2>5. ReturningOf(req', p) \subseteq ReturningOf(req, p)
    BY <2>1, <2>3
  <2>6. peak[p] \in Nat /\ peak[p] <= peak[p] /\ Bounded(users, req, peak[p], p)
    BY <1>10 DEF SeatsOK, DirInv, TypeOK
  <2>7. ASSUME NEW v \in WorkersOf(users', p)
        PROVE  v \in WorkersOf(users, p) \cup ReturningOf(req, p)
    <3>1. CASE v # t
      BY <1>7, <2>7, <3>1 DEF WorkersOf
    <3>2. CASE v = t
      BY <1>2, <1>4, <1>5, <1>8, <2>7, <3>2 DEF WorkersOf
    <3> QED BY <3>1, <3>2
  <2>8. WorkersOf(users', p) \cup ReturningOf(req', p)
            \subseteq WorkersOf(users, p) \cup ReturningOf(req, p)
    BY <2>5, <2>7
  <2> QED BY <2>2, <2>4, <2>6, <2>8, LoadFalls
<1> QED BY <1>1, <1>9, <1>10 DEF SeatsOK

\* An organization with nobody in it yet but the administrator on his way.
LEMMA ProvisionOrganizationSeats ==
    ASSUME DirInv, DirInv', SeatsOK, NEW r \in Req, ProvisionOrganization(r)
    PROVE  SeatsOK'
<1>1. CASE Answer(r) /\ UNCHANGED orgs
  BY <1>1, AnswerSeats DEF ProvisionOrganization
<1>2. ASSUME NEW o \in Orgs, CreateOrganization(o, req[r].slug),
             req' = [req EXCEPT ![r].pc = "admin", ![r].org = o]
      PROVE  SeatsOK'
  <2>1. /\ req[r].pc = "organization" /\ UNCHANGED <<users, subs, peak>>
        /\ req[r] \in Request /\ req \in [Req -> Request] /\ req' \in [Req -> Request]
        /\ orgs \in [Orgs -> Slugs \cup {None}]
    BY DEF ProvisionOrganization, At, DirInv, TypeOK
  <2>2. req[r].slug \in Slugs /\ req[r].slug # None
    BY <2>1, StoreAssumption DEF DirInv, Proper, PayloadIsThere
  <2>3. orgs[o] = None /\ orgs' = [orgs EXCEPT ![o] = req[r].slug]
    BY <1>2 DEF CreateOrganization, MemoryCreateOrganization, OracleInsertOrganization,
                SupabaseCreateOrganization, IsNextOrganization
  <2>4. orgs'[o] # None /\ \A p \in Orgs \ {o} : orgs'[p] = orgs[p]
    BY <2>1, <2>2, <2>3
  <2>5. OthersWait(r)
    BY <1>2, <2>1 DEF OthersWait
  <2>6. req'[r].pc = "admin" /\ req'[r].org = o
    BY <1>2, <2>1 DEF Request
  <2>7. OrgsExist'
    <3>1. \A u \in UserIds : users[u] # None => orgs[users[u].org] # None /\ users[u].org \in Orgs
      BY DEF SeatsOK, OrgsExist, DirInv, TypeOK, UserRow
    <3>2. \A q \in Req \ {r} : req'[q].pc = "admin" =>
          orgs[req'[q].org] # None /\ req'[q].org \in Orgs
      BY <2>5 DEF SeatsOK, OrgsExist, OthersWait, DirInv, Proper, PayloadIsThere
    <3> QED BY <2>1, <2>4, <2>6, <3>1, <3>2 DEF OrgsExist
  <2>8. PeakHolds'
    BY <2>1 DEF SeatsOK, PeakHolds
  <2>9. ASSUME NEW p \in Orgs, orgs'[p] # None PROVE Bounded(users', req', peak'[p], p)
    <3>1. CASE p = o
      <4>1. WorkersOf(users', p) = {}
        BY <2>1, <2>3, <3>1 DEF WorkersOf, SeatsOK, OrgsExist
      <4>2. Cardinality(WorkersOf(users', p)) <= peak[p] - 1 /\ peak[p] \in Nat
        BY <4>1, FS_EmptySet DEF DirInv, TypeOK
      <4> QED BY <2>1, <4>2, LoadTaken
    <3>2. CASE p # o
      <4>1. peak[p] \in Nat /\ peak[p] <= peak[p] /\ Bounded(users, req, peak[p], p)
        BY <2>4, <2>9, <3>2 DEF SeatsOK, DirInv, TypeOK
      <4>2. ~Joins(req'[r], p) /\ ~Returns(req'[r], p)
        BY <2>6, <3>2 DEF Joins, Returns
      <4>3. /\ \A x \in ReturningOf(req', p) :
                 x \in ReturningOf(req, p) \/ (Returns(req'[r], p) /\ x = req'[r].target)
            /\ \A q \in JoiningOf(req', p) :
                 (q \in JoiningOf(req, p) /\ q # r) \/ (Joins(req'[r], p) /\ q = r)
        BY <2>5, RequestMoves
      <4>4. JoiningOf(req', p) \subseteq JoiningOf(req, p)
        BY <4>2, <4>3
      <4>5. WorkersOf(users, p) \cup ReturningOf(req', p)
                \subseteq WorkersOf(users, p) \cup ReturningOf(req, p)
        BY <4>2, <4>3
      <4> QED BY <2>1, <4>1, <4>4, <4>5, LoadFalls
    <3> QED BY <3>1, <3>2
  <2> QED BY <2>7, <2>8, <2>9 DEF SeatsOK
<1> QED BY <1>1, <1>2 DEF ProvisionOrganization

\* The peak grows with the seats that are bought.
LEMMA UpsertSeats ==
    ASSUME DirInv, DirInv', SeatsOK, NEW r \in Req, NEW sub \in SubRow,
           UpsertSubscription(req[r].org, sub), req[r].org \in Orgs, Record(r),
           peak' = [peak EXCEPT ![req[r].org] = IF @ < sub.seats THEN sub.seats ELSE @],
           UNCHANGED <<orgs, users>>
    PROVE  SeatsOK'
<1> DEFINE o == req[r].org
<1>1. /\ subs' = [subs EXCEPT ![o] = sub] /\ subs \in [Orgs -> SubRow \cup {None}]
      /\ peak \in [Orgs -> Nat \ {0}] /\ sub.seats \in Nat /\ o \in Orgs
      /\ req \in [Req -> Request] /\ req' \in [Req -> Request]
  BY StoreAssumption DEF UpsertSubscription, MemoryUpsertSubscription, OracleMergeSubscription,
         SupabasePatchSubscription, DirInv, TypeOK, SubRow
<1>2. OthersWait(r) /\ req'[r].pc = "audit"
  BY RecordedRow
<1>3. /\ \A p \in Orgs : peak[p] <= peak'[p] /\ peak[p] \in Nat /\ peak'[p] \in Nat
      /\ sub.seats <= peak'[o] /\ subs'[o] = sub
      /\ \A p \in Orgs \ {o} : subs'[p] = subs[p] /\ peak'[p] = peak[p]
  BY <1>1
<1> HIDE DEF o
<1>4. PeakHolds'
  BY <1>1, <1>3 DEF SeatsOK, PeakHolds
<1>5. OrgsExist'
  BY <1>2 DEF SeatsOK, OrgsExist, OthersWait
<1>6. ASSUME NEW p \in Orgs, orgs[p] # None PROVE Bounded(users, req', peak'[p], p)
  <2>1. peak[p] \in Nat /\ peak'[p] \in Nat /\ peak[p] <= peak'[p]
    BY <1>3
  <2>2. Bounded(users, req, peak[p], p)
    BY <1>6 DEF SeatsOK
  <2>3. ~Joins(req'[r], p) /\ ~Returns(req'[r], p)
    BY <1>2 DEF Joins, Returns
  <2>4. /\ \A x \in ReturningOf(req', p) :
              x \in ReturningOf(req, p) \/ (Returns(req'[r], p) /\ x = req'[r].target)
        /\ \A q \in JoiningOf(req', p) :
              (q \in JoiningOf(req, p) /\ q # r) \/ (Joins(req'[r], p) /\ q = r)
    BY <1>2, RequestMoves
  <2>5. JoiningOf(req', p) \subseteq JoiningOf(req, p)
    BY <2>3, <2>4
  <2>6. WorkersOf(users, p) \cup ReturningOf(req', p)
            \subseteq WorkersOf(users, p) \cup ReturningOf(req, p)
    BY <2>3, <2>4
  <2>7. req \in [Req -> Request] /\ req' \in [Req -> Request]
    BY <1>1
  <2> QED BY <2>1, <2>2, <2>5, <2>6, <2>7, LoadFalls
<1> QED BY <1>4, <1>5, <1>6 DEF SeatsOK

\* The seat was free when it was looked for: what came before is forgotten.
LEMMA TakeSeatSeats ==
    ASSUME DirInv, DirInv', SeatsOK, NEW r \in Req, TakeSeat(r)
    PROVE  SeatsOK'
<1>0. UNCHANGED <<users, orgs, subs, peak>>
  BY DEF TakeSeat, stores
<1>1. CASE Answer(r)
  BY <1>0, <1>1, AnswerSeats
<1>2. CASE EnsureSeatAvailable(req[r].org) /\ Park(r, "write")
  <2> DEFINE o == req[r].org
  <2>1. /\ OthersWait(r) /\ req'[r].pc = "write" /\ req'[r].org = o /\ req[r] \in Request
        /\ req \in [Req -> Request] /\ req' \in [Req -> Request]
    BY <1>2, ParkedRow DEF CallPC, DirInv, TypeOK
  <2>2. o \in Orgs
    BY DEF TakeSeat, At, DirInv, Proper, CallerIsThere, TokenPC, TypeOK, UserRow
  <2>3. OrgsExist' /\ PeakHolds'
    BY <1>0, <2>1 DEF SeatsOK, OrgsExist, PeakHolds, OthersWait
  <2>4. Cardinality(WorkersOf(users, o)) <= peak[o] - 1 /\ peak[o] \in Nat
    <3>1. WorkersOf(users, o) = ActiveUsers(o)
      BY DEF WorkersOf, ActiveUsers, ListUsers, Known
    <3>2. subs[o] # None /\ Cardinality(WorkersOf(users, o)) < subs[o].seats
      BY <1>2, <3>1 DEF EnsureSeatAvailable, EnsureActive, CountActiveUsers
    <3>3. subs[o].seats \in Nat /\ peak[o] \in Nat /\ subs[o].seats <= peak[o]
      BY <2>2, <3>2, StoreAssumption DEF SeatsOK, PeakHolds, DirInv, TypeOK, SubRow
    <3>4. Cardinality(WorkersOf(users, o)) \in Nat
      BY <2>1, LoadIsNat
    <3> QED BY <3>2, <3>3, <3>4
  <2>5. ASSUME NEW p \in Orgs, orgs[p] # None PROVE Bounded(users, req', peak[p], p)
    <3>1. CASE p = o
      BY <2>1, <2>4, <3>1, LoadTaken
    <3>2. CASE p # o
      <4>1. ~Joins(req'[r], p) /\ ~Returns(req'[r], p)
        BY <2>1, <3>2 DEF Joins, Returns
      <4>2. /\ \A x \in ReturningOf(req', p) :
                 x \in ReturningOf(req, p) \/ (Returns(req'[r], p) /\ x = req'[r].target)
            /\ \A q \in JoiningOf(req', p) :
                 (q \in JoiningOf(req, p) /\ q # r) \/ (Joins(req'[r], p) /\ q = r)
        BY <2>1, RequestMoves
      <4>3. JoiningOf(req', p) \subseteq JoiningOf(req, p)
        BY <4>1, <4>2
      <4>4. WorkersOf(users, p) \cup ReturningOf(req', p)
                \subseteq WorkersOf(users, p) \cup ReturningOf(req, p)
        BY <4>1, <4>2
      <4>5. peak[p] \in Nat /\ peak[p] <= peak[p] /\ Bounded(users, req, peak[p], p)
        BY <2>5 DEF SeatsOK, DirInv, TypeOK
      <4>6. req \in [Req -> Request] /\ req' \in [Req -> Request]
        BY <2>1
      <4> QED BY <4>3, <4>4, <4>5, <4>6, LoadFalls
    <3> QED BY <3>1, <3>2
  <2> QED BY <1>0, <2>3, <2>5 DEF SeatsOK
<1> QED BY <1>1, <1>2 DEF TakeSeat

\* An account that is active already is active when the update is written, or
\* somebody else counts it.
LEMMA UpdateRulesSeats ==
    ASSUME DirInv, DirInv', SeatsOK, NEW r \in Req, UpdateUserRules(r)
    PROVE  SeatsOK'
<1>0. UNCHANGED <<users, orgs, subs, peak>> /\ req[r].op = "update"
  BY DEF UpdateUserRules, stores
<1>1. CASE Answer(r)
  BY <1>0, <1>1, AnswerSeats
<1>2. CASE Park(r, "seat")
  BY <1>0, <1>2, OnwardSeats
<1>3. CASE /\ Park(r, "write") /\ MayUpdate(req[r])
           /\ ~(req[r].active = TRUE /\ ~users[req[r].target].active)
  <2>1. /\ OthersWait(r) /\ req'[r].pc = "write" /\ req'[r].op = "update"
        /\ req'[r].target = req[r].target /\ req'[r].active = req[r].active
        /\ req'[r].org = req[r].org
    BY <1>0, <1>3, ParkedRow DEF CallPC
  <2>2. req[r].target \in Known /\ users[req[r].target].org = req[r].org
    BY <1>3 DEF MayUpdate, GetUser
  <2>3. ASSUME NEW o \in Orgs, Returns(req'[r], o) PROVE req'[r].target \in WorkersOf(users, o)
    BY <1>3, <2>1, <2>2, <2>3 DEF Returns, WorkersOf, Known
  <2>4. \A o \in Orgs : ~Joins(req'[r], o)
    BY <2>1 DEF Joins
  <2> QED BY <1>0, <2>1, <2>3, <2>4, QuietSeats
<1> QED BY <1>1, <1>2, <1>3 DEF UpdateUserRules

LEMMA LoginSeats ==
    ASSUME DirInv, DirInv', SeatsOK, NEW r \in Req, NEW e \in Emails, FindCandidate(r, e)
    PROVE  SeatsOK'
<1>1. PICK u \in Known : req' = [req EXCEPT ![r] = [Blank EXCEPT !.pc = "ticket", !.op = "login",
                                            !.by = u, !.org = users[u].org]]
  BY DEF FindCandidate, FindLoginCandidates
<1>2. OthersWait(r) /\ req'[r].pc = "ticket"
  BY <1>1 DEF OthersWait, Blank, DirInv, TypeOK
<1> QED BY <1>2, CalmSeats DEF FindCandidate, stores

LEMMA ResolveSeats ==
    ASSUME DirInv, DirInv', SeatsOK, NEW r \in Req, NEW u \in UserIds, NEW c \in TokenCalls,
           ResolveCurrentUser(r, u, c)
    PROVE  SeatsOK'
<1>1. c \in Request /\ req \in [Req -> Request]
  BY CallRow DEF DirInv, TypeOK
<1>2. OthersWait(r) /\ req'[r].pc = "entitle"
  BY <1>1 DEF ResolveCurrentUser, OthersWait, Request
<1> QED BY <1>2, CalmSeats DEF ResolveCurrentUser, stores

LEMMA DecideSeats ==
    ASSUME DirInv, DirInv', SeatsOK, NEW r \in Req,
           \/ CreateAccessToken(r)
           \/ GetCurrentUser(r)
           \/ CreateUserRules(r)
           \/ DeactivateUserRules(r)
    PROVE  SeatsOK'
<1>0. UNCHANGED <<users, orgs, subs, peak>>
  BY DEF CreateAccessToken, GetCurrentUser, CreateUserRules, DeactivateUserRules, stores
<1>1. CASE Answer(r) \/ Record(r)
  BY <1>0, <1>1, AnswerSeats
<1>2. CASE Park(r, "look") \/ Park(r, "seat")
  BY <1>0, <1>2, OnwardSeats
<1>3. CASE Park(r, "write") /\ req[r].op \in {"slug", "disable"}
  BY <1>0, <1>3, OnwardSeats
<1> QED BY <1>1, <1>2, <1>3
        DEF CreateAccessToken, GetCurrentUser, CreateUserRules, DeactivateUserRules

\* A slug is given to an organization that has one.
LEMMA WriteOrganizationSeats ==
    ASSUME DirInv, DirInv', SeatsOK, NEW r \in Req, WriteOrganization(r)
    PROVE  SeatsOK'
<1>1. CASE UNCHANGED orgs
  BY <1>1, AnswerSeats DEF WriteOrganization
<1>2. CASE UpdateOrganization(req[r].org, req[r].slug)
  <2>1. /\ req[r].pc = "write" /\ req[r].op = "slug" /\ UNCHANGED <<users, subs, peak>>
        /\ orgs \in [Orgs -> Slugs \cup {None}] /\ Answer(r)
    BY DEF WriteOrganization, At, DirInv, TypeOK
  <2>2. req[r].slug \in Slugs /\ req[r].slug # None
    BY <2>1, StoreAssumption DEF DirInv, Proper, PayloadIsThere, TokenPC
  <2>3. orgs[req[r].org] # None /\ orgs' = [orgs EXCEPT ![req[r].org] = req[r].slug]
    BY <1>2 DEF UpdateOrganization, MemoryUpdateOrganization, OracleUpdateOrganization,
                SupabaseUpdateOrganization
  <2>4. \A o \in Orgs : orgs[o] # None <=> orgs'[o] # None
    BY <2>1, <2>2, <2>3
  <2>5. OthersWait(r) /\ req'[r].pc = "idle"
    BY <2>1, AnswerRow
  <2>6. OrgsExist'
    <3>1. \A u \in UserIds : users[u] # None => orgs[users[u].org] # None /\ users[u].org \in Orgs
      BY DEF SeatsOK, OrgsExist, DirInv, TypeOK, UserRow
    <3>2. \A q \in Req \ {r} : req'[q].pc = "admin" =>
          orgs[req'[q].org] # None /\ req'[q].org \in Orgs
      BY <2>5 DEF SeatsOK, OrgsExist, OthersWait, DirInv, Proper, PayloadIsThere
    <3> QED BY <2>1, <2>4, <2>5, <3>1, <3>2 DEF OrgsExist
  <2>7. PeakHolds'
    BY <2>1 DEF SeatsOK, PeakHolds
  <2>8. ASSUME NEW p \in Orgs, orgs'[p] # None PROVE Bounded(users, req', peak[p], p)
    <3>1. peak[p] \in Nat /\ peak[p] <= peak[p] /\ Bounded(users, req, peak[p], p)
      BY <2>4, <2>8 DEF SeatsOK, DirInv, TypeOK
    <3>2. ~Joins(req'[r], p) /\ ~Returns(req'[r], p)
      BY <2>5 DEF Joins, Returns
    <3>3. /\ \A x \in ReturningOf(req', p) :
               x \in ReturningOf(req, p) \/ (Returns(req'[r], p) /\ x = req'[r].target)
          /\ \A q \in JoiningOf(req', p) :
               (q \in JoiningOf(req, p) /\ q # r) \/ (Joins(req'[r], p) /\ q = r)
      BY <2>5, RequestMoves
    <3>4. JoiningOf(req', p) \subseteq JoiningOf(req, p)
      BY <3>2, <3>3
    <3>5. WorkersOf(users, p) \cup ReturningOf(req', p)
              \subseteq WorkersOf(users, p) \cup ReturningOf(req, p)
      BY <3>2, <3>3
    <3>6. req \in [Req -> Request] /\ req' \in [Req -> Request]
      BY DEF DirInv, TypeOK
    <3> QED BY <3>1, <3>4, <3>5, <3>6, LoadFalls
  <2> QED BY <2>1, <2>6, <2>7, <2>8 DEF SeatsOK
<1> QED BY <1>1, <1>2 DEF WriteOrganization

LEMMA OperatorSeats ==
    ASSUME DirInv, DirInv', SeatsOK, NEW r \in Req,
           \/ \E s \in Slugs, e \in Emails : Provision(r, s, e)
           \/ \E o \in Orgs : ReadSubscription(r, o)
    PROVE  SeatsOK'
<1>1. ASSUME NEW s \in Slugs, NEW e \in Emails, Provision(r, s, e) PROVE SeatsOK'
  <2>1. OthersWait(r) /\ req'[r].pc = "organization"
    BY <1>1 DEF Provision, OthersWait, Blank, DirInv, TypeOK
  <2> QED BY <1>1, <2>1, CalmSeats DEF Provision, stores
<1>2. ASSUME NEW o \in Orgs, ReadSubscription(r, o) PROVE SeatsOK'
  <2>1. PICK c \in EditCalls(o) : req' = [req EXCEPT ![r] = c]
    BY <1>2 DEF ReadSubscription
  <2>2. c.pc = "merge"
    BY <1>2, EditRow DEF ReadSubscription
  <2>3. OthersWait(r) /\ req'[r].pc = "merge"
    BY <2>1, <2>2 DEF OthersWait, DirInv, TypeOK
  <2> QED BY <1>2, <2>3, CalmSeats DEF ReadSubscription, stores
<1> QED BY <1>1, <1>2

LEMMA SubscriptionSeats ==
    ASSUME DirInv, DirInv', SeatsOK, NEW r \in Req,
           \/ \E seats \in SeatCounts : ProvisionSubscription(r, seats)
           \/ UpdateSubscription(r)
    PROVE  SeatsOK'
<1>1. ASSUME NEW seats \in SeatCounts, ProvisionSubscription(r, seats) PROVE SeatsOK'
  <2> DEFINE sub == [status |-> "active", seats |-> seats, expires |-> LastDay]
  <2>1. sub \in SubRow /\ sub.seats = seats
    BY StoreAssumption DEF SubRow, Statuses
  <2>2. req[r].org \in Orgs
    BY <1>1 DEF ProvisionSubscription, At, DirInv, Proper, PayloadIsThere
  <2>3. /\ UpsertSubscription(req[r].org, sub) /\ Record(r) /\ UNCHANGED <<orgs, users>>
        /\ peak' = [peak EXCEPT ![req[r].org] = IF @ < seats THEN seats ELSE @]
    BY <1>1 DEF ProvisionSubscription
  <2> HIDE DEF sub
  <2> QED BY <2>1, <2>2, <2>3, UpsertSeats
<1>2. CASE UpdateSubscription(r)
  <2>1. /\ req[r] \in Request /\ req[r].org \in Orgs /\ req[r].seen \in SubRow
    BY <1>2 DEF UpdateSubscription, At, DirInv, TypeOK, Proper, PayloadIsThere
  <2>2. Merged(req[r]) \in SubRow
    <3>1. /\ req[r].status \in Statuses \cup {None} /\ req[r].seats \in SeatCounts \cup {None}
          /\ req[r].expires \in (1 .. LastDay) \cup {None}
      BY <2>1 DEF Request
    <3> QED BY <2>1, <3>1 DEF Merged, SubRow
  <2> QED BY <1>2, <2>1, <2>2, UpsertSeats DEF UpdateSubscription
<1> QED BY <1>1, <1>2

LEMMA StillSeats ==
    ASSUME SeatsOK, UNCHANGED <<users, orgs, subs, peak, req>>
    PROVE  SeatsOK'
  BY DEF SeatsOK, OrgsExist, PeakHolds, Bounded, WorkersOf, ReturningOf, JoiningOf, Threads

LEMMA SeatsStep ==
    ASSUME DirInv, SeatsOK, [Next]_vars
    PROVE  SeatsOK'
<1>0. DirInv'
  BY NextStep DEF StepOK
<1>1. ASSUME NEW r \in Req, TokenStep(r) PROVE SeatsOK'
  <2>1. CASE \E e \in Emails : FindCandidate(r, e)
    BY <1>0, <2>1, LoginSeats
  <2>2. CASE \E u \in UserIds, c \in TokenCalls : ResolveCurrentUser(r, u, c)
    BY <1>0, <2>2, ResolveSeats
  <2>3. CASE \/ CreateAccessToken(r)
             \/ GetCurrentUser(r)
             \/ CreateUserRules(r)
             \/ DeactivateUserRules(r)
    BY <1>0, <2>3, DecideSeats
  <2>4. CASE UpdateUserRules(r)
    BY <1>0, <2>4, UpdateRulesSeats
  <2>5. CASE TakeSeat(r)
    BY <1>0, <2>5, TakeSeatSeats
  <2>6. CASE WriteNewUser(r)
    BY <1>0, <2>6, WriteNewUserSeats
  <2>7. CASE WriteUser(r)
    BY <1>0, <2>7, WriteUserSeats
  <2>8. CASE WriteOrganization(r)
    BY <1>0, <2>8, WriteOrganizationSeats
  <2> QED BY <1>1, <2>1, <2>2, <2>3, <2>4, <2>5, <2>6, <2>7, <2>8 DEF TokenStep
<1>2. ASSUME NEW r \in Req, KeyStep(r) PROVE SeatsOK'
  <2>1. CASE \/ \E s \in Slugs, e \in Emails : Provision(r, s, e)
             \/ \E o \in Orgs : ReadSubscription(r, o)
    BY <1>0, <2>1, OperatorSeats
  <2>2. CASE ProvisionOrganization(r)
    BY <1>0, <2>2, ProvisionOrganizationSeats
  <2>3. CASE ProvisionAdmin(r)
    BY <1>0, <2>3, ProvisionAdminSeats
  <2>4. CASE \/ \E seats \in SeatCounts : ProvisionSubscription(r, seats)
             \/ UpdateSubscription(r)
    BY <1>0, <2>4, SubscriptionSeats
  <2> QED BY <1>2, <2>1, <2>2, <2>3, <2>4 DEF KeyStep
<1>3. ASSUME NEW r \in Req, RecordEvent(r) \/ CallFails(r) PROVE SeatsOK'
  BY <1>0, <1>3, AnswerSeats DEF RecordEvent, CallFails, stores
<1>4. CASE DayPasses
  BY <1>4, StillSeats DEF DayPasses, stores
<1>5. CASE UNCHANGED vars
  BY <1>5, StillSeats DEF vars, stores
<1> QED BY <1>1, <1>2, <1>3, <1>4, <1>5 DEF Next

LEMMA SeatsInit == ASSUME Init PROVE SeatsOK
<1>1. PICK seats \in SeatCounts :
        /\ CountActiveUsers(Home) <= seats
        /\ subs = [o \in Orgs |-> IF o = Home THEN [status |-> "active", seats |-> seats,
                                                     expires |-> 1] ELSE None]
        /\ peak = [o \in Orgs |-> IF o = Home THEN seats ELSE 1]
  BY DEF Init
<1>2. /\ req = [r \in Req |-> Blank] /\ orgs = [o \in Orgs |-> IF o = Home THEN HomeSlug ELSE None]
      /\ Home \in Orgs /\ HomeSlug # None /\ req \in [Req -> Request]
  BY DirectoryAssumption, StoreAssumption, DirInit DEF Init, DirInv, TypeOK
<1>3. PICK active \in BOOLEAN : users = SeedUsers(active)
  BY DEF Init
<1>4. \A u \in UserIds : users[u] # None => users[u].org = Home
  BY <1>3 DEF SeedUsers, NewUser
<1>5. \A r \in Req : req[r].pc = "idle"
  BY <1>2 DEF Blank
<1>6. OrgsExist
  BY <1>2, <1>4, <1>5 DEF OrgsExist
<1>7. PeakHolds
  BY <1>1, StoreAssumption DEF PeakHolds
<1>8. Bounded(users, req, peak[Home], Home)
  <2>1. Threads(req, Home) = {} /\ JoiningOf(req, Home) = {}
    BY <1>5 DEF Threads, JoiningOf, Returns, Joins
  <2>2. ReturningOf(req, Home) = {}
    BY <2>1 DEF ReturningOf
  <2>3. WorkersOf(users, Home) = ActiveUsers(Home)
    BY DEF WorkersOf, ActiveUsers, ListUsers, Known
  <2>4. WorkersOf(users, Home) \cup ReturningOf(req, Home) = ActiveUsers(Home)
    BY <2>2, <2>3
  <2>5. Cardinality(JoiningOf(req, Home)) = 0
    BY <2>1, FS_EmptySet
  <2>6. Cardinality(ActiveUsers(Home)) <= peak[Home] /\ peak[Home] \in Nat
    BY <1>1, <1>2, StoreAssumption DEF CountActiveUsers
  <2>7. Cardinality(ActiveUsers(Home)) \in Nat /\ Cardinality(Req) \in Nat \ {0}
    BY <1>2, <2>3, LoadIsNat
  <2>8. Cardinality(ActiveUsers(Home)) + 0 <= peak[Home] - 1 + Cardinality(Req)
    BY <2>6, <2>7
  <2> QED BY <2>4, <2>5, <2>8 DEF Bounded
<1> QED BY <1>2, <1>6, <1>7, <1>8 DEF SeatsOK

\* However many requests look for the last seat at once, the seats that are
\* taken and about to be taken exceed the licence by no more than the other
\* requests under way (ensure_seat_available and the write after it).
THEOREM SeatOverrunIsBoundedHolds == Spec => []SeatOverrunIsBounded
<1> DEFINE IInv == DirInv /\ SeatsOK
<1>1. Init => IInv
  BY DirInit, SeatsInit
<1>2. IInv /\ [Next]_vars => IInv'
  BY NextStep, SeatsStep DEF StepOK
<1>3. IInv => SeatOverrunIsBounded
  <2> SUFFICES ASSUME SeatsOK, NEW o \in Orgs, orgs[o] # None
               PROVE  Cardinality(ActiveUsers(o) \cup Returning(o)) + Cardinality(Joining(o))
                          <= peak[o] - 1 + Cardinality(Req)
    BY DEF SeatOverrunIsBounded
  <2>1. ActiveUsers(o) = WorkersOf(users, o)
    BY DEF WorkersOf, ActiveUsers, ListUsers, Known
  <2>2. Returning(o) = ReturningOf(req, o)
    BY DEF Returning, ReturningOf, Threads, Returns, At
  <2>3. Joining(o) = JoiningOf(req, o)
    BY DEF Joining, JoiningOf, Joins
  <2> QED BY <2>1, <2>2, <2>3 DEF SeatsOK, Bounded
<1> QED BY <1>1, <1>2, <1>3, PTL DEF Spec

=============================================================================
