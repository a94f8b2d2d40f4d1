--------------------------- MODULE AccountsProofs ---------------------------
(***************************************************************************)
(* The safety properties of Accounts for every number of requests, ids and *)
(* keys, every length of the pauses and every setting of the project.      *)
(*                                                                         *)
(* Registration: no two requests work on one account unless the project    *)
(* repeats ids, and an account that a request will still register or       *)
(* delete without knowing of a commit has no profile yet.                  *)
(* SigningKeys: what the cache holds and what a fetch brings is tied to    *)
(* the moments of the fetch, of the rotation and of the request.           *)
(***************************************************************************)
EXTENDS Accounts, TLAPS

-----------------------------------------------------------------------------
(* Registration.                                                           *)

\* Request r still has to register its account, or to delete it.
Working(r) == call[r].pc \in {"register", "undo"}

CallsAreNamed ==
    \A r \in Req :
        /\ call[r].pc \in {"register", "undo", "enter"} =>
              call[r].user \in given /\ call[r].email \in Emails
        /\ call[r].lost => call[r].pc = "undo"

AccountsWereGiven == \A u \in Ids : identity[u] # Nothing => u \in given

ApartUnlessRepeated ==
    project # "repeat" =>
        /\ \A q, r \in Req : Working(q) /\ Working(r) /\ call[q].user = call[r].user => q = r
        /\ \A r \in Req : Working(r) /\ ~call[r].lost => profile[call[r].user] = Nothing

RegInv ==
    /\ RegistrationTypeOK /\ CallsAreNamed /\ AccountsWereGiven
    /\ AddressIsFreeAgain /\ ApartUnlessRepeated

Kept == \A u \in Ids : profile[u] # Nothing /\ profile'[u] = Nothing /\ project # "repeat" =>
          \E r \in Req : CallAt(r, "undo") /\ call[r].user = u /\ call[r].lost

LEMMA RegInitInv == RegistrationInit => RegInv
  BY RegistrationAssumption
  DEF RegistrationInit, RegInv, RegistrationTypeOK, CallsAreNamed, AccountsWereGiven,
      AddressIsFreeAgain, ApartUnlessRepeated, Working, Accounts, Quiet, Call, CallPC

\* What an account's address is freed by, in terms of the rows.
LEMMA AddressRows ==
    AddressIsFreeAgain <=>
        \A u \in Ids : identity[u] # Nothing /\ profile[u] = Nothing =>
            \/ \E r \in Req : call[r].user = u /\ Working(r)
            \/ u \in stranded
  BY DEF AddressIsFreeAgain, Accounts, Busy, Working

LEMMA UsableType == UsableAtOnce \in BOOLEAN
  BY DEF UsableAtOnce

LEMMA SignupStep ==
    ASSUME RegInv, NEW r \in Req, NEW u \in Ids, NEW e \in Emails, CreateAuthUser(r, u, e)
    PROVE  RegInv' /\ Kept
<1> USE RegistrationAssumption, UsableType
    DEF RegInv, RegistrationTypeOK, Call, CallPC, Quiet, Identity, CallAt, Accounts, HolderOf
<1> profile' = profile /\ workspace' = workspace /\ project' = project
  BY DEF CreateAuthUser
<1>1. CASE NewAccount(u, e) /\ SignupReplies(r, u, e) /\ UNCHANGED stranded
  <2>1. /\ identity[u] = Nothing /\ profile[u] = Nothing /\ u \notin given
        /\ given' = given \cup {u}
        /\ identity' = [identity EXCEPT ![u] = [email |-> e, confirmed |-> UsableAtOnce]]
        /\ call' = [call EXCEPT ![r] = [Quiet EXCEPT !.pc = "register", !.email = e, !.user = u,
                                              !.session = UsableAtOnce]]
        /\ stranded' = stranded
    BY <1>1 DEF NewAccount, SignupReplies, AccountsWereGiven
  <2>2. RegistrationTypeOK'
    BY <2>1
  <2>3. CallsAreNamed' /\ AccountsWereGiven'
    BY <2>1 DEF CallsAreNamed, AccountsWereGiven
  <2>4. ApartUnlessRepeated'
    BY <2>1 DEF ApartUnlessRepeated, Working, CallsAreNamed
  <2>5. AddressIsFreeAgain'
    BY <2>1, CreateAuthUser(r, u, e) DEF AddressIsFreeAgain, Busy, CreateAuthUser
  <2> QED BY <2>1, <2>2, <2>3, <2>4, <2>5 DEF Kept
<1>2. CASE KnownAccount(u, e) /\ SignupReplies(r, u, e) /\ UNCHANGED stranded
  <2>1. /\ project = "repeat" /\ u \in given
        /\ given' = given /\ identity' = identity
        /\ call' = [call EXCEPT ![r] = [Quiet EXCEPT !.pc = "register", !.email = e, !.user = u,
                                              !.session = UsableAtOnce]]
        /\ stranded' = stranded
    BY <1>2 DEF KnownAccount, SignupReplies, AccountsWereGiven
  <2>2. RegistrationTypeOK' /\ CallsAreNamed' /\ AccountsWereGiven' /\ ApartUnlessRepeated'
    BY <2>1 DEF CallsAreNamed, AccountsWereGiven, ApartUnlessRepeated
  <2>3. AddressIsFreeAgain'
    BY <2>1, CreateAuthUser(r, u, e) DEF AddressIsFreeAgain, Busy, CreateAuthUser
  <2> QED BY <2>2, <2>3 DEF Kept
<1>3. CASE NewAccount(u, e) /\ stranded' = stranded \cup {u} /\ UNCHANGED call
  BY <1>3 DEF NewAccount, CallsAreNamed, AccountsWereGiven, ApartUnlessRepeated, Working,
              AddressIsFreeAgain, Busy, Kept
<1> QED BY <1>1, <1>2, <1>3 DEF CreateAuthUser

LEMMA RegisterStep ==
    ASSUME RegInv, NEW r \in Req, Register(r)
    PROVE  RegInv' /\ Kept
<1> DEFINE u == call[r].user
           e == call[r].email
<1> USE RegistrationAssumption
    DEF RegInv, RegistrationTypeOK, Call, CallPC, CallAt, Accounts
<1>1. /\ call[r].pc = "register" /\ u \in given /\ u \in Ids /\ e \in Emails
      /\ project' = project /\ given' = given /\ identity' = identity /\ stranded' = stranded
  BY DEF Register, CallsAreNamed
<1>2. CASE RegisterOrganization(u, e) /\ Proceed(r, "enter")
  <2>1. /\ identity[u] # Nothing
        /\ profile' = [profile EXCEPT ![u] = e] /\ workspace' = workspace \cup {u}
        /\ call' = [call EXCEPT ![r].pc = "enter"]
    BY <1>2 DEF RegisterOrganization, CanRegister, PersonalSlug, Proceed
  <2>2. RegistrationTypeOK' /\ CallsAreNamed' /\ AccountsWereGiven'
    BY <1>1, <2>1 DEF CallsAreNamed, AccountsWereGiven
  <2>3. ApartUnlessRepeated'
    BY <1>1, <2>1 DEF ApartUnlessRepeated, Working
  <2>4. AddressIsFreeAgain'
    BY <1>1, <2>1 DEF AddressIsFreeAgain, Busy
  <2> QED BY <1>1, <2>1, <2>2, <2>3, <2>4 DEF Kept
<1>3. CASE RegisterOrganization(u, e) /\ RpcRaises(r, TRUE)
  <2>1. /\ identity[u] # Nothing
        /\ profile' = [profile EXCEPT ![u] = e] /\ workspace' = workspace \cup {u}
        /\ call' = [call EXCEPT ![r] = [call[r] EXCEPT !.pc = "undo", !.lost = TRUE]]
    BY <1>3 DEF RegisterOrganization, CanRegister, PersonalSlug, RpcRaises
  <2>2. RegistrationTypeOK' /\ CallsAreNamed' /\ AccountsWereGiven'
    BY <1>1, <2>1 DEF CallsAreNamed, AccountsWereGiven
  <2>3. ApartUnlessRepeated'
    BY <1>1, <2>1 DEF ApartUnlessRepeated, Working
  <2>4. AddressIsFreeAgain'
    BY <1>1, <2>1 DEF AddressIsFreeAgain, Busy
  <2> QED BY <1>1, <2>1, <2>2, <2>3, <2>4 DEF Kept
<1>4. CASE RpcRaises(r, FALSE) /\ UNCHANGED <<profile, workspace>>
  <2>1. call' = [call EXCEPT ![r] = [call[r] EXCEPT !.pc = "undo", !.lost = FALSE]]
    BY <1>4 DEF RpcRaises
  <2>2. RegistrationTypeOK' /\ CallsAreNamed' /\ AccountsWereGiven'
    BY <1>1, <1>4, <2>1 DEF CallsAreNamed, AccountsWereGiven
  <2>3. ApartUnlessRepeated'
    <3>1. \A q \in Req : /\ call'[q].user = call[q].user
                         /\ Working(q)' <=> Working(q)
      BY <1>1, <2>1 DEF Working
    <3>2. project # "repeat" => profile[u] = Nothing
      BY <1>1 DEF ApartUnlessRepeated, Working, CallsAreNamed
    <3> QED BY <1>1, <1>4, <2>1, <3>1, <3>2 DEF ApartUnlessRepeated, Working
  <2>4. AddressIsFreeAgain'
    BY <1>1, <1>4, <2>1 DEF AddressIsFreeAgain, Busy
  <2> QED BY <1>4, <2>2, <2>3, <2>4 DEF Kept
<1> QED BY <1>2, <1>3, <1>4 DEF Register

LEMMA UndoStep ==
    ASSUME RegInv, NEW r \in Req, DeleteAuthUser(r)
    PROVE  RegInv' /\ Kept
<1> DEFINE u == call[r].user
<1> USE RegistrationAssumption
    DEF RegInv, RegistrationTypeOK, Call, CallPC, Quiet, CallAt, Accounts
<1>1. /\ call[r].pc = "undo" /\ u \in given /\ u \in Ids
      /\ project' = project /\ given' = given /\ workspace' = workspace
      /\ call' = [call EXCEPT ![r] = Quiet]
  BY DEF DeleteAuthUser, CallsAreNamed, Reply
<1>2. CallsAreNamed'
  BY <1>1 DEF CallsAreNamed
<1>3. CASE /\ identity' = [identity EXCEPT ![u] = Nothing]
           /\ profile' = [profile EXCEPT ![u] = Nothing]
           /\ stranded' = stranded \ {u}
  <2>1. RegistrationTypeOK' /\ AccountsWereGiven' /\ AddressIsFreeAgain'
    BY <1>1, <1>3 DEF AccountsWereGiven, AddressIsFreeAgain, Busy
  <2>2. ApartUnlessRepeated'
    BY <1>1, <1>3 DEF ApartUnlessRepeated, Working, CallsAreNamed
  <2>3. Kept
    BY <1>1, <1>3 DEF Kept, ApartUnlessRepeated, Working
  <2> QED BY <1>2, <2>1, <2>2, <2>3
<1>4. CASE stranded' = stranded \cup {u} /\ UNCHANGED <<identity, profile>>
  BY <1>1, <1>2, <1>4
  DEF AccountsWereGiven, AddressIsFreeAgain, Busy, ApartUnlessRepeated, Working, Kept
<1> QED BY <1>3, <1>4 DEF DeleteAuthUser

\* Signing in, loading the account and the link in the mail touch no row that counts.
LEMMA SessionStep ==
    ASSUME RegInv, NEW r \in Req,
           TrySignIn(r) \/ LoadAccount(r) \/ \E u \in Ids : Login(r, u)
    PROVE  RegInv' /\ Kept
<1> USE RegistrationAssumption
    DEF RegInv, RegistrationTypeOK, Call, CallPC, Quiet, CallAt, Accounts, Reply, Proceed
<1>1. /\ UNCHANGED <<project, given, identity, profile, workspace, stranded>>
      /\ call[r].pc \notin {"register", "undo"}
      /\ call' \in [Req -> Call]
      /\ call'[r].pc \notin {"register", "undo", "enter"} /\ ~call'[r].lost
      /\ \A q \in Req \ {r} : call'[q] = call[q]
  <2>1. CASE TrySignIn(r)
    <3>1. call[r].pc = "enter" /\ call[r] \in Call /\ ~call[r].lost
      BY <2>1 DEF TrySignIn, CallsAreNamed
    <3>2. \/ call' = [call EXCEPT ![r].pc = "account"]
          \/ call' = [call EXCEPT ![r] = Quiet]
      BY <2>1 DEF TrySignIn
    <3>3. UNCHANGED <<project, given, identity, profile, workspace, stranded>>
      BY <2>1 DEF TrySignIn
    <3>4. CASE call' = [call EXCEPT ![r].pc = "account"]
      BY <3>1, <3>3, <3>4
    <3>5. CASE call' = [call EXCEPT ![r] = Quiet]
      BY <3>1, <3>3, <3>5
    <3> QED BY <3>2, <3>4, <3>5
  <2>2. CASE LoadAccount(r)
    BY <2>2 DEF LoadAccount, CallsAreNamed
  <2>3. ASSUME NEW u \in Ids, Login(r, u) 
        PROVE  /\ UNCHANGED <<project, given, identity, profile, workspace, stranded>>
               /\ call[r].pc \notin {"register", "undo"}
               /\ call' \in [Req -> Call]
               /\ call'[r].pc \notin {"register", "undo", "enter"} /\ ~call'[r].lost
               /\ \A q \in Req \ {r} : call'[q] = call[q]
    <3>1. [Quiet EXCEPT !.pc = "account", !.user = u, !.session = TRUE] \in Call
      OBVIOUS
    <3> QED BY <2>3, <3>1 DEF Login
  <2> QED BY <2>1, <2>2, <2>3
<1>2. CallsAreNamed' /\ AccountsWereGiven' /\ RegistrationTypeOK'
  BY <1>1 DEF CallsAreNamed, AccountsWereGiven
<1>3. ApartUnlessRepeated' /\ AddressIsFreeAgain'
  BY <1>1 DEF ApartUnlessRepeated, AddressIsFreeAgain, Busy, Working
<1> QED BY <1>1, <1>2, <1>3 DEF Kept

LEMMA ConfirmStep ==
    ASSUME RegInv, NEW u \in Ids, ConfirmAddress(u)
    PROVE  RegInv' /\ Kept
<1>1. /\ UNCHANGED <<project, given, profile, workspace, call, stranded>>
      /\ identity' = [identity EXCEPT ![u] = [identity[u] EXCEPT !.confirmed = TRUE]]
      /\ identity[u] \in Identity
  BY DEF ConfirmAddress, RegInv, RegistrationTypeOK, Accounts
<1>2. [identity[u] EXCEPT !.confirmed = TRUE] \in Identity
  BY <1>1 DEF Identity
<1>3. /\ identity' \in [Ids -> Identity \cup {Nothing}]
      /\ \A v \in Ids : identity'[v] = Nothing <=> identity[v] = Nothing
  BY <1>1, <1>2, NothingIsNoRow DEF RegInv, RegistrationTypeOK
<1> QED
  BY <1>1, <1>3, RegistrationAssumption
  DEF RegInv, RegistrationTypeOK, Accounts, CallsAreNamed, Kept,
      AccountsWereGiven, ApartUnlessRepeated, Working, AddressIsFreeAgain, Busy

LEMMA RegistrationStep == RegInv /\ RegistrationNext => RegInv' /\ Kept
<1> SUFFICES ASSUME RegInv, RegistrationNext PROVE RegInv' /\ Kept
  OBVIOUS
<1>1. ASSUME NEW r \in Req, NEW u \in Ids, NEW e \in Emails, CreateAuthUser(r, u, e)
      PROVE  RegInv' /\ Kept
  BY <1>1, SignupStep
<1>2. ASSUME NEW r \in Req, Register(r) \/ DeleteAuthUser(r)
      PROVE  RegInv' /\ Kept
  BY <1>2, RegisterStep, UndoStep
<1>3. ASSUME NEW r \in Req, TrySignIn(r) \/ LoadAccount(r) \/ \E u \in Ids : Login(r, u)
      PROVE  RegInv' /\ Kept
  BY <1>3, SessionStep
<1>4. ASSUME NEW u \in Ids, ConfirmAddress(u) PROVE RegInv' /\ Kept
  BY <1>4, ConfirmStep
<1> QED BY <1>1, <1>2, <1>3, <1>4 DEF RegistrationNext

LEMMA RegistrationStutters == RegInv /\ UNCHANGED regVars => RegInv' /\ Kept
  BY DEF RegInv, RegistrationTypeOK, CallsAreNamed, AccountsWereGiven, AddressIsFreeAgain,
         ApartUnlessRepeated, Working, Accounts, Busy, Kept, regVars

-----------------------------------------------------------------------------
(* SigningKeys.                                                            *)

\* A fetch ends within Timeout, nothing is younger than now, and a forced fetch
\* is remembered by its start.
MomentsAreOrdered ==
    /\ fetchedAt <= clock /\ lastForced <= clock
    /\ \A k \in Kids : since[k] <= clock
    /\ \A t \in Threads :
          /\ thread[t].began <= clock
          /\ Holding(t) => /\ thread[t].began <= thread[t].asked /\ thread[t].asked <= clock
                           /\ clock <= thread[t].asked + Timeout
                           /\ lastForced <= thread[t].asked
          /\ Here(t, "forced") => lastForced = thread[t].asked

OneHolder == \A s, t \in Threads : Holding(s) /\ Holding(t) => s = t

\* An answer on its way holds what was published after the fetch began.
RepliesAreRecent ==
    \A t \in Threads : Holding(t) /\ thread[t].reply # NoKey =>
        \A k \in Kids : (k \in thread[t].reply) # (k \in published) =>
                            thread[t].asked <= since[k]

RetiredIsOld == \A k \in keys \ published : fetchedAt <= since[k] + Timeout

AcceptedIsRecent ==
    \A t \in Threads : Here(t, "decode") /\ thread[t].kid \notin published =>
                          thread[t].began < since[thread[t].kid] + Ttl + Timeout

\* The last forced fetch runs, or failed, or what is missing came after it.
ForcedIsAccounted ==
    \/ lastForced < 0
    \/ \E t \in Threads : Here(t, "forced")
    \/ failedAt # NoKey /\ failedAt = lastForced
    \/ \A k \in published \ keys : lastForced <= since[k]

ThreadRow == [pc : ThreadPC, kid : Kids \cup {NoKey}, began : Nat, asked : Nat,
              reply : (SUBSET Kids) \cup {NoKey}]

KeysTyped ==
    /\ clock \in Nat /\ published \subseteq Kids /\ keys \subseteq Kids
    /\ since \in [Kids -> Nat] /\ fetchedAt \in Int /\ lastForced \in Int
    /\ (lastForced >= 0 \/ lastForced = -Pause)
    /\ thread \in [Threads -> ThreadRow]
    /\ failedAt \in Nat \cup {NoKey}
    /\ \A t \in Threads : thread[t].pc # "idle" => thread[t].kid \in Kids

KeysInv ==
    /\ KeysTyped /\ MomentsAreOrdered /\ OneHolder /\ RepliesAreRecent
    /\ RetiredIsOld /\ AcceptedIsRecent /\ ForcedIsAccounted

Died == \A t \in Threads : Decode(t) /\ thread[t].kid \notin published =>
            thread[t].began < since[thread[t].kid] + Ttl + Timeout

Learned == \A t \in Threads : Unknown(t) /\ thread[t].kid \in published =>
            \/ clock < since[thread[t].kid] + Pause + Timeout
            \/ failedAt # NoKey /\ clock < failedAt + Pause + Timeout

LEMMA KeysInitInv == KeysInit => KeysInv
<1> SUFFICES ASSUME KeysInit PROVE KeysInv
  OBVIOUS
<1> USE KeysAssumption DEF KeysInit
<1>1. Idle \in ThreadRow
  BY DEF Idle, ThreadRow, ThreadPC
<1>2. \A t \in Threads : thread[t] \in ThreadRow /\ thread[t].pc = "idle" /\ thread[t].began = 0
  BY <1>1 DEF Idle
<1>3. KeysTyped
  BY <1>1, <1>2 DEF KeysTyped
<1>4. MomentsAreOrdered /\ OneHolder /\ RepliesAreRecent /\ AcceptedIsRecent
  BY <1>2 DEF MomentsAreOrdered, OneHolder, RepliesAreRecent, AcceptedIsRecent, Holding, Here
<1>5. RetiredIsOld /\ ForcedIsAccounted
  BY DEF RetiredIsOld, ForcedIsAccounted
<1> QED BY <1>3, <1>4, <1>5 DEF KeysInv

\* What is accepted is what the invariant says of a thread that decodes.
LEMMA DiedHolds == KeysInv => Died
  BY DEF KeysInv, AcceptedIsRecent, Died, Decode

\* A thread that neither fetches nor decodes afterwards disturbs nothing.
LEMMA QuietStep ==
    ASSUME KeysInv, NEW t \in Threads, NEW row \in ThreadRow,
           thread' = [thread EXCEPT ![t] = row],
           UNCHANGED <<clock, published, since, keys, fetchedAt, lastForced, failedAt>>,
           row.pc \in {"idle", "lock"}, row.pc = "lock" => row.kid \in Kids,
           row.began <= clock, thread[t].pc # "forced"
    PROVE  KeysInv'
<1> USE KeysAssumption DEF KeysInv, KeysTyped
<1>1. KeysTyped'
  OBVIOUS
<1>2. MomentsAreOrdered' /\ OneHolder' /\ RepliesAreRecent' /\ RetiredIsOld'
  BY DEF MomentsAreOrdered, OneHolder, RepliesAreRecent, RetiredIsOld, Holding, Here
<1>3. AcceptedIsRecent' /\ ForcedIsAccounted'
  BY DEF AcceptedIsRecent, ForcedIsAccounted, Here
<1> QED BY <1>1, <1>2, <1>3

LEMMA IdleRow == Idle \in ThreadRow /\ Idle.pc = "idle" /\ Idle.began = 0
  BY DEF Idle, ThreadRow, ThreadPC

LEMMA VerifyStep ==
    ASSUME KeysInv, NEW t \in Threads, NEW k \in Kids, Verify(t, k)
    PROVE  KeysInv'
<1> DEFINE row == [Idle EXCEPT !.pc = "lock", !.kid = k, !.began = clock]
<1>1. row \in ThreadRow /\ row.pc = "lock" /\ row.kid = k /\ row.began = clock
  BY DEF Idle, ThreadRow, ThreadPC, KeysInv, KeysTyped
<1>2. thread' = [thread EXCEPT ![t] = row] /\ thread[t].pc = "idle"
  BY DEF Verify, Here
<1>3. /\ UNCHANGED <<clock, published, since, keys, fetchedAt, lastForced, failedAt>>
      /\ row.began <= clock
  BY <1>1 DEF Verify, KeysInv, KeysTyped
<1> HIDE DEF row
<1> QED BY <1>1, <1>2, <1>3, QuietStep

LEMMA QuietAnswer ==
    ASSUME KeysInv, NEW t \in Threads, Answered(t), thread[t].pc # "forced",
           UNCHANGED <<clock, published, since, keys, fetchedAt, lastForced, failedAt>>
    PROVE  KeysInv'
<1>1. Idle.began <= clock
  BY IdleRow DEF KeysInv, KeysTyped
<1> QED BY <1>1, QuietStep, IdleRow DEF Answered

LEMMA DecodeStep ==
    ASSUME KeysInv, NEW t \in Threads, Decode(t)
    PROVE  KeysInv'
  BY QuietAnswer DEF Decode, Here

LEMMA FetchRow ==
    ASSUME KeysTyped, NEW t \in Threads, NEW pc \in ThreadPC
    PROVE  LET row == [thread[t] EXCEPT !.pc = pc, !.asked = clock, !.reply = NoKey]
           IN  /\ row \in ThreadRow /\ row.pc = pc /\ row.asked = clock /\ row.reply = NoKey
               /\ row.kid = thread[t].kid /\ row.began = thread[t].began
  BY DEF KeysTyped, ThreadRow

LEMMA DecodeRow ==
    ASSUME KeysTyped, NEW t \in Threads
    PROVE  LET row == [thread[t] EXCEPT !.pc = "decode"]
           IN  /\ row \in ThreadRow /\ row.pc = "decode"
               /\ row.kid = thread[t].kid /\ row.began = thread[t].began
  BY DEF KeysTyped, ThreadRow, ThreadPC

\* A fetch begins: nobody else holds the lock.
LEMMA FetchStep ==
    ASSUME KeysInv, NEW t \in Threads, NEW pc \in {"first", "forced"}, Fetch(t, pc),
           \A s \in Threads \ {t} : ~Holding(s), thread[t].kid \in Kids, thread[t].pc # "forced",
           UNCHANGED <<clock, published, since, keys, fetchedAt, failedAt>>,
           lastForced' = IF pc = "forced" THEN clock ELSE lastForced
    PROVE  KeysInv'
<1> DEFINE row == [thread[t] EXCEPT !.pc = pc, !.asked = clock, !.reply = NoKey]
<1> USE KeysAssumption DEF KeysInv, KeysTyped
<1>1. /\ row \in ThreadRow /\ row.pc = pc /\ row.asked = clock /\ row.reply = NoKey
      /\ row.kid = thread[t].kid /\ row.began = thread[t].began
  BY FetchRow DEF ThreadPC
<1>2. thread' = [thread EXCEPT ![t] = row]
  BY DEF Fetch
<1> HIDE DEF row
<1>3. thread' \in [Threads -> ThreadRow] /\ thread'[t] = row
      /\ \A s \in Threads \ {t} : thread'[s] = thread[s]
  BY <1>1, <1>2
<1>4. KeysTyped'
  BY <1>1, <1>3
<1>5. MomentsAreOrdered' /\ OneHolder'
  BY <1>1, <1>3 DEF MomentsAreOrdered, OneHolder, Holding, Here
<1>6. RepliesAreRecent' /\ RetiredIsOld' /\ AcceptedIsRecent'
  BY <1>1, <1>3 DEF RepliesAreRecent, RetiredIsOld, AcceptedIsRecent, Holding, Here
<1>7. ForcedIsAccounted'
  BY <1>1, <1>3 DEF ForcedIsAccounted, Holding, Here
<1> QED BY <1>4, <1>5, <1>6, <1>7

\* The lock is free: keys at hand that are not too old decide, or a fetch begins.
LEMMA EnterStep ==
    ASSUME KeysInv, NEW t \in Threads, Enter(t)
    PROVE  KeysInv'
<1>1. /\ UNCHANGED <<clock, published, since, keys, fetchedAt, failedAt>>
      /\ thread[t].pc = "lock" /\ \A s \in Threads : ~Holding(s)
      /\ thread[t].kid \in Kids
  BY DEF Enter, LockIsFree, Here, KeysInv, KeysTyped
<1>2. \/ Fetch(t, "first") /\ UNCHANGED lastForced
      \/ ~Expired(t) /\ thread[t].kid \in keys /\ Go(t, "decode") /\ UNCHANGED lastForced
      \/ Answered(t) /\ UNCHANGED lastForced
      \/ Fetch(t, "forced") /\ lastForced' = clock
  <2>1. CASE keys = {} \/ Expired(t)
    BY <2>1 DEF Enter
  <2>2. CASE ~(keys = {} \/ Expired(t)) /\ thread[t].kid \in keys
    BY <2>2 DEF Enter, Look
  <2>3. CASE ~(keys = {} \/ Expired(t)) /\ thread[t].kid \notin keys
    <3>1. AskAgain(t)
      BY <2>3 DEF Enter, Look
    <3> QED BY <3>1 DEF AskAgain
  <2> QED BY <2>1, <2>2, <2>3
<1>3. CASE Fetch(t, "first") /\ UNCHANGED lastForced
  BY <1>1, <1>3, FetchStep
<1>4. CASE Fetch(t, "forced") /\ lastForced' = clock
  BY <1>1, <1>4, FetchStep
<1>5. CASE Answered(t) /\ UNCHANGED lastForced
  BY <1>1, <1>5, QuietAnswer
<1>6. CASE ~Expired(t) /\ thread[t].kid \in keys /\ Go(t, "decode") /\ UNCHANGED lastForced
  <2> DEFINE row == [thread[t] EXCEPT !.pc = "decode"]
  <2> USE KeysAssumption DEF KeysInv, KeysTyped, Here
  <2>1. /\ row \in ThreadRow /\ row.pc = "decode"
        /\ row.kid = thread[t].kid /\ row.began = thread[t].began
    BY DecodeRow
  <2>2. thread' = [thread EXCEPT ![t] = row]
    BY <1>6 DEF Go
  <2> HIDE DEF row
  <2>3. KeysTyped'
    BY <1>1, <1>6, <2>1, <2>2
  <2>4. MomentsAreOrdered' /\ OneHolder' /\ RepliesAreRecent' /\ RetiredIsOld'
    BY <1>1, <1>6, <2>1, <2>2
    DEF MomentsAreOrdered, OneHolder, RepliesAreRecent, RetiredIsOld, Holding
  <2>5. AcceptedIsRecent'
    BY <1>1, <1>6, <2>1, <2>2 DEF AcceptedIsRecent, RetiredIsOld, Expired, ThreadRow
  <2>6. ForcedIsAccounted'
    BY <1>1, <1>6, <2>1, <2>2 DEF ForcedIsAccounted, Holding
  <2> QED BY <2>3, <2>4, <2>5, <2>6
<1> QED BY <1>2, <1>3, <1>4, <1>5, <1>6

LEMMA ServeStep ==
    ASSUME KeysInv, NEW t \in Threads, Serve(t)
    PROVE  KeysInv'
<1> DEFINE row == [thread[t] EXCEPT !.reply = published]
<1> USE KeysAssumption DEF KeysInv, KeysTyped
<1>1. /\ row \in ThreadRow /\ row.pc = thread[t].pc /\ row.asked = thread[t].asked
      /\ row.reply = published /\ row.kid = thread[t].kid /\ row.began = thread[t].began
  BY DEF ThreadRow
<1>2. /\ UNCHANGED <<clock, published, since, keys, fetchedAt, lastForced, failedAt>>
      /\ thread' = [thread EXCEPT ![t] = row]
  BY DEF Serve
<1> HIDE DEF row
<1>3. KeysTyped'
  BY <1>1, <1>2
<1>4. MomentsAreOrdered' /\ OneHolder' /\ RepliesAreRecent' /\ RetiredIsOld'
  BY <1>1, <1>2 DEF MomentsAreOrdered, OneHolder, RepliesAreRecent, RetiredIsOld, Holding, Here
<1>5. AcceptedIsRecent' /\ ForcedIsAccounted'
  BY <1>1, <1>2 DEF AcceptedIsRecent, ForcedIsAccounted, Here
<1> QED BY <1>3, <1>4, <1>5

\* What a fetch that succeeds does to its thread.
LEMMA FetchOutcomes ==
    ASSUME NEW t, FetchSucceeds(t)
    PROVE  LET fresh == thread[t].reply
           IN  \/ thread[t].kid \in fresh /\ Go(t, "decode") /\ UNCHANGED lastForced
               \/ thread[t].kid \notin fresh /\ Answered(t) /\ UNCHANGED lastForced
               \/ thread[t].kid \notin fresh /\ Fetch(t, "forced") /\ lastForced' = clock
<1> DEFINE fresh == thread[t].reply
<1>1. CASE Here(t, "first") /\ Look(t, fresh) /\ thread[t].kid \in fresh
  BY <1>1 DEF Look
<1>2. CASE Here(t, "first") /\ Look(t, fresh) /\ thread[t].kid \notin fresh
  <2>1. AskAgain(t)
    BY <1>2 DEF Look
  <2> QED BY <1>2, <2>1 DEF AskAgain
<1>3. CASE Here(t, "forced") /\ UNCHANGED lastForced
  BY <1>3 DEF FetchSucceeds, Here, Look
<1> QED BY <1>1, <1>2, <1>3 DEF FetchSucceeds

\* The keys are what the project published since the fetch began.
LEMMA FreshKeys ==
    ASSUME KeysInv, NEW t \in Threads, FetchSucceeds(t)
    PROVE  /\ Holding(t) /\ thread[t].kid \in Kids /\ thread[t].reply \subseteq Kids
           /\ keys' = thread[t].reply /\ fetchedAt' = clock
           /\ UNCHANGED <<clock, published, since, failedAt>>
           /\ thread[t].began <= thread[t].asked /\ lastForced <= thread[t].asked
           /\ clock <= thread[t].asked + Timeout /\ thread[t].asked <= clock
           /\ thread[t].asked \in Nat /\ thread[t].began \in Nat
           /\ \A s \in Threads \ {t} : ~Holding(s)
           /\ \A k \in Kids : (k \in thread[t].reply) # (k \in published) =>
                                  thread[t].asked <= since[k]
<1>1. Holding(t) /\ thread[t].reply # NoKey /\ thread[t] \in ThreadRow
  BY DEF FetchSucceeds, KeysInv, KeysTyped
<1>2. \A s \in Threads \ {t} : ~Holding(s)
  BY <1>1 DEF KeysInv, OneHolder
<1>3. \A k \in Kids : (k \in thread[t].reply) # (k \in published) => thread[t].asked <= since[k]
  BY <1>1 DEF KeysInv, RepliesAreRecent
<1>4. /\ thread[t].began <= thread[t].asked /\ lastForced <= thread[t].asked
      /\ clock <= thread[t].asked + Timeout /\ thread[t].asked <= clock
  BY <1>1 DEF KeysInv, MomentsAreOrdered
<1>5. thread[t].reply \subseteq Kids /\ thread[t].kid \in Kids
  BY <1>1 DEF ThreadRow, Holding, KeysInv, KeysTyped
<1> QED BY <1>1, <1>2, <1>3, <1>4, <1>5 DEF FetchSucceeds, ThreadRow

LEMMA FetchSucceedsStep ==
    ASSUME KeysInv, NEW t \in Threads, FetchSucceeds(t)
    PROVE  KeysInv'
<1> DEFINE asked == thread[t].asked
<1> USE KeysAssumption
<1>1. KeysTyped /\ thread[t] \in ThreadRow
  BY DEF KeysInv, KeysTyped
<1>2. \A row \in ThreadRow :
         /\ thread' = [thread EXCEPT ![t] = row]
         /\ lastForced' \in {lastForced, clock}
         /\ row.pc \in {"idle", "decode", "forced"} /\ row.began <= clock
         /\ row.pc # "idle" => row.kid \in Kids
         /\ row.pc = "forced" => /\ row.began <= clock /\ row.asked = clock /\ row.reply = NoKey
                                 /\ lastForced' = clock
         /\ row.pc = "decode" => row.began = thread[t].began /\ row.kid \in thread[t].reply
         /\ row.pc # "forced" => lastForced' = lastForced
         => KeysInv'
  <2> SUFFICES ASSUME NEW row \in ThreadRow,
         thread' = [thread EXCEPT ![t] = row],
         lastForced' \in {lastForced, clock},
         row.pc \in {"idle", "decode", "forced"}, row.began <= clock,
         row.pc # "idle" => row.kid \in Kids,
         row.pc = "forced" => /\ row.began <= clock /\ row.asked = clock /\ row.reply = NoKey
                              /\ lastForced' = clock,
         row.pc = "decode" => row.began = thread[t].began /\ row.kid \in thread[t].reply,
         row.pc # "forced" => lastForced' = lastForced
       PROVE KeysInv'
    OBVIOUS
  <2> USE FreshKeys, <1>1 DEF KeysTyped
  <2>1. KeysTyped'
    OBVIOUS
  <2>2. MomentsAreOrdered' /\ OneHolder' /\ RepliesAreRecent'
    BY DEF KeysInv, MomentsAreOrdered, OneHolder, RepliesAreRecent, Holding, Here
  <2>3. RetiredIsOld'
    BY DEF RetiredIsOld
  <2>4. AcceptedIsRecent'
    BY DEF KeysInv, AcceptedIsRecent, Here
  <2>5. ForcedIsAccounted'
    BY DEF KeysInv, ForcedIsAccounted, Here
  <2> QED BY <2>1, <2>2, <2>3, <2>4, <2>5 DEF KeysInv
<1>3. thread[t].began <= clock /\ clock \in Nat
  BY <1>1, FreshKeys DEF KeysTyped
<1>4. CASE thread[t].kid \in thread[t].reply /\ Go(t, "decode") /\ UNCHANGED lastForced
  <2> DEFINE row == [thread[t] EXCEPT !.pc = "decode"]
  <2>1. /\ row \in ThreadRow /\ row.pc = "decode"
        /\ row.kid = thread[t].kid /\ row.began = thread[t].began
    BY <1>1, DecodeRow
  <2>2. thread' = [thread EXCEPT ![t] = row]
    BY <1>1, <1>4 DEF Go, KeysTyped
  <2> HIDE DEF row
  <2> QED BY <1>2, <1>3, <1>4, <2>1, <2>2, FreshKeys
<1>5. CASE Answered(t) /\ UNCHANGED lastForced
  <2>1. /\ thread' = [thread EXCEPT ![t] = Idle] /\ lastForced' = lastForced
        /\ Idle \in ThreadRow /\ Idle.pc = "idle" /\ Idle.began <= clock
    BY <1>3, <1>5, IdleRow DEF Answered
  <2> QED BY <1>2, <2>1
<1>6. CASE Fetch(t, "forced") /\ lastForced' = clock
  <2> DEFINE row == [thread[t] EXCEPT !.pc = "forced", !.asked = clock, !.reply = NoKey]
  <2>1. /\ row \in ThreadRow /\ row.pc = "forced" /\ row.asked = clock /\ row.reply = NoKey
        /\ row.kid = thread[t].kid /\ row.began = thread[t].began
    BY <1>1, FetchRow DEF ThreadPC
  <2>2. thread' = [thread EXCEPT ![t] = row]
    BY <1>6 DEF Fetch
  <2> HIDE DEF row
  <2> QED BY <1>2, <1>3, <1>6, <2>1, <2>2, FreshKeys
<1> QED BY <1>4, <1>5, <1>6, FetchOutcomes

LEMMA FetchFailsStep ==
    ASSUME KeysInv, NEW t \in Threads, FetchFails(t)
    PROVE  KeysInv'
<1> USE KeysAssumption
<1>1. /\ UNCHANGED <<clock, published, since, keys, fetchedAt, lastForced>>
      /\ thread' = [thread EXCEPT ![t] = Idle] /\ thread[t] \in ThreadRow
      /\ failedAt' = IF thread[t].pc = "forced" THEN thread[t].asked ELSE failedAt
      /\ thread[t].pc = "forced" => lastForced = thread[t].asked
      /\ thread[t].asked \in Nat
  BY DEF FetchFails, Answered, Here, KeysInv, KeysTyped, MomentsAreOrdered, ThreadRow
<1>2. KeysTyped'
  BY <1>1, IdleRow DEF KeysInv, KeysTyped
<1>3. MomentsAreOrdered' /\ OneHolder' /\ RepliesAreRecent' /\ RetiredIsOld'
  BY <1>1, IdleRow
  DEF KeysInv, KeysTyped, MomentsAreOrdered, OneHolder, RepliesAreRecent, RetiredIsOld, Holding, Here
<1>4. AcceptedIsRecent'
  BY <1>1, IdleRow DEF KeysInv, KeysTyped, AcceptedIsRecent, Here
<1>5. ForcedIsAccounted'
  <2>1. CASE thread[t].pc = "forced"
    BY <1>1, <2>1 DEF ForcedIsAccounted
  <2>2. CASE thread[t].pc # "forced"
    BY <1>1, <2>2, IdleRow DEF KeysInv, KeysTyped, ForcedIsAccounted, Here
  <2> QED BY <2>1, <2>2
<1> QED BY <1>2, <1>3, <1>4, <1>5 DEF KeysInv

LEMMA RotationStep ==
    ASSUME KeysInv, NEW k \in Kids, Publish(k) \/ Retire(k)
    PROVE  KeysInv'
<1> USE KeysAssumption DEF KeysInv, KeysTyped
<1>1. /\ UNCHANGED <<clock, keys, fetchedAt, lastForced, thread, failedAt>>
      /\ since' = [since EXCEPT ![k] = clock]
      /\ \/ k \notin published /\ published' = published \cup {k}
         \/ k \in published /\ published' = published \ {k}
  BY DEF Publish, Retire
<1>2. KeysTyped'
  BY <1>1
<1>3. MomentsAreOrdered' /\ OneHolder'
  BY <1>1 DEF MomentsAreOrdered, OneHolder, Holding, Here
<1>4. RepliesAreRecent'
  BY <1>1 DEF RepliesAreRecent, MomentsAreOrdered, Holding
<1>5. RetiredIsOld' /\ ForcedIsAccounted'
  BY <1>1 DEF RetiredIsOld, ForcedIsAccounted, MomentsAreOrdered, Here
<1>6. AcceptedIsRecent'
  BY <1>1 DEF AcceptedIsRecent, MomentsAreOrdered, Here, ThreadRow
<1> QED BY <1>2, <1>3, <1>4, <1>5, <1>6

LEMMA TickStep ==
    ASSUME KeysInv, Tick
    PROVE  KeysInv'
<1> USE KeysAssumption DEF KeysInv, KeysTyped
<1>1. /\ UNCHANGED <<published, since, keys, fetchedAt, lastForced, thread, failedAt>>
      /\ clock' = clock + 1
      /\ \A t \in Threads : Holding(t) => clock < thread[t].asked + Timeout
  BY DEF Tick, Here, Holding
<1>2. KeysTyped'
  BY <1>1
<1>3. MomentsAreOrdered'
  BY <1>1 DEF MomentsAreOrdered, Holding, Here, ThreadRow
<1>4. OneHolder' /\ RepliesAreRecent' /\ RetiredIsOld' /\ AcceptedIsRecent' /\ ForcedIsAccounted'
  BY <1>1 DEF OneHolder, RepliesAreRecent, RetiredIsOld, AcceptedIsRecent, ForcedIsAccounted,
              Holding, Here
<1> QED BY <1>2, <1>3, <1>4

LEMMA KeysStep == KeysInv /\ KeysNext => KeysInv'
  BY VerifyStep, EnterStep, ServeStep, FetchSucceedsStep, FetchFailsStep, DecodeStep,
     RotationStep, TickStep DEF KeysNext

LEMMA KeysStutter == KeysInv /\ UNCHANGED keyVars => KeysInv'
  BY DEF KeysInv, KeysTyped, MomentsAreOrdered, OneHolder, RepliesAreRecent, RetiredIsOld,
         AcceptedIsRecent, ForcedIsAccounted, Holding, Here, keyVars

\* Why a token of a key that is published is refused as unknown.
LEMMA LearnedHolds == KeysInv => Learned
<1> SUFFICES ASSUME KeysInv, NEW t \in Threads, Unknown(t), thread[t].kid \in published
             PROVE  \/ clock < since[thread[t].kid] + Pause + Timeout
                    \/ failedAt # NoKey /\ clock < failedAt + Pause + Timeout
  BY DEF Learned
<1> USE KeysAssumption
<1>1. /\ thread'[t].pc = "idle" /\ thread[t].kid \in Kids
      /\ clock \in Nat /\ since[thread[t].kid] \in Nat /\ lastForced \in Int
      /\ thread[t] \in ThreadRow /\ thread \in [Threads -> ThreadRow]
  BY IdleRow DEF Unknown, KeysInv, KeysTyped
<1>4. ~Go(t, "decode") /\ ~Fetch(t, "first") /\ ~Fetch(t, "forced")
  <2>1. KeysTyped
    BY DEF KeysInv
  <2>2. Go(t, "decode") => thread'[t].pc = "decode"
    BY <1>1, <2>1, DecodeRow DEF Go
  <2>3. \A pc \in {"first", "forced"} : Fetch(t, pc) => thread'[t].pc = pc
    <3> SUFFICES ASSUME NEW pc \in {"first", "forced"}, Fetch(t, pc) PROVE thread'[t].pc = pc
      OBVIOUS
    <3> DEFINE row == [thread[t] EXCEPT !.pc = pc, !.asked = clock, !.reply = NoKey]
    <3>1. row.pc = pc
      BY <2>1, FetchRow DEF ThreadPC
    <3>2. thread' = [thread EXCEPT ![t] = row]
      BY DEF Fetch
    <3> HIDE DEF row
    <3> QED BY <1>1, <3>1, <3>2
  <2> QED BY <1>1, <2>2, <2>3
<1>2. CASE FetchSucceeds(t)
  <2>1. thread[t].kid \notin thread[t].reply
    BY <1>4, <1>2, FetchOutcomes
  <2> QED BY <1>1, <1>2, <2>1, FreshKeys
<1>3. CASE Enter(t)
  <2>1. /\ \A s \in Threads : ~Holding(s)
        /\ thread[t].kid \notin keys /\ clock - lastForced < Pause
    <3>1. CASE keys = {} \/ Expired(t)
      BY <1>4, <1>3, <3>1 DEF Enter
    <3>2. CASE ~(keys = {} \/ Expired(t)) /\ thread[t].kid \in keys
      BY <1>4, <1>3, <3>2 DEF Enter, Look
    <3>3. CASE ~(keys = {} \/ Expired(t)) /\ thread[t].kid \notin keys
      <4>1. AskAgain(t)
        BY <1>3, <3>3 DEF Enter, Look
      <4>2. clock - lastForced < Pause
        BY <1>4, <4>1 DEF AskAgain
      <4> QED BY <1>3, <3>3, <4>2 DEF Enter, LockIsFree
    <3> QED BY <3>1, <3>2, <3>3
  <2>2. ForcedIsAccounted /\ (lastForced >= 0 \/ lastForced = -Pause) /\ failedAt \in Nat \cup {NoKey}
    BY DEF KeysInv, KeysTyped
  <2> QED BY <1>1, <2>1, <2>2 DEF ForcedIsAccounted, Holding, Here
<1> QED BY <1>2, <1>3 DEF Unknown

-----------------------------------------------------------------------------
(* Both halves.                                                            *)

LEMMA AccountsInit == Init => RegInv /\ KeysInv
  BY RegInitInv, KeysInitInv DEF Init

LEMMA AccountsStep == RegInv /\ KeysInv /\ [Next]_vars => RegInv' /\ KeysInv' /\ Kept
  BY RegistrationStep, RegistrationStutters, KeysStep, KeysStutter DEF Next, vars

THEOREM AccountsInvariant == Spec => [](RegInv /\ KeysInv)
<1>1. Init => RegInv /\ KeysInv
  BY AccountsInit
<1>2. (RegInv /\ KeysInv) /\ [Next]_vars => (RegInv /\ KeysInv)'
  BY AccountsStep
<1> QED BY <1>1, <1>2, PTL DEF Spec

\* Whichever calls of a registration fail or are lost, no address is kept by an
\* account without a workspace, but for the losses the property names.
THEOREM AddressIsFreeAgainHolds == Spec => []AddressIsFreeAgain
<1>1. RegInv /\ KeysInv => AddressIsFreeAgain
  BY DEF RegInv
<1> QED BY <1>1, AccountsInvariant, PTL

\* What a registration committed is undone by nobody but the request that made it
\* and lost the reply.
THEOREM RegisteredIsKeptHolds == Spec => RegisteredIsKept
<1>1. (RegInv /\ KeysInv) /\ [Next]_vars =>
        [\A u \in Ids : profile[u] # Nothing /\ profile'[u] = Nothing /\ project # "repeat" =>
            \E r \in Req : CallAt(r, "undo") /\ call[r].user = u /\ call[r].lost]_regVars
  BY AccountsStep DEF Kept
<1> QED BY <1>1, AccountsInvariant, PTL DEF Spec, RegisteredIsKept

\* For every age of the cache and every duration of a fetch.
THEOREM RetiredKeyDiesHolds == Spec => RetiredKeyDies
<1>1. RegInv /\ KeysInv =>
        \A t \in Threads : Decode(t) /\ thread[t].kid \notin published =>
            thread[t].began < since[thread[t].kid] + Ttl + Timeout
  BY DiedHolds DEF Died
<1> QED BY <1>1, AccountsInvariant, PTL DEF RetiredKeyDies

\* For every pause: refusals alone never keep a live key unknown.
THEOREM LiveKeyIsLearnedHolds == Spec => LiveKeyIsLearned
<1>1. RegInv /\ KeysInv =>
        \A t \in Threads : Unknown(t) /\ thread[t].kid \in published =>
            \/ clock < since[thread[t].kid] + Pause + Timeout
            \/ failedAt # NoKey /\ clock < failedAt + Pause + Timeout
  BY LearnedHolds DEF Learned
<1> QED BY <1>1, AccountsInvariant, PTL DEF LiveKeyIsLearned
=============================================================================
