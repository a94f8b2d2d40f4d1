----------------------------- MODULE AuthWindow -----------------------------
(***************************************************************************)
(* What an authentication's answer says of the time it took.  The three    *)
(* checks of authenticate_device_credential are three statements, each on  *)
(* the rows committed when it ran; seen[r] remembers what held at some     *)
(* moment since the call of r began.                                       *)
(***************************************************************************)
EXTENDS DeviceRegistry

VARIABLE seen   \* [Req -> SUBSET {"linked", "closed"}]: history

Facts == {"linked", "closed"}

Calling(r) == req[r].mode # "none"

\* The credential and its activation are active now.
Linked(r) ==
    LET row == credential[req[r].cred] IN
        row.status = "active" /\ activation[row.act].status = "active"

\* The subscription of the credential's device serves now.
Serves(r) == SqlServiceable(activation[credential[req[r].cred].act].sub)

FactsNow(r) == {f \in Facts : \/ f = "linked"   /\ Linked(r)
                              \/ f = "closed"   /\ ~Serves(r)}

Remember == seen' = [r \in Req |-> IF Calling(r)' THEN seen[r] \cup FactsNow(r)'
                                                  ELSE {}]

WindowInit == Init /\ seen = [r \in Req |-> {}]

WindowNext == Next /\ Remember

WindowSpec == WindowInit /\ [][WindowNext]_<<vars, seen>>

-----------------------------------------------------------------------------
Accepted(r) == Calling(r) /\ req[r].out = "ok"

AcceptedWasLinked == \A r \in Req : Accepted(r) => "linked" \in seen[r]

ForbiddenWasClosed == \A r \in Req : req[r].out = "denied403" => "closed" \in seen[r]

RefusedCredentialIsDead ==
    \A r \in Req : req[r].out = "denied401" =>
        credential[req[r].cred].status \in {"revoked", "purged"}

\* An answer was true at some moment of the call, though its rows are read at
\* different times and a rotation, a replacement or a renewal may commit between
\* them.  What is accepted was valid and its device linked (0005:289-305).  A 403
\* means that the subscription did block service, though the strict call and the
\* one without the test are two calls (api/runtime.py:188-215).  A 401 makes the
\* Runtime erase its link for good, so it is given only for a credential that can
\* never be accepted again (api/runtime.py:166-176).
AnswersWereTrue == AcceptedWasLinked /\ ForbiddenWasClosed /\ RefusedCredentialIsDead
=============================================================================
