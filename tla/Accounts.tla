------------------------------ MODULE Accounts ------------------------------
(***************************************************************************)
(* The customers' accounts at Supabase: how one comes to be (Registration) *)
(* and how a request proves that it comes from one (SigningKeys).  The two *)
(* share the authentication service and nothing of its state, so a run     *)
(* lets one of them move at a time.                                        *)
(***************************************************************************)
EXTENDS Registration, SigningKeys

CONSTANT Deployments \* bound: <<the half that moves, the setting of the project>>

ASSUME DeploymentsAssumption == Deployments \subseteq {"registration", "tokens"} \X Projects

VARIABLE part

vars == <<part, regVars, keyVars>>

Init == RegistrationInit /\ KeysInit /\ \E d \in Deployments : part = d[1] /\ project = d[2]

Next ==
    \/ part = "registration" /\ RegistrationNext /\ UNCHANGED <<part, keyVars>>
    \/ part = "tokens" /\ KeysNext /\ UNCHANGED <<part, regVars>>

Spec == Init /\ [][Next]_vars

TypeOK == RegistrationTypeOK /\ KeysTypeOK

=============================================================================
