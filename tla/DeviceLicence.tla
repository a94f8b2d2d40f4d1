--------------------------- MODULE DeviceLicence ----------------------------
(***************************************************************************)
(* What the register promises: a subscription is a licence for one device. *)
(* The holder has at most one key; a key that was taken away is spent and  *)
(* never opens anything again.                                             *)
(***************************************************************************)
CONSTANTS Subs, Devices, Keys, None

VARIABLES
    holder,     \* [Subs -> Devices \cup {None}]
    key,        \* [Subs -> Keys \cup {None}]
    spent       \* SUBSET Keys

licence == <<holder, key, spent>>

LicenceInit ==
    /\ holder = [s \in Subs |-> None]
    /\ key = [s \in Subs |-> None]
    /\ spent = {}

Spend(s) == spent' = spent \cup ({key[s]} \ {None})

\* The free seat is taken.
Claim(s, d) ==
    /\ holder[s] = None
    /\ holder' = [holder EXCEPT ![s] = d]
    /\ UNCHANGED <<key, spent>>

\* The seat changes hands in one step, and the key is spent with it.
Replace(s, d) ==
    /\ holder[s] \notin {None, d}
    /\ holder' = [holder EXCEPT ![s] = d]
    /\ key' = [key EXCEPT ![s] = None]
    /\ Spend(s)

\* The device is revoked.
Release(s) ==
    /\ holder[s] # None
    /\ holder' = [holder EXCEPT ![s] = None]
    /\ key' = [key EXCEPT ![s] = None]
    /\ Spend(s)

\* The holder is given a fresh key, which replaces the one it has.
IssueKey(s, k) ==
    /\ holder[s] # None
    /\ k \notin spent
    /\ \A t \in Subs : key[t] # k
    /\ key' = [key EXCEPT ![s] = k]
    /\ Spend(s)
    /\ UNCHANGED holder

LicenceNext ==
    \E s \in Subs :
        \/ \E d \in Devices : Claim(s, d) \/ Replace(s, d)
        \/ Release(s)
        \/ \E k \in Keys : IssueKey(s, k)

LicenceSpec == LicenceInit /\ [][LicenceNext]_licence
=============================================================================
