-------------------------- MODULE RegistryLicence ---------------------------
(***************************************************************************)
(* DeviceRegistry implements DeviceLicence: the holder of a licence is the *)
(* device of the subscription's active activation, its key that            *)
(* activation's valid credential, and the spent keys are the credentials   *)
(* revoked so far.                                                         *)
(***************************************************************************)
EXTENDS DeviceRegistry

Holder == [s \in Subs |->
             IF ActiveOn(s) = {} THEN None
             ELSE activation[CHOOSE a \in ActiveOn(s) : TRUE].dev]

KeysOf(s) == UNION {ActiveCredsOf(a) : a \in ActiveOn(s)}

Key == [s \in Subs |-> IF KeysOf(s) = {} THEN None ELSE CHOOSE c \in KeysOf(s) : TRUE]

Spent == {c \in Creds : credential[c].status \in {"revoked", "purged"}}

Licence == INSTANCE DeviceLicence
    WITH Keys <- Creds, holder <- Holder, key <- Key, spent <- Spent

\* Every interleaving of the register's statements, with its aborts and
\* deadlocks, is a behaviour of the licence: no seat without a claim, no
\* replacement that leaves the old key alive, no key issued twice.
ImplementsLicence == Licence!LicenceSpec
=============================================================================
