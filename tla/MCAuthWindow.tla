---------------------------- MODULE MCAuthWindow ----------------------------
(* AuthWindow on small sets of model values.                               *)
EXTENDS AuthWindow, RegistryLicence, TLC

Symmetry ==
    Permutations(Devices) \cup Permutations(Tokens) \cup Permutations(ActIds)
        \cup Permutations(Creds) \cup Permutations(Req)
=============================================================================
