------------------------- MODULE MCRegistryLicence --------------------------
(* RegistryLicence on small sets of model values.                          *)
EXTENDS RegistryLicence, TLC

\* Sound for the CHOOSEs of the mapping, which pick from sets of one element.
Symmetry ==
    Permutations(Devices) \cup Permutations(Tokens) \cup Permutations(ActIds)
        \cup Permutations(Creds) \cup Permutations(Req)
=============================================================================
