-------------------------- MODULE MCDeviceRegistry --------------------------
(* DeviceRegistry on small sets of model values.                           *)
EXTENDS DeviceRegistry, TLC

Symmetry ==
    Permutations(Devices) \cup Permutations(Tokens) \cup Permutations(ActIds)
        \cup Permutations(Creds) \cup Permutations(Req)
=============================================================================
