----------------------------- MODULE MCAccounts -----------------------------
(* Accounts on small sets of model values.                                 *)
EXTENDS Accounts, TLC

Symmetry == Permutations(Kids) \cup Permutations(Threads)

MCDeployments == { <<"registration", "immediate">>, <<"registration", "confirm">>,
                   <<"registration", "repeat">>, <<"tokens", "confirm">> }
=============================================================================
