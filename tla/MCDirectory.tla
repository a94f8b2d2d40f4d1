---------------------------- MODULE MCDirectory ----------------------------
(* Directory on small sets of model values.                                *)
EXTENDS Directory, TLC

Symmetry == Permutations(Req)

\* Routes called together: those that meet in the same rows.
MCDeployments ==
    { <<"memory", {"create", "update"}>>, <<"memory", {"login", "create", "disable", "provision"}>>,
      <<"memory", {"slug", "provision"}>>, <<"oracle", {"slug", "provision"}>>,
      <<"oracle", {"update", "disable"}>>, <<"oracle", {"create", "subscription"}>>,
      <<"supabase", {"slug", "provision"}>>, <<"supabase", {"disable", "subscription"}>> }
=============================================================================
