---------------------------- MODULE MCWorkspace ----------------------------
(* Workspace on small sets of model values.                                *)
EXTENDS Workspace, TLC

Symmetry == Permutations(Req) \cup Permutations(Paths)

\* Two accounts of one organization, one of another.
CONSTANTS u1, u2, u3, o1, o2
MCOrgOf == (u1 :> o1) @@ (u2 :> o1) @@ (u3 :> o2)

\* Routes called together: those that meet in the same rows.
MCDeployments ==
    { <<"memory", "memory", {<<"chat", u1>>, <<"rename", u1>>, <<"chat", u3>>}>>,
      <<"oracle", "oracle", {<<"chat", u1>>, <<"remove", u1>>, <<"messages", u2>>}>>,
      <<"oracle", "oracle", {"create", "rename"} \X {u1, u2}>>,
      <<"supabase", "memory", {"chat", "remove"} \X {u1}>>,
      <<"supabase", "memory", {"create", "rename"} \X {u1, u2}>>,
      <<"memory", "memory", {"upload", "delete"} \X {u1, u2}>>,
      <<"oracle", "oracle", {"upload", "delete"} \X {u1}>>,
      <<"oracle", "memory", {"upload", "delete"} \X {u2}>>,
      <<"supabase", "memory", {"upload", "delete"} \X {u1}>>,
      <<"supabase", "memory", {"create", "upload", "remove"} \X {u1}>>,
      <<"memory", "memory", {"create", "upload", "remove"} \X {u1}>>,
      <<"memory", "memory", {<<"upload", u1>>, <<"chat", u3>>}>>,
      <<"memory", "memory", ({"create", "remove"} \X {u1})
                            \cup ({"messages", "conversations"} \X {u1, u3})>>,
      <<"supabase", "memory", {<<"chat", u1>>, <<"messages", u1>>, <<"messages", u2>>}>>,
      <<"memory", "memory", {<<"upload", u1>>} \cup ({"files", "file", "events"} \X {u2, u3})>>,
      <<"oracle", "oracle", ({"create", "remove"} \X {u2})
                            \cup ({"conversations", "files", "events"} \X {u2, u3})>>,
      <<"supabase", "memory", {<<"upload", u1>>, <<"delete", u2>>, <<"files", u3>>,
                               <<"events", u2>>}>> }
=============================================================================
