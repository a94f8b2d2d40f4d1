-------------------------- MODULE MCRuntimeService --------------------------
(* RuntimeService on small sets of model values.                           *)
EXTENDS RuntimeService, TLC

Symmetry == Permutations(Thread \ Loop) \cup Permutations(Worker)
              \cup Permutations(Ident) \cup Permutations(Cred)
=============================================================================
