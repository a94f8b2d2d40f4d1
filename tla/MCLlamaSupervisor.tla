------------------------- MODULE MCLlamaSupervisor --------------------------
(* LlamaSupervisor on small sets of model values.                          *)
EXTENDS LlamaSupervisor, TLC

Symmetry == Permutations(Thread) \cup Permutations(Proc)
=============================================================================
