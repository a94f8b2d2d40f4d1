---------------------------- MODULE MCModelStore ----------------------------
(* ModelStore with two versions of a model, of two sizes.                  *)
EXTENDS ModelStore

MCVersion == {"small", "large"}

MCSize == [v \in MCVersion |-> IF v = "small" THEN 2 ELSE 3]
=============================================================================
