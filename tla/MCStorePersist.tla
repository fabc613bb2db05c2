--------------------------- MODULE MCStorePersist ---------------------------
(* Model-checking instances of StorePersist.                               *)
EXTENDS StorePersistInv, TLC

Symmetry == Permutations(Nodes) \cup Permutations(Metas) \cup Permutations(Cfgs)
=============================================================================
