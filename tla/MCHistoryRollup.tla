-------------------------- MODULE MCHistoryRollup --------------------------
(* Model-checking instances of HistoryRollup.                              *)
EXTENDS HistoryRollup, TLC

Symmetry == Permutations(Values)
=============================================================================
