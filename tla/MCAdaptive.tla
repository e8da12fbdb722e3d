---------------------------------- MODULE MCAdaptive ------------------------------
(* A small instance of AdaptiveStrategy. *)
EXTENDS AdaptiveStrategy

MCSymmetry == Permutations(Callers)
====================================================================================
