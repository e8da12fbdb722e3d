--------------------------------- MODULE MCPolicy ---------------------------------
(* A small instance of Policy: one class that counts towards opening, one that     *)
(* does not, and no class with a threshold of its own (CircuitWindow has those).   *)
EXTENDS Policy

MCClasses == {"transient", "permanent"}
MCTripOn == {"transient"}
MCClassThreshold == [k \in {} |-> 1]
MCSymmetry == Permutations(Callers)
====================================================================================
