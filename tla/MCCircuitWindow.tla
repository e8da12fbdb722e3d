------------------------------ MODULE MCCircuitWindow -----------------------------
(* A small instance of CircuitWindow: a class that counts, one that does not, and  *)
(* one that counts and has a threshold of its own.                                 *)
EXTENDS CircuitWindow

MCClasses == {"transient", "rate_limit", "permanent"}
MCTripOn == {"transient"}
MCClassThreshold == [k \in {"rate_limit"} |-> 2]
====================================================================================
