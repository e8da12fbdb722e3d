---------------------------------- MODULE MCBudget --------------------------------
(* A small instance of Budget: callers that ask for one token or for two at once.  *)
EXTENDS Budget

MCCosts == {1, 2}
MCSymmetry == Permutations(Callers)
====================================================================================
