------------------------------ MODULE CircuitContract -----------------------------
(***********************************************************************************)
(* What docs/concepts/circuit-breakers.md promises of executions that share a      *)
(* breaker, as a state machine of its own: at any moment some executions are       *)
(* voters, and only a voter can move the breaker, once.  A trip or a recovery      *)
(* disenfranchises everybody, and a half-open breaker has at most one voter.       *)
(***********************************************************************************)
CONSTANTS Callers

VARIABLES
    mode,    \* "closed", "open" or "half_open"
    voters   \* the executions whose outcome the breaker still listens to

contractVars == <<mode, voters>>

Init == mode = "closed" /\ voters = {}

Join(c) ==
    /\ mode = "closed"
    /\ voters' = voters \cup {c}
    /\ UNCHANGED mode

Probe(c) ==
    /\ mode \in {"open", "half_open"}
    /\ voters = {}
    /\ mode' = "half_open"
    /\ voters' = {c}

Leave(c) ==
    /\ c \in voters
    /\ voters' = voters \ {c}
    /\ UNCHANGED mode

Trip(c) ==
    /\ c \in voters
    /\ mode' = "open"
    /\ voters' = {}

Recover(c) ==
    /\ mode = "half_open"
    /\ c \in voters
    /\ mode' = "closed"
    /\ voters' = {}

Next == \E c \in Callers : Join(c) \/ Probe(c) \/ Leave(c) \/ Trip(c) \/ Recover(c)

Spec == Init /\ [][Next]_contractVars
====================================================================================
