-------------------------------- MODULE MCRetryLoop -------------------------------
(* A small instance of RetryLoop: one class of each kind that _handle_failure tells *)
(* apart, and policies with tight and with loose limits.                           *)
EXTENDS RetryLoop

MCClasses == {"TRANSIENT", "RATE_LIMIT", "PERMANENT", "UNKNOWN"}
MCNonRetryable == {"PERMANENT"}

Caps == { [k \in MCClasses |-> IF k = "RATE_LIMIT" THEN n ELSE None] : n \in {0, 1} }

MCPolicies ==
    [ max_attempts : {0, 1, 3},
      deadline : {0, 2},
      max_unknown_attempts : {1, None},
      per_class_max_attempts : Caps,
      strategies : {MCClasses, {"TRANSIENT", "RATE_LIMIT"}},
      budget : BOOLEAN,
      raising : { Callbacks, Callbacks \ {"abort_if"}, Callbacks \ {"abort_if", "sleep"} } ]
====================================================================================
