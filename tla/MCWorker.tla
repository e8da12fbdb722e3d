---------------------------------- MODULE MCWorker ---------------------------------
(* Small instances of Worker: a task that is deferred, one whose caller has a sleep *)
(* handler and a breaker, and one without a retry component.                        *)
EXTENDS Worker

MCContexts == {"worker", "child"}

MCHooks == {{"on_metric", "on_log"}, {"on_metric"}, {"on_log"}}

Retrying ==
    [retry |-> TRUE, breaker |-> FALSE, max_attempts |-> 2, named |-> TRUE, sleep |-> "defer"]

Single == [Retrying EXCEPT !.retry = FALSE, !.breaker = TRUE]

MCTaskPolicy ==
    [ mail |-> Retrying,
      report |-> [Retrying EXCEPT !.breaker = TRUE, !.named = FALSE, !.sleep = "sleep"],
      ping |-> Single ]

MCTasks == DOMAIN MCTaskPolicy

MCInnerPolicies ==
    { [Retrying EXCEPT !.sleep = "sleep"],
      [Retrying EXCEPT !.max_attempts = 0],
      [Single EXCEPT !.breaker = FALSE, !.named = FALSE] }

\* A task of its own.
PingPolicy == [ping |-> Single]

PingTasks == DOMAIN PingPolicy

NoPolicies == {}
====================================================================================
