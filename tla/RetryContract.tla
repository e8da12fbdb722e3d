------------------------------- MODULE RetryContract ------------------------------
(***********************************************************************************)
(* What docs/troubleshooting.md and docs/observability.md promise of one execution *)
(* of a retry policy, as a state machine of its own: the operation is called again *)
(* only after a failure that the policy allows, and each call after the first is   *)
(* paid for; a stop reason is given when it is true; and no fewer attempts are     *)
(* reported than calls were made.  Callbacks may fail as they like.                *)
(***********************************************************************************)
EXTENDS Integers

CONSTANTS Classes, NonRetryable, Unknown, Policies, None

VARIABLES
    policy,    \* its limits
    elapsed,   \* the time since it began
    phase,     \* "ready", "calling", "failed", "allowed", "retrying" or "over"
    round,     \* the attempt at hand
    caught,    \* an exception has been caught in this round
    failures,  \* how many failures of each class were counted
    calls,     \* how often the operation was called
    tokens,    \* how many tokens of the budget were drawn
    ending     \* the stop reason and the attempts reported

contractVars == <<policy, elapsed, phase, round, caught, failures, calls, tokens, ending>>

Init ==
    /\ policy \in Policies
    /\ elapsed = 0
    /\ phase = "ready" /\ round = 1 /\ caught = FALSE
    /\ failures = [k \in Classes |-> 0]
    /\ calls = 0 /\ tokens = 0
    /\ ending = None

Exceeds(n, cap) == cap # None /\ n > cap

Count(k) == failures' = [failures EXCEPT ![k] = @ + 1]

Wait ==
    /\ phase # "over"
    /\ elapsed' = elapsed + 1
    /\ UNCHANGED <<policy, phase, round, caught, failures, calls, tokens, ending>>

Call ==
    /\ phase = "ready" /\ round <= policy.max_attempts
    /\ phase' = "calling"
    /\ calls' = calls + 1
    /\ UNCHANGED <<policy, elapsed, round, caught, failures, tokens, ending>>

\* The operation fails, or a callback does in its place.
Fail ==
    /\ \/ phase = "calling" /\ caught' \in BOOLEAN
       \/ phase = "ready" /\ round <= policy.max_attempts /\ caught' = TRUE
    /\ phase' = "failed"
    /\ UNCHANGED <<policy, elapsed, round, failures, calls, tokens, ending>>

\* A callback fails while a failure is dealt with, and that is a failure itself: once.
Relapse ==
    /\ phase \in {"failed", "allowed", "retrying"} /\ ~caught
    /\ phase' = "failed" /\ caught' = TRUE
    /\ UNCHANGED <<policy, elapsed, round, failures, calls, tokens, ending>>

\* A failure of class k is one that the policy allows.
Allow(k) ==
    /\ phase = "failed"
    /\ k \in policy.strategies \ NonRetryable
    /\ elapsed <= policy.deadline
    /\ Count(k)
    /\ ~Exceeds(failures'[k], policy.per_class_max_attempts[k])
    /\ k = Unknown => ~Exceeds(failures'[k], policy.max_unknown_attempts)
    /\ phase' = "allowed"
    /\ UNCHANGED <<policy, elapsed, round, caught, calls, tokens, ending>>

\* A retry is planned, and paid for.
Plan ==
    /\ phase = "allowed"
    /\ elapsed < policy.deadline /\ round < policy.max_attempts
    /\ tokens' = IF policy.budget THEN tokens + 1 ELSE tokens
    /\ phase' = "retrying"
    /\ UNCHANGED <<policy, elapsed, round, caught, failures, calls, ending>>

Retry ==
    /\ phase = "retrying" /\ elapsed <= policy.deadline
    /\ phase' = "ready" /\ round' = round + 1 /\ caught' = FALSE
    /\ UNCHANGED <<policy, elapsed, failures, calls, tokens, ending>>

End(reason) ==
    /\ phase # "over"
    /\ phase' = "over"
    /\ ending' \in [reason : {reason}, attempts : (calls..round) \cup {None}]
    /\ UNCHANGED <<policy, elapsed, round, caught, calls, tokens>>

\* The stop reasons that have to do with the class of the latest failure.
Refuse(k) ==
    /\ phase = "failed"
    /\ Count(k)
    /\ \/ End("MAX_ATTEMPTS_PER_CLASS") /\ Exceeds(failures'[k], policy.per_class_max_attempts[k])
       \/ End("NON_RETRYABLE_CLASS") /\ k \in NonRetryable
       \/ End("MAX_UNKNOWN_ATTEMPTS") /\ k = Unknown
             /\ Exceeds(failures'[k], policy.max_unknown_attempts)
       \/ End("NO_STRATEGY") /\ k \notin policy.strategies
       \/ End("DEADLINE_EXCEEDED") /\ elapsed > policy.deadline

\* The others.
Stop ==
    /\ \/ End("SUCCESS") /\ phase = "calling"
       \/ End("MAX_ATTEMPTS_GLOBAL")
             /\ \/ phase = "ready" /\ round > policy.max_attempts
                \/ phase = "allowed" /\ round >= policy.max_attempts
       \/ End("DEADLINE_EXCEEDED") /\ phase = "allowed" /\ elapsed >= policy.deadline
       \/ End("DEADLINE_EXCEEDED") /\ phase = "retrying" /\ elapsed > policy.deadline
       \/ End("BUDGET_EXHAUSTED") /\ phase = "allowed" /\ policy.budget
       \/ End("SCHEDULED") /\ phase = "retrying"
       \/ End("ABORTED")
       \/ End("ESCAPED")
    /\ UNCHANGED failures

Next ==
    \/ Wait \/ Call \/ Fail \/ Relapse \/ Plan \/ Retry \/ Stop
    \/ \E k \in Classes : Allow(k) \/ Refuse(k)

Spec == Init /\ [][Next]_contractVars

-----------------------------------------------------------------------------------
(* What follows, for whoever keeps the contract.                                   *)

\* An execution makes no more than max_attempts calls, each of them but the first paid
\* for with a token, and draws at most two tokens for each retry it could make.
Frugal ==
    /\ calls <= policy.max_attempts
    /\ policy.budget => calls <= tokens + 1
    /\ tokens <= 2 * policy.max_attempts
    /\ policy.max_attempts > 0 => tokens <= 2 * (policy.max_attempts - 1)
====================================================================================
