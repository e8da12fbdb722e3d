--------------------------------- MODULE RetryLoop --------------------------------
(***********************************************************************************)
(* One execution of a retry policy: the loop of _run_sync_call and                 *)
(* _run_sync_execute, which _run_async_call and _run_async_execute repeat with     *)
(* awaits.  The operation, the classifier, abort_if, the sleep handler and the     *)
(* shared budget answer as they like, time passes between any two steps, and the   *)
(* callbacks in policy.raising may raise.  Backoff delays are left out: a sleeper  *)
(* may return early or late.                                                       *)
(***********************************************************************************)
EXTENDS Integers, Sequences

CONSTANTS
    Classes,       \* ErrorClass
    NonRetryable,  \* PERMANENT, AUTH and PERMISSION
    Unknown,       \* UNKNOWN
    Policies,      \* the policies considered
    MaxElapsed,    \* bound on the clock
    None           \* Python's None

Callbacks == {"abort_if", "classifier", "result_classifier", "strategy", "sleep"}

Policy == [ max_attempts : Nat,
            deadline : Nat,
            max_unknown_attempts : Nat \cup {None},
            per_class_max_attempts : [Classes -> Nat \cup {None}],
            strategies : SUBSET Classes,   \* the classes _select_strategy finds one for
            budget : BOOLEAN,              \* whether the policy has one
            raising : SUBSET Callbacks ]   \* the callbacks that may raise an Exception

ASSUME LoopAssumption ==
    /\ NonRetryable \subseteq Classes /\ Unknown \in Classes \ NonRetryable
    /\ Policies \subseteq Policy
    /\ MaxElapsed \in Nat
    /\ None \notin Nat /\ None # "exception"

VARIABLES
    policy,    \* the policy
    mode,      \* "call" or "execute"
    elapsed,   \* state.elapsed()
    pc,        \* where the loop is
    attempt,   \* the loop variable
    attempts,  \* execute's count of attempts
    started,   \* attempt_state.started
    cause,     \* attempt_state.cause
    perClass,  \* per_class_counts
    unknown,   \* unknown_attempts
    ending,    \* how the execution ended: its stop reason and the attempts it reports
    calls,     \* history: how often the operation was called
    ends,      \* history: how often on_attempt_end was
    tokens,    \* history: the tokens drawn from the budget
    events     \* history: the terminal events

place == <<pc, attempt, attempts, started, cause>>
counts == <<perClass, unknown>>
history == <<calls, ends, tokens, events>>
vars == <<policy, mode, elapsed, place, counts, ending, history>>

StopReasons ==
    { "MAX_ATTEMPTS_GLOBAL", "MAX_ATTEMPTS_PER_CLASS", "DEADLINE_EXCEEDED",
      "MAX_UNKNOWN_ATTEMPTS", "NON_RETRYABLE_CLASS", "NO_STRATEGY", "BUDGET_EXHAUSTED",
      "SCHEDULED", "ABORTED" }

Places == {"head", "running", "failed", "judging", "judged", "planned", "sleeping", "woken", "done"}

Reasons == StopReasons \cup {"SUCCESS", "ESCAPED"}

TypeOK ==
    /\ policy \in Policies
    /\ mode \in {"call", "execute"}
    /\ elapsed \in 0..MaxElapsed
    /\ pc \in Places
    /\ attempt \in Nat \ {0} /\ attempts \in Nat
    /\ started \in BOOLEAN
    /\ cause \in {None, "exception", "result"}
    /\ perClass \in [Classes -> Nat] /\ unknown \in Nat
    /\ pc # "done" => ending = None
    /\ pc = "done" => ending \in [reason : Reasons, attempts : Nat \cup {None}]
    /\ calls \in Nat /\ ends \in Nat /\ tokens \in Nat
    /\ events \in Seq([reason : StopReasons \cup {"SUCCESS"}, attempt : Nat])

Init ==
    /\ policy \in Policies
    /\ mode \in {"call", "execute"}
    /\ elapsed = 0
    /\ pc = "head" /\ attempt = 1 /\ attempts = 0 /\ started = FALSE /\ cause = None
    /\ perClass = [k \in Classes |-> 0] /\ unknown = 0
    /\ ending = None
    /\ calls = 0 /\ ends = 0 /\ tokens = 0 /\ events = <<>>

Tick ==
    /\ pc # "done" /\ elapsed < MaxElapsed
    /\ elapsed' = elapsed + 1
    /\ UNCHANGED <<policy, mode, place, counts, ending, history>>

Goto(p) == pc' = p /\ UNCHANGED <<attempt, attempts, started, cause>>

-----------------------------------------------------------------------------------
(* The ways out.                                                                   *)

\* What the caller is told: an outcome always counts the attempts, call() does in
\* a RetryExhaustedError only.
Reported == IF mode = "execute" THEN attempts ELSE IF cause = "result" THEN attempt ELSE None

\* Faulty: the outcome is built, but not returned.
FaultyLeave(reason, reported) ==
    /\ Goto("head")
    /\ ending' = [reason |-> reason, attempts |-> reported]
    /\ UNCHANGED <<policy, mode, elapsed>>

Leave(reason, reported) ==
    /\ Goto("done")
    /\ ending' = [reason |-> reason, attempts |-> reported]
    /\ UNCHANGED <<policy, mode, elapsed>>

Emit(reason, n) == events' = Append(events, [reason |-> reason, attempt |-> n])

\* A terminal decision: its event, on_attempt_end, and the end of the execution.
Stop(reason) ==
    /\ Emit(reason, attempt)
    /\ ends' = ends + 1
    /\ Leave(reason, Reported)
    /\ UNCHANGED <<calls, tokens>>

\* check_abort(n) hears that abort_if says yes.
Abort(n) ==
    /\ Emit("ABORTED", n)
    /\ ends' = IF mode = "execute" /\ started THEN ends + 1 ELSE ends
    /\ Leave("ABORTED", IF mode = "execute" THEN attempts ELSE None)
    /\ UNCHANGED <<counts, calls, tokens>>

\* Cancellation, process exit, or an Exception that no handler of the loop expects.
Escape == Leave("ESCAPED", None) /\ UNCHANGED <<counts, history>>

\* A callback raises AbortRetryError where execute() catches it.
AbortRaised(callback) ==
    /\ callback \in policy.raising /\ mode = "execute"
    /\ Emit("ABORTED", attempts)
    /\ ends' = IF started THEN ends + 1 ELSE ends
    /\ Leave("ABORTED", attempts)
    /\ UNCHANGED <<counts, calls, tokens>>

\* Faulty: execute() takes an Exception of its own handler for one of the operation, too.
FaultyCallbackRaises(callback) ==
    /\ callback \in policy.raising
    /\ \/ mode = "execute"
          /\ pc' = "failed" /\ cause' = "exception"
          /\ UNCHANGED <<policy, mode, elapsed, attempt, attempts, started, counts, ending, history>>
       \/ AbortRaised(callback)
       \/ mode = "call" /\ Escape

\* execute() runs everything inside its try: an AbortRetryError raised there aborts, and
\* another Exception is taken for one of the operation; what its handler raises, and all
\* that call() raises, gets out.
CallbackRaises(callback) ==
    /\ callback \in policy.raising
    /\ \/ mode = "execute" /\ cause # "exception"
          /\ pc' = "failed" /\ cause' = "exception"
          /\ UNCHANGED <<policy, mode, elapsed, attempt, attempts, started, counts, ending, history>>
       \/ cause # "exception" /\ AbortRaised(callback)
       \/ ~(mode = "execute" /\ cause # "exception") /\ Escape

-----------------------------------------------------------------------------------
(* One attempt.                                                                    *)

AtHead == pc = "head" /\ attempt <= policy.max_attempts

\* Faulty: the attempt that does not start is counted.
FaultyAbortAtHead == AtHead /\ Abort(attempt)

AbortAtHead == AtHead /\ Abort(attempt - 1)

HeadRaises == AtHead /\ CallbackRaises("abort_if")

StartAttempt ==
    /\ AtHead
    /\ pc' = "running"
    /\ started' = TRUE
    /\ attempts' = attempt
    /\ calls' = calls + 1
    /\ UNCHANGED <<policy, mode, elapsed, attempt, cause, counts, ending, ends, tokens, events>>

\* Faulty: nobody thought of max_attempts = 0.
FaultyExhausted ==
    /\ pc = "head" /\ attempt > policy.max_attempts + 1
    /\ Emit("MAX_ATTEMPTS_GLOBAL", policy.max_attempts)
    /\ Leave("MAX_ATTEMPTS_GLOBAL", IF mode = "execute" THEN attempts ELSE None)
    /\ UNCHANGED <<counts, calls, ends, tokens>>

\* for ... in range(1, max_attempts + 1) has run out.
Exhausted ==
    /\ pc = "head" /\ attempt > policy.max_attempts
    /\ Emit("MAX_ATTEMPTS_GLOBAL", policy.max_attempts)
    /\ Leave("MAX_ATTEMPTS_GLOBAL", IF mode = "execute" THEN attempts ELSE None)
    /\ UNCHANGED <<counts, calls, ends, tokens>>

Succeed ==
    /\ pc = "running"
    /\ Stop("SUCCESS")
    /\ UNCHANGED counts

\* The operation raises, a timeout included, or returns what result_classifier rejects.
Fail ==
    /\ pc = "running"
    /\ pc' = "failed"
    /\ cause' \in {"exception", "result"}
    /\ UNCHANGED <<policy, mode, elapsed, attempt, attempts, started, counts, ending, history>>

\* result_classifier raises, or the record_success() of the strategy selected last.
ReturningRaises ==
    /\ pc = "running"
    /\ \/ CallbackRaises("result_classifier")
       \/ attempt > 1 /\ CallbackRaises("strategy")

\* The operation raises AbortRetryError.
OperationAborts ==
    /\ pc = "running"
    /\ Emit("ABORTED", attempt)
    /\ ends' = ends + 1
    /\ Leave("ABORTED", IF mode = "execute" THEN attempts ELSE None)
    /\ UNCHANGED <<counts, calls, tokens>>

\* abort_if is asked after a failure, and again once a retry is planned.
AbortAfterFailure == pc \in {"failed", "planned"} /\ Abort(attempt)

\* The handler of execute() expects an AbortRetryError where it asks abort_if.
AskingRaises ==
    /\ pc \in {"failed", "planned"}
    /\ CallbackRaises("abort_if") \/ AbortRaised("abort_if")

CarryOn ==
    /\ pc \in {"failed", "planned"}
    /\ Goto(IF pc = "failed" THEN "judging" ELSE "sleeping")
    /\ UNCHANGED <<policy, mode, elapsed, counts, ending, history>>

-----------------------------------------------------------------------------------
(* _handle_failure, with the failure classified as k.                              *)

OverClassCap(k) ==
    /\ policy.per_class_max_attempts[k] # None
    /\ perClass[k] + 1 > policy.per_class_max_attempts[k]

\* Faulty: this failure is not counted.
FaultyOverUnknownCap(k) ==
    /\ k = Unknown
    /\ policy.max_unknown_attempts # None
    /\ unknown > policy.max_unknown_attempts

OverUnknownCap(k) ==
    /\ k = Unknown
    /\ policy.max_unknown_attempts # None
    /\ unknown + 1 > policy.max_unknown_attempts

Retryable(k) == ~OverClassCap(k) /\ k \notin NonRetryable /\ ~OverUnknownCap(k)

Late == elapsed > policy.deadline

Judge(k) ==
    /\ pc = "judging"
    /\ perClass' = [perClass EXCEPT ![k] = @ + 1]
    /\ unknown' = IF k = Unknown /\ ~OverClassCap(k) THEN unknown + 1 ELSE unknown
    /\ \/ OverClassCap(k) /\ Stop("MAX_ATTEMPTS_PER_CLASS")
       \/ ~OverClassCap(k) /\ k \in NonRetryable /\ Stop("NON_RETRYABLE_CLASS")
       \/ ~OverClassCap(k) /\ OverUnknownCap(k) /\ Stop("MAX_UNKNOWN_ATTEMPTS")
       \/ Retryable(k) /\ Late /\ Stop("DEADLINE_EXCEEDED")
       \/ Retryable(k) /\ ~Late /\ k \notin policy.strategies /\ Stop("NO_STRATEGY")
       \/ /\ Retryable(k) /\ ~Late /\ k \in policy.strategies
          /\ Goto("judged")
          /\ UNCHANGED <<policy, mode, elapsed, ending, history>>

JudgingRaises == pc = "judging" /\ cause = "exception" /\ CallbackRaises("classifier")

\* Faulty: one retry more than there are attempts left.
FaultyAnotherAttempt == elapsed < policy.deadline /\ attempt <= policy.max_attempts

AnotherAttempt == elapsed < policy.deadline /\ attempt < policy.max_attempts

\* Faulty: the budget is asked before the attempts are looked at.
FaultySchedule ==
    /\ pc = "judged"
    /\ \/ elapsed >= policy.deadline /\ Stop("DEADLINE_EXCEEDED")
       \/ elapsed < policy.deadline /\ policy.budget /\ Stop("BUDGET_EXHAUSTED")
       \/ /\ elapsed < policy.deadline /\ attempt >= policy.max_attempts
          /\ tokens' = IF policy.budget THEN tokens + 1 ELSE tokens
          /\ Emit("MAX_ATTEMPTS_GLOBAL", attempt)
          /\ ends' = ends + 1
          /\ Leave("MAX_ATTEMPTS_GLOBAL", Reported)
          /\ UNCHANGED calls
       \/ /\ AnotherAttempt
          /\ tokens' = IF policy.budget THEN tokens + 1 ELSE tokens
          /\ Goto("planned")
          /\ UNCHANGED <<policy, mode, elapsed, ending, calls, ends, events>>
    /\ UNCHANGED counts

Schedule ==
    /\ pc = "judged"
    /\ \/ elapsed >= policy.deadline /\ Stop("DEADLINE_EXCEEDED")
       \/ /\ elapsed < policy.deadline /\ attempt >= policy.max_attempts
          /\ Stop("MAX_ATTEMPTS_GLOBAL")
       \/ AnotherAttempt /\ policy.budget /\ Stop("BUDGET_EXHAUSTED")
       \/ /\ AnotherAttempt
          /\ tokens' = IF policy.budget THEN tokens + 1 ELSE tokens
          /\ Goto("planned")
          /\ UNCHANGED <<policy, mode, elapsed, ending, calls, ends, events>>
    /\ UNCHANGED counts

SchedulingRaises == pc = "judged" /\ CallbackRaises("strategy")

-----------------------------------------------------------------------------------
(* The sleep handler, the sleep, and _finalize_attempt.                            *)

Sleep ==
    /\ pc = "sleeping"
    /\ Goto("woken")
    /\ UNCHANGED <<policy, mode, elapsed, counts, ending, history>>

\* Faulty: a deferred attempt ends without its hook.
FaultyDefer ==
    /\ pc = "sleeping"
    /\ Emit("SCHEDULED", attempt)
    /\ Leave("SCHEDULED", IF mode = "execute" THEN attempts ELSE attempt)
    /\ UNCHANGED <<counts, calls, ends, tokens>>

\* SleepDecision.DEFER: call() too reports the attempts, in a RetryExhaustedError.
Defer ==
    /\ pc = "sleeping"
    /\ Emit("SCHEDULED", attempt)
    /\ ends' = ends + 1
    /\ Leave("SCHEDULED", IF mode = "execute" THEN attempts ELSE attempt)
    /\ UNCHANGED <<counts, calls, tokens>>

\* SleepDecision.ABORT.
AbortSleep ==
    /\ pc = "sleeping"
    /\ Emit("ABORTED", attempt)
    /\ ends' = ends + 1
    /\ Leave("ABORTED", IF mode = "execute" THEN attempts ELSE None)
    /\ UNCHANGED <<counts, calls, tokens>>

SleepingRaises == pc = "sleeping" /\ CallbackRaises("sleep")

\* Faulty: the deadline is reported without its event.
FaultyWakeLate ==
    /\ pc = "woken" /\ Late
    /\ ends' = ends + 1
    /\ Leave("DEADLINE_EXCEEDED", Reported)
    /\ UNCHANGED <<counts, calls, tokens, events>>

WakeLate ==
    /\ pc = "woken" /\ Late
    /\ Stop("DEADLINE_EXCEEDED")
    /\ UNCHANGED counts

Retry ==
    /\ pc = "woken" /\ ~Late
    /\ pc' = "head"
    /\ attempt' = attempt + 1
    /\ started' = FALSE
    /\ cause' = None
    /\ ends' = ends + 1
    /\ UNCHANGED <<policy, mode, elapsed, attempts, counts, ending, calls, tokens, events>>

Step ==
    \/ AbortAtHead \/ HeadRaises \/ StartAttempt \/ Exhausted
    \/ Succeed \/ Fail \/ ReturningRaises \/ OperationAborts
    \/ AbortAfterFailure \/ AskingRaises \/ CarryOn
    \/ (\E k \in Classes : Judge(k)) \/ JudgingRaises \/ Schedule \/ SchedulingRaises
    \/ Sleep \/ Defer \/ AbortSleep \/ SleepingRaises \/ WakeLate \/ Retry

Interrupted == pc # "done" /\ Escape

Next == Tick \/ Step \/ Interrupted

Spec == Init /\ [][Next]_vars

\* The thread or task is scheduled, and the operation and the sleeper come back.
\* Nothing has to interrupt it.
FairSpec == Spec /\ WF_vars(Step)

-----------------------------------------------------------------------------------
(* Properties.                                                                     *)

AbortIfReturns == "abort_if" \notin policy.raising

SleepReturns == "sleep" \notin policy.raising

\* The counters of the loop agree while it runs: with the calls made, the attempt at
\* hand and, unless abort_if raises, the hooks.
Bookkeeping ==
    /\ pc = "head" =>
          /\ ~started /\ cause = None
          /\ calls = attempt - 1 /\ attempts = attempt - 1
          /\ attempt = 1 \/ attempt <= policy.max_attempts
    /\ pc \notin {"head", "done"} =>
          /\ started
          /\ calls = attempt /\ attempts = attempt
          /\ attempt <= policy.max_attempts
    /\ pc = "running" => cause = None
    /\ pc \in {"planned", "sleeping", "woken"} => attempt < policy.max_attempts

\* What agrees whatever the callbacks raise.
Rounds ==
    /\ attempt <= policy.max_attempts + 1
    /\ pc \notin {"head", "done"} => attempt <= policy.max_attempts
    /\ pc \in {"planned", "sleeping", "woken"} => attempt < policy.max_attempts
    /\ pc \in {"head", "running"} => cause = None
    /\ pc # "done" => calls <= attempts /\ attempts <= attempt
    /\ pc = "head" => attempts < attempt

\* The tokens drawn, by where the loop is, unless abort_if or a sleep raises.
TokensDrawn ==
    policy.budget /\ pc # "done" =>
        tokens = IF pc \in {"head", "planned", "sleeping", "woken"} THEN calls ELSE calls - 1

\* The failures of the unknown class are counted twice over.
UnknownCounted == pc # "done" => unknown = perClass[Unknown]

\* "Structured terminal outcomes": an execution that ends by its own decision has
\* emitted one terminal event, the last one, and reports the stop reason of that
\* event; one that goes on has emitted none.
EventTellsEnding ==
    /\ pc # "done" => events = <<>>
    /\ pc = "done" /\ ending.reason # "ESCAPED" =>
          Len(events) = 1 /\ events[1].reason = ending.reason

\* "Use outcome.attempts or attempt hooks to count calls": the attempts that an outcome
\* or a RetryExhaustedError reports are the calls of the operation.
OutcomeCountsCalls == pc = "done" /\ ending.attempts # None => ending.attempts = calls

\* That is so unless abort_if raises, whatever the other callbacks do, and the terminal
\* event tells the same number ("abort events use the number of completed attempts").
AttemptsCountCalls ==
    AbortIfReturns =>
        /\ OutcomeCountsCalls
        /\ events # <<>> => events[1].attempt = calls

TokensAreRetries ==
    policy.budget /\ calls > 0 =>
        /\ tokens \in {calls - 1, calls}
        /\ pc = "done" /\ tokens = calls =>
              ending.reason \in {"ABORTED", "SCHEDULED", "DEADLINE_EXCEEDED", "ESCAPED"}

\* Unless abort_if or a sleep raises, every retry was admitted by the budget, and the
\* tokens drawn beyond that are at most one: that of a retry aborted, deferred or late.
TokensCountRetries == AbortIfReturns /\ SleepReturns => TokensAreRetries

HooksFollowCalls ==
    /\ pc # "done" => ends = calls - (IF started THEN 1 ELSE 0)
    /\ pc = "done" /\ ending.reason # "ESCAPED" =>
          ends = calls \/ (mode = "call" /\ ending.reason = "ABORTED" /\ ends = calls - 1)

\* Unless abort_if raises, every attempt that has started ends with one on_attempt_end,
\* before the next one starts; only call() leaves without it, when abort_if stops it
\* after a failure.
HooksPaired == AbortIfReturns => HooksFollowCalls

\* While an execution goes on, every failure so far is one that the policy lets it
\* retry: within the caps of its class, retryable, and with a strategy.
OnlyRetryableSoFar ==
    pc # "done" =>
        /\ \A k \in Classes : perClass[k] > 0 =>
              /\ k \in policy.strategies \ NonRetryable
              /\ policy.per_class_max_attempts[k] # None =>
                    perClass[k] <= policy.per_class_max_attempts[k]
        /\ policy.max_unknown_attempts # None =>
              perClass[Unknown] <= policy.max_unknown_attempts

\* "Behavior must stay bounded": whatever fails, an execution ends.
Terminates == <>(pc = "done")

\* How far an execution is from the end of its attempt: the places left, once before
\* and once after an exception is caught.
Height ==
    (IF cause = "exception" THEN 0 ELSE 8)
    + [ head |-> 8, running |-> 7, failed |-> 6, judging |-> 5, judged |-> 4,
        planned |-> 3, sleeping |-> 2, woken |-> 1, done |-> 0 ][pc]

\* And from its own end: the attempts left are counted, too.
Rank == IF pc = "done" THEN 0 ELSE 16 * (policy.max_attempts + 1 - attempt) + Height

\* Whatever callbacks answer or raise, every step but the passing of time brings an
\* execution nearer its end, and the distance is bounded by its policy alone: the loop
\* cannot go round without using up an attempt, nor judge one attempt for ever.
StepsDescend ==
    [][ UNCHANGED elapsed => Rank' \in 0..(16 * (policy.max_attempts + 1)) /\ Rank' < Rank ]_vars

\* The loop keeps the contract, whatever the callbacks raise.
Phase ==
    [ head |-> "ready", running |-> "calling", failed |-> "failed", judging |-> "failed",
      judged |-> "allowed", planned |-> "retrying", sleeping |-> "retrying",
      woken |-> "retrying", done |-> "over" ][pc]

Contract == INSTANCE RetryContract
                WITH phase <- Phase, round <- attempt, caught <- cause = "exception",
                     failures <- perClass

KeepsContract == Contract!Spec
====================================================================================
