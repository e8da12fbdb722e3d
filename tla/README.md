# A TLA+ model of redress

redress runs an operation under a policy: it retries failures by their class,
within attempt caps, a deadline and a budget that other executions share, and
behind a circuit breaker that they share too. This directory holds TLA+ modules
for that core, for the classifiers and strategies it is given, and for the
clients, task queues and telemetry around it, the instances TLC checks, and proofs that the TLA+ proof system
(TLAPS) checks for every value of the constants. `PROJECT.json` maps each
definition to the lines of source it stands for.

To check something: `tlc -config Policy.cfg MCPolicy`, `tlapm PolicyProofs.tla`.

## The system

| part | source (under `src/redress/`) | state it keeps | operations |
| --- | --- | --- | --- |
| circuit breaker | `circuit.py` | state, generation, probe, opening time, one deque of failures and one per class with a threshold of its own; under an `RLock` | `allow`, `_complete`, `record_success/failure/cancel` |
| policy | `policy/policy.py`, `async_policy.py`, `execution.py` | one `ExecutionContext` per call: the admission it holds | `call`, `execute`, with or without a retry component |
| retry loop | `policy/state.py`, `retry_helpers.py`, `runner/` | per execution: attempt, counts per class, unknown count, what failed last | `call`, `execute`, sync and async |
| budget | `budget.py` | a deque of token timestamps, under a `Lock` | `consume`, `remaining` |
| strategies | `strategies.py` | adaptive: a deque of outcomes, under a `Lock`; the others none | a delay for a context; `record_success/failure` |
| classification | `classify.py`, `extras/`, the classifiers of `contrib/` | none | exception or answer to a class and a delay asked for |
| clients | `contrib/httpx.py`, `requests.py`, `aiohttp.py`, `grpc.py` | httpx: a snapshot of the body, per request | send a request in a call of a policy |
| Celery | `contrib/celery.py` | none; the queue is Celery's | run a delivery in `execute`, answer it |
| OpenTelemetry hooks | `contrib/otel.py` | a mutable `_OtelState` in a context variable | `on_metric`, `on_log` |
| timeline, events, metrics | `runner/timeline.py`, `events.py`, `metrics.py` | a list of events | append, export |
| wrappers | `policy/context.py`, `decorator.py`, `wrappers.py`, `config.py` | bound arguments | delegate |
| other integrations | `contrib/asgi.py`, `fastapi.py`, `sentry.py`, `datadog.py`, `prometheus.py` | none | adapt a server or a sink |
| test doubles, linter | `testing/`, `cli.py` | scripted outcomes, recorded calls; none | |

How they interact. A policy call asks the breaker (`allow`), stores the decision
in its context, runs the retry loop or the bare operation, and tells the breaker
how it went (`_complete`); `ExecutionContext.__exit__` cancels whatever was not
told. The loop calls the operation, the classifier, `abort_if`, the strategy, the
budget, the sleep handler and the sleeper, one after another and all in the
caller's thread or task; each is somebody else's code and may take its time, say
anything, or raise. Observers (`on_metric`, `on_log`, attempt hooks) hear of
everything; their Exceptions are swallowed, an interrupt from them is not. What
executions share is the breaker, the budget, and an adaptive strategy.

What is hard, part by part, and what makes each part correct:

* **Breaker and policy.** Executions overlap with trips and recoveries, and end by
  return, failure, abort, cancellation or an interrupt on their way in or out. While the
  breaker is half-open exactly one execution must have a say; late results of
  earlier eras must not; and the probe must never get lost, because a half-open
  breaker without a live probe rejects everybody for ever.
* **Rolling windows** (breaker and budget). The clock is read before the lock is
  taken, so entries arrive out of order, and expiry pops from the left only. The
  windows must still mean what they say, up to the time spent waiting.
* **Retry loop.** Many independent limits and callbacks, each with its own way out,
  written twice (call and execute) and then twice again (async). An execution must
  end, must say truly how and after how many calls, must pair its hooks, and must
  not spend a token for a retry that is not to be.
* **Adaptive strategy.** A third window, of outcomes, with the same race between
  clock and lock, fed by executions that report only part of what happens to them.
* **Classifiers and delays.** Long lists of which the first match wins, over types
  that derive from each other and answers whose status and code disagree. A refusal
  must not be repeated, an outage must not be final, and a delay that a server asks
  for must be kept without disturbing the delays that come after it.
* **Clients.** A second attempt must send what the first did, though caller, client
  and library hold the same mutable objects; and what a predicate exempts from the
  policy must be sent once, however it is spelled.
* **Celery.** Two retry systems: a delivery must be answered by a retry of the queue
  exactly when the loop deferred one, and the loop must not retry as well.
* **Telemetry.** What the hooks know belongs to a thread or task, not to an
  execution, and executions follow, contain and overlap each other there. A span must
  end, and end with the execution that it is about.

## Modules

| module | models | extends |
| --- | --- | --- |
| `RollingWindow` | the deque of timestamps that two components keep, and how it expires | |
| `CircuitBreaker` | one action per critical section of the breaker | `RollingWindow` |
| `Policy` | call/execute of both policies around a breaker, any number of callers | `CircuitBreaker` |
| `CircuitContract` | the abstract specification: voters, and what a voter can do | |
| `CircuitWindow` | the breaker with its own callers and with direct users of `record_*`, against a history of failures | `CircuitBreaker` |
| `Budget` | consume and remaining by any number of threads | `RollingWindow` |
| `RetryLoop` | one execution of the loop, in either mode | |
| `RetryContract` | the abstract specification of an execution: when it may call again, and when a stop reason is true | |
| `AdaptiveStrategy` | recording and asking, by any number of threads | `RollingWindow` |
| `Classifiers` | every classifier, as a table over what it looks at | |
| `Backoff` | the delays each stateless strategy may choose | `Classifiers` |
| `Clients` | a request from the client to its last attempt: body, class, delay | `Classifiers`, `Backoff` |
| `Telemetry` | the otel hooks, as functions of what they know | |
| `Worker` | deliveries, executions within and next to each other, what is told of them | `Telemetry` |
| `MC...` | the finite instances | each its module |
| `RollingWindowProofs`, `CircuitWindowProofs`, `PolicyProofs`, `BudgetProofs`, `RetryLoopProofs`, `AdaptiveProofs`, `ClientsProofs`, `WorkerProofs` | the theorems | each its module and TLAPS |

`Policy` composes its breaker by extending it: an action of `Policy` takes one
action of `CircuitBreaker` and says what happens to the caller. It is refined to
`CircuitContract` by `mode <- state` and `voters <-` the callers whose admission is
of the current generation, not completed and, while half-open, the probe's.

### CircuitBreaker and Policy

`state`, `openedAt`, `generation`, `probe`, `failures`, `classFailures` are the
attributes of `CircuitBreaker`. A `_BreakerAdmission` is an object compared by
identity; a caller holds at most one, so it is named by its caller:
`admission[c]` is its contents and `probe = c` is `self._probe is admission`. An
admission lives until its call is over, or longer if the breaker still refers to
it as the probe; a caller starts its next call after that.

A caller moves through `idle` (no call), `asking` (the clock is read, the lock is
not taken), `granted` (allow has returned, the decision is not stored),
`running`, `settling` (an outcome is about to be recorded), `settled` (recorded,
decision still in the context), `exiting` (in `__exit__`). `held` is
`ctx.breaker_decision is not None`. What the work does is not modelled but for
how it ends: `WorkReturns`, `WorkAborts`, `WorkFails` with any class,
`WorkEscapes` where no handler records anything and only `__exit__` is left.

`Interrupt` is a KeyboardInterrupt between any two steps of the module, enabled by the
constant `AsyncInterrupts`. CPython delivers one between any two bytecodes of the main
thread, which includes those of a critical section of the breaker; such a section is one
step here, and is never left half done (see below). Interrupts and cancellations that arrive *in* the work, in an
observer or in a callback need no such switch: they are `WorkAborts`,
`WorkEscapes` and the second branch of `Adopt`.

Sync and async policies are the same module. `await` only appears around the
protected work, so the async interleavings are some of those considered.

### CircuitWindow

The same breaker with less around it: callers are admitted and complete, `Direct`
is other code calling the public `record_*` methods with a reading of the clock up
to `MaxLag` old. `recorded` keeps the instants at which the failures that count were
really recorded since the breaker was last closed, and `recordedOf` those of each
class. `Reached` is the definition of a threshold, in terms of what a window of real
time holds of these histories; the properties compare the deques with it.

### Budget

`pending`, `reading` and `cost` are the local variables of a call that has read the
clock and waits for the lock. `issued` keeps when each token really was handed
out. `MaxStall` bounds how long a caller waits; without a bound a window in real
time cannot be promised, since a caller may date its token arbitrarily early.

### RetryLoop

One execution, of a policy chosen in `Init`. `pc` is the place in the loop: `head`,
`running`, `failed` (abort_if comes next), `judging` (`_handle_failure`), `judged`
(a strategy was found), `planned` (abort_if is asked again), `sleeping`, `woken`,
`done`. Time passes between any two steps, so every comparison with the deadline
can go both ways. `mode` tells call from execute where the code does:

* execute keeps everything inside its `try`. A callback that raises on the *result*
  path is therefore taken for a failure of the operation: the attempt is judged a
  second time, and may draw a second token. On the *exception* path, and anywhere
  in call, what a callback raises gets out (`CallbackRaises`).
* call asks abort_if after a failure outside the code that ends attempts, so it
  leaves without `on_attempt_end`; execute does not.
* a sleeper that raises AbortRetryError gets out, except on the result path of
  execute (`AbortSleep`).
* an AbortRetryError of a callback ends execute as ABORTED where its `try` catches it: on
  the result path, and for abort_if (`AbortRaised`).

`policy.raising` is the set of callbacks that may raise an Exception. Observers are not in
it: their Exceptions are swallowed. `calls`, `ends`, `tokens` and `events` are
history variables. `Interrupted` is cancellation, process exit or a
RetryExhaustedError of the operation, which nothing handles.

`RetryContract` is what `docs/troubleshooting.md` and `docs/observability.md` say of an
execution, without the order in which the code asks its questions: after a failure it may
`Allow` its class, `Plan` a retry and pay for it, and `Retry`, or stop for a reason that is true then.
It has no modes; that a callback may fail, and that its failure may be judged in turn, is
`Relapse`. The loop is refined to it by `phase <- Phase`, the place in the loop by what
has been settled at it (`judging` is still `failed`, and `planned`, `sleeping` and
`woken` are all `retrying`), `round <- attempt`, `caught <- cause = "exception"` and
`failures <- perClass`. `call` and `execute` take the same steps of the contract, except that only `execute`
takes a callback's failure for one of the operation (`Relapse`, and `Fail` before a call).
Whoever keeps the contract is `Frugal`.

### AdaptiveStrategy

A caller runs executions, one after the other. `failing`, `succeeding` and `asking`
are the places between the clock and the lock; `chosen` is whether the
`_last_strategy` of its execution is this one, which is what decides whether a
success is reported. The multiplier is a fraction of integers, so it is exact where
the code rounds, and the clamp of the code has nothing to do. `recorded` is the
history: each outcome, whose it was and when it entered.

### Classifiers, Backoff and Clients

A failure is what the classifiers look at: type names with their bases, the numbers under
`status`, `status_code` and `code` and among the arguments, the status of the answer that it carries
(`answered`), error codes, headers as the seconds they stand for. Each classifier reads
those that the code reads, in its order: those of HTTP never look at `answered`, the providers
do where there is no `status_code`, AWS does after its codes. A classifier is a sequence of
rows; `First` takes the first that applies, as the `if` chains do. Which type derives from
which belongs to the libraries and is in `MCClients`, with an entry for the failures
that a maintainer would try, and with what each *means*: `refused`, `busy` or
`unclear`. That meaning is the yardstick of `RefusalsNotRepeated` and
`BusyNotFinal`; the classifiers never see it.

`Clients` follows one request. A body is a graph of objects (`heap`), so that
containers may be shared or cyclic; `body`, `snapshot` and `handed` are what the
caller's object, the snapshot and the client's copy say, and any of the holders may
change what it holds (`CallerChanges`, `ClientChanges`). `Copied` is the recursion of
`_snapshot_body_value`: for the objects that are active, those that can be copied inside
of them. The yardstick, `Buffered`, is about the graph and does not recurse: what is
reached from the body is text, a number or a container, and not reached from itself; as
`content`, only text will do. The policy is reduced to
what decides the next attempt: the class, the deadline, the attempts and the delay.
Randomness is a choice from the interval; times are whole units, halves rounded down.
A unit is at most half of `base_s`, so that nothing is rounded down to no delay at all.

### Telemetry and Worker

`Telemetry` has no state of its own: the hooks are operators on a record of the
context variable (`contexts`), the `_OtelState` objects it refers to (`states`), the
spans and the measured durations. A class, an operation name or a moment is recorded
as the execution that it comes from, which is what the properties ask about.

`Worker` has two contexts. The worker takes deliveries, and its operation may run an
execution of its own (`Nest`) or start a child task (`Spawn`), whose context is a
copy that refers to the same `_OtelState`. An execution makes up to `max_attempts` calls and decides
as it likes (`RetryLoop` says what is possible) but emits the events of the code in
the order of the code, with the attempt number that the hooks look at. That number is the
calls made: `RetryLoop` keeps its own and shows the two to agree where abort_if does not raise
(`AttemptsCountCalls`). `MakeNoAttempt` is the loop of `max_attempts=0`. `Finish` may open the
breaker on a failure and close it on a success; an abort is a cancellation, and tells nothing.
`Escape` is cancellation, process exit, or an error of a callback. The path without a retry
component is there with its outcomes; what it reports of an abort is `no_retry_abort`.

## Runs

| run | checks | shows |
| --- | --- | --- |
| `policy` | `PolicyTypeOK`, `NoStrandedProbe`, `RecoveryTimeoutRespected`, `ProbeSettles` | the probe belongs to an execution on its way to settle it, and is settled in the end; nobody is let in before the recovery timeout |
| `policy_interrupts` | `HalfOpenAdmitsOne`, `OnlyVotersCount`, `ProbeReleasedByOwner`, `ContractSpec` | interrupts between its steps cannot corrupt the breaker; the policies implement the contract |
| `policy_stranded` | `AdmissionReleased` | **violated**: see below |
| `circuit_window` | `NoTripMissed`, `TripsOnlyOnThreshold` | the breaker trips when and only when a window holds enough failures, up to the lag |
| `budget` | `TypeOK`, `RollingBudget`, `RefusesOnlyWhenSpent` | no more than `max_retries` in a window, no refusal without need, up to the wait |
| `retry_loop` | `TypeOK`, `EventTellsEnding`, `OnlyRetryableSoFar`, `AttemptsCountCalls`, `TokensCountRetries`, `HooksPaired`, `Terminates`, `StepsDescend`, `KeepsContract` | whatever the callbacks answer or raise, an execution ends, says truly how, and retries only what it may; attempts, tokens and hooks agree with the calls made; each step is nearer the end, and the loop implements `RetryContract` |
| `retry_abort_if` | `OutcomeCountsCalls` | **violated**: see below |
| `adaptive` | `TypeOK`, `SuccessEndsFailures`, `MultiplierOfWindow` | the factor is that of the recent past, up to the wait; successes are heard of only after failures of the same execution |
| `clients` | `TypeOK`, `SameBody`, `RefusesUnreplayable`, `SentOnceWhenSkipped`, `RefusalsNotRepeated`, `BusyNotFinal`, `HintHonoured`, `NoHotLoop` | httpx sends one body on every attempt, refuses the bodies it cannot repeat and no others, and obeys `skip_if`; refusals are not repeated, outages not given up; hints are waited for and do not turn the backoff off |
| `http_status_error` | `CarriedRefusalsFinal` | **violated**: see below |
| `worker` | `TypeOK`, `SpanOfItsOwn`, `IdleContextClean`, `EndedSpansSilent`, `RedeliveredOnlyIfScheduled`, `OneCallPerDelivery` | an execution in a fresh context has a span and a duration of its own; what leaves one behind, and what disturbs one that has ended, is exactly named; a task is queued again only if its execution was scheduled, and a delivery calls its operation once |
| `no_retry_abort` | `OutcomeCountsCalls` (of `Worker`) | **violated**: see below |

Bounds, and why they are enough.

* Three callers: a probe, an execution left from an earlier era, and one that is
  admitted next to them. Two failures open the breaker, windows and timeouts are
  two ticks, and the clock runs to three, which allows two trips. `generation` is
  bounded by the clock: a cycle takes a recovery timeout. Nothing in the code
  relates more than two admissions at once.
* `CircuitWindow`: one caller suffices, since `Direct` supplies the other
  failures. Window 2, lag 1, thresholds 3 (global) and 2 (class), five ticks, three
  transitions: entries can arrive in every order, expire, and expire late.
* `Budget`: three threads, costs 1 and 2, two tokens, window 3, wait 1, seven
  ticks, so that a token is forgotten and its place is taken twice.
* `RetryLoop`: every combination of `max_attempts` in {0, 1, 3}, a deadline passed
  at the first tick or later, a cap on the unknown class or none, a class cap of 0
  or 1, a strategy for all classes or for two, and a budget or none: 96 policies;
  a class of each kind that `_handle_failure` tells apart; three ticks. Each is run
  where all callbacks may raise, all but abort_if, and all but abort_if and the sleep.
* `AdaptiveStrategy`: two callers, window 2, wait 1, four outcomes, five ticks: an
  outcome enters behind a later one, is kept behind it, and expires late. A target of
  two thirds and factors from 1 to 3 give multipliers on both sides and between.
* `Clients`: bodies of up to three objects, which is enough for a container in two
  places, in itself, and in itself through another; every way to spell and override
  `skip_if`; for each classifier a failure of each row that could be mistaken; three
  attempts, base 2, maximum 3, deadline 4, and hints of 0, 1 and 6 that fall below
  the jitter, inside the deadline and after it. `http_status_error` is one request with
  the classifier and the exception of `docs/recipes/http.md`.
* `Worker`: three executions, which is a sequence, a nesting, a child task, and each
  of these followed by one more; no attempt, one or two; a task that Celery defers, one whose
  caller sleeps, and one without a retry component; both hooks, or either alone.
  `no_retry_abort` needs one execution of one task.

`CHECK_DEADLOCK FALSE` stands where the system really stops: an execution or
a request that is done, an empty queue, and the clocks of `Budget`, `CircuitWindow`
and `AdaptiveStrategy` at their bound. The policies
have no deadlock: a caller can always start another call or is on its way out of one.

Fairness. `Policy!FairSpec`: a call that has been made is carried on, weakly fair
per caller. The thread or task is scheduled, and the work ends, because the retry
loop does (`Terminates`) provided the operation returns. That it returns is assumed of whoever
wrote it: a deadline is looked at between attempts and stops nothing that runs. Nobody is obliged to make
a call, the clock is not obliged to tick, and nothing is assumed of interrupts.
`RetryLoop!FairSpec`: the loop takes its next step, which for the operation and the
sleeper means that they come back; no branch is favoured over another. The other
modules state no liveness: a worker may wait for ever, and a service may never answer.

### What the violated runs show

* `policy_stranded`. `check_breaker` calls `allow()`, and only on its next line is
  the decision in the context. A KeyboardInterrupt between them leaves `__exit__`
  nothing to cancel; if that was the recovery probe, the breaker rejects every
  call from then on. `docs/concepts/circuit-breakers.md` promises the release and
  names KeyboardInterrupt. Without interrupts between the steps, that is for interrupts
  that arrive in the work, in an observer or in a callback, `NoStrandedProbe` is proved.
* `retry_abort_if`. `execute()` asks abort_if before an attempt inside the `try` of
  that attempt. An abort_if that raises is classified and retried as if the
  operation had failed, and `outcome.attempts`, which `docs/troubleshooting.md` tells the
  reader to count calls by, is more than the calls.
* `http_status_error`. `docs/recipes/http.md` recommends `http_retry_after_classifier` for
  `httpx.HTTPStatusError`, whose status is in its response. `_coerce_status` does not look there:
  a 403 is UNKNOWN and is retried. In the same way a 429 is no RATE_LIMIT, and its
  Retry-After is not asked for.
* `no_retry_abort`. Without a retry component, an operation that raises AbortRetryError has
  been called, and the outcome reports `attempts=0`, as it does for an abort_if that prevents
  the call.

Three more disagreements that need no run, as the models say what the code does:

* A class threshold *adds* to the global one: the failure is counted in both windows
  (`Trips`). `docs/concepts/circuit-breakers.md` says that it overrides.
* `per_class_max_attempts` is compared with `>` (`OverClassCap`), so `limit + 1` attempts may fail
  with the class. `docs/usage.md` says that `limit=1` allows no retry;
  `docs/troubleshooting.md` and `tests/test_policy.py` agree with the code.
* `budget_exhausted` is not among the terminal events of the hooks (`TERMINAL_EVENTS`): the span
  of an execution that runs out of budget stays open, and the next execution of the context adds
  to it. `IdleContextClean` and `SpanOfItsOwn` leave this ending out.

## Proofs

All theorems hold for every value of the constants that satisfies the named
assumptions: any number of callers, any thresholds, windows and policies. The
bounds on the clock are constants too, so they restrict nothing.

`PolicyProofs`. The inductive invariant is `PolicyTypeOK /\ Fences /\ Custody` and,
for the recovery timeout, `Clocks`.

* `Fences` is why generations work: no admission is of a later generation than
  the breaker, none is current while it is open, and in a half-open breaker the
  only current admission not yet completed is the probe's, which exists. It needs
  no assumption on interrupts. `HalfOpenAdmitsOne`, `ProbeReleasedByOwner`,
  `OnlyVotersCount` and the refinement `ContractSpec` follow from it.
* `Custody` says who holds an admission at each place. With it and `Fences`,
  `NoStrandedProbe` is inductive if `~AsyncInterrupts`; the assumption is needed,
  as `policy_stranded` shows.
* `Clocks` (an open breaker knows since when; no reading is from the future) gives
  `RecoveryTimeoutRespected`: a reading older than the opening never looks late.

`BudgetProofs`. The inductive invariant is `TypeOK /\ Window /\ Bounds`. `Window` ties
the deque to the history: it is a run of the latest tokens, each dated at most
`MaxStall` early, and those that have been dropped are older than the window less
the stall. `RollingWindowProofs` supplies what `DropExpired` drops and keeps; it
holds for a deque in any order, which is the case that matters.

`RetryLoopProofs`. `TypeOK`, `EventTellsEnding` and `OnlyRetryableSoFar` are
unconditional; the second needs only itself and the types, the last also that the
unknown class is counted alike in both counters (`UnknownCounted`).
`AttemptsCountCalls` and `HooksPaired` rest on `Bookkeeping`, which needs that
abort_if does not raise; `TokensCountRetries` on `TokensDrawn`, which needs that a
sleep does not raise either, since then an attempt can draw two tokens. Three results need
no such assumption, and rest on `Rounds`, the relation of attempts, calls and places that
survives whatever is raised:

* `KeepsContractHolds`, the refinement. Each action is a step of `RetryContract` or a
  stutter: that a stop reason is true needs the counts of `FailuresCounted`
  (`DecisionsAreTrue`, `JudgeIsFair`), that a retry is planned only with an
  attempt, time and a token for it is `ScheduleIsPlanned`, and an exception of a callback is either a
  `Relapse`, a `Fail` or the end (`RaisesFail`, `EscapeStops`).
* `FrugalHolds`. It is proved of the contract (`ThriftOfContract`) and so holds for the loop:
  at most `max_attempts` calls, each but the first paid for with a token, and at most two
  tokens for each retry that could be made. The second token is that of an attempt which is judged
  twice; where nothing raises, `TokensCountRetries` is the sharper bound. The invariant is
  `Thrift`, which counts tokens by rounds and phases.
* `StepsDescendHolds`. `Rank` is a number below `16 * (max_attempts + 1)` that every step
  lowers but the passing of time: by the place, by whether an exception has been caught, and
  by the attempts left (`StepGoesDown`). It is all of `Terminates` that is not about
  fairness: no policy and no callback can keep the loop going round.

The assumptions are that the unknown class is one of the classes, that limits are natural
numbers or None, and that None is neither a number nor the word `exception`.

`AdaptiveProofs`. `WindowHolds`: the deque is the end of the history, each entry dated
at most `MaxStall` early, and what was dropped before it is old (`DatedTail`). It is
the argument of `BudgetProofs` with another history, and rests on the same lemmas
about `DropExpired`; an outcome that enters behind what it has outlived is why the
deque may have to be asked about entries in any order. `MultiplierOfWindow` follows.
`SuccessEndsFailures` needs `ChosenHeard`: whoever has selected the strategy has told
it of a failure since its last success. `MultiplierInRange` bounds the factor.

`CircuitWindowProofs`. `Buckets` is the invariant: while the breaker is closed each deque
is the end of its history (`DatedTail`, as above, with `MaxLag` for the wait) and shorter
than its threshold. That every bucket is below its threshold is what `_note_failure`
restores at once, by tripping; the histories are in order (`InOrder`), so a window of
real time holds their end. `NoTripMissed` follows by counting: what the window less the
lag holds is among the entries of the deque. `TripsOnlyOnThreshold` is the converse, for
the one step that trips: every entry of the deque that reached its threshold was
recorded within the window and the lag. `WindowAssumption` (`MaxLag < WindowS`) is used.

`WorkerProofs`. Two chains of invariants over the same steps.

* What becomes of executions. `Sound` holds the types, that stacks hold executions under way,
  each in one place (`UnderWay`), and that no span is started without a log hook
  (`Logged`). `Counted` relates the calls of an execution to its place, from
  which `OneCallPerDelivery` follows. `OnePlace` says that a task
  is in the queue, or in one execution that was not scheduled, or neither; with it
  `RedeliveredOnlyIfScheduled` is inductive. The steps of `Next` are first sorted by what
  they do (`Starts`, `Moves`, `Drops`, `Ends`), so that each invariant is shown for four
  kinds of step and not for each of eighteen actions.
* What is told of them. `Handled` is all that the hooks can make of an event, in five
  cases. `UnsharedApart` (where no child task shares a state, no two contexts have a state or
  a span in common, and none has a span that has ended) gives `EndedSpansSilent`. `Traced`
  (a state that is not blank was left by an execution that has been heard of and has not
  told its end) gives `IdleContextClean`. `SpanOfItsOwn` needs the most: what is unknown
  stays so until it is told (`UntoldUnknown`), and an execution that is alone has its context
  and its span to itself, and leaves them complete when it has told its end (`AloneKnown`).

The assumption is that None is no number, task or outcome.

`ClientsProofs`. The invariant is `Sound`, of five parts: `Typed` (what is known of a failure
while it is dealt with), `Kept` (where httpx has the original body), `Decided` (what has
been decided of a request by each place, and that nothing was sent before it was refused),
`Once` (a request that is skipped never enters the policy) and `Heeded` (a sleep ends no earlier than
the answer asks for). Three arguments beneath it:

* `NatInduct` is induction in terms of a set, from the well-foundedness of the numbers
  (`WFMin`), and `InsideOut` the same for the sets of active objects. With these, what a
  recursive function computes can be proved, provided that some function follows its
  recursion: `PowerRecursion` and `CopiedRecursion` show that, the second by the least
  fixed point.
* `CopiedIsBuffered` and `BufferedIsCopied`: the depth-first recursion over a path of
  active objects accepts exactly the graphs without a cycle or a foreign object.
  `RefusesUnreplayable` holds of bodies of any finite number of objects therefore, shared
  ones included. The assumptions are that objects are finitely many and that only
  containers have items.
* `DelaysHeed`: a delay is positive where none is asked for, for each strategy
  (`decorrelated_jitterIsBetween` and its siblings, `PowersGrow` for the 1.5 of
  `token_backoff`), and no less than what is asked for where it is heeded. `NoHotLoop`
  and `HintHonoured` follow.

Of the classifiers, `FirstApplies` and `FirstPasses` say what a table of rows decides, and two theorems
what the order of the rows is for, whatever else a failure is: `RedisRefusalsFirst` (a wrong
password is also a lost connection, by its base class, and is final) and `AwsCodesFirst`
(throttling comes with the status of a bad request, and is not final).

`RedisRefusalsNotRepeated` and `AwsOverloadNotFinal` carry these to the requests: with the
classifier made for the library, no refusal of redis is followed by another attempt, and no overload of
AWS ends a request as a refusal does. What they assume of a failure is how the library
tells it: that a refusal of redis is an authentication or authorization error (and is not a
`ReadOnlyError` too), and that AWS is overloaded by one of the codes for throttling, or is not reached;
and of a policy, that AUTH and PERMISSION are final, and only they and PERMANENT are. `ClassHeeded`
is the common invariant: what a failure means is still in agreement with its class when it is
decided about. An answer to an HTTP request has no final class (`AnswersPass`).

Only model-checked:

* `ProbeSettles` and `Terminates`: liveness under fairness is outside TLAPS. Of `Terminates`,
  what is left to TLC is that the loop can always take a step until it is done, and
  that it therefore does (`ENABLED` and fairness).
* `RefusalsNotRepeated` and `BusyNotFinal` for the other classifiers, over the failures of
  `MCClients` and what each of them means: for another table they may be false, as
  `http_status_error` shows, so there is nothing to prove for every value of `Failures`.

## Abstractions worth knowing

* The window properties hold up to the wait for the lock. The docstring of `Budget`
  ("rolling window") is exact only when nobody waits.
* A critical section of the breaker is one step. A KeyboardInterrupt inside of one, between
  two of the assignments of `circuit.py:98-99`, `161-165` or `177-181`, leaves the rest undone and
  is not modelled; an interrupt of the models comes before a section or after it.
* Time is integers; `window_s` of the code is a float, compared the same way.
* `max_attempts` is a natural number. The code accepts negative ones, and then
  behaves as for 0 but for the number in its event.
* A sync attempt that times out leaves its operation running in its thread, where it
  overlaps with the next attempt. In the model it has simply failed.
* In `RetryLoop` a delay that is computed does not bound the sleep: a sleeper may come
  back early or late, as time passes when it likes. In `Clients` it sleeps at least as
  long as it was told.
* `MultiplierOfWindow` is about a strategy that hears of outcomes. `retry_after_or`
  around an adaptive strategy, which `docs/usage.md` recommends, returns a plain
  function without `record_failure`, so the strategy inside hears nothing and its
  factor stays at the minimum.
* `SpanOfItsOwn` is about executions that begin in a clean context and do not nest.
  `IdleContextClean` says what makes a context unclean: an execution that ended with
  `budget_exhausted` (not a terminal event for the hooks), one that was interrupted,
  and one that was over before its first attempt, aborted or with `max_attempts=0`. `EndedSpansSilent` says that only a child
  task which shares its parent's state can write to a span that has ended.
* `HintHonoured` says that a retry is not too early. It does not say that one is not too late:
  `max_s` bounds the hint that the strategies of the providers heed, not the wait after jitter.
* `422` is a refusal to `default_classifier` and unknown to `http_classifier`. The repository
  does not say which is meant, and `MCClients` has no such failure among those of HTTP.
* Any int from 100 to 599 among the arguments passes for a status in `extras/http.py`, the
  errno of a refused connection too. Such a failure is UNKNOWN, which is neither a refusal that is
  repeated nor an outage that is final; `MCClients` has statuses only.
* A header is the number of seconds it stands for, and a message the SQLSTATE in it:
  the parsers are not modelled. A library that is not installed is not either.
* The SQLSTATEs that begin with 08 and 28 are listed, as SQL and PostgreSQL define them.
* Duck-typed breakers, which `_complete_breaker` also supports, are not modelled.

## Not modelled, and the plan

In the order in which it is worth doing:

1. A composition of policies, loops and one budget. The parts are there: a loop draws
   from the budget what `Frugal` allows, and `RollingBudget` bounds what all draw.
2. Attempts that outlive their timeout in a thread of their own.
3. The attempt hooks of the paths without a retry component.

Left out:

* `runner/timeline.py` and `policy/types.py` record what happened and decide nothing;
  a timeline appends the events that `RetryLoop` follows.
* `contrib/sentry.py`, `datadog.py`, `prometheus.py` and `metrics.py` translate one
  event into one call; `asgi.py` and `fastapi.py` pass one call to a policy.
* `policy/context.py`, `decorator.py`, `wrappers.py`, `container.py`, `config.py` bind
  arguments and delegate to the modelled calls.
* Of the clients: opening and closing, operation names, gRPC futures that are not
  done when the interceptor returns.
* `testing/` is for the tests of others; `cli.py` is a linter.
