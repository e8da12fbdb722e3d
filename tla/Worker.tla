----------------------------------- MODULE Worker ----------------------------------
(***********************************************************************************)
(* A worker that takes deliveries of tasks from a queue and runs each of them in   *)
(* one execution of a policy (execute_task_with_retry), with otel_hooks listening. *)
(* The operation may run an execution of its own, or start a child task that does: *)
(* its context is a copy of the worker's.  What an execution decides is open here, *)
(* see RetryLoop; what is followed is what others are told of it.                  *)
(***********************************************************************************)
EXTENDS Telemetry

CONSTANTS
    Tasks,         \* the tasks of the queue
    TaskPolicy,    \* the policy that each task is run with
    InnerPolicies, \* the policies that operations call
    Hooks,         \* the combinations of hooks considered
    MaxExecutions  \* bound on the executions

Policy ==
    [ retry : BOOLEAN,     \* whether the policy has a retry component
      breaker : BOOLEAN,   \* whether it has a circuit breaker
      max_attempts : Nat,  \* how many attempts the retry component makes at most
      named : BOOLEAN,     \* whether the operation has a name
      sleep : {"defer", "sleep"} ]   \* what the sleep handler says; "defer" is Celery's default

Ending == [stop_reason : {"ABORTED", "SCHEDULED", None}, attempts : Nat, ok : BOOLEAN]

ASSUME WorkerAssumption ==
    /\ Contexts = {"worker", "child"}
    /\ TaskPolicy \in [Tasks -> Policy] /\ InnerPolicies \subseteq Policy
    /\ Hooks \subseteq SUBSET {"on_metric", "on_log"}
    /\ MaxExecutions \in Nat
    /\ None \notin Nat /\ None \notin Tasks /\ None \notin Ending /\ None # "SCHEDULED"

VARIABLES
    hooks,       \* the hooks in use
    otel,        \* what they know, and what they have reported
    deliveries,  \* how often each task is in the queue
    executions,  \* the executions so far
    stack        \* the executions under way in each context, the innermost last

vars == <<hooks, otel, deliveries, executions, stack>>

Places == {"start", "head", "running", "failed", "sleeping", "done"}

Execution ==
    [ task : Tasks \cup {None},       \* the task it is for
      policy : Policy,
      pc : Places,
      calls : Nat,                    \* how often it has called the operation
      outcome : Ending \cup {None},
      alone : BOOLEAN,                \* history: it began in a fresh context, and began no other
      shared : BOOLEAN,               \* history: it began in a context that shares its state
      told : SUBSET {"aside", "attempt", "end"} ]   \* history: the events they have heard

TypeOK ==
    /\ hooks \in Hooks
    /\ TelemetryOK(otel)
    /\ deliveries \in [Tasks -> Nat]
    /\ executions \in Seq(Execution)
    /\ stack \in [Contexts -> Seq(1..Len(executions))]
    /\ \A c \in Contexts : \A i \in 1..Len(stack[c]) : executions[stack[c][i]].pc # "done"

Init ==
    /\ hooks \in Hooks
    /\ otel = NoTelemetry
    /\ deliveries = [j \in Tasks |-> 1]
    /\ executions = <<>>
    /\ stack = [c \in Contexts |-> <<>>]

Busy(c) == stack[c] # <<>>

Innermost(c) == stack[c][Len(stack[c])]

Current(c) == executions[Innermost(c)]

In(c, place) == Busy(c) /\ Current(c).pc = place

-----------------------------------------------------------------------------------
(* Executions begin.                                                               *)

\* Another context refers to the same state.
Shared(o, c) == Has(o, c) /\ \E d \in Contexts \ {c} : o.contexts[d] = o.contexts[c]

\* A context without anything of an execution.
Fresh(o, c) == ~Shared(o, c) /\ (Has(o, c) => StateOf(o, c) = Blank)

\* An execution in context c, whose telemetry is o; around are those that it is begun by.
\* Before the first attempt, a breaker or an abort_if without a retry component is asked.
Begin(c, o, task, policy, around) ==
    LET asked == policy.breaker \/ ~policy.retry
        new == [ task |-> task, policy |-> policy, pc |-> IF asked THEN "start" ELSE "head", calls |-> 0, outcome |-> None,
                 alone |-> Fresh(o, c), shared |-> Shared(o, c), told |-> {} ]
    IN  /\ Len(executions) < MaxExecutions
        /\ executions' =
              Append([e \in 1..Len(executions) |->
                        [executions[e] EXCEPT !.alone = @ /\ e \notin around]], new)
        /\ stack' = [stack EXCEPT ![c] = Append(@, Len(executions) + 1)]
        /\ otel' = o

\* execute_task_with_retry runs the task of a delivery.
Deliver(j) ==
    /\ ~Busy("worker") /\ deliveries[j] > 0
    /\ Begin("worker", otel, j, TaskPolicy[j], {})
    /\ deliveries' = [deliveries EXCEPT ![j] = @ - 1]
    /\ UNCHANGED hooks

\* The operation runs an execution of another policy, or of the same.
Nest(policy) ==
    /\ In("worker", "running") /\ Len(stack["worker"]) = 1
    /\ Begin("worker", otel, None, policy, {Innermost("worker")})
    /\ UNCHANGED <<hooks, deliveries>>

\* The operation starts a task that does; it may go on itself meanwhile.
Spawn(policy) ==
    /\ In("worker", "running") /\ ~Busy("child")
    /\ Begin("child", [otel EXCEPT !.contexts["child"] = otel.contexts["worker"]], None, policy,
             {Innermost("worker")})
    /\ UNCHANGED <<hooks, deliveries>>

-----------------------------------------------------------------------------------
(* What an execution tells others.                                                 *)

Event(e, name, attempt, class) ==
    [ of |-> e, name |-> name, attempt |-> attempt,
      class |-> IF class THEN e ELSE None,
      operation |-> IF executions[e].policy.named THEN e ELSE None ]

\* The telemetry once the execution under way in c has emitted an event.
Emitted(o, c, name, attempt, class) == emit(o, c, Event(Innermost(c), name, attempt, class), hooks)

\* What an event of the loop counts as for those who listen.
Told(name, attempt) ==
    IF attempt <= 0 THEN {"aside"} ELSE IF name \in TERMINAL_EVENTS THEN {"end"} ELSE {"attempt"}

Now(c, changed) == executions' = [executions EXCEPT ![Innermost(c)] = changed]

Idle == UNCHANGED <<hooks, deliveries, stack>>

Again(task) == [deliveries EXCEPT ![task] = @ + 1]

\* Faulty: what has failed for good is tried again as well.
FaultyAnswered(task, outcome) ==
    deliveries' \in {deliveries} \cup IF outcome.ok THEN {} ELSE {Again(task)}

\* execute_task_with_retry: a scheduled outcome calls task.retry(), which puts the task
\* into the queue, or raises when Celery has had enough; a value is returned, any other
\* failure raised.
Answered(task, outcome) ==
    deliveries' \in {deliveries} \cup IF outcome.stop_reason = "SCHEDULED" THEN {Again(task)} ELSE {}

\* Faulty: the execution stays where it was.
FaultyOver(c, changed, outcome) ==
    /\ Now(c, [changed EXCEPT !.pc = "done", !.outcome = outcome])
    /\ IF changed.task = None THEN UNCHANGED deliveries
       ELSE Answered(changed.task, outcome)
    /\ UNCHANGED <<hooks, stack>>

\* An outcome is returned to the operation around it, or is what a delivery is answered by.
Over(c, changed, outcome) ==
    /\ Now(c, [changed EXCEPT !.pc = "done", !.outcome = outcome])
    /\ stack' = [stack EXCEPT ![c] = SubSeq(@, 1, Len(@) - 1)]
    /\ IF changed.task = None THEN UNCHANGED deliveries
       ELSE Answered(changed.task, outcome)
    /\ UNCHANGED hooks

\* The breaker is told, and may tell of it, though never of an abort, which is recorded as a
\* cancellation; then the execution is over.
Finish(c, o, changed, outcome) ==
    /\ \/ otel' = o
       \/ /\ changed.policy.breaker
          /\ \/ outcome.ok /\ otel' = Emitted(o, c, "circuit_closed", 0, FALSE)
             \/ /\ ~outcome.ok /\ outcome.stop_reason # "ABORTED"
                /\ otel' = Emitted(o, c, "circuit_opened", 0, TRUE)
    /\ Over(c, changed, outcome)

Outcome(ok, reason, attempts) == [ok |-> ok, stop_reason |-> reason, attempts |-> attempts]

\* The loop ends with its terminal event, which has the attempts of the outcome.
Stop(c, name, class, outcome) ==
    Finish(c, Emitted(otel, c, name, outcome.attempts, class),
           [Current(c) EXCEPT !.told = @ \cup Told(name, outcome.attempts)], outcome)

-----------------------------------------------------------------------------------
(* Policy.execute, without a retry component and before the loop of one.           *)

\* abort_if, without a retry component: before the breaker is asked.
PreflightAbort(c) ==
    /\ In(c, "start") /\ ~Current(c).policy.retry
    /\ Over(c, Current(c), Outcome(FALSE, "ABORTED", 0))
    /\ UNCHANGED otel

\* The breaker refuses: an outcome with a CircuitOpenError.
Reject(c) ==
    /\ In(c, "start") /\ Current(c).policy.breaker
    /\ otel' = Emitted(otel, c, "circuit_rejected", 0, FALSE)
    /\ Over(c, Current(c), Outcome(FALSE, None, 0))

Enter(c) ==
    /\ In(c, "start")
    /\ \/ otel' = otel
       \/ Current(c).policy.breaker /\ otel' = Emitted(otel, c, "circuit_half_open", 0, FALSE)
    /\ Now(c, [Current(c) EXCEPT !.pc = "head"])
    /\ Idle

\* Another attempt may be made.
Allowed(x) == x.policy.retry => x.calls < x.policy.max_attempts

Call(c) ==
    /\ In(c, "head") /\ Allowed(Current(c))
    /\ Now(c, [Current(c) EXCEPT !.pc = "running", !.calls = @ + 1])
    /\ UNCHANGED otel /\ Idle

\* _execute_without_retry: the operation returns, raises, or raises AbortRetryError.
EndWithoutRetry(c) ==
    /\ In(c, "running") /\ ~Current(c).policy.retry
    /\ \E outcome \in { Outcome(TRUE, None, 1), Outcome(FALSE, None, 1), Outcome(FALSE, "ABORTED", 0) } :
          Finish(c, otel, Current(c), outcome)

-----------------------------------------------------------------------------------
(* The loop of a retry component.  Its attempts are the calls it has made, which is *)
(* what RetryLoop shows (AttemptsCountCalls) where abort_if does not raise.         *)

Looping(c, places) == Busy(c) /\ Current(c).policy.retry /\ Current(c).pc \in places

Succeed(c) ==
    /\ Looping(c, {"running"})
    /\ Stop(c, "success", FALSE, Outcome(TRUE, None, Current(c).calls))

\* abort_if says so, a sleep handler does, or the operation or a callback raises
\* AbortRetryError.
Abort(c) ==
    /\ Looping(c, {"head", "running", "failed", "sleeping"})
    /\ Current(c).pc = "head" => Allowed(Current(c))
    /\ Stop(c, "aborted", FALSE, Outcome(FALSE, "ABORTED", Current(c).calls))

\* The loop is not entered with max_attempts = 0.
MakeNoAttempt(c) ==
    /\ Looping(c, {"head"}) /\ ~Allowed(Current(c))
    /\ Stop(c, "max_attempts_exceeded", FALSE, Outcome(FALSE, None, Current(c).policy.max_attempts))

Fail(c) ==
    /\ Looping(c, {"running"})
    /\ Now(c, [Current(c) EXCEPT !.pc = "failed"])
    /\ UNCHANGED otel /\ Idle

\* A limit, or a class that is not retried, with the class of the failure.
GiveUp(c) ==
    /\ Looping(c, {"failed"})
    /\ \E name \in {"permanent_fail", "max_attempts_exceeded", "budget_exhausted"} :
          Stop(c, name, TRUE, Outcome(FALSE, None, Current(c).calls))

Retry(c) ==
    /\ Looping(c, {"failed"}) /\ Allowed(Current(c))
    /\ otel' = Emitted(otel, c, "retry", Current(c).calls, TRUE)
    /\ Now(c, [Current(c) EXCEPT !.pc = "sleeping", !.told = @ \cup {"attempt"}])
    /\ Idle

\* Faulty: the sleep handler is not asked.
FaultySleep(c) ==
    /\ Looping(c, {"sleeping"})
    /\ Now(c, [Current(c) EXCEPT !.pc = "head"])
    /\ UNCHANGED otel /\ Idle

Sleep(c) ==
    /\ Looping(c, {"sleeping"}) /\ Current(c).policy.sleep = "sleep"
    /\ Now(c, [Current(c) EXCEPT !.pc = "head"])
    /\ UNCHANGED otel /\ Idle

WakeLate(c) ==
    /\ Looping(c, {"sleeping"}) /\ Current(c).policy.sleep = "sleep"
    /\ Stop(c, "deadline_exceeded", TRUE, Outcome(FALSE, None, Current(c).calls))

Defer(c) ==
    /\ Looping(c, {"sleeping"}) /\ Current(c).policy.sleep = "defer"
    /\ Stop(c, "scheduled", TRUE, Outcome(FALSE, "SCHEDULED", Current(c).calls))

\* Cancellation, process exit, or an error of a callback: no outcome, and no event.
Escape(c) ==
    /\ Busy(c)
    /\ Now(c, [Current(c) EXCEPT !.pc = "done"])
    /\ stack' = [stack EXCEPT ![c] = SubSeq(@, 1, Len(@) - 1)]
    /\ UNCHANGED <<hooks, otel, deliveries>>

Next ==
    \/ \E j \in Tasks : Deliver(j)
    \/ \E policy \in InnerPolicies : Nest(policy) \/ Spawn(policy)
    \/ \E c \in Contexts :
          \/ PreflightAbort(c) \/ Reject(c) \/ Enter(c) \/ Call(c) \/ EndWithoutRetry(c)
          \/ Succeed(c) \/ Abort(c) \/ MakeNoAttempt(c) \/ Fail(c) \/ GiveUp(c) \/ Retry(c)
          \/ Sleep(c) \/ WakeLate(c) \/ Defer(c) \/ Escape(c)

Spec == Init /\ [][Next]_vars

-----------------------------------------------------------------------------------
(* Properties.                                                                     *)

Ids == 1..Len(executions)

Done(e) == executions[e].pc = "done"

SpansOf(e) == {s \in 1..Len(otel.spans) : \E a \in otel.spans[s].events : a.of = e}

\* The hooks have heard of e, but not of its end, though it is over.
Unheard(e) == Done(e) /\ executions[e].told # {} /\ "end" \notin executions[e].told

\* An execution that begins in a fresh context, whose operation neither runs nor starts
\* another one, and whose end is heard of, is told from the others: its events are in one
\* span, which has no others and no class or operation of another execution, and which
\* ends with its terminal event; and its duration is measured once, from an event of its
\* own.
SpanOfItsOwn ==
    \A e \in Ids : executions[e].alone /\ ~Unheard(e) =>
        /\ \A s, t \in SpansOf(e) : s = t
        /\ \A s \in SpansOf(e) :
              /\ \A a \in otel.spans[s].events :
                    a.of = e /\ a.class \in {e, None} /\ a.operation \in {e, None}
              /\ otel.spans[s].ends = IF "end" \in executions[e].told THEN 1 ELSE 0
        /\ LET measured == {d \in 1..Len(otel.durations) : otel.durations[d].of = e}
           IN  /\ \A d \in measured : otel.durations[d].since = e
               /\ \A d, b \in measured : d = b
               /\ "on_metric" \in hooks /\ "end" \in executions[e].told => measured # {}

NothingShared == \A e \in Ids : ~executions[e].shared

\* Where no child task shares the state of its parent, what is left behind in the context
\* of a worker that waits for a delivery is left by an execution that has been heard of,
\* but whose end has not: it ran out of budget, was interrupted, or was over before its
\* first attempt, aborted or with max_attempts = 0.
IdleContextClean ==
    /\ NothingShared
    /\ ~Busy("worker") /\ Has(otel, "worker")
    /\ \A e \in Ids : ~Unheard(e)
    => StateOf(otel, "worker") = Blank

\* Nothing is added to a span that has ended, nor is it ended again, for executions one
\* after the other and within each other, however they end: only a child task that shares
\* the state of its parent makes that happen.
EndedSpansSilent ==
    NothingShared => \A s \in 1..Len(otel.spans) : ~otel.spans[s].late /\ otel.spans[s].ends <= 1

\* "Scheduled outcomes call task.retry(...)", "terminal failures re-raise": a task is in the
\* queue once at most, and again only if every execution of it so far was scheduled: never
\* while one is under way, after one that has returned, failed for good or been aborted,
\* or after one that got out without an outcome.
RedeliveredOnlyIfScheduled ==
    \A j \in Tasks : deliveries[j] > 0 =>
        /\ deliveries[j] = 1
        /\ \A e \in Ids : executions[e].task = j =>
              executions[e].outcome # None /\ executions[e].outcome.stop_reason = "SCHEDULED"

\* "It routes task execution through policy.execute(...) with deferred sleeps": unless the
\* caller has a sleep handler of its own, no delivery calls the operation twice, whatever
\* max_attempts is.
OneCallPerDelivery ==
    \A e \in Ids :
        executions[e].task # None /\ executions[e].policy.sleep = "defer" =>
            executions[e].calls <= 1

\* "Use outcome.attempts or attempt hooks to count calls": an outcome counts the calls of
\* the operation, with a retry component or without.
OutcomeCountsCalls ==
    \A e \in Ids :
        executions[e].outcome # None => executions[e].outcome.attempts = executions[e].calls
====================================================================================
