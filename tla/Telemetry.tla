--------------------------------- MODULE Telemetry ---------------------------------
(***********************************************************************************)
(* otel_hooks: the spans and metrics that are made of the events of executions.    *)
(* The hooks keep an _OtelState in a context variable, so what they know belongs   *)
(* to the thread or task that runs, and not to the execution.  A class, an         *)
(* operation or a moment is recorded as the execution that it comes from.          *)
(***********************************************************************************)
EXTENDS Integers, Sequences

CONSTANTS
    Contexts,  \* the contexts that executions run in
    None       \* Python's None

TERMINAL_EVENTS ==
    { "success", "permanent_fail", "deadline_exceeded", "max_attempts_exceeded",
      "max_unknown_attempts_exceeded", "no_strategy_configured", "scheduled", "aborted" }

CIRCUIT_EVENTS == {"circuit_opened", "circuit_half_open", "circuit_closed", "circuit_rejected"}

\* _OtelState()
Blank == [span |-> None, started_at |-> None, last_class |-> None, operation |-> None]

\* What the hooks know and what they have reported: _state_var in every context, the
\* states that it refers to, the spans, and what redress.retry.duration has recorded.
NoTelemetry ==
    [contexts |-> [c \in Contexts |-> None], states |-> <<>>, spans |-> <<>>, durations |-> <<>>]

Id == Nat \cup {None}

State == [span : Id, started_at : Id, last_class : Id, operation : Id]

Span == [events : SUBSET [of : Nat, class : Id, operation : Id], ends : Nat, late : BOOLEAN]

TelemetryOK(o) ==
    /\ o \in [ contexts : [Contexts -> Id], states : Seq(State), spans : Seq(Span),
               durations : Seq([of : Nat, since : Nat]) ]
    /\ \A c \in Contexts : o.contexts[c] \in 1..Len(o.states) \cup {None}
    /\ \A s \in 1..Len(o.states) : o.states[s].span \in 1..Len(o.spans) \cup {None}

\* The state that the context has, if there is one.
Has(o, c) == o.contexts[c] # None

StateOf(o, c) == o.states[o.contexts[c]]

get_state(o, c) ==
    IF Has(o, c) THEN o
    ELSE [o EXCEPT !.states = Append(@, Blank), !.contexts[c] = Len(o.states) + 1]

Either(a, b) == IF a # None THEN a ELSE b

\* An event: [of, name, attempt, class, operation].
update_state(o, c, e) ==
    [o EXCEPT !.states[o.contexts[c]] =
        [ span |-> @.span,
          started_at |-> IF e.attempt > 0 THEN Either(@.started_at, e.of) ELSE @.started_at,
          last_class |-> Either(e.class, @.last_class),
          operation |-> Either(e.operation, @.operation) ]]

build_attributes(o, c, e) ==
    [ of |-> e.of,
      class |-> Either(e.class, StateOf(o, c).last_class),
      operation |-> Either(e.operation, StateOf(o, c).operation) ]

\* _state_var.set(None)
Reset(o, c) == [o EXCEPT !.contexts[c] = None]

Heard(o, c, e) == update_state(get_state(o, c), c, e)

\* Faulty: the state goes with the terminal event, whether or not there is a span.
Faultyon_metric(o, c, e) ==
    LET heard == Heard(o, c, e)
        started == StateOf(heard, c).started_at
        ends == e.name \in TERMINAL_EVENTS /\ e.attempt > 0 /\ started # None
        timed == [heard EXCEPT !.durations = Append(@, [of |-> e.of, since |-> started])]
    IN  IF e.name \in CIRCUIT_EVENTS THEN get_state(o, c)
        ELSE IF ends THEN Reset(timed, c)
        ELSE heard

on_metric(o, c, e) ==
    LET heard == Heard(o, c, e)
        started == StateOf(heard, c).started_at
        ends == e.name \in TERMINAL_EVENTS /\ e.attempt > 0 /\ started # None
        timed == [heard EXCEPT !.durations = Append(@, [of |-> e.of, since |-> started])]
    IN  IF e.name \in CIRCUIT_EVENTS THEN get_state(o, c)
        ELSE IF ends /\ StateOf(heard, c).span = None THEN Reset(timed, c)
        ELSE IF ends THEN timed
        ELSE heard

start_span(o, c) ==
    IF StateOf(o, c).span # None THEN o
    ELSE [o EXCEPT !.spans = Append(@, [events |-> {}, ends |-> 0, late |-> FALSE]),
                   !.states[o.contexts[c]].span = Len(o.spans) + 1]

add_event(o, c, e) ==
    [o EXCEPT !.spans[StateOf(o, c).span] =
        [events |-> @.events \cup {build_attributes(o, c, e)}, ends |-> @.ends, late |-> @.ends > 0]]

end_span(o, c) == [o EXCEPT !.spans[StateOf(o, c).span].ends = @ + 1]

\* Faulty: the context keeps the state of the span that has ended.
Faultyon_log(o, c, e) ==
    LET spoken == add_event(start_span(Heard(o, c, e), c), c, e)
    IN  IF e.name \in CIRCUIT_EVENTS \/ e.attempt <= 0 THEN o
        ELSE IF e.name \in TERMINAL_EVENTS THEN end_span(spoken, c)
        ELSE spoken

on_log(o, c, e) ==
    LET spoken == add_event(start_span(Heard(o, c, e), c), c, e)
    IN  IF e.name \in CIRCUIT_EVENTS \/ e.attempt <= 0 THEN o
        ELSE IF e.name \in TERMINAL_EVENTS THEN Reset(end_span(spoken, c), c)
        ELSE spoken

\* _RetryState.emit and _emit_breaker_event: the metric first, then the log.
emit(o, c, e, hooks) ==
    LET counted == IF "on_metric" \in hooks THEN on_metric(o, c, e) ELSE o
    IN  IF "on_log" \in hooks THEN on_log(counted, c, e) ELSE counted
====================================================================================
