----------------------------------- MODULE Clients ---------------------------------
(***********************************************************************************)
(* A request of a client that redress wraps, or an operation of another library    *)
(* that a policy calls: httpx, requests and aiohttp clients, gRPC interceptors, and *)
(* direct calls.  What the service answers, what the library raises and when the   *)
(* policy gives up for its limits (see RetryLoop) is open.  What is followed is the *)
(* body from attempt to attempt, the class that a failure is given, and the delay. *)
(***********************************************************************************)
EXTENDS Integers, Sequences, Classifiers, Backoff

CONSTANTS
    Objects,       \* the objects that a body is made of
    Requests,      \* the requests considered
    Failures,      \* what the libraries raise: [library, failure, meaning]
    NonRetryable,  \* PERMANENT, AUTH and PERMISSION
    BaseS,         \* base_s of the strategies
    MaxS,          \* max_s of the strategies
    Deadline,      \* deadline_s of the policies
    MaxAttempts,   \* max_attempts of the policies
    MaxTime        \* bound on the clock

Http == {"httpx", "requests", "aiohttp"}

Adapters == Http \cup {"grpc", "direct"}

\* The methods as they may be spelled, and as they are spelled in HTTP.
Upper == "GET" :> "GET" @@ "POST" :> "POST" @@ "post" :> "POST"

Kinds ==
    { "text",        \* text, bytes or None
      "number",      \* a number or a truth value
      "container",   \* a mapping, a list or a tuple
      "repeating",   \* a mapping that has a key twice
      "stream" }     \* an iterator, a file or any other object

\* What a body is made of.  Only containers have items that are looked at.
Heap ==
    { h \in [Objects -> [kind : Kinds, items : SUBSET Objects]] :
        \A o \in Objects : h[o].items # {} => h[o].kind = "container" }

Request ==
    [ adapter : Adapters,
      method : DOMAIN Upper,
      skip_default : SUBSET {"GET", "POST"} \cup {None},   \* the client's skip_if
      skip_if : SUBSET {"GET", "POST"} \cup {None},        \* the request's
      argument : {"content", "json"},                      \* what the body is passed as
      heap : Heap,
      body : Objects,
      library : STRING,
      classifier : Classifiers,
      strategy : {"decorrelated_jitter", "equal_jitter", "token_backoff"},
      hints : {"ignored", "honoured", "clamped"},  \* bare, retry_after_or, and aware of the provider
      jitter_s : Nat ]

Meanings ==
    { "refused",   \* it will not be granted, however often it is asked for
      "busy",      \* the service or the way there is not available for now
      "unclear" }

\* Python's None is no number, no set of methods, no meaning and no outcome.  Half of base_s is one
\* unit of time at least, so that no delay is rounded down to nothing.
ASSUME ClientsAssumption ==
    /\ IsFiniteSet(Objects)
    /\ None \notin Nat \cup Meanings /\ None # "unreplayable" /\ None # "NON_RETRYABLE_CLASS"
    /\ \A methods \in SUBSET {"GET", "POST"} : methods # None
    /\ \A r \in Requests : r \in Request
    /\ \A x \in Failures : x.failure \in Failure /\ x.meaning \in Meanings
    /\ BaseS \in Nat \ {0, 1} /\ MaxS \in Nat /\ BaseS <= MaxS
    /\ Deadline \in Nat /\ MaxAttempts \in Nat /\ MaxTime \in Nat

VARIABLES
    request,         \* the request
    pc,              \* where it is
    now,             \* the time since it began
    body,            \* what the caller's body says
    snapshot,        \* what the snapshot of it says
    handed,          \* what the client's copy says
    sent,            \* history: what each attempt sent
    classification,  \* the classification of the latest failure
    meaning,         \* history: what the latest failure meant
    failed_at,       \* history: when it happened
    prev_sleep,      \* state.prev_sleep
    wake_at,         \* until when the policy sleeps
    outcome          \* how it ended

content == <<body, snapshot, handed, sent>>
latest == <<classification, meaning, failed_at>>
delays == <<prev_sleep, wake_at>>
vars == <<request, pc, now, content, latest, delays, outcome>>

Says == {"original", "changed", "spent"}

Outcomes == {"bypassed", "unreplayable", "returned", "NON_RETRYABLE_CLASS", "limits"}

Places == {"called", "ready", "sent", "failed", "sleeping", "done"}

TypeOK ==
    /\ request \in Requests
    /\ pc \in Places
    /\ now \in 0..MaxTime
    /\ body \in Says /\ snapshot \in Says \cup {None} /\ handed \in Says \cup {None}
    /\ sent \in Seq(Says)
    /\ classification = None \/ classification.retry_after_s \in Nat \cup {None}
    /\ meaning \in Meanings \cup {None}
    /\ failed_at \in Nat \cup {None}
    /\ prev_sleep \in Nat \cup {None} /\ wake_at \in Nat \cup {None}
    /\ outcome \in Outcomes \cup {None}

Init ==
    /\ request \in Requests
    /\ pc = "called" /\ now = 0
    /\ body = "original" /\ snapshot = None /\ handed = None /\ sent = <<>>
    /\ classification = None /\ meaning = None /\ failed_at = None
    /\ prev_sleep = None /\ wake_at = None
    /\ outcome = None

\* Time passes while the service works and while the policy sleeps.
Tick ==
    /\ pc \in {"sent", "sleeping"} /\ now < MaxTime
    /\ now' = now + 1
    /\ UNCHANGED <<request, pc, content, latest, delays, outcome>>

End(how) == pc' = "done" /\ outcome' = how

-----------------------------------------------------------------------------------
(* Before the first attempt.                                                       *)

choose_option(default, override) == IF override = None THEN default ELSE override

\* Faulty: the method as it is spelled.
FaultySkipped ==
    LET named == choose_option(request.skip_default, request.skip_if)
    IN  named # None /\ request.method \in named

\* skip_if is asked about the method in upper case.
Skipped ==
    LET named == choose_option(request.skip_default, request.skip_if)
    IN  named # None /\ Upper[request.method] \in named

Kind(r, o) == r.heap[o].kind

Scalars == {"text", "number"}

\* Faulty: what was active is not removed, and the same object is refused in a second place.
FaultyCopied(r) ==
    LET C[active \in SUBSET Objects] ==
            { o \in Objects :
                \/ Kind(r, o) \in Scalars
                \/ /\ o \notin active
                   /\ Kind(r, o) = "container"
                   /\ \A i \in r.heap[o].items :
                        i \in C[active \cup {o} \cup (r.heap[o].items \ {i})] }
    IN  C

\* _snapshot_body_value: the objects that can be copied, inside of those that are active.
Copied(r) ==
    LET C[active \in SUBSET Objects] ==
            { o \in Objects :
                \/ Kind(r, o) \in Scalars
                \/ /\ o \notin active
                   /\ Kind(r, o) = "container"
                   /\ r.heap[o].items \subseteq C[active \cup {o}] }
    IN  C

\* _snapshot_body: whether the body can be copied.
Replayable(r) ==
    IF r.argument = "content" THEN Kind(r, r.body) = "text" ELSE r.body \in Copied(r)[{}]

Stream(r) == Kind(r, r.body) = "stream"

Mutable(r) == Kind(r, r.body) \notin Scalars

\* The caller's own body is sent, and a stream is read to its end.
SendOriginal ==
    /\ sent' = Append(sent, body)
    /\ body' = IF Stream(request) THEN "spent" ELSE body
    /\ UNCHANGED <<snapshot, handed>>

Bypass ==
    /\ pc = "called" /\ Skipped
    /\ SendOriginal
    /\ End("bypassed")
    /\ UNCHANGED <<request, now, latest, delays>>

Refuse ==
    /\ pc = "called" /\ ~Skipped
    /\ request.adapter = "httpx" /\ ~Replayable(request)
    /\ End("unreplayable")
    /\ UNCHANGED <<request, now, content, latest, delays>>

Enter ==
    /\ pc = "called" /\ ~Skipped
    /\ request.adapter = "httpx" => Replayable(request)
    /\ pc' = "ready"
    /\ snapshot' = IF request.adapter = "httpx" THEN body ELSE None
    /\ UNCHANGED <<request, now, body, handed, sent, latest, delays, outcome>>

-----------------------------------------------------------------------------------
(* An attempt.                                                                     *)

\* httpx sends a copy of the snapshot, the others what they were given.
Attempt ==
    /\ pc = "ready"
    /\ pc' = "sent"
    /\ IF request.adapter = "httpx"
       THEN handed' = snapshot /\ sent' = Append(sent, snapshot) /\ UNCHANGED <<body, snapshot>>
       ELSE SendOriginal
    /\ UNCHANGED <<request, now, latest, delays, outcome>>

\* Faulty: the client holds the snapshot itself.
FaultyClientChanges ==
    /\ pc = "sent" /\ Mutable(request)
    /\ IF request.adapter = "httpx"
       THEN snapshot' = "changed" /\ UNCHANGED <<body, handed>>
       ELSE body' = "changed" /\ UNCHANGED <<snapshot, handed>>
    /\ UNCHANGED <<request, pc, now, sent, latest, delays, outcome>>

\* "HTTPX may mutate multipart headers": a client changes what it holds.
ClientChanges ==
    /\ pc = "sent" /\ Mutable(request)
    /\ IF request.adapter = "httpx"
       THEN handed' = "changed" /\ UNCHANGED <<body, snapshot>>
       ELSE body' = "changed" /\ UNCHANGED <<snapshot, handed>>
    /\ UNCHANGED <<request, pc, now, sent, latest, delays, outcome>>

\* Another thread or task, or a callback of the policy, changes the caller's body.
CallerChanges ==
    /\ pc \notin {"called", "done"} /\ Mutable(request)
    /\ body' = "changed"
    /\ UNCHANGED <<request, pc, now, snapshot, handed, sent, latest, delays, outcome>>

Failed(what, meant) ==
    /\ pc' = "failed"
    /\ classification' = what /\ meaning' = meant /\ failed_at' = now
    /\ UNCHANGED <<request, now, content, delays, outcome>>

\* An answer, which result_classifier may judge.
Answer(status, retry_after) ==
    LET row == default_result_classifier(status)
        header == [retry_after |-> retry_after, resets |-> {}]
    IN  /\ pc = "sent"
        /\ IF request.adapter \in Http /\ row # None
           THEN Failed(Classification(row, header), "busy")
           ELSE End("returned") /\ UNCHANGED <<request, now, content, latest, delays>>

\* An exception of the library.
Raise(x) ==
    /\ pc = "sent" /\ x.library = request.library
    /\ Failed(Classify(request.classifier, x.failure), x.meaning)

-----------------------------------------------------------------------------------
(* The policy.                                                                     *)

Jittered ==
    LET attempt == Len(sent)
    IN  CASE request.strategy = "decorrelated_jitter" -> decorrelated_jitter(BaseS, MaxS, prev_sleep)
          [] request.strategy = "equal_jitter" -> equal_jitter(BaseS, MaxS, attempt)
          [] request.strategy = "token_backoff" -> token_backoff(BaseS, MaxS, attempt)

\* The hint that the strategy heeds.
Hint ==
    CASE request.hints = "ignored" -> None
      [] request.hints = "honoured" -> classification.retry_after_s
      [] request.hints = "clamped" -> clamp_retry_after(MaxS, classification.retry_after_s)

\* What the policy makes of a delay.
Delays(remaining) ==
    { Least(d, remaining) : d \in
        IF request.hints = "ignored" THEN Jittered
        ELSE retry_after_or(Jittered, request.jitter_s, Hint, remaining) }

\* The limits of the policy, its budget or its caller end it; a class may do so too.
GiveUp ==
    /\ pc = "failed"
    /\ End(IF classification.klass \in NonRetryable THEN "NON_RETRYABLE_CLASS" ELSE "limits")
    /\ UNCHANGED <<request, now, content, latest, delays>>

\* Faulty: the time that remains is not looked at.
FaultyRetry ==
    /\ pc = "failed" /\ classification.klass \notin NonRetryable
    /\ Len(sent) < MaxAttempts
    /\ \E d \in Delays(Deadline - now) : prev_sleep' = d /\ wake_at' = now + d
    /\ pc' = "sleeping"
    /\ UNCHANGED <<request, now, content, latest, outcome>>

Retry ==
    /\ pc = "failed" /\ classification.klass \notin NonRetryable
    /\ now < Deadline /\ Len(sent) < MaxAttempts
    /\ \E d \in Delays(Deadline - now) : prev_sleep' = d /\ wake_at' = now + d
    /\ pc' = "sleeping"
    /\ UNCHANGED <<request, now, content, latest, outcome>>

\* The sleeper sleeps as long as it is told, or longer.
Wake ==
    /\ pc = "sleeping" /\ now >= wake_at
    /\ IF now > Deadline THEN End("limits") ELSE pc' = "ready" /\ UNCHANGED outcome
    /\ UNCHANGED <<request, now, content, latest, delays>>

Next ==
    \/ Tick \/ Bypass \/ Refuse \/ Enter \/ Attempt \/ ClientChanges \/ CallerChanges
    \/ \E status \in {200, 404, 409, 429, 503}, retry_after \in {None, 0, 1, 6} :
          Answer(status, retry_after)
    \/ \E x \in Failures : Raise(x)
    \/ GiveUp \/ Retry \/ Wake

Spec == Init /\ [][Next]_vars

-----------------------------------------------------------------------------------
(* Properties.                                                                     *)

\* "Body values are snapshotted before entering the policy.  Each attempt receives a fresh
\* copy": whatever the caller and the client do to the bodies that they hold, every
\* attempt of httpx sends the body as it was when the request was made.
SameBody ==
    request.adapter = "httpx" => \A i \in 1..Len(sent) : sent[i] = "original"

\* What is reached from some objects by the items of containers.
Reached(heap, from) ==
    { o \in Objects : \A T \in SUBSET Objects :
        from \subseteq T /\ (\A t \in T : heap[t].items \subseteq T) => o \in T }

\* "Supported bodies are bytes/text content, buffered JSON/form containers": nothing but
\* text and containers, and no container inside itself.
Buffered(heap, o) ==
    \A x \in Reached(heap, {o}) :
        /\ heap[x].kind \in Scalars \cup {"container"}
        /\ x \notin Reached(heap, heap[x].items)

Supported(r) ==
    IF r.argument = "content" THEN Kind(r, r.body) = "text" ELSE Buffered(r.heap, r.body)

\* Of the requests that are not skipped, httpx refuses those whose bodies cannot be sent
\* twice, before anything is sent, and no others: a body that holds the same list in two
\* places is sent.
RefusesUnreplayable ==
    request.adapter = "httpx" /\ pc # "called" /\ outcome # "bypassed" =>
        /\ outcome = "unreplayable" <=> ~Supported(request)
        /\ outcome = "unreplayable" => sent = <<>>

\* "A true skip_if bypasses both validation and the policy, sending once": that holds for
\* a method however it is spelled, and the skip_if of a request replaces that of its client.
SentOnceWhenSkipped ==
    \A methods \in SUBSET {"GET", "POST"} :
        /\ Upper[request.method] \in methods
        /\ \/ request.skip_if = methods
           \/ request.skip_if = None /\ request.skip_default = methods
        => Len(sent) <= 1 /\ outcome # "unreplayable"

\* The classifier made for a library knows a refusal from an outage: what is refused is
\* not asked for again, even where the type of the refusal derives from that of a lost
\* connection, or its status is under another name.
RefusalsNotRepeated == pc = "sleeping" => meaning # "refused"

\* A service that is busy is not taken for one that refuses, even where its answer has
\* the status of a refusal.
BusyNotFinal == outcome = "NON_RETRYABLE_CLASS" => meaning # "busy"

\* "Use `http_retry_after_classifier` when your HTTP client raises exceptions that carry
\* status/headers (e.g., httpx `HTTPStatusError`)": a refusal that such an exception carries
\* is not asked for again.
CarriedRefusalsFinal ==
    request.classifier = "http_retry_after" /\ request.library = "httpx" => RefusalsNotRepeated

Earliest(h) ==
    LET due == failed_at + (IF request.hints = "clamped" THEN Least(MaxS, h) ELSE h)
    IN  Least(due, Deadline)

\* "Honor Classification.retry_after_s when present": the next attempt after an answer
\* that asks for a delay is not made before it is over, or the deadline has come, or, with
\* the strategies of the providers, max_s.
HintHonoured ==
    [][ Wake /\ pc' = "ready" /\ request.hints # "ignored"
        /\ classification.retry_after_s # None
        => now >= Earliest(classification.retry_after_s) ]_vars

\* An answer that asks for no delay at all does not turn the backoff off for the failures
\* that follow it: these are never repeated at once.
NoHotLoop ==
    [][ Retry /\ (classification.retry_after_s = None \/ request.hints = "ignored")
        => wake_at' > now ]_vars
====================================================================================
