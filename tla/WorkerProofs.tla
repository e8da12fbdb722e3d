-------------------------------- MODULE WorkerProofs -------------------------------
(***********************************************************************************)
(* Proofs about Worker, for any tasks, policies and number of executions.          *)
(***********************************************************************************)
EXTENDS Worker, SequenceTheorems, TLAPS

-----------------------------------------------------------------------------------
(* Invariants.                                                                     *)

\* The stacks hold executions that are under way, each in one place; these have no outcome
\* yet, and one that runs, or has failed, has called its operation.
UnderWay ==
    /\ \A c \in Contexts : \A i \in 1..Len(stack[c]) : ~Done(stack[c][i])
    /\ \A c, d \in Contexts : \A i \in 1..Len(stack[c]), j \in 1..Len(stack[d]) :
          stack[c][i] = stack[d][j] => c = d /\ i = j
    /\ \A e \in Ids :
          /\ ~Done(e) => executions[e].outcome = None
          /\ executions[e].pc \in {"running", "failed", "sleeping"} => executions[e].calls > 0

\* How often an execution has called its operation, by where it is.
CountsCalls(x) ==
    /\ x.pc = "start" => x.calls = 0
    /\ ~x.policy.retry =>
          /\ x.pc \in {"start", "head", "running", "done"}
          /\ x.pc = "head" => x.calls = 0
          /\ x.pc = "running" => x.calls = 1
    /\ x.policy.sleep = "defer" => x.calls <= 1 /\ (x.pc \in {"start", "head"} => x.calls = 0)

\* Every execution is in one of these.
Counted == \A e \in Ids : CountsCalls(executions[e])

\* An execution ended by a retry that is scheduled for later.
Scheduled(x) == x.outcome # None /\ x.outcome.stop_reason = "SCHEDULED"

\* A task is in the queue, or has one execution that was not scheduled, or neither.
OnePlace ==
    \A j \in Tasks :
        /\ deliveries[j] \in {0, 1}
        /\ \A e, f \in Ids :
              /\ executions[e].task = j /\ ~Scheduled(executions[e])
              /\ executions[f].task = j /\ ~Scheduled(executions[f])
              => e = f /\ deliveries[j] = 0

-----------------------------------------------------------------------------------
(* What a step does to the executions.                                             *)

\* What is never changed of an execution that is under way.
Like(x, y) == x.task = y.task /\ x.policy = y.policy /\ x.shared = y.shared /\ x.alone = y.alone

\* The execution under way in c goes on.
Moves(c, x) ==
    /\ Busy(c) /\ x \in Execution /\ Now(c, x) /\ Idle
    /\ Like(x, Current(c)) /\ x.outcome = Current(c).outcome
    /\ \/ /\ Current(c).pc = "start" \/ (Current(c).pc = "sleeping" /\ x.policy.sleep = "sleep")
          /\ x.pc = "head" /\ x.calls = Current(c).calls
       \/ Current(c).pc = "head" /\ x.pc = "running" /\ x.calls = Current(c).calls + 1
       \/ /\ Current(c).pc = "running" /\ x.pc = "failed" /\ x.policy.retry
          /\ x.calls = Current(c).calls
       \/ /\ Current(c).pc = "failed" /\ x.pc = "sleeping" /\ x.policy.retry
          /\ x.calls = Current(c).calls

\* It ends.
Leaves(c, x) ==
    /\ Busy(c) /\ x \in Execution /\ Now(c, x) /\ UNCHANGED hooks
    /\ stack' = [stack EXCEPT ![c] = SubSeq(@, 1, Len(@) - 1)]
    /\ Like(x, Current(c)) /\ x.pc = "done" /\ x.calls = Current(c).calls

\* Without an outcome.
Drops(c, x) == Leaves(c, x) /\ x.outcome = Current(c).outcome /\ UNCHANGED deliveries

\* With one, by which a delivery is answered.
Ends(c, x) ==
    /\ Leaves(c, x) /\ x.outcome \in Ending
    /\ IF x.task = None THEN UNCHANGED deliveries ELSE Answered(x.task, x.outcome)

\* An execution begins in c, for a task of the queue or for none.
Starts(c, o, task, policy, around) ==
    /\ Begin(c, o, task, policy, around) /\ UNCHANGED hooks
    /\ policy \in Policy /\ (Busy(c) => Innermost(c) \in around)
    /\ \/ task = None /\ UNCHANGED deliveries
       \/ /\ task \in Tasks /\ deliveries[task] > 0
          /\ deliveries' = [deliveries EXCEPT ![task] = @ - 1]

\* What the hooks are told of it: an event of the loop or none, then one of the breaker or
\* none.  Only what ends says so.
Speech(c, x) ==
    \E m :
        /\ \/ m = otel /\ x.told = Current(c).told
           \/ \E name : \E n \in Nat, class \in BOOLEAN :
                 /\ m = Emitted(otel, c, name, n, class)
                 /\ x.told = Current(c).told \cup Told(name, n)
                 /\ name \notin CIRCUIT_EVENTS /\ (name \in TERMINAL_EVENTS => x.pc = "done")
        /\ \/ otel' = m
           \/ \E name \in CIRCUIT_EVENTS, class \in BOOLEAN : otel' = Emitted(m, c, name, 0, class)

\* The innermost execution of a busy context is under way.
LEMMA CurrentUnderWay ==
    ASSUME TypeOK, UnderWay, NEW c \in Contexts, Busy(c)
    PROVE  /\ Len(stack[c]) \in Nat /\ Len(stack[c]) \in 1..Len(stack[c])
           /\ Innermost(c) = stack[c][Len(stack[c])]
           /\ Innermost(c) \in Ids /\ Current(c) \in Execution
           /\ ~Done(Innermost(c)) /\ Current(c).outcome = None
           /\ Current(c).pc \in {"running", "failed", "sleeping"} => Current(c).calls > 0
<1>1. stack[c] \in Seq(Ids) /\ stack[c] # <<>> /\ executions \in Seq(Execution)
  BY DEF TypeOK, Busy, Ids
<1>2. Len(stack[c]) \in Nat \ {0}
  BY <1>1, EmptySeq
<1>3. Len(stack[c]) \in 1..Len(stack[c]) /\ Innermost(c) \in Ids
  BY <1>1, <1>2, ElementOfSeq DEF Innermost
<1>4. Current(c) \in Execution
  BY <1>1, <1>3, ElementOfSeq DEF Current, Ids
<1>5. ~Done(Innermost(c))
  BY <1>3 DEF UnderWay, Innermost
<1> QED BY <1>2, <1>3, <1>4, <1>5 DEF UnderWay, Current, Innermost

\* The outcomes of the executions.
LEMMA OutcomeType ==
    ASSUME NEW ok \in BOOLEAN, NEW reason \in {"ABORTED", "SCHEDULED", None}, NEW n \in Nat
    PROVE  /\ Outcome(ok, reason, n) \in Ending
           /\ Outcome(ok, reason, n).attempts = n /\ Outcome(ok, reason, n).stop_reason = reason
BY DEF Outcome, Ending

\* An execution that is over with an outcome.
LEMMA OverEnds ==
    ASSUME TypeOK, UnderWay, NEW c \in Contexts, Busy(c),
           NEW x \in Execution, Like(x, Current(c)), x.calls = Current(c).calls,
           NEW outcome \in Ending,
           Over(c, x, outcome)
    PROVE  \E y : Ends(c, y) /\ y.told = x.told
<1> DEFINE y == [x EXCEPT !.pc = "done", !.outcome = outcome]
<1>1. /\ y \in Execution /\ y.pc = "done" /\ y.outcome = outcome /\ y.calls = x.calls
      /\ y.task = x.task /\ y.policy = x.policy /\ y.shared = x.shared /\ y.alone = x.alone
      /\ y.told = x.told
  BY DEF Execution, Places
<1>2. Leaves(c, y)
  BY <1>1 DEF Leaves, Over, Like
<1>3. IF y.task = None THEN UNCHANGED deliveries ELSE Answered(y.task, y.outcome)
  BY <1>1 DEF Over
<1>4. Ends(c, y)
  <2> HIDE DEF y
  <2> QED BY <1>1, <1>2, <1>3 DEF Ends
<1> QED BY <1>1, <1>4

\* The breaker is told when an execution ends.
LEMMA FinishEnds ==
    ASSUME TypeOK, UnderWay, NEW c \in Contexts, Busy(c),
           NEW x \in Execution, Like(x, Current(c)), x.calls = Current(c).calls,
           NEW outcome \in Ending,
           NEW m, Finish(c, m, x, outcome),
           \/ m = otel /\ x.told = Current(c).told
           \/ \E name : \E n \in Nat, class \in BOOLEAN :
                 /\ m = Emitted(otel, c, name, n, class)
                 /\ x.told = Current(c).told \cup Told(name, n)
                 /\ name \notin CIRCUIT_EVENTS
    PROVE  \E y : Ends(c, y) /\ Speech(c, y)
<1>1. PICK y : Ends(c, y) /\ y.told = x.told
  <2>1. Over(c, x, outcome)
    BY DEF Finish
  <2> QED BY <2>1, OverEnds
<1>2. y.pc = "done"
  BY <1>1 DEF Ends, Leaves
<1>3. \/ otel' = m
      \/ \E name \in CIRCUIT_EVENTS, class \in BOOLEAN : otel' = Emitted(m, c, name, 0, class)
  <2>1. "circuit_closed" \in CIRCUIT_EVENTS /\ "circuit_opened" \in CIRCUIT_EVENTS
    BY DEF CIRCUIT_EVENTS
  <2>2. CASE otel' = m
    BY <2>2
  <2>3. CASE otel' = Emitted(m, c, "circuit_closed", 0, FALSE)
    BY <2>1, <2>3
  <2>4. CASE otel' = Emitted(m, c, "circuit_opened", 0, TRUE)
    BY <2>1, <2>4
  <2> QED BY <2>2, <2>3, <2>4 DEF Finish
<1>4. Speech(c, y)
  BY <1>1, <1>2, <1>3 DEF Speech
<1> QED BY <1>1, <1>4

\* The terminal event of the loop leaves the execution as it is, but for what was told.
LEMMA StopEnds ==
    ASSUME TypeOK, UnderWay, NEW c \in Contexts, Busy(c), NEW name, NEW class \in BOOLEAN,
           name \notin CIRCUIT_EVENTS,
           NEW outcome \in Ending,
           Stop(c, name, class, outcome)
    PROVE  \E y : Ends(c, y) /\ Speech(c, y)
<1> DEFINE n == outcome.attempts
           told == Current(c).told \cup Told(name, n)
           x == [Current(c) EXCEPT !.told = told]
           m == Emitted(otel, c, name, n, class)
<1>1. Current(c) \in Execution /\ n \in Nat
  BY CurrentUnderWay DEF Ending
<1>2. told \in SUBSET {"aside", "attempt", "end"}
  BY <1>1 DEF Execution, Told
<1>3. x \in Execution /\ Like(x, Current(c)) /\ x.calls = Current(c).calls /\ x.told = told
  <2> HIDE DEF told
  <2> QED BY <1>1, <1>2 DEF Execution, Like
<1>4. Finish(c, m, x, outcome)
  BY <1>1 DEF Stop
<1> HIDE DEF x, m, n
<1>5. m = Emitted(otel, c, name, n, class) /\ x.told = Current(c).told \cup Told(name, n)
  BY <1>3 DEF m
<1>6. \E nm : \E i \in Nat, cl \in BOOLEAN :
         /\ m = Emitted(otel, c, nm, i, cl)
         /\ x.told = Current(c).told \cup Told(nm, i)
         /\ nm \notin CIRCUIT_EVENTS
  BY <1>1, <1>5
<1> QED BY <1>3, <1>4, <1>6, FinishEnds

\* A child task gets a copy of the context of its parent.
Inherited == [otel EXCEPT !.contexts["child"] = otel.contexts["worker"]]

\* What a step is for the executions and for what is known of them.
LEMMA NextSpeaks ==
    ASSUME TypeOK, UnderWay, Next
    PROVE  \/ \E task, policy, around :
                 Starts("worker", otel, task, policy, around) /\ "worker" \in Contexts
           \/ \E policy : /\ Starts("child", Inherited, None, policy, {Innermost("worker")})
                          /\ In("worker", "running") /\ ~Busy("child") /\ "child" \in Contexts
           \/ \E c \in Contexts : \E x : (Moves(c, x) \/ Drops(c, x) \/ Ends(c, x)) /\ Speech(c, x)
<1>0. TaskPolicy \in [Tasks -> Policy] /\ InnerPolicies \subseteq Policy
      /\ "worker" \in Contexts /\ "child" \in Contexts /\ None \notin Tasks /\ None \notin Ending
  BY WorkerAssumption
<1>1. ASSUME NEW j \in Tasks, Deliver(j)
      PROVE  \E task, policy, around : Starts("worker", otel, task, policy, around)
  <2>1. Starts("worker", otel, j, TaskPolicy[j], {})
    BY <1>0, <1>1 DEF Deliver, Starts
  <2> QED BY <2>1
<1>2. ASSUME NEW policy \in InnerPolicies, Nest(policy)
      PROVE  \E task, p, around : Starts("worker", otel, task, p, around)
  <2>1. Starts("worker", otel, None, policy, {Innermost("worker")})
    BY <1>0, <1>2 DEF Nest, Starts
  <2> QED BY <2>1
<1>3. ASSUME NEW policy \in InnerPolicies, Spawn(policy)
      PROVE  /\ Starts("child", Inherited, None, policy, {Innermost("worker")})
             /\ In("worker", "running") /\ ~Busy("child")
  BY <1>0, <1>3 DEF Spawn, Starts, Inherited
<1>4. ASSUME NEW c \in Contexts,
             \/ PreflightAbort(c) \/ Reject(c) \/ EndWithoutRetry(c)
             \/ Succeed(c) \/ Abort(c) \/ MakeNoAttempt(c)
             \/ GiveUp(c) \/ WakeLate(c) \/ Defer(c)
      PROVE  \E x : Ends(c, x) /\ Speech(c, x)
  <2>1. Busy(c)
    BY <1>4 DEF PreflightAbort, Reject, EndWithoutRetry, Succeed, Abort, MakeNoAttempt, GiveUp,
                WakeLate, Defer, In, Looping
  <2>2. Current(c) \in Execution /\ Current(c).calls \in Nat /\ Like(Current(c), Current(c))
    BY <2>1, CurrentUnderWay DEF Execution, Like
  <2>3. CASE PreflightAbort(c)
    <3>1. /\ Over(c, Current(c), Outcome(FALSE, "ABORTED", 0)) /\ Current(c).pc = "start"
          /\ otel' = otel
      BY <2>3 DEF PreflightAbort, In
    <3>2. Outcome(FALSE, "ABORTED", 0) \in Ending /\ Outcome(FALSE, "ABORTED", 0).attempts = 0
      BY OutcomeType
    <3>3. PICK y : Ends(c, y) /\ y.told = Current(c).told
      BY <2>1, <2>2, <3>1, <3>2, OverEnds
    <3>4. Speech(c, y)
      BY <3>1, <3>3 DEF Speech
    <3> QED BY <3>3, <3>4
  <2>4. CASE Reject(c)
    <3>1. /\ Over(c, Current(c), Outcome(FALSE, None, 0)) /\ Current(c).pc = "start"
          /\ otel' = Emitted(otel, c, "circuit_rejected", 0, FALSE)
      BY <2>4 DEF Reject, In
    <3>2. Outcome(FALSE, None, 0) \in Ending /\ Outcome(FALSE, None, 0).attempts = 0
      BY OutcomeType
    <3>3. PICK y : Ends(c, y) /\ y.told = Current(c).told
      BY <2>1, <2>2, <3>1, <3>2, OverEnds
    <3>4. "circuit_rejected" \in CIRCUIT_EVENTS
      BY DEF CIRCUIT_EVENTS
    <3>5. Speech(c, y)
      BY <3>1, <3>3, <3>4 DEF Speech
    <3> QED BY <3>3, <3>5
  <2>5. CASE EndWithoutRetry(c)
    <3>1. PICK outcome \in { Outcome(TRUE, None, 1), Outcome(FALSE, None, 1),
                             Outcome(FALSE, "ABORTED", 0) } : Finish(c, otel, Current(c), outcome)
      BY <2>5 DEF EndWithoutRetry
    <3>2. /\ Outcome(TRUE, None, 1) \in Ending /\ Outcome(FALSE, None, 1) \in Ending
          /\ Outcome(FALSE, "ABORTED", 0) \in Ending
      BY OutcomeType
    <3> QED BY <2>1, <2>2, <3>1, <3>2, FinishEnds
  <2>6. CASE \/ Succeed(c) \/ Abort(c) \/ MakeNoAttempt(c)
             \/ GiveUp(c) \/ WakeLate(c) \/ Defer(c)
    <3>0. {"success", "aborted", "permanent_fail", "max_attempts_exceeded", "budget_exhausted",
           "deadline_exceeded", "scheduled"} \cap CIRCUIT_EVENTS = {}
      BY DEF CIRCUIT_EVENTS
    <3>1. ASSUME NEW name, name \notin CIRCUIT_EVENTS, NEW class \in BOOLEAN, NEW ok \in BOOLEAN,
                 NEW reason \in {"ABORTED", "SCHEDULED", None}, NEW attempts \in Nat,
                 Stop(c, name, class, Outcome(ok, reason, attempts))
          PROVE  \E x : Ends(c, x) /\ Speech(c, x)
      <4>1. Outcome(ok, reason, attempts) \in Ending
        BY OutcomeType
      <4> QED BY <2>1, <3>1, <4>1, StopEnds
    <3>2. CASE Succeed(c)
      BY <2>2, <3>0, <3>1, <3>2 DEF Succeed
    <3>3. CASE Abort(c)
      BY <2>2, <3>0, <3>1, <3>3 DEF Abort
    <3>4. CASE GiveUp(c)
      BY <2>2, <3>0, <3>1, <3>4 DEF GiveUp
    <3>5. CASE WakeLate(c)
      BY <2>2, <3>0, <3>1, <3>5 DEF WakeLate
    <3>6. CASE Defer(c)
      BY <2>2, <3>0, <3>1, <3>6 DEF Defer
    <3>7. CASE MakeNoAttempt(c)
      <4>1. Current(c).policy.max_attempts \in Nat
        BY <2>2 DEF Execution, Policy
      <4> QED BY <3>0, <3>1, <3>7, <4>1 DEF MakeNoAttempt
    <3> QED BY <2>6, <3>2, <3>3, <3>4, <3>5, <3>6, <3>7
  <2> QED BY <1>4, <2>3, <2>4, <2>5, <2>6
<1>5. ASSUME NEW c \in Contexts,
             Enter(c) \/ Call(c) \/ Fail(c) \/ Retry(c) \/ Sleep(c)
      PROVE  \E x : Moves(c, x) /\ Speech(c, x)
  <2>1. Busy(c)
    BY <1>5 DEF Enter, Call, Fail, Retry, Sleep, In, Looping
  <2>2. Current(c) \in Execution /\ Current(c).calls \in Nat
    BY <2>1, CurrentUnderWay DEF Execution
  <2>3. CASE Enter(c)
    <3> DEFINE x == [Current(c) EXCEPT !.pc = "head"]
    <3>1. Moves(c, x) /\ x.told = Current(c).told
      BY <2>1, <2>2, <2>3 DEF Moves, Enter, In, Like, Execution, Places
    <3>2. otel' = otel \/ otel' = Emitted(otel, c, "circuit_half_open", 0, FALSE)
      BY <2>3 DEF Enter
    <3>3. "circuit_half_open" \in CIRCUIT_EVENTS
      BY DEF CIRCUIT_EVENTS
    <3> HIDE DEF x
    <3>4. Speech(c, x)
      BY <3>1, <3>2, <3>3 DEF Speech
    <3> QED BY <3>1, <3>4
  <2>4. CASE Call(c)
    <3> DEFINE n == Current(c).calls + 1
               x == [Current(c) EXCEPT !.pc = "running", !.calls = n]
    <3>1. Now(c, x) /\ Idle /\ Current(c).pc = "head" /\ otel' = otel
      BY <2>2, <2>4 DEF Call, In
    <3>2. /\ x \in Execution /\ Like(x, Current(c)) /\ x.outcome = Current(c).outcome
          /\ x.pc = "running" /\ x.calls = n /\ x.told = Current(c).told
      <4>1. n \in Nat
        BY <2>2
      <4> HIDE DEF n
      <4> QED BY <2>2, <4>1 DEF Execution, Places, Like
    <3> HIDE DEF x
    <3>3. Moves(c, x)
      BY <2>1, <3>1, <3>2 DEF Moves
    <3>4. Speech(c, x)
      BY <3>1, <3>2 DEF Speech
    <3> QED BY <3>3, <3>4
  <2>5. CASE Fail(c)
    <3> DEFINE x == [Current(c) EXCEPT !.pc = "failed"]
    <3>1. Moves(c, x) /\ x.told = Current(c).told /\ otel' = otel
      BY <2>1, <2>2, <2>5 DEF Moves, Fail, Looping, Like, Execution, Places
    <3> HIDE DEF x
    <3>2. Speech(c, x)
      BY <3>1 DEF Speech
    <3> QED BY <3>1, <3>2
  <2>6. CASE Retry(c)
    <3> DEFINE x == [Current(c) EXCEPT !.pc = "sleeping", !.told = Current(c).told \cup {"attempt"}]
    <3>1. Moves(c, x) /\ x.told = Current(c).told \cup {"attempt"}
      BY <2>1, <2>2, <2>6 DEF Moves, Retry, Looping, Like, Execution, Places
    <3>2. otel' = Emitted(otel, c, "retry", Current(c).calls, TRUE)
      BY <2>6 DEF Retry
    <3> HIDE DEF x
    <3>3. Current(c).pc = "failed"
      BY <2>6 DEF Retry, Looping
    <3>4. Told("retry", Current(c).calls) = {"attempt"}
      <4>1. Current(c).calls > 0
        BY <2>1, <3>3, CurrentUnderWay
      <4>2. "retry" \notin TERMINAL_EVENTS
        BY DEF TERMINAL_EVENTS
      <4> QED BY <2>2, <4>1, <4>2 DEF Told
    <3>5. "retry" \notin CIRCUIT_EVENTS /\ "retry" \notin TERMINAL_EVENTS
      BY DEF CIRCUIT_EVENTS, TERMINAL_EVENTS
    <3>6. \E name : \E n \in Nat, class \in BOOLEAN :
             /\ otel' = Emitted(otel, c, name, n, class)
             /\ x.told = Current(c).told \cup Told(name, n)
             /\ name \notin CIRCUIT_EVENTS /\ (name \in TERMINAL_EVENTS => x.pc = "done")
      <4>1. x.told = Current(c).told \cup Told("retry", Current(c).calls)
        BY <3>1, <3>4
      <4>2. Current(c).calls \in Nat /\ TRUE \in BOOLEAN
        BY <2>2
      <4> QED BY <3>2, <3>5, <4>1, <4>2
    <3>7. Speech(c, x)
      BY <3>6 DEF Speech
    <3> QED BY <3>1, <3>7
  <2>7. CASE Sleep(c)
    <3> DEFINE x == [Current(c) EXCEPT !.pc = "head"]
    <3>1. Moves(c, x) /\ x.told = Current(c).told /\ otel' = otel
      BY <2>1, <2>2, <2>7 DEF Moves, Sleep, Looping, Like, Execution, Places
    <3> HIDE DEF x
    <3>2. Speech(c, x)
      BY <3>1 DEF Speech
    <3> QED BY <3>1, <3>2
  <2> QED BY <1>5, <2>3, <2>4, <2>5, <2>6, <2>7
<1>6. ASSUME NEW c \in Contexts, Escape(c) PROVE \E x : Drops(c, x) /\ Speech(c, x)
  <2> DEFINE x == [Current(c) EXCEPT !.pc = "done"]
  <2>1. Current(c) \in Execution
    BY <1>6, CurrentUnderWay DEF Escape
  <2>2. Drops(c, x) /\ x.told = Current(c).told /\ otel' = otel
    BY <1>6, <2>1 DEF Drops, Leaves, Escape, Like, Execution, Places
  <2> HIDE DEF x
  <2>3. Speech(c, x)
    BY <2>2 DEF Speech
  <2> QED BY <2>2, <2>3
<1> QED BY <1>0, <1>1, <1>2, <1>3, <1>4, <1>5, <1>6 DEF Next

\* What a step is for the executions.
LEMMA NextCases ==
    ASSUME TypeOK, UnderWay, Next
    PROVE  \/ \E c \in Contexts : \E o, task, policy, around : Starts(c, o, task, policy, around)
           \/ \E c \in Contexts : \E x : Moves(c, x) \/ Drops(c, x) \/ Ends(c, x)
BY NextSpeaks

\* A step of the execution under way in c changes no other.
LEMMA OneChanges ==
    ASSUME TypeOK, UnderWay, NEW c \in Contexts, Busy(c), NEW x \in Execution, Now(c, x)
    PROVE  /\ executions' \in Seq(Execution) /\ Len(executions') = Len(executions)
           /\ executions'[Innermost(c)] = x
           /\ \A e \in Ids : e # Innermost(c) => executions'[e] = executions[e]
<1>1. Innermost(c) \in 1..Len(executions) /\ executions \in Seq(Execution)
  BY CurrentUnderWay DEF Ids, TypeOK
<1>2. executions' = [executions EXCEPT ![Innermost(c)] = x]
  BY DEF Now
<1> QED BY <1>1, <1>2, ExceptSeq DEF Ids

\* An execution as it was, alone only if it began no other.
Later(e, still) ==
    LET x == executions[e]
        y == executions'[e]
    IN  /\ y.task = x.task /\ y.policy = x.policy /\ y.pc = x.pc /\ y.calls = x.calls
        /\ y.outcome = x.outcome /\ y.shared = x.shared /\ y.told = x.told
        /\ y.alone <=> x.alone /\ still

\* An execution as it begins.
New(c, o, task, policy) ==
    [ task |-> task, policy |-> policy,
      pc |-> IF policy.breaker \/ ~policy.retry THEN "start" ELSE "head", calls |-> 0,
      outcome |-> None, alone |-> Fresh(o, c), shared |-> Shared(o, c), told |-> {} ]

\* An execution that begins is the last, and changes the others only in what is known of
\* them.
LEMMA OneMore ==
    ASSUME TypeOK, NEW c \in Contexts, NEW o, NEW task, NEW policy, NEW around,
           Starts(c, o, task, policy, around)
    PROVE  LET new == Len(executions) + 1
           IN  /\ executions' \in Seq(Execution) /\ Len(executions') = new
               /\ new \in Nat /\ new \notin Ids /\ Ids' = Ids \cup {new}
               /\ \A e \in Ids : Later(e, e \notin around)
               /\ executions'[new] = New(c, o, task, policy)
<1> DEFINE new == Len(executions) + 1
           old == [e \in 1..Len(executions) |->
                     [executions[e] EXCEPT !.alone = @ /\ e \notin around]]
           one == New(c, o, task, policy)
<1>1. executions \in Seq(Execution) /\ Len(executions) \in Nat
  BY LenProperties DEF TypeOK
<1>2. ASSUME NEW e \in 1..Len(executions)
      PROVE  /\ old[e] \in Execution
             /\ executions'[e] = old[e] => Later(e, e \notin around)
  <2> DEFINE b == executions[e].alone /\ e \notin around
  <2>1. executions[e] \in Execution
    BY <1>1, ElementOfSeq
  <2>2. old[e] = [executions[e] EXCEPT !.alone = b]
    OBVIOUS
  <2>3. b \in BOOLEAN
    OBVIOUS
  <2> HIDE DEF b, old
  <2>4. old[e] \in Execution
    BY <2>1, <2>2, <2>3 DEF Execution
  <2>5. /\ old[e].task = executions[e].task /\ old[e].policy = executions[e].policy
        /\ old[e].pc = executions[e].pc /\ old[e].calls = executions[e].calls
        /\ old[e].outcome = executions[e].outcome /\ old[e].shared = executions[e].shared
        /\ old[e].told = executions[e].told /\ old[e].alone = b
    BY <2>1, <2>2, <2>3 DEF Execution
  <2> QED BY <2>4, <2>5 DEF Later, b
<1>3. old \in Seq(Execution) /\ Len(old) = Len(executions)
  BY <1>1, <1>2, IsASeq
<1>4. one \in Execution
  <2>1. policy \in Policy /\ task \in Tasks \cup {None}
    BY DEF Starts
  <2>2. Fresh(o, c) \in BOOLEAN /\ Shared(o, c) \in BOOLEAN
    BY DEF Fresh, Shared
  <2> QED BY <2>1, <2>2 DEF New, Execution, Places
<1>5. executions' = Append(old, one)
  BY DEF Starts, Begin, New
<1> HIDE DEF old, one
<1>7. /\ executions' \in Seq(Execution) /\ Len(executions') = new
      /\ \A e \in 1..Len(executions) : executions'[e] = old[e]
      /\ executions'[new] = one
  BY <1>1, <1>3, <1>4, <1>5, AppendProperties
<1>6. \A e \in Ids : Later(e, e \notin around)
  BY <1>2, <1>7 DEF Ids
<1>8. new \in Nat /\ new \notin Ids /\ Ids' = Ids \cup {new}
  BY <1>1, <1>7 DEF Ids
<1> QED BY <1>6, <1>7, <1>8 DEF one

\* The stacks when an execution begins in c: it is the last of its stack.
LEMMA Pushed ==
    ASSUME TypeOK, NEW c \in Contexts, NEW o, NEW task, NEW policy, NEW around,
           Starts(c, o, task, policy, around)
    PROVE  /\ stack' \in [Contexts -> Seq(Ids')]
           /\ \A d \in Contexts : \A i \in 1..Len(stack'[d]) :
                 \/ i \in 1..Len(stack[d]) /\ stack'[d][i] = stack[d][i] /\ stack[d][i] \in Ids
                 \/ d = c /\ i = Len(stack[c]) + 1 /\ stack'[d][i] = Len(executions) + 1
<1> DEFINE new == Len(executions) + 1
<1>1. new \in Ids' /\ Ids \subseteq Ids'
  BY OneMore
<1>2. stack' = [stack EXCEPT ![c] = Append(stack[c], new)] /\ stack \in [Contexts -> Seq(Ids)]
  BY DEF Starts, Begin, TypeOK, Ids
<1> HIDE DEF new
<1>3. ASSUME NEW d \in Contexts
      PROVE  /\ stack[d] \in Seq(Ids') /\ Len(stack[d]) \in Nat
             /\ \A i \in 1..Len(stack[d]) : stack[d][i] \in Ids
  <2>1. stack[d] \in Seq(Ids)
    BY <1>2
  <2> QED BY <1>1, <2>1, SeqMonotonic, LenProperties, ElementOfSeq
<1>4. /\ Append(stack[c], new) \in Seq(Ids')
      /\ Len(Append(stack[c], new)) = Len(stack[c]) + 1
      /\ \A i \in 1..Len(stack[c]) : Append(stack[c], new)[i] = stack[c][i]
      /\ Append(stack[c], new)[Len(stack[c]) + 1] = new
  BY <1>1, <1>3, AppendProperties
<1>5. stack' \in [Contexts -> Seq(Ids')]
  BY <1>2, <1>3, <1>4
<1>6. ASSUME NEW d \in Contexts, NEW i \in 1..Len(stack'[d])
      PROVE  \/ i \in 1..Len(stack[d]) /\ stack'[d][i] = stack[d][i] /\ stack[d][i] \in Ids
             \/ d = c /\ i = Len(stack[c]) + 1 /\ stack'[d][i] = new
  <2>1. CASE d = c
    <3>1. stack'[d] = Append(stack[c], new)
      BY <1>2, <2>1
    <3>2. i \in 1..Len(stack[c]) \/ i = Len(stack[c]) + 1
      BY <1>3, <1>4, <3>1
    <3> QED BY <1>3, <1>4, <2>1, <3>1, <3>2
  <2>2. CASE d # c
    <3>1. stack'[d] = stack[d]
      BY <1>2, <2>2
    <3> QED BY <1>3, <3>1
  <2> QED BY <2>1, <2>2
<1> QED BY <1>5, <1>6 DEF new

\* The stacks when the execution under way in c ends: it is gone, and in no other place.
LEMMA Popped ==
    ASSUME TypeOK, UnderWay, NEW c \in Contexts, NEW x, Leaves(c, x)
    PROVE  /\ stack' \in [Contexts -> Seq(Ids')]
           /\ \A d \in Contexts : \A i \in 1..Len(stack'[d]) :
                 /\ i \in 1..Len(stack[d]) /\ stack'[d][i] = stack[d][i]
                 /\ stack[d][i] \in Ids /\ stack[d][i] # Innermost(c)
<1> DEFINE n == Len(stack[c])
           rest == SubSeq(stack[c], 1, n - 1)
<1>1. /\ Busy(c) /\ x \in Execution /\ Now(c, x) /\ stack' = [stack EXCEPT ![c] = rest]
      /\ stack \in [Contexts -> Seq(Ids)]
  BY DEF Leaves, TypeOK, Ids
<1>2. n \in Nat /\ n \in 1..n /\ Innermost(c) = stack[c][n]
  BY <1>1, CurrentUnderWay
<1>3. ASSUME NEW d \in Contexts
      PROVE  /\ stack[d] \in Seq(Ids) /\ Len(stack[d]) \in Nat
             /\ \A i \in 1..Len(stack[d]) : stack[d][i] \in Ids
  <2>1. stack[d] \in Seq(Ids)
    BY <1>1
  <2> QED BY <2>1, LenProperties, ElementOfSeq
<1>4. Ids' = Ids
  BY <1>1, OneChanges DEF Ids
<1> HIDE DEF n
<1>5. /\ rest \in Seq(Ids) /\ Len(rest) = n - 1
      /\ \A i \in 1..(n - 1) : rest[i] = stack[c][i] /\ i \in 1..n /\ i # n
  <2>1. \A i \in 1..(n - 1) : i \in 1..n /\ i # n /\ stack[c][i] \in Ids
    BY <1>2, <1>3 DEF n
  <2>2. rest \in Seq(Ids) /\ Len(rest) = n - 1
    BY <1>2, <2>1, SubSeqProperties
  <2>3. ASSUME NEW i \in 1..(n - 1) PROVE rest[i] = stack[c][i]
    <3>1. rest[i] = stack[c][1 + i - 1] /\ 1 + i - 1 = i
      BY <1>2, <2>1, SubSeqProperties
    <3> QED BY <3>1
  <2> QED BY <2>1, <2>2, <2>3
<1> HIDE DEF rest
<1>6. stack' \in [Contexts -> Seq(Ids')]
  BY <1>1, <1>4, <1>5
<1>7. ASSUME NEW d \in Contexts, NEW i \in 1..Len(stack'[d])
      PROVE  /\ i \in 1..Len(stack[d]) /\ stack'[d][i] = stack[d][i]
             /\ stack[d][i] \in Ids /\ stack[d][i] # Innermost(c)
  <2>1. CASE d = c
    <3>1. stack'[d] = rest /\ i \in 1..(n - 1)
      BY <1>1, <1>5, <2>1
    <3>2. stack[c][i] # stack[c][n]
      BY <1>2, <1>5, <3>1 DEF UnderWay, n
    <3> QED BY <1>2, <1>3, <1>5, <2>1, <3>1, <3>2 DEF n
  <2>2. CASE d # c
    <3>1. stack'[d] = stack[d] /\ i \in 1..Len(stack[d])
      BY <1>1, <2>2
    <3>2. stack[d][i] # stack[c][n]
      BY <1>2, <2>2, <3>1 DEF UnderWay, n
    <3> QED BY <1>2, <1>3, <3>1, <3>2
  <2> QED BY <2>1, <2>2
<1> QED BY <1>6, <1>7

\* A step keeps the type of everything but the telemetry.
LEMMA RestTyped ==
    ASSUME TypeOK, UnderWay, [Next]_vars
    PROVE  /\ hooks' \in Hooks /\ deliveries' \in [Tasks -> Nat]
           /\ executions' \in Seq(Execution) /\ stack' \in [Contexts -> Seq(Ids')]
<1>1. ASSUME NEW c \in Contexts, NEW o, NEW task, NEW policy, NEW around,
             Starts(c, o, task, policy, around)
      PROVE  /\ hooks' \in Hooks /\ deliveries' \in [Tasks -> Nat]
             /\ executions' \in Seq(Execution) /\ stack' \in [Contexts -> Seq(Ids')]
  <2>1. executions' \in Seq(Execution)
    BY <1>1, OneMore
  <2>2. deliveries' \in [Tasks -> Nat]
    <3>1. CASE UNCHANGED deliveries
      BY <3>1 DEF TypeOK
    <3>2. CASE task \in Tasks /\ deliveries[task] > 0
               /\ deliveries' = [deliveries EXCEPT ![task] = @ - 1]
      <4>1. deliveries[task] - 1 \in Nat
        BY <3>2 DEF TypeOK
      <4> QED BY <3>2, <4>1 DEF TypeOK
    <3> QED BY <1>1, <3>1, <3>2 DEF Starts
  <2> QED BY <1>1, <2>1, <2>2, Pushed DEF Starts, TypeOK
<1>2. ASSUME NEW c \in Contexts, NEW x, Moves(c, x)
      PROVE  /\ hooks' \in Hooks /\ deliveries' \in [Tasks -> Nat]
             /\ executions' \in Seq(Execution) /\ stack' \in [Contexts -> Seq(Ids')]
  BY <1>2, OneChanges DEF Moves, Idle, TypeOK, Ids
<1>3. ASSUME NEW c \in Contexts, NEW x, Drops(c, x) \/ Ends(c, x)
      PROVE  /\ hooks' \in Hooks /\ deliveries' \in [Tasks -> Nat]
             /\ executions' \in Seq(Execution) /\ stack' \in [Contexts -> Seq(Ids')]
  <2>1. Leaves(c, x)
    BY <1>3 DEF Drops, Ends
  <2>2. executions' \in Seq(Execution) /\ hooks' \in Hooks
    BY <2>1, OneChanges DEF Leaves, TypeOK
  <2>3. deliveries' \in [Tasks -> Nat]
    <3>1. CASE UNCHANGED deliveries
      BY <3>1 DEF TypeOK
    <3>2. CASE x.task # None /\ deliveries' = Again(x.task)
      <4>1. x.task \in Tasks
        BY <2>1, <3>2 DEF Leaves, Execution
      <4>2. deliveries[x.task] + 1 \in Nat
        BY <4>1 DEF TypeOK
      <4> QED BY <3>2, <4>1, <4>2 DEF Again, TypeOK
    <3> QED BY <1>3, <3>1, <3>2 DEF Drops, Ends, Answered
  <2> QED BY <2>1, <2>2, <2>3, Popped
<1>4. CASE UNCHANGED vars
  BY <1>4 DEF vars, TypeOK, Ids
<1> QED BY <1>1, <1>2, <1>3, <1>4, NextCases

\* A step keeps the stacks and the executions under way in line.
LEMMA UnderWayKept == TypeOK /\ UnderWay /\ [Next]_vars => UnderWay'
<1> SUFFICES ASSUME TypeOK, UnderWay, [Next]_vars PROVE UnderWay'
  OBVIOUS
<1>0. \A d \in Contexts : \A i \in 1..Len(stack[d]) : stack[d][i] \in Ids
  BY ElementOfSeq DEF TypeOK, Ids
<1>1. ASSUME NEW c \in Contexts, NEW o, NEW task, NEW policy, NEW around,
             Starts(c, o, task, policy, around)
      PROVE  UnderWay'
  <2> DEFINE new == Len(executions) + 1
  <2>1. /\ \A e \in Ids : /\ executions'[e].pc = executions[e].pc
                          /\ executions'[e].outcome = executions[e].outcome
                          /\ executions'[e].calls = executions[e].calls
        /\ executions'[new].pc \in {"start", "head"} /\ executions'[new].outcome = None
        /\ Ids' = Ids \cup {new} /\ new \notin Ids
    <3>1. \A e \in Ids : Later(e, e \notin around)
      BY <1>1, OneMore
    <3>2. executions'[new] = New(c, o, task, policy)
      BY <1>1, OneMore
    <3>3. executions'[new].pc \in {"start", "head"} /\ executions'[new].outcome = None
      BY <3>2 DEF New
    <3> QED BY <1>1, <3>1, <3>3, OneMore DEF Later
  <2>2. \A d \in Contexts : \A i \in 1..Len(stack'[d]) :
           \/ i \in 1..Len(stack[d]) /\ stack'[d][i] = stack[d][i] /\ stack[d][i] \in Ids
           \/ d = c /\ i = Len(stack[c]) + 1 /\ stack'[d][i] = new
    BY <1>1, Pushed
  <2> HIDE DEF new
  <2>3. \A d \in Contexts : \A i \in 1..Len(stack'[d]) : executions'[stack'[d][i]].pc # "done"
    BY <2>1, <2>2 DEF UnderWay, Done
  <2>4. \A d, b \in Contexts : \A i \in 1..Len(stack'[d]), j \in 1..Len(stack'[b]) :
           stack'[d][i] = stack'[b][j] => d = b /\ i = j
    BY <2>1, <2>2, SMTT(20) DEF UnderWay
  <2>5. \A e \in Ids' :
           /\ executions'[e].pc # "done" => executions'[e].outcome = None
           /\ executions'[e].pc \in {"running", "failed", "sleeping"} => executions'[e].calls > 0
    BY <2>1 DEF UnderWay, Done
  <2> QED BY <2>3, <2>4, <2>5 DEF UnderWay, Done
<1>2. ASSUME NEW c \in Contexts, NEW x, Moves(c, x)
      PROVE  UnderWay'
  <2>1. /\ Busy(c) /\ x \in Execution /\ Now(c, x) /\ stack' = stack
        /\ x.outcome = Current(c).outcome /\ x.pc # "done"
        /\ x.pc \in {"running", "failed", "sleeping"} => x.calls > 0
    <3>1. Busy(c)
      BY <1>2 DEF Moves
    <3>2. Current(c).calls \in Nat
      BY <3>1, CurrentUnderWay DEF Execution
    <3> QED BY <1>2, <3>1, <3>2, CurrentUnderWay DEF Moves, Idle
  <2>2. Current(c).outcome = None
    BY <2>1, CurrentUnderWay
  <2>3. /\ Ids' = Ids /\ executions'[Innermost(c)] = x
        /\ \A e \in Ids : e # Innermost(c) => executions'[e] = executions[e]
    BY <2>1, OneChanges DEF Ids
  <2> QED BY <1>0, <2>1, <2>2, <2>3, SMTT(20) DEF UnderWay, Done
<1>3. ASSUME NEW c \in Contexts, NEW x, Leaves(c, x)
      PROVE  UnderWay'
  <2>1. /\ Ids' = Ids /\ executions'[Innermost(c)] = x /\ x.pc = "done"
        /\ \A e \in Ids : e # Innermost(c) => executions'[e] = executions[e]
    BY <1>3, OneChanges DEF Ids, Leaves
  <2>2. \A d \in Contexts : \A i \in 1..Len(stack'[d]) :
           /\ i \in 1..Len(stack[d]) /\ stack'[d][i] = stack[d][i]
           /\ stack[d][i] \in Ids /\ stack[d][i] # Innermost(c)
    BY <1>3, Popped
  <2> QED BY <2>1, <2>2 DEF UnderWay, Done
<1>4. CASE UNCHANGED vars
  BY <1>4 DEF vars, UnderWay, Done, Ids
<1> QED BY <1>1, <1>2, <1>3, <1>4, NextCases DEF Drops, Ends

\* A step keeps the calls of every execution counted.
LEMMA CountedKept == TypeOK /\ UnderWay /\ Counted /\ [Next]_vars => Counted'
<1> SUFFICES ASSUME TypeOK, UnderWay, Counted, [Next]_vars PROVE Counted'
  OBVIOUS
<1>0. ASSUME NEW e \in Ids PROVE executions[e] \in Execution /\ CountsCalls(executions[e])
  BY ElementOfSeq DEF TypeOK, Ids, Counted
<1>1. ASSUME NEW c \in Contexts, NEW o, NEW task, NEW policy, NEW around,
             Starts(c, o, task, policy, around)
      PROVE  Counted'
  <2> DEFINE new == Len(executions) + 1
  <2>1. CountsCalls(executions'[new])
    <3>1. executions'[new] = New(c, o, task, policy) /\ policy \in Policy
      BY <1>1, OneMore DEF Starts
    <3>2. policy.retry \in BOOLEAN
      BY <3>1 DEF Policy
    <3> HIDE DEF new
    <3> QED BY <3>1, <3>2 DEF CountsCalls, New
  <2>2. ASSUME NEW e \in Ids PROVE CountsCalls(executions'[e])
    <3>1. Later(e, e \notin around)
      BY <1>1, OneMore
    <3> QED BY <1>0, <3>1 DEF Later, CountsCalls
  <2>3. Ids' = Ids \cup {new}
    BY <1>1, OneMore
  <2> QED BY <2>1, <2>2, <2>3 DEF Counted
<1>2. ASSUME NEW c \in Contexts, NEW x, Busy(c), x \in Execution, Now(c, x),
             CountsCalls(Current(c)) => CountsCalls(x)
      PROVE  Counted'
  <2>1. Innermost(c) \in Ids
    BY <1>2, CurrentUnderWay
  <2>2. CountsCalls(x)
    BY <1>0, <1>2, <2>1 DEF Current
  <2>3. /\ Ids' = Ids /\ executions'[Innermost(c)] = x
        /\ \A e \in Ids : e # Innermost(c) => executions'[e] = executions[e]
    BY <1>2, OneChanges DEF Ids
  <2> QED BY <1>0, <2>1, <2>2, <2>3 DEF Counted
<1>3. ASSUME NEW c \in Contexts, NEW x, Moves(c, x)
      PROVE  Counted'
  <2>1. /\ Busy(c) /\ x \in Execution /\ Now(c, x) /\ Like(x, Current(c))
        /\ Current(c).outcome = None /\ x.outcome = None /\ Current(c) \in Execution
    BY <1>3, CurrentUnderWay DEF Moves
  <2>2. Current(c).calls \in Nat /\ x.calls \in Nat
    BY <2>1 DEF Execution
  <2>3. CountsCalls(Current(c)) => CountsCalls(x)
    BY <1>3, <2>1, <2>2 DEF Moves, CountsCalls, Like
  <2> QED BY <1>2, <2>1, <2>3
<1>4. ASSUME NEW c \in Contexts, NEW x, Drops(c, x)
      PROVE  Counted'
  <2>1. /\ Busy(c) /\ x \in Execution /\ Now(c, x) /\ Like(x, Current(c))
        /\ x.outcome = None /\ x.pc = "done" /\ x.calls = Current(c).calls
    BY <1>4, CurrentUnderWay DEF Drops, Leaves
  <2>2. CountsCalls(Current(c)) => CountsCalls(x)
    BY <2>1 DEF CountsCalls, Like
  <2> QED BY <1>2, <2>1, <2>2
<1>5. ASSUME NEW c \in Contexts, NEW x, Ends(c, x)
      PROVE  Counted'
  <2>1. /\ Busy(c) /\ x \in Execution /\ Now(c, x) /\ Like(x, Current(c))
        /\ x.pc = "done" /\ x.calls = Current(c).calls
    BY <1>5 DEF Ends, Leaves
  <2>2. CountsCalls(Current(c)) => CountsCalls(x)
    BY <1>5, <2>1 DEF Ends, CountsCalls, Like
  <2> QED BY <1>2, <2>1, <2>2
<1>6. CASE UNCHANGED vars
  BY <1>6 DEF vars, Counted, Ids
<1> QED BY <1>1, <1>3, <1>4, <1>5, <1>6, NextCases

\* A step keeps every task in one place.
LEMMA OnePlaceKept == TypeOK /\ UnderWay /\ OnePlace /\ [Next]_vars => OnePlace'
<1> SUFFICES ASSUME TypeOK, UnderWay, OnePlace, [Next]_vars PROVE OnePlace'
  OBVIOUS
<1>0. None \notin Tasks /\ deliveries \in [Tasks -> Nat]
  BY WorkerAssumption DEF TypeOK
<1>1. ASSUME NEW c \in Contexts, NEW o, NEW task, NEW policy, NEW around,
             Starts(c, o, task, policy, around)
      PROVE  OnePlace'
  <2> DEFINE new == Len(executions) + 1
  <2>1. /\ \A e \in Ids : /\ executions'[e].task = executions[e].task
                          /\ Scheduled(executions'[e]) <=> Scheduled(executions[e])
        /\ executions'[new].task = task /\ Ids' = Ids \cup {new} /\ new \notin Ids
    <3>1. \A e \in Ids : Later(e, e \notin around)
      BY <1>1, OneMore
    <3>2. executions'[new] = New(c, o, task, policy)
      BY <1>1, OneMore
    <3>3. executions'[new].task = task
      BY <3>2 DEF New
    <3> QED BY <1>1, <3>1, <3>3, OneMore DEF Later, Scheduled
  <2> HIDE DEF new
  <2>2. ASSUME NEW j \in Tasks
        PROVE  /\ deliveries'[j] = IF j = task THEN 0 ELSE deliveries[j]
               /\ j = task => deliveries[j] = 1
    <3>1. deliveries[j] \in {0, 1}
      BY DEF OnePlace
    <3> QED BY <1>0, <1>1, <3>1 DEF Starts
  <2> QED BY <2>1, <2>2 DEF OnePlace
<1>2. ASSUME NEW c \in Contexts, NEW x, Moves(c, x) \/ Drops(c, x)
      PROVE  OnePlace'
  <2>1. /\ Busy(c) /\ x \in Execution /\ Now(c, x) /\ deliveries' = deliveries
        /\ x.task = Current(c).task /\ x.outcome = Current(c).outcome
    BY <1>2 DEF Moves, Drops, Leaves, Idle, Like
  <2>2. /\ Ids' = Ids /\ executions'[Innermost(c)] = x
        /\ \A e \in Ids : e # Innermost(c) => executions'[e] = executions[e]
    BY <2>1, OneChanges DEF Ids
  <2>3. \A e \in Ids : /\ executions'[e].task = executions[e].task
                       /\ Scheduled(executions'[e]) <=> Scheduled(executions[e])
    BY <2>1, <2>2 DEF Current, Scheduled
  <2> QED BY <2>1, <2>2, <2>3 DEF OnePlace
<1>3. ASSUME NEW c \in Contexts, NEW x, Ends(c, x)
      PROVE  OnePlace'
  <2>1. /\ Busy(c) /\ x \in Execution /\ Now(c, x) /\ x.task = Current(c).task
        /\ x.outcome \in Ending /\ x.outcome # None
    BY <1>3, WorkerAssumption DEF Ends, Leaves, Like
  <2>2. /\ Ids' = Ids /\ executions'[Innermost(c)] = x
        /\ \A e \in Ids : e # Innermost(c) => executions'[e] = executions[e]
    BY <2>1, OneChanges DEF Ids
  <2>3. Innermost(c) \in Ids /\ ~Scheduled(executions[Innermost(c)])
    BY <2>1, CurrentUnderWay DEF Scheduled, Current
  <2>4. /\ \A e \in Ids : executions'[e].task = executions[e].task
        /\ \A e \in Ids : ~Scheduled(executions'[e]) => ~Scheduled(executions[e])
    BY <2>1, <2>2, <2>3 DEF Current, Scheduled
  <2>5. ASSUME NEW j \in Tasks
        PROVE  \/ deliveries'[j] = deliveries[j]
               \/ /\ deliveries'[j] = 1 /\ j = executions[Innermost(c)].task
                  /\ Scheduled(executions'[Innermost(c)])
    <3>1. CASE UNCHANGED deliveries
      BY <3>1
    <3>2. CASE /\ x.task # None /\ x.outcome.stop_reason = "SCHEDULED"
               /\ deliveries' = Again(x.task)
      <4>1. Scheduled(executions'[Innermost(c)])
        BY <2>1, <2>2, <3>2 DEF Scheduled
      <4>2. CASE j = x.task
        <5>1. deliveries[j] = 0
          BY <2>1, <2>3, <4>2 DEF OnePlace, Current
        <5>2. deliveries'[j] = 1
          BY <1>0, <3>2, <4>2, <5>1 DEF Again
        <5> QED BY <2>1, <4>1, <4>2, <5>2 DEF Current
      <4>3. CASE j # x.task
        BY <1>0, <3>2, <4>3 DEF Again
      <4> QED BY <4>2, <4>3
    <3> QED BY <1>3, <2>1, <3>1, <3>2 DEF Ends, Answered
  <2>6. ASSUME NEW j \in Tasks, NEW e \in Ids, NEW f \in Ids,
               executions'[e].task = j, ~Scheduled(executions'[e]),
               executions'[f].task = j, ~Scheduled(executions'[f])
        PROVE  e = f /\ deliveries'[j] = 0
    <3>1. e = f /\ deliveries[j] = 0
      BY <2>4, <2>6 DEF OnePlace
    <3>2. j # executions[Innermost(c)].task \/ ~Scheduled(executions'[Innermost(c)])
      BY <2>3, <2>4, <2>6 DEF OnePlace
    <3> QED BY <2>5, <3>1, <3>2
  <2>7. \A j \in Tasks : deliveries'[j] \in {0, 1}
    BY <2>5 DEF OnePlace
  <2> QED BY <2>2, <2>6, <2>7 DEF OnePlace
<1>4. CASE UNCHANGED vars
  BY <1>4 DEF vars, OnePlace, Ids
<1> QED BY <1>1, <1>2, <1>3, <1>4, NextCases

-----------------------------------------------------------------------------------
(* What the hooks do with an event.                                                *)

\* An event of an execution; those of the breaker come with attempt 0.
EventOK(e) ==
    /\ e.of \in Nat /\ e.attempt \in Nat /\ e.class \in Id /\ e.operation \in Id
    /\ e.name \in CIRCUIT_EVENTS => e.attempt = 0

\* The state of a context when an event comes: a new one if it has none.
Before(o, c) == IF Has(o, c) THEN StateOf(o, c) ELSE Blank

\* What is done in context c leaves the other contexts and their states alone.
Frame(o, n, c) ==
    /\ TelemetryOK(n)
    /\ \A d \in Contexts : d # c => n.contexts[d] = o.contexts[d]
    /\ n.contexts[c] \in {None, o.contexts[c]} \/ n.contexts[c] > Len(o.states)
    /\ Len(n.states) >= Len(o.states)
    /\ Len(n.spans) >= Len(o.spans)
    /\ \A s \in 1..Len(o.states) :
          /\ s # o.contexts[c] => n.states[s] = o.states[s]
          /\ n.states[s].span \in 1..Len(o.spans) => n.states[s].span = o.states[s].span

\* What frames c is done in one step or in two.
LEMMA FrameTransitive ==
    ASSUME NEW o, NEW m, NEW n, NEW c \in Contexts, TelemetryOK(o), Frame(o, m, c), Frame(m, n, c)
    PROVE  Frame(o, n, c)
<1>1. /\ Len(o.states) \in Nat /\ Len(m.states) \in Nat /\ Len(n.states) \in Nat
      /\ o.contexts[c] \in Nat \cup {None} /\ m.contexts[c] \in Nat \cup {None}
      /\ n.contexts[c] \in Nat \cup {None} /\ None \notin Nat
  BY WorkerAssumption, LenProperties DEF Frame, TelemetryOK, Id
<1>2. TelemetryOK(n) /\ \A d \in Contexts : d # c => n.contexts[d] = o.contexts[d]
  BY DEF Frame
<1>3. n.contexts[c] \in {None, o.contexts[c]} \/ n.contexts[c] > Len(o.states)
  BY <1>1 DEF Frame
<1>4. Len(n.states) >= Len(o.states)
  BY <1>1 DEF Frame
<1>5. ASSUME NEW s \in 1..Len(o.states), s # o.contexts[c] PROVE n.states[s] = o.states[s]
  <2>1. s \in 1..Len(m.states) /\ m.states[s] = o.states[s]
    BY <1>1, <1>5 DEF Frame
  <2>2. s # m.contexts[c]
    BY <1>1, <1>5 DEF Frame
  <2> QED BY <2>1, <2>2 DEF Frame
<1>6. Len(o.spans) \in Nat /\ Len(m.spans) \in Nat /\ Len(n.spans) \in Nat
  BY LenProperties DEF Frame, TelemetryOK
<1>7. Len(n.spans) >= Len(o.spans)
  BY <1>6 DEF Frame
<1>8. ASSUME NEW s \in 1..Len(o.states), n.states[s].span \in 1..Len(o.spans)
      PROVE  n.states[s].span = o.states[s].span
  <2>1. s \in 1..Len(m.states) /\ n.states[s].span \in 1..Len(m.spans)
    BY <1>1, <1>6, <1>8, SMTT(20) DEF Frame
  <2>2. n.states[s].span = m.states[s].span
    BY <2>1 DEF Frame
  <2> QED BY <1>8, <2>2 DEF Frame
<1> QED BY <1>2, <1>3, <1>4, <1>5, <1>7, <1>8 DEF Frame

\* Telemetry whose parts have the types of its parts.
LEMMA FromParts ==
    ASSUME NEW n, n = [contexts |-> n.contexts, states |-> n.states, spans |-> n.spans,
                       durations |-> n.durations],
           n.contexts \in [Contexts -> Id], n.states \in Seq(State), n.spans \in Seq(Span),
           n.durations \in Seq([of : Nat, since : Nat]),
           \A c \in Contexts : n.contexts[c] \in 1..Len(n.states) \cup {None},
           \A s \in 1..Len(n.states) : n.states[s].span \in 1..Len(n.spans) \cup {None}
    PROVE  TelemetryOK(n)
BY DEF TelemetryOK

\* A context has a state once it is asked for.
LEMMA GetState ==
    ASSUME NEW o, NEW c \in Contexts, TelemetryOK(o)
    PROVE  LET n == get_state(o, c)
           IN  /\ Frame(o, n, c) /\ Has(n, c) /\ n.spans = o.spans /\ n.durations = o.durations
               /\ StateOf(n, c) = Before(o, c)
<1> DEFINE n == get_state(o, c)
           more == Append(o.states, Blank)
<1>0. None \notin Nat /\ Len(o.states) \in Nat
  BY WorkerAssumption, LenProperties DEF TelemetryOK
<1>1. CASE Has(o, c)
  BY <1>0, <1>1 DEF get_state, Frame, Before
<1>2. CASE ~Has(o, c)
  <2>1. Blank \in State /\ Blank.span = None
    BY DEF Blank, State, Id
  <2>2. /\ more \in Seq(State) /\ Len(more) = Len(o.states) + 1
        /\ \A s \in 1..Len(o.states) : more[s] = o.states[s]
        /\ more[Len(o.states) + 1] = Blank
    BY <2>1, AppendProperties DEF TelemetryOK
  <2>3. /\ n.states = more /\ n.spans = o.spans /\ n.durations = o.durations
        /\ n.contexts = [o.contexts EXCEPT ![c] = Len(o.states) + 1]
        /\ n = [ contexts |-> n.contexts, states |-> n.states, spans |-> n.spans,
                 durations |-> n.durations ]
    BY <1>2 DEF get_state, TelemetryOK
  <2>4. /\ o.contexts \in [Contexts -> Id] /\ o.spans \in Seq(Span)
        /\ o.durations \in Seq([of : Nat, since : Nat])
        /\ \A d \in Contexts : o.contexts[d] \in 1..Len(o.states) \cup {None}
        /\ \A s \in 1..Len(o.states) : o.states[s].span \in 1..Len(o.spans) \cup {None}
    BY DEF TelemetryOK
  <2> HIDE DEF n, more
  <2>5. /\ n.contexts \in [Contexts -> Id] /\ n.contexts[c] = Len(o.states) + 1
        /\ \A d \in Contexts : d # c => n.contexts[d] = o.contexts[d]
    BY <1>0, <2>3, <2>4 DEF Id
  <2>6. ASSUME NEW d \in Contexts PROVE n.contexts[d] \in 1..Len(n.states) \cup {None}
    <3>1. n.contexts[d] = Len(o.states) + 1 \/ n.contexts[d] \in 1..Len(o.states) \cup {None}
      BY <2>4, <2>5
    <3>2. Len(n.states) = Len(o.states) + 1
      BY <2>2, <2>3
    <3> QED BY <1>0, <3>1, <3>2
  <2>7. \A s \in 1..Len(n.states) : n.states[s].span \in 1..Len(n.spans) \cup {None}
    BY <1>0, <2>1, <2>2, <2>3, <2>4
  <2>8. TelemetryOK(n)
    BY <2>2, <2>3, <2>4, <2>5, <2>6, <2>7, FromParts
  <2>9. Frame(o, n, c)
    BY <1>0, <2>2, <2>3, <2>5, <2>8 DEF Frame
  <2> QED BY <1>0, <1>2, <2>2, <2>3, <2>5, <2>9 DEF Has, StateOf, Before, n
<1> QED BY <1>1, <1>2

\* What a state becomes on an event: no other execution's than it was, or the event's.
Mixed(st, was, e) ==
    /\ st.started_at \in {was.started_at, e.of} /\ (e.attempt > 0 => st.started_at # None)
    /\ was.started_at # None => st.started_at = was.started_at
    /\ st.last_class \in {was.last_class, e.class}
    /\ st.operation \in {was.operation, e.operation}

\* An event changes what the state of the context says.
LEMMA UpdateState ==
    ASSUME NEW o, NEW c \in Contexts, TelemetryOK(o), Has(o, c), NEW e, EventOK(e)
    PROVE  LET n == update_state(o, c, e)
           IN  /\ Frame(o, n, c) /\ Has(n, c) /\ n.spans = o.spans /\ n.durations = o.durations
               /\ Mixed(StateOf(n, c), StateOf(o, c), e) /\ StateOf(n, c).span = StateOf(o, c).span
<1> DEFINE n == update_state(o, c, e)
           was == StateOf(o, c)
           st == [ span |-> was.span,
                   started_at |-> IF e.attempt > 0 THEN Either(was.started_at, e.of) ELSE was.started_at,
                   last_class |-> Either(e.class, was.last_class),
                   operation |-> Either(e.operation, was.operation) ]
<1>0. None \notin Nat /\ Len(o.states) \in Nat
  BY WorkerAssumption, LenProperties DEF TelemetryOK
<1>1. o.contexts[c] \in 1..Len(o.states) /\ o.states \in Seq(State) /\ was \in State
  BY ElementOfSeq DEF TelemetryOK, Has, StateOf
<1>2. st \in State /\ st.span = was.span /\ Mixed(st, was, e)
  BY <1>0, <1>1 DEF State, Id, Either, EventOK, Mixed
<1>3. /\ n.states = [o.states EXCEPT ![o.contexts[c]] = st] /\ n.contexts = o.contexts
      /\ n.spans = o.spans /\ n.durations = o.durations
      /\ n = [ contexts |-> n.contexts, states |-> n.states, spans |-> n.spans,
               durations |-> n.durations ]
  <2>1. n = [o EXCEPT !.states = [o.states EXCEPT ![o.contexts[c]] = st]]
    BY DEF update_state, StateOf
  <2> HIDE DEF n, st
  <2> QED BY <2>1 DEF TelemetryOK
<1>4. /\ o.contexts \in [Contexts -> Id] /\ o.spans \in Seq(Span)
      /\ o.durations \in Seq([of : Nat, since : Nat])
      /\ \A d \in Contexts : o.contexts[d] \in 1..Len(o.states) \cup {None}
      /\ \A s \in 1..Len(o.states) : o.states[s].span \in 1..Len(o.spans) \cup {None}
  BY DEF TelemetryOK
<1> HIDE DEF n, st
<1>5. /\ n.states \in Seq(State) /\ Len(n.states) = Len(o.states)
      /\ \A s \in 1..Len(o.states) :
            n.states[s] = IF s = o.contexts[c] THEN st ELSE o.states[s]
  BY <1>1, <1>2, <1>3, ExceptSeq
<1>6. \A s \in 1..Len(n.states) : n.states[s].span \in 1..Len(n.spans) \cup {None}
  BY <1>1, <1>2, <1>3, <1>4, <1>5 DEF StateOf
<1>7. TelemetryOK(n)
  BY <1>3, <1>4, <1>5, <1>6, FromParts
<1>8. Frame(o, n, c)
  <2>1. \A s \in 1..Len(o.states) : n.states[s].span = o.states[s].span
    BY <1>2, <1>5 DEF StateOf
  <2>2. Len(o.spans) \in Nat
    BY <1>4, LenProperties
  <2> QED BY <1>0, <1>3, <1>5, <1>7, <2>1, <2>2 DEF Frame
<1>9. Has(n, c) /\ StateOf(n, c) = st
  BY <1>1, <1>3, <1>5 DEF Has, StateOf
<1> QED BY <1>2, <1>3, <1>8, <1>9 DEF n

\* The state of the context is let go.
LEMMA ResetState ==
    ASSUME NEW o, NEW c \in Contexts, TelemetryOK(o)
    PROVE  LET n == Reset(o, c)
           IN  Frame(o, n, c) /\ ~Has(n, c) /\ n.spans = o.spans /\ n.durations = o.durations
<1> DEFINE n == Reset(o, c)
<1>0. None \notin Nat /\ Len(o.states) \in Nat
  BY WorkerAssumption, LenProperties DEF TelemetryOK
<1>1. /\ n.contexts = [o.contexts EXCEPT ![c] = None] /\ n.states = o.states
      /\ n.spans = o.spans /\ n.durations = o.durations
      /\ n = [ contexts |-> n.contexts, states |-> n.states, spans |-> n.spans,
               durations |-> n.durations ]
  <2>1. n = [o EXCEPT !.contexts = [o.contexts EXCEPT ![c] = None]]
    BY DEF Reset
  <2> HIDE DEF n
  <2> QED BY <2>1 DEF TelemetryOK
<1> HIDE DEF n
<1>2. n.contexts \in [Contexts -> Id] /\ n.contexts[c] = None
      /\ \A d \in Contexts : d # c => n.contexts[d] = o.contexts[d]
  BY <1>1 DEF TelemetryOK, Id
<1>3. TelemetryOK(n)
  <2>1. \A d \in Contexts : n.contexts[d] \in 1..Len(n.states) \cup {None}
    BY <1>1, <1>2 DEF TelemetryOK
  <2> QED BY <1>1, <1>2, <2>1 DEF TelemetryOK
<1> QED BY <1>0, <1>1, <1>2, <1>3 DEF Frame, Has, n

\* A duration is measured.
LEMMA Measure ==
    ASSUME NEW o, NEW c \in Contexts, TelemetryOK(o), NEW d \in [of : Nat, since : Nat]
    PROVE  LET n == [o EXCEPT !.durations = Append(@, d)]
           IN  /\ Frame(o, n, c) /\ n.contexts = o.contexts /\ n.states = o.states
               /\ n.spans = o.spans /\ n.durations = Append(o.durations, d)
<1> DEFINE n == [o EXCEPT !.durations = Append(@, d)]
<1>0. None \notin Nat /\ Len(o.states) \in Nat
  BY WorkerAssumption, LenProperties DEF TelemetryOK
<1>1. Append(o.durations, d) \in Seq([of : Nat, since : Nat])
  BY AppendProperties DEF TelemetryOK
<1>2. /\ n.durations = Append(o.durations, d) /\ n.contexts = o.contexts /\ n.states = o.states
      /\ n.spans = o.spans
      /\ n = [ contexts |-> n.contexts, states |-> n.states, spans |-> n.spans,
               durations |-> n.durations ]
  <2> DEFINE more == Append(o.durations, d)
  <2>1. n = [o EXCEPT !.durations = more]
    OBVIOUS
  <2>2. more = Append(o.durations, d)
    OBVIOUS
  <2> HIDE DEF n, more
  <2>3. /\ n.durations = more /\ n.contexts = o.contexts /\ n.states = o.states
        /\ n.spans = o.spans
        /\ n = [ contexts |-> n.contexts, states |-> n.states, spans |-> n.spans,
                 durations |-> n.durations ]
    BY <2>1 DEF TelemetryOK
  <2> QED BY <2>2, <2>3
<1> HIDE DEF n
<1>3. TelemetryOK(n)
  BY <1>1, <1>2 DEF TelemetryOK
<1> QED BY <1>0, <1>2, <1>3 DEF Frame, n

\* A span that has been told nothing.
Silent == [events |-> {}, ends |-> 0, late |-> FALSE]

\* The span that a context speaks in, and what it was before.
SpanFor(o, c) == IF Before(o, c).span = None THEN Len(o.spans) + 1 ELSE Before(o, c).span

SpanWas(o, c) == IF Before(o, c).span = None THEN Silent ELSE o.spans[Before(o, c).span]

\* A span is there to speak in.
LEMMA StartSpan ==
    ASSUME NEW o, NEW c \in Contexts, TelemetryOK(o), Has(o, c)
    PROVE  LET n == start_span(o, c)
           IN  /\ Frame(o, n, c) /\ Has(n, c) /\ n.durations = o.durations
               /\ StateOf(n, c) = [StateOf(o, c) EXCEPT !.span = SpanFor(o, c)]
               /\ SpanFor(o, c) \in 1..Len(n.spans) /\ SpanWas(o, c) \in Span
               /\ Len(n.spans) = IF StateOf(o, c).span = None THEN Len(o.spans) + 1 ELSE Len(o.spans)
               /\ n.spans[SpanFor(o, c)] = SpanWas(o, c)
               /\ \A t \in 1..Len(o.spans) : n.spans[t] = o.spans[t]
<1> DEFINE n == start_span(o, c)
           st == StateOf(o, c)
           new == [st EXCEPT !.span = Len(o.spans) + 1]
<1>0. None \notin Nat /\ Len(o.states) \in Nat /\ Len(o.spans) \in Nat
  BY WorkerAssumption, LenProperties DEF TelemetryOK
<1>1. /\ o.contexts[c] \in 1..Len(o.states) /\ o.states \in Seq(State) /\ st \in State
      /\ st.span \in 1..Len(o.spans) \cup {None} /\ Before(o, c) = st
  BY ElementOfSeq DEF TelemetryOK, Has, StateOf, Before
<1>2. CASE st.span # None
  <2>1. n = o
    BY <1>2 DEF start_span
  <2>2. SpanFor(o, c) = st.span /\ SpanWas(o, c) = o.spans[st.span]
    BY <1>1, <1>2 DEF SpanFor, SpanWas
  <2>3. st.span \in 1..Len(o.spans) /\ o.spans[st.span] \in Span
    BY <1>1, <1>2, ElementOfSeq DEF TelemetryOK
  <2>4. st = [st EXCEPT !.span = st.span]
    BY <1>1 DEF State
  <2>5. Frame(o, o, c)
    BY <1>0 DEF Frame
  <2> QED BY <1>2, <2>1, <2>2, <2>3, <2>4, <2>5
<1>3. CASE st.span = None
  <2>1. SpanFor(o, c) = Len(o.spans) + 1 /\ SpanWas(o, c) = Silent /\ Silent \in Span
    BY <1>1, <1>3 DEF SpanFor, SpanWas, Silent, Span
  <2>2. /\ n.spans = Append(o.spans, Silent) /\ n.contexts = o.contexts
        /\ n.durations = o.durations
        /\ n.states = [o.states EXCEPT ![o.contexts[c]] = new]
        /\ n = [ contexts |-> n.contexts, states |-> n.states, spans |-> n.spans,
                 durations |-> n.durations ]
    <3>1. n = [o EXCEPT !.spans = Append(o.spans, Silent),
                        !.states = [o.states EXCEPT ![o.contexts[c]] = new]]
      BY <1>3 DEF start_span, StateOf, Silent
    <3> HIDE DEF n, new
    <3> QED BY <3>1 DEF TelemetryOK
  <2>3. new \in State /\ new.span = Len(o.spans) + 1
    <3> DEFINE k == Len(o.spans) + 1
    <3>1. k \in Id
      BY <1>0 DEF Id
    <3> HIDE DEF k
    <3>2. [st EXCEPT !.span = k] \in State /\ [st EXCEPT !.span = k].span = k
      BY <1>1, <3>1 DEF State
    <3> QED BY <3>2 DEF k
  <2>4. /\ n.spans \in Seq(Span) /\ Len(n.spans) = Len(o.spans) + 1
        /\ \A t \in 1..Len(o.spans) : n.spans[t] = o.spans[t]
        /\ n.spans[Len(o.spans) + 1] = Silent
    BY <2>1, <2>2, AppendProperties DEF TelemetryOK
  <2> HIDE DEF n, new
  <2>5. /\ n.states \in Seq(State) /\ Len(n.states) = Len(o.states)
        /\ \A s \in 1..Len(o.states) :
              n.states[s] = IF s = o.contexts[c] THEN new ELSE o.states[s]
    BY <1>1, <2>2, <2>3, ExceptSeq
  <2>6. ASSUME NEW s \in 1..Len(n.states)
        PROVE  n.states[s].span \in 1..Len(n.spans) \cup {None}
    <3>1. n.states[s].span = Len(o.spans) + 1 \/ n.states[s].span \in 1..Len(o.spans) \cup {None}
      BY <2>3, <2>5 DEF TelemetryOK
    <3> QED BY <1>0, <2>4, <3>1
  <2>7. TelemetryOK(n)
    BY <2>2, <2>4, <2>5, <2>6 DEF TelemetryOK
  <2>8. Frame(o, n, c)
    <3>1. ASSUME NEW s \in 1..Len(o.states), n.states[s].span \in 1..Len(o.spans)
          PROVE  n.states[s].span = o.states[s].span
      BY <1>0, <2>3, <2>5, <3>1
    <3>2. Len(n.spans) >= Len(o.spans)
      BY <1>0, <2>4
    <3> QED BY <1>0, <2>2, <2>5, <2>7, <3>1, <3>2 DEF Frame
  <2>9. Has(n, c) /\ StateOf(n, c) = new
    BY <1>1, <2>2, <2>5 DEF Has, StateOf
  <2>10. Len(o.spans) + 1 \in 1..Len(n.spans)
    BY <1>0, <2>4
  <2> QED BY <1>3, <2>1, <2>2, <2>4, <2>8, <2>9, <2>10 DEF n, new
<1> QED BY <1>2, <1>3

\* A span is written to.
LEMMA WriteSpan ==
    ASSUME NEW o, NEW c \in Contexts, TelemetryOK(o), NEW t \in 1..Len(o.spans), NEW v \in Span
    PROVE  LET n == [o EXCEPT !.spans = [o.spans EXCEPT ![t] = v]]
           IN  /\ Frame(o, n, c) /\ n.contexts = o.contexts /\ n.states = o.states
               /\ n.durations = o.durations /\ Len(n.spans) = Len(o.spans)
               /\ \A r \in 1..Len(o.spans) : n.spans[r] = IF r = t THEN v ELSE o.spans[r]
<1> DEFINE changed == [o.spans EXCEPT ![t] = v]
           n == [o EXCEPT !.spans = changed]
<1>0. None \notin Nat /\ Len(o.states) \in Nat /\ o.spans \in Seq(Span)
  BY WorkerAssumption, LenProperties DEF TelemetryOK
<1>1. /\ changed \in Seq(Span) /\ Len(changed) = Len(o.spans)
      /\ \A r \in 1..Len(o.spans) : changed[r] = IF r = t THEN v ELSE o.spans[r]
  BY <1>0, ExceptSeq
<1> HIDE DEF changed
<1>2. /\ n.spans = changed /\ n.contexts = o.contexts /\ n.states = o.states
      /\ n.durations = o.durations
      /\ n = [ contexts |-> n.contexts, states |-> n.states, spans |-> n.spans,
               durations |-> n.durations ]
  <2>1. n = [o EXCEPT !.spans = changed]
    OBVIOUS
  <2> HIDE DEF n
  <2> QED BY <2>1 DEF TelemetryOK
<1> HIDE DEF n
<1>3. TelemetryOK(n)
  BY <1>1, <1>2 DEF TelemetryOK
<1>4. Frame(o, n, c)
  <2>1. Len(o.spans) \in Nat /\ Len(n.spans) = Len(o.spans)
    BY <1>0, <1>1, <1>2, LenProperties
  <2> QED BY <1>0, <1>2, <1>3, <2>1 DEF Frame
<1> QED BY <1>1, <1>2, <1>4 DEF n, changed

\* An event is heard.
LEMMA HeardIs ==
    ASSUME NEW o, NEW c \in Contexts, TelemetryOK(o), NEW e, EventOK(e)
    PROVE  LET n == Heard(o, c, e)
           IN  /\ Frame(o, n, c) /\ Has(n, c) /\ n.spans = o.spans /\ n.durations = o.durations
               /\ Mixed(StateOf(n, c), Before(o, c), e)
               /\ StateOf(n, c).span = Before(o, c).span
<1> DEFINE m == get_state(o, c)
           n == update_state(m, c, e)
<1>1. /\ Frame(o, m, c) /\ Has(m, c) /\ m.spans = o.spans /\ m.durations = o.durations
      /\ StateOf(m, c) = Before(o, c) /\ TelemetryOK(m)
  BY GetState DEF Frame
<1> HIDE DEF m
<1>2. /\ Frame(m, n, c) /\ Has(n, c) /\ n.spans = m.spans /\ n.durations = m.durations
      /\ Mixed(StateOf(n, c), StateOf(m, c), e) /\ StateOf(n, c).span = StateOf(m, c).span
  BY <1>1, UpdateState
<1> HIDE DEF n
<1>3. Frame(o, n, c)
  BY <1>1, <1>2, FrameTransitive
<1> QED BY <1>1, <1>2, <1>3 DEF Heard, m, n

\* What an execution says in the span of context c: once, with what the state knows, and in
\* no other; more is how often the span ends by it.
Speaks(o, n, c, e, more) ==
    /\ SpanFor(o, c) \in 1..Len(n.spans) /\ SpanWas(o, c) \in Span
    /\ Len(n.spans) = IF Before(o, c).span = None THEN Len(o.spans) + 1 ELSE Len(o.spans)
    /\ \A t \in 1..Len(o.spans) : t # SpanFor(o, c) => n.spans[t] = o.spans[t]
    /\ \E a : /\ a.of = e.of
              /\ a.class \in {None, Before(o, c).last_class, e.class}
              /\ a.operation \in {None, Before(o, c).operation, e.operation}
              /\ n.spans[SpanFor(o, c)] =
                    [ events |-> SpanWas(o, c).events \cup {a}, ends |-> SpanWas(o, c).ends + more,
                      late |-> SpanWas(o, c).ends > 0 ]

\* An event of an attempt is said in the span of its context.
LEMMA SpokenIs ==
    ASSUME NEW o, NEW c \in Contexts, TelemetryOK(o), NEW e, EventOK(e)
    PROVE  LET n == add_event(start_span(Heard(o, c, e), c), c, e)
           IN  /\ Frame(o, n, c) /\ Has(n, c) /\ n.durations = o.durations
               /\ Mixed(StateOf(n, c), Before(o, c), e)
               /\ StateOf(n, c).span = SpanFor(o, c)
               /\ Speaks(o, n, c, e, 0)
<1> DEFINE h == Heard(o, c, e)
           m == start_span(h, c)
           n == add_event(m, c, e)
           t == SpanFor(o, c)
           a == build_attributes(m, c, e)
           v == [ events |-> m.spans[t].events \cup {a}, ends |-> m.spans[t].ends,
                  late |-> m.spans[t].ends > 0 ]
<1>0. None \notin Nat /\ Len(o.spans) \in Nat
  BY WorkerAssumption, LenProperties DEF TelemetryOK
<1>1. /\ Frame(o, h, c) /\ Has(h, c) /\ h.spans = o.spans /\ h.durations = o.durations
      /\ Mixed(StateOf(h, c), Before(o, c), e) /\ StateOf(h, c).span = Before(o, c).span
      /\ TelemetryOK(h)
  BY HeardIs DEF Frame
<1> HIDE DEF h
<1>2. SpanFor(h, c) = t /\ SpanWas(h, c) = SpanWas(o, c)
  BY <1>1 DEF SpanFor, SpanWas, Before
<1>3. /\ Frame(h, m, c) /\ Has(m, c) /\ m.durations = h.durations
      /\ StateOf(m, c) = [StateOf(h, c) EXCEPT !.span = t]
      /\ t \in 1..Len(m.spans) /\ SpanWas(o, c) \in Span
      /\ Len(m.spans) = IF Before(o, c).span = None THEN Len(o.spans) + 1 ELSE Len(o.spans)
      /\ m.spans[t] = SpanWas(o, c) /\ TelemetryOK(m)
      /\ \A r \in 1..Len(o.spans) : m.spans[r] = o.spans[r]
  <2>1. /\ Frame(h, m, c) /\ Has(m, c) /\ m.durations = h.durations
        /\ StateOf(m, c) = [StateOf(h, c) EXCEPT !.span = SpanFor(h, c)]
        /\ SpanFor(h, c) \in 1..Len(m.spans) /\ SpanWas(h, c) \in Span
        /\ Len(m.spans) = IF StateOf(h, c).span = None THEN Len(h.spans) + 1 ELSE Len(h.spans)
        /\ m.spans[SpanFor(h, c)] = SpanWas(h, c)
        /\ \A r \in 1..Len(h.spans) : m.spans[r] = h.spans[r]
    BY <1>1, StartSpan
  <2>2. TelemetryOK(m)
    BY <2>1 DEF Frame
  <2> HIDE DEF m, t
  <2> QED BY <1>1, <1>2, <2>1, <2>2
<1> HIDE DEF m, t
<1>4. StateOf(h, c) \in State /\ StateOf(m, c) \in State
  BY <1>1, <1>3, ElementOfSeq DEF TelemetryOK, Has, StateOf
<1>5. /\ StateOf(m, c).span = t /\ Mixed(StateOf(m, c), Before(o, c), e)
      /\ StateOf(m, c).last_class = StateOf(h, c).last_class
      /\ StateOf(m, c).operation = StateOf(h, c).operation
  BY <1>1, <1>3, <1>4 DEF State, Mixed
<1>6. /\ a.of = e.of
      /\ a.class \in {Before(o, c).last_class, e.class}
      /\ a.operation \in {Before(o, c).operation, e.operation}
      /\ a \in [of : Nat, class : Id, operation : Id]
  BY <1>1, <1>4, <1>5 DEF build_attributes, Either, Mixed, EventOK, State
<1>7. v \in Span
  BY <1>3, <1>6 DEF Span
<1>8. n = [m EXCEPT !.spans = [m.spans EXCEPT ![t] = v]]
  BY <1>5 DEF add_event
<1>9. v = [ events |-> SpanWas(o, c).events \cup {a}, ends |-> SpanWas(o, c).ends + 0,
            late |-> SpanWas(o, c).ends > 0 ]
  <2>1. SpanWas(o, c).ends \in Nat
    BY <1>3 DEF Span
  <2>2. SpanWas(o, c).ends + 0 = SpanWas(o, c).ends
    BY <2>1
  <2> QED BY <1>3, <2>2
<1> HIDE DEF n, v, a
<1>10. /\ Frame(m, n, c) /\ n.contexts = m.contexts /\ n.states = m.states
       /\ n.durations = m.durations /\ Len(n.spans) = Len(m.spans)
       /\ \A r \in 1..Len(m.spans) : n.spans[r] = IF r = t THEN v ELSE m.spans[r]
  BY <1>3, <1>7, <1>8, WriteSpan
<1>11. Frame(o, n, c)
  <2>1. Frame(h, n, c)
    BY <1>1, <1>3, <1>10, FrameTransitive
  <2> QED BY <1>1, <2>1, FrameTransitive
<1>12. Speaks(o, n, c, e, 0)
  <2>1. \A r \in 1..Len(o.spans) : r \in 1..Len(m.spans)
    BY <1>0, <1>3
  <2>2. n.spans[t] = v
    BY <1>3, <1>10
  <2>3. \A r \in 1..Len(o.spans) : r # t => n.spans[r] = o.spans[r]
    BY <1>3, <1>10, <2>1
  <2> QED BY <1>3, <1>6, <1>9, <1>10, <2>2, <2>3 DEF Speaks, t
<1>13. Has(n, c) /\ StateOf(n, c) = StateOf(m, c)
  BY <1>3, <1>10 DEF Has, StateOf
<1> QED BY <1>1, <1>3, <1>5, <1>10, <1>11, <1>12, <1>13 DEF n, m, h, t

\* What is said once a context has been asked what it knows is said in its span.
LEMMA SpeaksLater ==
    ASSUME NEW o, NEW m, NEW n, NEW c \in Contexts, NEW e, NEW more,
           m.spans = o.spans, Before(m, c).span = Before(o, c).span,
           Before(m, c).last_class \in {None, Before(o, c).last_class, e.class},
           Before(m, c).operation \in {None, Before(o, c).operation, e.operation},
           Speaks(m, n, c, e, more)
    PROVE  Speaks(o, n, c, e, more) /\ SpanFor(o, c) = SpanFor(m, c)
<1>1. SpanFor(m, c) = SpanFor(o, c) /\ SpanWas(m, c) = SpanWas(o, c)
  BY DEF SpanFor, SpanWas
<1> QED BY <1>1 DEF Speaks

\* A terminal event ends the span, and the context lets go of its state.
LEMMA EndedIs ==
    ASSUME NEW o, NEW c \in Contexts, TelemetryOK(o), NEW e, EventOK(e)
    PROVE  LET n == Reset(end_span(add_event(start_span(Heard(o, c, e), c), c, e), c), c)
           IN  /\ Frame(o, n, c) /\ ~Has(n, c) /\ n.durations = o.durations
               /\ Speaks(o, n, c, e, 1)
<1> DEFINE m == add_event(start_span(Heard(o, c, e), c), c, e)
           k == end_span(m, c)
           n == Reset(k, c)
           t == SpanFor(o, c)
           v == [m.spans[t] EXCEPT !.ends = @ + 1]
<1>1. /\ Frame(o, m, c) /\ Has(m, c) /\ m.durations = o.durations
      /\ StateOf(m, c).span = t /\ Speaks(o, m, c, e, 0)
  BY SpokenIs
<1>2. TelemetryOK(m) /\ t \in 1..Len(m.spans) /\ SpanWas(o, c) \in Span
  BY <1>1 DEF Frame, Speaks
<1> HIDE DEF m, t
<1>3. PICK a : /\ a.of = e.of
               /\ a.class \in {None, Before(o, c).last_class, e.class}
               /\ a.operation \in {None, Before(o, c).operation, e.operation}
               /\ m.spans[t] = [ events |-> SpanWas(o, c).events \cup {a},
                                 ends |-> SpanWas(o, c).ends + 0,
                                 late |-> SpanWas(o, c).ends > 0 ]
  BY <1>1 DEF Speaks, t
<1>4. SpanWas(o, c).ends \in Nat /\ m.spans[t] \in Span
  BY <1>2, ElementOfSeq DEF Span, TelemetryOK
<1>5. /\ v \in Span
      /\ v = [ events |-> SpanWas(o, c).events \cup {a}, ends |-> SpanWas(o, c).ends + 1,
               late |-> SpanWas(o, c).ends > 0 ]
  <2>1. m.spans[t].ends + 1 = SpanWas(o, c).ends + 1 /\ m.spans[t].ends + 1 \in Nat
    BY <1>3, <1>4
  <2> DEFINE j == m.spans[t].ends + 1
  <2>2. v = [m.spans[t] EXCEPT !.ends = j] /\ j \in Nat /\ j = SpanWas(o, c).ends + 1
    BY <2>1
  <2> HIDE DEF j, v
  <2>3. v \in Span
    BY <1>4, <2>2 DEF Span
  <2>4. v = [events |-> m.spans[t].events, ends |-> j, late |-> m.spans[t].late]
    BY <1>4, <2>2 DEF Span
  <2> QED BY <1>3, <2>2, <2>3, <2>4, SMTT(20)
<1>6. k = [m EXCEPT !.spans = [m.spans EXCEPT ![t] = v]]
  BY <1>1 DEF end_span
<1> HIDE DEF k, v
<1>7. /\ Frame(m, k, c) /\ k.durations = m.durations /\ Len(k.spans) = Len(m.spans)
      /\ \A r \in 1..Len(m.spans) : k.spans[r] = IF r = t THEN v ELSE m.spans[r]
  <2> DEFINE w == [m EXCEPT !.spans = [m.spans EXCEPT ![t] = v]]
  <2>1. /\ Frame(m, w, c) /\ w.durations = m.durations /\ Len(w.spans) = Len(m.spans)
        /\ \A r \in 1..Len(m.spans) : w.spans[r] = IF r = t THEN v ELSE m.spans[r]
    <3>1. v \in Span /\ t \in 1..Len(m.spans) /\ TelemetryOK(m)
      BY <1>2, <1>5
    <3> QED BY <3>1, WriteSpan, Zenon
  <2> HIDE DEF w
  <2>2. k = w
    BY <1>6 DEF w
  <2> QED BY <2>1, <2>2
<1>8. TelemetryOK(k)
  BY <1>7 DEF Frame
<1>9. Frame(k, n, c) /\ ~Has(n, c) /\ n.spans = k.spans /\ n.durations = k.durations
  BY <1>8, ResetState
<1> HIDE DEF n
<1>10. Frame(o, n, c)
  <2>1. Frame(o, k, c)
    BY <1>1, <1>7, FrameTransitive
  <2> QED BY <1>9, <2>1, FrameTransitive
<1>11. Speaks(o, n, c, e, 1)
  <2>1. n.spans[t] = v
    BY <1>2, <1>7, <1>9
  <2>2. ASSUME NEW r \in 1..Len(o.spans), r # t PROVE n.spans[r] = o.spans[r]
    <3>1. m.spans[r] = o.spans[r]
      BY <1>1, <2>2 DEF Speaks, t
    <3>2. r \in 1..Len(m.spans)
      <4>1. Len(o.spans) \in Nat
        BY LenProperties DEF TelemetryOK
      <4>2. Len(m.spans) = IF Before(o, c).span = None THEN Len(o.spans) + 1 ELSE Len(o.spans)
        BY <1>1 DEF Speaks
      <4> QED BY <4>1, <4>2
    <3> QED BY <1>7, <1>9, <2>2, <3>1, <3>2
  <2>3. /\ t \in 1..Len(n.spans)
        /\ Len(n.spans) = IF Before(o, c).span = None THEN Len(o.spans) + 1 ELSE Len(o.spans)
    BY <1>1, <1>2, <1>7, <1>9 DEF Speaks
  <2> QED BY <1>2, <1>3, <1>5, <2>1, <2>2, <2>3 DEF Speaks, t
<1> QED BY <1>1, <1>7, <1>9, <1>10, <1>11 DEF n, k, m

\* An event that ends the span of an execution.
Terminal(e) == e.name \in TERMINAL_EVENTS /\ e.attempt > 0

\* What hooks H make of event e in context c: nothing; or the context has a state; or the
\* state is heard of the event; or the span is told it; or the span and the state end.
Ignored(o, n, e, H) == n = o /\ ((e.attempt = 0 /\ "on_metric" \notin H) \/ H = {})

Noticed(o, n, c, e) ==
    /\ e.name \in CIRCUIT_EVENTS
    /\ Has(n, c) /\ StateOf(n, c) = Before(o, c)
    /\ n.spans = o.spans /\ n.durations = o.durations

Heeded(o, n, c, e) ==
    /\ e.name \notin CIRCUIT_EVENTS /\ ~Terminal(e)
    /\ Has(n, c) /\ Mixed(StateOf(n, c), Before(o, c), e)
    /\ StateOf(n, c).span = Before(o, c).span
    /\ n.spans = o.spans /\ n.durations = o.durations

Spoken(o, n, c, e) ==
    /\ e.attempt > 0 /\ ~Terminal(e)
    /\ Has(n, c) /\ Mixed(StateOf(n, c), Before(o, c), e)
    /\ StateOf(n, c).span = SpanFor(o, c)
    /\ Speaks(o, n, c, e, 0)
    /\ n.durations = o.durations

\* The duration is measured, of this execution, since what the state says or since now.
Measured(o, n, c, e) ==
    \E d \in [of : Nat, since : Nat] :
        /\ n.durations = Append(o.durations, d)
        /\ d.of = e.of /\ d.since \in {Before(o, c).started_at, e.of}

Closed(o, n, c, e, H) ==
    /\ Terminal(e) /\ ~Has(n, c)
    /\ IF "on_log" \in H THEN Speaks(o, n, c, e, 1) ELSE n.spans = o.spans
    /\ IF "on_metric" \in H THEN Measured(o, n, c, e) ELSE n.durations = o.durations

\* One of these, whatever the event, and no other context or state is touched.
Handled(o, n, c, e, H) ==
    /\ Frame(o, n, c) /\ (H = {} => n = o)
    /\ \/ Ignored(o, n, e, H) \/ Noticed(o, n, c, e) \/ Heeded(o, n, c, e)
       \/ "on_log" \in H /\ Spoken(o, n, c, e)
       \/ Closed(o, n, c, e, H)

\* What is asked of a state twice is what is asked of it once.
LEMMA MixedTwice ==
    ASSUME NEW st, NEW was, NEW first, NEW e, Mixed(was, first, e), Mixed(st, was, e)
    PROVE  Mixed(st, first, e)
BY DEF Mixed

\* on_metric: the state is heard of the event, and a terminal one is measured, after which
\* a state without a span is let go of.
LEMMA MetricCases ==
    ASSUME NEW o, NEW c \in Contexts, TelemetryOK(o), NEW e, EventOK(e)
    PROVE  LET n == on_metric(o, c, e)
           IN  /\ Frame(o, n, c) /\ n.spans = o.spans
               /\ \/ Noticed(o, n, c, e)
                  \/ Heeded(o, n, c, e)
                  \/ /\ Terminal(e) /\ Measured(o, n, c, e)
                     /\ IF Before(o, c).span = None THEN ~Has(n, c)
                        ELSE /\ Has(n, c) /\ Mixed(StateOf(n, c), Before(o, c), e)
                             /\ StateOf(n, c).span = Before(o, c).span
<1> DEFINE n == on_metric(o, c, e)
           h == Heard(o, c, e)
           d == [of |-> e.of, since |-> StateOf(h, c).started_at]
           m == [h EXCEPT !.durations = Append(@, d)]
<1>0. None \notin Nat /\ TERMINAL_EVENTS \cap CIRCUIT_EVENTS = {}
  BY WorkerAssumption DEF TERMINAL_EVENTS, CIRCUIT_EVENTS
<1>1. CASE e.name \in CIRCUIT_EVENTS
  <2>1. n = get_state(o, c)
    BY <1>1 DEF on_metric
  <2> HIDE DEF n
  <2>2. Frame(o, n, c) /\ n.spans = o.spans /\ Noticed(o, n, c, e)
    BY <1>1, <2>1, GetState DEF Noticed
  <2> QED BY <2>2 DEF n
<1>2. CASE e.name \notin CIRCUIT_EVENTS
  <2>1. /\ Frame(o, h, c) /\ Has(h, c) /\ h.spans = o.spans /\ h.durations = o.durations
        /\ Mixed(StateOf(h, c), Before(o, c), e)
        /\ StateOf(h, c).span = Before(o, c).span
    BY HeardIs
  <2>2. TelemetryOK(h)
    BY <2>1 DEF Frame
  <2>3. StateOf(h, c) \in State
    <3>1. h.contexts[c] \in 1..Len(h.states) /\ h.states \in Seq(State)
      BY <2>1, <2>2 DEF TelemetryOK, Has
    <3> QED BY <3>1, ElementOfSeq DEF StateOf
  <2>4. n = IF Terminal(e) /\ StateOf(h, c).started_at # None
            THEN IF StateOf(h, c).span = None THEN Reset(m, c) ELSE m
            ELSE h
    BY <1>2 DEF on_metric, Terminal
  <2> HIDE DEF n, h
  <2>5. CASE ~Terminal(e)
    <3>1. n = h
      BY <2>4, <2>5
    <3>2. Heeded(o, n, c, e)
      BY <1>2, <2>1, <2>5, <3>1 DEF Heeded
    <3> QED BY <2>1, <3>1, <3>2 DEF n
  <2>6. CASE Terminal(e)
    <3>1. e.attempt > 0 /\ StateOf(h, c).started_at # None
      BY <2>1, <2>6 DEF Terminal, Mixed
    <3>2. /\ d \in [of : Nat, since : Nat]
          /\ d.of = e.of /\ d.since \in {Before(o, c).started_at, e.of}
      BY <2>1, <2>3, <3>1 DEF Mixed, State, Id, EventOK
    <3> HIDE DEF d
    <3>3. /\ Frame(h, m, c) /\ m.contexts = h.contexts /\ m.states = h.states
          /\ m.spans = h.spans /\ m.durations = Append(h.durations, d)
      BY <2>2, <3>2, Measure
    <3> HIDE DEF m
    <3>4. TelemetryOK(m) /\ Frame(o, m, c)
      <4>1. TelemetryOK(m)
        BY <3>3 DEF Frame
      <4> QED BY <2>1, <3>3, <4>1, FrameTransitive
    <3>5. Measured(o, m, c, e)
      BY <2>1, <3>2, <3>3 DEF Measured
    <3>6. CASE Before(o, c).span = None
      <4>1. n = Reset(m, c)
        BY <2>1, <2>4, <2>6, <3>1, <3>6
      <4>2. Frame(m, n, c) /\ ~Has(n, c) /\ n.spans = m.spans /\ n.durations = m.durations
        BY <3>4, <4>1, ResetState
      <4>3. Frame(o, n, c)
        BY <3>4, <4>2, FrameTransitive
      <4>4. Measured(o, n, c, e)
        BY <3>5, <4>2 DEF Measured
      <4> QED BY <2>1, <2>6, <3>3, <3>6, <4>2, <4>3, <4>4 DEF n
    <3>7. CASE Before(o, c).span # None
      <4>1. n = m
        BY <2>1, <2>4, <2>6, <3>1, <3>7
      <4>2. Has(m, c) /\ StateOf(m, c) = StateOf(h, c)
        BY <2>1, <3>3 DEF Has, StateOf
      <4> QED BY <2>1, <2>6, <3>3, <3>4, <3>5, <3>7, <4>1, <4>2 DEF n
    <3> QED BY <3>6, <3>7
  <2> QED BY <2>5, <2>6
<1> QED BY <1>1, <1>2

\* on_log after on_metric, or either, or none.
LEMMA EmitCases ==
    ASSUME NEW o, NEW c \in Contexts, TelemetryOK(o), NEW e, EventOK(e),
           NEW H \in SUBSET {"on_metric", "on_log"}, "on_log" \in H \/ o.spans = <<>>
    PROVE  Handled(o, emit(o, c, e, H), c, e, H)
<1> DEFINE n == emit(o, c, e, H)
           m == on_metric(o, c, e)
           counted == IF "on_metric" \in H THEN m ELSE o
           spoken(t) == add_event(start_span(Heard(t, c, e), c), c, e)
<1>0. /\ None \notin Nat /\ TERMINAL_EVENTS \cap CIRCUIT_EVENTS = {} /\ Len(o.states) \in Nat
      /\ e.attempt \in Nat /\ (e.name \in CIRCUIT_EVENTS => e.attempt = 0)
  BY WorkerAssumption, LenProperties DEF TERMINAL_EVENTS, CIRCUIT_EVENTS, TelemetryOK, EventOK
<1>1. Frame(o, o, c)
  BY <1>0 DEF Frame
<1>2. ASSUME "on_metric" \in H
      PROVE  /\ Frame(o, m, c) /\ m.spans = o.spans
             /\ \/ Noticed(o, m, c, e)
                \/ Heeded(o, m, c, e)
                \/ /\ Terminal(e) /\ Measured(o, m, c, e)
                   /\ IF Before(o, c).span = None THEN ~Has(m, c)
                      ELSE /\ Has(m, c) /\ Mixed(StateOf(m, c), Before(o, c), e)
                           /\ StateOf(m, c).span = Before(o, c).span
  BY MetricCases
<1>3. n = IF "on_log" \in H THEN on_log(counted, c, e) ELSE counted
  BY DEF emit
<1> HIDE DEF m, n
<1>4. CASE "on_log" \notin H
  <2>1. CASE "on_metric" \notin H
    BY <1>1, <1>3, <1>4, <2>1 DEF Handled, Ignored, n
  <2>2. CASE "on_metric" \in H
    <3>1. n = m
      BY <1>3, <1>4, <2>2
    <3>2. Before(o, c).span = None
      <4>1. Len(o.spans) = 0
        BY <1>4
      <4>2. Has(o, c) => o.states[o.contexts[c]].span \in 1..Len(o.spans) \cup {None}
        BY DEF TelemetryOK, Has
      <4>3. ASSUME Has(o, c) PROVE StateOf(o, c).span = None
        BY <4>1, <4>2, <4>3 DEF StateOf
      <4> QED BY <4>3 DEF Before, Blank
    <3>3. Noticed(o, m, c, e) \/ Heeded(o, m, c, e) \/ Closed(o, m, c, e, H)
      BY <1>2, <1>4, <2>2, <3>2 DEF Closed
    <3> QED BY <1>2, <2>2, <3>1, <3>3 DEF Handled, n
  <2> QED BY <2>1, <2>2
<1>5. CASE "on_log" \in H /\ e.attempt = 0
  <2>1. n = counted
    BY <1>0, <1>3, <1>5 DEF on_log
  <2>2. CASE "on_metric" \notin H
    BY <1>1, <1>5, <2>1, <2>2 DEF Handled, Ignored, n
  <2>3. CASE "on_metric" \in H
    <3>1. n = m /\ ~Terminal(e)
      BY <1>5, <2>1, <2>3 DEF Terminal
    <3> QED BY <1>2, <2>3, <3>1 DEF Handled, n
  <2> QED BY <2>2, <2>3
<1>6. CASE "on_log" \in H /\ e.attempt > 0
  <2>1. e.name \notin CIRCUIT_EVENTS /\ ~(e.attempt <= 0)
    BY <1>0, <1>6
  <2>2. n = IF Terminal(e) THEN Reset(end_span(spoken(counted), c), c) ELSE spoken(counted)
    BY <1>3, <1>6, <2>1 DEF on_log, Terminal
  <2>3. Frame(o, counted, c) /\ counted.spans = o.spans /\ TelemetryOK(counted)
    <3>1. Frame(o, counted, c) /\ counted.spans = o.spans
      BY <1>1, <1>2
    <3> QED BY <3>1 DEF Frame
  <2>4. /\ Before(counted, c).span = Before(o, c).span
        /\ Before(counted, c).last_class \in {None, Before(o, c).last_class, e.class}
        /\ Before(counted, c).operation \in {None, Before(o, c).operation, e.operation}
        /\ ~Terminal(e) => \/ Before(counted, c) = Before(o, c)
                           \/ Mixed(Before(counted, c), Before(o, c), e)
        /\ IF "on_metric" \in H /\ Terminal(e) THEN Measured(o, counted, c, e)
           ELSE counted.durations = o.durations
    <3>1. CASE "on_metric" \notin H
      BY <3>1
    <3>2. CASE "on_metric" \in H /\ Heeded(o, m, c, e)
      BY <3>2 DEF Heeded, Before, Mixed
    <3>3. CASE /\ "on_metric" \in H /\ Terminal(e) /\ Measured(o, m, c, e)
               /\ IF Before(o, c).span = None THEN ~Has(m, c)
                  ELSE /\ Has(m, c) /\ Mixed(StateOf(m, c), Before(o, c), e)
                       /\ StateOf(m, c).span = Before(o, c).span
      <4>1. CASE Before(o, c).span = None
        <5>1. Before(m, c) = Blank
          BY <3>3, <4>1 DEF Before
        <5> QED BY <3>3, <4>1, <5>1 DEF Blank
      <4>2. CASE Before(o, c).span # None
        <5>1. Before(m, c) = StateOf(m, c)
          BY <3>3, <4>2 DEF Before
        <5> QED BY <3>3, <4>2, <5>1 DEF Mixed
      <4> QED BY <4>1, <4>2
    <3> QED BY <1>2, <2>1, <3>1, <3>2, <3>3 DEF Noticed
  <2> HIDE DEF counted
  <2>5. CASE Terminal(e)
    <3> DEFINE k == Reset(end_span(spoken(counted), c), c)
    <3>1. /\ Frame(counted, k, c) /\ ~Has(k, c) /\ k.durations = counted.durations
          /\ Speaks(counted, k, c, e, 1)
      BY <2>3, EndedIs
    <3> HIDE DEF k, spoken
    <3>2. Frame(o, k, c)
      BY <2>3, <3>1, FrameTransitive
    <3>3. Speaks(o, k, c, e, 1)
      BY <2>3, <2>4, <3>1, SpeaksLater
    <3>4. Closed(o, k, c, e, H)
      BY <1>6, <2>4, <2>5, <3>1, <3>3 DEF Closed, Measured
    <3> QED BY <1>6, <2>2, <2>5, <3>2, <3>4 DEF Handled, n, k
  <2>6. CASE ~Terminal(e)
    <3> DEFINE k == spoken(counted)
    <3>1. /\ Frame(counted, k, c) /\ Has(k, c) /\ k.durations = counted.durations
          /\ Mixed(StateOf(k, c), Before(counted, c), e)
          /\ StateOf(k, c).span = SpanFor(counted, c)
          /\ Speaks(counted, k, c, e, 0)
      BY <2>3, SpokenIs
    <3> HIDE DEF k, spoken
    <3>2. Frame(o, k, c)
      BY <2>3, <3>1, FrameTransitive
    <3>3. Speaks(o, k, c, e, 0) /\ SpanFor(o, c) = SpanFor(counted, c)
      BY <2>3, <2>4, <3>1, SpeaksLater
    <3>4. Mixed(StateOf(k, c), Before(o, c), e)
      BY <2>4, <2>6, <3>1, MixedTwice
    <3>5. Spoken(o, k, c, e)
      BY <1>6, <2>4, <2>6, <3>1, <3>3, <3>4 DEF Spoken
    <3> QED BY <1>6, <2>2, <2>6, <3>2, <3>5 DEF Handled, n, k
  <2> QED BY <2>5, <2>6
<1> QED BY <1>0, <1>4, <1>5, <1>6

\* There are no spans but those of on_log.
Logged == "on_log" \in hooks \/ otel.spans = <<>>

\* The telemetry that follows is one, too.
LEMMA HandledKeeps ==
    ASSUME NEW o, NEW n, NEW c \in Contexts, NEW e, NEW H, Handled(o, n, c, e, H),
           "on_log" \in H \/ o.spans = <<>>
    PROVE  TelemetryOK(n) /\ ("on_log" \in H \/ n.spans = <<>>)
BY DEF Handled, Frame, Ignored, Noticed, Heeded, Closed

\* An event of the execution under way in c: it knows of no other execution.
EventIn(c, e) ==
    /\ EventOK(e) /\ e.of = Innermost(c)
    /\ e.class \in {Innermost(c), None} /\ e.operation \in {Innermost(c), None}

\* An event of its loop, and what it counts as.
LoopEvent(c, x, e) ==
    /\ EventIn(c, e) /\ e.name \notin CIRCUIT_EVENTS /\ e.attempt \in Nat
    /\ x.told = Current(c).told \cup
          IF e.attempt = 0 THEN {"aside"} ELSE IF Terminal(e) THEN {"end"} ELSE {"attempt"}
    /\ Terminal(e) => x.pc = "done"

\* What is heard in a step of the execution under way in c.
Hearing(c, x) ==
    \E m :
        /\ TelemetryOK(m) /\ ("on_log" \in hooks \/ m.spans = <<>>)
        /\ \/ m = otel /\ x.told = Current(c).told
           \/ \E e : LoopEvent(c, x, e) /\ Handled(otel, m, c, e, hooks)
        /\ \/ otel' = m
           \/ \E e : /\ EventIn(c, e) /\ e.name \in CIRCUIT_EVENTS
                    /\ Handled(m, otel', c, e, hooks)

\* What an execution under way emits is an event of its context.
LEMMA EventIsIn ==
    ASSUME TypeOK, UnderWay, NEW c \in Contexts, Busy(c), NEW name, NEW attempt \in Nat,
           NEW class \in BOOLEAN, name \in CIRCUIT_EVENTS => attempt = 0
    PROVE  LET e == Event(Innermost(c), name, attempt, class)
           IN  EventIn(c, e) /\ e.name = name /\ e.attempt = attempt
<1>1. Innermost(c) \in Nat
  BY CurrentUnderWay DEF Ids
<1> QED BY <1>1 DEF Event, EventIn, EventOK, Id

\* What the hooks are told, they hear.
LEMMA SpeechHeard ==
    ASSUME TypeOK, UnderWay, Logged, NEW c \in Contexts, Busy(c), NEW x, Speech(c, x)
    PROVE  Hearing(c, x)
<1>0. hooks \in SUBSET {"on_metric", "on_log"} /\ TelemetryOK(otel)
  BY WorkerAssumption DEF TypeOK
<1>1. PICK m :
        /\ \/ m = otel /\ x.told = Current(c).told
           \/ \E name : \E n \in Nat, class \in BOOLEAN :
                 /\ m = Emitted(otel, c, name, n, class)
                 /\ x.told = Current(c).told \cup Told(name, n)
                 /\ name \notin CIRCUIT_EVENTS /\ (name \in TERMINAL_EVENTS => x.pc = "done")
        /\ \/ otel' = m
           \/ \E name \in CIRCUIT_EVENTS, class \in BOOLEAN : otel' = Emitted(m, c, name, 0, class)
  BY DEF Speech
<1>2. /\ TelemetryOK(m) /\ ("on_log" \in hooks \/ m.spans = <<>>)
      /\ \/ m = otel /\ x.told = Current(c).told
         \/ \E e : LoopEvent(c, x, e) /\ Handled(otel, m, c, e, hooks)
  <2>1. CASE m = otel /\ x.told = Current(c).told
    BY <1>0, <2>1 DEF Logged
  <2>2. ASSUME NEW name, NEW n \in Nat, NEW class \in BOOLEAN,
               m = Emitted(otel, c, name, n, class),
               x.told = Current(c).told \cup Told(name, n),
               name \notin CIRCUIT_EVENTS, name \in TERMINAL_EVENTS => x.pc = "done"
        PROVE  /\ TelemetryOK(m) /\ ("on_log" \in hooks \/ m.spans = <<>>)
               /\ \E e : LoopEvent(c, x, e) /\ Handled(otel, m, c, e, hooks)
    <3> DEFINE e == Event(Innermost(c), name, n, class)
    <3>1. EventIn(c, e) /\ e.name = name /\ e.attempt = n /\ EventOK(e)
      BY <1>0, <2>2, EventIsIn DEF EventIn
    <3>2. m = emit(otel, c, e, hooks)
      BY <2>2 DEF Emitted
    <3> HIDE DEF e
    <3>3. Handled(otel, m, c, e, hooks)
      BY <1>0, <3>1, <3>2, EmitCases DEF Logged
    <3>4. LoopEvent(c, x, e)
      BY <1>0, <2>2, <3>1 DEF LoopEvent, Told, Terminal
    <3>5. TelemetryOK(m) /\ ("on_log" \in hooks \/ m.spans = <<>>)
      BY <3>3, HandledKeeps DEF Logged
    <3> QED BY <3>3, <3>4, <3>5
  <2> QED BY <1>1, <2>1, <2>2
<1>3. \/ otel' = m
      \/ \E e : /\ EventIn(c, e) /\ e.name \in CIRCUIT_EVENTS
               /\ Handled(m, otel', c, e, hooks)
  <2>1. ASSUME NEW name \in CIRCUIT_EVENTS, NEW class \in BOOLEAN,
               otel' = Emitted(m, c, name, 0, class)
        PROVE  \E e : /\ EventIn(c, e) /\ e.name \in CIRCUIT_EVENTS
                     /\ Handled(m, otel', c, e, hooks)
    <3> DEFINE e == Event(Innermost(c), name, 0, class)
    <3>1. EventIn(c, e) /\ e.name = name /\ EventOK(e)
      BY EventIsIn DEF EventIn
    <3>2. otel' = emit(m, c, e, hooks)
      BY <2>1 DEF Emitted
    <3> HIDE DEF e
    <3>3. Handled(m, emit(m, c, e, hooks), c, e, hooks)
      BY <1>0, <1>2, <3>1, EmitCases
    <3> QED BY <2>1, <3>1, <3>2, <3>3
  <2> QED BY <1>1, <2>1
<1> QED BY <1>2, <1>3 DEF Hearing

\* A step keeps the telemetry of its type.
LEMMA TelemetryTyped ==
    ASSUME TypeOK, UnderWay, Logged, [Next]_vars
    PROVE  TelemetryOK(otel') /\ Logged'
<1>0. TelemetryOK(otel)
  BY DEF TypeOK
<1>1. ASSUME NEW task, NEW policy, NEW around, Starts("worker", otel, task, policy, around)
      PROVE  TelemetryOK(otel') /\ Logged'
  BY <1>0, <1>1 DEF Starts, Begin, Logged
<1>2. ASSUME NEW policy, Starts("child", Inherited, None, policy, {Innermost("worker")})
      PROVE  TelemetryOK(otel') /\ Logged'
  <2>1. otel' = Inherited /\ hooks' = hooks
    BY <1>2 DEF Starts, Begin
  <2> DEFINE there == [otel.contexts EXCEPT !["child"] = otel.contexts["worker"]]
             n == Inherited
  <2>2. n = [otel EXCEPT !.contexts = there]
    BY DEF Inherited
  <2>3. /\ "worker" \in Contexts /\ otel.contexts \in [Contexts -> Id]
        /\ \A d \in Contexts : there[d] \in {otel.contexts[d], otel.contexts["worker"]}
        /\ there \in [Contexts -> Id]
    BY <1>0, WorkerAssumption DEF TelemetryOK
  <2> HIDE DEF there, n
  <2>4. /\ n.contexts = there /\ n.states = otel.states /\ n.spans = otel.spans
        /\ n.durations = otel.durations
        /\ n = [ contexts |-> n.contexts, states |-> n.states, spans |-> n.spans,
                 durations |-> n.durations ]
    BY <1>0, <2>2 DEF TelemetryOK
  <2>5. \A d \in Contexts : there[d] \in 1..Len(otel.states) \cup {None}
    BY <1>0, <2>3 DEF TelemetryOK
  <2>6. TelemetryOK(n)
    BY <1>0, <2>3, <2>4, <2>5 DEF TelemetryOK
  <2> QED BY <2>1, <2>4, <2>6 DEF Logged, n
<1>3. ASSUME NEW c \in Contexts, NEW x, Moves(c, x) \/ Leaves(c, x), Speech(c, x)
      PROVE  TelemetryOK(otel') /\ Logged'
  <2>1. Busy(c) /\ hooks' = hooks
    BY <1>3 DEF Moves, Leaves, Idle
  <2>2. Hearing(c, x)
    BY <1>3, <2>1, SpeechHeard
  <2> QED BY <2>1, <2>2, HandledKeeps DEF Hearing, Logged
<1>4. CASE UNCHANGED vars
  BY <1>0, <1>4 DEF vars, Logged
<1> QED BY <1>1, <1>2, <1>3, <1>4, NextSpeaks DEF Drops, Ends

-----------------------------------------------------------------------------------
(* What holds of every state.                                                      *)

\* The inductive invariant that the others rest on.
Sound == TypeOK /\ UnderWay /\ Logged

\* The invariant holds at first.
LEMMA SoundInit == Init => Sound
<1> SUFFICES ASSUME Init PROVE Sound
  OBVIOUS
<1>1. /\ Len(executions) = 0 /\ executions \in Seq(Execution) /\ Ids = {}
      /\ \A c \in Contexts : stack[c] = <<>> /\ Len(stack[c]) = 0
      /\ stack \in [Contexts -> Seq(1..Len(executions))]
  BY EmptySeq DEF Init, Ids
<1>2. deliveries \in [Tasks -> Nat]
  BY DEF Init
<1>3. TelemetryOK(otel) /\ otel.spans = <<>>
  BY EmptySeq DEF Init, NoTelemetry, TelemetryOK, Id
<1>4. UnderWay
  BY <1>1 DEF UnderWay
<1> QED BY <1>1, <1>2, <1>3, <1>4 DEF Sound, TypeOK, UnderWay, Done, Init, Logged

\* Every step keeps it.
LEMMA SoundNext == Sound /\ [Next]_vars => Sound'
<1> SUFFICES ASSUME Sound, [Next]_vars PROVE Sound'
  OBVIOUS
<1>1. UnderWay'
  BY UnderWayKept DEF Sound
<1>2. TelemetryOK(otel') /\ Logged'
  BY TelemetryTyped DEF Sound
<1>3. /\ hooks' \in Hooks /\ deliveries' \in [Tasks -> Nat]
      /\ executions' \in Seq(Execution) /\ stack' \in [Contexts -> Seq(Ids')]
  BY RestTyped DEF Sound
<1> QED BY <1>1, <1>2, <1>3 DEF Sound, TypeOK, UnderWay, Done, Ids

\* Every reachable state has it.
LEMMA AlwaysSound == Spec => []Sound
BY SoundInit, SoundNext, PTL DEF Spec

\* The types hold in every reachable state: the stacks hold executions that there are, and
\* no context refers to a state, and no state to a span, that the hooks do not have.
THEOREM WorkerTypeCorrect == Spec => []TypeOK
<1>1. Sound => TypeOK
  BY DEF Sound
<1> QED BY <1>1, AlwaysSound, PTL

\* With Celery's sleep handler, which defers, no delivery calls the operation twice.
THEOREM OneCallPerDeliveryHolds == Spec => []OneCallPerDelivery
<1>1. Init => Counted
  BY DEF Init, Counted, Ids
<1>2. Sound /\ Counted /\ [Next]_vars => Counted'
  BY CountedKept DEF Sound
<1>3. Counted => OneCallPerDelivery
  BY DEF Counted, CountsCalls, OneCallPerDelivery
<1> QED BY <1>1, <1>2, <1>3, AlwaysSound, PTL DEF Spec

\* A task is in the queue once at most, and only if no execution of it is under way or
\* has ended otherwise than scheduled: execute_task_with_retry calls task.retry() for
\* scheduled outcomes alone.
THEOREM RedeliveredOnlyIfScheduledHolds == Spec => []RedeliveredOnlyIfScheduled
<1>1. Init => OnePlace
  BY DEF Init, OnePlace, Ids
<1>2. Sound /\ OnePlace /\ [Next]_vars => OnePlace'
  BY OnePlaceKept DEF Sound
<1>3. OnePlace => RedeliveredOnlyIfScheduled
  BY DEF OnePlace, Scheduled, RedeliveredOnlyIfScheduled
<1> QED BY <1>1, <1>2, <1>3, AlwaysSound, PTL DEF Spec

-----------------------------------------------------------------------------------
(* What an event in one context leaves alone.                                      *)

\* The other contexts refer to the states they referred to, which are as they were unless
\* they are that of c.
LEMMA OthersKept ==
    ASSUME NEW o, NEW n, NEW c \in Contexts, NEW d \in Contexts, d # c, TelemetryOK(o),
           Frame(o, n, c)
    PROVE  /\ n.contexts[d] = o.contexts[d] /\ (Has(n, d) <=> Has(o, d))
           /\ Has(o, d) => o.contexts[d] \in 1..Len(o.states)
           /\ Has(n, d) /\ o.contexts[d] # o.contexts[c] =>
                 StateOf(n, d) = StateOf(o, d) /\ n.contexts[d] # n.contexts[c]
           /\ Has(n, d) /\ StateOf(n, d).span \in 1..Len(o.spans) =>
                 StateOf(n, d).span = StateOf(o, d).span
<1>1. n.contexts[d] = o.contexts[d] /\ (Has(n, d) <=> Has(o, d))
  BY DEF Frame, Has
<1>2. Has(o, d) => o.contexts[d] \in 1..Len(o.states)
  BY DEF TelemetryOK, Has
<1>3. Has(n, d) /\ o.contexts[d] # o.contexts[c] =>
         StateOf(n, d) = StateOf(o, d) /\ n.contexts[d] # n.contexts[c]
  <2>1. Len(o.states) \in Nat
    BY LenProperties DEF TelemetryOK
  <2>2. n.contexts[c] \in {None, o.contexts[c]} \/ n.contexts[c] > Len(o.states)
    BY DEF Frame
  <2> QED BY <1>1, <1>2, <2>1, <2>2 DEF Frame, StateOf, Has
<1>4. Has(n, d) /\ StateOf(n, d).span \in 1..Len(o.spans) =>
         StateOf(n, d).span = StateOf(o, d).span
  BY <1>1, <1>2 DEF Frame, StateOf
<1> QED BY <1>1, <1>2, <1>3, <1>4

\* The span of context c is the one it was, or a new one.
LEMMA OwnSpanKept ==
    ASSUME NEW o, NEW n, NEW c \in Contexts, TelemetryOK(o), NEW e, NEW H, Handled(o, n, c, e, H),
           Has(n, c)
    PROVE  /\ StateOf(n, c).span \in {Before(o, c).span, SpanFor(o, c)}
           /\ StateOf(n, c).span \in 1..Len(o.spans) =>
                 Has(o, c) /\ StateOf(n, c).span = StateOf(o, c).span
<1>1. StateOf(n, c).span \in {Before(o, c).span, SpanFor(o, c)}
  BY DEF Handled, Ignored, Noticed, Heeded, Spoken, Closed, Before
<1>2. ASSUME StateOf(n, c).span \in 1..Len(o.spans)
      PROVE  Has(o, c) /\ StateOf(n, c).span = StateOf(o, c).span
  <2>1. None \notin 1..Len(o.spans) /\ Len(o.spans) + 1 \notin 1..Len(o.spans)
    BY WorkerAssumption, LenProperties DEF TelemetryOK
  <2>2. Before(o, c).span # None /\ StateOf(n, c).span = Before(o, c).span
    BY <1>1, <1>2, <2>1 DEF SpanFor
  <2> QED BY <2>2 DEF Before, Blank
<1> QED BY <1>1, <1>2

\* The spans but that of c are as they were, and only those of c are new.
LEMMA SpansKept ==
    ASSUME NEW o, NEW n, NEW c \in Contexts, TelemetryOK(o), NEW e, NEW H, Handled(o, n, c, e, H)
    PROVE  /\ Len(o.spans) \in Nat /\ Len(n.spans) \in Nat /\ Len(n.spans) >= Len(o.spans)
           /\ \A s \in 1..Len(o.spans) : s # Before(o, c).span => n.spans[s] = o.spans[s]
           /\ \A s \in 1..Len(n.spans) : s # SpanFor(o, c) => s \in 1..Len(o.spans)
<1>1. Len(o.spans) \in Nat /\ Len(n.spans) \in Nat /\ Len(n.spans) >= Len(o.spans)
  BY LenProperties DEF Handled, Frame, TelemetryOK
<1>2. CASE n.spans = o.spans
  BY <1>1, <1>2
<1>3. ASSUME NEW more, Speaks(o, n, c, e, more)
      PROVE  /\ \A s \in 1..Len(o.spans) : s # Before(o, c).span => n.spans[s] = o.spans[s]
             /\ \A s \in 1..Len(n.spans) : s # SpanFor(o, c) => s \in 1..Len(o.spans)
  <2>1. Len(o.spans) + 1 \notin 1..Len(o.spans)
    BY <1>1
  <2>2. \A s \in 1..Len(o.spans) : s # Before(o, c).span => s # SpanFor(o, c)
    BY <2>1 DEF SpanFor
  <2>3. Len(n.spans) = IF Before(o, c).span = None THEN Len(o.spans) + 1 ELSE Len(o.spans)
    BY <1>3 DEF Speaks
  <2>4. \A s \in 1..Len(n.spans) : s # SpanFor(o, c) => s \in 1..Len(o.spans)
    BY <1>1, <2>3 DEF SpanFor
  <2> QED BY <1>3, <2>2, <2>4 DEF Speaks
<1> QED BY <1>1, <1>2, <1>3 DEF Handled, Ignored, Noticed, Heeded, Spoken, Closed

-----------------------------------------------------------------------------------
(* Spans that have ended.                                                          *)

\* The contexts know of spans of their own that have not ended, and no span has been told
\* anything since it did.
Apart(o) ==
    /\ \A c, d \in Contexts : c # d /\ Has(o, c) => o.contexts[c] # o.contexts[d]
    /\ \A c \in Contexts : Has(o, c) /\ StateOf(o, c).span # None =>
          /\ o.spans[StateOf(o, c).span].ends = 0
          /\ \A d \in Contexts : c # d /\ Has(o, d) => StateOf(o, d).span # StateOf(o, c).span
    /\ \A s \in 1..Len(o.spans) : ~o.spans[s].late /\ o.spans[s].ends <= 1

\* An event in context c keeps them apart.
LEMMA ApartKept ==
    ASSUME NEW o, NEW n, NEW c \in Contexts, TelemetryOK(o), Apart(o), NEW e, NEW H,
           Handled(o, n, c, e, H)
    PROVE  Apart(n)
<1>0. None \notin Nat /\ Len(o.spans) \in Nat /\ Frame(o, n, c)
  BY WorkerAssumption, LenProperties DEF TelemetryOK, Handled
<1>1. ASSUME NEW d \in Contexts, d # c, Has(o, d)
      PROVE  /\ o.contexts[d] # o.contexts[c] /\ Has(n, d) /\ StateOf(n, d) = StateOf(o, d)
             /\ n.contexts[d] # n.contexts[c]
  BY <1>0, <1>1, OthersKept DEF Apart
<1>2. \A d \in Contexts : d # c => n.contexts[d] = o.contexts[d] /\ (Has(n, d) <=> Has(o, d))
  BY <1>0, OthersKept
<1>3. ASSUME NEW b \in Contexts, NEW d \in Contexts, b # d, Has(n, b)
      PROVE  n.contexts[b] # n.contexts[d]
  <2>1. CASE b # c /\ d # c
    BY <1>2, <1>3, <2>1 DEF Apart
  <2>2. CASE b = c /\ Has(n, d)
    BY <1>1, <1>2, <1>3, <2>2
  <2>3. CASE b = c /\ ~Has(n, d)
    BY <1>3, <2>3 DEF Has
  <2>4. CASE d = c
    BY <1>1, <1>2, <1>3, <2>4
  <2> QED BY <2>1, <2>2, <2>3, <2>4
<1>4. Before(o, c).span # None =>
         Has(o, c) /\ StateOf(o, c).span = Before(o, c).span /\ o.spans[Before(o, c).span].ends = 0
  BY DEF Before, Blank, Apart
<1>5. ASSUME NEW d \in Contexts, d # c, Has(n, d), StateOf(n, d).span # None
      PROVE  /\ StateOf(n, d).span \in 1..Len(o.spans) /\ StateOf(n, d).span # Before(o, c).span
             /\ StateOf(n, d).span = StateOf(o, d).span
             /\ n.spans[StateOf(n, d).span].ends = 0
             /\ Has(n, c) => StateOf(n, c).span # StateOf(n, d).span
  <2>1. Has(o, d) /\ StateOf(n, d) = StateOf(o, d)
    BY <1>1, <1>2, <1>5
  <2>2. StateOf(n, d).span \in 1..Len(o.spans)
    BY <1>5, <2>1 DEF TelemetryOK, Has, StateOf
  <2>3. Has(o, c) => StateOf(o, c).span # StateOf(n, d).span
    BY <1>5, <2>1 DEF Apart
  <2>4. StateOf(n, d).span # Before(o, c).span
    BY <1>4, <1>5, <2>3
  <2>5. o.spans[StateOf(n, d).span].ends = 0
    BY <1>5, <2>1 DEF Apart
  <2>6. n.spans[StateOf(n, d).span].ends = 0
    BY <2>2, <2>4, <2>5, SpansKept
  <2>7. Has(n, c) => StateOf(n, c).span # StateOf(n, d).span
    BY <2>2, <2>3, OwnSpanKept
  <2> QED BY <2>1, <2>2, <2>4, <2>6, <2>7
<1>6. ASSUME NEW more \in {0, 1}, Speaks(o, n, c, e, more)
      PROVE  ~n.spans[SpanFor(o, c)].late /\ n.spans[SpanFor(o, c)].ends = more
  <2>1. SpanWas(o, c).ends = 0
    BY <1>4 DEF SpanWas, Silent
  <2>2. /\ n.spans[SpanFor(o, c)].late = (SpanWas(o, c).ends > 0)
        /\ n.spans[SpanFor(o, c)].ends = SpanWas(o, c).ends + more
    BY <1>6 DEF Speaks
  <2>3. ~(SpanWas(o, c).ends > 0) /\ SpanWas(o, c).ends + more = more
    BY <2>1
  <2>4. n.spans[SpanFor(o, c)].ends = more
    BY <2>2, <2>3
  <2>5. ~n.spans[SpanFor(o, c)].late
    BY <2>2, <2>3, Zenon
  <2> QED BY <2>4, <2>5
<1>7. ASSUME Has(n, c), StateOf(n, c).span # None
      PROVE  n.spans[StateOf(n, c).span].ends = 0
  <2>1. CASE Ignored(o, n, e, H)
    BY <1>7, <2>1 DEF Ignored, Apart
  <2>2. CASE Noticed(o, n, c, e) \/ Heeded(o, n, c, e)
    BY <1>4, <1>7, <2>2 DEF Noticed, Heeded
  <2>3. CASE Spoken(o, n, c, e)
    BY <1>6, <2>3 DEF Spoken
  <2> QED BY <1>7, <2>1, <2>2, <2>3 DEF Handled, Closed
<1>8. ASSUME NEW b \in Contexts, Has(n, b), StateOf(n, b).span # None
      PROVE  /\ n.spans[StateOf(n, b).span].ends = 0
             /\ \A d \in Contexts : b # d /\ Has(n, d) => StateOf(n, d).span # StateOf(n, b).span
  <2>1. n.spans[StateOf(n, b).span].ends = 0
    BY <1>5, <1>7, <1>8
  <2>2. ASSUME NEW d \in Contexts, b # d, Has(n, d), StateOf(n, d).span = StateOf(n, b).span
        PROVE  FALSE
    <3>1. CASE b = c \/ d = c
      BY <1>5, <1>8, <2>2, <3>1
    <3>2. CASE b # c /\ d # c
      <4>1. StateOf(n, b).span = StateOf(o, b).span /\ StateOf(n, d).span = StateOf(o, d).span
        BY <1>5, <1>8, <2>2, <3>2
      <4>2. Has(o, b) /\ Has(o, d)
        BY <1>2, <1>8, <2>2, <3>2
      <4> QED BY <1>8, <2>2, <4>1, <4>2 DEF Apart
    <3> QED BY <3>1, <3>2
  <2> QED BY <2>1, <2>2
<1>9. ASSUME NEW s \in 1..Len(n.spans) PROVE ~n.spans[s].late /\ n.spans[s].ends <= 1
  <2> DEFINE Fine == ~n.spans[s].late /\ n.spans[s].ends <= 1
  <2> SUFFICES Fine
    OBVIOUS
  <2>1. CASE s # SpanFor(o, c)
    <3>1. s \in 1..Len(o.spans)
      BY <2>1, SpansKept
    <3>2. s # Before(o, c).span
      BY <1>0, <2>1, <3>1 DEF SpanFor
    <3>3. n.spans[s] = o.spans[s]
      BY <3>1, <3>2, SpansKept
    <3>4. ~o.spans[s].late /\ o.spans[s].ends <= 1
      BY <3>1 DEF Apart
    <3> QED BY <3>3, <3>4
  <2>2. CASE n.spans = o.spans
    BY <2>2 DEF Apart
  <2>3. CASE s = SpanFor(o, c) /\ \E more \in {0, 1} : Speaks(o, n, c, e, more)
    BY <1>6, <2>3
  <2>4. n.spans = o.spans \/ \E more \in {0, 1} : Speaks(o, n, c, e, more)
    BY DEF Handled, Ignored, Noticed, Heeded, Spoken, Closed
  <2> HIDE DEF Fine
  <2> QED BY <2>1, <2>2, <2>3, <2>4
<1> QED BY <1>3, <1>8, <1>9 DEF Apart

\* No span is told anything once it has ended where no child shares the state of its parent.
UnsharedApart == NothingShared => Apart(otel)

\* What has shared its state has, whatever follows.
LEMMA UnsharedSoFar ==
    ASSUME TypeOK, UnderWay, [Next]_vars, NothingShared'
    PROVE  NothingShared
<1>1. ASSUME NEW c \in Contexts, NEW o, NEW task, NEW policy, NEW around,
             Starts(c, o, task, policy, around)
      PROVE  NothingShared
  <2>1. \A e \in Ids : e \in Ids' /\ Later(e, e \notin around)
    BY <1>1, OneMore
  <2> QED BY <2>1 DEF NothingShared, Later
<1>2. ASSUME NEW c \in Contexts, NEW x, Moves(c, x) \/ Leaves(c, x)
      PROVE  NothingShared
  <2>1. /\ Busy(c) /\ x \in Execution /\ Now(c, x) /\ x.shared = Current(c).shared
    BY <1>2 DEF Moves, Leaves, Like
  <2>2. /\ Ids' = Ids /\ executions'[Innermost(c)] = x
        /\ \A e \in Ids : e # Innermost(c) => executions'[e] = executions[e]
    BY <2>1, OneChanges DEF Ids
  <2> QED BY <2>1, <2>2 DEF NothingShared, Current
<1>3. CASE UNCHANGED vars
  BY <1>3 DEF vars, NothingShared, Ids
<1> QED BY <1>1, <1>2, <1>3, NextCases DEF Drops, Ends

\* An execution that begins in the child shares nothing only if there was nothing to share.
LEMMA NothingInherited ==
    ASSUME TypeOK, NEW policy, NothingShared',
           Starts("child", Inherited, None, policy, {Innermost("worker")})
    PROVE  /\ otel' = Inherited /\ TelemetryOK(otel)
           /\ otel'.contexts = [otel.contexts EXCEPT !["child"] = None]
           /\ otel'.states = otel.states /\ otel'.spans = otel.spans
           /\ otel'.durations = otel.durations
           /\ ~Has(otel, "worker") /\ ~Has(otel', "child") /\ ~Has(otel', "worker")
<1>0. Contexts = {"worker", "child"}
  BY WorkerAssumption
<1>1. TelemetryOK(otel) /\ otel' = Inherited
  BY DEF TypeOK, Starts, Begin
<1> DEFINE n == Inherited
<1>2. /\ n.contexts = [otel.contexts EXCEPT !["child"] = otel.contexts["worker"]]
      /\ n.states = otel.states /\ n.spans = otel.spans /\ n.durations = otel.durations
  BY <1>1 DEF Inherited, TelemetryOK
<1>3. n.contexts["child"] = otel.contexts["worker"] /\ n.contexts["worker"] = otel.contexts["worker"]
  BY <1>0, <1>1, <1>2 DEF TelemetryOK
<1>4. ~Has(otel, "worker")
  <2>1. ~Shared(n, "child")
    <3> DEFINE new == Len(executions) + 1
    <3>1. executions'[new] = New("child", n, None, policy) /\ new \in Ids'
      BY <1>0, OneMore
    <3>2. ~executions'[new].shared
      BY <3>1 DEF NothingShared
    <3> HIDE DEF new, n
    <3> QED BY <3>1, <3>2 DEF New
  <2>2. Has(otel, "worker") => Has(n, "child")
    BY <1>3 DEF Has
  <2> QED BY <1>0, <1>3, <2>1, <2>2 DEF Shared
<1> HIDE DEF n
<1>5. otel' = n
  BY <1>1 DEF n
<1> QED BY <1>1, <1>2, <1>3, <1>4, <1>5 DEF Has

\* A step keeps the contexts apart.
LEMMA UnsharedApartKept ==
    ASSUME Sound, UnsharedApart, [Next]_vars
    PROVE  UnsharedApart'
<1> SUFFICES ASSUME NothingShared' PROVE Apart(otel')
  BY DEF UnsharedApart
<1>0. Apart(otel) /\ TelemetryOK(otel)
  BY UnsharedSoFar DEF UnsharedApart, Sound, TypeOK
<1>1. ASSUME NEW task, NEW policy, NEW around, Starts("worker", otel, task, policy, around)
      PROVE  Apart(otel')
  BY <1>0, <1>1 DEF Starts, Begin
<1>2. ASSUME NEW policy, Starts("child", Inherited, None, policy, {Innermost("worker")})
      PROVE  Apart(otel')
  <2>1. /\ otel'.states = otel.states /\ otel'.spans = otel.spans
        /\ ~Has(otel', "child") /\ ~Has(otel', "worker")
    BY <1>2, NothingInherited DEF Sound
  <2> QED BY <1>0, <2>1, WorkerAssumption DEF Apart
<1>3. ASSUME NEW c \in Contexts, NEW x, Moves(c, x) \/ Leaves(c, x), Speech(c, x)
      PROVE  Apart(otel')
  <2>1. Busy(c)
    BY <1>3 DEF Moves, Leaves
  <2>2. Hearing(c, x)
    BY <1>3, <2>1, SpeechHeard DEF Sound
  <2>3. PICK m :
           /\ TelemetryOK(m)
           /\ m = otel \/ \E e : Handled(otel, m, c, e, hooks)
           /\ otel' = m \/ \E e : Handled(m, otel', c, e, hooks)
    BY <2>2 DEF Hearing
  <2>4. Apart(m)
    BY <1>0, <2>3, ApartKept
  <2> QED BY <2>3, <2>4, ApartKept
<1>4. CASE UNCHANGED vars
  BY <1>0, <1>4 DEF vars
<1> QED BY <1>1, <1>2, <1>3, <1>4, NextSpeaks DEF Drops, Ends, Sound

\* Nothing is added to a span that has ended, nor is it ended again, unless a child task
\* shares the state of its parent: on_log lets go of the state with the terminal event.
THEOREM EndedSpansSilentHolds == Spec => []EndedSpansSilent
<1>1. Init => UnsharedApart
  BY EmptySeq DEF Init, NoTelemetry, UnsharedApart, Apart, Has
<1>2. Sound /\ UnsharedApart /\ [Next]_vars => UnsharedApart'
  BY UnsharedApartKept
<1>3. UnsharedApart => EndedSpansSilent
  BY DEF UnsharedApart, Apart, EndedSpansSilent
<1> QED BY <1>1, <1>2, <1>3, AlwaysSound, PTL DEF Spec

-----------------------------------------------------------------------------------
(* What a context is left with.                                                    *)

\* Hooks that are not there know nothing.
Deaf == hooks = {} => \A c \in Contexts : ~Has(otel, c)

\* The executions under way are on the stacks, and have not told their end.
OnStack ==
    \A e \in Ids : ~Done(e) =>
        /\ \E c \in Contexts : \E i \in 1..Len(stack[c]) : stack[c][i] = e
        /\ "end" \notin executions[e].told

\* An execution that begins in c leaves the stacks as they were below it.
LEMMA PushedStays ==
    ASSUME TypeOK, NEW c \in Contexts, NEW o, NEW task, NEW policy, NEW around,
           Starts(c, o, task, policy, around)
    PROVE  /\ \A d \in Contexts : \A i \in 1..Len(stack[d]) :
                 i \in 1..Len(stack'[d]) /\ stack'[d][i] = stack[d][i]
           /\ \E i \in 1..Len(stack'[c]) : stack'[c][i] = Len(executions) + 1
           /\ Len(stack'[c]) = Len(stack[c]) + 1
           /\ \A d \in Contexts : d # c => stack'[d] = stack[d]
<1> DEFINE new == Len(executions) + 1
           longer == Append(stack[c], new)
<1>1. stack' = [stack EXCEPT ![c] = longer] /\ stack \in [Contexts -> Seq(Ids)]
  BY DEF Starts, Begin, TypeOK, Ids
<1>2. /\ stack[c] \in Seq(Ids \cup {new}) /\ Len(stack[c]) \in Nat
      /\ \A d \in Contexts : Len(stack[d]) \in Nat
  BY <1>1, LenProperties
<1> HIDE DEF new
<1>3. /\ Len(longer) = Len(stack[c]) + 1 /\ longer[Len(stack[c]) + 1] = new
      /\ \A i \in 1..Len(stack[c]) : longer[i] = stack[c][i]
  BY <1>2, AppendProperties
<1> HIDE DEF longer
<1>4. stack'[c] = longer /\ \A d \in Contexts : d # c => stack'[d] = stack[d]
  BY <1>1
<1>5. \A d \in Contexts : \A i \in 1..Len(stack[d]) :
         i \in 1..Len(stack'[d]) /\ stack'[d][i] = stack[d][i]
  BY <1>2, <1>3, <1>4
<1>6. Len(stack[c]) + 1 \in 1..Len(stack'[c]) /\ stack'[c][Len(stack[c]) + 1] = new
  BY <1>2, <1>3, <1>4
<1> QED BY <1>3, <1>4, <1>5, <1>6 DEF new

\* When the execution under way in c ends, the others stay on the stacks.
LEMMA PoppedStays ==
    ASSUME TypeOK, UnderWay, NEW c \in Contexts, NEW x, Leaves(c, x),
           NEW d \in Contexts, NEW i \in 1..Len(stack[d]), stack[d][i] # Innermost(c)
    PROVE  i \in 1..Len(stack'[d]) /\ stack'[d][i] = stack[d][i]
<1> DEFINE n == Len(stack[c])
           rest == SubSeq(stack[c], 1, n - 1)
<1>1. Busy(c) /\ stack' = [stack EXCEPT ![c] = rest] /\ stack \in [Contexts -> Seq(Ids)]
  BY DEF Leaves, TypeOK, Ids
<1>2. n \in 1..n /\ n \in Nat /\ stack[c] \in Seq(Ids) /\ Innermost(c) = stack[c][n]
  BY <1>1, CurrentUnderWay
<1> HIDE DEF n
<1>3. /\ Len(rest) = n - 1 /\ \A j \in 1..(n - 1) : rest[j] = stack[c][j]
  <2>1. /\ 1 \in 1..(n + 1) /\ n - 1 \in 0..n /\ n = Len(stack[c])
    BY <1>2 DEF n
  <2> QED BY <1>2, <2>1, SubSeqProperties
<1> HIDE DEF rest
<1>4. stack'[c] = rest /\ (d # c => stack'[d] = stack[d])
  BY <1>1
<1>5. CASE d = c
  <2>1. i # n /\ i \in 1..n
    BY <1>2, <1>5 DEF n
  <2>2. i \in 1..(n - 1)
    BY <1>2, <2>1
  <2> QED BY <1>3, <1>4, <1>5, <2>2
<1>6. CASE d # c
  BY <1>4, <1>6
<1> QED BY <1>5, <1>6

\* An execution that goes on has not told its end.
LEMMA EndNotTold ==
    ASSUME NEW c, NEW x, Speech(c, x), "end" \notin Current(c).told, x.pc # "done"
    PROVE  "end" \notin x.told
BY DEF Speech, Told

\* A step keeps the executions under way on the stacks.
LEMMA OnStackKept ==
    ASSUME Sound, OnStack, [Next]_vars
    PROVE  OnStack'
<1>0. TypeOK /\ UnderWay
  BY DEF Sound
<1>1. ASSUME NEW c \in Contexts, NEW o, NEW task, NEW policy, NEW around,
             Starts(c, o, task, policy, around)
      PROVE  OnStack'
  <2> DEFINE new == Len(executions) + 1
  <2>1. /\ \A e \in Ids : executions'[e].pc = executions[e].pc /\ executions'[e].told = executions[e].told
        /\ Ids' = Ids \cup {new}
    <3>1. Ids' = Ids \cup {new} /\ \A e \in Ids : Later(e, e \notin around)
      BY <1>0, <1>1, OneMore
    <3> QED BY <3>1 DEF Later
  <2>2. "end" \notin executions'[new].told
    <3>1. executions'[new] = New(c, o, task, policy)
      BY <1>0, <1>1, OneMore
    <3> HIDE DEF new
    <3> QED BY <3>1 DEF New
  <2>3. /\ \A d \in Contexts : \A i \in 1..Len(stack[d]) :
              i \in 1..Len(stack'[d]) /\ stack'[d][i] = stack[d][i]
        /\ \E i \in 1..Len(stack'[c]) : stack'[c][i] = new
    BY <1>0, <1>1, PushedStays
  <2> HIDE DEF new
  <2>4. ASSUME NEW e \in Ids, executions'[e].pc # "done"
        PROVE  /\ \E d \in Contexts : \E i \in 1..Len(stack'[d]) : stack'[d][i] = e
               /\ "end" \notin executions'[e].told
    <3>1. ~Done(e)
      BY <2>1, <2>4 DEF Done
    <3> QED BY <2>1, <2>3, <3>1 DEF OnStack
  <2> QED BY <2>1, <2>2, <2>3, <2>4 DEF OnStack, Done
<1>2. ASSUME NEW c \in Contexts, NEW x, Moves(c, x) \/ Leaves(c, x), Speech(c, x)
      PROVE  OnStack'
  <2>1. Busy(c) /\ x \in Execution /\ Now(c, x)
    BY <1>2 DEF Moves, Leaves
  <2>2. /\ Ids' = Ids /\ executions'[Innermost(c)] = x
        /\ \A e \in Ids : e # Innermost(c) => executions'[e] = executions[e]
    BY <1>0, <2>1, OneChanges DEF Ids
  <2>3. /\ Innermost(c) \in Ids /\ "end" \notin Current(c).told
        /\ Len(stack[c]) \in 1..Len(stack[c]) /\ Innermost(c) = stack[c][Len(stack[c])]
    BY <1>0, <2>1, CurrentUnderWay DEF OnStack, Current
  <2>4. ASSUME x.pc # "done"
        PROVE  /\ "end" \notin x.told /\ stack' = stack
    BY <1>2, <2>3, <2>4, EndNotTold DEF Moves, Leaves, Idle
  <2>5. ASSUME NEW e \in Ids, e # Innermost(c), ~Done(e)
        PROVE  \E d \in Contexts : \E i \in 1..Len(stack'[d]) : stack'[d][i] = e
    <3>0. PICK d \in Contexts : \E i \in 1..Len(stack[d]) : stack[d][i] = e
      BY <2>5 DEF OnStack
    <3>1. PICK i \in 1..Len(stack[d]) : stack[d][i] = e
      BY <3>0
    <3>2. i \in 1..Len(stack'[d]) /\ stack'[d][i] = e
      BY <1>0, <1>2, <2>5, <3>1, PoppedStays DEF Moves, Idle
    <3> QED BY <3>2
  <2>6. ASSUME NEW e \in Ids, executions'[e].pc # "done"
        PROVE  /\ \E d \in Contexts : \E i \in 1..Len(stack'[d]) : stack'[d][i] = e
               /\ "end" \notin executions'[e].told
    <3>1. CASE e = Innermost(c)
      BY <2>2, <2>3, <2>4, <2>6, <3>1
    <3>2. CASE e # Innermost(c)
      BY <2>2, <2>5, <2>6, <3>2 DEF OnStack, Done
    <3> QED BY <3>1, <3>2
  <2> QED BY <2>2, <2>6 DEF OnStack, Done
<1>3. CASE UNCHANGED vars
  BY <1>3 DEF vars, OnStack, Done, Ids
<1> QED BY <1>0, <1>1, <1>2, <1>3, NextSpeaks DEF Drops, Ends, Sound

\* What is left in context c is left by e, which is over or under way in c.
LeftBy(c, e) ==
    /\ executions[e].told # {} /\ "end" \notin executions[e].told
    /\ Done(e) \/ \E i \in 1..Len(stack[c]) : stack[c][i] = e

\* Where no child task shares a state, whatever a context keeps is left by somebody.
Traced ==
    NothingShared =>
        \A c \in Contexts : Has(otel, c) /\ StateOf(otel, c) # Blank => \E e \in Ids : LeftBy(c, e)

\* A step keeps deaf hooks deaf.
LEMMA DeafKept ==
    ASSUME Sound, Deaf, [Next]_vars
    PROVE  Deaf'
<1> SUFFICES ASSUME hooks' = {}, NEW d \in Contexts PROVE ~Has(otel', d)
  BY DEF Deaf
<1>1. ASSUME NEW task, NEW policy, NEW around, Starts("worker", otel, task, policy, around)
      PROVE  ~Has(otel', d)
  BY <1>1 DEF Starts, Begin, Deaf
<1>2. ASSUME NEW policy, Starts("child", Inherited, None, policy, {Innermost("worker")})
      PROVE  ~Has(otel', d)
  <2>1. otel' = Inherited /\ hooks = {} /\ "worker" \in Contexts /\ TelemetryOK(otel)
    BY <1>2, WorkerAssumption DEF Starts, Begin, Sound, TypeOK
  <2>2. \A b \in Contexts : otel.contexts[b] = None
    BY <2>1 DEF Deaf, Has
  <2>3. Inherited.contexts = [otel.contexts EXCEPT !["child"] = otel.contexts["worker"]]
    BY <2>1 DEF Inherited, TelemetryOK
  <2>4. Inherited.contexts[d] = None
    BY <2>1, <2>2, <2>3 DEF TelemetryOK
  <2> QED BY <2>1, <2>4 DEF Has
<1>3. ASSUME NEW c \in Contexts, NEW x, Moves(c, x) \/ Leaves(c, x), Speech(c, x)
      PROVE  ~Has(otel', d)
  <2>1. Busy(c) /\ hooks = {}
    BY <1>3 DEF Moves, Leaves, Idle
  <2>2. otel' = otel
    BY <1>3, <2>1, SpeechHeard DEF Sound, Hearing, Handled
  <2> QED BY <2>1, <2>2 DEF Deaf
<1>4. CASE UNCHANGED vars
  BY <1>4 DEF vars, Deaf
<1> QED BY <1>1, <1>2, <1>3, <1>4, NextSpeaks DEF Drops, Ends, Sound

\* An event of the breaker tells the state nothing.
LEMMA BreakerTellsNothing ==
    ASSUME NEW o, NEW n, NEW c \in Contexts, NEW e, EventOK(e), e.name \in CIRCUIT_EVENTS, NEW H,
           Handled(o, n, c, e, H)
    PROVE  /\ n.spans = o.spans /\ n.durations = o.durations
           /\ Has(n, c) => StateOf(n, c) = Before(o, c)
<1>1. ~(e.attempt > 0)
  BY DEF EventOK
<1> QED BY <1>1 DEF Handled, Ignored, Noticed, Heeded, Spoken, Closed, Terminal, Before

\* What is left in a context once the execution under way there has gone on or ended.
LEMMA TracedByStep ==
    ASSUME Sound, Deaf, OnStack, Traced, NothingShared, Apart(otel),
           NEW c \in Contexts, NEW x, Moves(c, x) \/ Leaves(c, x), Speech(c, x),
           NEW d \in Contexts, Has(otel', d), StateOf(otel', d) # Blank
    PROVE  \E e \in Ids' : LeftBy(d, e)'
<1>0. TypeOK /\ UnderWay /\ Logged /\ TelemetryOK(otel)
  BY DEF Sound, TypeOK
<1>1. /\ Busy(c) /\ x \in Execution /\ Now(c, x) /\ hooks' = hooks
      /\ x.pc = "done" \/ stack' = stack
  BY DEF Moves, Leaves, Idle
<1>2. /\ Ids' = Ids /\ executions'[Innermost(c)] = x
      /\ \A e \in Ids : e # Innermost(c) => executions'[e] = executions[e]
  BY <1>0, <1>1, OneChanges DEF Ids
<1>3. /\ Innermost(c) \in Ids /\ ~Done(Innermost(c)) /\ "end" \notin Current(c).told
      /\ Len(stack[c]) \in 1..Len(stack[c]) /\ Innermost(c) = stack[c][Len(stack[c])]
  BY <1>0, <1>1, CurrentUnderWay DEF OnStack, Current
<1>4. ASSUME NEW e \in Ids, e # Innermost(c), LeftBy(d, e)
      PROVE  LeftBy(d, e)'
  <2>1. executions'[e] = executions[e]
    BY <1>2, <1>4
  <2>2. ASSUME NEW i \in 1..Len(stack[d]), stack[d][i] = e
        PROVE  \E j \in 1..Len(stack'[d]) : stack'[d][j] = e
    <3>1. i \in 1..Len(stack'[d]) /\ stack'[d][i] = e
      BY <1>0, <1>4, <2>2, PoppedStays DEF Moves, Idle
    <3> QED BY <3>1
  <2> QED BY <1>4, <2>1, <2>2 DEF LeftBy, Done
<1>5. ASSUME d = c, x.told # {}, "end" \notin x.told, NEW e \in Ids, e = Innermost(c)
      PROVE  LeftBy(d, e)'
  <2>1. x.pc = "done" \/ \E i \in 1..Len(stack'[d]) : stack'[d][i] = e
    BY <1>1, <1>3, <1>5
  <2> QED BY <1>2, <1>5, <2>1 DEF LeftBy, Done
<1>6. PICK m :
        /\ TelemetryOK(m)
        /\ \/ m = otel /\ x.told = Current(c).told
           \/ \E e : LoopEvent(c, x, e) /\ Handled(otel, m, c, e, hooks)
        /\ \/ otel' = m
           \/ \E e : /\ EventIn(c, e) /\ e.name \in CIRCUIT_EVENTS
                    /\ Handled(m, otel', c, e, hooks)
  BY <1>0, <1>1, SpeechHeard DEF Hearing
<1>7. ASSUME d # c
      PROVE  \E e \in Ids : LeftBy(d, e)'
  <2>1. Has(m, d) /\ StateOf(m, d) = StateOf(otel', d) /\ m.contexts[d] # m.contexts[c]
    <3>1. Apart(m)
      BY <1>0, <1>6, ApartKept
    <3>2. CASE otel' = m
      BY <1>7, <3>1, <3>2 DEF Apart
    <3>3. ASSUME NEW e, Handled(m, otel', c, e, hooks)
          PROVE  Has(m, d) /\ StateOf(m, d) = StateOf(otel', d) /\ m.contexts[d] # m.contexts[c]
      <4>1. Frame(m, otel', c)
        BY <3>3 DEF Handled
      <4>2. Has(m, d)
        BY <1>6, <1>7, <4>1, OthersKept
      <4>3. m.contexts[d] # m.contexts[c]
        BY <1>7, <3>1, <4>2 DEF Apart
      <4> QED BY <1>6, <1>7, <4>1, <4>2, <4>3, OthersKept
    <3> QED BY <1>6, <3>2, <3>3
  <2>2. Has(otel, d) /\ StateOf(otel, d) = StateOf(m, d)
    <3>1. CASE m = otel
      BY <2>1, <3>1
    <3>2. ASSUME NEW e, Handled(otel, m, c, e, hooks)
          PROVE  Has(otel, d) /\ StateOf(otel, d) = StateOf(m, d)
      <4>1. Frame(otel, m, c)
        BY <3>2 DEF Handled
      <4>2. Has(otel, d)
        BY <1>0, <1>7, <2>1, <4>1, OthersKept
      <4>3. otel.contexts[d] # otel.contexts[c]
        BY <1>7, <4>2 DEF Apart
      <4> QED BY <1>0, <1>7, <2>1, <4>1, <4>2, <4>3, OthersKept
    <3> QED BY <1>6, <3>1, <3>2
  <2>3. PICK e \in Ids : LeftBy(d, e)
    BY <2>1, <2>2 DEF Traced
  <2>4. e # Innermost(c)
    BY <1>0, <1>3, <1>7, <2>3 DEF LeftBy, UnderWay
  <2> QED BY <1>4, <2>3, <2>4
<1>8. ASSUME d = c
      PROVE  \E e \in Ids : LeftBy(d, e)'
  <2>1. Has(m, c) /\ StateOf(m, c) # Blank
    <3>1. ASSUME NEW e, EventIn(c, e), e.name \in CIRCUIT_EVENTS, Handled(m, otel', c, e, hooks)
          PROVE  Has(m, c) /\ StateOf(m, c) # Blank
      <4>1. StateOf(otel', c) = Before(m, c)
        BY <1>8, <3>1, BreakerTellsNothing DEF EventIn
      <4> QED BY <1>8, <4>1 DEF Before
    <3> QED BY <1>6, <1>8, <3>1
  <2>2. CASE m = otel
    <3>1. PICK e \in Ids : LeftBy(d, e)
      BY <1>8, <2>1, <2>2 DEF Traced
    <3>2. CASE e # Innermost(c)
      BY <1>4, <3>1, <3>2
    <3>3. CASE e = Innermost(c)
      <4>1. Current(c).told # {}
        BY <3>1, <3>3 DEF LeftBy, Current
      <4>2. hooks # {}
        BY <1>8, <2>1, <2>2 DEF Deaf
      <4>3. "end" \notin x.told /\ x.told # {}
        <5>1. CASE x.told = Current(c).told
          BY <1>3, <4>1, <5>1
        <5>2. ASSUME NEW a, LoopEvent(c, x, a), Handled(otel, m, c, a, hooks)
              PROVE  "end" \notin x.told /\ x.told # {}
          <6>1. ~Terminal(a)
            <7>1. Closed(otel, m, c, a, hooks) => ~Has(m, c)
              BY DEF Closed
            <7>2. Ignored(otel, m, a, hooks) => a.attempt = 0
              BY <4>2 DEF Ignored
            <7>3. Noticed(otel, m, c, a) => a.name \in CIRCUIT_EVENTS
              BY DEF Noticed
            <7>4. a.attempt = 0 => ~Terminal(a)
              BY DEF Terminal
            <7> QED BY <2>1, <5>2, <7>1, <7>2, <7>3, <7>4 DEF Handled, Heeded, Spoken, LoopEvent
          <6> QED BY <1>3, <4>1, <5>2, <6>1 DEF LoopEvent
        <5> QED BY <1>6, <5>1, <5>2
      <4> QED BY <1>3, <1>5, <1>8, <4>3
    <3> QED BY <3>2, <3>3
  <2>3. ASSUME NEW a, LoopEvent(c, x, a), Handled(otel, m, c, a, hooks), m # otel
        PROVE  \E e \in Ids : LeftBy(d, e)'
    <3>1. ~Terminal(a)
      <4>1. ~Closed(otel, m, c, a, hooks) /\ ~Ignored(otel, m, a, hooks)
        BY <2>1, <2>3 DEF Closed, Ignored
      <4>2. ~Noticed(otel, m, c, a)
        BY <2>3 DEF Noticed, LoopEvent
      <4> QED BY <2>3, <4>1, <4>2 DEF Handled, Heeded, Spoken
    <3>2. x.told # {} /\ "end" \notin x.told
      BY <1>3, <2>3, <3>1 DEF LoopEvent
    <3> QED BY <1>3, <1>5, <1>8, <3>2
  <2> QED BY <1>6, <2>2, <2>3
<1> QED BY <1>2, <1>7, <1>8

\* A step keeps what is left behind traced to an execution.
LEMMA TracedKept ==
    ASSUME Sound, Deaf, OnStack, UnsharedApart, Traced, [Next]_vars
    PROVE  Traced'
<1>0. TypeOK /\ UnderWay /\ TelemetryOK(otel)
  BY DEF Sound, TypeOK
<1> SUFFICES ASSUME NothingShared', NEW d \in Contexts, Has(otel', d), StateOf(otel', d) # Blank
             PROVE  \E e \in Ids' : LeftBy(d, e)'
  BY DEF Traced
<1>1. NothingShared /\ Apart(otel)
  BY <1>0, UnsharedSoFar DEF UnsharedApart
<1>2. ASSUME NEW c \in Contexts, NEW o, NEW task, NEW policy, NEW around,
             Starts(c, o, task, policy, around), Has(otel, d), StateOf(otel, d) # Blank
      PROVE  \E e \in Ids' : LeftBy(d, e)'
  <2>1. PICK e \in Ids : LeftBy(d, e)
    BY <1>1, <1>2 DEF Traced
  <2>2. /\ e \in Ids' /\ executions'[e].pc = executions[e].pc
        /\ executions'[e].told = executions[e].told
    BY <1>0, <1>2, OneMore DEF Later
  <2>3. \A i \in 1..Len(stack[d]) : i \in 1..Len(stack'[d]) /\ stack'[d][i] = stack[d][i]
    BY <1>0, <1>2, PushedStays
  <2>4. LeftBy(d, e)'
    BY <2>1, <2>2, <2>3 DEF LeftBy, Done
  <2> QED BY <2>2, <2>4
<1>3. ASSUME NEW task, NEW policy, NEW around, Starts("worker", otel, task, policy, around)
      PROVE  \E e \in Ids' : LeftBy(d, e)'
  <2>1. otel' = otel /\ "worker" \in Contexts
    BY <1>3, WorkerAssumption DEF Starts, Begin
  <2> QED BY <1>2, <1>3, <2>1
<1>4. ASSUME NEW policy, Starts("child", Inherited, None, policy, {Innermost("worker")})
      PROVE  FALSE
  BY <1>0, <1>4, NothingInherited, WorkerAssumption
<1>5. ASSUME NEW c \in Contexts, NEW x, Moves(c, x) \/ Leaves(c, x), Speech(c, x)
      PROVE  \E e \in Ids' : LeftBy(d, e)'
  BY <1>1, <1>5, TracedByStep
<1>6. CASE UNCHANGED vars
  <2>1. Has(otel, d) /\ StateOf(otel, d) # Blank
    BY <1>6 DEF vars
  <2> QED BY <1>1, <1>6, <2>1 DEF vars, Traced, LeftBy, Done, Ids
<1> QED BY <1>0, <1>3, <1>4, <1>5, <1>6, NextSpeaks DEF Drops, Ends

\* Where no child task shares the state of its parent, an idle worker's context is clean,
\* unless an execution that has been heard of ended without its terminal event being heard.
THEOREM IdleContextCleanHolds == Spec => []IdleContextClean
<1> DEFINE Inv == Sound /\ UnsharedApart /\ Deaf /\ OnStack /\ Traced
<1>1. Init => Inv
  <2> SUFFICES ASSUME Init PROVE Inv
    OBVIOUS
  <2>1. Ids = {} /\ \A c \in Contexts : ~Has(otel, c)
    BY EmptySeq DEF Init, NoTelemetry, Has, Ids
  <2>2. otel.spans = <<>> /\ Len(otel.spans) = 0
    BY EmptySeq DEF Init, NoTelemetry
  <2> QED BY <2>1, <2>2, SoundInit DEF UnsharedApart, Apart, Deaf, OnStack, Traced
<1>2. Inv /\ [Next]_vars => Inv'
  BY SoundNext, UnsharedApartKept, DeafKept, OnStackKept, TracedKept
<1>3. Inv => IdleContextClean
  <2> SUFFICES ASSUME Inv, NothingShared, ~Busy("worker"), Has(otel, "worker"),
                      \A e \in Ids : ~Unheard(e), StateOf(otel, "worker") # Blank
               PROVE  FALSE
    BY DEF IdleContextClean
  <2>1. "worker" \in Contexts
    BY WorkerAssumption
  <2>2. PICK e \in Ids : LeftBy("worker", e)
    BY <2>1 DEF Traced
  <2>3. Len(stack["worker"]) = 0
    BY EmptySeq DEF Busy
  <2> QED BY <2>2, <2>3 DEF LeftBy, Unheard
<1> HIDE DEF Inv
<1> QED BY <1>1, <1>2, <1>3, PTL DEF Spec

-----------------------------------------------------------------------------------
(* What is known of one execution.                                                 *)

\* The spans that have heard of e, and the durations of it.
Of(o, e) == {s \in 1..Len(o.spans) : \E a \in o.spans[s].events : a.of = e}

Timed(o, e) == {d \in 1..Len(o.durations) : o.durations[d].of = e}

\* Span s has heard of e alone, with its class and its operation or none.
Own(o, e, s) ==
    \A a \in o.spans[s].events : a.of = e /\ a.class \in {e, None} /\ a.operation \in {e, None}

\* Neither a span nor a duration knows of e.
Unknown(o, e) == Of(o, e) = {} /\ Timed(o, e) = {}

\* Context c is that of e alone: its span is the span of e, and no other context has it.
Mine(o, c, e) ==
    /\ \A d \in Contexts \ {c} : Has(o, d) =>
          o.contexts[d] # o.contexts[c] /\ StateOf(o, d).span \notin Of(o, e)
    /\ Before(o, c).started_at \in {e, None} /\ Before(o, c).last_class \in {e, None}
    /\ Before(o, c).operation \in {e, None}
    /\ Of(o, e) = {Before(o, c).span} \ {None}
    /\ \A s \in Of(o, e) : Own(o, e, s) /\ o.spans[s].ends = 0
    /\ Timed(o, e) = {}

\* The span of e has ended, and no context has it.
Parted(o, e, H) ==
    /\ \A d \in Contexts : Has(o, d) => StateOf(o, d).span \notin Of(o, e)
    /\ \A s, t \in Of(o, e) : s = t
    /\ \A s \in Of(o, e) : Own(o, e, s) /\ o.spans[s].ends = 1
    /\ \A d \in Timed(o, e) : o.durations[d].since = e
    /\ \A d, b \in Timed(o, e) : d = b
    /\ "on_metric" \in H => Timed(o, e) # {}

\* Executions that have told nothing, or are yet to come, are unknown.
UntoldUnknown == \A e \in Nat : (e \in Ids => executions[e].told = {}) => Unknown(otel, e)

\* An execution that is alone has its context to itself while it is under way, and has left
\* its span and its duration when it has told its end.
Alone(e) ==
    /\ \A c \in Contexts : \A i \in 1..Len(stack[c]) :
          stack[c][i] = e => i = Len(stack[c]) /\ Mine(otel, c, e)
    /\ "end" \in executions[e].told => Parted(otel, e, hooks)

\* So do all those that began in a fresh context and whose operation begins no other.
AloneKnown == \A e \in Ids : executions[e].alone => Alone(e)

\* The span of a context is one that there is.
LEMMA SpanIsThere ==
    ASSUME NEW o, NEW c \in Contexts, TelemetryOK(o)
    PROVE  /\ Before(o, c).span \in 1..Len(o.spans) \cup {None}
           /\ Has(o, c) => StateOf(o, c).span \in 1..Len(o.spans) \cup {None}
           /\ Before(o, c).span # None => Has(o, c) /\ Before(o, c) = StateOf(o, c)
           /\ None \notin Nat /\ Len(o.spans) \in Nat
BY WorkerAssumption, LenProperties DEF TelemetryOK, Before, Blank, StateOf, Has

\* An event that is not of the loop of e.
Aside(a, e) == a.of # e \/ a.name \in CIRCUIT_EVENTS

\* An event of another execution, or of the breaker, changes nothing of what is known of e.
LEMMA OfKept ==
    ASSUME NEW o, NEW n, NEW c \in Contexts, TelemetryOK(o), NEW a, EventOK(a), NEW H,
           Handled(o, n, c, a, H), NEW e, Aside(a, e)
    PROVE  /\ Of(n, e) = Of(o, e) /\ Timed(n, e) = Timed(o, e)
           /\ \A d \in Timed(o, e) : n.durations[d] = o.durations[d]
<1>1. Of(n, e) = Of(o, e)
  <2>1. CASE n.spans = o.spans
    BY <2>1 DEF Of
  <2>2. ASSUME NEW more, Speaks(o, n, c, a, more), a.of # e
        PROVE  Of(n, e) = Of(o, e)
    <3>1. PICK b : /\ b.of = a.of
                   /\ n.spans[SpanFor(o, c)] =
                        [ events |-> SpanWas(o, c).events \cup {b}, ends |-> SpanWas(o, c).ends + more,
                          late |-> SpanWas(o, c).ends > 0 ]
      BY <2>2 DEF Speaks
    <3>2. n.spans[SpanFor(o, c)].events = SpanWas(o, c).events \cup {b}
      BY <3>1
    <3>3. /\ Len(o.spans) \in Nat /\ Len(n.spans) >= Len(o.spans) /\ Len(n.spans) \in Nat
          /\ \A t \in 1..Len(n.spans) : t # SpanFor(o, c) => t \in 1..Len(o.spans)
          /\ SpanFor(o, c) \in 1..Len(n.spans)
          /\ \A t \in 1..Len(o.spans) : t # SpanFor(o, c) => n.spans[t] = o.spans[t]
      BY <2>2, SpansKept DEF Speaks
    <3>4. /\ SpanFor(o, c) \in 1..Len(o.spans) => SpanWas(o, c) = o.spans[SpanFor(o, c)]
          /\ SpanFor(o, c) \notin 1..Len(o.spans) => SpanWas(o, c).events = {}
      BY <3>3, SpanIsThere DEF SpanFor, SpanWas, Silent
    <3>5. ASSUME NEW s \in Of(n, e) PROVE s \in Of(o, e)
      <4>1. s \in 1..Len(n.spans) /\ \E v \in n.spans[s].events : v.of = e
        BY DEF Of
      <4>2. CASE s # SpanFor(o, c)
        BY <3>3, <4>1, <4>2 DEF Of
      <4>3. CASE s = SpanFor(o, c)
        <5>1. \E v \in SpanWas(o, c).events : v.of = e
          BY <2>2, <3>1, <3>2, <4>1, <4>3
        <5> QED BY <3>4, <4>3, <5>1 DEF Of
      <4> QED BY <4>2, <4>3
    <3>6. ASSUME NEW s \in Of(o, e) PROVE s \in Of(n, e)
      <4>1. s \in 1..Len(o.spans) /\ \E v \in o.spans[s].events : v.of = e
        BY DEF Of
      <4>2. s \in 1..Len(n.spans)
        BY <3>3, <4>1
      <4>3. CASE s # SpanFor(o, c)
        BY <3>3, <4>1, <4>2, <4>3 DEF Of
      <4>4. CASE s = SpanFor(o, c)
        <5>1. \E v \in n.spans[s].events : v.of = e
          BY <3>2, <3>4, <4>1, <4>4
        <5> QED BY <4>2, <5>1 DEF Of
      <4> QED BY <4>3, <4>4
    <3> QED BY <3>5, <3>6
  <2>3. a.name \in CIRCUIT_EVENTS => n.spans = o.spans
    BY BreakerTellsNothing
  <2>4. n.spans = o.spans \/ \E more : Speaks(o, n, c, a, more)
    BY DEF Handled, Ignored, Noticed, Heeded, Spoken, Closed
  <2> QED BY <2>1, <2>2, <2>3, <2>4 DEF Aside
<1>2. /\ Timed(n, e) = Timed(o, e)
      /\ \A d \in Timed(o, e) : n.durations[d] = o.durations[d]
  <2>1. CASE n.durations = o.durations
    BY <2>1 DEF Timed
  <2>2. CASE Measured(o, n, c, a) /\ a.of # e
    <3>1. PICK v \in [of : Nat, since : Nat] : n.durations = Append(o.durations, v) /\ v.of = a.of
      BY <2>2 DEF Measured
    <3> DEFINE k == Len(o.durations)
    <3>2. /\ k \in Nat /\ Len(n.durations) = k + 1 /\ n.durations[k + 1] = v
          /\ \A d \in 1..k : n.durations[d] = o.durations[d]
      BY <3>1, AppendProperties, LenProperties DEF TelemetryOK
    <3>3. n.durations[k + 1].of # e
      BY <2>2, <3>1, <3>2
    <3> HIDE DEF k
    <3>4. 1..(k + 1) = (1..k) \cup {k + 1}
      BY <3>2
    <3>5. Timed(n, e) = {d \in 1..k : n.durations[d].of = e}
      BY <3>2, <3>3, <3>4 DEF Timed
    <3>6. Timed(o, e) = {d \in 1..k : o.durations[d].of = e}
      BY DEF Timed, k
    <3> QED BY <3>2, <3>5, <3>6
  <2>3. a.name \in CIRCUIT_EVENTS => n.durations = o.durations
    BY BreakerTellsNothing
  <2>4. n.durations = o.durations \/ Measured(o, n, c, a)
    BY DEF Handled, Ignored, Noticed, Heeded, Spoken, Closed
  <2> QED BY <2>1, <2>2, <2>3, <2>4 DEF Aside
<1> QED BY <1>1, <1>2

\* No context gets a span that no context had.
LEMMA SpansNotTaken ==
    ASSUME NEW o, NEW n, NEW c \in Contexts, TelemetryOK(o), NEW a, NEW H, Handled(o, n, c, a, H),
           NEW d \in Contexts, Has(n, d), StateOf(n, d).span \in 1..Len(o.spans)
    PROVE  Has(o, d) /\ StateOf(o, d).span = StateOf(n, d).span
<1>1. CASE d = c
  BY <1>1, OwnSpanKept
<1>2. CASE d # c
  <2>1. Frame(o, n, c)
    BY DEF Handled
  <2> QED BY <1>2, <2>1, OthersKept
<1> QED BY <1>1, <1>2

\* What no context knows of any more stays as it is.
LEMMA PartedKept ==
    ASSUME NEW o, NEW n, NEW c \in Contexts, TelemetryOK(o), NEW a, EventOK(a), NEW H,
           Handled(o, n, c, a, H), NEW e, Aside(a, e),
           NEW G, Parted(o, e, G)
    PROVE  Parted(n, e, G)
<1>1. /\ Of(n, e) = Of(o, e) /\ Timed(n, e) = Timed(o, e)
      /\ \A d \in Timed(o, e) : n.durations[d] = o.durations[d]
  BY OfKept
<1>2. ASSUME NEW s \in Of(o, e) PROVE s \in 1..Len(o.spans) /\ n.spans[s] = o.spans[s]
  <2>1. s \in 1..Len(o.spans) /\ s # None
    BY WorkerAssumption DEF Of
  <2>2. s # Before(o, c).span
    BY <2>1, SpanIsThere DEF Parted
  <2> QED BY <2>1, <2>2, SpansKept
<1>3. ASSUME NEW d \in Contexts, Has(n, d), StateOf(n, d).span \in Of(o, e) PROVE FALSE
  <2>1. StateOf(n, d).span \in 1..Len(o.spans)
    BY <1>3 DEF Of
  <2> QED BY <1>3, <2>1, SpansNotTaken DEF Parted
<1>4. \A s \in Of(n, e) : Own(n, e, s) /\ n.spans[s].ends = 1
  BY <1>1, <1>2 DEF Parted, Own
<1>5. \A d \in Timed(n, e) : n.durations[d].since = e
  BY <1>1 DEF Parted
<1> QED BY <1>1, <1>3, <1>4, <1>5 DEF Parted

\* An event in another context leaves that of e to it.
LEMMA MineElsewhere ==
    ASSUME NEW o, NEW n, NEW c \in Contexts, TelemetryOK(o), NEW a, EventOK(a), NEW H,
           Handled(o, n, c, a, H), NEW e, Aside(a, e),
           NEW d \in Contexts, d # c, Mine(o, d, e)
    PROVE  Mine(n, d, e)
<1>0. Frame(o, n, c)
  BY DEF Handled
<1>1. /\ Of(n, e) = Of(o, e) /\ Timed(n, e) = Timed(o, e)
      /\ \A v \in Timed(o, e) : n.durations[v] = o.durations[v]
  BY OfKept
<1>2. Has(o, d) => o.contexts[d] # o.contexts[c]
  BY DEF Mine, Has
<1>3. /\ n.contexts[d] = o.contexts[d] /\ (Has(n, d) <=> Has(o, d))
      /\ Before(n, d) = Before(o, d)
      /\ Has(n, d) => n.contexts[d] # n.contexts[c]
  BY <1>0, <1>2, OthersKept DEF Before
<1>4. ASSUME NEW b \in Contexts \ {d}, Has(n, b)
      PROVE  n.contexts[b] # n.contexts[d] /\ StateOf(n, b).span \notin Of(n, e)
  <2>1. n.contexts[b] # n.contexts[d]
    <3>1. CASE b = c
      BY <1>3, <1>4, <3>1 DEF Has
    <3>2. CASE b # c
      <4>1. n.contexts[b] = o.contexts[b] /\ Has(o, b)
        BY <1>0, <1>4, <3>2, OthersKept
      <4> QED BY <1>3, <4>1 DEF Mine
    <3> QED BY <3>1, <3>2
  <2>2. ASSUME StateOf(n, b).span \in Of(o, e) PROVE FALSE
    <3>1. StateOf(n, b).span \in 1..Len(o.spans)
      BY <2>2 DEF Of
    <3>2. Has(o, b) /\ StateOf(o, b).span = StateOf(n, b).span
      BY <1>4, <3>1, SpansNotTaken
    <3> QED BY <2>2, <3>2 DEF Mine
  <2> QED BY <1>1, <2>1, <2>2
<1>5. ASSUME NEW s \in Of(o, e) PROVE n.spans[s] = o.spans[s]
  <2>1. s \in 1..Len(o.spans) /\ s # None
    BY WorkerAssumption DEF Of
  <2>2. s # Before(o, c).span
    BY <2>1, SpanIsThere DEF Mine
  <2> QED BY <2>1, <2>2, SpansKept
<1>6. \A s \in Of(n, e) : Own(n, e, s) /\ n.spans[s].ends = 0
  BY <1>1, <1>5 DEF Mine, Own
<1> QED BY <1>1, <1>3, <1>4, <1>6 DEF Mine

\* The other contexts while e is heard of in its own.
LEMMA MineFromOthers ==
    ASSUME NEW o, NEW n, NEW c \in Contexts, TelemetryOK(o), Frame(o, n, c), NEW e, Mine(o, c, e),
           NEW d \in Contexts \ {c}, Has(n, d)
    PROVE  /\ n.contexts[d] # n.contexts[c]
           /\ StateOf(n, d).span \notin Of(o, e) /\ StateOf(n, d).span # SpanFor(o, c)
<1>1. Has(o, d)
  BY OthersKept
<1>2. o.contexts[d] # o.contexts[c] /\ StateOf(o, d).span \notin Of(o, e)
  BY <1>1 DEF Mine
<1>3. n.contexts[d] # n.contexts[c] /\ StateOf(n, d) = StateOf(o, d)
  BY <1>2, OthersKept
<1>4. StateOf(o, d).span \in 1..Len(o.spans) \cup {None}
  BY <1>1, SpanIsThere
<1>5. SpanFor(o, c) \in Of(o, e) \/ SpanFor(o, c) = Len(o.spans) + 1
  BY DEF Mine, SpanFor
<1>6. Len(o.spans) + 1 \notin 1..Len(o.spans) \cup {None}
  BY WorkerAssumption, LenProperties DEF TelemetryOK
<1> QED BY <1>2, <1>3, <1>4, <1>5, <1>6

\* An event of the breaker leaves a context to e.
LEMMA MineNoticed ==
    ASSUME NEW o, NEW n, NEW c \in Contexts, TelemetryOK(o), NEW a, EventOK(a), NEW H,
           a.name \in CIRCUIT_EVENTS, Handled(o, n, c, a, H), NEW e, Mine(o, c, e)
    PROVE  Mine(n, c, e)
<1>0. Frame(o, n, c) /\ n.spans = o.spans /\ n.durations = o.durations
  BY BreakerTellsNothing DEF Handled
<1>1. Before(n, c) = Before(o, c)
  <2>1. ~(a.attempt > 0)
    BY DEF EventOK
  <2> QED BY <2>1 DEF Handled, Ignored, Noticed, Heeded, Spoken, Closed, Terminal, Before
<1>2. Of(n, e) = Of(o, e) /\ Timed(n, e) = Timed(o, e)
  BY <1>0 DEF Of, Timed
<1>3. \A d \in Contexts \ {c} : Has(n, d) =>
         n.contexts[d] # n.contexts[c] /\ StateOf(n, d).span \notin Of(n, e)
  BY <1>0, <1>2, MineFromOthers
<1> QED BY <1>0, <1>1, <1>2, <1>3 DEF Mine, Own

\* What e says in its own context is in its own span.
LEMMA SpeaksOwn ==
    ASSUME NEW o, NEW n, NEW c \in Contexts, TelemetryOK(o), NEW e, Mine(o, c, e),
           NEW a, a.of = e, a.class \in {e, None}, a.operation \in {e, None},
           NEW more \in {0, 1}, Speaks(o, n, c, a, more),
           Len(o.spans) \in Nat,
           \A s \in 1..Len(n.spans) : s # SpanFor(o, c) => s \in 1..Len(o.spans)
    PROVE  /\ Of(n, e) = {SpanFor(o, c)} /\ Own(n, e, SpanFor(o, c))
           /\ n.spans[SpanFor(o, c)].ends = more
<1>1. PICK b : /\ b.of = a.of
               /\ b.class \in {None, Before(o, c).last_class, a.class}
               /\ b.operation \in {None, Before(o, c).operation, a.operation}
               /\ n.spans[SpanFor(o, c)] =
                    [ events |-> SpanWas(o, c).events \cup {b}, ends |-> SpanWas(o, c).ends + more,
                      late |-> SpanWas(o, c).ends > 0 ]
  BY DEF Speaks
<1>2. /\ n.spans[SpanFor(o, c)].events = SpanWas(o, c).events \cup {b}
      /\ n.spans[SpanFor(o, c)].ends = SpanWas(o, c).ends + more
  BY <1>1
<1>3. b.of = e /\ b.class \in {e, None} /\ b.operation \in {e, None}
  BY <1>1 DEF Mine
<1>4. /\ \A v \in SpanWas(o, c).events :
            v.of = e /\ v.class \in {e, None} /\ v.operation \in {e, None}
      /\ SpanWas(o, c).ends = 0
  BY DEF SpanWas, Silent, Mine, Own
<1>5. ASSUME NEW s \in Of(n, e) PROVE s = SpanFor(o, c)
  <2> SUFFICES ASSUME s # SpanFor(o, c) PROVE FALSE
    OBVIOUS
  <2>1. s \in 1..Len(o.spans) /\ n.spans[s] = o.spans[s]
    BY DEF Of, Speaks
  <2>2. s \in Of(o, e)
    BY <2>1 DEF Of
  <2> QED BY <2>2 DEF Mine, SpanFor
<1>6. SpanFor(o, c) \in Of(n, e)
  <2>1. SpanFor(o, c) \in 1..Len(n.spans)
    BY DEF Speaks
  <2>2. b \in n.spans[SpanFor(o, c)].events
    BY <1>2
  <2> QED BY <1>3, <2>1, <2>2 DEF Of
<1>7. Own(n, e, SpanFor(o, c))
  BY <1>2, <1>3, <1>4 DEF Own
<1> QED BY <1>2, <1>4, <1>5, <1>6, <1>7

\* An event of the loop of e, in the context of e alone.
LEMMA MineHeard ==
    ASSUME NEW o, NEW n, NEW c \in Contexts, TelemetryOK(o), NEW e \in Nat, Mine(o, c, e),
           NEW a, a.of = e, a.class \in {e, None}, a.operation \in {e, None},
           a.name \notin CIRCUIT_EVENTS, NEW H, "on_log" \in H \/ o.spans = <<>>,
           Handled(o, n, c, a, H)
    PROVE  IF Terminal(a) THEN Parted(n, e, H) ELSE Mine(n, c, e)
<1>0. Frame(o, n, c) /\ None \notin Nat /\ Len(o.spans) \in Nat
  BY WorkerAssumption, LenProperties DEF Handled, TelemetryOK
<1>1. ASSUME NEW d \in Contexts \ {c}, Has(n, d)
      PROVE  /\ n.contexts[d] # n.contexts[c]
             /\ StateOf(n, d).span \notin Of(o, e) /\ StateOf(n, d).span # SpanFor(o, c)
  BY <1>0, <1>1, MineFromOthers
<1>2. ASSUME NEW more \in {0, 1}, Speaks(o, n, c, a, more)
      PROVE  /\ Of(n, e) = {SpanFor(o, c)} /\ Own(n, e, SpanFor(o, c))
             /\ n.spans[SpanFor(o, c)].ends = more /\ SpanFor(o, c) \in Nat
  <2>1. \A s \in 1..Len(n.spans) : s # SpanFor(o, c) => s \in 1..Len(o.spans)
    BY SpansKept
  <2>2. SpanFor(o, c) \in Nat
    BY <1>2 DEF Speaks
  <2> QED BY <1>0, <1>2, <2>1, <2>2, SpeaksOwn
<1>3. ASSUME Mixed(StateOf(n, c), Before(o, c), a), Has(n, c)
      PROVE  /\ Before(n, c) = StateOf(n, c)
             /\ Before(n, c).started_at \in {e, None} /\ Before(n, c).last_class \in {e, None}
             /\ Before(n, c).operation \in {e, None}
  BY <1>3 DEF Mixed, Mine, Before
<1>4. CASE Ignored(o, n, a, H)
  <2>1. CASE Terminal(a)
    <3>1. o.spans = <<>>
      BY <1>4, <2>1 DEF Ignored, Terminal
    <3>2. Of(o, e) = {} /\ Timed(o, e) = {} /\ n = o /\ "on_metric" \notin H
      <4>1. H = {}
        BY <1>4, <2>1 DEF Ignored, Terminal
      <4>2. Len(o.spans) = 0
        BY <3>1, EmptySeq
      <4> QED BY <1>4, <4>1, <4>2 DEF Ignored, Mine, Of
    <3> QED BY <2>1, <3>2 DEF Parted
  <2>2. CASE ~Terminal(a)
    BY <1>4, <2>2 DEF Ignored
  <2> QED BY <2>1, <2>2
<1>5. CASE Heeded(o, n, c, a)
  <2>1. /\ ~Terminal(a) /\ Has(n, c) /\ Mixed(StateOf(n, c), Before(o, c), a)
        /\ StateOf(n, c).span = Before(o, c).span
        /\ n.spans = o.spans /\ n.durations = o.durations
    BY <1>5 DEF Heeded
  <2>2. Of(n, e) = Of(o, e) /\ Timed(n, e) = Timed(o, e)
    BY <2>1 DEF Of, Timed
  <2>3. Mine(n, c, e)
    BY <1>1, <1>3, <2>1, <2>2 DEF Mine, Own
  <2> QED BY <2>1, <2>3
<1>6. CASE Spoken(o, n, c, a)
  <2>1. /\ ~Terminal(a) /\ Has(n, c) /\ Mixed(StateOf(n, c), Before(o, c), a)
        /\ StateOf(n, c).span = SpanFor(o, c) /\ Speaks(o, n, c, a, 0)
        /\ n.durations = o.durations
    BY <1>6 DEF Spoken
  <2>2. /\ Of(n, e) = {SpanFor(o, c)} /\ Own(n, e, SpanFor(o, c))
        /\ n.spans[SpanFor(o, c)].ends = 0 /\ SpanFor(o, c) # None
    BY <1>0, <1>2, <2>1
  <2>3. Timed(n, e) = {}
    BY <2>1 DEF Timed, Mine
  <2>4. Of(n, e) = {Before(n, c).span} \ {None}
    BY <1>3, <2>1, <2>2
  <2>5. Mine(n, c, e)
    BY <1>1, <1>3, <2>1, <2>2, <2>3, <2>4 DEF Mine
  <2> QED BY <2>1, <2>5
<1>7. CASE Closed(o, n, c, a, H)
  <2>1. Terminal(a) /\ ~Has(n, c)
    BY <1>7 DEF Closed
  <2>2. /\ \A d \in Contexts : Has(n, d) => StateOf(n, d).span \notin Of(n, e)
        /\ \A s, t \in Of(n, e) : s = t
        /\ \A s \in Of(n, e) : Own(n, e, s) /\ n.spans[s].ends = 1
    <3>1. CASE "on_log" \in H
      <4>1. /\ Of(n, e) = {SpanFor(o, c)} /\ Own(n, e, SpanFor(o, c))
            /\ n.spans[SpanFor(o, c)].ends = 1
        BY <1>2, <1>7, <3>1 DEF Closed
      <4> QED BY <1>1, <2>1, <4>1
    <3>2. CASE "on_log" \notin H
      <4>1. n.spans = <<>> /\ Len(n.spans) = 0
        BY <1>7, <3>2, EmptySeq DEF Closed
      <4>2. Of(n, e) = {}
        BY <4>1 DEF Of
      <4> QED BY <4>2
    <3> QED BY <3>1, <3>2
  <2>3. /\ \A d \in Timed(n, e) : n.durations[d].since = e
        /\ \A d, b \in Timed(n, e) : d = b
        /\ "on_metric" \in H => Timed(n, e) # {}
    <3>1. CASE "on_metric" \in H
      <4>1. PICK v \in [of : Nat, since : Nat] :
               /\ n.durations = Append(o.durations, v)
               /\ v.of = a.of /\ v.since \in {Before(o, c).started_at, a.of}
        BY <1>7, <3>1 DEF Closed, Measured
      <4> DEFINE k == Len(o.durations)
      <4>2. /\ k \in Nat /\ Len(n.durations) = k + 1 /\ n.durations[k + 1] = v
            /\ \A d \in 1..k : n.durations[d] = o.durations[d]
        BY <4>1, AppendProperties, LenProperties DEF TelemetryOK
      <4>3. v.of = e /\ v.since = e
        <5>1. v.since \in Nat
          OBVIOUS
        <5> QED BY <1>0, <4>1, <5>1 DEF Mine
      <4>4. \A d \in 1..k : o.durations[d].of # e
        BY DEF Mine, Timed
      <4> HIDE DEF k
      <4>5. 1..(k + 1) = (1..k) \cup {k + 1}
        BY <4>2
      <4>6. Timed(n, e) = {k + 1}
        BY <4>2, <4>3, <4>4, <4>5 DEF Timed
      <4> QED BY <4>2, <4>3, <4>6
    <3>2. CASE "on_metric" \notin H
      <4>1. Timed(n, e) = {}
        BY <1>7, <3>2 DEF Closed, Timed, Mine
      <4> QED BY <3>2, <4>1
    <3> QED BY <3>1, <3>2
  <2> QED BY <2>1, <2>2, <2>3 DEF Parted
<1> QED BY <1>4, <1>5, <1>6, <1>7 DEF Handled, Noticed

\* A child's context does not change what is known.
LEMMA InheritedKeeps ==
    ASSUME TelemetryOK(otel)
    PROVE  /\ Inherited.contexts = [otel.contexts EXCEPT !["child"] = otel.contexts["worker"]]
           /\ Inherited.states = otel.states /\ Inherited.spans = otel.spans
           /\ Inherited.durations = otel.durations
           /\ \A e : Of(Inherited, e) = Of(otel, e) /\ Timed(Inherited, e) = Timed(otel, e)
BY DEF Inherited, TelemetryOK, Of, Timed

\* A step keeps executions that have told nothing unknown.
LEMMA UntoldKept ==
    ASSUME Sound, UntoldUnknown, [Next]_vars
    PROVE  UntoldUnknown'
<1>0. TypeOK /\ UnderWay /\ Logged /\ TelemetryOK(otel)
  BY DEF Sound, TypeOK
<1> SUFFICES ASSUME NEW e \in Nat, e \in Ids' => executions'[e].told = {}
             PROVE  Unknown(otel', e)
  BY DEF UntoldUnknown
<1>1. ASSUME NEW c \in Contexts, NEW o, NEW task, NEW policy, NEW around,
             Starts(c, o, task, policy, around)
      PROVE  Unknown(otel, e)
  <2>1. e \in Ids => e \in Ids' /\ executions'[e].told = executions[e].told
    BY <1>0, <1>1, OneMore DEF Later
  <2> QED BY <2>1 DEF UntoldUnknown
<1>2. ASSUME NEW task, NEW policy, NEW around, Starts("worker", otel, task, policy, around)
      PROVE  Unknown(otel', e)
  <2>1. otel' = otel /\ "worker" \in Contexts
    BY <1>2, WorkerAssumption DEF Starts, Begin
  <2> QED BY <1>1, <1>2, <2>1
<1>3. ASSUME NEW policy, Starts("child", Inherited, None, policy, {Innermost("worker")})
      PROVE  Unknown(otel', e)
  <2>1. otel' = Inherited /\ "child" \in Contexts
    BY <1>3, WorkerAssumption DEF Starts, Begin
  <2>2. Unknown(otel, e)
    BY <1>1, <1>3, <2>1
  <2> QED BY <1>0, <2>1, <2>2, InheritedKeeps DEF Unknown
<1>4. ASSUME NEW c \in Contexts, NEW x, Moves(c, x) \/ Leaves(c, x), Speech(c, x)
      PROVE  Unknown(otel', e)
  <2>1. Busy(c) /\ x \in Execution /\ Now(c, x)
    BY <1>4 DEF Moves, Leaves
  <2>2. /\ Ids' = Ids /\ executions'[Innermost(c)] = x
        /\ \A f \in Ids : f # Innermost(c) => executions'[f] = executions[f]
    BY <1>0, <2>1, OneChanges DEF Ids
  <2>3. Innermost(c) \in Ids
    BY <1>0, <2>1, CurrentUnderWay
  <2>4. PICK m :
        /\ TelemetryOK(m)
        /\ \/ m = otel /\ x.told = Current(c).told
           \/ \E a : LoopEvent(c, x, a) /\ Handled(otel, m, c, a, hooks)
        /\ \/ otel' = m
           \/ \E a : /\ EventIn(c, a) /\ a.name \in CIRCUIT_EVENTS
                    /\ Handled(m, otel', c, a, hooks)
    BY <1>0, <1>4, <2>1, SpeechHeard DEF Hearing
  <2>5. ASSUME NEW o, NEW n, NEW a, TelemetryOK(o), EventOK(a), Aside(a, e),
               Handled(o, n, c, a, hooks), Unknown(o, e)
        PROVE  Unknown(n, e)
    <3>1. /\ Of(n, e) = Of(o, e) /\ Timed(n, e) = Timed(o, e)
          /\ \A d \in Timed(o, e) : n.durations[d] = o.durations[d]
      BY <2>5, OfKept
    <3> QED BY <2>5, <3>1 DEF Unknown
  <2>6. Unknown(m, e)
    <3>1. CASE m = otel /\ x.told = Current(c).told
      <4>1. e \in Ids => executions[e].told = {}
        BY <2>2, <3>1 DEF Current
      <4> QED BY <3>1, <4>1 DEF UntoldUnknown
    <3>2. ASSUME NEW a, LoopEvent(c, x, a), Handled(otel, m, c, a, hooks)
          PROVE  Unknown(m, e)
      <4>1. x.told # {}
        BY <3>2 DEF LoopEvent
      <4>2. e # Innermost(c)
        BY <2>2, <2>3, <4>1
      <4>3. Unknown(otel, e)
        BY <2>2, <4>2 DEF UntoldUnknown
      <4>4. EventOK(a) /\ Aside(a, e)
        BY <3>2, <4>2 DEF LoopEvent, EventIn, Aside
      <4> QED BY <1>0, <2>5, <3>2, <4>3, <4>4
    <3> QED BY <2>4, <3>1, <3>2
  <2>7. ASSUME NEW a, EventIn(c, a), a.name \in CIRCUIT_EVENTS, Handled(m, otel', c, a, hooks)
        PROVE  Unknown(otel', e)
    <3>1. EventOK(a) /\ Aside(a, e)
      BY <2>7 DEF EventIn, Aside
    <3> QED BY <2>4, <2>5, <2>6, <2>7, <3>1
  <2> QED BY <2>4, <2>6, <2>7
<1>5. CASE UNCHANGED vars
  BY <1>5 DEF vars, UntoldUnknown, Ids
<1> QED BY <1>0, <1>2, <1>3, <1>4, <1>5, NextSpeaks DEF Drops, Ends

\* What is known of the execution under way in c once it has gone on or ended.
LEMMA CurrentHeard ==
    ASSUME Sound, NEW c \in Contexts, Busy(c), NEW x, Speech(c, x),
           Mine(otel, c, Innermost(c)), "end" \notin Current(c).told
    PROVE  \/ Mine(otel', c, Innermost(c)) /\ "end" \notin x.told
           \/ Parted(otel', Innermost(c), hooks) /\ x.pc = "done"
<1> DEFINE f == Innermost(c)
<1>0. TypeOK /\ UnderWay /\ Logged /\ TelemetryOK(otel) /\ f \in Nat
  BY CurrentUnderWay DEF Sound, TypeOK, Ids
<1>1. PICK m :
        /\ TelemetryOK(m)
        /\ \/ m = otel /\ x.told = Current(c).told
           \/ \E a : LoopEvent(c, x, a) /\ Handled(otel, m, c, a, hooks)
        /\ \/ otel' = m
           \/ \E a : /\ EventIn(c, a) /\ a.name \in CIRCUIT_EVENTS
                    /\ Handled(m, otel', c, a, hooks)
  BY <1>0, SpeechHeard DEF Hearing
<1>2. \/ Mine(m, c, f) /\ "end" \notin x.told
      \/ Parted(m, f, hooks) /\ x.pc = "done"
  <2>1. CASE m = otel /\ x.told = Current(c).told
    BY <2>1
  <2>2. ASSUME NEW a, LoopEvent(c, x, a), Handled(otel, m, c, a, hooks)
        PROVE  \/ Mine(m, c, f) /\ "end" \notin x.told
               \/ Parted(m, f, hooks) /\ x.pc = "done"
    <3>1. /\ a.of = f /\ a.class \in {f, None} /\ a.operation \in {f, None}
          /\ a.name \notin CIRCUIT_EVENTS
      BY <2>2 DEF LoopEvent, EventIn
    <3>2. ("on_log" \in hooks \/ otel.spans = <<>>) /\ Mine(otel, c, f)
      BY <1>0 DEF Logged
    <3> HIDE DEF f
    <3>3. IF Terminal(a) THEN Parted(m, f, hooks) ELSE Mine(m, c, f)
      BY <1>0, <2>2, <3>1, <3>2, MineHeard
    <3>4. ~Terminal(a) => "end" \notin x.told
      BY <2>2 DEF LoopEvent
    <3>5. Terminal(a) => x.pc = "done"
      BY <2>2 DEF LoopEvent
    <3> QED BY <3>3, <3>4, <3>5
  <2> QED BY <1>1, <2>1, <2>2
<1>3. ASSUME NEW a, EventIn(c, a), a.name \in CIRCUIT_EVENTS, Handled(m, otel', c, a, hooks)
      PROVE  /\ Mine(m, c, f) => Mine(otel', c, f)
             /\ Parted(m, f, hooks) => Parted(otel', f, hooks)
  <2>1. EventOK(a) /\ Aside(a, f)
    BY <1>3 DEF EventIn, Aside
  <2> HIDE DEF f
  <2>2. ASSUME Mine(m, c, f) PROVE Mine(otel', c, f)
    BY <1>1, <1>3, <2>1, <2>2, MineNoticed
  <2>3. ASSUME Parted(m, f, hooks) PROVE Parted(otel', f, hooks)
    BY <1>1, <1>3, <2>1, <2>3, PartedKept
  <2> QED BY <2>2, <2>3
<1> QED BY <1>1, <1>2, <1>3 DEF f

\* What is known of another execution then.
LEMMA OthersHeard ==
    ASSUME Sound, NEW c \in Contexts, Busy(c), NEW x, Speech(c, x), NEW e, e # Innermost(c)
    PROVE  /\ \A d \in Contexts \ {c} : Mine(otel, d, e) => Mine(otel', d, e)
           /\ Parted(otel, e, hooks) => Parted(otel', e, hooks)
<1>0. TypeOK /\ UnderWay /\ Logged /\ TelemetryOK(otel)
  BY DEF Sound, TypeOK
<1>1. PICK m :
        /\ TelemetryOK(m)
        /\ \/ m = otel
           \/ \E a : EventIn(c, a) /\ Handled(otel, m, c, a, hooks)
        /\ \/ otel' = m
           \/ \E a : EventIn(c, a) /\ Handled(m, otel', c, a, hooks)
  BY <1>0, SpeechHeard DEF Hearing, LoopEvent
<1>2. ASSUME NEW o, NEW n, NEW a, TelemetryOK(o), EventIn(c, a), Handled(o, n, c, a, hooks)
      PROVE  /\ \A d \in Contexts \ {c} : Mine(o, d, e) => Mine(n, d, e)
             /\ Parted(o, e, hooks) => Parted(n, e, hooks)
  <2>1. EventOK(a) /\ Aside(a, e)
    BY <1>2 DEF EventIn, Aside
  <2>2. ASSUME NEW d \in Contexts, d # c, Mine(o, d, e) PROVE Mine(n, d, e)
    BY <1>2, <2>1, <2>2, MineElsewhere
  <2>3. ASSUME Parted(o, e, hooks) PROVE Parted(n, e, hooks)
    BY <1>2, <2>1, <2>3, PartedKept
  <2> QED BY <2>2, <2>3
<1>3. /\ \A d \in Contexts \ {c} : Mine(otel, d, e) => Mine(m, d, e)
      /\ Parted(otel, e, hooks) => Parted(m, e, hooks)
  BY <1>0, <1>1, <1>2
<1>4. /\ \A d \in Contexts \ {c} : Mine(m, d, e) => Mine(otel', d, e)
      /\ Parted(m, e, hooks) => Parted(otel', e, hooks)
  BY <1>1, <1>2
<1> QED BY <1>3, <1>4

\* A step of the execution under way in c keeps the executions that are alone known.
LEMMA AloneGoesOn ==
    ASSUME Sound, OnStack, AloneKnown, NEW c \in Contexts, NEW x, Moves(c, x) \/ Leaves(c, x),
           Speech(c, x)
    PROVE  AloneKnown'
<1> DEFINE f == Innermost(c)
<1>0. TypeOK /\ UnderWay
  BY DEF Sound
<1>1. /\ Busy(c) /\ x \in Execution /\ Now(c, x) /\ hooks' = hooks /\ x.alone = Current(c).alone
      /\ \A d \in Contexts : d # c => stack'[d] = stack[d]
  BY <1>0 DEF Moves, Leaves, Idle, Like, TypeOK
<1>2. /\ Ids' = Ids /\ executions'[f] = x
      /\ \A e \in Ids : e # f => executions'[e] = executions[e]
  BY <1>0, <1>1, OneChanges DEF Ids
<1>3. /\ f \in Ids /\ ~Done(f) /\ "end" \notin Current(c).told
      /\ Len(stack[c]) \in 1..Len(stack[c]) /\ f = stack[c][Len(stack[c])]
      /\ Current(c) = executions[f]
  BY <1>0, <1>1, CurrentUnderWay DEF OnStack, Current
<1>4. /\ \A d \in Contexts : \A i \in 1..Len(stack'[d]) :
            i \in 1..Len(stack[d]) /\ stack'[d][i] = stack[d][i]
      /\ x.pc = "done" => \A d \in Contexts : \A i \in 1..Len(stack'[d]) : stack'[d][i] # f
      /\ x.pc # "done" => stack' = stack
  <2>1. CASE Moves(c, x)
    BY <2>1 DEF Moves, Idle
  <2>2. CASE Leaves(c, x)
    <3>1. \A d \in Contexts : \A i \in 1..Len(stack'[d]) :
             /\ i \in 1..Len(stack[d]) /\ stack'[d][i] = stack[d][i]
             /\ stack[d][i] \in Ids /\ stack[d][i] # f
      BY <1>0, <2>2, Popped
    <3>2. x.pc = "done"
      BY <2>2 DEF Leaves
    <3> HIDE DEF f
    <3> QED BY <3>1, <3>2
  <2> QED BY <2>1, <2>2
<1>5. ASSUME NEW e \in Ids, e # f, executions'[e].alone,
             NEW d \in Contexts, NEW i \in 1..Len(stack'[d]), stack'[d][i] = e
      PROVE  i = Len(stack'[d]) /\ Mine(otel', d, e)
  <2>0. executions'[e] = executions[e]
    BY <1>2, <1>5
  <2>1. executions[e].alone /\ i \in 1..Len(stack[d]) /\ stack[d][i] = e
    BY <1>4, <1>5, <2>0
  <2>2. i = Len(stack[d]) /\ Mine(otel, d, e)
    BY <2>1 DEF AloneKnown, Alone
  <2>3. d # c
    BY <1>3, <1>5, <2>1, <2>2
  <2>4. Mine(otel', d, e)
    BY <1>1, <1>5, <2>2, <2>3, OthersHeard
  <2> QED BY <1>1, <2>2, <2>3, <2>4
<1>6. ASSUME NEW e \in Ids, e # f, executions'[e].alone, "end" \in executions'[e].told
      PROVE  Parted(otel', e, hooks')
  <2>1. Parted(otel, e, hooks)
    BY <1>2, <1>6 DEF AloneKnown, Alone
  <2> QED BY <1>1, <1>6, <2>1, OthersHeard
<1>7. ASSUME x.alone
      PROVE  \/ Mine(otel', c, f) /\ "end" \notin x.told
             \/ Parted(otel', f, hooks) /\ x.pc = "done"
  <2>1. Mine(otel, c, f)
    BY <1>1, <1>3, <1>7 DEF AloneKnown, Alone
  <2> QED BY <1>1, <1>3, <2>1, CurrentHeard
<1>8. ASSUME x.alone, NEW d \in Contexts, NEW i \in 1..Len(stack'[d]), stack'[d][i] = f
      PROVE  i = Len(stack'[d]) /\ Mine(otel', d, f)
  <2>1. stack' = stack /\ x.pc # "done"
    BY <1>4, <1>8
  <2>2. d = c /\ i = Len(stack[c])
    BY <1>0, <1>3, <1>8, <2>1 DEF UnderWay
  <2> QED BY <1>7, <1>8, <2>1, <2>2
<1>9. ASSUME x.alone, "end" \in x.told
      PROVE  Parted(otel', f, hooks')
  BY <1>1, <1>7, <1>9
<1> HIDE DEF f
<1>10. ASSUME NEW e \in Ids, executions'[e].alone
       PROVE  /\ \A d \in Contexts : \A i \in 1..Len(stack'[d]) :
                    stack'[d][i] = e => i = Len(stack'[d]) /\ Mine(otel', d, e)
              /\ "end" \in executions'[e].told => Parted(otel', e, hooks')
  <2>1. CASE e # f
    BY <1>5, <1>6, <1>10, <2>1
  <2>2. CASE e = f
    BY <1>2, <1>8, <1>9, <1>10, <2>2
  <2> QED BY <2>1, <2>2
<1> QED BY <1>2, <1>10 DEF AloneKnown, Alone

\* An execution that begins in a fresh context is alone there.
LEMMA FreshIsMine ==
    ASSUME NEW o, NEW c \in Contexts, Fresh(o, c), NEW e, Unknown(o, e), None \notin Nat
    PROVE  Mine(o, c, e)
<1>1. \A d \in Contexts \ {c} : Has(o, d) => o.contexts[d] # o.contexts[c]
  BY DEF Fresh, Shared, Has
<1>2. Before(o, c) = Blank
  BY DEF Before, Fresh
<1> QED BY <1>1, <1>2 DEF Mine, Unknown, Blank

\* A step that begins an execution keeps those that are alone known.
LEMMA AloneBegins ==
    ASSUME Sound, UntoldUnknown, AloneKnown, NEW c \in Contexts, NEW o, NEW task, NEW policy,
           NEW around, Starts(c, o, task, policy, around),
           \A e : Of(o, e) = Of(otel, e) /\ Timed(o, e) = Timed(otel, e),
           \A d \in Contexts :
              d # c /\ Innermost(d) \notin around /\ Mine(otel, d, Innermost(d)) =>
                  Mine(o, d, Innermost(d)),
           \A e \in Ids : Parted(otel, e, hooks) => Parted(o, e, hooks)
    PROVE  AloneKnown'
<1> DEFINE new == Len(executions) + 1
<1>0. TypeOK /\ UnderWay /\ None \notin Nat
  BY WorkerAssumption DEF Sound
<1>1. /\ Ids' = Ids \cup {new} /\ new \notin Ids /\ new \in Nat
      /\ \A e \in Ids : Later(e, e \notin around)
      /\ executions'[new] = New(c, o, task, policy)
  BY <1>0, OneMore
<1>2. otel' = o /\ hooks' = hooks /\ (Busy(c) => Innermost(c) \in around)
  BY DEF Starts, Begin
<1>3. /\ \A d \in Contexts : \A i \in 1..Len(stack'[d]) :
            \/ i \in 1..Len(stack[d]) /\ stack'[d][i] = stack[d][i] /\ stack[d][i] \in Ids
            \/ d = c /\ i = Len(stack[c]) + 1 /\ stack'[d][i] = new
      /\ Len(stack'[c]) = Len(stack[c]) + 1
      /\ \A d \in Contexts : d # c => stack'[d] = stack[d]
  BY <1>0, Pushed, PushedStays
<1>4. ASSUME NEW e \in Ids, executions'[e].alone
      PROVE  /\ executions[e].alone /\ e \notin around
             /\ executions'[e].told = executions[e].told
  BY <1>1, <1>4 DEF Later
<1>5. executions'[new].alone => Fresh(o, c)
  <2> HIDE DEF new
  <2> QED BY <1>1 DEF New
<1>6. executions'[new].told = {}
  <2> HIDE DEF new
  <2> QED BY <1>1 DEF New
<1> HIDE DEF new
<1>7. ASSUME NEW e \in Ids, executions'[e].alone,
             NEW d \in Contexts, NEW i \in 1..Len(stack'[d]), stack'[d][i] = e
      PROVE  i = Len(stack'[d]) /\ Mine(o, d, e)
  <2>1. i \in 1..Len(stack[d]) /\ stack[d][i] = e
    BY <1>1, <1>3, <1>7
  <2>2. i = Len(stack[d]) /\ Mine(otel, d, e)
    BY <1>4, <1>7, <2>1 DEF AloneKnown, Alone
  <2>3. Innermost(d) = e
    BY <2>1, <2>2 DEF Innermost
  <2>4. d # c
    <3> SUFFICES ASSUME d = c PROVE FALSE
      OBVIOUS
    <3>1. stack[c] # <<>>
      BY <2>1, EmptySeq
    <3> QED BY <1>2, <1>4, <1>7, <2>3, <3>1 DEF Busy
  <2> QED BY <1>3, <1>4, <1>7, <2>2, <2>3, <2>4
<1>8. ASSUME NEW e \in Ids, executions'[e].alone, "end" \in executions'[e].told
      PROVE  Parted(o, e, hooks)
  BY <1>4, <1>8 DEF AloneKnown, Alone
<1>9. ASSUME executions'[new].alone, NEW d \in Contexts, NEW i \in 1..Len(stack'[d]),
             stack'[d][i] = new
      PROVE  i = Len(stack'[d]) /\ Mine(o, d, new)
  <2>1. d = c /\ i = Len(stack'[c])
    BY <1>1, <1>3, <1>9
  <2>2. Unknown(o, new)
    BY <1>1 DEF UntoldUnknown, Unknown
  <2> QED BY <1>0, <1>5, <1>9, <2>1, <2>2, FreshIsMine
<1>10. ASSUME NEW e \in Ids', executions'[e].alone
       PROVE  /\ \A d \in Contexts : \A i \in 1..Len(stack'[d]) :
                    stack'[d][i] = e => i = Len(stack'[d]) /\ Mine(otel', d, e)
              /\ "end" \in executions'[e].told => Parted(otel', e, hooks')
  <2>1. CASE e \in Ids
    <3>1. ASSUME NEW d \in Contexts, NEW i \in 1..Len(stack'[d]), stack'[d][i] = e
          PROVE  i = Len(stack'[d]) /\ Mine(o, d, e)
      BY <1>7, <1>10, <2>1, <3>1
    <3>2. ASSUME "end" \in executions'[e].told PROVE Parted(o, e, hooks)
      BY <1>8, <1>10, <2>1, <3>2
    <3> QED BY <1>2, <3>1, <3>2
  <2>2. CASE e = new
    BY <1>2, <1>6, <1>9, <1>10, <2>2
  <2> QED BY <1>1, <2>1, <2>2
<1> QED BY <1>10 DEF AloneKnown, Alone

\* A step keeps the executions that are alone known.
LEMMA AloneKept ==
    ASSUME Sound, OnStack, UntoldUnknown, AloneKnown, [Next]_vars
    PROVE  AloneKnown'
<1>0. TypeOK /\ UnderWay /\ TelemetryOK(otel) /\ Contexts = {"worker", "child"}
  BY WorkerAssumption DEF Sound, TypeOK
<1>1. ASSUME NEW task, NEW policy, NEW around, Starts("worker", otel, task, policy, around)
      PROVE  AloneKnown'
  BY <1>0, <1>1, AloneBegins
<1>2. ASSUME NEW policy, Starts("child", Inherited, None, policy, {Innermost("worker")}),
             In("worker", "running"), ~Busy("child")
      PROVE  AloneKnown'
  <2>1. \A e : Of(Inherited, e) = Of(otel, e) /\ Timed(Inherited, e) = Timed(otel, e)
    BY <1>0, InheritedKeeps
  <2>2. \A d \in Contexts :
           d # "child" /\ Innermost(d) \notin {Innermost("worker")} /\ Mine(otel, d, Innermost(d)) =>
               Mine(Inherited, d, Innermost(d))
    BY <1>0
  <2>3. ASSUME NEW e \in Ids, Parted(otel, e, hooks)
        PROVE  Parted(Inherited, e, hooks)
    <3>1. \A d \in Contexts : Has(Inherited, d) => StateOf(Inherited, d).span \notin Of(otel, e)
      BY <1>0, <2>3, InheritedKeeps DEF Parted, Has, StateOf, TelemetryOK
    <3> QED BY <1>0, <2>1, <2>3, <3>1, InheritedKeeps DEF Parted, Own
  <2> QED BY <1>0, <1>2, <2>1, <2>2, <2>3, AloneBegins
<1>3. ASSUME NEW c \in Contexts, NEW x, Moves(c, x) \/ Leaves(c, x), Speech(c, x)
      PROVE  AloneKnown'
  BY <1>3, AloneGoesOn
<1>4. CASE UNCHANGED vars
  BY <1>4 DEF vars, AloneKnown, Alone, Ids
<1> QED BY <1>0, <1>1, <1>2, <1>3, <1>4, NextSpeaks DEF Drops, Ends

\* What the invariants say of the executions that are alone.
LEMMA OwnSpan ==
    ASSUME Sound, OnStack, UntoldUnknown, AloneKnown
    PROVE  SpanOfItsOwn
<1> SUFFICES ASSUME NEW e \in Ids, executions[e].alone, ~Unheard(e)
             PROVE  /\ \A s, t \in Of(otel, e) : s = t
                    /\ \A s \in Of(otel, e) :
                          /\ Own(otel, e, s)
                          /\ otel.spans[s].ends = IF "end" \in executions[e].told THEN 1 ELSE 0
                    /\ \A d \in Timed(otel, e) : otel.durations[d].since = e
                    /\ \A d, b \in Timed(otel, e) : d = b
                    /\ "on_metric" \in hooks /\ "end" \in executions[e].told =>
                          Timed(otel, e) # {}
  BY DEF SpanOfItsOwn, SpansOf, Of, Own, Timed
<1>1. Alone(e)
  BY DEF AloneKnown
<1>2. CASE "end" \in executions[e].told
  BY <1>1, <1>2 DEF Alone, Parted
<1>3. CASE "end" \notin executions[e].told /\ Done(e)
  <2>1. executions[e].told = {} /\ e \in Nat
    BY <1>3 DEF Unheard, Ids
  <2>2. Unknown(otel, e)
    BY <2>1 DEF UntoldUnknown
  <2> QED BY <1>3, <2>2 DEF Unknown
<1>4. CASE "end" \notin executions[e].told /\ ~Done(e)
  <2>1. PICK c \in Contexts : Mine(otel, c, e)
    BY <1>1, <1>4 DEF OnStack, Alone
  <2> QED BY <1>4, <2>1 DEF Mine
<1> QED BY <1>2, <1>3, <1>4

\* An execution that begins in a fresh context, whose operation begins no other, and whose
\* end is heard of, has one span with its own events and data, which ends with it, and its
\* duration is measured once: what otel_hooks keeps in a context variable then belongs to
\* the execution.
THEOREM SpanOfItsOwnHolds == Spec => []SpanOfItsOwn
<1> DEFINE Inv == Sound /\ OnStack /\ UntoldUnknown /\ AloneKnown
<1>1. Init => Inv
  <2> SUFFICES ASSUME Init PROVE Inv
    OBVIOUS
  <2>1. Ids = {}
    BY EmptySeq DEF Init, Ids
  <2>2. Len(otel.spans) = 0 /\ Len(otel.durations) = 0
    BY EmptySeq DEF Init, NoTelemetry
  <2> QED BY <2>1, <2>2, SoundInit DEF OnStack, UntoldUnknown, Unknown, Of, Timed, AloneKnown
<1>2. Inv /\ [Next]_vars => Inv'
  BY SoundNext, OnStackKept, UntoldKept, AloneKept
<1>3. Inv => SpanOfItsOwn
  BY OwnSpan
<1> HIDE DEF Inv
<1> QED BY <1>1, <1>2, <1>3, PTL DEF Spec
====================================================================================
