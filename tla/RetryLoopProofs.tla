------------------------------ MODULE RetryLoopProofs ----------------------------
(***********************************************************************************)
(* Proofs about RetryLoop, for any classes and any set of policies.                *)
(***********************************************************************************)
EXTENDS RetryLoop, SequenceTheorems, TLAPS

TerminalReasons == StopReasons \cup {"SUCCESS"}

\* The end of an execution by its own decision: one event, with the stop reason.
Concludes(reason) == \E n \in Nat, r \in Nat \cup {None} : Emit(reason, n) /\ Leave(reason, r)

\* What Emit and Leave do to the types of the variables they set.
LEMMA ConcludesType ==
    ASSUME TypeOK, NEW reason \in TerminalReasons, Concludes(reason),
           counts' = counts \/ (perClass' \in [Classes -> Nat] /\ unknown' \in Nat),
           ends' \in {ends, ends + 1}, UNCHANGED <<calls, tokens>>
    PROVE  TypeOK'
<1>1. PICK n \in Nat, r \in Nat \cup {None} : Emit(reason, n) /\ Leave(reason, r)
  BY DEF Concludes
<1>2. events' \in Seq([reason : TerminalReasons, attempt : Nat])
  <2>1. [reason |-> reason, attempt |-> n] \in [reason : TerminalReasons, attempt : Nat]
    OBVIOUS
  <2> QED BY <1>1, <2>1, AppendProperties DEF TypeOK, Emit, TerminalReasons
<1>3. ending' \in [reason : Reasons, attempts : Nat \cup {None}]
  BY <1>1 DEF Leave, Reasons, TerminalReasons
<1>4. ends' \in Nat
  BY DEF TypeOK
<1>5. perClass' \in [Classes -> Nat] /\ unknown' \in Nat
  BY DEF TypeOK, counts
<1> QED BY <1>1, <1>2, <1>3, <1>4, <1>5 DEF TypeOK, Leave, Goto, TerminalReasons, Places

\* A step that takes a terminal decision.
Decisions ==
    \/ AbortAtHead \/ Exhausted \/ Succeed \/ OperationAborts \/ AbortAfterFailure
    \/ Defer \/ AbortSleep \/ WakeLate

\* A callback that raises.
Raises ==
    \/ HeadRaises \/ ReturningRaises \/ AskingRaises \/ JudgingRaises
    \/ SchedulingRaises \/ SleepingRaises

\* What an outcome reports is a number or nothing.
LEMMA ReportedType == TypeOK => Reported \in Nat \cup {None}
BY DEF TypeOK, Reported

\* Stop concludes, and counts one more on_attempt_end.
LEMMA StopConcludes ==
    ASSUME TypeOK, NEW reason \in TerminalReasons, Stop(reason)
    PROVE  /\ Concludes(reason)
           /\ ends' = ends + 1 /\ UNCHANGED <<calls, tokens>>
BY ReportedType DEF Stop, Concludes, TypeOK

LEMMA DecisionsConclude ==
    ASSUME TypeOK, Decisions
    PROVE  /\ \E reason \in TerminalReasons : Concludes(reason)
           /\ counts' = counts
           /\ ends' \in {ends, ends + 1} /\ UNCHANGED <<calls, tokens>>
<1>0. policy.max_attempts \in Nat /\ attempt - 1 \in Nat /\ attempt \in Nat /\ attempts \in Nat
  BY LoopAssumption DEF TypeOK, Policy
<1>1. ASSUME NEW n \in Nat, Abort(n)
      PROVE  /\ Concludes("ABORTED") /\ counts' = counts
             /\ ends' \in {ends, ends + 1} /\ UNCHANGED <<calls, tokens>>
  BY <1>0, <1>1 DEF Abort, Concludes, counts
<1>2. "ABORTED" \in TerminalReasons /\ "SUCCESS" \in TerminalReasons
      /\ "SCHEDULED" \in TerminalReasons /\ "MAX_ATTEMPTS_GLOBAL" \in TerminalReasons
      /\ "DEADLINE_EXCEEDED" \in TerminalReasons
  BY DEF TerminalReasons, StopReasons
<1>3. CASE AbortAtHead \/ AbortAfterFailure
  BY <1>0, <1>1, <1>2, <1>3 DEF AbortAtHead, AbortAfterFailure
<1>4. CASE Succeed \/ WakeLate
  BY <1>2, <1>4, StopConcludes DEF Succeed, WakeLate
<1>5. CASE Exhausted
  BY <1>0, <1>2, <1>5 DEF Exhausted, Concludes, counts
<1>6. CASE OperationAborts \/ AbortSleep
  BY <1>0, <1>2, <1>6 DEF OperationAborts, AbortSleep, Concludes, counts
<1>7. CASE Defer
  BY <1>0, <1>2, <1>7 DEF Defer, Concludes, counts
<1> QED BY <1>3, <1>4, <1>5, <1>6, <1>7 DEF Decisions

\* A callback that raises AbortRetryError, where execute() catches it.
RaisedAbort ==
    /\ mode = "execute"
    /\ Emit("ABORTED", attempts)
    /\ ends' = IF started THEN ends + 1 ELSE ends
    /\ Leave("ABORTED", attempts)
    /\ UNCHANGED <<counts, calls, tokens>>

LEMMA RaisedAbortConcludes ==
    ASSUME TypeOK, RaisedAbort
    PROVE  /\ "ABORTED" \in TerminalReasons /\ Concludes("ABORTED")
           /\ counts' = counts
           /\ ends' \in {ends, ends + 1} /\ UNCHANGED <<calls, tokens>>
BY DEF RaisedAbort, Concludes, counts, TypeOK, TerminalReasons, StopReasons

\* A callback that raises lets the execution go on, as failed, aborts it, or gets out.
LEMMA RaisesCases ==
    ASSUME Raises
    PROVE  /\ pc # "done"
           /\ \/ /\ mode = "execute" /\ cause # "exception"
                 /\ pc' = "failed" /\ cause' = "exception"
                 /\ UNCHANGED <<policy, mode, elapsed, attempt, attempts, started, counts,
                                ending, history>>
              \/ RaisedAbort
              \/ Escape
BY DEF RaisedAbort, AbortRaised, AtHead, Raises, HeadRaises, ReturningRaises, AskingRaises, JudgingRaises,
       SchedulingRaises, SleepingRaises, CallbackRaises

LEMMA EscapeType == TypeOK /\ Escape => TypeOK'
<1> SUFFICES ASSUME TypeOK, Escape PROVE TypeOK'
  OBVIOUS
<1>1. ending' \in [reason : Reasons, attempts : Nat \cup {None}]
  BY DEF Escape, Leave, Reasons
<1> QED BY <1>1 DEF Escape, Leave, Goto, counts, history, TypeOK, Places

\* The verdict on a failure: it is counted, and the execution goes on or stops.
Verdict(k) ==
    /\ perClass' = [perClass EXCEPT ![k] = @ + 1]
    /\ unknown' = IF k = Unknown /\ ~OverClassCap(k) THEN unknown + 1 ELSE unknown
    /\ \/ \E reason \in TerminalReasons : Stop(reason)
       \/ /\ Retryable(k) /\ k \in policy.strategies
          /\ Goto("judged")
          /\ UNCHANGED <<policy, mode, elapsed, ending, history>>

LEMMA JudgeCases ==
    ASSUME NEW k \in Classes, Judge(k)
    PROVE  pc = "judging" /\ Verdict(k)
<1>1. {"MAX_ATTEMPTS_PER_CLASS", "NON_RETRYABLE_CLASS", "MAX_UNKNOWN_ATTEMPTS",
       "DEADLINE_EXCEEDED", "NO_STRATEGY"} \subseteq TerminalReasons
  BY DEF TerminalReasons, StopReasons
<1>2. \/ \E reason \in TerminalReasons : Stop(reason)
      \/ /\ Retryable(k) /\ k \in policy.strategies
         /\ Goto("judged")
         /\ UNCHANGED <<policy, mode, elapsed, ending, history>>
  BY <1>1 DEF Judge
<1> QED BY <1>2 DEF Judge, Verdict

\* Schedule stops, or plans a retry and draws its token.
LEMMA ScheduleCases ==
    ASSUME Schedule
    PROVE  /\ pc = "judged" /\ counts' = counts
           /\ \/ \E reason \in TerminalReasons : Stop(reason)
              \/ /\ AnotherAttempt
                 /\ tokens' = IF policy.budget THEN tokens + 1 ELSE tokens
                 /\ Goto("planned")
                 /\ UNCHANGED <<policy, mode, elapsed, ending, calls, ends, events>>
<1>1. {"MAX_ATTEMPTS_GLOBAL", "DEADLINE_EXCEEDED", "BUDGET_EXHAUSTED"} \subseteq TerminalReasons
  BY DEF TerminalReasons, StopReasons
<1> QED BY <1>1 DEF Schedule

\* Every variable keeps its type.
THEOREM LoopTypeCorrect == Spec => []TypeOK
<1>1. Init => TypeOK
  <2> SUFFICES ASSUME Init PROVE TypeOK
    OBVIOUS
  <2>1. events \in Seq([reason : StopReasons \cup {"SUCCESS"}, attempt : Nat])
    BY DEF Init
  <2>2. elapsed \in 0..MaxElapsed /\ perClass \in [Classes -> Nat]
    BY LoopAssumption DEF Init
  <2>3. started \in BOOLEAN /\ cause \in {None, "exception", "result"}
    BY DEF Init
  <2>4. pc \in Places /\ pc # "done"
    BY DEF Init, Places
  <2> QED BY <2>1, <2>2, <2>3, <2>4 DEF Init, TypeOK
<1>2. TypeOK /\ [Next]_vars => TypeOK'
  <2> SUFFICES ASSUME TypeOK, [Next]_vars PROVE TypeOK'
    OBVIOUS
  <2>0. /\ attempt + 1 \in Nat \ {0}
        /\ calls + 1 \in Nat /\ ends + 1 \in Nat /\ tokens + 1 \in Nat /\ unknown + 1 \in Nat
    BY DEF TypeOK
  <2>1. CASE Tick \/ CarryOn \/ Sleep \/ Fail
    <3>1. CASE Tick
      BY <3>1, LoopAssumption DEF Tick, place, counts, history, TypeOK
    <3>2. CASE CarryOn
      BY <3>2 DEF CarryOn, Goto, counts, history, TypeOK, Places
    <3>3. CASE Sleep
      BY <3>3 DEF Sleep, Goto, counts, history, TypeOK, Places
    <3>4. CASE Fail
      BY <3>4 DEF Fail, counts, history, TypeOK, Places
    <3> QED BY <2>1, <3>1, <3>2, <3>3, <3>4
  <2>2. CASE StartAttempt \/ Retry
    BY <2>0, <2>2 DEF StartAttempt, AtHead, Retry, counts, TypeOK, Places
  <2>3. CASE Decisions
    BY <2>3, DecisionsConclude, ConcludesType
  <2>4. CASE Raises
    <3>1. CASE Escape
      BY <3>1, EscapeType
    <3>2. CASE pc' = "failed" /\ cause' = "exception" /\
               UNCHANGED <<policy, mode, elapsed, attempt, attempts, started, counts,
                           ending, history>>
      BY <3>2, <2>4, RaisesCases DEF counts, history, TypeOK, Places
    <3>3. CASE RaisedAbort
      BY <3>3, RaisedAbortConcludes, ConcludesType
    <3> QED BY <2>4, <3>1, <3>2, <3>3, RaisesCases
  <2>5. ASSUME NEW k \in Classes, Judge(k)
        PROVE  TypeOK'
    <3>1. perClass' \in [Classes -> Nat] /\ unknown' \in Nat
      BY <2>0, <2>5 DEF Judge, TypeOK
    <3>2. CASE \E reason \in TerminalReasons : Stop(reason)
      BY <3>1, <3>2, StopConcludes, ConcludesType
    <3>3. CASE Goto("judged") /\ UNCHANGED <<policy, mode, elapsed, ending, history>>
      BY <3>1, <3>3, <2>5, JudgeCases DEF Goto, history, TypeOK, Places
    <3> QED BY <2>5, <3>2, <3>3, JudgeCases DEF Verdict
  <2>6. CASE Schedule
    <3>1. CASE \E reason \in TerminalReasons : Stop(reason)
      BY <2>6, <3>1, ScheduleCases, StopConcludes, ConcludesType
    <3>2. CASE /\ tokens' = IF policy.budget THEN tokens + 1 ELSE tokens
               /\ Goto("planned")
               /\ UNCHANGED <<policy, mode, elapsed, ending, calls, ends, events>>
      BY <2>0, <2>6, <3>2, ScheduleCases DEF Goto, counts, TypeOK, Places
    <3> QED BY <2>6, <3>1, <3>2, ScheduleCases
  <2>7. CASE Interrupted
    BY <2>7, EscapeType DEF Interrupted
  <2>8. CASE UNCHANGED vars
    BY <2>8 DEF vars, place, counts, history, TypeOK
  <2> QED BY <2>1, <2>2, <2>3, <2>4, <2>5, <2>6, <2>7, <2>8 DEF Next, Step, Decisions, Raises
<1> QED BY <1>1, <1>2, PTL DEF Spec

\* A step that goes on counts at most one failure, and one that may be retried.
Counted ==
    \/ counts' = counts
    \/ \E k \in Classes :
          /\ Retryable(k) /\ k \in policy.strategies
          /\ perClass' = [perClass EXCEPT ![k] = @ + 1]
          /\ unknown' = IF k = Unknown THEN unknown + 1 ELSE unknown

\* A step takes a terminal decision, lets the execution escape, goes on, or is that of
\* an execution that has ended.
LEMMA StepCases ==
    ASSUME TypeOK, [Next]_vars
    PROVE  \/ pc # "done" /\ \E reason \in TerminalReasons : Concludes(reason)
           \/ Escape
           \/ pc # "done" /\ pc' # "done" /\ UNCHANGED <<policy, events>> /\ Counted
           \/ UNCHANGED vars
<1>1. CASE Tick \/ CarryOn \/ Sleep \/ Fail \/ StartAttempt \/ Retry
  BY <1>1
  DEF Tick, CarryOn, Sleep, Fail, StartAttempt, AtHead, Retry, Goto, place, history, Counted
<1>2. CASE Decisions
  BY <1>2, DecisionsConclude
  DEF Decisions, AbortAtHead, AtHead, Exhausted, Succeed, OperationAborts, AbortAfterFailure,
      Defer, AbortSleep, WakeLate
<1>3. CASE Raises
  BY <1>3, RaisesCases, RaisedAbortConcludes DEF history, Counted
<1>4. ASSUME NEW k \in Classes, Judge(k)
      PROVE  pc # "done" /\ ((\E reason \in TerminalReasons : Concludes(reason))
                             \/ (pc' # "done" /\ UNCHANGED <<policy, events>> /\ Counted))
  BY <1>4, JudgeCases, StopConcludes DEF Verdict, Goto, history, Counted, Retryable
<1>5. CASE Schedule
  BY <1>5, ScheduleCases, StopConcludes DEF Goto, Counted
<1> QED BY <1>1, <1>2, <1>3, <1>4, <1>5 DEF Next, Step, Decisions, Raises, Interrupted

\* Every execution that ends by its own decision has emitted exactly one terminal
\* event, that of its stop reason, whatever the callbacks raise.
THEOREM EventTellsEndingHolds == Spec => []EventTellsEnding
<1>1. Init => EventTellsEnding
  BY DEF Init, EventTellsEnding
<1>2. TypeOK /\ EventTellsEnding /\ [Next]_vars => EventTellsEnding'
  <2> SUFFICES ASSUME TypeOK, EventTellsEnding, [Next]_vars PROVE EventTellsEnding'
    OBVIOUS
  <2>1. ASSUME pc # "done", NEW reason \in TerminalReasons, Concludes(reason)
        PROVE  EventTellsEnding'
    <3>1. PICK n \in Nat, r \in Nat \cup {None} : Emit(reason, n) /\ Leave(reason, r)
      BY <2>1 DEF Concludes
    <3>2. [reason |-> reason, attempt |-> n] \in [reason : TerminalReasons, attempt : Nat]
      OBVIOUS
    <3>3. Len(events') = 1 /\ events'[1] = [reason |-> reason, attempt |-> n]
      BY <2>1, <3>1, <3>2, AppendProperties DEF EventTellsEnding, Emit, TypeOK, TerminalReasons
    <3> QED BY <3>1, <3>3 DEF EventTellsEnding, Leave, Goto
  <2>2. CASE Escape
    BY <2>2 DEF Escape, Leave, Goto, EventTellsEnding
  <2>3. CASE pc # "done" /\ pc' # "done" /\ UNCHANGED events
    BY <2>3 DEF EventTellsEnding
  <2>4. CASE UNCHANGED vars
    BY <2>4 DEF vars, place, history, EventTellsEnding
  <2> QED BY <2>1, <2>2, <2>3, <2>4, StepCases
<1> QED BY <1>1, <1>2, LoopTypeCorrect, PTL DEF Spec

\* While an execution goes on, unknown_attempts and per_class_counts agree, and every
\* failure counted was one that may be retried.
LEMMA FailuresCounted == Spec => [](UnknownCounted /\ OnlyRetryableSoFar)
<1>1. Init => UnknownCounted /\ OnlyRetryableSoFar
  <2> SUFFICES ASSUME Init PROVE UnknownCounted /\ OnlyRetryableSoFar
    OBVIOUS
  <2>1. policy \in Policy
    BY LoopAssumption DEF Init
  <2>2. \A k \in Classes : perClass[k] = 0
    BY DEF Init
  <2>3. policy.max_unknown_attempts # None => policy.max_unknown_attempts \in Nat
    BY <2>1 DEF Policy
  <2> QED BY <2>2, <2>3, LoopAssumption DEF Init, UnknownCounted, OnlyRetryableSoFar
<1>2. TypeOK /\ UnknownCounted /\ OnlyRetryableSoFar /\ [Next]_vars
      => (UnknownCounted /\ OnlyRetryableSoFar)'
  <2> SUFFICES ASSUME TypeOK, UnknownCounted, OnlyRetryableSoFar, [Next]_vars
               PROVE  (UnknownCounted /\ OnlyRetryableSoFar)'
    OBVIOUS
  <2>1. ASSUME NEW reason \in TerminalReasons, Concludes(reason)
        PROVE  (UnknownCounted /\ OnlyRetryableSoFar)'
    BY <2>1 DEF Concludes, Leave, Goto, UnknownCounted, OnlyRetryableSoFar
  <2>2. CASE Escape
    BY <2>2 DEF Escape, Leave, Goto, UnknownCounted, OnlyRetryableSoFar
  <2>3. ASSUME pc # "done", UNCHANGED policy, NEW k \in Classes,
               Retryable(k), k \in policy.strategies,
               perClass' = [perClass EXCEPT ![k] = @ + 1],
               unknown' = IF k = Unknown THEN unknown + 1 ELSE unknown
        PROVE  (UnknownCounted /\ OnlyRetryableSoFar)'
    <3>1. policy \in Policy /\ policy.per_class_max_attempts \in [Classes -> Nat \cup {None}]
      BY LoopAssumption DEF TypeOK, Policy
    <3>2. \A c \in Classes : perClass'[c] = IF c = k THEN perClass[c] + 1 ELSE perClass[c]
      BY <2>3 DEF TypeOK
    <3>3. UnknownCounted'
      BY <2>3, <3>2, LoopAssumption DEF UnknownCounted
    <3>4. ASSUME NEW c \in Classes, perClass'[c] > 0
          PROVE  /\ c \in policy.strategies \ NonRetryable
                 /\ policy.per_class_max_attempts[c] # None =>
                       perClass'[c] <= policy.per_class_max_attempts[c]
      <4>1. CASE c = k
        BY <2>3, <3>1, <3>2, <4>1 DEF Retryable, OverClassCap, TypeOK
      <4>2. CASE c # k
        BY <2>3, <3>1, <3>2, <3>4, <4>2 DEF OnlyRetryableSoFar
      <4> QED BY <4>1, <4>2
    <3>5. policy.max_unknown_attempts # None => perClass'[Unknown] <= policy.max_unknown_attempts
      <4>1. policy.max_unknown_attempts # None => policy.max_unknown_attempts \in Nat
        BY <3>1 DEF Policy
      <4>2. CASE k = Unknown
        BY <2>3, <3>1, <3>2, <4>1, <4>2, LoopAssumption
        DEF Retryable, OverUnknownCap, UnknownCounted, TypeOK
      <4>3. CASE k # Unknown
        BY <2>3, <3>2, <4>3, LoopAssumption DEF OnlyRetryableSoFar
      <4> QED BY <4>2, <4>3
    <3> QED BY <2>3, <3>3, <3>4, <3>5 DEF OnlyRetryableSoFar
  <2>4. CASE pc # "done" /\ UNCHANGED <<policy, counts>>
    BY <2>4 DEF counts, UnknownCounted, OnlyRetryableSoFar
  <2>5. CASE UNCHANGED vars
    BY <2>5 DEF vars, place, counts, UnknownCounted, OnlyRetryableSoFar
  <2> QED BY <2>1, <2>2, <2>3, <2>4, <2>5, StepCases DEF Counted
<1> QED BY <1>1, <1>2, LoopTypeCorrect, PTL DEF Spec

\* While an execution goes on, every failure counted was within the caps, retryable and
\* had a strategy.
THEOREM OnlyRetryableSoFarHolds == Spec => []OnlyRetryableSoFar
BY FailuresCounted, PTL

\* A callback other than abort_if that raises does so in an attempt that has started.
LEMMA RaisesInAttempt ==
    ASSUME Raises, AbortIfReturns
    PROVE  pc \in {"running", "judging", "judged", "sleeping"}
BY DEF AbortIfReturns, Raises, HeadRaises, ReturningRaises, AskingRaises, JudgingRaises,
       SchedulingRaises, SleepingRaises, CallbackRaises, AbortRaised

\* The policy is the same throughout.
LEMMA PolicyKept ==
    ASSUME [Next]_vars
    PROVE  UNCHANGED policy
BY DEF Next, vars, Tick, Interrupted, Step, AbortAtHead, HeadRaises, StartAttempt, Exhausted,
       Succeed, Fail, ReturningRaises, OperationAborts, AbortAfterFailure, AskingRaises, CarryOn,
       Judge, JudgingRaises, Schedule, SchedulingRaises, Sleep, Defer, AbortSleep,
       SleepingRaises, WakeLate, Retry, Stop, Leave, Abort, Escape, CallbackRaises, AbortRaised

LEMMA QuietKept ==
    ASSUME [Next]_vars
    PROVE  /\ AbortIfReturns' = AbortIfReturns
           /\ SleepReturns' = SleepReturns
BY PolicyKept DEF AbortIfReturns, SleepReturns

LEMMA BookkeepingInvariant ==
    Spec => [](AbortIfReturns => Bookkeeping)
<1>1. Init => Bookkeeping
  BY DEF Init, Bookkeeping
<1>2. AbortIfReturns /\ TypeOK /\ Bookkeeping /\ [Next]_vars => Bookkeeping'
  <2> SUFFICES ASSUME AbortIfReturns, TypeOK, Bookkeeping, [Next]_vars PROVE Bookkeeping'
    OBVIOUS
  <2>0. policy.max_attempts \in Nat
    BY LoopAssumption DEF TypeOK, Policy
  <2>1. CASE Tick \/ CarryOn \/ Sleep \/ Fail
    <3>1. CASE Tick
      BY <3>1 DEF Tick, place, history, Bookkeeping
    <3>2. CASE CarryOn
      <4>1. pc = "planned" => attempt < policy.max_attempts
        BY DEF Bookkeeping
      <4> QED BY <3>2, <4>1 DEF CarryOn, Goto, history, Bookkeeping
    <3>3. CASE Sleep \/ Fail
      BY <3>3 DEF Sleep, Fail, Goto, history, Bookkeeping
    <3> QED BY <2>1, <3>1, <3>2, <3>3
  <2>2. CASE StartAttempt
    BY <2>2 DEF StartAttempt, AtHead, Bookkeeping, TypeOK
  <2>3. CASE Retry
    BY <2>0, <2>3 DEF Retry, Bookkeeping, TypeOK
  <2>4. CASE Decisions
    BY <2>4, DecisionsConclude DEF Concludes, Leave, Goto, Bookkeeping
  <2>5. CASE Raises
    BY <2>5, RaisesCases, RaisesInAttempt
    DEF RaisedAbort, Escape, Leave, Goto, history, Bookkeeping
  <2>6. ASSUME NEW k \in Classes, Judge(k)
        PROVE  Bookkeeping'
    BY <2>6, JudgeCases DEF Verdict, Stop, Leave, Goto, history, Bookkeeping
  <2>7. CASE Schedule
    BY <2>7, ScheduleCases DEF Stop, Leave, Goto, AnotherAttempt, Bookkeeping
  <2>8. CASE Interrupted
    BY <2>8 DEF Interrupted, Escape, Leave, Goto, Bookkeeping
  <2>9. CASE UNCHANGED vars
    BY <2>9 DEF vars, place, history, Bookkeeping
  <2> QED BY <2>1, <2>2, <2>3, <2>4, <2>5, <2>6, <2>7, <2>8, <2>9 DEF Next, Step, Decisions, Raises
<1>3. [Next]_vars => (AbortIfReturns' <=> AbortIfReturns)
  BY QuietKept
<1> QED BY <1>1, <1>2, <1>3, LoopTypeCorrect, PTL DEF Spec

\* What a terminal decision tells of the attempts: how often the operation was called.
Tells(reason) == \E r \in {calls, None} : Emit(reason, calls) /\ Leave(reason, r)

LEMMA StopTells ==
    ASSUME TypeOK, Bookkeeping, pc \notin {"head", "done"}, NEW reason, Stop(reason)
    PROVE  Tells(reason)
BY DEF Stop, Tells, Reported, Bookkeeping

LEMMA DecisionsTell ==
    ASSUME TypeOK, Bookkeeping, Decisions
    PROVE  \E reason : Tells(reason)
<1>0. policy.max_attempts \in Nat
  BY LoopAssumption DEF TypeOK, Policy
<1>1. CASE AbortAtHead
  BY <1>1 DEF AbortAtHead, AtHead, Abort, Tells, Bookkeeping
<1>2. CASE Exhausted
  <2>1. calls = policy.max_attempts /\ attempts = calls
    BY <1>0, <1>2 DEF Exhausted, Bookkeeping, TypeOK
  <2> QED BY <1>2, <2>1 DEF Exhausted, Tells
<1>3. CASE Succeed \/ WakeLate
  BY <1>3, StopTells DEF Succeed, WakeLate
<1>4. CASE OperationAborts \/ AbortAfterFailure \/ Defer \/ AbortSleep
  <2>1. calls = attempt /\ attempts = attempt
    BY <1>4 DEF OperationAborts, AbortAfterFailure, Defer, AbortSleep, Bookkeeping
  <2> QED BY <1>4, <2>1 DEF OperationAborts, AbortAfterFailure, Abort, Defer, AbortSleep, Tells
<1> QED BY <1>1, <1>2, <1>3, <1>4 DEF Decisions

\* Unless abort_if raises, the attempts that an outcome, a RetryExhaustedError and the
\* terminal event report are the calls of the operation.
THEOREM AttemptsCountCallsHolds ==
    Spec => []AttemptsCountCalls
<1> DEFINE AttemptsAreCalls == OutcomeCountsCalls /\ (events # <<>> => events[1].attempt = calls)
<1>1. Init => AttemptsAreCalls
  BY DEF Init, OutcomeCountsCalls
<1>2. AbortIfReturns /\ TypeOK /\ Bookkeeping /\ EventTellsEnding /\ AttemptsAreCalls /\ [Next]_vars
      => AttemptsAreCalls'
  <2> SUFFICES ASSUME AbortIfReturns, TypeOK, Bookkeeping, EventTellsEnding, AttemptsAreCalls,
                      [Next]_vars
               PROVE  AttemptsAreCalls'
    OBVIOUS
  <2>1. ASSUME pc # "done", NEW reason, Tells(reason), calls' = calls
        PROVE  AttemptsAreCalls'
    <3>1. events' = Append(<<>>, [reason |-> reason, attempt |-> calls])
      BY <2>1 DEF Tells, Emit, EventTellsEnding
    <3>2. events'[1].attempt = calls
      BY <3>1
    <3> QED BY <2>1, <3>2 DEF Tells, Leave, Goto, OutcomeCountsCalls
  <2>2. CASE Escape
    BY <2>2 DEF Escape, Leave, Goto, history, OutcomeCountsCalls
  <2>3. CASE pc # "done" /\ pc' # "done" /\ UNCHANGED events
    BY <2>3 DEF EventTellsEnding, OutcomeCountsCalls
  <2>4. CASE UNCHANGED vars
    BY <2>4 DEF vars, place, history, OutcomeCountsCalls
  <2>5. CASE Decisions
    BY <2>1, <2>5, DecisionsTell, DecisionsConclude
    DEF Decisions, AbortAtHead, AtHead, Exhausted, Succeed, OperationAborts, AbortAfterFailure,
        Defer, AbortSleep, WakeLate
  <2>6. ASSUME NEW k \in Classes, Judge(k)
        PROVE  AttemptsAreCalls'
    BY <2>1, <2>3, <2>6, JudgeCases, StopTells, StopConcludes DEF Verdict, Goto, history
  <2>7. CASE Schedule
    BY <2>1, <2>3, <2>7, ScheduleCases, StopTells, StopConcludes DEF Goto
  <2>8. CASE Raises
    <3>1. RaisedAbort => Tells("ABORTED")
      <4>1. attempts = calls
        BY <2>8, RaisesInAttempt DEF Bookkeeping
      <4> QED BY <4>1 DEF RaisedAbort, Tells
    <3> QED BY <2>1, <2>2, <2>3, <2>8, <3>1, RaisesCases DEF history, RaisedAbort
  <2>9. CASE Tick \/ CarryOn \/ Sleep \/ Fail \/ StartAttempt \/ Retry
    BY <2>3, <2>9
    DEF Tick, CarryOn, Sleep, Fail, StartAttempt, AtHead, Retry, Goto, place, history
  <2> QED BY <2>2, <2>4, <2>5, <2>6, <2>7, <2>8, <2>9
          DEF Next, Step, Decisions, Raises, Interrupted
<1>3. [Next]_vars => (AbortIfReturns' <=> AbortIfReturns)
  BY QuietKept
<1> QED BY <1>1, <1>2, <1>3, LoopTypeCorrect, BookkeepingInvariant, EventTellsEndingHolds,
           PTL DEF Spec, AttemptsCountCalls

\* Unless abort_if raises, every attempt that starts has its on_attempt_end before the
\* next one starts; only a call() that abort_if stops after a failure lacks the last.
THEOREM HooksPairedHolds ==
    Spec => []HooksPaired
<1>1. Init => HooksFollowCalls
  <2>1. Init => pc # "done" /\ ~started /\ calls = 0 /\ ends = 0
    BY DEF Init
  <2> QED BY <2>1 DEF HooksFollowCalls
<1>2. AbortIfReturns /\ TypeOK /\ Bookkeeping /\ HooksFollowCalls /\ [Next]_vars
      => HooksFollowCalls'
  <2> SUFFICES ASSUME AbortIfReturns, TypeOK, Bookkeeping, HooksFollowCalls, [Next]_vars
               PROVE  HooksFollowCalls'
    OBVIOUS
  <2>0. /\ calls \in Nat /\ ends \in Nat /\ policy.max_attempts \in Nat
        /\ mode \in {"call", "execute"}
    BY LoopAssumption DEF TypeOK, Policy
  <2>1. CASE StartAttempt
    BY <2>0, <2>1 DEF StartAttempt, AtHead, Bookkeeping, HooksFollowCalls
  <2>2. CASE Retry
    BY <2>0, <2>2 DEF Retry, Bookkeeping, HooksFollowCalls
  <2>3. CASE Tick \/ CarryOn \/ Sleep \/ Fail
    <3>1. pc # "done" /\ pc' # "done" /\ UNCHANGED <<started, calls, ends>>
      BY <2>3 DEF Tick, CarryOn, Sleep, Fail, Goto, place, history
    <3> QED BY <3>1 DEF HooksFollowCalls
  <2>4. CASE AbortAtHead \/ AbortAfterFailure
    BY <2>0, <2>4
    DEF AbortAtHead, AtHead, AbortAfterFailure, Abort, Leave, Goto, Bookkeeping, HooksFollowCalls
  <2>5. CASE Exhausted
    BY <2>0, <2>5 DEF Exhausted, Leave, Goto, Bookkeeping, HooksFollowCalls
  <2>6. ASSUME NEW reason, Stop(reason), pc \notin {"head", "done"}
        PROVE  HooksFollowCalls'
    BY <2>0, <2>6 DEF Stop, Leave, Goto, Bookkeeping, HooksFollowCalls
  <2>7. CASE Succeed \/ WakeLate
    BY <2>6, <2>7 DEF Succeed, WakeLate
  <2>8. CASE OperationAborts \/ Defer \/ AbortSleep
    BY <2>0, <2>8 DEF OperationAborts, Defer, AbortSleep, Leave, Goto, Bookkeeping, HooksFollowCalls
  <2>9. ASSUME NEW k \in Classes, Judge(k)
        PROVE  HooksFollowCalls'
    BY <2>6, <2>9, JudgeCases DEF Verdict, Goto, history, HooksFollowCalls
  <2>10. CASE Schedule
    BY <2>6, <2>10, ScheduleCases DEF Goto, HooksFollowCalls
  <2>11. CASE Escape
    BY <2>11 DEF Escape, Leave, Goto, history, HooksFollowCalls
  <2>12. CASE Raises
    <3>1. CASE RaisedAbort
      <4>1. started /\ ends = calls - 1
        BY <2>12, RaisesInAttempt DEF Bookkeeping, HooksFollowCalls
      <4> QED BY <2>0, <3>1, <4>1 DEF RaisedAbort, Leave, Goto, HooksFollowCalls
    <3> QED BY <2>11, <2>12, <3>1, RaisesCases DEF history, HooksFollowCalls
  <2>13. CASE UNCHANGED vars
    BY <2>13 DEF vars, place, history, HooksFollowCalls
  <2> QED BY <2>1, <2>2, <2>3, <2>4, <2>5, <2>7, <2>8, <2>9, <2>10, <2>11, <2>12, <2>13
          DEF Next, Step, Raises, Interrupted
<1>3. [Next]_vars => (AbortIfReturns' <=> AbortIfReturns)
  BY QuietKept
<1> QED BY <1>1, <1>2, <1>3, LoopTypeCorrect, BookkeepingInvariant, PTL DEF Spec, HooksPaired

\* The tokens drawn follow where the loop is, unless abort_if or a sleep raises.
LEMMA TokensDrawnInvariant ==
    Spec => [](AbortIfReturns /\ SleepReturns => TokensDrawn)
<1>1. Init => TokensDrawn
  BY DEF Init, TokensDrawn
<1>2. /\ AbortIfReturns /\ SleepReturns /\ TypeOK /\ Bookkeeping /\ TokensDrawn /\ [Next]_vars
      => TokensDrawn'
  <2> SUFFICES ASSUME AbortIfReturns, SleepReturns, TypeOK, Bookkeeping, TokensDrawn, [Next]_vars
               PROVE  TokensDrawn'
    OBVIOUS
  <2>0. calls \in Nat /\ tokens \in Nat /\ attempt \in Nat
    BY DEF TypeOK
  <2>1. CASE StartAttempt
    BY <2>0, <2>1 DEF StartAttempt, AtHead, TokensDrawn
  <2>2. CASE Retry
    BY <2>2 DEF Retry, TokensDrawn
  <2>3. CASE Tick \/ CarryOn \/ Sleep \/ Fail
    <3>1. CASE Tick
      BY <3>1 DEF Tick, place, history, TokensDrawn
    <3>2. CASE CarryOn
      BY <3>2 DEF CarryOn, Goto, history, TokensDrawn
    <3>3. CASE Sleep \/ Fail
      BY <3>3 DEF Sleep, Fail, Goto, history, TokensDrawn
    <3> QED BY <2>3, <3>1, <3>2, <3>3
  <2>4. CASE Decisions
    BY <2>4, DecisionsConclude DEF Concludes, Leave, Goto, TokensDrawn
  <2>5. ASSUME NEW k \in Classes, Judge(k)
        PROVE  TokensDrawn'
    BY <2>5, JudgeCases DEF Verdict, Stop, Leave, Goto, history, TokensDrawn
  <2>6. CASE Schedule
    <3>1. CASE \E reason \in TerminalReasons : Stop(reason)
      BY <3>1 DEF Stop, Leave, Goto, TokensDrawn
    <3>2. CASE /\ tokens' = IF policy.budget THEN tokens + 1 ELSE tokens
               /\ Goto("planned")
               /\ UNCHANGED <<policy, calls>>
      BY <2>0, <2>6, <3>2, ScheduleCases DEF Goto, TokensDrawn
    <3> QED BY <2>6, <3>1, <3>2, ScheduleCases
  <2>7. CASE Escape
    BY <2>7 DEF Escape, Leave, Goto, TokensDrawn
  <2>8. CASE Raises
    <3>1. pc \in {"running", "judging", "judged"}
      BY <2>8 DEF AbortIfReturns, SleepReturns, Raises, HeadRaises, ReturningRaises, AskingRaises, JudgingRaises,
                  SchedulingRaises, SleepingRaises, CallbackRaises, AbortRaised
    <3> QED BY <2>7, <2>8, <3>1, RaisesCases DEF RaisedAbort, Leave, Goto, history, TokensDrawn
  <2>9. CASE UNCHANGED vars
    BY <2>9 DEF vars, place, history, TokensDrawn
  <2> QED BY <2>1, <2>2, <2>3, <2>4, <2>5, <2>6, <2>7, <2>8, <2>9
          DEF Next, Step, Decisions, Raises, Interrupted
<1>3. [Next]_vars => (AbortIfReturns' <=> AbortIfReturns) /\ (SleepReturns' <=> SleepReturns)
  BY QuietKept
<1> QED BY <1>1, <1>2, <1>3, LoopTypeCorrect, BookkeepingInvariant, PTL DEF Spec

\* Unless abort_if or a sleep raises, the budget has given a token for every retry, and
\* at most one more, for a retry that was aborted, deferred or late.
THEOREM TokensCountRetriesHolds ==
    Spec => []TokensCountRetries
<1>1. Init => TokensAreRetries
  BY DEF Init, TokensAreRetries
<1>2. /\ TypeOK /\ Bookkeeping /\ TokensDrawn /\ TokensAreRetries
      /\ TypeOK' /\ TokensDrawn' /\ [Next]_vars
      => TokensAreRetries'
  <2> SUFFICES ASSUME TypeOK, Bookkeeping, TokensDrawn, TokensAreRetries,
                      TypeOK', TokensDrawn', [Next]_vars
               PROVE  TokensAreRetries'
    OBVIOUS
  <2>0. calls \in Nat /\ tokens \in Nat /\ policy.max_attempts \in Nat
    BY LoopAssumption DEF TypeOK, Policy
  <2>1. CASE pc' # "done"
    BY <2>1 DEF TokensDrawn, TokensAreRetries, TypeOK
  <2>2. ASSUME pc # "done", NEW reason, ending'.reason = reason,
               UNCHANGED <<policy, calls, tokens>>,
               \/ reason \in {"ABORTED", "SCHEDULED", "DEADLINE_EXCEEDED", "ESCAPED"}
               \/ pc \in {"running", "judging", "judged"}
               \/ calls = 0
        PROVE  TokensAreRetries'
    BY <2>0, <2>2 DEF TokensDrawn, TokensAreRetries
  <2>3. ASSUME NEW reason, Stop(reason), pc \in {"running", "judging", "judged"}
        PROVE  TokensAreRetries'
    BY <2>2, <2>3 DEF Stop, Leave
  <2>4. CASE Decisions
    <3>1. CASE AbortAtHead \/ AbortAfterFailure
      BY <2>2, <3>1 DEF AbortAtHead, AtHead, AbortAfterFailure, Abort, Leave
    <3>2. CASE Exhausted
      <4>1. calls = 0
        BY <2>0, <3>2 DEF Exhausted, Bookkeeping, TypeOK
      <4> QED BY <2>2, <3>2, <4>1 DEF Exhausted, Leave
    <3>3. CASE Succeed
      BY <2>3, <3>3 DEF Succeed
    <3>4. CASE OperationAborts \/ Defer \/ AbortSleep
      BY <2>2, <3>4 DEF OperationAborts, Defer, AbortSleep, Leave
    <3>5. CASE WakeLate
      BY <2>2, <3>5 DEF WakeLate, Stop, Leave
    <3> QED BY <2>4, <3>1, <3>2, <3>3, <3>4, <3>5 DEF Decisions
  <2>5. ASSUME NEW k \in Classes, Judge(k)
        PROVE  TokensAreRetries'
    BY <2>1, <2>3, <2>5, JudgeCases DEF Verdict, Goto
  <2>6. CASE Schedule
    BY <2>1, <2>3, <2>6, ScheduleCases DEF Goto
  <2>7. CASE Escape /\ pc # "done"
    BY <2>2, <2>7 DEF Escape, Leave, history
  <2>8. CASE Raises
    <3>1. CASE RaisedAbort
      BY <2>2, <2>8, <3>1, RaisesCases DEF RaisedAbort, Leave
    <3> QED BY <2>1, <2>7, <2>8, <3>1, RaisesCases
  <2>9. CASE UNCHANGED vars
    BY <2>9 DEF vars, place, history, TokensAreRetries
  <2>10. CASE Tick \/ CarryOn \/ Sleep \/ Fail \/ StartAttempt \/ Retry
    BY <2>1, <2>10 DEF Tick, CarryOn, Sleep, Fail, StartAttempt, Retry, Goto, place
  <2> QED BY <2>4, <2>5, <2>6, <2>7, <2>8, <2>9, <2>10
          DEF Next, Step, Decisions, Raises, Interrupted
<1>3. [Next]_vars => (AbortIfReturns' <=> AbortIfReturns) /\ (SleepReturns' <=> SleepReturns)
  BY QuietKept
<1> QED BY <1>1, <1>2, <1>3, LoopTypeCorrect, BookkeepingInvariant, TokensDrawnInvariant,
           PTL DEF Spec, TokensCountRetries

-----------------------------------------------------------------------------------
(* The contract.                                                                   *)

\* The attempts are in step with the calls, whatever the callbacks raise.
LEMMA RoundsInvariant == Spec => []Rounds
<1>1. Init => Rounds
  <2> SUFFICES ASSUME Init PROVE Rounds
    OBVIOUS
  <2>1. policy.max_attempts \in Nat
    BY LoopAssumption DEF Init, Policy
  <2> QED BY <2>1 DEF Init, Rounds
<1>2. TypeOK /\ Rounds /\ [Next]_vars => Rounds'
  <2> SUFFICES ASSUME TypeOK, Rounds, [Next]_vars PROVE Rounds'
    OBVIOUS
  <2>0. /\ policy.max_attempts \in Nat /\ attempt \in Nat /\ attempts \in Nat /\ calls \in Nat
        /\ UNCHANGED policy
    BY LoopAssumption, PolicyKept DEF TypeOK, Policy
  <2>1. CASE Tick \/ CarryOn \/ Sleep \/ Fail
    <3>1. CASE Tick
      BY <3>1 DEF Tick, place, history, Rounds
    <3>2. CASE CarryOn
      BY <3>2 DEF CarryOn, Goto, history, Rounds
    <3>3. CASE Sleep \/ Fail
      BY <3>3 DEF Sleep, Fail, Goto, history, Rounds
    <3> QED BY <2>1, <3>1, <3>2, <3>3
  <2>2. CASE StartAttempt
    BY <2>0, <2>2 DEF StartAttempt, AtHead, Rounds
  <2>3. CASE Retry
    BY <2>0, <2>3 DEF Retry, Rounds
  <2>4. CASE Decisions
    BY <2>4, DecisionsConclude DEF Concludes, Leave, Goto, Rounds
  <2>5. CASE Raises
    <3>1. pc = "head" => attempt <= policy.max_attempts
      BY <2>5 DEF Raises, HeadRaises, AtHead, ReturningRaises, AskingRaises, JudgingRaises,
                  SchedulingRaises, SleepingRaises
    <3> QED BY <2>0, <2>5, <3>1, RaisesCases
            DEF RaisedAbort, Escape, Leave, Goto, history, Rounds
  <2>6. ASSUME NEW k \in Classes, Judge(k)
        PROVE  Rounds'
    BY <2>6, JudgeCases DEF Verdict, Stop, Leave, Goto, history, Rounds
  <2>7. CASE Schedule
    BY <2>7, ScheduleCases DEF Stop, Leave, Goto, AnotherAttempt, Rounds
  <2>8. CASE Interrupted
    BY <2>8 DEF Interrupted, Escape, Leave, Goto, Rounds
  <2>9. CASE UNCHANGED vars
    BY <2>9 DEF vars, place, history, Rounds
  <2> QED BY <2>1, <2>2, <2>3, <2>4, <2>5, <2>6, <2>7, <2>8, <2>9 DEF Next, Step, Decisions, Raises
<1> QED BY <1>1, <1>2, LoopTypeCorrect, PTL DEF Spec

\* Where the loop is, in the terms of the contract.
LEMMA PhaseOfPlace ==
    ASSUME pc \in Places
    PROVE  /\ pc = "head" <=> Phase = "ready"
           /\ pc = "running" <=> Phase = "calling"
           /\ pc \in {"failed", "judging"} <=> Phase = "failed"
           /\ pc = "judged" <=> Phase = "allowed"
           /\ pc \in {"planned", "sleeping", "woken"} <=> Phase = "retrying"
           /\ pc = "done" <=> Phase = "over"
BY DEF Phase, Places

\* The loop ends as an execution may, if it reports what it does.
LEMMA LeaveEnds ==
    ASSUME TypeOK, Rounds, pc # "done", NEW reason, NEW n \in {attempts, attempt, None},
           Leave(reason, n), UNCHANGED <<calls, tokens>>
    PROVE  Contract!End(reason)
<1>1. Phase # "over"
  BY PhaseOfPlace DEF TypeOK
<1>2. Phase' = "over"
  BY DEF Leave, Goto, Phase
<1>3. n \in (calls..attempt) \cup {None}
  BY DEF TypeOK, Rounds
<1>4. ending' \in [reason : {reason}, attempts : (calls..attempt) \cup {None}]
  BY <1>3 DEF Leave
<1> QED BY <1>1, <1>2, <1>4 DEF Leave, Goto, Contract!End

LEMMA StopEnds ==
    ASSUME TypeOK, Rounds, pc # "done", NEW reason, Stop(reason)
    PROVE  Contract!End(reason)
BY LeaveEnds DEF Stop, Reported

\* Every terminal decision gives a stop reason that is true.
LEMMA DecisionsAreTrue ==
    ASSUME TypeOK, Rounds, Decisions
    PROVE  Contract!Stop
<1>0. pc # "done" /\ UNCHANGED perClass /\ UNCHANGED <<calls, tokens>>
  BY DecisionsConclude
  DEF Decisions, AbortAtHead, AtHead, Exhausted, Succeed, OperationAborts, AbortAfterFailure,
      Defer, AbortSleep, WakeLate, counts
<1>1. CASE AbortAtHead \/ OperationAborts \/ AbortAfterFailure \/ AbortSleep
  <2>1. Contract!End("ABORTED")
    BY <1>0, <1>1, LeaveEnds DEF AbortAtHead, OperationAborts, AbortAfterFailure, AbortSleep, Abort
  <2> QED BY <1>0, <2>1 DEF Contract!Stop
<1>2. CASE Exhausted
  <2>1. Contract!End("MAX_ATTEMPTS_GLOBAL")
    BY <1>0, <1>2, LeaveEnds DEF Exhausted
  <2>2. Phase = "ready" /\ attempt > policy.max_attempts
    BY <1>2, PhaseOfPlace DEF Exhausted, TypeOK
  <2> QED BY <1>0, <2>1, <2>2 DEF Contract!Stop
<1>3. CASE Succeed
  <2>1. Contract!End("SUCCESS") /\ Phase = "calling"
    BY <1>0, <1>3, StopEnds, PhaseOfPlace DEF Succeed, TypeOK
  <2> QED BY <1>0, <2>1 DEF Contract!Stop
<1>4. CASE Defer
  <2>1. Contract!End("SCHEDULED") /\ Phase = "retrying"
    BY <1>0, <1>4, LeaveEnds, PhaseOfPlace DEF Defer, TypeOK
  <2> QED BY <1>0, <2>1 DEF Contract!Stop
<1>5. CASE WakeLate
  <2>1. Contract!End("DEADLINE_EXCEEDED") /\ Phase = "retrying" /\ elapsed > policy.deadline
    BY <1>0, <1>5, StopEnds, PhaseOfPlace DEF WakeLate, Late, TypeOK
  <2> QED BY <1>0, <2>1 DEF Contract!Stop
<1> QED BY <1>1, <1>2, <1>3, <1>4, <1>5 DEF Decisions

LEMMA EscapeStops ==
    ASSUME TypeOK, Rounds, pc # "done", Escape
    PROVE  Contract!Stop
<1>1. Contract!End("ESCAPED")
  BY LeaveEnds DEF Escape, history
<1> QED BY <1>1 DEF Escape, counts, Contract!Stop

\* A callback that raises is a failure, of the operation or once more, or the end.
LEMMA RaisesFail ==
    ASSUME TypeOK, Rounds, Raises
    PROVE  Contract!Fail \/ Contract!Relapse \/ Contract!Stop
<1>1. CASE Escape
  BY <1>1, RaisesCases, EscapeStops
<1>2. CASE /\ cause # "exception"
           /\ pc' = "failed" /\ cause' = "exception"
           /\ UNCHANGED <<policy, mode, elapsed, attempt, attempts, started, counts, ending, history>>
  <2>1. /\ Phase' = "failed" /\ (cause = "exception") = FALSE /\ (cause = "exception")' = TRUE
        /\ UNCHANGED <<policy, elapsed, attempt, perClass, calls, tokens, ending>>
    BY <1>2 DEF Phase, counts, history
  <2>2. pc # "done" /\ (pc = "head" => attempt <= policy.max_attempts)
    BY RaisesCases DEF Raises, HeadRaises, AtHead, ReturningRaises, AskingRaises, JudgingRaises,
                       SchedulingRaises, SleepingRaises
  <2>3. \/ Phase \in {"failed", "allowed", "retrying"} \/ Phase = "calling"
        \/ Phase = "ready" /\ attempt <= policy.max_attempts
    BY <2>2, PhaseOfPlace DEF TypeOK, Places
  <2> QED BY <2>1, <2>3 DEF Contract!Fail, Contract!Relapse
<1>3. CASE RaisedAbort
  <2>1. Contract!End("ABORTED") /\ UNCHANGED perClass
    BY <1>3, RaisesCases, LeaveEnds DEF RaisedAbort, counts
  <2> QED BY <2>1 DEF Contract!Stop
<1> QED BY <1>1, <1>2, <1>3, RaisesCases

\* The verdict on a failure is that of the contract: the caps count what it counts.
LEMMA JudgeIsFair ==
    ASSUME TypeOK, Rounds, UnknownCounted, NEW k \in Classes, Judge(k)
    PROVE  Contract!Allow(k) \/ Contract!Refuse(k)
<1>0. /\ pc = "judging" /\ Phase = "failed"
      /\ perClass' = [perClass EXCEPT ![k] = @ + 1] /\ perClass'[k] = perClass[k] + 1
      /\ k = Unknown => unknown = perClass[k]
  BY PhaseOfPlace DEF Judge, TypeOK, UnknownCounted
<1>1. /\ OverClassCap(k) <=> Contract!Exceeds(perClass'[k], policy.per_class_max_attempts[k])
      /\ k = Unknown =>
            (OverUnknownCap(k) <=> Contract!Exceeds(perClass'[k], policy.max_unknown_attempts))
  BY <1>0 DEF OverClassCap, OverUnknownCap, Contract!Exceeds
<1>2. Contract!Count(k)
  BY <1>0 DEF Contract!Count
<1>3. CASE Goto("judged") /\ Retryable(k) /\ ~Late /\ k \in policy.strategies
           /\ UNCHANGED <<policy, mode, elapsed, ending, history>>
  <2>1. Phase' = "allowed" /\ UNCHANGED <<policy, elapsed, attempt, cause, calls, tokens, ending>>
    BY <1>3 DEF Goto, Phase, history
  <2>2. elapsed <= policy.deadline /\ k \in policy.strategies \ NonRetryable
    <3>1. elapsed \in Int /\ policy.deadline \in Int
      BY LoopAssumption DEF TypeOK, Policy
    <3> QED BY <1>3, <3>1 DEF Late, Retryable
  <2>3. /\ ~Contract!Exceeds(perClass'[k], policy.per_class_max_attempts[k])
        /\ k = Unknown => ~Contract!Exceeds(perClass'[k], policy.max_unknown_attempts)
    BY <1>1, <1>3 DEF Retryable
  <2> QED BY <1>0, <1>2, <2>1, <2>2, <2>3 DEF Contract!Allow
<1>4. CASE \/ OverClassCap(k) /\ Stop("MAX_ATTEMPTS_PER_CLASS")
           \/ k \in NonRetryable /\ Stop("NON_RETRYABLE_CLASS")
           \/ OverUnknownCap(k) /\ Stop("MAX_UNKNOWN_ATTEMPTS")
           \/ Late /\ Stop("DEADLINE_EXCEEDED")
           \/ k \notin policy.strategies /\ Stop("NO_STRATEGY")
  <2>1. OverUnknownCap(k) => k = Unknown
    BY DEF OverUnknownCap
  <2> QED BY <1>0, <1>1, <1>2, <1>4, <2>1, StopEnds DEF Late, Contract!Refuse
<1> QED BY <1>3, <1>4 DEF Judge, Retryable

\* A retry is planned, or refused, as the contract has it.
LEMMA ScheduleIsPlanned ==
    ASSUME TypeOK, Rounds, Schedule
    PROVE  Contract!Plan \/ Contract!Stop
<1>0. pc = "judged" /\ Phase = "allowed" /\ UNCHANGED perClass
  BY PhaseOfPlace DEF Schedule, counts, TypeOK
<1>1. CASE \/ elapsed >= policy.deadline /\ Stop("DEADLINE_EXCEEDED")
           \/ attempt >= policy.max_attempts /\ Stop("MAX_ATTEMPTS_GLOBAL")
           \/ policy.budget /\ Stop("BUDGET_EXHAUSTED")
  BY <1>0, <1>1, StopEnds DEF Contract!Stop
<1>2. CASE /\ AnotherAttempt
           /\ tokens' = IF policy.budget THEN tokens + 1 ELSE tokens
           /\ Goto("planned")
           /\ UNCHANGED <<policy, mode, elapsed, ending, calls, ends, events>>
  <2>1. Phase' = "retrying"
    BY <1>2 DEF Goto, Phase
  <2> QED BY <1>0, <1>2, <2>1 DEF AnotherAttempt, Goto, Contract!Plan
<1> QED BY <1>1, <1>2 DEF Schedule

\* The other steps.
LEMMA OtherSteps ==
    ASSUME TypeOK, Rounds, Tick \/ StartAttempt \/ Fail \/ CarryOn \/ Sleep \/ Retry
    PROVE  [Contract!Next]_(Contract!contractVars)
<1>1. CASE Tick
  <2>1. UNCHANGED Phase /\ Phase # "over"
    BY <1>1, PhaseOfPlace DEF Tick, place, Phase, TypeOK
  <2>2. Contract!Wait
    BY <1>1, <2>1 DEF Tick, place, counts, history, Contract!Wait
  <2> QED BY <2>2 DEF Contract!Next
<1>2. CASE StartAttempt
  <2>1. Phase = "ready" /\ Phase' = "calling"
    BY <1>2, PhaseOfPlace DEF StartAttempt, AtHead, Phase, TypeOK
  <2>2. Contract!Call
    BY <1>2, <2>1 DEF StartAttempt, AtHead, counts, Contract!Call
  <2> QED BY <2>2 DEF Contract!Next
<1>3. CASE Fail
  <2>1. Phase = "calling" /\ Phase' = "failed"
    BY <1>3, PhaseOfPlace DEF Fail, Phase, TypeOK
  <2>2. (cause = "exception")' \in BOOLEAN
    OBVIOUS
  <2>3. Contract!Fail
    BY <1>3, <2>1, <2>2 DEF Fail, counts, history, Contract!Fail
  <2> QED BY <2>3 DEF Contract!Next
<1>4. CASE CarryOn \/ Sleep
  <2>1. UNCHANGED Phase
    BY <1>4 DEF CarryOn, Sleep, Goto, Phase
  <2> QED BY <1>4, <2>1 DEF CarryOn, Sleep, Goto, counts, history, Contract!contractVars
<1>5. CASE Retry
  <2>1. Phase = "retrying" /\ Phase' = "ready"
    BY <1>5, PhaseOfPlace DEF Retry, Phase, TypeOK
  <2>2. elapsed <= policy.deadline
    <3>1. elapsed \in Int /\ policy.deadline \in Int
      BY LoopAssumption DEF TypeOK, Policy
    <3> QED BY <1>5, <3>1 DEF Retry, Late
  <2>3. (cause = "exception")' = FALSE
    BY <1>5, LoopAssumption DEF Retry
  <2>4. Contract!Retry
    BY <1>5, <2>1, <2>2, <2>3 DEF Retry, counts, Contract!Retry
  <2> QED BY <2>4 DEF Contract!Next
<1> QED BY <1>1, <1>2, <1>3, <1>4, <1>5

\* The loop implements its contract: whatever the callbacks raise, the operation is called
\* again only for an allowed failure and a token, and the stop reasons are true.
THEOREM KeepsContractHolds == Spec => KeepsContract
<1>1. Init => Contract!Init
  <2> SUFFICES ASSUME Init PROVE Contract!Init
    OBVIOUS
  <2>1. Phase = "ready"
    BY DEF Init, Phase
  <2>2. (cause = "exception") = FALSE
    BY LoopAssumption DEF Init
  <2> QED BY <2>1, <2>2 DEF Init, Contract!Init
<1>2. TypeOK /\ Rounds /\ UnknownCounted /\ [Next]_vars => [Contract!Next]_(Contract!contractVars)
  <2> SUFFICES ASSUME TypeOK, Rounds, UnknownCounted, [Next]_vars
               PROVE  [Contract!Next]_(Contract!contractVars)
    OBVIOUS
  <2>1. CASE Tick \/ StartAttempt \/ Fail \/ CarryOn \/ Sleep \/ Retry
    BY <2>1, OtherSteps
  <2>2. CASE Decisions \/ Interrupted
    BY <2>2, DecisionsAreTrue, EscapeStops DEF Interrupted, Contract!Next
  <2>3. CASE Raises
    BY <2>3, RaisesFail DEF Contract!Next
  <2>4. ASSUME NEW k \in Classes, Judge(k)
        PROVE  Contract!Next
    BY <2>4, JudgeIsFair DEF Contract!Next
  <2>5. CASE Schedule
    BY <2>5, ScheduleIsPlanned DEF Contract!Next
  <2>6. CASE UNCHANGED vars
    <3>1. UNCHANGED Phase
      BY <2>6 DEF vars, place, Phase
    <3> QED BY <2>6, <3>1 DEF vars, place, counts, history, Contract!contractVars
  <2> QED BY <2>1, <2>2, <2>3, <2>4, <2>5, <2>6 DEF Next, Step, Decisions, Raises
<1> QED BY <1>1, <1>2, LoopTypeCorrect, RoundsInvariant, FailuresCounted, PTL
        DEF Spec, KeepsContract, Contract!Spec

\* How many tokens a round may have drawn, by its phase: one for its failure, and one for
\* that of a callback.
Drawn ==
    (IF Phase = "retrying" THEN 1 ELSE 0)
    + (IF Phase \in {"failed", "allowed", "retrying"} /\ cause = "exception" THEN 1 ELSE 0)

\* The calls and the tokens of the contract, counted by rounds.
Thrift ==
    /\ policy \in Policies
    /\ attempt \in Nat \ {0} /\ calls \in Nat /\ tokens \in Nat
    /\ calls <= attempt
    /\ Phase = "ready" => calls < attempt
    /\ Phase \notin {"ready", "over"} => attempt <= policy.max_attempts
    /\ Phase = "retrying" => attempt < policy.max_attempts
    /\ policy.budget /\ Phase # "over" =>
          attempt + (IF Phase = "retrying" THEN 1 ELSE 0) <= tokens + 1
    /\ Phase # "over" => tokens <= 2 * (attempt - 1) + Drawn
    /\ Contract!Frugal

\* Whoever keeps the contract makes no more than max_attempts calls, pays for each but the
\* first, and draws no more than two tokens for each retry that it could make.
LEMMA ThriftOfContract == KeepsContract => []Thrift
<1>0. \A p \in Policies : p.max_attempts \in Nat /\ p.budget \in BOOLEAN
  BY LoopAssumption DEF Policy
<1>1. Contract!Init => Thrift
  BY <1>0 DEF Contract!Init, Thrift, Drawn, Contract!Frugal
<1>2. Thrift /\ [Contract!Next]_(Contract!contractVars) => Thrift'
  <2> SUFFICES ASSUME Thrift, [Contract!Next]_(Contract!contractVars) PROVE Thrift'
    OBVIOUS
  <2>0. policy.max_attempts \in Nat /\ policy.budget \in BOOLEAN
    BY <1>0 DEF Thrift
  <2>1. CASE Contract!Wait \/ UNCHANGED Contract!contractVars
    BY <2>1 DEF Contract!Wait, Contract!contractVars, Thrift, Drawn, Contract!Frugal
  <2>2. CASE Contract!Call
    BY <2>0, <2>2 DEF Contract!Call, Thrift, Drawn, Contract!Frugal
  <2>3. CASE Contract!Fail
    BY <2>0, <2>3 DEF Contract!Fail, Thrift, Drawn, Contract!Frugal
  <2>4. CASE Contract!Relapse
    BY <2>0, <2>4 DEF Contract!Relapse, Thrift, Drawn, Contract!Frugal
  <2>5. ASSUME NEW k \in Classes, Contract!Allow(k)
        PROVE  Thrift'
    BY <2>0, <2>5 DEF Contract!Allow, Thrift, Drawn, Contract!Frugal
  <2>6. CASE Contract!Plan
    BY <2>0, <2>6 DEF Contract!Plan, Thrift, Drawn, Contract!Frugal
  <2>7. CASE Contract!Retry
    BY <2>0, <2>7 DEF Contract!Retry, Thrift, Drawn, Contract!Frugal
  <2>8. ASSUME NEW reason, Contract!End(reason)
        PROVE  Thrift'
    BY <2>0, <2>8 DEF Contract!End, Thrift, Contract!Frugal
  <2>9. CASE Contract!Stop
    BY <2>8, <2>9 DEF Contract!Stop
  <2>10. ASSUME NEW k \in Classes, Contract!Refuse(k)
         PROVE  Thrift'
    BY <2>8, <2>10 DEF Contract!Refuse
  <2> QED BY <2>1, <2>2, <2>3, <2>4, <2>5, <2>6, <2>7, <2>9, <2>10 DEF Contract!Next
<1> QED BY <1>1, <1>2, PTL DEF KeepsContract, Contract!Spec

\* Whatever the callbacks raise, an execution calls its operation max_attempts times at
\* most, each time but the first for a token of the budget.
THEOREM FrugalHolds == Spec => []Contract!Frugal
<1>1. Thrift => Contract!Frugal
  BY DEF Thrift
<1> QED BY <1>1, KeepsContractHolds, ThriftOfContract, PTL

-----------------------------------------------------------------------------------
(* The way to the end.                                                             *)

\* The height is of an attempt, and the rank is within its bound.
Ranked ==
    /\ Height \in 0..16 /\ (pc # "done" => Height > 0)
    /\ Rank = IF pc = "done" THEN 0 ELSE 16 * (policy.max_attempts + 1 - attempt) + Height
    /\ pc # "done" => Rank \in 1..(16 * (policy.max_attempts + 1))

\* The rank is the attempts left, and then the height, which is less than that of an attempt.
LEMMA RankByHeight ==
    ASSUME TypeOK, Rounds
    PROVE  Ranked
<1>1. Height \in 0..16 /\ (pc # "done" => Height > 0)
  BY DEF Height, TypeOK, Places
<1>2. policy.max_attempts \in Nat /\ attempt \in Nat \ {0} /\ attempt <= policy.max_attempts + 1
  BY LoopAssumption DEF TypeOK, Policy, Rounds
<1>3. Rank = IF pc = "done" THEN 0 ELSE 16 * (policy.max_attempts + 1 - attempt) + Height
  BY DEF Rank
<1> QED BY <1>1, <1>2, <1>3 DEF Ranked

\* A step within an attempt goes down; the next attempt begins at the top, a level lower.
LEMMA StepGoesDown ==
    ASSUME TypeOK, Rounds, Next, UNCHANGED elapsed
    PROVE  /\ pc # "done"
           /\ \/ pc' = "done"
              \/ UNCHANGED attempt /\ Height' < Height
              \/ attempt' = attempt + 1 /\ pc' = "head"
<1>0. ~Tick
  BY DEF Tick, TypeOK
<1>1. CASE StartAttempt \/ Fail
  BY <1>1, LoopAssumption DEF StartAttempt, AtHead, Fail, Rounds, Height
<1>2. CASE CarryOn \/ Sleep
  BY <1>2 DEF CarryOn, Sleep, Goto, Height
<1>3. CASE Retry
  BY <1>3 DEF Retry
<1>4. CASE Decisions \/ Interrupted
  BY <1>4, DecisionsConclude
  DEF Concludes, Leave, Goto, Interrupted, Escape, Decisions, AbortAtHead, AtHead, Exhausted,
      Succeed, OperationAborts, AbortAfterFailure, Defer, AbortSleep, WakeLate
<1>5. CASE Raises
  <2>1. CASE Escape \/ RaisedAbort
    BY <1>5, <2>1, RaisesCases DEF Escape, RaisedAbort, Leave, Goto
  <2>2. CASE cause # "exception" /\ pc' = "failed" /\ cause' = "exception" /\ UNCHANGED attempt
    <3>1. pc # "done"
      BY <1>5, RaisesCases
    <3>2. Height > 8 /\ Height \in 0..16 /\ Height' = 6
      BY <2>2, <3>1, RankByHeight DEF Ranked, Height, TypeOK, Places
    <3> QED BY <2>2, <3>1, <3>2
  <2> QED BY <1>5, <2>1, <2>2, RaisesCases
<1>6. ASSUME NEW k \in Classes, Judge(k)
      PROVE  pc # "done" /\ (pc' = "done" \/ (UNCHANGED attempt /\ Height' < Height))
  BY <1>6, JudgeCases DEF Verdict, Stop, Leave, Goto, Height
<1>7. CASE Schedule
  BY <1>7, ScheduleCases DEF Stop, Leave, Goto, Height
<1> QED BY <1>0, <1>1, <1>2, <1>3, <1>4, <1>5, <1>6, <1>7 DEF Next, Step, Decisions, Raises

\* Every step but the passing of time brings an execution nearer its end, whatever the
\* callbacks raise: it takes no more than 16 * (max_attempts + 1) of them.
THEOREM StepsDescendHolds == Spec => StepsDescend
<1>1. ASSUME TypeOK, Rounds, TypeOK', Ranked', [Next]_vars
      PROVE  [ UNCHANGED elapsed =>
                  Rank' \in 0..(16 * (policy.max_attempts + 1)) /\ Rank' < Rank ]_vars
  <2> SUFFICES ASSUME Next, UNCHANGED elapsed
               PROVE  Rank' \in 0..(16 * (policy.max_attempts + 1)) /\ Rank' < Rank
    BY <1>1
  <2>0. /\ policy.max_attempts \in Nat /\ attempt \in Nat /\ attempt' \in Nat
        /\ UNCHANGED policy
    BY <1>1, LoopAssumption, PolicyKept DEF TypeOK, Policy
  <2>1. pc # "done" /\ Ranked
    BY <1>1, StepGoesDown, RankByHeight
  <2>2. CASE pc' = "done"
    BY <1>1, <2>0, <2>1, <2>2 DEF Ranked
  <2>3. CASE pc' # "done" /\ UNCHANGED attempt /\ Height' < Height
    BY <1>1, <2>0, <2>1, <2>3 DEF Ranked
  <2>4. CASE pc' = "head" /\ attempt' = attempt + 1
    BY <1>1, <2>0, <2>1, <2>4 DEF Ranked
  <2> QED BY <1>1, <2>2, <2>3, <2>4, StepGoesDown
<1>2. TypeOK /\ Rounds => Ranked
  BY RankByHeight
<1> QED BY <1>1, <1>2, LoopTypeCorrect, RoundsInvariant, PTL DEF Spec, StepsDescend
====================================================================================
