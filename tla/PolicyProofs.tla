------------------------------- MODULE PolicyProofs ------------------------------
(***********************************************************************************)
(* Proofs about Policy, for any number of callers, any classes and thresholds and  *)
(* any bound on the clock.  TypeCorrect comes first; every later proof uses it.    *)
(***********************************************************************************)
EXTENDS Policy, RollingWindowProofs

\* A breaker may count any failure: the buckets stay sequences of instants.
LEMMA NotedType ==
    ASSUME NEW bucket \in Seq(Nat), NEW at \in Nat
    PROVE  Noted(bucket, at) \in Seq(Nat)
<1>1. at - WindowS \in Int
  BY BreakerAssumption
<1>2. Prune(bucket, at) \in Seq(Nat)
  BY <1>1, DropExpiredType DEF Prune
<1> QED BY <1>2, AppendProperties DEF Noted

\* Whatever is recorded, the fields of the breaker keep their types.
LEMMA RecordType ==
    ASSUME BreakerTypeOK, NEW outcome \in Outcomes, Record(outcome, now)
    PROVE  /\ state' \in {"closed", "open", "half_open"}
           /\ openedAt' \in Nat \cup {None}
           /\ generation' \in Nat
           /\ probe' \in Callers \cup {None}
           /\ failures' \in Seq(Nat)
           /\ classFailures' \in [DOMAIN ClassThreshold -> Seq(Nat)]
<1>0. now \in Nat /\ <<>> \in Seq(Nat) /\ generation + 1 \in Nat
      /\ NoClassFailures \in [DOMAIN ClassThreshold -> Seq(Nat)]
  BY BreakerAssumption DEF BreakerTypeOK, NoClassFailures
<1>1. CASE RecordSuccess
  BY <1>0, <1>1 DEF BreakerTypeOK, RecordSuccess, ClearFailures, resolution, tally
<1>2. CASE RecordCancel
  BY <1>0, <1>2 DEF BreakerTypeOK, RecordCancel, tally
<1>3. CASE outcome \in Classes /\ RecordFailure(outcome, now)
  <2>1. CASE Open(now)
    BY <1>0, <2>1 DEF BreakerTypeOK, Open, ClearFailures
  <2>2. CASE NoteFailure(outcome, now)
    <3>1. failures' \in Seq(Nat)
      BY <1>0, <2>2, NotedType DEF BreakerTypeOK, NoteFailure
    <3>2. \A k \in DOMAIN ClassThreshold : Noted(classFailures[k], now) \in Seq(Nat)
      BY <1>0, NotedType DEF BreakerTypeOK
    <3>3. classFailures' \in [DOMAIN ClassThreshold -> Seq(Nat)]
      BY <2>2, <3>2 DEF BreakerTypeOK, NoteFailure
    <3> QED BY <2>2, <3>1, <3>3 DEF BreakerTypeOK, NoteFailure, resolution
  <2>3. CASE UNCHANGED <<resolution, tally>>
    BY <2>3 DEF BreakerTypeOK, resolution, tally
  <2> QED BY <1>3, <2>1, <2>2, <2>3 DEF RecordFailure
<1> QED BY <1>1, <1>2, <1>3 DEF Record

\* A completion keeps the breaker's fields and the admissions well typed.
LEMMA CompleteType ==
    ASSUME BreakerTypeOK, NEW c \in Callers, NEW outcome \in Outcomes, Complete(c, outcome)
    PROVE  BreakerTypeOK'
<1>1. CASE UNCHANGED breakerVars
  BY <1>1 DEF BreakerTypeOK, breakerVars
<1>2. CASE MarkCompleted(c) /\ UNCHANGED now
  <2>1. admission' \in [Callers -> Admission \cup {None}]
    BY <1>2 DEF Complete, BreakerTypeOK, MarkCompleted, Admission
  <2>2. CASE UNCHANGED <<now, resolution, tally>>
    BY <2>1, <2>2 DEF BreakerTypeOK, resolution, tally
  <2>3. CASE Record(outcome, now)
    BY <1>2, <2>1, <2>3, RecordType DEF BreakerTypeOK
  <2> QED BY <1>1, <1>2, <2>2, <2>3 DEF Complete, BreakerTypeOK, breakerVars
<1> QED BY <1>1, <1>2 DEF Complete

\* Every variable keeps its type, whatever the callers do.
THEOREM TypeCorrect == Spec => []PolicyTypeOK
<1>1. Init => PolicyTypeOK
  BY BreakerAssumption
  DEF Init, BreakerInit, PolicyTypeOK, BreakerTypeOK, NoClassFailures, Places
<1>2. PolicyTypeOK /\ [Next]_vars => PolicyTypeOK'
  <2> SUFFICES ASSUME PolicyTypeOK, [Next]_vars PROVE PolicyTypeOK'
    OBVIOUS
  <2> USE DEF PolicyTypeOK
  <2>1. ASSUME NEW c \in Callers, PreflightAbort(c) PROVE PolicyTypeOK'
    BY <2>1 DEF PreflightAbort, Goto, Places, breakerVars, BreakerTypeOK
  <2>2. ASSUME NEW c \in Callers, ReadClock(c) PROVE PolicyTypeOK'
    BY <2>2 DEF ReadClock, Goto, Places, breakerVars, BreakerTypeOK
  <2>3. ASSUME NEW c \in Callers, Granted(c) PROVE PolicyTypeOK'
    <3>1. BreakerTypeOK'
      <4>1. sample[c] \in Nat
        BY BreakerAssumption
      <4>2. admission' \in [Callers -> Admission \cup {None}]
        <5>1. Admit(c)
          BY <2>3 DEF Granted, AdmitRecoveryProbe, AdmitNextProbe, AdmitClosed
        <5>2. [generation |-> generation, completed |-> FALSE] \in Admission
          BY DEF BreakerTypeOK, Admission
        <5> QED BY <5>1, <5>2 DEF Admit, BreakerTypeOK
      <4> QED
        BY <2>3, <4>1, <4>2
        DEF Granted, AdmitRecoveryProbe, AdmitNextProbe, AdmitClosed, OpenSince,
            BreakerTypeOK, resolution, tally
    <3> QED BY <2>3, <3>1, BreakerAssumption DEF Granted, Goto, Places
  <2>4. ASSUME NEW c \in Callers, Refused(c) PROVE PolicyTypeOK'
    <3>1. BreakerTypeOK'
      BY <2>4, BreakerAssumption
      DEF Refused, RejectOpen, RejectBusy, OpenSince, BreakerTypeOK, breakerVars, tally
    <3> QED BY <2>4, <3>1, BreakerAssumption DEF Refused, Goto, Places
  <2>5. ASSUME NEW c \in Callers, Adopt(c) PROVE PolicyTypeOK'
    BY <2>5 DEF Adopt, Goto, Places, breakerVars, BreakerTypeOK
  <2>6. ASSUME NEW c \in Callers, NEW outcome \in Outcomes, EndWith(c, outcome)
        PROVE  PolicyTypeOK'
    BY <2>6 DEF EndWith, Goto, Places, breakerVars, BreakerTypeOK
  <2>7. ASSUME NEW c \in Callers, WorkEscapes(c) PROVE PolicyTypeOK'
    BY <2>7 DEF WorkEscapes, Goto, Places, breakerVars, BreakerTypeOK
  <2>8. ASSUME NEW c \in Callers, Settle(c) PROVE PolicyTypeOK'
    <3>1. BreakerTypeOK'
      BY <2>8, CompleteType DEF Settle
    <3> QED BY <2>8, <3>1 DEF Settle, Goto, Places
  <2>9. ASSUME NEW c \in Callers, Retire(c) PROVE PolicyTypeOK'
    BY <2>9 DEF Retire, Goto, Places, breakerVars, BreakerTypeOK
  <2>10. ASSUME NEW c \in Callers, ReleaseHeld(c) PROVE PolicyTypeOK'
    <3>1. BreakerTypeOK'
      BY <2>10, CompleteType DEF ReleaseHeld, Outcomes
    <3> QED BY <2>10, <3>1 DEF ReleaseHeld
  <2>11. ASSUME NEW c \in Callers, Leave(c) PROVE PolicyTypeOK'
    <3>1. BreakerTypeOK'
      BY <2>11 DEF Leave, BreakerTypeOK, resolution, tally
    <3> QED BY <2>11, <3>1 DEF Leave, Goto, Places
  <2>12. ASSUME NEW c \in Callers, Interrupt(c) PROVE PolicyTypeOK'
    BY <2>12, BreakerAssumption DEF Interrupt, Goto, Places, breakerVars, BreakerTypeOK
  <2>13. CASE Clock
    BY <2>13, BreakerAssumption DEF Clock, Tick, policyVars, BreakerTypeOK
  <2>14. CASE UNCHANGED vars
    BY <2>14 DEF vars, breakerVars, policyVars, BreakerTypeOK
  <2> QED
    BY <2>1, <2>2, <2>3, <2>4, <2>5, <2>6, <2>7, <2>8, <2>9, <2>10, <2>11, <2>12, <2>13, <2>14
    DEF Next, Step, WorkReturns, WorkAborts, WorkFails, Outcomes
<1> QED BY <1>1, <1>2, PTL DEF Spec

-----------------------------------------------------------------------------------
(* What the critical sections do to the fields that decide who is listened to.     *)

\* Completing an admission changes that admission only, and only its flag.
LEMMA MarkCompletedEffect ==
    ASSUME PolicyTypeOK, NEW c \in Callers, admission[c] # None, MarkCompleted(c)
    PROVE  /\ admission'[c] # None
           /\ admission'[c].completed
           /\ admission'[c].generation = admission[c].generation
           /\ \A d \in Callers \ {c} : admission'[d] = admission[d]
<1>1. admission \in [Callers -> Admission \cup {None}] /\ admission[c] \in Admission
  BY DEF PolicyTypeOK, BreakerTypeOK
<1>2. admission'[c] = [admission[c] EXCEPT !.completed = TRUE]
      /\ \A d \in Callers \ {c} : admission'[d] = admission[d]
  BY <1>1 DEF MarkCompleted
<1>3. admission'[c] = [generation |-> admission[c].generation, completed |-> TRUE]
  BY <1>1, <1>2 DEF Admission
<1>4. admission'[c] \in Admission
  BY <1>1, <1>3 DEF Admission
<1> QED BY <1>2, <1>3, <1>4, BreakerAssumption

\* Recording an outcome starts a new generation without a probe, or empties the slot
\* of a half-open breaker, or leaves a breaker that is not half-open as it is.
LEMMA RecordEffect ==
    ASSUME PolicyTypeOK, NEW outcome \in Outcomes, Record(outcome, now)
    PROVE  \/ /\ generation' = generation + 1 /\ probe' = None
              /\ \/ state = "half_open" /\ state' = "closed"
                 \/ state # "open" /\ state' = "open" /\ openedAt' = now
           \/ /\ state = "half_open" /\ probe' = None
              /\ UNCHANGED <<state, generation, openedAt, tally>>
           \/ state # "half_open" /\ UNCHANGED resolution
<1>1. CASE RecordSuccess
  BY <1>1 DEF RecordSuccess, resolution
<1>2. CASE RecordCancel
  BY <1>2 DEF RecordCancel, resolution
<1>3. CASE RecordFailure(outcome, now)
  BY <1>3 DEF RecordFailure, Open, NoteFailure, resolution
<1> QED BY <1>1, <1>2, <1>3 DEF Record

\* A completion leaves the fences standing.
LEMMA CompleteFences ==
    ASSUME PolicyTypeOK, Fences, NEW c \in Callers, NEW outcome \in Outcomes,
           Complete(c, outcome)
    PROVE  Fences'
<1>0. /\ admission[c] # None
      /\ generation \in Nat
      /\ \A d \in Callers : admission[d] # None => admission[d].generation \in Nat
  BY DEF Complete, PolicyTypeOK, BreakerTypeOK, Admission
<1>1. CASE UNCHANGED breakerVars
  BY <1>1 DEF Fences, breakerVars
<1>2. CASE ~admission[c].completed /\ Superseded(c) /\ MarkCompleted(c)
           /\ UNCHANGED <<now, resolution, tally>>
  BY <1>0, <1>2, MarkCompletedEffect DEF Fences, Superseded, resolution
<1>3. CASE ~admission[c].completed /\ ~Superseded(c) /\ MarkCompleted(c)
           /\ Record(outcome, now)
  <2>1. CASE generation' = generation + 1 /\ probe' = None
    <3>1. \A d \in Callers : admission'[d] # None => admission'[d].generation < generation'
      BY <1>0, <1>3, <2>1, MarkCompletedEffect DEF Fences
    <3> QED BY <1>0, <2>1, <3>1, BreakerAssumption, MarkCompletedEffect, <1>3 DEF Fences
  <2>2. CASE /\ state = "half_open" /\ probe' = None
             /\ UNCHANGED <<state, generation, openedAt, tally>>
    BY <1>0, <1>3, <2>2, MarkCompletedEffect, BreakerAssumption DEF Fences, Superseded
  <2>3. CASE state # "half_open" /\ UNCHANGED resolution
    BY <1>0, <1>3, <2>3, MarkCompletedEffect DEF Fences, resolution
  <2> QED BY <1>3, <2>1, <2>2, <2>3, RecordEffect
<1> QED BY <1>1, <1>2, <1>3 DEF Complete

\* A grant is a fresh admission of the current generation for one caller.
LEMMA GrantedKeeps ==
    ASSUME PolicyTypeOK, NEW c \in Callers, Granted(c)
    PROVE  /\ admission'[c] = [generation |-> generation, completed |-> FALSE]
           /\ admission'[c] # None
           /\ \A d \in Callers \ {c} : admission'[d] = admission[d]
<1>0. generation \in Nat
  BY DEF PolicyTypeOK, BreakerTypeOK
<1>1. /\ admission'[c] = [generation |-> generation, completed |-> FALSE]
      /\ \A d \in Callers \ {c} : admission'[d] = admission[d]
  BY DEF Granted, AdmitRecoveryProbe, AdmitNextProbe, AdmitClosed, Admit,
         PolicyTypeOK, BreakerTypeOK
<1>2. admission'[c] # None
  <2>1. [generation |-> generation, completed |-> FALSE] \in Admission
    BY <1>0 DEF Admission
  <2> QED BY <1>1, <2>1, BreakerAssumption
<1> QED BY <1>1, <1>2

\* A new admission leaves the fences standing.
LEMMA GrantedFences ==
    ASSUME PolicyTypeOK, Fences, NEW c \in Callers, Granted(c)
    PROVE  Fences'
<1>0. generation \in Nat
  BY DEF PolicyTypeOK, BreakerTypeOK
<1>1. /\ admission'[c] = [generation |-> generation, completed |-> FALSE]
      /\ admission'[c] # None
      /\ \A d \in Callers \ {c} : admission'[d] = admission[d]
  BY GrantedKeeps
<1>3. CASE AdmitRecoveryProbe(c, sample[c])
  BY <1>0, <1>1, <1>3 DEF AdmitRecoveryProbe, Fences
<1>4. CASE AdmitNextProbe(c)
  BY <1>0, <1>1, <1>4, BreakerAssumption DEF AdmitNextProbe, Fences
<1>5. CASE AdmitClosed(c)
  BY <1>0, <1>1, <1>5 DEF AdmitClosed, Fences, resolution
<1> QED BY <1>3, <1>4, <1>5 DEF Granted

\* Leaving a call forgets an admission the breaker does not wait for.
LEMMA LeaveEffect ==
    ASSUME PolicyTypeOK, NEW c \in Callers, Leave(c)
    PROVE  /\ UNCHANGED <<state, generation, probe, failures, classFailures>>
           /\ admission'[c] = IF probe = c THEN admission[c] ELSE None
           /\ \A d \in Callers \ {c} : admission'[d] = admission[d]
BY DEF Leave, PolicyTypeOK, BreakerTypeOK, resolution, tally

\* The steps that do not enter a critical section of the breaker.
Private(c) ==
    \/ PreflightAbort(c) \/ ReadClock(c) \/ Refused(c) \/ Adopt(c)
    \/ \E outcome \in Outcomes : EndWith(c, outcome)
    \/ WorkEscapes(c) \/ Retire(c) \/ Interrupt(c)

LEMMA PrivateEffect ==
    ASSUME PolicyTypeOK, NEW c \in Callers, Private(c)
    PROVE  UNCHANGED <<state, generation, probe, failures, classFailures, admission>>
BY DEF Private, PreflightAbort, ReadClock, Refused, RejectOpen, RejectBusy, Adopt, EndWith,
       WorkEscapes, Retire, Interrupt, breakerVars, tally

LEMMA NextCases ==
    ASSUME [Next]_vars
    PROVE  \/ \E c \in Callers : Private(c) \/ Granted(c) \/ Settle(c) \/ ReleaseHeld(c) \/ Leave(c)
           \/ Clock \/ UNCHANGED vars
BY DEF Next, Step, WorkReturns, WorkAborts, WorkFails, Private, Outcomes

\* The generations fence admissions whatever the callers do and wherever they are
\* interrupted.
THEOREM FencesHold == Spec => []Fences
<1>1. Init => Fences
  BY BreakerAssumption DEF Init, BreakerInit, Fences
<1>2. PolicyTypeOK /\ Fences /\ [Next]_vars => Fences'
  <2> SUFFICES ASSUME PolicyTypeOK, Fences, [Next]_vars PROVE Fences'
    OBVIOUS
  <2>1. ASSUME NEW c \in Callers, Private(c) PROVE Fences'
    BY <2>1, PrivateEffect DEF Fences
  <2>2. ASSUME NEW c \in Callers, Granted(c) PROVE Fences'
    BY <2>2, GrantedFences
  <2>3. ASSUME NEW c \in Callers, Settle(c) PROVE Fences'
    BY <2>3, CompleteFences DEF Settle, PolicyTypeOK
  <2>4. ASSUME NEW c \in Callers, ReleaseHeld(c) PROVE Fences'
    BY <2>4, CompleteFences DEF ReleaseHeld, Outcomes
  <2>5. ASSUME NEW c \in Callers, Leave(c) PROVE Fences'
    BY <2>5, LeaveEffect DEF Fences
  <2>6. CASE Clock \/ UNCHANGED vars
    BY <2>6 DEF Fences, Clock, Tick, vars, breakerVars
  <2> QED BY <2>1, <2>2, <2>3, <2>4, <2>5, <2>6, NextCases
<1> QED BY <1>1, <1>2, TypeCorrect, PTL DEF Spec

\* While the breaker is half-open no execution but the probe has a say.
THEOREM HalfOpenAdmitsOneHolds == Spec => []HalfOpenAdmitsOne
<1>1. Fences => HalfOpenAdmitsOne
  BY DEF Fences, HalfOpenAdmitsOne
<1> QED BY <1>1, FencesHold, PTL

-----------------------------------------------------------------------------------
(* Where a decision is while its call is under way.                                *)

\* A completion leaves every execution its admission.
LEMMA CompleteKeeps ==
    ASSUME PolicyTypeOK, NEW c \in Callers, NEW outcome \in Outcomes, Complete(c, outcome)
    PROVE  /\ admission'[c] # None /\ admission'[c].completed
           /\ \A d \in Callers \ {c} : admission'[d] = admission[d]
<1>1. CASE admission[c].completed /\ UNCHANGED breakerVars
  BY <1>1 DEF Complete, breakerVars
<1>2. CASE MarkCompleted(c)
  BY <1>2, MarkCompletedEffect DEF Complete
<1> QED BY <1>1, <1>2 DEF Complete

\* A decision in ctx is an admission of a call under way, and a call that is under
\* way holds its decision unless an interrupt can separate the two.
THEOREM CustodyHolds == Spec => []Custody
<1>1. Init => Custody
  BY DEF Init, Custody
<1>2. PolicyTypeOK /\ Custody /\ [Next]_vars => Custody'
  <2> SUFFICES ASSUME PolicyTypeOK, Custody, [Next]_vars PROVE Custody'
    OBVIOUS
  <2> USE DEF PolicyTypeOK
  <2>1. ASSUME NEW c \in Callers, Private(c) PROVE Custody'
    <3>1. UNCHANGED admission
      BY <2>1, PrivateEffect
    <3>2. \A d \in Callers \ {c} : pc'[d] = pc[d] /\ held'[d] = held[d]
      BY <2>1 DEF Private, PreflightAbort, ReadClock, Refused, Adopt, EndWith, WorkEscapes,
                  Retire, Interrupt, Goto
    <3>3. \/ pc'[c] \in {"idle", "asking", "exiting"} /\ held'[c] = held[c] /\ held[c] = FALSE
          \/ pc'[c] = "exiting" /\ pc[c] # "granted" /\ (held'[c] => held[c])
          \/ pc[c] = "granted" /\ pc'[c] = "running" /\ held'[c]
          \/ pc[c] = "granted" /\ pc'[c] = "exiting"
          \/ pc[c] = "running" /\ pc'[c] = "settling" /\ held'[c] = held[c]
      <4>1. ASSUME PreflightAbort(c) \/ ReadClock(c) \/ Refused(c)
            PROVE  pc'[c] \in {"idle", "asking", "exiting"} /\ held'[c] = held[c]
                   /\ held[c] = FALSE
        BY <4>1 DEF PreflightAbort, ReadClock, Refused, Goto, Custody
      <4>2. ASSUME Adopt(c) \/ WorkEscapes(c) \/ Retire(c) \/ Interrupt(c)
            PROVE  \/ pc'[c] = "exiting" /\ pc[c] # "granted" /\ (held'[c] => held[c])
                   \/ pc[c] = "granted" /\ pc'[c] = "running" /\ held'[c]
                   \/ pc[c] = "granted" /\ pc'[c] = "exiting"
        <5>1. CASE Adopt(c)
          BY <5>1 DEF Adopt, Goto
        <5>2. CASE WorkEscapes(c) \/ Retire(c)
          BY <5>2 DEF WorkEscapes, Retire, Goto
        <5>3. CASE Interrupt(c)
          <6>1. pc'[c] = "exiting"
            BY <5>3 DEF Interrupt, Goto
          <6>2. held'[c] => held[c]
            BY <5>3 DEF Interrupt
          <6> QED BY <6>1, <6>2
        <5> QED BY <4>2, <5>1, <5>2, <5>3
      <4>3. ASSUME \E outcome \in Outcomes : EndWith(c, outcome)
            PROVE  pc[c] = "running" /\ pc'[c] = "settling" /\ held'[c] = held[c]
        BY <4>3 DEF EndWith, Goto
      <4> QED BY <2>1, <4>1, <4>2, <4>3 DEF Private
    <3> QED BY <3>1, <3>2, <3>3 DEF Custody
  <2>2. ASSUME NEW c \in Callers, Granted(c) PROVE Custody'
    <3>1. admission'[c] # None /\ \A d \in Callers \ {c} : admission'[d] = admission[d]
      BY <2>2, GrantedKeeps
    <3> QED BY <2>2, <3>1 DEF Granted, Goto, Custody
  <2>3. ASSUME NEW c \in Callers, Settle(c) PROVE Custody'
    <3>1. admission'[c] # None /\ \A d \in Callers \ {c} : admission'[d] = admission[d]
      BY <2>3, CompleteKeeps DEF Settle
    <3> QED BY <2>3, <3>1 DEF Settle, Goto, Custody
  <2>4. ASSUME NEW c \in Callers, ReleaseHeld(c) PROVE Custody'
    <3>1. admission'[c] # None /\ \A d \in Callers \ {c} : admission'[d] = admission[d]
      BY <2>4, CompleteKeeps DEF ReleaseHeld, Outcomes
    <3> QED BY <2>4, <3>1 DEF ReleaseHeld, Custody
  <2>5. ASSUME NEW c \in Callers, Leave(c) PROVE Custody'
    BY <2>5, LeaveEffect DEF Leave, Goto, Custody
  <2>6. CASE Clock \/ UNCHANGED vars
    BY <2>6 DEF Custody, Clock, Tick, vars, breakerVars, policyVars
  <2> QED BY <2>1, <2>2, <2>3, <2>4, <2>5, <2>6, NextCases
<1> QED BY <1>1, <1>2, TypeCorrect, PTL DEF Spec

-----------------------------------------------------------------------------------
(* The half-open probe.                                                            *)

\* A completion keeps the probe or empties the slot; and an execution that is not the
\* probe cannot empty it.
LEMMA CompleteProbe ==
    ASSUME PolicyTypeOK, NEW c \in Callers, NEW outcome \in Outcomes, Complete(c, outcome)
    PROVE  /\ probe' \in {probe, None}
           /\ state = "half_open" /\ probe # c => probe' = probe
<1>1. CASE UNCHANGED probe
  BY <1>1
<1>2. CASE ~Superseded(c) /\ Record(outcome, now)
  BY <1>2, RecordEffect DEF Superseded, resolution
<1> QED BY <1>1, <1>2 DEF Complete, breakerVars, resolution

\* If nothing interrupts the bookkeeping itself, the admission a half-open breaker
\* waits for belongs to an execution that will settle or release it.
THEOREM NoStrandedProbeHolds ==
    ASSUME ~AsyncInterrupts
    PROVE  Spec => []NoStrandedProbe
<1>1. Init => NoStrandedProbe
  BY DEF Init, BreakerInit, NoStrandedProbe
<1>2. PolicyTypeOK /\ Fences /\ Fences' /\ Custody /\ NoStrandedProbe /\ [Next]_vars
        => NoStrandedProbe'
  <2> SUFFICES ASSUME PolicyTypeOK, Fences, Fences', Custody, NoStrandedProbe, [Next]_vars,
                      NEW c \in Callers, probe' = c
               PROVE  /\ Votes(c)'
                      /\ pc'[c] \in {"granted", "running", "settling", "exiting"}
                      /\ pc'[c] # "granted" => held'[c]
    BY DEF NoStrandedProbe
  <2> DEFINE Tended == /\ pc[c] \in {"granted", "running", "settling", "exiting"}
                       /\ pc[c] # "granted" => held[c]
  <2>0. Votes(c)'
    BY DEF Fences, Votes, Superseded
  <2>1. probe = c => Tended
    BY DEF NoStrandedProbe, Fences
  <2> SUFFICES Tended'
    BY <2>0
  <2> USE DEF PolicyTypeOK
  <2>2. ASSUME NEW d \in Callers, Private(d) PROVE Tended'
    <3>1. Tended
      BY <2>1, <2>2, PrivateEffect
    <3>2. CASE PreflightAbort(d) \/ ReadClock(d) \/ Refused(d) \/ Retire(d)
      BY <3>1, <3>2 DEF PreflightAbort, ReadClock, Refused, Retire, Goto
    <3>3. CASE Adopt(d) \/ WorkEscapes(d)
      BY <3>1, <3>3 DEF Adopt, WorkEscapes, Goto
    <3>4. CASE \E outcome \in Outcomes : EndWith(d, outcome)
      BY <3>1, <3>4 DEF EndWith, Goto
    <3> QED BY <2>2, <3>2, <3>3, <3>4 DEF Private, Interrupt
  <2>3. ASSUME NEW d \in Callers, Granted(d) PROVE Tended'
    <3>1. probe = c \/ d = c
      BY <2>3 DEF Granted, AdmitRecoveryProbe, AdmitNextProbe, AdmitClosed, resolution
    <3> QED BY <2>1, <2>3, <3>1 DEF Granted, Goto
  <2>4. ASSUME NEW d \in Callers, Settle(d) PROVE Tended'
    <3>1. admission'[d].completed /\ probe' \in {probe, None}
      BY <2>4, CompleteKeeps, CompleteProbe DEF Settle
    <3>2. d # c /\ probe = c
      BY <3>1, BreakerAssumption DEF Fences
    <3> QED BY <2>1, <2>4, <3>2 DEF Settle, Goto
  <2>5. ASSUME NEW d \in Callers, ReleaseHeld(d) PROVE Tended'
    <3>1. admission'[d].completed /\ probe' \in {probe, None}
      BY <2>5, CompleteKeeps, CompleteProbe DEF ReleaseHeld, Outcomes
    <3>2. d # c /\ probe = c
      BY <3>1, BreakerAssumption DEF Fences
    <3> QED BY <2>1, <2>5, <3>2 DEF ReleaseHeld
  <2>6. ASSUME NEW d \in Callers, Leave(d) PROVE Tended'
    <3>1. Tended
      BY <2>1, <2>6, LeaveEffect
    <3> QED BY <2>6, <3>1 DEF Leave, Goto
  <2>7. CASE Clock \/ UNCHANGED vars
    BY <2>1, <2>7 DEF Clock, Tick, vars, breakerVars, policyVars
  <2> QED BY <2>2, <2>3, <2>4, <2>5, <2>6, <2>7, NextCases
<1> QED BY <1>1, <1>2, TypeCorrect, FencesHold, CustodyHolds, PTL DEF Spec

\* The probe slot is freed only in the step that completes the probe's own admission,
\* wherever executions are interrupted.
THEOREM ProbeReleasedByOwnerHolds == Spec => ProbeReleasedByOwner
<1> DEFINE Released == \A c \in Callers : probe = c /\ probe' # c => Completes(c)
<1>1. PolicyTypeOK /\ Fences /\ [Next]_vars => [Released]_vars
  <2> SUFFICES ASSUME PolicyTypeOK, Fences, [Next]_vars,
                      NEW c \in Callers, probe = c, probe' # c
               PROVE  Completes(c)
    OBVIOUS
  <2>0. state = "half_open" /\ admission[c] # None /\ ~admission[c].completed
    BY DEF Fences
  <2>1. ASSUME NEW d \in Callers, NEW outcome \in Outcomes, Complete(d, outcome)
        PROVE  Completes(c)
    <3>1. d = c
      BY <2>0, <2>1, CompleteProbe
    <3> QED BY <2>0, <2>1, <3>1, CompleteKeeps DEF Completes
  <2>2. ASSUME NEW d \in Callers, Settle(d) PROVE Completes(c)
    BY <2>1, <2>2 DEF Settle, PolicyTypeOK
  <2>3. ASSUME NEW d \in Callers, ReleaseHeld(d) PROVE Completes(c)
    BY <2>1, <2>3 DEF ReleaseHeld, Outcomes
  <2>4. ASSUME NEW d \in Callers, Private(d) \/ Granted(d) \/ Leave(d) PROVE FALSE
    BY <2>0, <2>4, PrivateEffect, LeaveEffect, BreakerAssumption
    DEF Granted, AdmitRecoveryProbe, AdmitNextProbe, AdmitClosed, resolution
  <2>5. CASE Clock \/ UNCHANGED vars
    BY <2>5 DEF Clock, Tick, vars, breakerVars
  <2> QED BY <2>2, <2>3, <2>4, <2>5, NextCases
<1> QED BY <1>1, TypeCorrect, FencesHold, PTL DEF Spec, ProbeReleasedByOwner

\* The generation and the failures counted move only when an execution with a vote
\* settles, and its admission can settle no second time.
THEOREM OnlyVotersCountHolds == Spec => OnlyVotersCount
<1> DEFINE counted == <<generation, failures, classFailures>>
           Counted == counted' # counted => \E c \in Callers : Votes(c) /\ Completes(c)
<1>1. PolicyTypeOK /\ [Next]_vars => [Counted]_vars
  <2> SUFFICES ASSUME PolicyTypeOK, [Next]_vars, counted' # counted
               PROVE  \E c \in Callers : Votes(c) /\ Completes(c)
    OBVIOUS
  <2>1. ASSUME NEW d \in Callers, NEW outcome \in Outcomes, Complete(d, outcome)
        PROVE  Votes(d) /\ Completes(d)
    <3>1. ~ UNCHANGED <<resolution, tally>> /\ ~ UNCHANGED breakerVars
      BY DEF resolution, tally, breakerVars
    <3>2. Votes(d)
      BY <2>1, <3>1 DEF Complete, Votes
    <3> QED BY <2>1, <3>2, CompleteKeeps DEF Completes, Votes
  <2>2. ASSUME NEW d \in Callers, Settle(d) PROVE Votes(d) /\ Completes(d)
    BY <2>1, <2>2 DEF Settle, PolicyTypeOK
  <2>3. ASSUME NEW d \in Callers, ReleaseHeld(d) PROVE Votes(d) /\ Completes(d)
    BY <2>1, <2>3 DEF ReleaseHeld, Outcomes
  <2>4. ASSUME NEW d \in Callers, Private(d) \/ Granted(d) \/ Leave(d) PROVE FALSE
    BY <2>4, PrivateEffect, LeaveEffect
    DEF Granted, AdmitRecoveryProbe, AdmitNextProbe, AdmitClosed, resolution, tally
  <2>5. ~(Clock \/ UNCHANGED vars)
    BY DEF Clock, Tick, vars, breakerVars
  <2> QED BY <2>2, <2>3, <2>4, <2>5, NextCases
<1> QED BY <1>1, TypeCorrect, PTL DEF Spec, OnlyVotersCount

-----------------------------------------------------------------------------------
(* The recovery timeout.                                                           *)

\* What a completion does to the date of the opening.
LEMMA CompleteDates ==
    ASSUME PolicyTypeOK, NEW c \in Callers, NEW outcome \in Outcomes, Complete(c, outcome)
    PROVE  /\ state = "open" => state' = "open" /\ openedAt' = openedAt
           /\ state # "open" /\ state' = "open" => openedAt' = now
           /\ now' = now
<1>1. CASE UNCHANGED <<now, state, openedAt>>
  BY <1>1
<1>2. CASE Record(outcome, now) /\ UNCHANGED now
  BY <1>2, RecordEffect DEF resolution
<1> QED BY <1>1, <1>2 DEF Complete, breakerVars, resolution

\* An open breaker knows since when, and a reading of the clock is never ahead of it:
\* the branch of allow() that supplies a missing date is dead.
THEOREM ClocksHold == Spec => []Clocks
<1>1. Init => Clocks
  BY DEF Init, BreakerInit, Clocks
<1>2. PolicyTypeOK /\ Clocks /\ [Next]_vars => Clocks'
  <2> SUFFICES ASSUME PolicyTypeOK, Clocks, [Next]_vars PROVE Clocks'
    OBVIOUS
  <2> USE DEF PolicyTypeOK
  <2>0. now \in Nat /\ \A c \in Callers : sample[c] \in Nat
    BY BreakerAssumption DEF BreakerTypeOK
  <2>1. ASSUME NEW c \in Callers, NEW outcome \in Outcomes, Complete(c, outcome), UNCHANGED sample
        PROVE  Clocks'
    BY <2>0, <2>1, CompleteDates DEF Clocks
  <2>2. ASSUME NEW c \in Callers, Settle(c) PROVE Clocks'
    BY <2>1, <2>2 DEF Settle
  <2>3. ASSUME NEW c \in Callers, ReleaseHeld(c) PROVE Clocks'
    BY <2>1, <2>3 DEF ReleaseHeld, Outcomes
  <2>4. ASSUME NEW c \in Callers, Granted(c) PROVE Clocks'
    <3>1. now' = now /\ (state' = "open" => state = "open" /\ openedAt' = openedAt)
      BY <2>4 DEF Granted, AdmitRecoveryProbe, AdmitNextProbe, AdmitClosed, resolution
    <3> QED BY <2>0, <2>4, <3>1 DEF Clocks, Granted
  <2>5. ASSUME NEW c \in Callers, Refused(c) PROVE Clocks'
    <3>1. now' = now /\ (state' = "open" => state = "open" /\ openedAt' \in Nat)
      BY <2>0, <2>5, BreakerAssumption
      DEF Refused, RejectOpen, RejectBusy, OpenSince, Clocks, breakerVars
    <3> QED BY <2>0, <2>5, <3>1 DEF Clocks, Refused
  <2>6. ASSUME NEW c \in Callers, Private(c), ~Refused(c) PROVE Clocks'
    <3>1. UNCHANGED <<now, state, openedAt>>
      BY <2>6 DEF Private, PreflightAbort, ReadClock, Adopt, EndWith, WorkEscapes, Retire,
                  Interrupt, breakerVars
    <3>2. \A d \in Callers : sample'[d] \in {sample[d], now, 0}
      BY <2>6 DEF Private, PreflightAbort, ReadClock, Adopt, EndWith, WorkEscapes, Retire,
                  Interrupt
    <3> QED BY <2>0, <3>1, <3>2 DEF Clocks
  <2>7. ASSUME NEW c \in Callers, Leave(c) PROVE Clocks'
    BY <2>7 DEF Leave, Clocks, resolution
  <2>8. CASE Clock \/ UNCHANGED vars
    BY <2>0, <2>8 DEF Clock, Tick, vars, breakerVars, policyVars, Clocks
  <2> QED BY <2>2, <2>3, <2>4, <2>5, <2>6, <2>7, <2>8, NextCases DEF Private
<1> QED BY <1>1, <1>2, TypeCorrect, PTL DEF Spec

\* A breaker that trips admits nobody for recovery_timeout_s of real time, however
\* long allow() waited between reading the clock and taking the lock.
THEOREM RecoveryTimeoutRespectedHolds == Spec => RecoveryTimeoutRespected
<1> DEFINE Respected ==
      /\ state # "open" /\ state' = "open" => openedAt' = now
      /\ state = "open" => openedAt' = openedAt
      /\ state = "open" /\ state' # "open" =>
            state' = "half_open" /\ now - openedAt >= RecoveryTimeoutS
<1>1. PolicyTypeOK /\ Clocks /\ [Next]_vars => [Respected]_vars
  <2> SUFFICES ASSUME PolicyTypeOK, Clocks, [Next]_vars PROVE Respected
    OBVIOUS
  <2>0. /\ now \in Nat /\ RecoveryTimeoutS \in Nat
        /\ \A c \in Callers : sample[c] \in Nat /\ sample[c] <= now
        /\ state = "open" => openedAt # None /\ openedAt \in Nat
    BY BreakerAssumption DEF Clocks, PolicyTypeOK, BreakerTypeOK
  <2>1. ASSUME NEW c \in Callers, NEW outcome \in Outcomes, Complete(c, outcome)
        PROVE  Respected
    BY <2>1, CompleteDates
  <2>2. ASSUME NEW c \in Callers, Settle(c) PROVE Respected
    BY <2>1, <2>2 DEF Settle, PolicyTypeOK
  <2>3. ASSUME NEW c \in Callers, ReleaseHeld(c) PROVE Respected
    BY <2>1, <2>3 DEF ReleaseHeld, Outcomes
  <2>4. ASSUME NEW c \in Callers, Granted(c) PROVE Respected
    <3>1. CASE AdmitRecoveryProbe(c, sample[c])
      BY <2>0, <3>1 DEF AdmitRecoveryProbe, OpenSince
    <3>2. CASE AdmitNextProbe(c) \/ AdmitClosed(c)
      BY <3>2 DEF AdmitNextProbe, AdmitClosed, resolution
    <3> QED BY <2>4, <3>1, <3>2 DEF Granted
  <2>5. ASSUME NEW c \in Callers, Private(c) \/ Leave(c) PROVE Respected
    BY <2>0, <2>5
    DEF Private, PreflightAbort, ReadClock, Refused, RejectOpen, RejectBusy, OpenSince, Adopt,
        EndWith, WorkEscapes, Retire, Interrupt, Leave, breakerVars, resolution
  <2>6. CASE Clock \/ UNCHANGED vars
    BY <2>6 DEF Clock, Tick, vars, breakerVars
  <2> QED BY <2>2, <2>3, <2>4, <2>5, <2>6, NextCases
<1> QED BY <1>1, TypeCorrect, ClocksHold, PTL DEF Spec, RecoveryTimeoutRespected

-----------------------------------------------------------------------------------
(* The policies implement the ownership contract.                                  *)

Voters == {c \in Callers : Votes(c)}

\* Whoever is not named keeps its vote, if its admission, the state, the generation
\* and the probe are as before.
LEMMA VotesKept ==
    ASSUME NEW d \in Callers, admission'[d] = admission[d],
           UNCHANGED <<state, generation, probe>>
    PROVE  Votes(d)' <=> Votes(d)
BY DEF Votes, Superseded

\* A completion is a trip, a recovery or a departure of a voter, or goes unnoticed.
LEMMA CompleteImplements ==
    ASSUME PolicyTypeOK, Fences, NEW c \in Callers, NEW outcome \in Outcomes,
           Complete(c, outcome)
    PROVE  [Contract!Next]_(Contract!contractVars)
<1>0. /\ admission[c] # None
      /\ admission'[c].completed
      /\ \A d \in Callers \ {c} : admission'[d] = admission[d]
      /\ ~Votes(c)'
      /\ generation \in Nat
      /\ \A d \in Callers : admission[d] # None =>
            admission[d].generation \in Nat /\ admission[d].generation <= generation
  BY CompleteKeeps DEF Complete, Votes, Fences, PolicyTypeOK, BreakerTypeOK, Admission
<1>1. CASE ~Votes(c) /\ UNCHANGED <<state, generation, probe>>
  <2>1. Voters' = Voters
    BY <1>0, <1>1, VotesKept DEF Voters
  <2> QED BY <1>1, <2>1 DEF Contract!contractVars, Voters
<1>2. CASE Votes(c) /\ Record(outcome, now) /\ MarkCompleted(c)
  <2>1. CASE generation' = generation + 1 /\ state' \in {"open", "closed"}
    <3>1. \A d \in Callers : admission'[d] # None => admission'[d].generation # generation'
      BY <1>0, <1>2, <2>1, MarkCompletedEffect
    <3>2. Voters' = {}
      BY <3>1 DEF Voters, Votes, Superseded
    <3>3. CASE state' = "open"
      BY <1>2, <3>2, <3>3 DEF Contract!Next, Contract!Trip, Voters
    <3>4. CASE state' = "closed" /\ state = "half_open"
      BY <1>2, <3>2, <3>4 DEF Contract!Next, Contract!Recover, Voters
    <3> QED BY <1>2, <2>1, <3>3, <3>4, RecordEffect DEF resolution
  <2>2. CASE /\ state = "half_open" /\ probe' = None
             /\ UNCHANGED <<state, generation, openedAt, tally>>
    <3>1. Voters = {c} /\ Voters' = {}
      BY <1>0, <1>2, <2>2, BreakerAssumption DEF Voters, Votes, Superseded
    <3> QED BY <1>2, <2>2, <3>1 DEF Contract!Next, Contract!Leave, Voters
  <2>3. CASE UNCHANGED resolution
    <3>1. Voters' = Voters \ {c}
      BY <1>0, <2>3, VotesKept DEF Voters, resolution
    <3> QED BY <1>2, <2>3, <3>1 DEF Contract!Next, Contract!Leave, Voters, resolution
  <2> QED BY <1>2, <2>1, <2>2, <2>3, RecordEffect
<1> QED BY <1>1, <1>2 DEF Complete, Votes, breakerVars, resolution

\* A grant is a new voter: one among many in a closed breaker, the only one otherwise.
LEMMA GrantedImplements ==
    ASSUME PolicyTypeOK, Fences, NEW c \in Callers, Granted(c)
    PROVE  [Contract!Next]_(Contract!contractVars)
<1>0. /\ admission'[c] = [generation |-> generation, completed |-> FALSE]
      /\ admission'[c] # None
      /\ \A d \in Callers \ {c} : admission'[d] = admission[d]
      /\ generation' = generation
      /\ generation \in Nat
      /\ \A d \in Callers : admission[d] # None => admission[d].generation \in Nat
  BY GrantedKeeps
  DEF Granted, AdmitRecoveryProbe, AdmitNextProbe, AdmitClosed, resolution, PolicyTypeOK,
      BreakerTypeOK, Admission
<1>1. CASE AdmitRecoveryProbe(c, sample[c]) \/ AdmitNextProbe(c)
  <2>1. /\ state \in {"open", "half_open"} /\ state' = "half_open" /\ probe' = c
        /\ state = "half_open" => probe = None
    BY <1>1 DEF AdmitRecoveryProbe, AdmitNextProbe
  <2>2. Voters = {}
    BY <1>0, <2>1, BreakerAssumption DEF Voters, Votes, Superseded, Fences
  <2>3. Voters' = {c}
    BY <1>0, <2>1 DEF Voters, Votes, Superseded
  <2> QED BY <2>1, <2>2, <2>3 DEF Contract!Next, Contract!Probe, Voters
<1>2. CASE AdmitClosed(c)
  <2>1. state = "closed" /\ UNCHANGED <<state, generation, probe>>
    BY <1>2 DEF AdmitClosed, resolution
  <2>2. Votes(c)'
    BY <1>0, <2>1 DEF Votes, Superseded
  <2>3. Voters' = Voters \cup {c}
    BY <1>0, <2>1, <2>2, VotesKept DEF Voters
  <2> QED BY <2>1, <2>3 DEF Contract!Next, Contract!Join, Voters
<1> QED BY <1>1, <1>2 DEF Granted

\* Every behaviour of the policies, interrupts included, is one of the contract: only
\* a voter moves the breaker, once, and a half-open breaker has one voter at most.
THEOREM ContractHolds == Spec => ContractSpec
<1>1. Init => Contract!Init
  BY DEF Init, BreakerInit, Contract!Init, Votes
<1>2. PolicyTypeOK /\ Fences /\ [Next]_vars => [Contract!Next]_(Contract!contractVars)
  <2> SUFFICES ASSUME PolicyTypeOK, Fences, [Next]_vars
               PROVE  [Contract!Next]_(Contract!contractVars)
    OBVIOUS
  <2>1. ASSUME NEW c \in Callers, Private(c) PROVE UNCHANGED Contract!contractVars
    BY <2>1, PrivateEffect DEF Contract!contractVars, Votes, Superseded
  <2>2. ASSUME NEW c \in Callers, Granted(c)
        PROVE  [Contract!Next]_(Contract!contractVars)
    BY <2>2, GrantedImplements
  <2>3. ASSUME NEW c \in Callers, Settle(c)
        PROVE  [Contract!Next]_(Contract!contractVars)
    BY <2>3, CompleteImplements DEF Settle, PolicyTypeOK
  <2>4. ASSUME NEW c \in Callers, ReleaseHeld(c)
        PROVE  [Contract!Next]_(Contract!contractVars)
    BY <2>4, CompleteImplements DEF ReleaseHeld, Outcomes
  <2>5. ASSUME NEW c \in Callers, Leave(c)
        PROVE  [Contract!Next]_(Contract!contractVars)
    <3>1. \A d \in Callers \ {c} : Votes(d)' <=> Votes(d)
      BY <2>5, LeaveEffect, VotesKept
    <3>2. CASE Votes(c)' <=> Votes(c)
      BY <2>5, <3>1, <3>2, LeaveEffect DEF Contract!contractVars
    <3>3. CASE Votes(c) /\ ~Votes(c)'
      <4>1. Voters' = Voters \ {c}
        BY <3>1, <3>3 DEF Voters
      <4> QED BY <2>5, <3>3, <4>1, LeaveEffect DEF Contract!Next, Contract!Leave, Voters
    <3>4. ~(~Votes(c) /\ Votes(c)')
      BY <2>5, LeaveEffect DEF Votes, Superseded
    <3> QED BY <3>2, <3>3, <3>4
  <2>6. CASE Clock \/ UNCHANGED vars
    BY <2>6 DEF Clock, Tick, vars, breakerVars, Contract!contractVars, Votes, Superseded
  <2> QED BY <2>1, <2>2, <2>3, <2>4, <2>5, <2>6, NextCases
<1> QED BY <1>1, <1>2, TypeCorrect, FencesHold, PTL DEF Spec, ContractSpec, Contract!Spec
====================================================================================
