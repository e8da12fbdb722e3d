------------------------------ MODULE CircuitBreaker ------------------------------
(***********************************************************************************)
(* redress.circuit.CircuitBreaker: the shared circuit breaker, one action per      *)
(* critical section of its lock.  The breaker itself has no thread: the modules    *)
(* that extend this one (Policy, CircuitWindow) say who enters which critical      *)
(* section, and with which reading of the clock.                                   *)
(*                                                                                 *)
(* An admission is a mutable object that allow() hands to one execution.  Its      *)
(* identity is what `self._probe is not admission` compares, so an admission is    *)
(* named here by the caller that holds it, and the probe is a caller.              *)
(***********************************************************************************)
EXTENDS Integers, Sequences, RollingWindow

CONSTANTS
    Callers,            \* whoever can hold an admission
    Classes,            \* ErrorClass
    TripOn,             \* the trip_on argument
    ClassThreshold,     \* the class_thresholds argument, a function on some classes
    FailureThreshold,   \* failure_threshold
    WindowS,            \* window_s
    RecoveryTimeoutS,   \* recovery_timeout_s
    MaxTime,            \* bound on the clock
    None                \* Python's None

Admission == [generation : Nat, completed : BOOLEAN]

\* What __init__ accepts, and that None is no caller, no instant and no admission.
ASSUME BreakerAssumption ==
    /\ FailureThreshold \in Nat \ {0}
    /\ WindowS \in Nat \ {0}
    /\ RecoveryTimeoutS \in Nat \ {0}
    /\ MaxTime \in Nat
    /\ TripOn \subseteq Classes
    /\ DOMAIN ClassThreshold \subseteq Classes
    /\ \A k \in DOMAIN ClassThreshold : ClassThreshold[k] \in Nat \ {0}
    /\ Classes \cap {"success", "cancel"} = {}
    /\ None \notin Callers /\ None \notin Nat /\ None \notin Admission

VARIABLES
    now,            \* the breaker's clock
    state,          \* _state
    openedAt,       \* _opened_at
    generation,     \* _generation
    probe,          \* _probe: the caller whose admission it is, or None
    failures,       \* _failures
    classFailures,  \* _class_failures, an absent key being an empty bucket
    admission       \* the _BreakerAdmission each caller was given, or None

resolution == <<state, generation, openedAt, probe>>
tally == <<failures, classFailures>>
breakerVars == <<now, state, openedAt, generation, probe, failures, classFailures, admission>>

NoClassFailures == [k \in DOMAIN ClassThreshold |-> <<>>]

BreakerTypeOK ==
    /\ now \in 0..MaxTime
    /\ state \in {"closed", "open", "half_open"}
    /\ openedAt \in Nat \cup {None}
    /\ generation \in Nat
    /\ probe \in Callers \cup {None}
    /\ failures \in Seq(Nat)
    /\ classFailures \in [DOMAIN ClassThreshold -> Seq(Nat)]
    /\ admission \in [Callers -> Admission \cup {None}]

BreakerInit ==
    /\ now = 0
    /\ state = "closed"
    /\ openedAt = None
    /\ generation = 0
    /\ probe = None
    /\ failures = <<>>
    /\ classFailures = NoClassFailures
    /\ admission = [c \in Callers |-> None]

Tick ==
    /\ now < MaxTime
    /\ now' = now + 1
    /\ UNCHANGED <<state, openedAt, generation, probe, failures, classFailures, admission>>

-----------------------------------------------------------------------------------
(* allow(): `at` is the clock as read on its first line, before the lock is taken. *)

Admit(c) == admission' = [admission EXCEPT ![c] = [generation |-> generation, completed |-> FALSE]]

OpenSince(at) == IF openedAt = None THEN at ELSE openedAt

AdmitRecoveryProbe(c, at) ==
    /\ state = "open"
    /\ at - OpenSince(at) >= RecoveryTimeoutS
    /\ state' = "half_open"
    /\ openedAt' = OpenSince(at)
    /\ probe' = c
    /\ Admit(c)
    /\ UNCHANGED <<now, generation, failures, classFailures>>

\* Faulty: the slot is not looked at, so a second probe is let in beside the first.
FaultyAdmitNextProbe(c) ==
    /\ state = "half_open"
    /\ probe' = c
    /\ Admit(c)
    /\ UNCHANGED <<now, state, openedAt, generation, failures, classFailures>>

AdmitNextProbe(c) ==
    /\ state = "half_open"
    /\ probe = None
    /\ probe' = c
    /\ Admit(c)
    /\ UNCHANGED <<now, state, openedAt, generation, failures, classFailures>>

AdmitClosed(c) ==
    /\ state = "closed"
    /\ Admit(c)
    /\ UNCHANGED <<now, resolution, tally>>

RejectOpen(at) ==
    /\ state = "open"
    /\ at - OpenSince(at) < RecoveryTimeoutS
    /\ openedAt' = OpenSince(at)
    /\ UNCHANGED <<now, state, generation, probe, tally, admission>>

RejectBusy ==
    /\ state = "half_open"
    /\ probe # None
    /\ UNCHANGED breakerVars

-----------------------------------------------------------------------------------
(* record_success(), record_failure(klass) and record_cancel(), under the lock.    *)

Prune(bucket, at) == DropExpired(bucket, at - WindowS)

Noted(bucket, at) == Append(Prune(bucket, at), at)

\* Faulty: the threshold must be exceeded.
FaultyTrips(k, at) ==
    \/ k \in DOMAIN ClassThreshold /\ Len(Noted(classFailures[k], at)) > ClassThreshold[k]
    \/ Len(Noted(failures, at)) > FailureThreshold

Trips(k, at) ==
    \/ k \in DOMAIN ClassThreshold /\ Len(Noted(classFailures[k], at)) >= ClassThreshold[k]
    \/ Len(Noted(failures, at)) >= FailureThreshold

ClearFailures ==
    /\ failures' = <<>>
    /\ classFailures' = NoClassFailures

\* Faulty: the opening is dated from the first failure of the window.
FaultyOpen(at) ==
    /\ state' = "open"
    /\ generation' = generation + 1
    /\ openedAt' = IF failures = <<>> THEN at ELSE Head(failures)
    /\ probe' = None
    /\ ClearFailures

Open(at) ==
    /\ state' = "open"
    /\ generation' = generation + 1
    /\ openedAt' = at
    /\ probe' = None
    /\ ClearFailures

NoteFailure(k, at) ==
    /\ failures' = Noted(failures, at)
    /\ classFailures' = IF k \in DOMAIN ClassThreshold
                        THEN [classFailures EXCEPT ![k] = Noted(@, at)]
                        ELSE classFailures
    /\ UNCHANGED resolution

Counts(k) == k \in TripOn \cup DOMAIN ClassThreshold

RecordFailure(k, at) ==
    \/ /\ state = "half_open"
       /\ Open(at)
    \/ /\ state = "closed" /\ Counts(k) /\ Trips(k, at)
       /\ Open(at)
    \/ /\ state = "closed" /\ Counts(k) /\ ~Trips(k, at)
       /\ NoteFailure(k, at)
    \/ /\ state = "open" \/ (state = "closed" /\ ~Counts(k))
       /\ UNCHANGED <<resolution, tally>>

RecordSuccess ==
    \/ /\ state = "half_open"
       /\ state' = "closed"
       /\ generation' = generation + 1
       /\ openedAt' = None
       /\ probe' = None
       /\ ClearFailures
    \/ /\ state # "half_open"
       /\ UNCHANGED <<resolution, tally>>

\* Faulty: the slot is emptied with a flag, where the other sections expect None.
FaultyRecordCancel ==
    /\ probe' = IF state = "half_open" THEN FALSE ELSE probe
    /\ UNCHANGED <<state, generation, openedAt, tally>>

RecordCancel ==
    /\ probe' = IF state = "half_open" THEN None ELSE probe
    /\ UNCHANGED <<state, generation, openedAt, tally>>

-----------------------------------------------------------------------------------
(* _complete(decision, outcome, klass): an outcome is "success", "cancel" or, for  *)
(* a failure, its class.  The clock is read inside the lock.                       *)

Outcomes == {"success", "cancel"} \cup Classes

Record(outcome, at) ==
    \/ outcome = "success" /\ RecordSuccess
    \/ outcome = "cancel" /\ RecordCancel
    \/ outcome \in Classes /\ RecordFailure(outcome, at)

MarkCompleted(c) == admission' = [admission EXCEPT ![c].completed = TRUE]

Superseded(c) ==
    \/ admission[c].generation # generation
    \/ state = "half_open" /\ probe # c

\* Faulty: an admission is listened to whatever happened since it was given.
FaultyComplete(c, outcome) ==
    /\ admission[c] # None
    /\ \/ /\ admission[c].completed
          /\ UNCHANGED breakerVars
       \/ /\ ~admission[c].completed
          /\ Record(outcome, now)
          /\ MarkCompleted(c)
          /\ UNCHANGED now

Complete(c, outcome) ==
    /\ admission[c] # None
    /\ \/ /\ admission[c].completed
          /\ UNCHANGED breakerVars
       \/ /\ ~admission[c].completed /\ Superseded(c)
          /\ MarkCompleted(c)
          /\ UNCHANGED <<now, resolution, tally>>
       \/ /\ ~admission[c].completed /\ ~Superseded(c)
          /\ Record(outcome, now)
          /\ MarkCompleted(c)
          /\ UNCHANGED now
====================================================================================
