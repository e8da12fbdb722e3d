------------------------------- MODULE CircuitWindow ------------------------------
(***********************************************************************************)
(* The breaker's rolling window against its definition.  Executions own admissions *)
(* and complete them, and other code calls the public record_* methods directly;   *)
(* record_failure() reads the clock before it takes the lock, so a failure may be  *)
(* dated up to MaxLag before it is recorded.  A history keeps the instants at      *)
(* which the failures that count really were recorded, all of them and by class.   *)
(***********************************************************************************)
EXTENDS CircuitBreaker, FiniteSets

CONSTANTS
    MaxLag,         \* how long a direct call may wait for the lock
    MaxGeneration   \* bound on the transitions of a behaviour

ASSUME WindowAssumption == MaxLag \in Nat /\ MaxLag < WindowS /\ MaxGeneration \in Nat

VARIABLES
    recorded,   \* history: the failures counted since the breaker was last closed
    recordedOf  \* history: those of each class

history == <<recorded, recordedOf>>
vars == <<breakerVars, history>>

NothingOf == [k \in Classes |-> <<>>]

TypeOK ==
    /\ now \in 0..MaxTime
    /\ state \in {"closed", "open", "half_open"}
    /\ failures \in Seq(Nat) /\ classFailures \in [DOMAIN ClassThreshold -> Seq(Nat)]
    /\ recorded \in Seq(Nat)
    /\ recordedOf \in [Classes -> Seq(Nat)]

Init == BreakerInit /\ recorded = <<>> /\ recordedOf = NothingOf

\* What a critical section that records an outcome adds to the history.
Remember(outcome) ==
    IF outcome \in Classes /\ Counts(outcome) /\ state = "closed"
    THEN /\ recorded' = Append(recorded, now)
         /\ recordedOf' = [recordedOf EXCEPT ![outcome] = Append(@, now)]
    ELSE IF state = "half_open" /\ state' = "closed"
    THEN recorded' = <<>> /\ recordedOf' = NothingOf
    ELSE UNCHANGED history

Readings == {at \in 0..now : at >= now - MaxLag}

Allow(c) ==
    /\ admission[c] = None
    /\ \/ \E at \in Readings : AdmitRecoveryProbe(c, at) \/ RejectOpen(at)
       \/ AdmitNextProbe(c)
       \/ AdmitClosed(c)
       \/ RejectBusy
    /\ UNCHANGED history

Settle(c) ==
    \E outcome \in Outcomes :
        /\ Complete(c, outcome)
        /\ IF ~admission[c].completed /\ ~Superseded(c)
           THEN Remember(outcome)
           ELSE UNCHANGED history

Forget(c) ==
    /\ admission[c] # None
    /\ admission[c].completed
    /\ admission' = [admission EXCEPT ![c] = None]
    /\ UNCHANGED <<now, resolution, tally, history>>

\* record_success(), record_failure(klass) or record_cancel() by whoever likes.
Direct ==
    \E outcome \in Outcomes, at \in Readings :
        /\ Record(outcome, at)
        /\ Remember(outcome)
        /\ UNCHANGED <<now, admission>>

Bounded == generation < MaxGeneration

Next ==
    \/ Tick /\ UNCHANGED history
    \/ \E c \in Callers : Allow(c) \/ (Bounded /\ Settle(c)) \/ Forget(c)
    \/ Bounded /\ Direct

Spec == Init /\ [][Next]_vars

-----------------------------------------------------------------------------------
(* Properties.                                                                     *)

\* How many of some instants a rolling window of this span holds.
Within(span, instants) == Cardinality({i \in 1..Len(instants) : instants[i] > now - span})

\* The definition of the thresholds: a rolling window of this span holds enough
\* failures of any class that counts, or of a class with a threshold of its own.
Reached(span, instants, instantsOf) ==
    \/ Within(span, instants) >= FailureThreshold
    \/ \E k \in DOMAIN ClassThreshold : Within(span, instantsOf[k]) >= ClassThreshold[k]

\* A closed breaker opens only on enough failures: a failure dated early may keep
\* others in the window, but by no more than the lag.
TripsOnlyOnThreshold ==
    [][state = "closed" /\ state' = "open"
         => Reached(WindowS + MaxLag, recorded', recordedOf')]_vars

\* A breaker stays closed only below the thresholds: a failure dated early may drop
\* out of the window, but by no more than the lag.
NoTripMissed == state = "closed" => ~Reached(WindowS - MaxLag, recorded, recordedOf)

\* A window of the breaker is the latest of the instants of a history, each dated at most
\* MaxLag early; those before it were recorded longer ago than the window less the lag.
DatedTail(window, instants) ==
    LET gone == Len(instants) - Len(window)
    IN  /\ gone >= 0
        /\ \A i \in 1..Len(window) :
              /\ window[i] <= instants[gone + i]
              /\ instants[gone + i] <= window[i] + MaxLag
        /\ \A j \in 1..gone : instants[j] <= now - WindowS + MaxLag

\* A history is in order, and none of it from the future.
InOrder(instants) ==
    /\ \A j \in 1..Len(instants) : instants[j] <= now
    /\ \A i, j \in 1..Len(instants) : i <= j => instants[i] <= instants[j]

\* The buckets of a closed breaker are the ends of the histories, and below their
\* thresholds.
Buckets ==
    /\ InOrder(recorded) /\ \A k \in Classes : InOrder(recordedOf[k])
    /\ state = "closed" =>
          /\ DatedTail(failures, recorded) /\ Len(failures) < FailureThreshold
          /\ \A k \in DOMAIN ClassThreshold :
                DatedTail(classFailures[k], recordedOf[k])
                /\ Len(classFailures[k]) < ClassThreshold[k]
====================================================================================
