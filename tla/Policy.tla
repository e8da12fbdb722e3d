---------------------------------- MODULE Policy ----------------------------------
(***********************************************************************************)
(* Policy.call/execute and AsyncPolicy.call/execute around a shared breaker: the   *)
(* life of the admission held in ExecutionContext.breaker_decision, from allow()   *)
(* to __exit__.  Each caller is a thread or task that makes one policy call after  *)
(* another; the steps of different callers interleave freely, so an observer or an *)
(* operation that calls a policy on the same breaker is one more caller.           *)
(***********************************************************************************)
EXTENDS CircuitBreaker

CONSTANT AsyncInterrupts  \* may KeyboardInterrupt arrive between two of the steps below?

ASSUME PolicyAssumption == AsyncInterrupts \in BOOLEAN

VARIABLES
    pc,       \* where each caller is in its policy call
    sample,   \* the clock allow() read before taking the lock
    held,     \* ctx.breaker_decision is not None
    verdict   \* the outcome about to be recorded with the breaker

policyVars == <<pc, sample, held, verdict>>
vars == <<breakerVars, policyVars>>

Places == {"idle", "asking", "granted", "running", "settling", "settled", "exiting"}

PolicyTypeOK ==
    /\ BreakerTypeOK
    /\ pc \in [Callers -> Places]
    /\ sample \in [Callers -> 0..MaxTime]
    /\ held \in [Callers -> BOOLEAN]
    /\ verdict \in [Callers -> Outcomes \cup {None}]
    /\ \A c \in Callers : pc[c] = "settling" => verdict[c] \in Outcomes

Init ==
    /\ BreakerInit
    /\ pc = [c \in Callers |-> "idle"]
    /\ sample = [c \in Callers |-> 0]
    /\ held = [c \in Callers |-> FALSE]
    /\ verdict = [c \in Callers |-> None]

Goto(c, place) == pc' = [pc EXCEPT ![c] = place]

-----------------------------------------------------------------------------------
(* A caller starts a call once nothing refers to the admission of its last one.    *)

\* Without a retry component, abort_if is asked before the breaker is.
PreflightAbort(c) ==
    /\ pc[c] = "idle"
    /\ Goto(c, "exiting")
    /\ UNCHANGED <<breakerVars, sample, held, verdict>>

\* allow() reads the clock, and then waits for the lock.
ReadClock(c) ==
    /\ pc[c] = "idle"
    /\ admission[c] = None
    /\ sample' = [sample EXCEPT ![c] = now]
    /\ Goto(c, "asking")
    /\ UNCHANGED <<breakerVars, held, verdict>>

Granted(c) ==
    /\ pc[c] = "asking"
    /\ \/ AdmitRecoveryProbe(c, sample[c])
       \/ AdmitNextProbe(c)
       \/ AdmitClosed(c)
    /\ sample' = [sample EXCEPT ![c] = 0]
    /\ Goto(c, "granted")
    /\ UNCHANGED <<held, verdict>>

\* CircuitOpenError is raised, or an outcome returned, with no decision in ctx.
Refused(c) ==
    /\ pc[c] = "asking"
    /\ RejectOpen(sample[c]) \/ RejectBusy
    /\ sample' = [sample EXCEPT ![c] = 0]
    /\ Goto(c, "exiting")
    /\ UNCHANGED <<held, verdict>>

\* The decision is stored in ctx; then observers hear of it, and one that raises
\* a BaseException ends the call here.
Adopt(c) ==
    /\ pc[c] = "granted"
    /\ held' = [held EXCEPT ![c] = TRUE]
    /\ \E place \in {"running", "exiting"} : Goto(c, place)
    /\ UNCHANGED <<breakerVars, sample, verdict>>

-----------------------------------------------------------------------------------
(* The protected work ends, and its end names the outcome to record.               *)

EndWith(c, outcome) ==
    /\ pc[c] = "running"
    /\ verdict' = [verdict EXCEPT ![c] = outcome]
    /\ Goto(c, "settling")
    /\ UNCHANGED <<breakerVars, sample, held>>

WorkReturns(c) == EndWith(c, "success")

\* AbortRetryError, an outcome stopped by an abort, or an interrupt that is caught.
WorkAborts(c) == EndWith(c, "cancel")

\* Exhausted retries, a classified exception, or an outcome that is not ok.
WorkFails(c) == \E k \in Classes : EndWith(c, k)

\* Nothing is recorded: a CircuitOpenError of the work itself, a cancellation the
\* handlers do not name, a classifier that raises.
WorkEscapes(c) ==
    /\ pc[c] = "running"
    /\ Goto(c, "exiting")
    /\ UNCHANGED <<breakerVars, sample, held, verdict>>

Settle(c) ==
    /\ pc[c] = "settling"
    /\ Complete(c, verdict[c])
    /\ verdict' = [verdict EXCEPT ![c] = None]
    /\ Goto(c, "settled")
    /\ UNCHANGED <<sample, held>>

\* The context lets go of the decision before observers hear of the outcome.
Retire(c) ==
    /\ pc[c] = "settled"
    /\ held' = [held EXCEPT ![c] = FALSE]
    /\ Goto(c, "exiting")
    /\ UNCHANGED <<breakerVars, sample, verdict>>

-----------------------------------------------------------------------------------
(* __exit__: a decision that is still held is cancelled.                           *)

\* Faulty: __exit__ drops the decision without telling the breaker.
FaultyReleaseHeld(c) ==
    /\ pc[c] = "exiting"
    /\ held[c]
    /\ held' = [held EXCEPT ![c] = FALSE]
    /\ UNCHANGED <<breakerVars, pc, sample, verdict>>

ReleaseHeld(c) ==
    /\ pc[c] = "exiting"
    /\ held[c]
    /\ Complete(c, "cancel")
    /\ held' = [held EXCEPT ![c] = FALSE]
    /\ UNCHANGED <<pc, sample, verdict>>

\* The admission object dies with the call, unless the breaker still refers to it.
Leave(c) ==
    /\ pc[c] = "exiting"
    /\ ~held[c]
    /\ admission' = IF probe = c THEN admission ELSE [admission EXCEPT ![c] = None]
    /\ Goto(c, "idle")
    /\ UNCHANGED <<now, resolution, tally, sample, held, verdict>>

\* KeyboardInterrupt in the main thread: the stack unwinds through __exit__, or out of it
\* without the release if it was already there.  Python may raise it between any two
\* bytecodes; here it is raised between two steps, never inside a critical section of the
\* breaker, where it would leave some of the assignments undone.
Interrupt(c) ==
    /\ AsyncInterrupts
    /\ pc[c] # "idle"
    /\ held' = [held EXCEPT ![c] = @ /\ pc[c] # "exiting"]
    /\ sample' = [sample EXCEPT ![c] = 0]
    /\ verdict' = [verdict EXCEPT ![c] = None]
    /\ Goto(c, "exiting")
    /\ UNCHANGED breakerVars

Step(c) ==
    \/ ReadClock(c) \/ Granted(c) \/ Refused(c) \/ Adopt(c)
    \/ WorkReturns(c) \/ WorkAborts(c) \/ WorkFails(c) \/ WorkEscapes(c)
    \/ Settle(c) \/ Retire(c) \/ ReleaseHeld(c) \/ Leave(c)

Clock == Tick /\ UNCHANGED policyVars

Next == Clock \/ \E c \in Callers : Step(c) \/ PreflightAbort(c) \/ Interrupt(c)

Spec == Init /\ [][Next]_vars

\* A call that has been admitted is carried on: its thread is scheduled, and the protected
\* work ends.  Attempt caps and deadlines bound the retries of it; that a running operation
\* returns is assumed, for no deadline stops one.  Nobody has to call.
CarriedOn(c) ==
    \/ Granted(c) \/ Refused(c) \/ Adopt(c)
    \/ WorkReturns(c) \/ WorkAborts(c) \/ WorkFails(c) \/ WorkEscapes(c)
    \/ Settle(c) \/ Retire(c) \/ ReleaseHeld(c) \/ Leave(c)

FairSpec == Spec /\ \A c \in Callers : WF_vars(CarriedOn(c))

-----------------------------------------------------------------------------------
(* Properties.                                                                     *)

\* The execution holds an admission the breaker would still listen to.
Votes(c) ==
    /\ admission[c] # None
    /\ ~admission[c].completed
    /\ ~Superseded(c)

Completes(c) ==
    /\ admission[c] # None /\ ~admission[c].completed
    /\ admission'[c] # None /\ admission'[c].completed

\* Generations fence admissions: none is of a later generation, none is current in an
\* open breaker, and the probe of a half-open one is current and not yet completed.
Fences ==
    /\ \A c \in Callers : admission[c] # None =>
          /\ admission[c].generation <= generation
          /\ state = "open" => admission[c].generation < generation
          /\ state = "half_open" /\ ~admission[c].completed
                /\ admission[c].generation = generation => probe = c
    /\ \A c \in Callers : probe = c =>
          /\ state = "half_open"
          /\ admission[c] # None
          /\ ~admission[c].completed
          /\ admission[c].generation = generation

\* A decision in ctx is an admission, and only a call under way has one there.
Custody ==
    \A c \in Callers :
        /\ held[c] => admission[c] # None /\ pc[c] \in {"running", "settling", "settled", "exiting"}
        /\ pc[c] \in {"granted", "running", "settling"} => admission[c] # None
        /\ ~AsyncInterrupts /\ pc[c] \in {"running", "settling"} => held[c]

\* An open breaker knows since when, and no reading of the clock is from the future.
Clocks ==
    /\ state = "open" => openedAt \in Nat
    /\ \A c \in Callers : sample[c] <= now

\* "If execution exits before recording a final breaker outcome, its admission is
\* released": the admission a half-open breaker waits for belongs to an execution
\* that is still on its way to settle or to release it.
NoStrandedProbe ==
    \A c \in Callers : state = "half_open" /\ probe = c =>
        /\ Votes(c)
        /\ pc[c] \in {"granted", "running", "settling", "exiting"}
        /\ pc[c] # "granted" => held[c]

\* The same promise as the documentation words it: an execution that is over has no
\* admission that keeps others out.
AdmissionReleased ==
    \A c \in Callers : pc[c] = "idle" => ~(state = "half_open" /\ probe = c)

\* While the breaker is half-open no execution but the probe has a say, whatever
\* was admitted before, cancelled, or replaced.
HalfOpenAdmitsOne ==
    state = "half_open" =>
        \A c \in Callers :
            admission[c] # None /\ ~admission[c].completed
                /\ admission[c].generation = generation => probe = c

\* "Results and cleanup from executions admitted before an intervening circuit
\* transition are ignored": the failures counted and the generation move only when
\* an execution with a vote settles, and each admission settles once.
OnlyVotersCount ==
    [][<<generation, failures, classFailures>>' # <<generation, failures, classFailures>>
          => \E c \in Callers : Votes(c) /\ Completes(c)]_vars

\* "An exception from a later callback cannot release a newer probe": the probe
\* slot is freed only in the step that completes the probe's own admission.
ProbeReleasedByOwner ==
    [][\A c \in Callers : probe = c /\ probe' # c => Completes(c)]_vars

\* However long allow() waits between reading the clock and taking the lock, a
\* breaker that trips rejects everybody for recovery_timeout_s of real time.
RecoveryTimeoutRespected ==
    [][ /\ state # "open" /\ state' = "open" => openedAt' = now
        /\ state = "open" => openedAt' = openedAt
        /\ state = "open" /\ state' # "open" =>
              state' = "half_open" /\ now - openedAt >= RecoveryTimeoutS ]_vars

\* A probe is eventually settled or released, so a half-open breaker does not
\* reject calls for ever.
ProbeSettles == \A c \in Callers : (probe = c) ~> (probe # c)

\* The policies implement the ownership contract.
Contract == INSTANCE CircuitContract
                WITH mode <- state, voters <- {c \in Callers : Votes(c)}

ContractSpec == Contract!Spec
====================================================================================
