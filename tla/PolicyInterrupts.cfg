\* The same callers, with KeyboardInterrupt between any two steps: what an
\* interrupt may strand it still cannot corrupt.
CONSTANTS
    Callers = {c1, c2, c3}
    None = None
    Classes <- MCClasses
    TripOn <- MCTripOn
    ClassThreshold <- MCClassThreshold
    FailureThreshold = 2
    WindowS = 2
    RecoveryTimeoutS = 2
    MaxTime = 3
    AsyncInterrupts = TRUE

SPECIFICATION Spec
SYMMETRY MCSymmetry

INVARIANTS
    HalfOpenAdmitsOne

PROPERTIES
    OnlyVotersCount
    ProbeReleasedByOwner
    ContractSpec
