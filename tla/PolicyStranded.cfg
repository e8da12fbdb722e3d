\* An interrupt may strand an admission: no symmetry, so that the trace is plain.
CONSTANTS
    Callers = {c1, c2, c3}
    None = None
    Classes <- MCClasses
    TripOn <- MCTripOn
    ClassThreshold <- MCClassThreshold
    FailureThreshold = 2
    WindowS = 2
    RecoveryTimeoutS = 2
    MaxTime = 3
    AsyncInterrupts = TRUE

SPECIFICATION Spec

INVARIANTS AdmissionReleased
