\* Three callers share a breaker that opens after two failures.  No symmetry: the
\* run checks a liveness property.
CONSTANTS
    Callers = {c1, c2, c3}
    None = None
    Classes <- MCClasses
    TripOn <- MCTripOn
    ClassThreshold <- MCClassThreshold
    FailureThreshold = 2
    WindowS = 2
    RecoveryTimeoutS = 2
    MaxTime = 3
    AsyncInterrupts = FALSE

SPECIFICATION FairSpec

INVARIANTS
    PolicyTypeOK
    NoStrandedProbe

PROPERTIES
    RecoveryTimeoutRespected
    ProbeSettles
