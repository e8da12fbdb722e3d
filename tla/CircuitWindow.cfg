\* Failures dated up to one instant early, in a window of two.
CONSTANTS
    Callers = {c1}
    None = None
    Classes <- MCClasses
    TripOn <- MCTripOn
    ClassThreshold <- MCClassThreshold
    FailureThreshold = 3
    WindowS = 2
    RecoveryTimeoutS = 1
    MaxTime = 5
    MaxLag = 1
    MaxGeneration = 3

SPECIFICATION Spec

INVARIANTS NoTripMissed
PROPERTIES TripsOnlyOnThreshold

CHECK_DEADLOCK FALSE
