\* Outcomes of two callers in a window of two, and waits of up to one.
CONSTANTS
    Callers = {c1, c2}
    WindowS = 2
    TargetNum = 2
    TargetDen = 3
    MinMultiplier = 1
    MaxMultiplier = 3
    MaxStall = 1
    MaxRecorded = 4
    MaxTime = 5

SPECIFICATION Spec
SYMMETRY MCSymmetry

INVARIANTS
    TypeOK
    SuccessEndsFailures

PROPERTIES MultiplierOfWindow

CHECK_DEADLOCK FALSE
