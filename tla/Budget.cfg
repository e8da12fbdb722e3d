\* Two tokens in a window of three, and waits of up to one.
CONSTANTS
    Callers = {c1, c2, c3}
    Costs <- MCCosts
    MaxRetries = 2
    WindowS = 3
    MaxStall = 1
    MaxTime = 7

SPECIFICATION Spec
SYMMETRY MCSymmetry

INVARIANTS
    TypeOK
    RollingBudget

PROPERTIES RefusesOnlyWhenSpent

CHECK_DEADLOCK FALSE
