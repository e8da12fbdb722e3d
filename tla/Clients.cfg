\* Requests of each kind, for up to three attempts within four units of time.
CONSTANTS
    None = None
    Objects <- MCObjects
    Requests <- MCRequests
    Failures <- MCFailures
    NonRetryable <- MCNonRetryable
    BaseS = 2
    MaxS = 3
    Deadline = 4
    MaxAttempts = 3
    MaxTime = 5

SPECIFICATION Spec

INVARIANTS
    TypeOK
    SameBody
    RefusesUnreplayable
    SentOnceWhenSkipped
    RefusalsNotRepeated
    BusyNotFinal

PROPERTIES
    HintHonoured
    NoHotLoop

CHECK_DEADLOCK FALSE
