\* Callbacks that answer as they like, and all of them may raise, or all but abort_if
\* and the sleep.
CONSTANTS
    Classes <- MCClasses
    NonRetryable <- MCNonRetryable
    Unknown = "UNKNOWN"
    Policies <- MCPolicies
    MaxElapsed = 3
    None = None

SPECIFICATION FairSpec

INVARIANTS
    TypeOK
    EventTellsEnding
    OnlyRetryableSoFar
    AttemptsCountCalls
    TokensCountRetries
    HooksPaired

PROPERTIES
    Terminates
    StepsDescend
    KeepsContract

CHECK_DEADLOCK FALSE
