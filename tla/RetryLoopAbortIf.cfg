\* An abort_if that raises.
CONSTANTS
    Classes <- MCClasses
    NonRetryable <- MCNonRetryable
    Unknown = "UNKNOWN"
    Policies <- MCPolicies
    MaxElapsed = 3
    None = None

SPECIFICATION Spec

INVARIANTS OutcomeCountsCalls

CHECK_DEADLOCK FALSE
