\* A task whose policy has no retry component.
CONSTANTS
    None = None
    Contexts <- MCContexts
    Tasks <- PingTasks
    Hooks <- MCHooks
    TaskPolicy <- PingPolicy
    InnerPolicies <- NoPolicies
    MaxExecutions = 1

SPECIFICATION Spec

INVARIANTS
    OutcomeCountsCalls

CHECK_DEADLOCK FALSE
