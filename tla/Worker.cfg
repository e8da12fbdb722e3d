\* Up to three executions of no attempt, one or two, one after the other, within each other
\* and in a child task.
CONSTANTS
    None = None
    Contexts <- MCContexts
    Tasks <- MCTasks
    Hooks <- MCHooks
    TaskPolicy <- MCTaskPolicy
    InnerPolicies <- MCInnerPolicies
    MaxExecutions = 3

SPECIFICATION Spec

INVARIANTS
    TypeOK
    SpanOfItsOwn
    IdleContextClean
    EndedSpansSilent
    RedeliveredOnlyIfScheduled
    OneCallPerDelivery

CHECK_DEADLOCK FALSE
