\* An exception that carries its status in its response, and the classifier of the recipe.
CONSTANTS
    None = None
    Objects <- MCObjects
    Requests <- MCHttpxRequests
    Failures <- MCHttpxFailures
    NonRetryable <- MCNonRetryable
    BaseS = 2
    MaxS = 3
    Deadline = 4
    MaxAttempts = 3
    MaxTime = 5

SPECIFICATION Spec

INVARIANTS CarriedRefusalsFinal

CHECK_DEADLOCK FALSE
