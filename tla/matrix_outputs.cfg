SPECIFICATION Spec
CONSTANTS
    Params <- TwoValues
    Include <- NoGroup
    MaxConcurrent = 0
    FailFast = FALSE
    HasRetry = FALSE
    MaxRetries = 1
INVARIANTS
    OutputsUnified
CHECK_DEADLOCK FALSE
