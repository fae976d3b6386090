SPECIFICATION FairSpec
CONSTANTS
    v1 = v1
    v2 = v2
    Invocation <- OneInvocation
    Refs = 3
    MaxConcurrent = 2
    FailFast = TRUE
    Broken <- NoneBroken
INVARIANTS
    TypeOK
    PoolBound
    NoFailureLost
    RootCauseReported
    DeadlineHidesNothing
    Drained
PROPERTIES
    ImplementsComposite
CHECK_DEADLOCK FALSE
