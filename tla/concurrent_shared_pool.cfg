SPECIFICATION FairSpec
CONSTANTS
    v1 = v1
    v2 = v2
    Invocation <- TwoInvocations
    Refs = 2
    MaxConcurrent = 1
    FailFast = FALSE
    Broken <- LastBroken
INVARIANTS
    AllFailuresJoined
PROPERTIES
    Terminates
CHECK_DEADLOCK FALSE
