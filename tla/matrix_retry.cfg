SPECIFICATION FairSpec
CONSTANTS
    Params <- TwoSystems
    Include <- TwoGroups
    MaxConcurrent = 1
    FailFast = TRUE
    HasRetry = TRUE
    MaxRetries = 1
INVARIANTS
    TypeOK
    SharedBudget
    ExpandsEveryAttempt
    EveryCombinationRan
PROPERTIES
    Terminates
    ImplementsComposite
CHECK_DEADLOCK FALSE
