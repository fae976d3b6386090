SPECIFICATION FairSpec
CONSTANTS
    Attempts = 2
    Timers <- AnyTimer
    Drivers <- AnyDriver
    Awaits <- AnyAwait
    Policies <- Missing
    Image <- Tagged
    StartMayFail = TRUE
    GracePeriods <- AnyGrace
    MayCancel = TRUE
INVARIANTS
    TypeOK
    NeverKilledInProgress
    EveryAttemptCollected
PROPERTIES
    TimeoutEndsAttempt
CHECK_DEADLOCK FALSE
