SPECIFICATION Spec
CONSTANTS
    Attempts = 1
    Timers <- NoTimer
    Drivers <- Docker
    Awaits <- AwaitExit
    Policies <- Missing
    Image <- Tagged
    StartMayFail = FALSE
    GracePeriods <- Grace
    MayCancel = FALSE
INVARIANTS
    NoneKept
CHECK_DEADLOCK FALSE
