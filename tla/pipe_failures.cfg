SPECIFICATION FairSpec
CONSTANTS
    Stages = 3
    Chunks = 1
    Settings <- Failures
INVARIANTS
    TypeOK
    NoDataLost
PROPERTIES
    Terminates
    ImplementsComposite
CHECK_DEADLOCK FALSE
