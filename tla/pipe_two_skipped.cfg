SPECIFICATION FairSpec
CONSTANTS
    Stages = 4
    Chunks = 1
    Settings <- TwoSkipped
PROPERTIES
    StreamsPassedOn
CHECK_DEADLOCK FALSE
