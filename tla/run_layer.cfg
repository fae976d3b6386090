SPECIFICATION FairSpec
CONSTANTS
    s1 = s1
    s2 = s2
    Step <- Steps12
    TagKey <- Keys
    Options <- CommandLines
    MaxRetries = 1
INVARIANTS
    TypeOK
    StoredIsLast
    
    StatusShown
PROPERTIES
    Ends
CHECK_DEADLOCK FALSE
