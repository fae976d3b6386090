SPECIFICATION Spec
CONSTANTS
    p1 = p1
    p2 = p2
    r1 = r1
    r2 = r2
    main = main
    other = other
    none = none
    Process <- TwoProcesses
    Ref <- TwoRefs
    Goroutine <- TwoGoroutines
    Main = main
    NoProcess = none
    Kinds <- RunBesideOthers
    Unreadable <- TheSecond
    MaxManifests = 3
    MaxResolves = 2
SYMMETRY Interchangeable
INVARIANTS
    TypeOK
    LossNeedsOverlap
    AnswersAreStored
PROPERTIES
    NoSecondPull
CHECK_DEADLOCK FALSE
