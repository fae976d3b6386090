SPECIFICATION Spec
CONSTANTS
    Text <- Texts
    Sizes <- Panes
    NumberWidth = 1
    MaxLines = 3
INVARIANTS
    TypeOK
PROPERTIES
    TailShown
    MatchShown
CHECK_DEADLOCK FALSE
