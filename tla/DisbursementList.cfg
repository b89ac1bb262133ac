SPECIFICATION Spec
CONSTANTS
    Row = {1, 2, 3}
    DayLength = 2
    Page = {0, 2, 8, 12}
    Limit = {0, 1, 3}
    DefaultLimit = 2
    MaximumLimit = 3
    IntBound = 16
INVARIANTS
    AnswerInvariant
    WalkGivesRowsOnce
PROPERTIES
    PageIsWhatMetaSays
CHECK_DEADLOCK FALSE
