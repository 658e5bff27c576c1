SPECIFICATION Spec
CONSTANTS
    Nil = Nil
    Life = 3 Lead = 2 Floor = 1 MinWait = 1 LongWait = 2 MaxRefresh = 1
INVARIANTS
    NotDueWhenIssued
CHECK_DEADLOCK FALSE
