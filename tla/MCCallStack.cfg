SPECIFICATION BoundedSpec
CONSTANTS
    Security = {read, write}
    MaxDepth = 5
INVARIANTS
    TypeOK
    MarksNested
    AccessNarrows
PROPERTIES
    CallersKept
CHECK_DEADLOCK FALSE
