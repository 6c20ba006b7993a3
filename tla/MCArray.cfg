CONSTANTS
    Nil = Nil
    One = One
    End = End
    s = s
    Value <- MC_Value
    Index <- MC_Index
    Equals <- MC_Equals
    Chunks = {0, 2}
    MaxAppends = 3
    MaxIters = 1
SPECIFICATION ArraySpec
INVARIANTS
    ArrayTypeOK
    NoneMissed
PROPERTIES
    OverrunByZero
    OnlyForward
    IsList
CHECK_DEADLOCK FALSE
