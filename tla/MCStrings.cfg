CONSTANTS
    Lower <- MC_Lower
    Upper <- MC_Upper
    Sources <- MC_Sources
    Arguments <- MC_Arguments
    Numbers <- MC_Numbers
    IntHalf = 8
    StrMax = 5
    MaxLen = 7
    MaxCalls = 2
SPECIFICATION Spec
INVARIANTS
    StringsTypeOK
    LiteralAsWritten
    PiecesOfText
    SubstrAsAsked
    CrashOnlyByOverlap
    RoundTrip
CHECK_DEADLOCK FALSE
