CONSTANTS
    Nodes <- MC_Nodes
    Files <- MC_Files
    Transform <- sxp_transform
    Atoi <- MC_Atoi
    IntHalf = 16
    BlockChunks = {1, 2}
    SystemFunctions <- MC_SystemFunctions
    SystemGlobals <- MC_SystemGlobals
SPECIFICATION Spec
INVARIANTS
    TypeOK
    JumpsLand
    VariablesExist
    NothingCarried
    LinesRight
    OverrunBySmallChunk
    CodeBalanced
    CodeMeansBody
    RefusedForFault
CHECK_DEADLOCK FALSE
