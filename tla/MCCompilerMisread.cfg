CONSTANTS
    Nodes <- Misread_Nodes
    Files <- Misread_Files
    Transform <- sxp_transform
    Atoi <- MC_Atoi
    IntHalf = 16
    BlockChunks = {2}
    SystemFunctions <- MC_SystemFunctions
    SystemGlobals <- MC_SystemGlobals
SPECIFICATION Spec
INVARIANTS
    OneMeansBody
CHECK_DEADLOCK FALSE
