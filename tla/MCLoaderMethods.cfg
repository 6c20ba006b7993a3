CONSTANTS
    Texts <- MC_Texts
    Name <- MC_Name
    HostFunctions = {"h"}
    HostGlobals = {"x"}
    SystemTypes <- MC_SystemTypes
    Added = {"m"}
    MaxLoads = 1
SPECIFICATION FairSpec
PROPERTIES
    OldMethodsKept
CHECK_DEADLOCK FALSE
