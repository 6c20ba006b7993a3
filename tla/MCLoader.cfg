CONSTANTS
    Texts <- MC_Texts
    Name <- MC_Name
    HostFunctions = {"h"}
    HostGlobals = {"x"}
    SystemTypes <- MC_SystemTypes
    Added = {"h"}
    MaxLoads = 3
SPECIFICATION FairSpec
INVARIANTS
    LoaderTypeOK
    MisreadOnlyAfterOpen
PROPERTIES
    IsSymbols
    MethodsKept
    LoadReturns
CHECK_DEADLOCK FALSE
