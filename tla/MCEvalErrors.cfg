SPECIFICATION Spec
CONSTANTS
    Nil = Nil
    toString = toString
    toInt = toInt
    NoMethod = NoMethod
    run = run
    x = x
    fn_div = fn_div
    fn_call = fn_call
    fn_then = fn_then
    fn_zero = fn_zero
    fn_show = fn_show
    fn_cast = fn_cast
    fn_index = fn_index
    fn_at = fn_at
    fn_each = fn_each
    fn_logic = fn_logic
    fn_struct = fn_struct
    fn_pause = fn_pause
    fn_rest = fn_rest
    fn_apply = fn_apply
    fn_post = fn_post
    fn_square = fn_square
    odd_toString = odd_toString
    ok_toString = ok_toString
    bad_toString = bad_toString
    wide_toString = wide_toString
    ok_toInt = ok_toInt
    bad_toInt = bad_toInt
    me_run = me_run
    cf_num = cf_num
    cf_print = cf_print
    cf_hook = cf_hook
    arr = arr
    str = str
    iter = iter
    good = good
    bad = bad
    wide = wide
    lazy = lazy
    odd = odd
    ty_class = ty_class
    ty_number = ty_number
    Function <- MC_Function
    Array <- MC_Array
    String <- MC_String
    Struct <- MC_Struct
    Iterator <- MC_Iterator
    TypeValue <- MC_TypeValue
    Half = 16
    Addr <- MC_Addr
    Name <- MC_Name
    Security <- MC_Security
    Func <- MC_Func
    Code <- MC_Code
    Depth <- MC_Depth
    Method <- MC_Method
    IsInstance <- MC_IsInstance
    Stored <- MC_Stored
    Garbage <- MC_Garbage
    CReturns <- MC_CReturns
    CRaises <- MC_CRaises
    CInvokes <- MC_CInvokes
    HostCalls <- Host_Errors
    MaxLeft = 1
    MaxFrames = 4
    MaxData = 5
    MaxCalls = 3
CHECK_DEADLOCK FALSE
INVARIANTS
    TypeOK
    ActsNested
    AccessNarrows
    NoUnderflow
PROPERTIES
    CallersKept
    FrameStack
