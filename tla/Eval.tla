-------------------------------- MODULE Eval --------------------------------
(***************************************************************************)
(* The evaluator of eval.cpp: System::Invoke and the machine it drives, a  *)
(* stack of frames, one data stack shared by all of them, and a run state. *)
(*                                                                         *)
(* Invoke is re-entrant.  A script value converted to a string or an int   *)
(* runs its toString or toInt method in a nested Invoke, and a C function  *)
(* may call Invoke too, so several C++ activations of Invoke can be alive, *)
(* all on the same two stacks and the same state.  `calls' is the C++ call *)
(* stack: one record per activation, with the place where it stands.       *)
(*                                                                         *)
(* Abstracted: the contents of strings, arrays and structs.  Objects are   *)
(* model values, sorted by type; an element, member or iterated value is   *)
(* any value of Stored.  Code is a sequence of instructions with absolute  *)
(* jump targets rather than words with relative ones.                      *)
(***************************************************************************)
EXTENDS Integers, Sequences, SequencesExt, FiniteSetsExt, Bytecode

CONSTANTS
    Nil,                            \* the NULL value
    Function, Array, String,        \* the objects, by type
    Struct, Iterator, TypeValue,
    Half,                           \* Number is -Half .. Half - 1
    Addr,                           \* a pointer read as a number, per object
    Name,                           \* method and member names
    toString, toInt,                \* the two names value.cpp looks up
    NoMethod,                       \* GetMethod's NULL
    Security,                       \* the bits of a SecurityLevel
    Func,                           \* Function -> its fields
    Code,                           \* Function -> its instructions
    Depth,                          \* Function -> operands before each of them
    Method,                         \* value -> name -> function or NoMethod
    IsInstance,                     \* type value -> the values IsA accepts
    Stored,                         \* what arrays, structs, iterators yield
    Garbage,                        \* what a read under the data stack yields
    CReturns, CRaises, CInvokes,    \* what each C function may do
    HostCalls,                      \* what the embedding program invokes
    MaxLeft,                        \* bound: frames on the stack when the host
                                    \* invokes, left by its earlier calls
    MaxFrames, MaxData, MaxCalls    \* bounds on the stacks when a C function
                                    \* invokes or raises, and the host invokes

Number == -Half .. Half - 1
Object == Function \cup Array \cup String \cup Struct \cup Iterator \cup TypeValue
Value  == {Nil} \cup Number \cup Object

(* The error codes in use; the type of a run-time error is its number.     *)
SXE_OK        == 0
SXE_BADTYPE   == 2
SXE_UNDEFINED == 3
SXE_NILCALL   == 4
SXE_BADARGS   == 12
SXE_EXISTS    == 13
SXE_DIVZERO   == 14
Error == {SXE_BADTYPE, SXE_UNDEFINED, SXE_NILCALL, SXE_BADARGS, SXE_EXISTS,
          SXE_DIVZERO}

(* The sx_state_type codes, for the ones that Invoke returns as an error.  *)
STATE_RUNNING == 1
STATE_FAILED  == 3

YIELDED == -1           \* `raised' when the first thing to go wrong is a yield

VARIABLES
    frames,             \* the frame stack
    data_stack,         \* the data stack
    state,              \* READY, RUNNING or FAILED
    calls,              \* the activations of Invoke, innermost last
    result,             \* return code and *retval of the last one to return
    crashed,            \* undefined behaviour or an uncaught exception
    raised              \* history: the last error raised, YIELDED, or 0

vars == <<frames, data_stack, state, calls, result, crashed, raised>>

-----------------------------------------------------------------------------
(* Values *)

(* Mutant: no bit is lost.                                                 *)
CreateWide(i) == i

(* Number::Create shifts left by one and loses the top bit.                *)
Create(i) == ((i + Half) % (2 * Half)) - Half

(* Number::ToInt looks at no type: a pointer becomes a number, NULL is 0.  *)
ToInt(v) == IF v = Nil THEN 0 ELSE IF v \in Object THEN Addr[v] ELSE v

Truth(b) == IF b THEN 1 ELSE 0

(* Value::True; a string or an array is true unless it is empty.           *)
IsTrue(v) == IF v = Nil THEN {FALSE}
             ELSE IF v \in Number THEN {v # 0}
             ELSE IF v \in String \cup Array THEN BOOLEAN
             ELSE {TRUE}

(* Value::Equal: identity, and contents for two strings.                   *)
AreEqual(a, b) == IF a = b THEN {TRUE}
                  ELSE IF a \in String /\ b \in String THEN BOOLEAN
                  ELSE {FALSE}

(* Value::Compare: nil below all else, a number against anything by value, *)
(* a string below other types, any other object above what it is not.      *)
Comparison(a, b) ==
    IF a = b THEN {0}
    ELSE IF a = Nil THEN {-1}
    ELSE IF b = Nil THEN {1}
    ELSE IF a \in Number THEN {IF a < ToInt(b) THEN -1 ELSE 1}
    ELSE IF a \in String THEN IF b \in String THEN {-1, 0, 1} ELSE {-1}
    ELSE {1}

(* TypeOf and GetMethod; nil has no type.                                  *)
MethodOf(v, m) == IF v = Nil THEN NoMethod ELSE Method[v][m]

(* A fresh object: which one does not matter, only its type does.          *)
Some(S) == CHOOSE v \in S : TRUE

-----------------------------------------------------------------------------
(* Instructions *)

(* arg: the value of PUSH or the name of METHOD; n: a count, a variable, a *)
(* distance or the target of a jump.                                       *)
Instruction == [op : Opcode, arg : Value \cup Name, n : Nat]

(* What the compiler owes: every script function has code, at least the    *)
(* PUSH that Compile adds, and a TYPECAST comes right after the PUSH of    *)
(* its type.                                                               *)
WellFormed(f) ==
    /\ Func[f].cfunc <=> Code[f] = <<>>
    /\ Func[f].varc >= Func[f].argc + (IF Func[f].varg THEN 1 ELSE 0)
    /\ \A p \in DOMAIN Code[f] :
         LET i == Code[f][p]
         IN  /\ i.op = "PUSH" => i.arg \in Value
             /\ i.op = "METHOD" => i.arg \in Name
             /\ i.op \in {"LOOKUP", "ASSIGN", "ITER"} => i.n \in 1 .. Func[f].varc
             /\ i.op = "COPY" => i.n > 0
             /\ i.op = "TYPECAST" => /\ p > 1 /\ Code[f][p - 1].op = "PUSH"
                                     /\ Code[f][p - 1].arg \in TypeValue
             /\ \A q \in Target(i) \cap DOMAIN Code[f] : Code[f][q].op # "TYPECAST"
             /\ Target(i) \subseteq 1 .. Len(Code[f]) + 1

BalancedCode == \A f \in Function : Balanced(Code[f], Depth[f])

ASSUME HalfAssumption == Half \in Nat /\ Half > SXE_DIVZERO
ASSUME ObjectAssumption ==
    /\ Array # {} /\ String # {} /\ Iterator # {} /\ Struct # {}
    /\ Nil \notin Object \cup Number
    /\ Object \cap Number = {}
    /\ Addr \in [Object -> Number \ {0}]
ASSUME FuncAssumption ==
    Func \in [Function -> [argc : Nat, varc : Nat, varg : BOOLEAN,
                           cfunc : BOOLEAN, access : SUBSET Security]]
ASSUME MethodAssumption ==
    /\ {toString, toInt} \subseteq Name
    /\ NoMethod \notin Function
    /\ Method \in [Number \cup Object -> [Name -> Function \cup {NoMethod}]]
    /\ IsInstance \in [TypeValue -> SUBSET Value]
ASSUME CodeAssumption ==
    \A f \in Function : /\ Code[f] \in Seq(Instruction)
                        /\ WellFormed(f)
ASSUME HostAssumption ==
    /\ Stored \subseteq Value /\ Garbage \subseteq Value
    /\ Stored # {} /\ Garbage # {}
    /\ \A f \in Function : Func[f].cfunc => /\ CReturns[f] \subseteq Value
                                            /\ CReturns[f] # {}
                                            /\ CRaises[f] \subseteq Error
                                            /\ \A h \in CInvokes[f] :
                                                 /\ h.func \in Function
                                                 /\ h.args \in Seq(Value)
    /\ \A h \in HostCalls : h.func \in Function /\ h.args \in Seq(Value)
ASSUME BoundAssumption == {MaxLeft, MaxFrames, MaxData, MaxCalls} \subseteq Nat

-----------------------------------------------------------------------------
(* The two stacks *)

(* std::vector::resize: a shorter vector, or one grown with NULLs.         *)
Resize(s, n) == [k \in 1 .. n |-> IF k <= Len(s) THEN s[k] ELSE Nil]

Drop(n)  == SubSeq(data_stack, 1, Len(data_stack) - n)      \* PopValue(n)
Peek(n)  == data_stack[Len(data_stack) - n + 1]             \* GetValue(n)
Top      == Peek(1)                                         \* GetValue()

(***************************************************************************)
(* The data stack after PopFrame on every frame above the n-th: each one   *)
(* resizes it to that frame's top, cutting it or growing it with NULLs.    *)
(***************************************************************************)
Unwound(s, n) ==
    IF Len(frames) <= n THEN s
    ELSE [k \in 1 .. frames[n + 1].top |->
            IF k <= Len(s) /\ \A j \in n + 1 .. Len(frames) : k <= frames[j].top
            THEN s[k] ELSE Nil]

(* The frames that are left then.                                          *)
Below(n) == SubSeq(frames, 1, IF Len(frames) < n THEN Len(frames) ELSE n)

GetFrame == frames[Len(frames)]
Instr    == Code[GetFrame.func][GetFrame.op_ptr]

(* Arguments, then the array of the extra ones, then nil variables.        *)
Items(f, args) ==
    IF Func[f].cfunc THEN args
    ELSE [k \in 1 .. Func[f].varc |->
            IF k <= Func[f].argc THEN args[k]
            ELSE IF Func[f].varg /\ k = Func[f].argc + 1 /\ Code[f] # <<>>
                 THEN Some(Array)
            ELSE Nil]

(* Mutant: the rights are the function's own.                              *)
NewFrameUnmasked(f, args, top) ==
    [func |-> f, items |-> Items(f, args), op_ptr |-> 1, top |-> top,
     argc |-> Len(args), flag |-> FALSE, access |-> Func[f].access]

(* The frame PushFrame makes; its rights are masked by the caller's.       *)
NewFrame(f, args, top) ==
    [func |-> f, items |-> Items(f, args), op_ptr |-> 1, top |-> top,
     argc |-> Len(args), flag |-> FALSE,
     access |-> IF frames = <<>> THEN Func[f].access
                ELSE Func[f].access \cap GetFrame.access]

(* Mutant: a jump that counts its own two words too.                       *)
JumpedShort(n) == [frames EXCEPT ![Len(frames)].op_ptr = n - 2]

Advanced     == [frames EXCEPT ![Len(frames)].op_ptr = @ + 1]
Jumped(n)    == [frames EXCEPT ![Len(frames)].op_ptr = n]
Flagged(b)   == [Advanced EXCEPT ![Len(frames)].flag = b]
Assigned(n, v) == [Advanced EXCEPT ![Len(frames)].items[n] = v]

-----------------------------------------------------------------------------
(* The activations of Invoke *)

(***************************************************************************)
(* pc: loop     at run_code, or at the head of the loop around it          *)
(*     exec     inside the instruction loop of the top frame               *)
(*     cfunc    inside a C function                                        *)
(*     others   inside the conversion of an operand, ToString or ToInt     *)
(* ft: frame_top, the height of frames with its own first one.             *)
(* value: the local variable that outlives the call: the array of an index *)
(*        operation, or the C function being run.                          *)
(***************************************************************************)
Converting == {"concat1", "concat2", "string", "int", "index", "setindex"}
Location   == {"loop", "exec", "cfunc"} \cup Converting

NoResult == [err |-> SXE_OK, val |-> Nil]      \* an Invoke is under way

Act == calls[Len(calls)]
At(p) == crashed = "no" /\ calls # <<>> /\ Act.pc = p
Goto(p) == [calls EXCEPT ![Len(calls)].pc = p]
GotoWith(p, v) == [calls EXCEPT ![Len(calls)].pc = p, ![Len(calls)].value = v]

(* Mutant: the code is not pushed.                                         *)
RaiseNoPush(s, err) == /\ data_stack' = s
                       /\ state' = "FAILED"
                       /\ raised' = err

(* RaiseError: the code goes on the data stack and the run state fails.    *)
Raise(s, err) == /\ data_stack' = Append(s, err)
                 /\ state' = "FAILED"
                 /\ raised' = err

Crash(how) == /\ crashed' = how
              /\ UNCHANGED <<frames, data_stack, state, calls, result, raised>>

(***************************************************************************)
(* Invoke(f, args): PushFrame, then the prologue.  With too few arguments  *)
(* PushFrame raises, naming the function's file: a C function has none.    *)
(* The caller's frames, data and calls go on as fs, s and cs.              *)
(***************************************************************************)
Enter(f, args, fs, s, cs) ==
    \/ /\ Len(args) >= Func[f].argc
       /\ frames' = Append(fs, NewFrame(f, args, Len(s)))
       /\ data_stack' = s
       /\ state' = "RUNNING"
       /\ calls' = Append(cs, [pc |-> "loop", ft |-> Len(fs) + 1, value |-> Nil])
       /\ result' = NoResult
       /\ UNCHANGED <<crashed, raised>>
    \/ /\ Len(args) < Func[f].argc
       /\ ~Func[f].cfunc
       /\ frames' = fs
       /\ Raise(s, SXE_BADARGS)
       /\ calls' = cs
       /\ result' = [result EXCEPT !.err = STATE_FAILED]
       /\ UNCHANGED crashed
    \/ /\ Len(args) < Func[f].argc
       /\ Func[f].cfunc
       /\ Crash("arity")

(***************************************************************************)
(* Value::ToString(v) and Value::ToInt(v), with type T and method m: the   *)
(* value itself when it is a T, else what its method returns, which takes  *)
(* a nested Invoke.  The activation waits at p.                            *)
(***************************************************************************)
Convert(v, T, m, fs, s, cs) ==
    \/ /\ v \in T \/ MethodOf(v, m) = NoMethod
       /\ frames' = fs
       /\ data_stack' = s
       /\ calls' = cs
       /\ result' = IF v \in T THEN [err |-> SXE_OK, val |-> v]
                    ELSE [err |-> IF v = Nil THEN SXE_NILCALL ELSE SXE_UNDEFINED,
                          val |-> Nil]
       /\ UNCHANGED <<state, crashed, raised>>
    \/ /\ v \notin T
       /\ MethodOf(v, m) # NoMethod
       /\ Enter(MethodOf(v, m), <<v>>, fs, s, cs)

(* What the conversion hands back: nil unless it went well and gave a T.   *)
Converted(T) == IF result.err = SXE_OK /\ result.val \in T THEN result.val ELSE Nil

(* The host calls Invoke(Function*, ...).                                  *)
HostInvoke ==
    /\ crashed = "no"
    /\ calls = <<>>
    /\ Len(frames) <= MaxLeft
    /\ Len(data_stack) < MaxData
    /\ \E h \in HostCalls : Enter(h.func, h.args, frames, data_stack, calls)

(* run_code, on a script function: into the instruction loop.              *)
RunScript ==
    /\ At("loop")
    /\ Len(frames) >= Act.ft
    /\ state = "RUNNING"
    /\ ~Func[GetFrame.func].cfunc
    /\ calls' = Goto("exec")
    /\ UNCHANGED <<frames, data_stack, state, result, crashed, raised>>

(* run_code, on a C function: it is called.                                *)
RunCFunction ==
    /\ At("loop")
    /\ Len(frames) >= Act.ft
    /\ state = "RUNNING"
    /\ Func[GetFrame.func].cfunc
    /\ calls' = GotoWith("cfunc", GetFrame.func)
    /\ UNCHANGED <<frames, data_stack, state, result, crashed, raised>>

(* The code of the top frame is at its end: its last operand is returned.  *)
ReturnFrame ==
    /\ At("exec")
    /\ GetFrame.op_ptr > Len(Code[GetFrame.func])
    /\ \E ret \in IF data_stack = <<>> THEN Garbage ELSE {Top} :
          data_stack' = Append(Resize(data_stack, GetFrame.top), ret)
    /\ frames' = Front(frames)
    /\ calls' = Goto("loop")
    /\ UNCHANGED <<state, result, crashed, raised>>

(* Mutant: the return value is read but not popped.                        *)
EpilogueNoPop ==
    /\ data_stack # <<>>
    /\ LET rest == Unwound(data_stack, Act.ft)
       IN  /\ data_stack' = rest
           /\ result' = [err |-> IF state = "FAILED" THEN ToInt(Last(rest)) ELSE SXE_OK,
                         val |-> Top]
    /\ frames' = Below(Act.ft)
    /\ calls' = Front(calls)
    /\ UNCHANGED <<state, crashed, raised>>

(* Mutant: the frames are popped down to one under frame_top - 1.          *)
EpilogueGreedy ==
    /\ data_stack # <<>>
    /\ LET n == IF Act.ft < 2 THEN 0 ELSE Act.ft - 2
       IN  /\ frames' = Below(n)
           /\ data_stack' = Unwound(Drop(1), n)
    /\ result' = [err |-> SXE_OK, val |-> Top]
    /\ calls' = Front(calls)
    /\ UNCHANGED <<state, crashed, raised>>

(***************************************************************************)
(* The loop of Invoke is over, by its own condition or because the state   *)
(* is not RUNNING: the epilogue.  It takes the return value off the data   *)
(* stack, pops the frames above frame_top, and if the state is FAILED      *)
(* takes the error code from what is then on top of the data stack.        *)
(***************************************************************************)
Epilogue ==
    /\ data_stack # <<>>
    /\ LET rest == Unwound(Drop(1), Act.ft)
       IN  /\ data_stack' = rest
           /\ \E top \in IF rest = <<>> THEN Garbage ELSE {Last(rest)} :
                result' = [err |-> IF state = "FAILED" THEN ToInt(top) ELSE SXE_OK,
                           val |-> Top]
    /\ frames' = Below(Act.ft)
    /\ calls' = Front(calls)
    /\ UNCHANGED <<state, crashed, raised>>

LoopOver == At("loop") /\ (Len(frames) < Act.ft \/ state # "RUNNING")

Finish == LoopOver /\ Epilogue

(* The epilogue on an empty data stack: std::vector::resize(-1) throws.    *)
FinishEmpty == LoopOver /\ data_stack = <<>> /\ Crash("empty")

-----------------------------------------------------------------------------
(* C functions: what they do is the host's, how it lands here is Invoke's. *)

(* A C function calls RaiseError and goes on.                              *)
CRaise ==
    /\ At("cfunc")
    /\ Len(data_stack) < MaxData
    /\ \E err \in CRaises[Act.value] : Raise(data_stack, err)
    /\ UNCHANGED <<frames, calls, result, crashed>>

(* A C function calls Invoke.                                              *)
CInvoke ==
    /\ At("cfunc")
    /\ Len(calls) < MaxCalls
    /\ Len(frames) < MaxFrames
    /\ Len(data_stack) < MaxData
    /\ \E h \in CInvokes[Act.value] :
          Enter(h.func, h.args, frames, data_stack, calls)

(* It returns: PopFrame takes the top frame, whichever that is by now.     *)
CReturn ==
    /\ At("cfunc")
    /\ \E ret \in CReturns[Act.value] :
          data_stack' = Append(Resize(data_stack, GetFrame.top), ret)
    /\ frames' = Front(frames)
    /\ calls' = Goto("loop")
    /\ UNCHANGED <<state, result, crashed, raised>>

-----------------------------------------------------------------------------
(* The instruction loop.  It does not look at the run state.               *)

Ready == /\ At("exec")
         /\ GetFrame.op_ptr <= Len(Code[GetFrame.func])

(* The next instruction is op, and the data stack holds what it reads.     *)
Op(op) == /\ Ready
          /\ Instr.op = op
          /\ Len(data_stack) >= Needs(Instr)

(* It replaces n operands by the values vs, or by an error.                *)
Replace(n, vs) ==
    /\ data_stack' = Drop(n) \o vs
    /\ frames' = Advanced
    /\ UNCHANGED <<state, calls, result, crashed, raised>>

Fail(n, err) ==
    /\ Raise(Drop(n), err)
    /\ frames' = Advanced
    /\ UNCHANGED <<calls, result, crashed>>

(* It only changes the top frame.                                          *)
Reframe(fs) ==
    /\ frames' = fs
    /\ UNCHANGED <<data_stack, state, calls, result, crashed, raised>>

(* An instruction on a data stack that does not hold its operands, or a    *)
(* TYPECAST to what is not a type, is undefined behaviour.                 *)
Underflow ==
    /\ Ready
    /\ \/ Len(data_stack) < Needs(Instr)
       \/ Instr.op = "TYPECAST" /\ Top \notin TypeValue
    /\ Crash("underflow")

OpPush == Op("PUSH") /\ Replace(0, <<Instr.arg>>)

OpArithmetic ==
    \E op \in Arithmetic :
       /\ Op(op)
       /\ LET a == ToInt(Peek(2))
              b == ToInt(Top)
          IN  Replace(2, <<Create(CASE op = "ADD" -> a + b
                                    [] op = "SUBTRACT" -> a - b
                                    [] op = "MULTIPLY" -> a * b)>>)

OpDivide ==
    /\ Op("DIVIDE")
    /\ \/ ToInt(Top) = 0 /\ Fail(2, SXE_DIVZERO)
       \/ /\ ToInt(Top) # 0
          /\ Replace(2, <<Create(Quotient(ToInt(Peek(2)), ToInt(Top)))>>)

OpNegate == Op("NEGATE") /\ Replace(1, <<Create(-ToInt(Top))>>)

OpNot == Op("NOT") /\ \E b \in IsTrue(Top) : Replace(1, <<Truth(~b)>>)

OpRelational ==
    \E op \in Relational :
       /\ Op(op)
       /\ \E c \in Comparison(Peek(2), Top) :
             Replace(2, <<Truth(CASE op = "GT"  -> c > 0
                                  [] op = "LT"  -> c < 0
                                  [] op = "GTE" -> c >= 0
                                  [] op = "LTE" -> c <= 0)>>)

OpEqual ==
    \E op \in {"EQUAL", "NEQUAL"} :
       /\ Op(op)
       /\ \E b \in AreEqual(Peek(2), Top) :
             Replace(2, <<Truth(IF op = "EQUAL" THEN b ELSE ~b)>>)

OpLookup == Op("LOOKUP") /\ Replace(0, <<GetFrame.items[Instr.n]>>)

OpAssign == Op("ASSIGN") /\ Reframe(Assigned(Instr.n, Top))

OpPop == Op("POP") /\ Replace(1, <<>>)

OpCopy == Op("COPY") /\ Replace(0, <<Peek(Instr.n)>>)

OpTest == Op("TEST") /\ \E b \in IsTrue(Top) : Reframe(Flagged(b))

OpJump == \/ Op("JUMP") /\ Reframe(Jumped(Instr.n))
          \/ /\ Op("TJUMP")
             /\ Reframe(IF GetFrame.flag THEN Jumped(Instr.n) ELSE Advanced)
          \/ /\ Op("FJUMP")
             /\ Reframe(IF GetFrame.flag THEN Advanced ELSE Jumped(Instr.n))

OpNewArray == Op("NEWARRAY") /\ Replace(Instr.n, <<Some(Array)>>)

OpIn ==
    /\ Op("IN")
    /\ \/ /\ Peek(2) \in Array
          /\ \E found \in {1, Nil} : Replace(2, <<found>>)
       \/ Peek(2) \notin Array /\ Fail(2, SXE_BADTYPE)

OpGetMember ==
    /\ Op("GET_MEMBER")
    /\ \/ Top \in Struct /\ \E v \in Stored \cup {Nil} : Replace(1, <<v>>)
       \/ Top \notin Struct /\ Fail(1, SXE_BADTYPE)

(* It leaves the object, not the value, on the stack.                      *)
OpSetMember ==
    /\ Op("SET_MEMBER")
    /\ \/ Peek(2) \in Struct /\ Replace(1, <<>>)
       \/ Peek(2) \notin Struct /\ Fail(2, SXE_BADTYPE)

OpNew ==
    /\ Op("NEW")
    /\ \/ Top \in TypeValue /\ \E v \in {Nil, Some(Struct)} : Replace(1, <<v>>)
       \/ Top \notin TypeValue /\ Fail(1, SXE_BADTYPE)

OpTypeCast ==
    /\ Op("TYPECAST")
    /\ Top \in TypeValue
    /\ \/ Peek(2) \in IsInstance[Top] /\ Replace(1, <<>>)
       \/ Peek(2) \notin IsInstance[Top] /\ Replace(2, <<Nil>>)

(* foreach: an array on the stack becomes an iterator the first time; the  *)
(* flag tells the FJUMP that follows whether there was a next value.       *)
OpIter ==
    /\ Op("ITER")
    /\ \/ Top = Nil /\ Reframe(Flagged(FALSE))
       \/ /\ Top \in Iterator \cup Array
          /\ data_stack' = Append(Drop(1),
                                  IF Top \in Array THEN Some(Iterator) ELSE Top)
          /\ \/ frames' = Flagged(FALSE)
             \/ \E v \in Stored :
                   frames' = [Assigned(Instr.n, v)
                                EXCEPT ![Len(frames)].flag = TRUE]
          /\ UNCHANGED <<state, calls, result, crashed, raised>>
       \/ Top \notin {Nil} \cup Iterator \cup Array /\ Fail(1, SXE_BADTYPE)

(* Mutant: the arguments stay under the frame, as if they came in argv.    *)
CallOnStackKeep(f, n, s) ==
    /\ n >= Func[f].argc
    /\ frames' = Append(Advanced, NewFrame(f, SubSeq(s, Len(s) - n + 1, Len(s)),
                                           Len(s)))
    /\ data_stack' = s
    /\ calls' = Goto("loop")
    /\ UNCHANGED <<state, result, crashed, raised>>

(***************************************************************************)
(* The call of a script or C function with n arguments on the stack s.     *)
(* The result of PushFrame is not looked at: with too few arguments the    *)
(* error it raised stays above the arguments.  Then to run_code.           *)
(***************************************************************************)
CallOnStack(f, n, s) ==
    \/ /\ n >= Func[f].argc
       /\ frames' = Append(Advanced, NewFrame(f, SubSeq(s, Len(s) - n + 1, Len(s)),
                                              Len(s) - n))
       /\ data_stack' = s
       /\ calls' = Goto("loop")
       /\ UNCHANGED <<state, result, crashed, raised>>
    \/ /\ n < Func[f].argc
       /\ ~Func[f].cfunc
       /\ frames' = Advanced
       /\ Raise(s, SXE_BADARGS)
       /\ calls' = Goto("loop")
       /\ UNCHANGED <<result, crashed>>
    \/ /\ n < Func[f].argc
       /\ Func[f].cfunc
       /\ Crash("arity")

OpInvoke ==
    /\ Op("INVOKE")
    /\ \/ Top \in Function /\ CallOnStack(Top, Instr.n, Drop(1))
       \/ Top \notin Function /\ Fail(Instr.n + 1, SXE_BADTYPE)

OpMethod ==
    /\ Op("METHOD")
    /\ LET self == Peek(Instr.n + 1)
       IN  \/ self = Nil /\ Fail(Instr.n + 1, SXE_NILCALL)
           \/ /\ self # Nil
              /\ MethodOf(self, Instr.arg) = NoMethod
              /\ Fail(Instr.n + 1, SXE_UNDEFINED)
           \/ /\ MethodOf(self, Instr.arg) # NoMethod
              /\ CallOnStack(MethodOf(self, Instr.arg), Instr.n + 1, data_stack)

(* `return state': no epilogue, the frames and the data stay as they are.  *)
OpYield ==
    /\ Op("YIELD")
    /\ frames' = Advanced
    /\ calls' = Front(calls)
    /\ result' = [result EXCEPT !.err = IF state = "FAILED" THEN STATE_FAILED
                                        ELSE STATE_RUNNING]
    /\ raised' = IF raised = 0 THEN YIELDED ELSE raised
    /\ UNCHANGED <<data_stack, state, crashed>>

-----------------------------------------------------------------------------
(* Instructions that convert an operand first: the instruction up to the   *)
(* conversion, and what it does with the outcome once that has returned.   *)

(* The second operand is read again after the first has been converted.    *)
OpConcat ==
    /\ Op("CONCAT")
    /\ Convert(Peek(2), String, toString, Advanced, data_stack, Goto("concat1"))

ConcatSecond ==
    /\ At("concat1")
    /\ Len(data_stack) >= 2
    /\ \/ /\ Converted(String) = Nil
          /\ data_stack' = Append(Drop(2), Nil)
          /\ calls' = Goto("exec")
          /\ UNCHANGED <<frames, state, result, crashed, raised>>
       \/ /\ Converted(String) # Nil
          /\ Convert(Top, String, toString, frames, data_stack, Goto("concat2"))

ConcatEnd ==
    /\ At("concat2")
    /\ Len(data_stack) >= 2
    /\ data_stack' = Append(Drop(2), IF Converted(String) = Nil THEN Nil
                                     ELSE Some(String))
    /\ calls' = Goto("exec")
    /\ UNCHANGED <<frames, state, result, crashed, raised>>

(* The casts pop their operand before they convert it.                     *)
OpCast ==
    \/ /\ Op("STRINGCAST")
       /\ Convert(Top, String, toString, Advanced, Drop(1), Goto("string"))
    \/ /\ Op("INTCAST")
       /\ Convert(Top, Number, toInt, Advanced, Drop(1), Goto("int"))

CastEnd ==
    /\ \/ At("string") /\ data_stack' = Append(data_stack, Converted(String))
       \/ At("int")    /\ data_stack' = Append(data_stack, Converted(Number))
    /\ calls' = Goto("exec")
    /\ UNCHANGED <<frames, state, result, crashed, raised>>

(* The array is read before the conversion of the index and used after it. *)
OpIndex ==
    \/ /\ Op("INDEX")
       /\ Convert(Top, Number, toInt, Advanced, data_stack,
                  GotoWith("index", Peek(2)))
    \/ /\ Op("SETINDEX")
       /\ Convert(Peek(2), Number, toInt, Advanced, data_stack,
                  GotoWith("setindex", Peek(3)))

(* An element, or nil of an empty array; for SETINDEX the value stored,    *)
(* read only now.                                                          *)
IndexEnd ==
    \E p \in {"index", "setindex"} :
       LET n == IF p = "index" THEN 2 ELSE 3
       IN  /\ At(p)
           /\ Len(data_stack) >= n
           /\ calls' = Goto("exec")
           /\ \/ /\ Act.value \in Array
                 /\ \E v \in IF p = "index" THEN Stored \cup {Nil} ELSE {Top, Nil} :
                       data_stack' = Append(Drop(n), v)
                 /\ UNCHANGED <<state, raised>>
              \/ /\ Act.value \notin Array
                 /\ Raise(Drop(n), SXE_BADTYPE)
           /\ UNCHANGED <<frames, result, crashed>>

(* The operands are gone when the conversion returns.                      *)
ConvertUnderflow ==
    /\ \E p \in Converting \ {"string", "int"} :
          At(p) /\ Len(data_stack) < (IF p = "setindex" THEN 3 ELSE 2)
    /\ Crash("underflow")

-----------------------------------------------------------------------------
(* The machine *)

Init ==
    /\ frames = <<>>
    /\ data_stack = <<>>
    /\ state \in {"READY", "RUNNING", "FAILED"}     \* not set by the constructor
    /\ calls = <<>>
    /\ result = NoResult
    /\ crashed = "no"
    /\ raised = 0

Simple == \/ OpPush \/ OpArithmetic \/ OpDivide \/ OpNegate \/ OpNot
          \/ OpRelational \/ OpEqual \/ OpLookup \/ OpAssign \/ OpPop \/ OpCopy
          \/ OpTest \/ OpJump \/ OpNewArray \/ OpIn \/ OpGetMember \/ OpSetMember
          \/ OpNew \/ OpTypeCast \/ OpIter

Calling == OpInvoke \/ OpMethod \/ OpYield

Conversion == \/ OpConcat \/ ConcatSecond \/ ConcatEnd
              \/ OpCast \/ CastEnd
              \/ OpIndex \/ IndexEnd

Control == \/ RunScript \/ RunCFunction \/ ReturnFrame \/ Finish \/ FinishEmpty
           \/ Underflow \/ ConvertUnderflow

Step == Simple \/ Calling \/ Conversion \/ Control

CFunction == CRaise \/ CInvoke \/ CReturn

Next == HostInvoke \/ Step \/ CFunction

Spec == Init /\ [][Next]_vars

(***************************************************************************)
(* One thread runs the machine, so it takes its next step, and a C         *)
(* function does return in the end.  The host owes nothing.                *)
(***************************************************************************)
Fairness == WF_vars(Step) /\ SF_vars(CReturn)

FairSpec == Spec /\ Fairness

-----------------------------------------------------------------------------
(* Properties *)

Frame == [func : Function, items : Seq(Value), op_ptr : Nat \ {0}, top : Nat,
          argc : Nat, flag : BOOLEAN, access : SUBSET Security]

Activation == [pc : Location, ft : Nat \ {0}, value : Value]

(* Every variable has its type.                                            *)
TypeOK ==
    /\ frames \in Seq(Frame)
    /\ data_stack \in Seq(Value)
    /\ state \in {"READY", "RUNNING", "FAILED"}
    /\ calls \in Seq(Activation)
    /\ result \in [err : Int, val : Value]
    /\ crashed \in {"no", "arity", "underflow", "empty"}
    /\ raised \in Error \cup {0, YIELDED}

(***************************************************************************)
(* An activation that is not at the head of its loop has a frame of its    *)
(* own under way, and the marks of nested activations grow with the stack. *)
(***************************************************************************)
ActsNested ==
    /\ \A i, j \in 1 .. Len(calls) : i < j => calls[i].ft < calls[j].ft
    /\ \A i \in 1 .. Len(calls) - 1 : calls[i].pc \notin {"loop", "exec"}
    /\ calls # <<>> => Len(frames) >= IF Act.pc = "loop" THEN Act.ft - 1 ELSE Act.ft

(***************************************************************************)
(* A frame never has a right that its function, or any frame under it,     *)
(* lacks (PushFrame's mask, eval.cpp:104-106), even among frames that      *)
(* failed activations left behind.                                         *)
(***************************************************************************)
AccessNarrows ==
    \A j \in 1 .. Len(frames) :
       /\ frames[j].access \subseteq Func[frames[j].func].access
       /\ \A i \in 1 .. j : frames[j].access \subseteq frames[i].access

(***************************************************************************)
(* No step of an activation, its end included, changes a frame that was on *)
(* the stack when it began, although PopFrame always takes the top frame.  *)
(***************************************************************************)
CallersKept ==
    [][calls # <<>> =>
         /\ Len(frames') >= Act.ft - 1
         /\ \A k \in 1 .. Act.ft - 1 : frames'[k] = frames[k]]_vars

(***************************************************************************)
(* The operands that frame k holds between two instructions, the arguments *)
(* it was called with from the stack and a return value on its way to an   *)
(* Invoke's epilogue not counted.                                          *)
(***************************************************************************)
IsRoot(k) == \E a \in 1 .. Len(calls) : calls[a].ft = k
Returning == calls # <<>> /\ Act.ft > Len(frames)
Operands(k) ==
    (IF k < Len(frames) THEN frames[k + 1].top
     ELSE Len(data_stack) - (IF Returning THEN 1 ELSE 0))
    - frames[k].top
    - (IF IsRoot(k) THEN 0 ELSE frames[k].argc)

(***************************************************************************)
(* How many more operands the code says frame k has: a call in progress    *)
(* has taken its arguments and not delivered its result, and a conversion  *)
(* may still have its operands on the stack.                               *)
(***************************************************************************)
Owed(k) ==
    LET a == Max({b \in 1 .. Len(calls) : calls[b].ft <= k})
    IN  IF k < Len(frames) /\ ~IsRoot(k + 1) THEN 1
        ELSE CASE calls[a].pc \in {"string", "int"} -> 1
               [] calls[a].pc \in {"concat1", "concat2", "index"} -> -1
               [] calls[a].pc = "setindex" -> -2
               [] OTHER -> 0

(***************************************************************************)
(* As long as nothing was raised and nothing yielded, every frame of every *)
(* activation has exactly the operands its code says, or at its end at     *)
(* least the one it returns: nothing of what a caller keeps on the shared  *)
(* data stack is taken or added to by what it calls.                       *)
(***************************************************************************)
OperandsMatch ==
    (BalancedCode /\ raised = 0 /\ crashed = "no") =>
       \A k \in 1 .. Len(frames) :
          LET f == frames[k].func
              n == Operands(k) + Owed(k)
          IN  IF Func[f].cfunc THEN Operands(k) = 0
              ELSE IF frames[k].op_ptr <= Len(Code[f])
                   THEN n = Depth[f][frames[k].op_ptr]
              ELSE n >= 1

(***************************************************************************)
(* Balanced code never finds too few operands on the data stack, whatever  *)
(* errors, yields and left-over frames there have been; and the epilogue   *)
(* of Invoke finds its return value unless an error or a yield came first. *)
(***************************************************************************)
NoUnderflow ==
    BalancedCode => /\ crashed # "underflow"
                    /\ raised = 0 => crashed # "empty"

(***************************************************************************)
(* When the host's Invoke has returned and nothing went wrong so far, both *)
(* stacks are empty again and the code returned is SXE_OK.                 *)
(***************************************************************************)
CleanReturn ==
    (BalancedCode /\ calls = <<>> /\ raised = 0) =>
       frames = <<>> /\ data_stack = <<>> /\ result.err = SXE_OK

(***************************************************************************)
(* Every Invoke of the host returns, or the program has crashed: no        *)
(* interleaving of nested activations, errors and leaked frames keeps the  *)
(* machine going for ever on code without loops.                           *)
(***************************************************************************)
InvokeReturns == (calls # <<>>) ~> (calls = <<>> \/ crashed # "no")

(* The frame stack is what CallStack promises.                             *)
CS == INSTANCE CallStack WITH
        stack <- [k \in 1 .. Len(frames) |-> frames[k].access],
        marks <- [k \in 1 .. Len(calls) |-> calls[k].ft]
FrameStack == CS!Spec

-----------------------------------------------------------------------------
(* What comments and error messages of the code say, which it does not do. *)

(***************************************************************************)
(* eval.cpp:561 and 569-574: an Invoke of the host that ends in the failed *)
(* state pops the frames it left early, and returns the code that was      *)
(* raised; eval.cpp:99-101: a call with too few arguments is reported.     *)
(* This asks for one of the three, of two calls one after the other.       *)
(***************************************************************************)
OneReported == crashed = "arity" => frames = <<>> \/ result.err = raised

(***************************************************************************)
(* eval.cpp:213: no instruction is executed when the state is not RUNNING; *)
(* ChangeLog:344: ++ works on any lvalue, an element of an array too.      *)
(* Either would keep the instructions of fn_post from running out of       *)
(* operands after an error.  This asks for one of the two.                 *)
(***************************************************************************)
OneHeld == crashed = "underflow" => state = "RUNNING"
=============================================================================
