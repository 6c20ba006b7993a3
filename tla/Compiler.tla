------------------------------ MODULE Compiler ------------------------------
(***************************************************************************)
(* Compiler::Compile and CompileNode: the tree of each function of a file  *)
(* becomes a sequence of words in one pass, with jumps whose distance is   *)
(* not known when they are emitted patched afterwards.                     *)
(*                                                                         *)
(* `work' is the C++ stack of CompileNode, one record per activation: the  *)
(* nodes of its list still to come, what is still to do for the node it is *)
(* at, and its local positions (pos, pos2).  What is to be done for a node *)
(* is Plan(node), a sequence of tasks; each task is an action.             *)
(*                                                                         *)
(* The files are what the grammar built.  Words are not bounded; a word is *)
(* an opcode, an operand or a value, and the buffer they go to grows by    *)
(* block_chunk.  No handler is set that refuses a function once it is      *)
(* compiled; memory is not exhausted.                                      *)
(***************************************************************************)
EXTENDS Tree, Bytecode, SequencesExt

CONSTANTS
    Nodes,                  \* the nodes of all trees
    Files,                  \* what may be loaded
    Transform(_, _),        \* what the optimizer makes of a list of nodes
    BlockChunks,            \* what the option block_chunk may be
    SystemFunctions,        \* names of the functions made public before
    SystemGlobals           \* names of the globals of the System

VARIABLES
    file,                   \* the file being compiled
    block_chunk,            \* the option; it is not set during a load
    compiled,               \* its functions that are finished, in order
    status,                 \* between functions, in a body, done, failed, overrun
    code, size,             \* the current function's words, and its buffer's size
    vars,                   \* its variables, arguments first
    work,                   \* the activations of CompileNode, innermost last
    blocks,                 \* the loops it is in, innermost last
    returns,                \* the return jumps not yet patched
    debug, last_op, last_line,  \* line information
    lines                   \* history: last_line when each word was added

(* What the grammar builds: how many children a node has, the operators,   *)
(* and files of functions with a body each.                                *)
Arity(type) ==
    CASE type \in {"MATH", "OR", "AND", "INVOKE", "LOOP", "GETINDEX", "PREOP", "POSTOP",
                   "METHOD", "IN", "SETMEMBER", "FOREACH", "CONCAT"} -> 2
      [] type \in {"IF", "SETINDEX"} -> 3
      [] type = "FOR" -> 4
      [] type \in {"NEGATE", "NOT", "DECLARE", "ASSIGN", "STATEMENT", "ARRAY", "RETURN",
                   "CAST", "NEW", "GETMEMBER", "STRINGCAST", "INTCAST"} -> 1
      [] OTHER -> 0

Operator == Arithmetic \cup Relational \cup {"DIVIDE", "EQUAL", "NEQUAL"}

ASSUME NodesAssumption ==
    /\ Nodes \subseteq [type : STRING, kids : Seq(Seq(Nodes)), name : STRING, op : STRING,
                        value : Constant, line : Nat]
    /\ \A node \in Nodes :
          /\ Len(node.kids) = Arity(node.type)
          /\ node.type \in {"MATH", "PREOP", "POSTOP"} => node.op \in Operator
          /\ node.type \in {"PREOP", "POSTOP"} => node.kids[1] # <<>>
FileType ==
    [funcs : Seq([name : STRING, args : Seq(STRING), varg : Seq(STRING),
                  body : Seq(Nodes), method : BOOLEAN]),
     globals : Seq(STRING), line : Nat]
ASSUME FilesAssumption == Files \subseteq FileType /\ BlockChunks \subseteq Nat
ASSUME TransformAssumption ==
    UNION { { Transform(f.funcs[k].body, f.line) : k \in DOMAIN f.funcs } : f \in Files }
       \subseteq Seq(Nodes)

context == <<file, block_chunk, compiled>>
buffer  == <<code, size>>
where   == <<debug, last_op, last_line>>
stacks  == <<vars, blocks, returns>>
cvars   == <<context, status, buffer, work, stacks, where, lines>>

-----------------------------------------------------------------------------
(* Words *)

Word(kind, text, n, value) == [word |-> kind, text |-> text, n |-> n, value |-> value]
Op(op)    == Word("op", op, 0, NilConst)
Arg(n)    == Word("arg", "", n, NilConst)
Name(id)  == Word("arg", id, 0, NilConst)
Push(v)   == << Op("PUSH"), Word("value", "", 0, v) >>          \* AddValue
One(op, n) == << Op(op), Arg(n) >>

-----------------------------------------------------------------------------
(* Tasks *)

Task(do) == [do |-> do, words |-> <<>>, nodes |-> <<>>, op |-> "", k |-> 0]
Emit(words)  == [Task("emit") EXCEPT !.words = words]
Sub(nodes)   == [Task("sub") EXCEPT !.nodes = nodes]     \* CompileNode
Jump(k, op)  == [Task("jump") EXCEPT !.k = k, !.op = op]     \* pos, or pos2
Land(k)      == [Task("land") EXCEPT !.k = k]            \* patch it
Leave(op)    == [Task("leave") EXCEPT !.op = op]         \* AddBreak, OnTrue, OnFalse
Again(op)    == [Task("again") EXCEPT !.op = op]
AddVar(name) == [Task("var") EXCEPT !.op = name]
PushBlock    == Task("block")
PopBlock     == Task("unblock")
AddContinue  == Task("continue")
GoEnd        == Task("return")
Refuse       == Task("fail")

Alone(op) == Emit(<<Op(op)>>)
Test      == Emit(<<Op("TEST"), Op("POP")>>)

(* The index of a variable, from 0, and -1 when there is none.             *)
GetVar(id) == SelectInSeq(vars, LAMBDA v : v = id) - 1
GetGlobal(id) == SelectInSeq(file.globals, LAMBDA v : v = id) - 1
IsFunction(id) == \E i \in DOMAIN file.funcs :
                     file.funcs[i].name = id /\ ~file.funcs[i].method

GlobalIndex(id) == Push(Const("globals", "", 0)) \o Push(Number(GetGlobal(id)))

(* A name: a variable, a function of the file, a public function, a global *)
(* of the file, a global of the System, in this order.                     *)
PlanLookup(id) ==
    IF GetVar(id) >= 0 THEN << Emit(One("LOOKUP", GetVar(id))) >>
    ELSE IF IsFunction(id) \/ id \in SystemFunctions
         THEN << Emit(Push(Const("function", id, 0))) >>
    ELSE IF GetGlobal(id) >= 0
         THEN << Emit(GlobalIndex(id) \o <<Op("INDEX")>>) >>
    ELSE IF id \in SystemGlobals THEN << Emit(Push(Const("global", id, 0))) >>
    ELSE << Refuse >>

(* Mutant: a second declaration makes a second variable.                   *)
PlanDeclareAgain(id, init) ==
    << AddVar(id), IF init # <<>> THEN Sub(init) ELSE Emit(Push(NilConst)),
       Emit(One("ASSIGN", Len(vars))) >>

(* The new variable can be named in its own initial value.                 *)
PlanDeclare(id, init) ==
    IF GetVar(id) >= 0 THEN << Refuse >>
    ELSE << AddVar(id), IF init # <<>> THEN Sub(init) ELSE Emit(Push(NilConst)),
            Emit(One("ASSIGN", Len(vars))) >>

PlanAssign(id, value) ==
    IF GetVar(id) >= 0 THEN << Sub(value), Emit(One("ASSIGN", GetVar(id))) >>
    ELSE IF GetGlobal(id) >= 0
         THEN << Emit(GlobalIndex(id)), Sub(value), Alone("SETINDEX") >>
    ELSE << Refuse >>

(* Mutant: the value tested stays on the stack under the second operand.   *)
PlanLogicKeep(op, a, b) ==
    << Sub(a), Alone("TEST"), Jump(1, op), Sub(b), Land(1) >>

(* The second operand only when the first does not decide.                 *)
PlanLogic(op, a, b) ==
    << Sub(a), Alone("TEST"), Jump(1, op), Alone("POP"), Sub(b), Land(1) >>

PlanIf(test, then, else) ==
    << Sub(test), Test, Jump(1, "FJUMP"), Sub(then) >> \o
    IF else # <<>> THEN << Jump(2, "JUMP"), Land(1), Sub(else), Land(2) >>
    ELSE << Land(1) >>

PlanLoop(op, test, body) ==
    CASE op = "WHILE" ->
           << PushBlock, Sub(test), Test, Leave("FJUMP"), Sub(body), AddContinue, PopBlock >>
      [] op = "UNTIL" ->
           << PushBlock, Sub(test), Test, Leave("TJUMP"), Sub(body), AddContinue, PopBlock >>
      [] op = "DOWHILE" ->
           << PushBlock, Sub(body), Sub(test), Test, Again("TJUMP"), PopBlock >>
      [] op = "DOUNTIL" ->
           << PushBlock, Sub(body), Sub(test), Test, Again("FJUMP"), PopBlock >>
      [] op = "FOREVER" -> << PushBlock, Sub(body), AddContinue, PopBlock >>
      [] OTHER -> << PushBlock, PopBlock >>

(* Mutant: the loop begins at its test.                                    *)
PlanForLate(setup, test, step, body) ==
    << Sub(setup), Jump(1, "JUMP"), Sub(step), Land(1), PushBlock,
       Sub(test), Test, Leave("FJUMP"), Sub(body), AddContinue, PopBlock >>

(* The increment comes first in the code and is jumped over once.          *)
PlanFor(setup, test, step, body) ==
    << Sub(setup), Jump(1, "JUMP"), PushBlock, Sub(step), Land(1),
       Sub(test), Test, Leave("FJUMP"), Sub(body), AddContinue, PopBlock >>

(* The array or iterator is on the stack during the loop.                  *)
PlanForeach(id, list, body) ==
    LET index == IF GetVar(id) >= 0 THEN GetVar(id) ELSE Len(vars)
    IN  (IF GetVar(id) >= 0 THEN <<>> ELSE << AddVar(id) >>) \o
        << Sub(list), PushBlock, Emit(One("ITER", index)), Leave("FJUMP"),
           Sub(body), AddContinue, PopBlock, Alone("POP") >>

(* += and its like, and prefix ++ and --: on a variable, an element, a     *)
(* member, and nothing else.                                               *)
PlanPreOp(op, lval, value) ==
    CASE lval.type = "LOOKUP" /\ GetVar(lval.name) >= 0 ->
           << Emit(One("LOOKUP", GetVar(lval.name))), Sub(value),
              Emit(<<Op(op)>> \o One("ASSIGN", GetVar(lval.name))) >>
      [] lval.type = "GETINDEX" ->
           << Sub(lval.kids[1]), Sub(lval.kids[2]),
              Emit(One("COPY", 2) \o One("COPY", 2) \o <<Op("INDEX")>>), Sub(value),
              Emit(<<Op(op), Op("SETINDEX")>>) >>
      [] lval.type = "GETMEMBER" ->
           << Sub(lval.kids[1]),
              Emit(One("COPY", 1) \o <<Op("GET_MEMBER"), Name(lval.name)>>), Sub(value),
              Emit(<<Op(op), Op("SET_MEMBER"), Name(lval.name)>>) >>
      [] OTHER -> << Refuse >>

(* Postfix ++ and --, which leave the old value.                           *)
PlanPostOp(op, lval, value) ==
    CASE lval.type = "LOOKUP" /\ GetVar(lval.name) >= 0 ->
           << Emit(One("LOOKUP", GetVar(lval.name)) \o One("COPY", 1)), Sub(value),
              Emit(<<Op(op)>> \o One("ASSIGN", GetVar(lval.name)) \o <<Op("POP")>>) >>
      [] lval.type = "GETINDEX" ->
           << Sub(lval.kids[1]), Sub(lval.kids[2]),
              Emit(<<Op("INDEX")>> \o One("COPY", 1)), Sub(value),
              Emit(<<Op(op), Op("SETINDEX"), Op("POP")>>) >>
      [] lval.type = "GETMEMBER" ->
           << Sub(lval.kids[1]),
              Emit(<<Op("GET_MEMBER"), Name(lval.name)>> \o One("COPY", 1)), Sub(value),
              Emit(<<Op(op), Op("SET_MEMBER"), Name(lval.name), Op("POP")>>) >>
      [] OTHER -> << Refuse >>

(* The arguments are pushed before the function.                           *)
PlanInvoke(func, args) ==
    << Sub(args), Sub(func), Emit(One("INVOKE", Len(args))) >>

CallMethod(id, args) == << Sub(args), Emit(<<Op("METHOD"), Name(id), Arg(Len(args))>>) >>
PlanNew(type, args, call) ==
    << Emit(Push(type) \o <<Op("NEW")>>) >> \o
    IF call = "call" THEN CallMethod("new", args) ELSE <<>>

PlanReturn(value) ==
    << IF value # <<>> THEN Sub(value) ELSE Emit(Push(NilConst)), GoEnd >>

Unary(op, value) == << Sub(value), Alone(op) >>
Binary(op, a, b) == << Sub(a), Sub(b), Alone(op) >>
PlanStatement(value) == Unary("POP", value)
PlanArray(values)    == << Sub(values), Emit(One("NEWARRAY", Len(values))) >>
PlanSetIndex(list, index, value) == << Sub(list) >> \o Binary("SETINDEX", index, value)
PlanCast(type, value) == << Sub(value), Emit(Push(type) \o <<Op("TYPECAST")>>) >>

(* The list before the value that is looked for in it.                     *)
PlanIn(value, list) == Binary("IN", list, value)

PlanMember(id, object, value) ==
    << Sub(object) >> \o
    IF value # <<>> THEN << Sub(value), Emit(<<Op("SET_MEMBER"), Name(id)>>) >>
    ELSE << Emit(<<Op("GET_MEMBER"), Name(id)>>) >>

(* Jumps out of what is being compiled, and the end of a turn.             *)
PlanExit(type) ==
    << CASE type = "BREAK" -> Leave("JUMP") [] type = "CONTINUE" -> AddContinue
         [] type = "YIELD" -> Alone("YIELD") >>

(* Conversions, whose opcodes have the names of the nodes.                 *)
PlanConversion(type, kids) ==
    [i \in DOMAIN kids |-> Sub(kids[i])] \o << Alone(type) >>

(***************************************************************************)
(* What CompileNode does for one node.  kid(i) is NULL, an empty list, or  *)
(* a list.                                                                 *)
(***************************************************************************)
Plan(node) ==
    LET kid(i) == node.kids[i]
    IN CASE node.type = "MATH"  -> Binary(node.op, kid(1), kid(2))
         [] node.type = "DATA"  -> << Emit(Push(node.value)) >>
         [] node.type \in {"NEGATE", "NOT"} -> Unary(node.type, kid(1))
         [] node.type = "OR"    -> PlanLogic("TJUMP", kid(1), kid(2))
         [] node.type = "AND"   -> PlanLogic("FJUMP", kid(1), kid(2))
         [] node.type = "INVOKE" -> PlanInvoke(kid(1), kid(2))
         [] node.type = "LOOKUP" -> PlanLookup(node.name)
         [] node.type = "DECLARE" -> PlanDeclare(node.name, kid(1))
         [] node.type = "ASSIGN" -> PlanAssign(node.name, kid(1))
         [] node.type = "STATEMENT" -> PlanStatement(kid(1))
         [] node.type = "IF"    -> PlanIf(kid(1), kid(2), kid(3))
         [] node.type = "LOOP"  -> PlanLoop(node.op, kid(1), kid(2))
         [] node.type = "SETINDEX" -> PlanSetIndex(kid(1), kid(2), kid(3))
         [] node.type = "GETINDEX" -> Binary("INDEX", kid(1), kid(2))
         [] node.type = "ARRAY" -> PlanArray(kid(1))
         [] node.type = "PREOP" -> PlanPreOp(node.op, kid(1)[1], kid(2))
         [] node.type = "POSTOP" -> PlanPostOp(node.op, kid(1)[1], kid(2))
         [] node.type = "RETURN" -> PlanReturn(kid(1))
         [] node.type \in {"BREAK", "CONTINUE", "YIELD"} -> PlanExit(node.type)
         [] node.type = "METHOD" -> << Sub(kid(1)) >> \o CallMethod(node.name, kid(2))
         [] node.type = "CAST"  -> PlanCast(node.value, kid(1))
         [] node.type = "FOR"   -> PlanFor(kid(1), kid(2), kid(3), kid(4))
         [] node.type = "IN"    -> PlanIn(kid(1), kid(2))
         [] node.type = "NEW"   -> PlanNew(node.value, kid(1), node.op)
         [] node.type = "SETMEMBER" -> PlanMember(node.name, kid(1), kid(2))
         [] node.type = "GETMEMBER" -> PlanMember(node.name, kid(1), <<>>)
         [] node.type = "FOREACH" -> PlanForeach(node.name, kid(1), kid(2))
         [] node.type \in {"STRINGCAST", "INTCAST", "CONCAT"} -> PlanConversion(node.type, node.kids)
         [] OTHER -> <<>>
-----------------------------------------------------------------------------
(* The machine *)

Act      == work[Len(work)]
Current  == Head(Act.todo)
Doing(do) == /\ status = "body" /\ work # <<>>
             /\ Act.todo # <<>> /\ Current.do = do
Done     == [work EXCEPT ![Len(work)].todo = Tail(@)]
DoneAt(k, p) == [work EXCEPT ![Len(work)].todo = Tail(@),
                             ![Len(work)].pos[k] = p]
Listing(nodes) == [nodes |-> nodes, todo |-> <<>>, pos |-> <<0, 0>>]
Block    == blocks[Len(blocks)]

(* Mutant: one open place is enough.                                       *)
IsTightLate(n, room) == room = 0 \/ n >= room

(* Two open places are wanted (function.cpp:95, 113, 130).                 *)
IsTight(n, room) == room = 0 \/ n >= room - 1

(* One more word; the value after PUSH goes to the second open place.      *)
Place(b, w) ==
    LET room == IF w.word # "value" /\ IsTight(b.count, b.room) THEN b.room + block_chunk
                ELSE b.room
    IN  [count |-> b.count + 1, room |-> room, over |-> b.over \/ b.count + 1 > room]

(* Words added at the end, to a buffer that may not have the room; past    *)
(* it, what follows is undefined.  Positions count from 0, as in `nodes'.  *)
AddTo(cells, words, then) ==
    LET after[k \in 0 .. Len(words)] ==
            IF k = 0 THEN [count |-> Len(cells), room |-> size, over |-> FALSE]
            ELSE Place(after[k - 1], words[k])
        b == after[Len(words)]
    IN  /\ code' = cells \o words
        /\ size' = b.room
        /\ lines' = lines \o [i \in 1 .. Len(words) |-> last_line]
        /\ status' = IF b.over THEN "overrun" ELSE then
Add(words) == AddTo(code, words, "body")
Hole(op)   == One(op, 0)
HoleAt     == Len(code) + 1     \* where the operand of a Hole goes

(* nodes[p] = to - p, for some positions p.                                *)
Patched(ps, to) == [i \in 1 .. Len(code) |->
                      IF i - 1 \in ps THEN [code[i] EXCEPT !.n = to - (i - 1)]
                      ELSE code[i]]

(* Mutant: the line information of the last function is not reset.         *)
BeginStale ==
    /\ status = "between" /\ Len(compiled) < Len(file.funcs)
    /\ LET f == file.funcs[Len(compiled) + 1]
       IN  /\ vars' = f.args \o f.varg
           /\ work' = << Listing(Transform(f.body, file.line)) >>
    /\ code' = <<>> /\ size' = 0 /\ lines' = <<>>
    /\ debug' = <<>> /\ last_line' = file.line
    /\ status' = "body"
    /\ UNCHANGED <<context, blocks, returns, last_op>>

(* Compile takes up the next function: its variables are its arguments,    *)
(* then the array of the extra ones; its body is transformed first.        *)
Begin ==
    /\ status = "between" /\ Len(compiled) < Len(file.funcs)
    /\ LET f == file.funcs[Len(compiled) + 1]
       IN  /\ vars' = f.args \o f.varg
           /\ work' = << Listing(Transform(f.body, file.line)) >>
    /\ code' = <<>> /\ size' = 0 /\ lines' = <<>>
    /\ debug' = <<>> /\ last_line' = file.line /\ last_op' = 0
    /\ status' = "body"
    /\ UNCHANGED <<context, blocks, returns>>

(* Mutant: the words since the last line are counted twice.                *)
VisitStale ==
    /\ status = "body" /\ work # <<>> /\ Act.todo = <<>> /\ Act.nodes # <<>>
    /\ LET node == Head(Act.nodes)
       IN  /\ \/ node.line = last_line /\ UNCHANGED where
              \/ /\ node.line # last_line
                 /\ debug' = Append(debug, [span |-> Len(code) - last_op,
                                            line |-> last_line])
                 /\ last_line' = node.line
                 /\ UNCHANGED last_op
           /\ work' = [work EXCEPT ![Len(work)] =
                         [Act EXCEPT !.nodes = Tail(@), !.todo = Plan(node)]]
    /\ UNCHANGED <<context, status, buffer, stacks, lines>>

(* CompileNode takes the next node of its list.                            *)
Visit ==
    /\ status = "body" /\ work # <<>> /\ Act.todo = <<>> /\ Act.nodes # <<>>
    /\ LET node == Head(Act.nodes)
       IN  /\ \/ node.line = last_line /\ UNCHANGED where
              \/ /\ node.line # last_line
                 /\ debug' = Append(debug, [span |-> Len(code) - last_op,
                                            line |-> last_line])
                 /\ last_op' = Len(code)
                 /\ last_line' = node.line
           /\ work' = [work EXCEPT ![Len(work)] =
                         [Act EXCEPT !.nodes = Tail(@), !.todo = Plan(node)]]
    /\ UNCHANGED <<context, status, buffer, stacks, lines>>

(* CompileNode returns true at the end of its list.                        *)
ListEnd ==
    /\ status = "body" /\ work # <<>> /\ Act.todo = <<>> /\ Act.nodes = <<>>
    /\ work' = Front(work)
    /\ UNCHANGED <<context, status, buffer, stacks, where, lines>>

DoSub ==
    /\ Doing("sub")
    /\ work' = Append(Done, Listing(Current.nodes))
    /\ UNCHANGED <<context, status, buffer, stacks, where, lines>>

DoEmit ==
    /\ Doing("emit")
    /\ Add(Current.words)
    /\ work' = Done
    /\ UNCHANGED <<context, stacks, where>>

DoJump ==
    /\ Doing("jump")
    /\ Add(Hole(Current.op))
    /\ work' = DoneAt(Current.k, HoleAt)
    /\ UNCHANGED <<context, stacks, where>>

DoLand ==
    /\ Doing("land")
    /\ code' = Patched({Act.pos[Current.k]}, Len(code))
    /\ work' = Done
    /\ UNCHANGED <<context, status, size, stacks, where, lines>>

DoVar ==
    /\ Doing("var")
    /\ vars' = Append(vars, Current.op)
    /\ work' = Done
    /\ UNCHANGED <<context, status, buffer, blocks, returns, where, lines>>

DoPushBlock ==
    /\ Doing("block")
    /\ blocks' = Append(blocks, [start |-> Len(code), breaks |-> {}])
    /\ work' = Done
    /\ UNCHANGED <<context, status, buffer, vars, returns, where, lines>>

(* Mutant: the block stays.                                                *)
DoPopBlockKeep ==
    /\ Doing("unblock")
    /\ code' = Patched(Block.breaks, Len(code))
    /\ work' = Done
    /\ UNCHANGED <<context, status, size, stacks, where, lines>>

(* The continues of a block are never recorded: AddContinue knows where to *)
(* go.                                                                     *)
DoPopBlock ==
    /\ Doing("unblock")
    /\ code' = Patched(Block.breaks, Len(code))
    /\ blocks' = Front(blocks)
    /\ work' = Done
    /\ UNCHANGED <<context, status, size, vars, returns, where, lines>>

(* Mutant: the position is taken before the opcode is added.               *)
DoLeaveEarly ==
    /\ Doing("leave") /\ blocks # <<>>
    /\ Add(Hole(Current.op))
    /\ blocks' = [blocks EXCEPT ![Len(blocks)].breaks = @ \cup {Len(code)}]
    /\ work' = Done
    /\ UNCHANGED <<context, vars, returns, where>>

DoLeave ==
    /\ Doing("leave") /\ blocks # <<>>
    /\ Add(Hole(Current.op))
    /\ blocks' = [blocks EXCEPT ![Len(blocks)].breaks = @ \cup {HoleAt}]
    /\ work' = Done
    /\ UNCHANGED <<context, vars, returns, where>>

DoContinue ==
    /\ Doing("continue") /\ blocks # <<>>
    /\ Add(One("JUMP", Block.start - HoleAt))
    /\ work' = Done
    /\ UNCHANGED <<context, stacks, where>>

(* BlockStart is the start of the first block, not of the last.            *)
DoAgain ==
    /\ Doing("again")
    /\ Add(One(Current.op, blocks[1].start - HoleAt))
    /\ work' = Done
    /\ UNCHANGED <<context, stacks, where>>

DoReturn ==
    /\ Doing("return")
    /\ Add(Hole("JUMP"))
    /\ returns' = returns \cup {HoleAt}
    /\ work' = Done
    /\ UNCHANGED <<context, vars, blocks, where>>

(* An unknown name, or a break or continue outside of a loop: CompileNode  *)
(* and with it Compile give up.                                            *)
Fail ==
    /\ \/ Doing("fail")
       \/ (Doing("leave") \/ Doing("continue")) /\ blocks = <<>>
    /\ status' = "failed"
    /\ UNCHANGED <<context, buffer, work, stacks, where, lines>>

(* Mutant: as many variables as arguments.                                 *)
FinishedArgs(words) == [code |-> words, varc |-> Len(file.funcs[Len(compiled) + 1].args),
                        vars |-> vars]

(* What a Function keeps, and the names of its variables.                  *)
Finished(words) == [code |-> words, varc |-> Len(vars), vars |-> vars]

(* The end of a function: it returns nil, and the return jumps go behind   *)
(* that, with the value they left.                                         *)
Finish ==
    /\ status = "body" /\ work = <<>>
    /\ LET end == Len(code) + 2
       IN  /\ AddTo(Patched(returns, end), Push(NilConst), "between")
           /\ debug' = Append(debug, [span |-> end - last_op, line |-> last_line])
    /\ compiled' = Append(compiled, Finished(code'))
    /\ returns' = {}
    /\ UNCHANGED <<file, block_chunk, vars, blocks, work, last_op, last_line>>

(* All functions compiled: what follows publishes them.                    *)
Complete ==
    /\ status = "between" /\ Len(compiled) = Len(file.funcs)
    /\ status' = "done"
    /\ UNCHANGED <<context, buffer, work, stacks, where, lines>>

Init ==
    /\ file \in Files
    /\ compiled = <<>> /\ status = "between"
    /\ block_chunk \in BlockChunks
    /\ code = <<>> /\ size = 0 /\ vars = <<>> /\ work = <<>>
    /\ blocks = <<>> /\ returns = {}
    /\ debug = <<>> /\ last_op = 0 /\ last_line = 0 /\ lines = <<>>

CompileNode == \/ Visit \/ ListEnd
               \/ DoSub \/ DoEmit \/ DoJump \/ DoLand \/ DoVar
               \/ DoPushBlock \/ DoPopBlock \/ DoLeave \/ DoContinue
               \/ DoAgain \/ DoReturn \/ Fail

Next == Begin \/ CompileNode \/ Finish \/ Complete

Spec == Init /\ [][Next]_cvars
-----------------------------------------------------------------------------
(* Properties *)

Wording    == Opcode \cup Identifier
WordType   == [word : {"op", "arg", "value"}, text : Wording, n : Int, value : Constant]
Do         == {"sub", "emit", "jump", "land", "var", "block", "unblock", "leave",
               "continue", "again", "return", "fail"}
TaskType   == [do : Do, words : Seq(WordType), nodes : Seq(Nodes), op : Wording, k : 0 .. 2]
Activation == [nodes : Seq(Nodes), todo : Seq(TaskType), pos : [1 .. 2 -> Nat]]

(* Every variable has its type, and the line table never runs ahead of the *)
(* code.                                                                   *)
TypeOK ==
    /\ file \in FileType
    /\ compiled \in Seq([code : Seq(WordType), varc : Nat, vars : Seq(STRING)])
    /\ block_chunk \in BlockChunks /\ size \in Nat
    /\ status \in {"between", "body", "failed", "done", "overrun"}
    /\ code \in Seq(WordType)
    /\ vars \in Seq(STRING)
    /\ work \in Seq(Activation)
    /\ blocks \in Seq([start : Nat, breaks : SUBSET Nat])
    /\ returns \subseteq Nat
    /\ debug \in Seq([span : Nat, line : Nat])
    /\ last_op \in 0 .. Len(code)
    /\ last_line \in Nat
    /\ lines \in Seq(Nat)

IsJump(w) == w.word = "op" /\ w.text \in {"JUMP", "TJUMP", "FJUMP"}

(* Position q (from 0) of the words c is where an instruction begins, or   *)
(* the end.                                                                *)
Begins(c, q) == q \in 0 .. Len(c) /\ (q < Len(c) => c[q + 1].word = "op")

(* Where the jump that is the i-th word goes: op_ptr += distance - 1, with *)
(* op_ptr already behind the distance (eval.cpp:426-429).                  *)
Destination(c, i) == i + c[i + 1].n

Landed(c, i) == i < Len(c) /\ c[i + 1].word = "arg" /\ Begins(c, Destination(c, i))

(***************************************************************************)
(* Every jump of a finished function goes to the beginning of an           *)
(* instruction or to the end of the function: no distance is left          *)
(* unpatched, none is patched twice or at another's place, whatever loops, *)
(* breaks and returns are nested, in this function or an earlier one of    *)
(* the file.                                                               *)
(***************************************************************************)
JumpsLand == \A k \in DOMAIN compiled : LET c == compiled[k].code IN
                \A i \in 1 .. Len(c) : IsJump(c[i]) => Landed(c, i)

(***************************************************************************)
(* The variables a finished function uses are inside its frame: varc is    *)
(* taken at the end (compiler.cpp:668), the indexes were on the way.       *)
(***************************************************************************)
VariablesExist ==
    \A k \in DOMAIN compiled : LET c == compiled[k].code IN
       \A i \in 1 .. Len(c) :
          c[i].word = "op" /\ c[i].text \in {"LOOKUP", "ASSIGN", "ITER"} =>
             c[i + 1].n \in 0 .. compiled[k].varc - 1

(***************************************************************************)
(* The functions of a file share the lists of open blocks and of return    *)
(* jumps; between two functions both are empty.                            *)
(***************************************************************************)
NothingCarried == status \in {"between", "done"} => blocks = <<>> /\ returns = {}

(* GetLineOf: the first entry of the line table whose span, with the spans *)
(* before it, goes past the position; it does not know where the table     *)
(* ends.                                                                   *)
SpansTo(k) == LET sum[j \in 0 .. k] == IF j = 0 THEN 0 ELSE sum[j - 1] + debug[j].span
              IN  sum[k]
GetLineOf(p) == debug[Min({k \in DOMAIN debug : p < SpansTo(k)})].line

(***************************************************************************)
(* The line table of a function covers its code exactly, so that GetLineOf *)
(* never runs off its end, and gives for every word the line the compiler  *)
(* was at when it added that word.                                         *)
(***************************************************************************)
LinesRight ==
    (status = "between" /\ compiled # <<>>) =>
       /\ SpansTo(Len(debug)) = Len(code)
       /\ \A p \in 0 .. Len(code) - 1 : GetLineOf(p) = lines[p + 1]

(***************************************************************************)
(* No word is written past the buffer unless block_chunk was set to 0 or   *)
(* 1, though an operation only looks for two open places once and may      *)
(* write one word or two (function.cpp:94-104).                            *)
(***************************************************************************)
OverrunBySmallChunk == status = "overrun" => block_chunk < 2
=============================================================================
