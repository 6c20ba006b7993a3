----------------------------- MODULE MCCompiler -----------------------------
(***************************************************************************)
(* Files for the optimizer and the compiler: bodies with every kind of     *)
(* node, with constants to fold, and every nesting of two control          *)
(* structures around a jump.  Each is named f and has the argument a; h    *)
(* and k are functions of the System and the file, g and total are globals *)
(* of the System and of the file.                                          *)
(***************************************************************************)
EXTENDS Compiler, Meaning, Depths

MC_SystemFunctions == {"h"}
MC_SystemGlobals   == {"g"}
MC_Atoi == [s \in {"", "s", "t", "st", "7"} |-> IF s = "7" THEN 7 ELSE 0]

a     == Lookup("a")
one   == Data(Number(1))
call  == AtLine(Statement(Invoke(Lookup("h"), <<a, one>>)), 4)
count == PreOp(a, "SUBTRACT", one)

Func(name, args, varg, body) ==
    [name |-> name, args |-> args, varg |-> varg, body |-> body, method |-> FALSE]
File(funcs) == [funcs |-> funcs, globals |-> <<"total">>, line |-> 5]
FileOf(body) == File(<< Func("f", <<"a">>, <<>>, body) >>)

(* Expressions, one or more for each kind of node.                         *)
Exprs == { one, a, Lookup("h"), Lookup("f"), Lookup("g"), Lookup("total"),
    Math("DIVIDE", Math("ADD", a, one), Data(Text("s"))),
    Or(a, And(Lookup("g"), one)), And(Or(a, one), Prefix("NOT", a)),
    Prefix("NEGATE", a), Both("CONCAT", "", a, one), In(a, Lookup("g")),
    Invoke(Lookup("h"), <<>>), Invoke(a, <<one, Or(a, one)>>),
    GetIndex(a, Or(a, one)), SetIndex(a, one, GetMember(a, "x")),
    SetMember(a, "x", ArrayOf(<<a, one, a>>)), ArrayOf(<<>>),
    Method(a, "run", <<>>), Method(a, "run", <<a, one>>),
    New("C", <<>>, ""), New("C", <<>>, "call"), New("C", <<a>>, "call"),
    Cast("C", a), Prefix("STRINGCAST", a), Prefix("INTCAST", a),
    Assign("a", one), Assign("total", And(a, one)),
    Declare("b", <<>>), Declare("b", <<Lookup("b")>>),
    count, PreOp(GetIndex(a, one), "ADD", one), PreOp(GetMember(a, "x"), "MULTIPLY", a),
    PostOp(a, "ADD", one) }

(* What cannot be compiled.                                                *)
Faulty == { Lookup("nowhere"), Assign("g", one), Declare("a", <<>>),
    PreOp(Lookup("total"), "ADD", one), PreOp(one, "ADD", one),
    PostOp(Lookup("nowhere"), "ADD", one), And(a, Lookup("nowhere")) }

(* What the optimizer works out beforehand, and what looks like it.        *)
num(i)  == Data(Number(i))
text(s) == Data(Text(s))
Cast_(type) == { Cast(type, e) : e \in {num(3), text("7"), text("s"), Data(NilConst), a} }
Foldable ==
    { Math(op, num(x), num(y)) : op \in {"ADD", "SUBTRACT", "MULTIPLY", "DIVIDE", "LT"},
                                 x \in {-7, 3}, y \in {0, 2} }
    \cup { Math("ADD", num(14), num(1)), Math("SUBTRACT", num(-7), num(9)),
           Math("MULTIPLY", num(-8), num(2)), Math("DIVIDE", num(-16), num(15)) }
    \cup { Math("ADD", num(1), Math("MULTIPLY", num(2), num(3))), Math("ADD", a, num(1)),
           Math("SUBTRACT", Math("ADD", num(1), a), num(1)), Math("ADD", text("s"), num(1)),
           Both("CONCAT", "", text("s"), text("t")), Both("CONCAT", "", text("s"), num(1)),
           Both("CONCAT", "", text("s"), Data(NilConst)),
           Prefix("NOT", num(0)), Prefix("NEGATE", Math("ADD", num(1), num(1))),
           Or(num(0), a), And(num(1), a), Or(a, Math("ADD", num(1), num(1))) }
    \cup Cast_("String") \cup Cast_("Int") \cup Cast_("C")
Constants == { num(0), num(1), text(""), text("s"), Data(NilConst), Data(TypeConst("C")) }

(* Statements that jump, and structures around them.                       *)
Jumps == { Break, Continue, Return(<<a>>), Return(<<>>) }
Leaves_ == Jumps \cup { call, Yield, Statement(Declare("b", <<one>>)) }

Around(body) ==
    { If(a, body, <<>>), If(And(a, one), body, <<call>>), If(a, <<>>, body),
      Loop("WHILE", <<a>>, body), Loop("UNTIL", <<Or(a, one)>>, body),
      For(<<call>>, a, <<Statement(count)>>, body), For(<<>>, one, <<>>, body),
      Foreach("v", a, body), Foreach("a", a, body),
      Loop("FOREVER", <<>>, body) }
After(body)  == { Loop("DOWHILE", <<a>>, body), Loop("DOUNTIL", <<a>>, body) }
IsLoop(node) == node.type \in {"LOOP", "FOR", "FOREACH"}

Simple == { AtLine(s, 3) : s \in Leaves_ }
Inner == UNION { Around(<<s>>) : s \in Simple }
InnerAfter == UNION { After(<<s>>) : s \in Simple }
Outer(body) == { n \in Around(body) : IsLoop(n) } \cup After(body)
InLoop(S) == UNION { Outer(<<s, call>>) : s \in S }

Body_Control == { <<AtLine(n, 2), call>> : n \in InLoop(Inner \cup Simple) }
                \cup { <<n>> : n \in UNION { After(<<s, If(a, <<s>>, <<>>), call>>) : s \in Simple } }
Body_Expr == { <<Statement(e), call>> : e \in Exprs } \cup
             UNION { { <<Foreach("v", a, <<Return(<<e>>)>>)>>,
                       <<Foreach("v", a, <<If(e, <<Break>>, <<>>), Statement(e)>>)>> }
                     : e \in Exprs \ {Declare("b", <<>>), Declare("b", <<Lookup("b")>>)} }
Body_Faulty == { <<call, Statement(e)>> : e \in Faulty }
               \cup { <<Return(<<a>>), s>> : s \in { Break, Continue } }
               \cup { <<If(a, <<s>>, <<>>)>> : s \in { Break, Continue } }

Body_Fold ==
    { <<Statement(e), call>> : e \in Foldable } \cup { <<Return(<<e>>), call>> : e \in Foldable }
    \cup UNION { { <<Statement(Invoke(Lookup("h"), <<a, e>>)), call>>,
                   <<Statement(Invoke(Lookup("h"), <<e, a>>)), call>> } : e \in Foldable }
    \cup UNION { { <<If(c, <<s, call>>, else), call>>, <<If(a, <<If(c, <<s>>, else)>>, <<>>), call>>,
                   <<Foreach("v", a, <<If(c, <<s, Statement(count)>>, else), call>>), call>> }
                 : c \in Foldable \cup Constants, s \in {call, Return(<<a>>)},
                   else \in {<<>>, <<Statement(count)>>} }
    \cup UNION { { <<Loop("WHILE", <<c>>, <<If(a, <<s>>, <<>>), call>>), call>>,
                   <<For(<<>>, c, <<>>, <<If(c, <<s>>, <<>>), call>>), call>> }
                 : c \in Constants, s \in {Break, Continue, Return(<<>>)} }
    \cup { <<Loop(op, <<c>>, <<If(a, <<Break>>, <<>>), call>>), call>> :
            op \in {"UNTIL", "DOWHILE", "DOUNTIL"}, c \in Constants }

(* Do loops inside one, two and three loops, which may end or not.         *)
InDo == { <<call>>, <<If(a, <<Break>>, <<>>), call>>, <<If(a, <<Break>>, <<Continue>>)>>,
             <<Return(<<a>>)>> }
Dos == UNION { After(b) : b \in InDo } \cup { Loop("DOWHILE", <<one>>, <<call>>) }
LoopsOf(body) == { Loop("WHILE", <<a>>, body), Loop("FOREVER", <<>>, body), For(<<>>, a, <<>>, body),
                  Foreach("v", a, body), Loop("DOUNTIL", <<a>>, body) }
InTwo == UNION { LoopsOf(<<m, call>>) : m \in UNION { LoopsOf(<<d>>) : d \in Dos } }
Body_Do == { <<n, call>> : n \in InLoop(InnerAfter) \cup InTwo
                                 \cup { Foreach("w", a, <<If(a, <<n>>, <<>>)>>) : n \in InTwo } }

(* Postfix operators on an element and a member.                           *)
Body_Post == { <<Statement(PostOp(lval, "ADD", one)), call>> :
               lval \in {GetIndex(a, one), GetMember(a, "x")} }

(* Several functions, one with an array of extra arguments, and a method.  *)
TwoOf(b1, b2) ==
    File(<< Func("f", <<"a">>, <<>>, b1), Func("k", <<"a">>, <<"more">>, b2),
            [Func("f", <<"self", "a">>, <<>>, b1) EXCEPT !.method = TRUE] >>)
Files_Several ==
    { TwoOf(b1, b2) :
        b1 \in { <<>>, <<Return(<<a>>)>>, <<Loop("WHILE", <<a>>, <<AtLine(Break, 2)>>), Return(<<>>)>> },
        b2 \in { <<If(Lookup("more"), <<Return(<<Lookup("k")>>)>>, <<>>)>>,
                 <<AtLine(call, 5)>>, <<Foreach("v", a, <<Continue>>), Return(<<one>>)>> } }

MC_Files == { f : f \in { FileOf(b) : b \in Body_Control \cup Body_Expr \cup Body_Faulty \cup Body_Fold
                                             \cup Body_Do \cup Body_Post }
                       \cup Files_Several }

Children(S) == UNION { UNION { Range(n.kids[k]) : k \in DOMAIN n.kids } : n \in S }
RECURSIVE Closure(_)
Closure(S) == IF S = {} THEN {} ELSE S \cup Closure(Children(S))
NodesOf(files) ==
    LET bodies == UNION { { f.funcs[k].body, sxp_transform(f.funcs[k].body, f.line) }
                          : <<f, k>> \in { <<g, j>> \in files \X (1 .. 5) : j \in DOMAIN g.funcs } }
        all == Closure(UNION { Range(b) : b \in bodies })
    IN  { n : n \in all }
MC_Nodes == NodesOf(MC_Files)

(***************************************************************************)
(* One function each for what is misread, as Misread below has it: a do    *)
(* loop inside another loop; a quotient of constants before another        *)
(* argument; a loop other than while whose test is a constant; a sum of    *)
(* texts; a sum of numbers that is no int.                                 *)
(***************************************************************************)
Misread_Files ==
    { File(<< Func("f", <<"a">>, <<>>, <<Loop("WHILE", <<a>>, <<call, Loop("DOWHILE", <<a>>, <<call>>)>>)>>),
              Func("k", <<"a">>, <<>>,
                   <<Statement(Invoke(Lookup("h"), <<Math("DIVIDE", num(4), num(2)), a>>))>>),
              Func("m", <<"a">>, <<>>, <<Loop("UNTIL", <<one>>, <<call>>)>>),
              Func("n", <<"a">>, <<>>, <<Return(<<Math("ADD", text("s"), text("t"))>>)>>),
              Func("o", <<"a">>, <<>>, <<Return(<<Math("ADD", num(15), num(1))>>)>>) >>) }
Misread_Nodes == NodesOf(Misread_Files)

-----------------------------------------------------------------------------
(* Properties *)

Body(k) == file.funcs[k].body

(* A trace that was cut, without constants nothing was done with yet.      *)
Settled(t) == SubSeq(t, 1, SelectLastInSeq(t, LAMBDA e : ~IsConst(e)))

(* All that an oracle can say in so many questions.                        *)
Oracles == [1 .. 4 -> BOOLEAN]

(* What running the code does is what the body says.                       *)
MeansBody(k) ==
    \A oracle \in Oracles :
       LET r == MeaningOf(file, Body(k), oracle)
           s == ExecutionOf(compiled[k], oracle)
       IN  /\ s.exit = "spins" <=> r.exit = "spins"
           /\ s.exit = "out" <=> r.exit = "out"
           /\ IF s.exit = "spins"
              THEN \/ IsPrefix(Settled(s.trace), r.trace)
                   \/ IsPrefix(Settled(r.trace), s.trace)
              ELSE s.trace = r.trace

(* A body as the optimizer leaves it, and all nodes of a list.             *)
Optimized(k) == sxp_transform(Body(k), file.line)
Within(list) == Closure(Range(list))

(* A do loop whose test is reached, inside a loop that starts before it.   *)
IsDo(node) == node.type = "LOOP" /\ node.op \in {"DOWHILE", "DOUNTIL"}
Later(node) ==
    IF (IsDo(node) \/ node.op = "FOREVER") /\ node.kids[2] # <<>>
    THEN Closure(Range(Tail(node.kids[2])) \cup Children({Head(node.kids[2])}))
    ELSE Closure(Children({node}))
DoInLoop(node) == IsLoop(node) /\ \E m \in Later(node) : IsDo(m) /\ "on" \in Ways(m.kids[2])

PostfixOnPart(node) == node.type = "POSTOP" /\ node.kids[1][1].type # "LOOKUP"

(* Operands of a node as the optimizer leaves them.                        *)
Operand(node, i) == sxp_transform(node.kids[i], file.line)[1]
BothAre(kind, node) == \A i \in 1 .. 2 : Is(kind, <<Operand(node, i)>>)
Folds(node, op) == node.type = "MATH" /\ node.op = op /\ BothAre("number", node)
NumberIn(node, i) == Operand(node, i).value.n

(* A quotient of constants, and something after it in the list.            *)
DropsRest(list) ==
    \E i \in 1 .. Len(list) - 1 : Folds(list[i], "DIVIDE") /\ NumberIn(list[i], 2) # 0
(* A loop whose constant test does not say what it would in a while.       *)
NotAsWhile(node) ==
    /\ node.type = "LOOP" /\ node.op \in {"UNTIL", "DOWHILE", "DOUNTIL"}
    /\ IsData(<<Operand(node, 1)>>)
    /\ node.op = "DOWHILE" => ~TrueConst(Operand(node, 1).value)
JoinsTexts(node) == node.type = "MATH" /\ node.op = "ADD" /\ BothAre("string", node)
PastInt(node) ==
    \E op \in Arithmetic : Folds(node, op)
       /\ \E n \in Computed(op, NumberIn(node, 1), NumberIn(node, 2)) :
             n # Number(Wrapped(n.n))

(* What the compiler and the optimizer are known to get wrong.             *)
Misread(k) ==
    \/ \E node \in Within(Optimized(k)) : DoInLoop(node)
    \/ \E node \in Within(Body(k)) :
          \/ PostfixOnPart(node) \/ NotAsWhile(node) \/ JoinsTexts(node) \/ PastInt(node)
          \/ \E i \in DOMAIN node.kids : DropsRest(node.kids[i])

(***************************************************************************)
(* Running the code of a finished function carries out the operations of   *)
(* its body, in the order and as often as the loops, tests, breaks,        *)
(* continues and returns of the source say, however the tests come out.    *)
(* The exceptions (Misread) are a do loop inside another loop, a postfix   *)
(* operator on an element or a member, and four things that are folded.    *)
(***************************************************************************)
CodeMeansBody ==
    status = "between" /\ compiled # <<>> =>
       LET k == Len(compiled) IN Misread(k) \/ MeansBody(k)

(***************************************************************************)
(* Each function of a file does what comments of the compiler, or the      *)
(* ChangeLog, say its statements do.  This asks it of one of them.         *)
(***************************************************************************)
OneMeansBody == status = "done" => \E k \in DOMAIN compiled : MeansBody(k)

(* The words of a function as the evaluator's instructions.                *)
Instructions(c) ==
    LET starts == SelectSeq([i \in 1 .. Len(c) |-> i], LAMBDA i : c[i].word = "op")
        index(q) == Cardinality({j \in DOMAIN starts : starts[j] <= q}) + 1
        n(i) == IF i = Len(c) \/ c[i + 1].word = "op" THEN 0
                ELSE IF IsJump(c[i]) THEN index(Destination(c, i))
                ELSE IF c[i].text = "METHOD" THEN c[i + 2].n
                ELSE c[i + 1].n
    IN  [j \in DOMAIN starts |-> [op |-> c[starts[j]].text, n |-> n(starts[j])]]

(***************************************************************************)
(* On every path to an instruction there are enough operands for it, and a *)
(* value to return at the end; and there are as many on every path, which  *)
(* is what the evaluator relies on (BalancedCode in Eval), just when no do *)
(* loop jumps back over the iterator of a foreach.  That is so for breaks, *)
(* continues and returns from inside a foreach, whose iterator is on the   *)
(* stack, and for short-cut operators.  The exception are the postfix      *)
(* operators on an element or a member (compiler.cpp:406-428).             *)
(***************************************************************************)
CodeBalanced ==
    status = "between" /\ compiled # <<>> =>
       LET c    == Instructions(Last(compiled).code)
           body == Optimized(Len(compiled))
       IN  \/ \E node \in Within(body) : PostfixOnPart(node)
           \/ /\ Suffices(c, Depths(c))
              /\ Balanced(c, Depths(c)) <=> ~Strays(body, 0, Unreached)

(***************************************************************************)
(* A file is refused exactly when what the optimizer leaves of one of its  *)
(* functions has a fault: a jump outside of any loop, a name that is       *)
(* unknown or declared twice, an assignment to what cannot be assigned.    *)
(***************************************************************************)
IsFaultless(k) ==
    LET f == file.funcs[k]
    IN  Faultless(Optimized(k), Range(f.args \o f.varg), Range(file.globals),
                  {file.funcs[i].name : i \in {j \in DOMAIN file.funcs : ~file.funcs[j].method}}
                  \cup SystemFunctions \cup SystemGlobals)
RefusedForFault ==
    /\ status = "failed" => ~IsFaultless(Len(compiled) + 1)
    /\ status = "done" => \A k \in DOMAIN compiled : IsFaultless(k)
=============================================================================
