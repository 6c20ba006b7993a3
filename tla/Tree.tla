-------------------------------- MODULE Tree --------------------------------
(***************************************************************************)
(* The syntax tree the grammar hands to the compiler: CompilerNode of      *)
(* compiler.h.  The children of a node are lists of nodes, a list being    *)
(* what `next' links together; NULL is the empty list.                     *)
(***************************************************************************)
EXTENDS Integers, Sequences

(* A name or a text; "" where there is none; and the method `new' calls.   *)
Identifier == STRING \cup {"", "new"}

(* Constants of the program: nil, numbers, strings, types, and what the    *)
(* compiler finds behind a name.                                           *)
Constant == [kind : {"nil", "number", "string", "type", "globals", "function", "global"},
             id : Identifier, n : Int]
Const(kind, id, n) == [kind |-> kind, id |-> id, n |-> n]
NilConst    == Const("nil", "", 0)
Number(n)   == Const("number", "", n)
Text(s)     == Const("string", s, 0)
TypeConst(t) == Const("type", t, 0)

(***************************************************************************)
(* name: of a variable, member or method; op: the opcode of an operator,   *)
(* the kind of a loop, or "call" for a `new' with arguments; value: of a   *)
(* literal, or the type of a cast or a `new'; line: where it was parsed.   *)
(***************************************************************************)
Node(type, kids, name, op, value) ==
    [type |-> type, kids |-> kids, name |-> name, op |-> op, value |-> value,
     line |-> 1]
AtLine(node, line) == [node EXCEPT !.line = line]

Data(value)         == Node("DATA", <<>>, "", "", value)
Lookup(name)        == Node("LOOKUP", <<>>, name, "", NilConst)
Prefix(type, node)  == Node(type, <<<<node>>>>, "", "", NilConst)
Both(type, op, a, b) == Node(type, << <<a>>, <<b>> >>, "", op, NilConst)
Math(op, a, b)      == Both("MATH", op, a, b)
Or(a, b)            == Both("OR", "", a, b)
And(a, b)           == Both("AND", "", a, b)
In(node, list)      == Both("IN", "", node, list)
GetIndex(list, i)   == Both("GETINDEX", "", list, i)
PreOp(lval, op, v)  == Both("PREOP", op, lval, v)
PostOp(lval, op, v) == Both("POSTOP", op, lval, v)
SetIndex(list, i, v) == Node("SETINDEX", << <<list>>, <<i>>, <<v>> >>, "", "", NilConst)
GetMember(base, name)    == Node("GETMEMBER", << <<base>> >>, name, "", NilConst)
SetMember(base, name, v) == Node("SETMEMBER", << <<base>>, <<v>> >>, name, "", NilConst)
ArrayOf(nodes)      == Node("ARRAY", << nodes >>, "", "", NilConst)
Invoke(func, args)  == Node("INVOKE", << <<func>>, args >>, "", "", NilConst)
Method(obj, name, args) == Node("METHOD", << <<obj>>, args >>, name, "", NilConst)
New(type, args, call)   == Node("NEW", << args >>, "", call, TypeConst(type))
Cast(type, node)    == Node("CAST", << <<node>> >>, "", "", TypeConst(type))
Declare(name, init) == Node("DECLARE", << init >>, name, "", NilConst)
Assign(name, node)  == Node("ASSIGN", << <<node>> >>, name, "", NilConst)

Statement(node)     == Prefix("STATEMENT", node)
Break               == Node("BREAK", <<>>, "", "", NilConst)
Continue            == Node("CONTINUE", <<>>, "", "", NilConst)
Yield               == Node("YIELD", <<>>, "", "", NilConst)
Return(nodes)       == Node("RETURN", << nodes >>, "", "", NilConst)
If(test, then, else) == Node("IF", << <<test>>, then, else >>, "", "", NilConst)
Loop(op, test, body) == Node("LOOP", << test, body >>, "", op, NilConst)
For(setup, test, step, body) ==
    Node("FOR", << setup, <<test>>, step, body >>, "", "", NilConst)
Foreach(name, list, body) ==
    Node("FOREACH", << <<list>>, body >>, name, "", NilConst)
=============================================================================
