------------------------------ MODULE Optimize ------------------------------
(***************************************************************************)
(* The optimizer: sxp_transform rewrites the list of statements of a body, *)
(* children first, before it is compiled.  In the code a list is linked by *)
(* `next', and a node that is replaced is replaced together with what its  *)
(* `next' leads to; here that is what follows it in the sequence.          *)
(*                                                                         *)
(* Arithmetic of constants is done in int, while the evaluator's is wider. *)
(* Signed overflow is undefined; here it wraps, as it does when the        *)
(* operands are not known to the C++ compiler.  The quotient of the least  *)
(* int and -1, which traps, is left out.                                   *)
(***************************************************************************)
EXTENDS Tree, Bytecode, TLC

CONSTANTS
    Atoi,           \* external: the numbers the texts of a program begin with
    IntHalf         \* an int is in -IntHalf .. IntHalf - 1

Wrapped(n) == ((n + IntHalf) % (2 * IntHalf)) - IntHalf

Is(kind, list) == list[1].type = "DATA" /\ list[1].value.kind = kind
IsData(list)   == list[1].type = "DATA"

(* Value::True of a constant.                                              *)
TrueConst(v) == CASE v.kind = "nil" -> FALSE
                  [] v.kind = "number" -> v.n # 0
                  [] v.kind = "string" -> v.id # ""
                  [] OTHER -> TRUE

(* Value::ToString and Value::ToInt of a constant; nil has no conversions  *)
(* and stays as it is, and so does a type.                                 *)
ConvertedTo(kind, v) ==
    CASE v.kind = kind -> {v}
      [] kind = "string" /\ v.kind = "number" -> {Text(ToString(v.n))}
      [] kind = "number" /\ v.kind = "string" -> {Number(Atoi[v.id])}
      [] OTHER -> {}

(* What becomes of a node by itself: its type and value, no longer its     *)
(* children.                                                               *)
AsData(node, value) == [node EXCEPT !.type = "DATA", !.value = value,
                                    !.kids = <<>>, !.name = "", !.op = ""]
AsNoop(node) == [node EXCEPT !.type = "NOOP", !.kids = <<>>, !.op = ""]

Concatenated(node) == AsData(node, Text(node.kids[1][1].value.id \o node.kids[2][1].value.id))

(***************************************************************************)
(* One node, its children done, and the statements after it: what becomes  *)
(* of it (one node, first), and what follows that now.                     *)
(***************************************************************************)
Kept(node, rest) == [first |-> node, rest |-> rest]

MathOf(node, rest, line) ==
    LET l == node.kids[1][1].value.n
        r == node.kids[2][1].value.n
        numbers == Is("number", node.kids[1]) /\ Is("number", node.kids[2])
        texts   == Is("string", node.kids[1]) /\ Is("string", node.kids[2])
    IN  CASE numbers /\ node.op = "ADD" -> Kept(AsData(node, Number(Wrapped(l + r))), rest)
          [] numbers /\ node.op = "SUBTRACT" -> Kept(AsData(node, Number(Wrapped(l - r))), rest)
          [] numbers /\ node.op = "MULTIPLY" -> Kept(AsData(node, Number(Wrapped(l * r))), rest)
          \* a node of its own, with nothing after it
          [] numbers /\ node.op = "DIVIDE" /\ r # 0 ->
               Kept(AtLine(Data(Number(Quotient(l, r))), line), <<>>)
          [] texts /\ node.op = "ADD" -> Kept(Concatenated(node), rest)
          [] OTHER -> Kept(node, rest)

IfOf(node, rest) ==
    LET block == IF TrueConst(node.kids[1][1].value) THEN node.kids[2] ELSE node.kids[3]
    IN  IF ~IsData(node.kids[1]) THEN Kept(node, rest)
        ELSE IF block = <<>> THEN Kept(AsNoop(node), rest)
        ELSE Kept(Head(block), Tail(block) \o rest)

(* Which loop it is does not matter.                                       *)
LoopOf(node, rest) ==
    Kept(CASE node.op = "FOREVER" \/ ~IsData(node.kids[1]) -> node
           [] TrueConst(node.kids[1][1].value) -> [node EXCEPT !.op = "FOREVER"]
           [] OTHER -> AsNoop(node), rest)

CastOf(node, rest) ==
    LET to == CASE node.value = TypeConst("String") -> "string"
                [] node.value = TypeConst("Int") -> "number"
                [] OTHER -> "other"
        cast == [node EXCEPT !.type = IF to = "string" THEN "STRINGCAST" ELSE "INTCAST"]
        new  == IF IsData(node.kids[1]) THEN ConvertedTo(to, node.kids[1][1].value) ELSE {}
    IN  IF to = "other" THEN Kept(node, rest)
        ELSE IF new = {} THEN Kept(cast, rest)
        ELSE Kept(AsData(node, CHOOSE v \in new : TRUE), rest)

sxp_do_transform(node, rest, line) ==
    CASE node.type = "MATH" -> MathOf(node, rest, line)
      [] node.type = "CONCAT" /\ Is("string", node.kids[1]) /\ Is("string", node.kids[2]) ->
           Kept(Concatenated(node), rest)
      [] node.type \in {"BREAK", "RETURN", "CONTINUE"} -> Kept(node, <<>>)
      [] node.type = "IF"   -> IfOf(node, rest)
      [] node.type = "LOOP" -> LoopOf(node, rest)
      [] node.type = "CAST" -> CastOf(node, rest)
      [] OTHER -> Kept(node, rest)

(* The loop goes on behind the new node, so the rest of a block that takes *)
(* the place of its `if' is transformed once more.                         *)
RECURSIVE sxp_transform(_, _)
sxp_transform(list, line) ==
    IF list = <<>> THEN <<>>
    ELSE LET node == Head(list)
             done == [node EXCEPT !.kids =
                        [k \in DOMAIN @ |-> sxp_transform(@[k], line)]]
             r    == sxp_do_transform(done, Tail(list), line)
         IN  <<r.first>> \o sxp_transform(r.rest, line)
=============================================================================
