------------------------------ MODULE Meaning -------------------------------
(***************************************************************************)
(* What a tree means, and what the words of a function do, both as the     *)
(* trace of the operations carried out, so that the two can be compared.   *)
(* How a test comes out, and whether a foreach has another item, is told   *)
(* by an oracle, a sequence of truth values, unless the value tested is a  *)
(* constant.                                                               *)
(*                                                                         *)
(* A trace does not have the jumps, tests and pops: they are how the code  *)
(* does it, not what it does.  Operations on constants are carried out in  *)
(* the trace, and a constant that is discarded leaves none, so that it     *)
(* makes no difference when they are done.                                 *)
(***************************************************************************)
EXTENDS Optimize, SequencesExt

Event(op, text, n) == [op |-> op, text |-> text, n |-> n]
Pushed(value) == Event(value.kind, value.id, value.n)

(* exit: on, break, continue, return; out when the oracle knows no more;   *)
(* spins after too many rounds that consult no oracle.                     *)
Start(oracle) == [trace |-> <<>>, oracle |-> oracle, exit |-> "on", rounds |-> 0]

MaxRounds == 8

(* What the instructions make of constants (evaluator: 236-296, 376-387).  *)
IsConst(e)  == e.op \in {"nil", "number", "string", "type"}
ConstOf(e)  == Const(e.op, e.text, e.n)
Computed(op, x, y) ==
    CASE op = "ADD" -> {Number(x + y)} [] op = "SUBTRACT" -> {Number(x - y)}
      [] op = "MULTIPLY" -> {Number(x * y)}
      [] op = "DIVIDE" /\ y # 0 -> {Number(Quotient(x, y))} [] OTHER -> {}
OnConstants(e, x, y) ==
    CASE x.op = "number" /\ y.op = "number" /\ e.op # "CONCAT" -> Computed(e.op, x.n, y.n)
      [] e.op = "CONCAT" ->
           { Text(u.id \o v.id) : u \in ConvertedTo("string", ConstOf(x)),
                                  v \in ConvertedTo("string", ConstOf(y)) }
      [] OTHER -> {}
OnConstant(e, x) ==
    CASE e.op = "STRINGCAST" -> ConvertedTo("string", ConstOf(x))
      [] e.op = "INTCAST" -> ConvertedTo("number", ConstOf(x)) [] OTHER -> {}

(* The event e after the trace t; a result takes the place of its operands. *)
Traced(t, e) ==
    LET n == Len(t)
        two == IF n >= 2 /\ IsConst(t[n]) /\ IsConst(t[n - 1])
               THEN OnConstants(e, t[n - 1], t[n]) ELSE {}
        one == IF n >= 1 /\ IsConst(t[n]) THEN OnConstant(e, t[n]) ELSE {}
    IN  CASE two # {} -> Append(SubSeq(t, 1, n - 2), Pushed(CHOOSE v \in two : TRUE))
          [] one # {} -> Append(SubSeq(t, 1, n - 1), Pushed(CHOOSE v \in one : TRUE))
          [] OTHER -> Append(t, e)

Did(events, r) == IF r.exit = "on" THEN [r EXCEPT !.trace = FoldLeft(Traced, @, events)] ELSE r

(* The value computed last, if it is a constant, and discarding it.        *)
Known(r)  == r.trace # <<>> /\ IsConst(Last(r.trace))
Popped(r) == IF r.exit = "on" /\ Known(r) THEN [r EXCEPT !.trace = Front(@)] ELSE r

(* Test that value, or ask the oracle.                                     *)
Asked(r) == IF r.exit # "on" \/ Known(r) THEN r
            ELSE IF r.oracle = <<>> THEN [r EXCEPT !.exit = "out"]
            ELSE [r EXCEPT !.oracle = Tail(@)]
Answer(r, yes) == /\ r.exit = "on"
                  /\ IF Known(r) THEN TrueConst(ConstOf(Last(r.trace))) = yes
                     ELSE r.oracle # <<>> /\ Head(r.oracle) = yes
Tested(r) == Popped(Asked(r))

(* A break or continue reaches the loop around it.                         *)
Caught(exit, r) == IF r.exit = exit THEN [r EXCEPT !.exit = "on"] ELSE r

-----------------------------------------------------------------------------
(* Trees *)

RECURSIVE Run(_, _, _), Rounds(_, _, _)

RunAll(file, nodes, r) ==
    FoldLeft(LAMBDA s, node : IF s.exit = "on" THEN Run(file, node, s) ELSE s, r, nodes)

(***************************************************************************)
(* The rounds of a loop.  A while or until tests before the body, with     *)
(* true or false meaning another round; a do tests after it; a forever     *)
(* does not test; a for tests, and steps after the body; a foreach asks    *)
(* for the next item.  A continue goes to the start of the loop, which is  *)
(* the test, the body for do and forever, the step for for.                *)
(***************************************************************************)
Rounds(file, node, r) ==
    LET kid(i) == node.kids[i]
        kind == IF node.type = "LOOP" THEN node.op ELSE node.type
        more == kind \notin {"UNTIL", "DOUNTIL"}
        body == CASE kind = "FOR" -> kid(4) [] OTHER -> kid(2)
        test == CASE kind = "FOR" -> kid(2) [] kind = "FOREACH" -> <<>> [] OTHER -> kid(1)
        again(s) == IF s.exit # "on" THEN s
                    ELSE IF s.rounds = MaxRounds THEN [s EXCEPT !.exit = "spins"]
                    ELSE Rounds(file, node, [s EXCEPT !.rounds = @ + 1])
        run(s) == RunAll(file, body, s)
        asked(s) == IF kind = "FOREACH" THEN Did(<<Event("ITER", node.name, 0)>>, s)
                    ELSE RunAll(file, test, s)
        result ==
          IF kind \in {"WHILE", "UNTIL", "FOR", "FOREACH"}
          THEN LET s == asked(r)
               IN  IF ~Answer(s, more) THEN Tested(s)
                   ELSE LET t == Caught("continue", run(Tested(s)))
                        IN  again(IF kind = "FOR" THEN RunAll(file, kid(3), t) ELSE t)
          ELSE LET s == run(r)
               IN  IF s.exit = "continue" THEN again(Caught("continue", s))
                   ELSE IF kind = "FOREVER" THEN again(s)
                   ELSE LET t == asked(s)
                        IN  IF Answer(t, more) THEN again(Tested(t)) ELSE Tested(t)
    IN  Caught("break", result)

(* A name that is a global of the file; all others are told by the name.   *)
IsGlobal(file, name) == Contains(file.globals, name)
GlobalEvents(file, name) ==
    << Event("globals", "", 0),
       Event("number", "", SelectInSeq(file.globals, LAMBDA v : v = name) - 1) >>

Names(name) == Event("NAME", name, 0)
Sets(name)  == Event("ASSIGN", name, 0)

(* Compound assignment: the base and index once, the old value, the        *)
(* operand, the operation, the store.                                      *)
RunPreOp(file, node, r) ==
    LET lval == node.kids[1][1]
        on   == FoldLeft(LAMBDA s, kid : RunAll(file, kid, s), r, lval.kids)
        tail(store, s) == Did(<<Event(node.op, "", 0), store>>,
                              RunAll(file, node.kids[2], s))
    IN  CASE lval.type = "LOOKUP" -> tail(Sets(lval.name), Did(<<Names(lval.name)>>, r))
          [] lval.type = "GETINDEX" ->
               tail(Event("SETINDEX", "", 0), Did(<<Event("COPY", "", 2),
                    Event("COPY", "", 2), Event("INDEX", "", 0)>>, on))
          [] lval.type = "GETMEMBER" ->
               tail(Event("SET_MEMBER", lval.name, 0), Did(<<Event("COPY", "", 1),
                    Event("GET_MEMBER", lval.name, 0)>>, on))

(* The operation of a node whose operands are all evaluated, in order.     *)
Operation(node) ==
    CASE node.type \in {"MATH"} -> <<Event(node.op, "", 0)>>
      [] node.type \in {"NEGATE", "NOT", "CONCAT", "SETINDEX", "STRINGCAST",
                        "INTCAST", "YIELD"} -> <<Event(node.type, "", 0)>>
      [] node.type = "GETINDEX"  -> <<Event("INDEX", "", 0)>>
      [] node.type = "ARRAY"     -> <<Event("NEWARRAY", "", Len(node.kids[1]))>>
      [] node.type = "METHOD"    -> <<Event("METHOD", node.name, Len(node.kids[2]))>>
      [] node.type = "SETMEMBER" -> <<Event("SET_MEMBER", node.name, 0)>>
      [] node.type = "GETMEMBER" -> <<Event("GET_MEMBER", node.name, 0)>>
      [] node.type = "CAST"      ->     \* to String and Int it converts
           CASE node.value.id = "String" -> <<Event("STRINGCAST", "", 0)>>
             [] node.value.id = "Int"    -> <<Event("INTCAST", "", 0)>>
             [] OTHER -> <<Pushed(node.value), Event("TYPECAST", "", 0)>>
      [] node.type = "DATA"      -> <<Pushed(node.value)>>
      [] OTHER -> <<>>

Run(file, node, r) ==
    LET kid(i) == node.kids[i]
        all == FoldLeft(LAMBDA s, list : RunAll(file, list, s), r, node.kids)
        orNil(list) == IF list = <<>> THEN Did(<<Pushed(NilConst)>>, r)
                       ELSE RunAll(file, list, r)
    IN CASE node.type \in {"OR", "AND"} ->
              LET s == RunAll(file, kid(1), r)
              IN  IF Answer(s, node.type = "AND") THEN RunAll(file, kid(2), Tested(s))
                  ELSE Asked(s)
         [] node.type = "STATEMENT" -> Popped(all)
         [] node.type = "IF" ->
              LET s == RunAll(file, kid(1), r)
              IN  IF Answer(s, TRUE) THEN RunAll(file, kid(2), Tested(s))
                  ELSE IF Answer(s, FALSE) THEN RunAll(file, kid(3), Tested(s))
                  ELSE Tested(s)
         [] node.type = "LOOP" -> Rounds(file, node, r)
         [] node.type \in {"FOR", "FOREACH"} -> Rounds(file, node, RunAll(file, kid(1), r))
         [] node.type = "BREAK" -> [r EXCEPT !.exit = "break"]
         [] node.type = "CONTINUE" -> [r EXCEPT !.exit = "continue"]
         [] node.type = "RETURN" ->
              LET s == orNil(kid(1))
              IN  IF s.exit = "on" THEN [s EXCEPT !.exit = "return"] ELSE s
         [] node.type = "INVOKE" ->
              Did(<<Event("INVOKE", "", Len(kid(2)))>>,
                  RunAll(file, kid(1), RunAll(file, kid(2), r)))
         [] node.type = "IN" ->
              Did(<<Event("IN", "", 0)>>, RunAll(file, kid(1), RunAll(file, kid(2), r)))
         [] node.type = "LOOKUP" ->
              IF IsGlobal(file, node.name)
              THEN Did(GlobalEvents(file, node.name) \o <<Event("INDEX", "", 0)>>, r)
              ELSE Did(<<Names(node.name)>>, r)
         [] node.type = "DECLARE" -> Did(<<Sets(node.name)>>, orNil(kid(1)))
         [] node.type = "ASSIGN" ->
              IF IsGlobal(file, node.name)
              THEN Did(<<Event("SETINDEX", "", 0)>>,
                       RunAll(file, kid(1), Did(GlobalEvents(file, node.name), r)))
              ELSE Did(<<Sets(node.name)>>, all)
         [] node.type = "PREOP" -> RunPreOp(file, node, r)
         [] node.type = "POSTOP" ->     \* of a variable
              Did(<<Event(node.op, "", 0), Sets(kid(1)[1].name)>>,
                  RunAll(file, kid(2), Did(<<Names(kid(1)[1].name), Event("COPY", "", 1)>>, r)))
         [] node.type = "NEW" ->
              LET s == Did(<<Pushed(node.value), Event("NEW", "", 0)>>, r)
              IN  IF node.op = "" THEN s
                  ELSE Did(<<Event("METHOD", "new", Len(kid(1)))>>, RunAll(file, kid(1), s))
         [] OTHER -> Did(Operation(node), all)

(* A function without return returns nil.                                  *)
MeaningOf(file, body, oracle) ==
    Did(<<Pushed(NilConst)>>, RunAll(file, body, Start(oracle)))

-----------------------------------------------------------------------------
(* Faults *)

(***************************************************************************)
(* A body is faultless when every break and continue is in a loop, every   *)
(* name is known, a variable is declared once, and what is assigned can    *)
(* be.  s: the variables so far, the globals that can be assigned, all     *)
(* other names, whether in a loop, and whether faultless so far.           *)
(***************************************************************************)
RECURSIVE Checked(_, _)
CheckedAll(lists, s) ==
    FoldLeft(LAMBDA r, nodes : FoldLeft(LAMBDA t, node : Checked(node, t), r, nodes), s, lists)

Checked(node, s) ==
    LET kids(t) == CheckedAll(node.kids, t)
        with    == [s EXCEPT !.vars = @ \cup {node.name}]
        but(b)  == [s EXCEPT !.ok = @ /\ b]
    IN  CASE node.type = "LOOKUP" -> but(node.name \in s.vars \cup s.globals \cup s.others)
          [] node.type = "ASSIGN" -> kids(but(node.name \in s.vars \cup s.globals))
          [] node.type = "DECLARE" ->
               CheckedAll(node.kids, [with EXCEPT !.ok = @ /\ node.name \notin s.vars])
          [] node.type \in {"PREOP", "POSTOP"} ->
               LET lval == node.kids[1][1]
               IN  kids(but(\/ lval.type \in {"GETINDEX", "GETMEMBER"}
                            \/ lval.type = "LOOKUP" /\ lval.name \in s.vars))
          [] node.type \in {"BREAK", "CONTINUE"} -> but(s.loop)
          [] node.type \in {"LOOP", "FOR"} ->
               [kids([s EXCEPT !.loop = TRUE]) EXCEPT !.loop = s.loop]
          [] node.type = "FOREACH" ->
               [kids([with EXCEPT !.loop = TRUE]) EXCEPT !.loop = s.loop]
          [] OTHER -> kids(s)

Faultless(body, vars, globals, others) ==
    CheckedAll(<<body>>, [vars |-> vars, globals |-> globals, others |-> others,
                          loop |-> FALSE, ok |-> TRUE]).ok

-----------------------------------------------------------------------------
(* Words *)

(* The trace of one instruction, the i-th word and its operands.           *)
Trace(f, i) ==
    LET c == f.code
        w == c[i]
        n == IF i < Len(c) /\ c[i + 1].word = "arg" THEN c[i + 1] ELSE [text |-> "", n |-> 0]
    IN  CASE w.text = "LOOKUP" -> <<Names(f.vars[n.n + 1])>>
          [] w.text \in {"ASSIGN", "ITER"} -> <<Event(w.text, f.vars[n.n + 1], 0)>>
          [] w.text = "PUSH" ->
               IF c[i + 1].value.kind \in {"function", "global"} THEN <<Names(c[i + 1].value.id)>>
               ELSE <<Pushed(c[i + 1].value)>>
          [] w.text = "METHOD" -> <<Event("METHOD", n.text, c[i + 2].n)>>
          [] w.text \in {"JUMP", "TJUMP", "FJUMP", "TEST", "POP"} -> <<>>
          [] OTHER -> <<Event(w.text, n.text, n.n)>>

Arguments(c, i) == IF \E j \in i + 1 .. Len(c) : c[j].word = "op"
                   THEN SelectInSubSeq(c, i + 1, Len(c), LAMBDA v : v.word = "op") - i - 1
                   ELSE Len(c) - i

RECURSIVE Exec(_, _, _, _)
Exec(f, i, flag, r) ==
    IF r.exit # "on" \/ i > Len(f.code) THEN r
    ELSE IF r.rounds = 40 THEN [r EXCEPT !.exit = "spins"]
    ELSE LET w    == f.code[i]
             asks == w.text \in {"TEST", "ITER"}
             t    == Did(Trace(f, i), [r EXCEPT !.rounds = @ + 1])
             s    == IF w.text = "POP" THEN Popped(t) ELSE t
             bit  == IF asks THEN Answer(s, TRUE) ELSE flag
             goes == CASE w.text = "JUMP" -> TRUE [] w.text = "TJUMP" -> flag
                       [] w.text = "FJUMP" -> ~flag [] OTHER -> FALSE
             next == IF goes THEN i + f.code[i + 1].n + 1
                     ELSE i + 1 + Arguments(f.code, i)
         IN  Exec(f, next, bit, IF ~asks THEN s
                                ELSE IF Known(s) THEN Asked(s)
                                ELSE [Asked(s) EXCEPT !.rounds = 0])

ExecutionOf(f, oracle) == Exec(f, 1, FALSE, Start(oracle))
=============================================================================
