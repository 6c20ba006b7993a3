------------------------------ MODULE MCLoader ------------------------------
(***************************************************************************)
(* Files with functions public and private, that use each other's, types   *)
(* with methods, globals, comments and strings, closed or not.             *)
(***************************************************************************)
EXTENDS Loader

MC_Name == {"f", "g", "h", "m", "x", "Array", "T", "U"}
MC_SystemTypes == [type \in {"Array"} |-> {"m"}]

Fun(name, pub, uses) == [name |-> name, pub |-> pub, uses |-> uses]
Definition(kind, f, parent, methods) ==
    [kind |-> kind, name |-> f.name, pub |-> f.pub, uses |-> f.uses,
     parent |-> parent, methods |-> methods]
Function(f) == Definition("function", f, "Array", <<>>)
Global(name) == Definition("global", Fun(name, FALSE, {}), "Array", <<>>)
Type(name, parent, methods) == Definition("type", Fun(name, FALSE, {}), parent, methods)

Piece(lex, def) == [lex |-> lex, def |-> def]
Some == Global("f")
Mark(lex) == Piece(lex, Some)
Newline == Mark("newline")
Line(def) == << Piece("whole", def), Newline >>
More(def) == << Piece("whole", def) >>             \* on the same line
Around(def, pieces) == << Piece("head", def) >> \o pieces \o << Piece("tail", def) >>
Lines(def) == Around(def, <<Newline>>)

Text(pieces, functions) ==
    [pieces |-> pieces, funcs |-> functions, sound |-> TRUE, closed |-> TRUE]
Unclosed(t) == [t EXCEPT !.closed = FALSE]
Faulty(pieces) == [Text(pieces, <<>>) EXCEPT !.sound = FALSE]

F == Fun("f", TRUE, {})
G == Fun("g", TRUE, {"f"})
P == Fun("f", FALSE, {"h"})
M == Fun("m", FALSE, {"f"})
N == Fun("h", FALSE, {"x"})

Calls   == { Text(Lines(Function(G)), <<G>>),
             Text(Line(Function(P)) \o More(Function(G)), <<P, G>>),
             Text(Line(Global("h")) \o More(Global("h")) \o More(Function(F)) \o More(Function(P)), <<F, P>>) }
Types   == { Text(Line(Function(F)) \o Lines(Type("T", "Array", <<N>>))
                  \o More(Type("U", "T", <<N>>)), <<F>>),
             Text(Line(Type("T", "Array", <<M>>)) \o More(Function(F)), <<F>>) }
Faults  == { Faulty(Line(Type("T", "U", <<N>>))), Faulty(Line(Function(Fun("Array", TRUE, {})))),
             Faulty(<<Piece("head", Function(F)), Newline>>),
             Faulty(Around(Type("T", "Array", <<N>>), Line(Global("g")))) }
Comments == { Text(<<Mark("//"), Mark("//"), Mark("'"), Newline>> \o More(Function(F)) \o <<Mark("/*"), Mark("//")>>
                   \o More(Function(G)) \o <<Mark("*/")>>, <<F>>),
              Text(Around(Function(F), Line(Global("g")) \o <<Mark("//")>> \o Line(Function(P))), <<F>>),
              Unclosed(Text(Line(Function(F)) \o <<Mark("//")>>, <<F>>)),
              Unclosed(Text(Line(Function(F)) \o <<Mark("/*")>>, <<F>>)),
              Unclosed(Text(Line(Function(F)) \o <<Mark("'"), Mark("\"")>>, <<F>>)),
              Faulty(<<Mark("\""), Mark("'")>> \o More(Function(F)) \o <<Mark("\"")>>) }

MC_Texts == Calls \cup Types \cup Faults \cup Comments
=============================================================================
