------------------------------- MODULE Loader -------------------------------
(***************************************************************************)
(* LoadFile and LoadString, one load after the other: the scanner's start  *)
(* conditions, what the grammar's actions collect, the order in which      *)
(* Compile checks, compiles and publishes, and what the System and the     *)
(* scanner keep for the next load.                                         *)
(*                                                                         *)
(* A text is a sequence of pieces: what changes the start condition, and   *)
(* definitions, each on one line (whole) or on two (head and tail).  Of a  *)
(* body it matters only which names of functions it uses: how it is        *)
(* compiled is in Compiler.                                                *)
(***************************************************************************)
EXTENDS Naturals, Sequences, FiniteSetsExt, Functions, SequencesExt

CONSTANTS
    Texts,                  \* what may be loaded: pieces, and what they mean
    Name,                   \* names of functions, globals, types and methods
    HostFunctions,          \* names of the C functions the host has added
    HostGlobals,            \* names of the values the host has added
    SystemTypes,            \* for each type of the System its methods' names
    Added,                  \* names of the methods that scripts add
    MaxLoads                \* bound: loads

VARIABLES
    start,                  \* the scanner's start condition
    public,                 \* System::funcs: which function a name means
    types,                  \* types by the load they belong to, and name
    phase,                  \* where in a load, or idle
    text, rest,             \* the text being loaded, and what is still unread
    errors, open,           \* a syntax error was found; a definition is begun
    funcs, extends, globals, \* what the grammar's actions have collected
    next,                   \* the next function to compile or publish
    bound,                  \* what the names in the bodies mean
    before,                 \* history: what was public when the load began
    log                     \* history: the loads that have returned

scanner  == <<start, rest>>
system   == <<public, types>>
compiler == <<funcs, extends, globals, errors, open>>
lvars    == <<scanner, system, compiler, phase, text, next, bound, before, log>>

Nobody    == <<0, 0>>       \* no function
NoText    == [pieces |-> <<>>, funcs |-> <<>>, sound |-> TRUE, closed |-> TRUE]
Load      == Len(log) + 1   \* this load's number; the host's is 0
Condition == {"INITIAL", "LCOMMENT", "BCOMMENT", "SSTRING", "DSTRING"}

FuncType  == [name : Name, pub : BOOLEAN, uses : SUBSET Name]
DefType   == [kind : {"function", "global", "type"}, name : Name, pub : BOOLEAN,
              uses : SUBSET Name, parent : Name, methods : Seq(FuncType)]
PieceType == [lex : {"newline", "//", "/*", "*/", "'", "\"", "whole", "head", "tail"},
              def : DefType]

(* What a reader of the text sees: whether it has the form of a file, its  *)
(* functions, and whether its last comment or string is closed.            *)
ASSUME TextsAssumption ==
    \A t \in Texts : /\ t.pieces \in Seq(PieceType) /\ t.funcs \in Seq(FuncType)
                     /\ t.sound \in BOOLEAN /\ t.closed \in BOOLEAN
                     /\ \A piece \in Range(t.pieces) :
                           piece.lex \in {"head", "tail"} => piece.def.kind # "global"
ASSUME SystemAssumption ==
    /\ MaxLoads \in Nat /\ HostFunctions \subseteq Name
    /\ HostGlobals \subseteq Name /\ Added \subseteq Name
    /\ SystemTypes \in [DOMAIN SystemTypes -> SUBSET Name] /\ DOMAIN SystemTypes \subseteq Name

-----------------------------------------------------------------------------
(* Types *)

(* The type a name means: one of this file, or of the System.              *)
IsType(name)  == <<Load, name>> \in DOMAIN types \/ <<0, name>> \in DOMAIN types
Known         == {name \in Name : IsType(name)}
GetType(name) == IF <<Load, name>> \in DOMAIN types THEN <<Load, name>> ELSE <<0, name>>

(* GetMethod: the type and then those above it are searched.               *)
GetMethod(type, name) ==
    LET line == types[type].line
        has  == {k \in DOMAIN line : name \in DOMAIN types[line[k]].methods}
    IN  IF has = {} THEN Nobody ELSE types[line[Min(has)]].methods[name]

(* AddType: a type that exists already does not get this far.              *)
NewType(name, parent) ==
    LET id == <<Load, name>>
    IN  types' = [t \in DOMAIN types \cup {id} |->
                    IF t = id THEN [line |-> <<id>> \o types[GetType(parent)].line,
                                    methods |-> <<>>]
                    ELSE types[t]]

(* AddMethod of a type: one of that name is replaced.                      *)
AddMethod(type, name, func) ==
    types' = [types EXCEPT ![type].methods =
                [n \in DOMAIN @ \cup {name} |-> IF n = name THEN func ELSE @[n]]]

Succeeded(k) == log[k].at = "publish"

(* Type.addMethod, called by a script: it raises an error if there is such *)
(* a method, and goes on.  A script knows the types of loads that went     *)
(* well.                                                                   *)
MethodAddMethod(type, name, func) ==
    /\ phase = "idle" /\ IF type[1] = 0 THEN TRUE ELSE Succeeded(type[1])
    /\ AddMethod(type, name, func)
    /\ UNCHANGED <<scanner, public, compiler, phase, text, next, bound, before, log>>

-----------------------------------------------------------------------------
(* A load begins, is scanned and parsed *)

(* A new Compiler; nothing tells the scanner.                              *)
LoadFile(t) ==
    /\ phase = "idle" /\ Len(log) < MaxLoads
    /\ phase' = "parse"
    /\ text' = t /\ rest' = t.pieces
    /\ funcs' = <<>> /\ extends' = <<>> /\ globals' = <<>>
    /\ errors' = FALSE /\ open' = <<>>
    /\ next' = 1 /\ bound' = {} /\ before' = public
    /\ UNCHANGED <<start, system, log>>

(* The load returns, having come so far; only one that published succeeds. *)
Return ==
    /\ phase' = "idle"
    /\ log' = Append(log, [text |-> text, at |-> phase, read |-> funcs, bound |-> bound])

(* The file cannot be opened, or the string is empty.                      *)
CannotOpen ==
    /\ phase = "idle" /\ Len(log) < MaxLoads
    /\ log' = Append(log, [text |-> NoText, at |-> "open", read |-> <<>>, bound |-> {}])
    /\ UNCHANGED <<scanner, system, compiler, phase, text, next, bound, before>>

SyntaxError == errors' = TRUE /\ UNCHANGED <<funcs, extends, globals, types>>

(* AddFunc, SetGlobal, and AddType with the AddMethods of its braces.      *)
AddFunc(def) ==
    /\ funcs' = Append(funcs, [name |-> def.name, pub |-> def.pub, uses |-> def.uses])
    /\ UNCHANGED <<extends, globals, types, errors>>
SetGlobal(def) ==           \* a second one is reported and ignored
    /\ globals' = IF Contains(globals, def.name) THEN globals ELSE Append(globals, def.name)
    /\ UNCHANGED <<funcs, extends, types, errors>>
AddType(def) ==
    /\ NewType(def.name, def.parent)
    /\ extends' = extends \o [k \in 1 .. Len(def.methods) |->
                                  [type |-> <<Load, def.name>>, func |-> def.methods[k]]]
    /\ UNCHANGED <<funcs, globals, errors>>

(* The scanner gives the name of a known type as another token: what is    *)
(* defined must not be a type, a parent must.                              *)
WellNamed(def, known) ==
    /\ def.name \notin known
    /\ def.kind = "type" => /\ def.parent \in known
                            /\ \A k \in DOMAIN def.methods :
                                  def.methods[k].name \notin known \cup {def.name}
Define(def) ==
    \/ WellNamed(def, Known) /\ def.kind = "function" /\ AddFunc(def)
    \/ WellNamed(def, Known) /\ def.kind = "global" /\ SetGlobal(def)
    \/ WellNamed(def, Known) /\ def.kind = "type" /\ AddType(def)
    \/ ~WellNamed(def, Known) /\ SyntaxError

Scan == /\ phase = "parse" /\ rest # <<>>
        /\ rest' = Tail(rest)
        /\ UNCHANGED <<public, phase, text, next, bound, before, log>>
Lex == Head(rest).lex
Def == Head(rest).def
Goes(condition) == start' = condition /\ UNCHANGED <<compiler, types>>

(* Mutant: it ends the comment it is in.                                   *)
InLineCommentUntilMark ==
    /\ start = "LCOMMENT" /\ Scan
    /\ Goes(IF Lex \in {"newline", "//"} THEN "INITIAL" ELSE start)

InLineComment ==
    /\ start = "LCOMMENT" /\ Scan
    /\ Goes(IF Lex = "newline" THEN "INITIAL" ELSE start)
InBlockComment ==
    /\ start = "BCOMMENT" /\ Scan
    /\ Goes(IF Lex = "*/" THEN "INITIAL" ELSE start)

(* A string between definitions is an error once it is complete.           *)
InString ==
    /\ start \in {"SSTRING", "DSTRING"} /\ Scan
    /\ IF Lex = (IF start = "SSTRING" THEN "'" ELSE "\"")
       THEN start' = "INITIAL" /\ SyntaxError /\ open' = <<>>
       ELSE Goes(start)

BeginComment ==
    /\ start = "INITIAL" /\ Scan
    /\ \/ Lex = "//" /\ Goes("LCOMMENT")
       \/ Lex = "/*" /\ Goes("BCOMMENT")
       \/ Lex = "'" /\ Goes("SSTRING")
       \/ Lex = "\"" /\ Goes("DSTRING")
       \/ Lex = "newline" /\ Goes(start)

(* What completes a definition, what may follow and what cannot.           *)
Completes(piece, begun) ==
    \/ piece.lex = "whole" /\ begun = <<>>
    \/ piece.lex = "tail" /\ begun = <<piece.def>>
Follows(piece, begun) ==
    \/ piece.lex = "head" /\ begun = <<>>
    \/ piece.lex = "whole" /\ piece.def.kind = "global"   \* a variable of a body
       /\ \E def \in Range(begun) : def.kind = "function"
Tokens ==
    /\ start = "INITIAL" /\ Scan
    /\ Lex \in {"whole", "head", "tail", "*/"}
    /\ \/ Completes(Head(rest), open) /\ Define(Def) /\ open' = <<>>
       \/ Follows(Head(rest), open) /\ open' = (IF open = <<>> THEN <<Def>> ELSE open)
          /\ UNCHANGED <<funcs, extends, globals, types, errors>>
       \/ ~Completes(Head(rest), open) /\ ~Follows(Head(rest), open)
          /\ SyntaxError /\ open' = <<>>
    /\ UNCHANGED start

(* Mutant: the end inside a definition is not noticed.                     *)
EndOfTextOpen ==
    /\ phase = "parse" /\ rest = <<>>
    /\ \/ errors /\ Return
       \/ ~errors /\ open = <<>> /\ phase' = "create" /\ UNCHANGED log
    /\ UNCHANGED <<scanner, system, compiler, text, next, bound, before>>

(* The end of the text: yyparse returns, and if all went well Compile is   *)
(* called.                                                                 *)
EndOfText ==
    /\ phase = "parse" /\ rest = <<>>
    /\ \/ /\ errors \/ open # <<>>
          /\ Return
       \/ /\ ~errors /\ open = <<>>
          /\ phase' = "create"
          /\ UNCHANGED log
    /\ UNCHANGED <<scanner, system, compiler, text, next, bound, before>>

-----------------------------------------------------------------------------
(* Compile *)

(* Mutant: the types above are not asked for the methods.                  *)
CreateUnchecked ==
    /\ phase = "create" /\ phase' = "compile"
    /\ UNCHANGED <<scanner, system, compiler, text, next, bound, before, log>>

(* The functions are created, those of types if there is no such method:   *)
(* the methods of this file are not there yet.                             *)
Create ==
    /\ phase = "create"
    /\ \/ /\ \E e \in Range(extends) : GetMethod(e.type, e.func.name) # Nobody
          /\ Return
       \/ /\ \A e \in Range(extends) : GetMethod(e.type, e.func.name) = Nobody
          /\ phase' = "compile"
          /\ UNCHANGED log
    /\ UNCHANGED <<scanner, system, compiler, text, next, bound, before>>

Own(name) == {p \in DOMAIN funcs : funcs[p].name = name}

(* Mutant: a public function goes before one of the file.                  *)
MeansPublic(name) ==
    IF name \in DOMAIN public THEN public[name]
    ELSE IF Own(name) # {} THEN <<Load, Min(Own(name))>>
    ELSE Nobody

(* SXP_LOOKUP of a name that is no variable: the first function of the     *)
(* file, or a public one; Nobody if it can only be a global.               *)
Means(name) ==
    IF Own(name) # {} THEN <<Load, Min(Own(name))>>
    ELSE IF name \in DOMAIN public THEN public[name]
    ELSE Nobody

(* Functions first, then methods.                                          *)
Bodies == funcs \o [k \in DOMAIN extends |-> extends[k].func]

(* One body: it may name what is unknown or have another fault, and a      *)
(* handler may reject it.                                                  *)
CompileBody ==
    /\ phase = "compile" /\ next <= Len(Bodies)
    /\ LET f == Bodies[next]
       IN  \/ /\ \A name \in f.uses :
                    Means(name) # Nobody \/ Contains(globals, name) \/ name \in HostGlobals
              /\ bound' = bound \cup { [name |-> name, to |-> Means(name)] : name \in f.uses }
              /\ next' = next + 1
              /\ UNCHANGED <<phase, log>>
           \/ Return /\ UNCHANGED <<bound, next>>
    /\ UNCHANGED <<scanner, system, compiler, text, before>>

EndCompile ==
    /\ phase = "compile" /\ next > Len(Bodies)
    /\ phase' = "extend" /\ next' = 1
    /\ UNCHANGED <<scanner, system, compiler, text, bound, before, log>>

ExtendType ==
    /\ phase = "extend" /\ next <= Len(extends)
    /\ AddMethod(extends[next].type, extends[next].func.name, <<Load, Len(funcs) + next>>)
    /\ next' = next + 1
    /\ UNCHANGED <<scanner, public, compiler, phase, text, bound, before, log>>

EndExtend ==
    /\ phase = "extend" /\ next > Len(extends)
    /\ phase' = "publish" /\ next' = 1
    /\ UNCHANGED <<scanner, system, compiler, text, bound, before, log>>

(* Mutant: places are counted from 0.                                      *)
PublishedBefore(fs, k, load, pub) ==
    [name \in DOMAIN pub \cup {fs[k].name} |-> IF name = fs[k].name THEN <<load, k - 1>> ELSE pub[name]]

(* AddFunction: what the name meant before is replaced.                    *)
Published(fs, k, load, pub) ==
    [name \in DOMAIN pub \cup {fs[k].name} |-> IF name = fs[k].name THEN <<load, k>> ELSE pub[name]]

(* Mutant: all are made public.                                            *)
PublicizeAll ==
    /\ phase = "publish" /\ next <= Len(funcs)
    /\ public' = Published(funcs, next, Load, public)
    /\ next' = next + 1
    /\ UNCHANGED <<scanner, types, compiler, phase, text, bound, before, log>>

Publicize ==
    /\ phase = "publish" /\ next <= Len(funcs)
    /\ public' = IF funcs[next].pub THEN Published(funcs, next, Load, public) ELSE public
    /\ next' = next + 1
    /\ UNCHANGED <<scanner, types, compiler, phase, text, bound, before, log>>

Loaded ==
    /\ phase = "publish" /\ next > Len(funcs)
    /\ Return
    /\ UNCHANGED <<scanner, system, compiler, text, next, bound, before>>

-----------------------------------------------------------------------------
Init ==
    /\ start = "INITIAL"
    /\ public = [name \in HostFunctions |-> <<0, 1>>]
    /\ types = [t \in {0} \X DOMAIN SystemTypes |->
                  [line |-> <<t>>, methods |-> [name \in SystemTypes[t[2]] |-> <<0, 2>>]]]
    /\ phase = "idle" /\ text = NoText /\ rest = <<>>
    /\ errors = FALSE /\ open = <<>>
    /\ funcs = <<>> /\ extends = <<>> /\ globals = <<>>
    /\ next = 1 /\ bound = {} /\ before = public /\ log = <<>>

Parse   == \/ InLineComment \/ InBlockComment \/ InString
           \/ BeginComment \/ Tokens \/ EndOfText
Compile == \/ Create \/ CompileBody \/ EndCompile
           \/ ExtendType \/ EndExtend \/ Publicize \/ Loaded
Next ==
    \/ CannotOpen \/ \E t \in Texts : LoadFile(t)
    \/ Parse \/ Compile
    \/ \E t \in DOMAIN types, name \in Added, func \in Range(public) :
          MethodAddMethod(t, name, func)

Spec == Init /\ [][Next]_lvars

(* A load goes on: one thread runs it, and nothing blocks.                 *)
FairSpec == Spec /\ WF_lvars(Parse \/ Compile)
-----------------------------------------------------------------------------
(* What a text says: how one who begins afresh reads it, piece by piece *)

NothingRead == [start |-> "INITIAL", open |-> <<>>, errors |-> FALSE, funcs |-> <<>>, own |-> {}]

Opens(lex) == CASE lex = "//" -> "LCOMMENT" [] lex = "/*" -> "BCOMMENT"
                [] lex = "'" -> "SSTRING" [] lex = "\"" -> "DSTRING"
Closes(condition) == CASE condition = "LCOMMENT" -> "newline" [] condition = "BCOMMENT" -> "*/"
                       [] condition = "SSTRING" -> "'" [] condition = "DSTRING" -> "\""

Wrong(r) == [r EXCEPT !.start = "INITIAL", !.open = <<>>, !.errors = TRUE]
Enter(r, def) ==
    [start |-> r.start, open |-> <<>>, errors |-> r.errors,
     own |-> IF def.kind = "type" THEN r.own \cup {def.name} ELSE r.own,
     funcs |-> IF def.kind = "function"
               THEN Append(r.funcs, [name |-> def.name, pub |-> def.pub, uses |-> def.uses])
               ELSE r.funcs]
Reads(r, piece) ==
    IF r.start # "INITIAL"
    THEN IF piece.lex # Closes(r.start) THEN r
         ELSE IF r.start \in {"SSTRING", "DSTRING"} THEN Wrong(r)
         ELSE [r EXCEPT !.start = "INITIAL"]
    ELSE IF piece.lex = "newline" THEN r
    ELSE IF piece.lex \in {"//", "/*", "'", "\""} THEN [r EXCEPT !.start = Opens(piece.lex)]
    ELSE IF Completes(piece, r.open) /\ WellNamed(piece.def, r.own \cup DOMAIN SystemTypes)
    THEN Enter(r, piece.def)
    ELSE IF Follows(piece, r.open)
    THEN [r EXCEPT !.open = IF @ = <<>> THEN <<piece.def>> ELSE @]
    ELSE Wrong(r)

Readings(t) ==
    LET read[k \in 0 .. Len(t.pieces)] ==
            IF k = 0 THEN NothingRead ELSE Reads(read[k - 1], t.pieces[k])
    IN  read
Reading(t) == Readings(t)[Len(t.pieces)]

(* What the texts are said to be is what is read in them.                  *)
ASSUME ReadAssumption ==
    \A t \in Texts : LET r == Reading(t)
                     IN  /\ t.closed <=> r.start = "INITIAL"
                         /\ t.sound <=> ~r.errors /\ r.open = <<>>
                         /\ t.sound => t.funcs = r.funcs

-----------------------------------------------------------------------------
(* Properties *)

(* Every variable has its type: a name means a function of the host or one *)
(* that a load has read.                                                   *)
LoaderTypeOK ==
    /\ start \in Condition
    /\ phase \in {"idle", "parse", "create", "compile", "extend", "publish"}
    /\ DOMAIN public \subseteq Name
    /\ \A name \in DOMAIN public :
          LET f == public[name]
          IN  \/ f = <<0, 1>>
              \/ f[1] \in DOMAIN log /\ f[2] \in DOMAIN log[f[1]].read
              \/ phase = "publish" /\ f[1] = Load /\ f[2] \in DOMAIN funcs
    /\ \A t \in DOMAIN types : /\ t \in (0 .. MaxLoads) \X Name
                               /\ Head(types[t].line) = t /\ Range(types[t].line) \subseteq DOMAIN types
                               /\ DOMAIN types[t].methods \subseteq Name
    /\ rest \in Seq(PieceType) /\ open \in Seq(DefType) /\ errors \in BOOLEAN
    /\ funcs \in Seq(FuncType) /\ globals \in Seq(Name)
    /\ extends \in Seq([type : DOMAIN types, func : FuncType])
    /\ next \in 1 .. Len(Bodies) + 1
    /\ bound \subseteq [name : Name, to : (0 .. Load) \X Nat]
    /\ Len(log) <= MaxLoads

(***************************************************************************)
(* Whatever fails wherever, a load is a single step: it makes all of its   *)
(* public functions accessible or none, and the names in its bodies mean   *)
(* its own functions, otherwise those public before it, never a private    *)
(* one of another file, one of a load that failed, or one replaced before. *)
(***************************************************************************)
SeenTable == IF phase = "publish" THEN before ELSE public
SeenLoads == [k \in DOMAIN log |-> [read |-> log[k].read, bound |-> log[k].bound,
                                   ok |-> Succeeded(k)]]
Table == INSTANCE Symbols WITH table <- SeenTable, loads <- SeenLoads
IsSymbols == Table!Spec

(***************************************************************************)
(* A load does not change what a method means, of a type of the System, of *)
(* another file or of its own, unless it was this file's: methods are      *)
(* checked before they are compiled and added after, one by one.           *)
(***************************************************************************)
MethodsKept ==
    [][phase # "idle" =>
         \A t \in DOMAIN types, name \in Name :
            LET func == GetMethod(t, name)
            IN  func # Nobody /\ func[1] # Load => GetMethod(t, name)' = func]_types

(***************************************************************************)
(* "Don't allow old methods to be over-ridden" (ChangeLog:467): a method   *)
(* that a type has is not replaced by a script.                            *)
(***************************************************************************)
OldMethodsKept ==
    [][phase = "idle" =>
         \A t \in DOMAIN types, name \in Name :
            GetMethod(t, name) # Nobody => GetMethod(t, name)' = GetMethod(t, name)]_types

(* Every load returns (LoadFile, whose caller waits), whatever the text is *)
(* and wherever it is given up.                                            *)
LoadReturns == phase # "idle" ~> phase = "idle"

(* A text that is read as something else than what it says: refused though *)
(* it has the form of a file, or not refused though it has not, or with    *)
(* other functions.                                                        *)
Misread(k) ==
    LET l == log[k]
    IN  l.at # "open" /\ IF l.at = "parse" THEN l.text.sound
                         ELSE ~l.text.sound \/ l.read # l.text.funcs

(***************************************************************************)
(* A text is only ever misread when the text of an earlier load ended      *)
(* inside a comment or a string.                                           *)
(***************************************************************************)
MisreadOnlyAfterOpen ==
    \A k \in DOMAIN log : Misread(k) => \E j \in 1 .. k - 1 : ~log[j].text.closed
=============================================================================
