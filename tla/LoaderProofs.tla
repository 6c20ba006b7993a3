---------------------------- MODULE LoaderProofs ----------------------------
(***************************************************************************)
(* Loader, for all texts, names and numbers of loads: its types, that it   *)
(* implements Symbols, that a load keeps the methods there are, and that   *)
(* it reads its text as what it says.                                      *)
(***************************************************************************)
EXTENDS Loader, SeqFacts, TLAPS

-----------------------------------------------------------------------------
(* The inductive invariant *)

TypeId    == (0 .. MaxLoads) \X Name
FuncId    == (Nat \X Nat) \ {Nobody}
Methods   == UNION { [names -> FuncId] : names \in SUBSET Name }
BoundType == [name : Name, to : Nat \X Nat]
Phase     == {"idle", "parse", "create", "compile", "extend", "publish"}
LogType   == [text : Texts \cup {NoText}, at : Phase \cup {"open"}, read : Seq(FuncType),
              bound : SUBSET BoundType]

LogOK ==
    /\ log \in Seq(LogType) /\ Len(log) <= MaxLoads
    /\ phase # "idle" => Len(log) < MaxLoads
    /\ text \in Texts \cup {NoText}

ReadOK ==
    /\ start \in Condition
    /\ phase \in Phase
    /\ rest \in Seq(PieceType) /\ open \in Seq(DefType) /\ errors \in BOOLEAN
    /\ funcs \in Seq(FuncType) /\ globals \in Seq(Name)
    /\ next \in 1 .. Len(funcs) + Len(extends) + 1

(* The line of a type begins with it, and from each type on it is made of  *)
(* that type's line.                                                       *)
LineOK(t) ==
    LET line == types[t].line
    IN  /\ line # <<>> /\ line[1] = t
        /\ \A j \in DOMAIN line :
              /\ line[j] \in DOMAIN types
              /\ \A i \in DOMAIN line : j <= i => line[i] \in Range(types[line[j]].line)
TypesOK ==
    /\ DOMAIN types \subseteq TypeId
    /\ types \in [DOMAIN types -> [line : Seq(TypeId), methods : Methods]]
    /\ \A t \in DOMAIN types : LineOK(t)
    /\ extends \in Seq([type : DOMAIN types, func : FuncType])

(* What a public name means is there.                                      *)
Exists(f) ==
    \/ f = <<0, 1>>
    \/ f[1] \in DOMAIN log /\ f[2] \in DOMAIN log[f[1]].read
    \/ phase = "publish" /\ f[1] = Load /\ f[2] \in DOMAIN funcs
NamesOK ==
    /\ DOMAIN public \subseteq Name /\ public \in [DOMAIN public -> Nat \X Nat]
    /\ \A name \in DOMAIN public : Exists(public[name])
    /\ bound \subseteq [name : Name, to : (0 .. Load) \X Nat]

(* Of the methods a file adds, no type in the line of theirs has one that  *)
(* is not this file's.                                                     *)
Fresh ==
    phase \in {"compile", "extend"} =>
       \A k \in DOMAIN extends : \A t \in Range(types[extends[k].type].line) :
          extends[k].func.name \in DOMAIN types[t].methods =>
             types[t].methods[extends[k].func.name][1] = Load

(* The public functions of the file before the next one to publish, and    *)
(* what is public when they are.                                           *)
PublicTo(name) ==
    {p \in DOMAIN funcs : p < next /\ funcs[p].name = name /\ funcs[p].pub}
PublishedTo ==
    [name \in DOMAIN before \cup {n \in Name : PublicTo(n) # {}} |->
        IF PublicTo(name) # {} THEN <<Load, Max(PublicTo(name))>> ELSE before[name]]

(* What a name means in a file loaded when `before' was public.            *)
MeantBefore(name) ==
    IF Own(name) # {} THEN <<Load, Min(Own(name))>>
    ELSE IF name \in DOMAIN before THEN before[name]
    ELSE Nobody

Progress ==
    /\ phase \in {"parse", "create", "compile", "extend"} => public = before
    /\ phase = "publish" => public = PublishedTo
    /\ phase \in {"parse", "create"} => bound = {}
    /\ phase \in {"compile", "extend", "publish"} =>
          \A b \in bound : b.to = MeantBefore(b.name)
    /\ phase = "publish" => next <= Len(funcs) + 1

Inv == LogOK /\ ReadOK /\ TypesOK /\ NamesOK /\ Fresh /\ Progress

-----------------------------------------------------------------------------
(* Types and methods *)

LEMMA LoadNat ==
    ASSUME LogOK
    PROVE  /\ Load \in Nat \ {0} /\ Len(log) \in Nat
           /\ DOMAIN log = 1 .. Len(log) /\ Load = Len(log) + 1
           /\ phase # "idle" => Load \in 0 .. MaxLoads
  BY SystemAssumption DEF LogOK, Load

LEMMA LineType ==
    ASSUME TypesOK, NEW t \in DOMAIN types
    PROVE  /\ types[t] \in [line : Seq(TypeId), methods : Methods]
           /\ types[t].line \in Seq(TypeId)
           /\ DOMAIN types[t].line = 1 .. Len(types[t].line)
           /\ Len(types[t].line) \in Nat
           /\ types[t].methods \in Methods
           /\ DOMAIN types[t].methods \subseteq Name
           /\ \A name \in DOMAIN types[t].methods : types[t].methods[name] \in FuncId
           /\ Range(types[t].line) \subseteq DOMAIN types
           /\ LineOK(t)
<1>1. types[t] \in [line : Seq(TypeId), methods : Methods]
  BY DEF TypesOK
<1>2. types[t].line \in Seq(TypeId) /\ types[t].methods \in Methods
  BY <1>1
<1>3. DOMAIN types[t].line = 1 .. Len(types[t].line) /\ Len(types[t].line) \in Nat
  BY <1>2
<1>4. LineOK(t)
  BY DEF TypesOK
<1>5. Range(types[t].line) \subseteq DOMAIN types
  BY <1>4 DEF LineOK, Range
<1>6. PICK names \in SUBSET Name : types[t].methods \in [names -> FuncId]
  BY <1>2 DEF Methods
<1>7. /\ DOMAIN types[t].methods \subseteq Name
      /\ \A name \in DOMAIN types[t].methods : types[t].methods[name] \in FuncId
  BY <1>6
<1> QED BY <1>1, <1>2, <1>3, <1>4, <1>5, <1>7

(* The places in a type's line where there is such a method: GetMethod     *)
(* finds the one at the first, if there is any.                            *)
HasAt(t, name) == {k \in DOMAIN types[t].line :
                      name \in DOMAIN types[types[t].line[k]].methods}

LEMMA MethodFound ==
    ASSUME TypesOK, NEW t \in DOMAIN types, NEW name
    PROVE  /\ HasAt(t, name) \subseteq Nat
           /\ GetMethod(t, name) = Nobody <=> HasAt(t, name) = {}
           /\ HasAt(t, name) # {} =>
                 /\ Min(HasAt(t, name)) \in HasAt(t, name)
                 /\ \A k \in HasAt(t, name) : Min(HasAt(t, name)) <= k
                 /\ GetMethod(t, name) =
                       types[types[t].line[Min(HasAt(t, name))]].methods[name]
<1>1. HasAt(t, name) \subseteq Nat
  BY LineType DEF HasAt
<1>2. GetMethod(t, name) = IF HasAt(t, name) = {} THEN Nobody
                           ELSE types[types[t].line[Min(HasAt(t, name))]].methods[name]
  BY DEF GetMethod, HasAt
<1>3. ASSUME HasAt(t, name) # {}
      PROVE  /\ Min(HasAt(t, name)) \in HasAt(t, name)
             /\ \A k \in HasAt(t, name) : Min(HasAt(t, name)) <= k
             /\ types[types[t].line[Min(HasAt(t, name))]].methods[name] \in FuncId
  <2>1. /\ Min(HasAt(t, name)) \in HasAt(t, name)
        /\ \A k \in HasAt(t, name) : Min(HasAt(t, name)) <= k
    BY <1>1, <1>3, MinNat
  <2> DEFINE s == types[t].line[Min(HasAt(t, name))]
  <2>2. s \in DOMAIN types /\ name \in DOMAIN types[s].methods
    BY <2>1, LineType DEF HasAt, LineOK
  <2>3. types[s].methods[name] \in FuncId
    BY <2>2, LineType
  <2> QED BY <2>1, <2>3
<1> QED BY <1>1, <1>2, <1>3 DEF FuncId

(* A type of this file: nothing changes for those there are.               *)
LEMMA NewTypeOK ==
    ASSUME LogOK, TypesOK, phase # "idle", NEW name \in Name, NEW parent,
           <<Load, name>> \notin DOMAIN types, IsType(parent), NewType(name, parent)
    PROVE  /\ DOMAIN types' = DOMAIN types \cup {<<Load, name>>}
           /\ \A t \in DOMAIN types : types'[t] = types[t]
           /\ DOMAIN types' \subseteq TypeId
           /\ types' \in [DOMAIN types' -> [line : Seq(TypeId), methods : Methods]]
           /\ \A t \in DOMAIN types' : LineOK(t)'
<1> DEFINE id == <<Load, name>>
           up == GetType(parent)
           new == [line |-> <<id>> \o types[up].line, methods |-> <<>>]
<1>1. up \in DOMAIN types
  BY DEF IsType, GetType
<1>2. types' = [t \in DOMAIN types \cup {id} |-> IF t = id THEN new ELSE types[t]]
  BY DEF NewType
<1>3. id \in TypeId
  BY LoadNat DEF TypeId
<1> HIDE DEF id, up
<1>4. /\ DOMAIN types' = DOMAIN types \cup {id} /\ types'[id] = new
      /\ \A t \in DOMAIN types : types'[t] = types[t]
  BY <1>2 DEF id
<1>5. /\ new.line \in Seq(TypeId) /\ Len(new.line) = Len(types[up].line) + 1
      /\ new.line[1] = id
      /\ \A k \in 1 .. Len(types[up].line) : new.line[k + 1] = types[up].line[k]
  <2> DEFINE line == types[up].line
  <2>0. line \in Seq(TypeId) /\ Len(line) \in Nat
    BY <1>1, LineType
  <2> HIDE DEF line
  <2>1. <<id>> \in Seq(TypeId) /\ Len(<<id>>) = 1 /\ <<id>>[1] = id
    BY <1>3
  <2>2. /\ <<id>> \o line \in Seq(TypeId) /\ Len(<<id>> \o line) = 1 + Len(line)
        /\ \A p \in 1 .. 1 + Len(line) :
              (<<id>> \o line)[p] = IF p <= 1 THEN <<id>>[p] ELSE line[p - 1]
    BY <2>0, <2>1, JoinSeq
  <2>3. /\ (<<id>> \o line)[1] = id
        /\ \A k \in 1 .. Len(line) : (<<id>> \o line)[k + 1] = line[k]
    BY <2>0, <2>1, <2>2
  <2> QED BY <2>0, <2>2, <2>3 DEF line
<1>6. new.methods \in Methods
  <2>1. <<>> \in [{} -> FuncId]
    OBVIOUS
  <2> QED BY <2>1 DEF Methods
<1>7. types' \in [DOMAIN types' -> [line : Seq(TypeId), methods : Methods]]
  <2>1. new \in [line : Seq(TypeId), methods : Methods]
    BY <1>5, <1>6
  <2>2. \A t \in DOMAIN types : types[t] \in [line : Seq(TypeId), methods : Methods]
    BY DEF TypesOK
  <2> HIDE DEF new
  <2> QED BY <1>2, <2>1, <2>2
<1>8. ASSUME NEW t \in DOMAIN types PROVE LineOK(t)'
  <2>1. types'[t] = types[t] /\ LineOK(t)
    BY <1>4 DEF TypesOK
  <2>2. \A j \in DOMAIN types[t].line : types'[types[t].line[j]] = types[types[t].line[j]]
    BY <1>4, <2>1 DEF LineOK
  <2> QED BY <1>4, <2>1, <2>2 DEF LineOK
<1>9. ASSUME NEW t, t = id PROVE LineOK(t)'
  <2>1. LineOK(up) /\ Len(types[up].line) \in Nat /\ DOMAIN types[up].line = 1 .. Len(types[up].line)
    BY <1>1, LineType
  <2>2. DOMAIN new.line = 1 .. Len(types[up].line) + 1 /\ new.line # <<>>
    <3> HIDE DEF new
    <3> QED BY <1>5, <2>1
  <2>3. \A i \in DOMAIN new.line : new.line[i] \in Range(new.line)
    BY DEF Range
  <2>4. ASSUME NEW j \in DOMAIN new.line, j # 1
        PROVE  /\ new.line[j] \in DOMAIN types
               /\ \A i \in DOMAIN new.line : j <= i => new.line[i] \in Range(types[new.line[j]].line)
    <3> HIDE DEF new
    <3>1. j - 1 \in DOMAIN types[up].line /\ new.line[j] = types[up].line[j - 1]
      <4>1. j - 1 \in 1 .. Len(types[up].line) /\ (j - 1) + 1 = j
        BY <2>1, <2>2, <2>4
      <4> QED BY <1>5, <2>1, <4>1
    <3>2. ASSUME NEW i \in DOMAIN new.line, j <= i
          PROVE  i - 1 \in DOMAIN types[up].line /\ new.line[i] = types[up].line[i - 1] /\ j - 1 <= i - 1
      <4>1. i - 1 \in 1 .. Len(types[up].line) /\ (i - 1) + 1 = i /\ j - 1 <= i - 1
        BY <2>1, <2>2, <2>4, <3>2
      <4> QED BY <1>5, <2>1, <4>1
    <3> QED BY <2>1, <3>1, <3>2 DEF LineOK
  <2> HIDE DEF new
  <2>5. ASSUME NEW j \in DOMAIN new.line
        PROVE  /\ new.line[j] \in DOMAIN types'
               /\ \A i \in DOMAIN new.line : j <= i => new.line[i] \in Range(types'[new.line[j]].line)
    <3>1. CASE j = 1
      BY <1>4, <1>5, <2>3, <3>1
    <3>2. CASE j # 1
      BY <1>4, <2>4, <3>2
    <3> QED BY <3>1, <3>2
  <2> QED BY <1>4, <1>5, <1>9, <2>2, <2>5 DEF LineOK
<1> QED BY <1>3, <1>4, <1>7, <1>8, <1>9 DEF id, TypesOK

(* A method more: the lines, and the other methods, stay.                  *)
LEMMA AddMethodOK ==
    ASSUME TypesOK, NEW type \in DOMAIN types, NEW name \in Name, NEW func \in FuncId,
           AddMethod(type, name, func)
    PROVE  /\ DOMAIN types' = DOMAIN types
           /\ \A t \in DOMAIN types :
                 /\ types'[t].line = types[t].line /\ LineOK(t)'
                 /\ t # type => types'[t].methods = types[t].methods
           /\ DOMAIN types'[type].methods = DOMAIN types[type].methods \cup {name}
           /\ \A n \in DOMAIN types'[type].methods :
                 types'[type].methods[n] = IF n = name THEN func ELSE types[type].methods[n]
           /\ types' \in [DOMAIN types' -> [line : Seq(TypeId), methods : Methods]]
<1> DEFINE old == types[type].methods
           more == [n \in DOMAIN old \cup {name} |-> IF n = name THEN func ELSE old[n]]
<1>1. types' = [types EXCEPT ![type].methods = more]
  BY DEF AddMethod
<1>2. /\ DOMAIN old \subseteq Name
      /\ \A n \in DOMAIN old : old[n] \in FuncId
      /\ types[type] \in [line : Seq(TypeId), methods : Methods]
  BY LineType
<1>3. more \in Methods
  <2>1. more \in [DOMAIN old \cup {name} -> FuncId]
    <3> HIDE DEF old
    <3> QED BY <1>2
  <2>2. DOMAIN old \cup {name} \in SUBSET Name
    BY <1>2
  <2> HIDE DEF more, old
  <2> QED BY <2>1, <2>2 DEF Methods
<1>4. DOMAIN more = DOMAIN old \cup {name}
  OBVIOUS
<1>5. \A n \in DOMAIN more : more[n] = IF n = name THEN func ELSE old[n]
  OBVIOUS
<1> HIDE DEF more
<1>6. /\ DOMAIN types' = DOMAIN types
      /\ types'[type].methods = more /\ types'[type].line = types[type].line
      /\ \A t \in DOMAIN types : t # type => types'[t] = types[t]
      /\ types'[type] \in [line : Seq(TypeId), methods : Methods]
      /\ types' = [t \in DOMAIN types |-> types'[t]]
  BY <1>1, <1>2, <1>3 DEF TypesOK
<1>7. \A t \in DOMAIN types : types'[t].line = types[t].line
  BY <1>6
<1>8. types' \in [DOMAIN types' -> [line : Seq(TypeId), methods : Methods]]
  BY <1>6 DEF TypesOK
<1>9. ASSUME NEW t \in DOMAIN types PROVE LineOK(t)'
  <2>1. LineOK(t)
    BY DEF TypesOK
  <2> QED BY <1>6, <1>7, <2>1 DEF LineOK
<1> QED BY <1>4, <1>5, <1>6, <1>7, <1>8, <1>9

-----------------------------------------------------------------------------
(* What single steps change *)

LEMMA SubsetSeq ==
    ASSUME NEW S, NEW T, S \subseteq T
    PROVE  Seq(S) \subseteq Seq(T)
  OBVIOUS

LEMMA PublicIds ==
    ASSUME LogOK, NamesOK, NEW name \in DOMAIN public
    PROVE  /\ public[name] \in FuncId
           /\ public[name] \in (0 .. Load) \X Nat
<1>1. public[name] \in Nat \X Nat /\ Exists(public[name])
  BY DEF NamesOK
<1>2. public[name][1] \in 0 .. Load /\ public[name] # Nobody
  BY <1>1, LoadNat DEF Exists, Nobody
<1> QED BY <1>1, <1>2 DEF FuncId

LEMMA BodiesType ==
    ASSUME ReadOK, TypesOK
    PROVE  /\ Bodies \in Seq(FuncType)
           /\ Len(Bodies) = Len(funcs) + Len(extends)
           /\ Len(funcs) \in Nat /\ Len(extends) \in Nat
           /\ DOMAIN funcs = 1 .. Len(funcs) /\ DOMAIN extends = 1 .. Len(extends)
           /\ \A k \in DOMAIN extends :
                 extends[k] \in [type : DOMAIN types, func : FuncType]
<1> DEFINE methods == [k \in DOMAIN extends |-> extends[k].func]
<1>1. /\ extends \in Seq([type : DOMAIN types, func : FuncType])
      /\ funcs \in Seq(FuncType)
  BY DEF TypesOK, ReadOK
<1>2. /\ Len(extends) \in Nat /\ DOMAIN extends = 1 .. Len(extends)
      /\ \A k \in DOMAIN extends :
            extends[k] \in [type : DOMAIN types, func : FuncType]
  <2> DEFINE Pair == [type : DOMAIN types, func : FuncType]
  <2>1. extends \in Seq(Pair)
    BY <1>1
  <2> HIDE DEF Pair
  <2>2. /\ Len(extends) \in Nat /\ DOMAIN extends = 1 .. Len(extends)
        /\ \A k \in DOMAIN extends : extends[k] \in Pair
    BY <2>1
  <2> QED BY <2>2 DEF Pair
<1>3. methods \in [1 .. Len(extends) -> FuncType]
  BY <1>2
<1> HIDE DEF methods
<1>4. methods \in Seq(FuncType) /\ Len(methods) = Len(extends)
  BY <1>2, <1>3, MakeSeq
<1>5. funcs \o methods \in Seq(FuncType) /\ Len(funcs \o methods) = Len(funcs) + Len(methods)
  BY <1>1, <1>4, JoinSeq
<1> QED BY <1>1, <1>2, <1>4, <1>5 DEF Bodies, methods

(* A load returns, or another one fails to begin: one more entry.          *)
LEMMA LoggedInv ==
    ASSUME Inv, NEW entry \in LogType, log' = Append(log, entry), Len(log) < MaxLoads,
           phase = "publish" => entry.read = funcs, phase' = "idle",
           UNCHANGED <<scanner, system, compiler, text, next, bound, before>>
    PROVE  Inv'
<1> USE DEF Inv
<1>1. /\ log' \in Seq(LogType) /\ Len(log') = Len(log) + 1
      /\ \A k \in 1 .. Len(log) : log'[k] = log[k]
      /\ log'[Len(log) + 1] = entry
      /\ Len(log) \in Nat /\ DOMAIN log = 1 .. Len(log) /\ DOMAIN log' = 1 .. Len(log) + 1
  <2>1. log \in Seq(LogType)
    BY DEF LogOK
  <2> HIDE DEF LogType
  <2>2. /\ log' \in Seq(LogType) /\ Len(log') = Len(log) + 1
        /\ \A k \in 1 .. Len(log) : log'[k] = log[k]
        /\ log'[Len(log) + 1] = entry
    BY <2>1, AppendSeq
  <2> QED BY <2>1, <2>2
<1>2. LogOK'
  BY <1>1, SystemAssumption DEF LogOK
<1>3. ReadOK'
  BY DEF ReadOK, Phase, scanner, compiler
<1>4. TypesOK'
  BY DEF TypesOK, LineOK, system, compiler
<1>5. NamesOK'
  <2>1. ASSUME NEW name \in DOMAIN public PROVE Exists(public[name])'
    <3>1. Exists(public[name])
      BY DEF NamesOK
    <3>2. CASE phase = "publish" /\ public[name][1] = Load /\ public[name][2] \in DOMAIN funcs
      BY <1>1, <3>2 DEF Exists, Load, system
    <3>3. CASE public[name][1] \in DOMAIN log /\ public[name][2] \in DOMAIN log[public[name][1]].read
      BY <1>1, <3>3 DEF Exists, system
    <3> QED BY <3>1, <3>2, <3>3 DEF Exists, system
  <2>2. Load' = Load + 1 /\ Load \in Nat
    BY <1>1 DEF Load
  <2>3. bound' \subseteq [name : Name, to : (0 .. Load') \X Nat]
    BY <2>2 DEF NamesOK
  <2> QED BY <2>1, <2>3 DEF NamesOK, system
<1>6. Fresh' /\ Progress'
  BY DEF Fresh, Progress
<1> QED BY <1>2, <1>3, <1>4, <1>5, <1>6

LEMMA ReturnInv ==
    ASSUME Inv, phase # "idle", Return,
           UNCHANGED <<scanner, system, compiler, text, next, bound, before>>
    PROVE  Inv'
<1> DEFINE entry == [text |-> text, at |-> phase, read |-> funcs, bound |-> bound]
<1>1. entry \in LogType
  <2>1. bound \subseteq BoundType
    <3>1. Load \in Nat
      BY LoadNat DEF Inv
    <3> QED BY <3>1 DEF Inv, NamesOK, BoundType
  <2>2. phase \in Phase
    BY DEF Inv, ReadOK
  <2>3. funcs \in Seq(FuncType) /\ text \in Texts \cup {NoText}
    BY DEF Inv, ReadOK, LogOK
  <2> QED BY <2>1, <2>2, <2>3 DEF LogType
<1>2. log' = Append(log, entry) /\ phase' = "idle"
  BY DEF Return
<1>3. Len(log) < MaxLoads
  BY DEF Inv, LogOK
<1>4. entry.read = funcs
  OBVIOUS
<1> HIDE DEF entry
<1> QED BY <1>1, <1>2, <1>3, <1>4, LoggedInv

(* Within a load, what is read and known stays.                            *)
LEMMA PhaseInv ==
    ASSUME Inv, phase \notin {"idle", "publish"}, phase' \in Phase,
           UNCHANGED <<scanner, system, compiler, text, before, log>>,
           next' \in 1 .. Len(funcs) + Len(extends) + 1,
           bound' \subseteq [name : Name, to : (0 .. Load) \X Nat],
           Fresh', Progress'
    PROVE  Inv'
<1> USE DEF Inv, scanner, system, compiler
<1>1. LogOK' /\ ReadOK'
  BY DEF LogOK, ReadOK
<1>2. TypesOK'
  BY DEF TypesOK, LineOK
<1>3. NamesOK'
  <2>1. ASSUME NEW name \in DOMAIN public PROVE Exists(public[name])'
    BY DEF NamesOK, Exists
  <2> QED BY <2>1 DEF NamesOK, Load
<1> QED BY <1>1, <1>2, <1>3

(* A piece of the text is read.                                            *)
LEMMA ScanInv ==
    ASSUME Inv, Scan, ReadOK', TypesOK'
    PROVE  Inv'
<1> USE DEF Inv, Scan
<1>1. LogOK'
  BY DEF LogOK
<1>2. NamesOK'
  <2>1. ASSUME NEW name \in DOMAIN public PROVE Exists(public[name])'
    BY DEF NamesOK, Exists
  <2> QED BY <2>1 DEF NamesOK, Load
<1>3. Fresh' /\ Progress'
  BY DEF Fresh, Progress
<1> QED BY <1>1, <1>2, <1>3

LEMMA PieceRead ==
    ASSUME Inv, Scan
    PROVE  rest' \in Seq(PieceType) /\ Head(rest) \in PieceType
           /\ Lex \in {"newline", "//", "/*", "*/", "'", "\"", "whole", "head", "tail"}
           /\ Def \in DefType
<1>1. rest \in Seq(PieceType) /\ rest # <<>> /\ rest' = Tail(rest)
  BY DEF Inv, ReadOK, Scan
<1> HIDE DEF PieceType
<1>2. rest' \in Seq(PieceType) /\ Head(rest) \in PieceType
  BY <1>1
<1> QED BY <1>2 DEF PieceType, Lex, Def

(* One that changes only the start condition, or is an error too.          *)
LEMMA SkipInv ==
    ASSUME Inv, Scan, start' \in Condition, errors' \in BOOLEAN,
           open' \in Seq(DefType), UNCHANGED <<funcs, extends, globals, types>>
    PROVE  Inv'
<1>1. ReadOK'
  BY PieceRead DEF Inv, ReadOK, Scan
<1>2. TypesOK'
  BY DEF Inv, TypesOK, LineOK
<1> QED BY <1>1, <1>2, ScanInv

(* A definition that is complete.                                          *)
LEMMA DefineInv ==
    ASSUME Inv, Scan, Define(Def), open' = <<>>, UNCHANGED start
    PROVE  Inv'
<1>0. /\ Def \in DefType /\ rest' \in Seq(PieceType) /\ start' \in Condition
      /\ next' = next /\ phase' = phase /\ phase = "parse" /\ open' \in Seq(DefType)
  <2>1. Def \in DefType /\ rest' \in Seq(PieceType)
    BY PieceRead
  <2>2. open' \in Seq(DefType) /\ start' \in Condition
    BY DEF Inv, ReadOK
  <2> QED BY <2>1, <2>2 DEF Scan
<1>1. CASE AddFunc(Def)
  <2> DEFINE func == [name |-> Def.name, pub |-> Def.pub, uses |-> Def.uses]
  <2>1. func \in FuncType
    BY <1>0 DEF DefType, FuncType
  <2>2. funcs' = Append(funcs, func) /\ funcs \in Seq(FuncType)
    BY <1>1 DEF AddFunc, Inv, ReadOK
  <2> HIDE DEF func, FuncType
  <2>3. funcs' \in Seq(FuncType) /\ Len(funcs') = Len(funcs) + 1 /\ Len(funcs) \in Nat
    BY <2>1, <2>2, AppendSeq
  <2>4. Len(extends) \in Nat
    BY BodiesType DEF Inv
  <2>5. ReadOK'
    BY <1>0, <1>1, <2>3, <2>4 DEF Inv, ReadOK, AddFunc
  <2>6. TypesOK'
    BY <1>1 DEF Inv, TypesOK, LineOK, AddFunc
  <2> QED BY <2>5, <2>6, ScanInv
<1>2. CASE SetGlobal(Def)
  <2>1. Def.name \in Name
    BY <1>0 DEF DefType
  <2>2. globals' \in Seq(Name)
    BY <1>2, <2>1, AppendSeq DEF SetGlobal, Inv, ReadOK
  <2>3. ReadOK'
    BY <1>0, <1>2, <2>2 DEF Inv, ReadOK, SetGlobal
  <2>4. TypesOK'
    BY <1>2 DEF Inv, TypesOK, LineOK, SetGlobal
  <2> QED BY <2>3, <2>4, ScanInv
<1>3. CASE WellNamed(Def, Known) /\ Def.kind = "type" /\ AddType(Def)
  <2> DEFINE id == <<Load, Def.name>>
             added == [k \in 1 .. Len(Def.methods) |-> [type |-> id, func |-> Def.methods[k]]]
  <2>1. Def.name \in Name /\ Def.methods \in Seq(FuncType) /\ id \notin DOMAIN types
        /\ IsType(Def.parent) /\ NewType(Def.name, Def.parent)
    BY <1>0, <1>3 DEF DefType, WellNamed, AddType, Known, IsType
  <2>2. /\ DOMAIN types' = DOMAIN types \cup {id}
        /\ DOMAIN types' \subseteq TypeId
        /\ types' \in [DOMAIN types' -> [line : Seq(TypeId), methods : Methods]]
        /\ \A t \in DOMAIN types' : LineOK(t)'
    BY <1>0, <2>1, NewTypeOK DEF Inv
  <2>3. added \in Seq([type : DOMAIN types', func : FuncType])
        /\ Len(added) = Len(Def.methods) /\ Len(Def.methods) \in Nat
    <3>1. Len(Def.methods) \in Nat /\ \A k \in 1 .. Len(Def.methods) : Def.methods[k] \in FuncType
      BY <2>1
    <3>2. added \in [1 .. Len(Def.methods) -> [type : DOMAIN types', func : FuncType]]
      BY <2>2, <3>1
    <3> HIDE DEF added
    <3> QED BY <3>1, <3>2, MakeSeq
  <2>4. extends \in Seq([type : DOMAIN types', func : FuncType])
    <3>1. [type : DOMAIN types, func : FuncType] \subseteq [type : DOMAIN types', func : FuncType]
      BY <2>2
    <3> QED BY <3>1, SubsetSeq DEF Inv, TypesOK
  <2>5. extends' = extends \o added
    BY <1>3 DEF AddType
  <2> HIDE DEF added
  <2>6. /\ extends' \in Seq([type : DOMAIN types', func : FuncType])
        /\ Len(extends') = Len(extends) + Len(Def.methods) /\ Len(extends) \in Nat
    <3> DEFINE Pair == [type : DOMAIN types', func : FuncType]
    <3>1. added \in Seq(Pair) /\ extends \in Seq(Pair)
      BY <2>3, <2>4
    <3> HIDE DEF Pair
    <3>2. /\ extends' \in Seq(Pair) /\ Len(extends') = Len(extends) + Len(added)
          /\ Len(extends) \in Nat
      BY <2>5, <3>1, JoinSeq
    <3> QED BY <2>3, <3>2 DEF Pair
  <2>7. TypesOK'
    BY <2>2, <2>6 DEF TypesOK
  <2>8. Len(funcs) \in Nat
    BY BodiesType DEF Inv
  <2>9. ReadOK'
    BY <1>0, <1>3, <2>3, <2>6, <2>8 DEF Inv, ReadOK, AddType
  <2> QED BY <2>7, <2>9, ScanInv
<1>4. CASE SyntaxError
  BY <1>0, <1>4, SkipInv DEF SyntaxError
<1> QED BY <1>1, <1>2, <1>3, <1>4 DEF Define

LEMMA ParseInv ==
    ASSUME Inv, Parse
    PROVE  Inv'
<1>0. start \in Condition /\ open \in Seq(DefType) /\ errors \in BOOLEAN
  BY DEF Inv, ReadOK
<1>1. CASE InLineComment
  <2>1. start' \in Condition
    BY <1>0, <1>1 DEF InLineComment, Goes, Condition
  <2> QED BY <1>0, <1>1, <2>1, SkipInv DEF InLineComment, Goes, compiler
<1>2. CASE InBlockComment
  <2>1. start' \in Condition
    BY <1>0, <1>2 DEF InBlockComment, Goes, Condition
  <2> QED BY <1>0, <1>2, <2>1, SkipInv DEF InBlockComment, Goes, compiler
<1>3. CASE InString
  <2>0. \/ start' = "INITIAL" /\ errors' = TRUE /\ open' = <<>>
        \/ start' = start /\ errors' = errors /\ open' = open
    BY <1>3 DEF InString, Goes, SyntaxError, compiler
  <2>1. start' \in Condition /\ errors' \in BOOLEAN /\ open' \in Seq(DefType)
    <3>1. CASE start' = "INITIAL" /\ errors' = TRUE /\ open' = <<>>
      BY <3>1 DEF Condition
    <3>2. CASE start' = start /\ errors' = errors /\ open' = open
      BY <1>0, <3>2
    <3> QED BY <2>0, <3>1, <3>2
  <2> QED BY <1>3, <2>1, SkipInv DEF InString, Goes, SyntaxError, compiler
<1>4. CASE BeginComment
  <2>1. start' \in Condition
    BY <1>0, <1>4 DEF BeginComment, Goes, Condition
  <2> QED BY <1>0, <1>4, <2>1, SkipInv DEF BeginComment, Goes, compiler
<1>5. CASE Tokens
  <2>1. Def \in DefType /\ Scan /\ start' = start
    BY <1>5, PieceRead DEF Tokens
  <2>2. CASE Completes(Head(rest), open) /\ Define(Def) /\ open' = <<>>
    BY <2>1, <2>2, DefineInv
  <2>3. CASE open' = (IF open = <<>> THEN <<Def>> ELSE open)
             /\ UNCHANGED <<funcs, extends, globals, types, errors>>
    <3>1. open' \in Seq(DefType)
      BY <1>0, <2>1, <2>3
    <3> QED BY <1>0, <2>1, <2>3, <3>1, SkipInv
  <2>4. CASE SyntaxError /\ open' = <<>>
    BY <1>0, <2>1, <2>4, SkipInv DEF SyntaxError
  <2> QED BY <1>5, <2>2, <2>3, <2>4 DEF Tokens
<1>6. CASE EndOfText
  <2>1. CASE Return
    BY <1>6, <2>1, ReturnInv DEF EndOfText
  <2>2. CASE phase' = "create" /\ UNCHANGED log
    <3>1. phase = "parse" /\ UNCHANGED <<scanner, system, compiler, text, next, bound, before, log>>
      BY <1>6, <2>2 DEF EndOfText
    <3>2. Fresh' /\ Progress' /\ phase' \in Phase
      BY <2>2, <3>1 DEF Inv, Fresh, Progress, Phase, system
    <3>3. /\ next' \in 1 .. Len(funcs) + Len(extends) + 1
          /\ bound' \subseteq [name : Name, to : (0 .. Load) \X Nat]
      BY <3>1 DEF Inv, ReadOK, NamesOK
    <3> QED BY <3>1, <3>2, <3>3, PhaseInv
  <2> QED BY <1>6, <2>1, <2>2 DEF EndOfText
<1> QED BY <1>1, <1>2, <1>3, <1>4, <1>5, <1>6 DEF Parse

(* What a name means once the file is read: Meaning of Symbols.            *)
LEMMA MeantType ==
    ASSUME Inv, phase # "publish", NEW name
    PROVE  /\ Means(name) \in (0 .. Load) \X Nat
           /\ public = before => Means(name) = MeantBefore(name)
<1>1. Load \in Nat
  BY LoadNat DEF Inv
<1>2. ASSUME Own(name) # {} PROVE Min(Own(name)) \in Nat
  <2>1. Own(name) \subseteq Nat
    BY BodiesType DEF Inv, Own
  <2> QED BY <1>2, <2>1, MinNat
<1>3. ASSUME name \in DOMAIN public PROVE public[name] \in (0 .. Load) \X Nat
  BY <1>3, PublicIds DEF Inv
<1>4. Nobody \in (0 .. Load) \X Nat
  BY <1>1 DEF Nobody
<1>5. Means(name) \in (0 .. Load) \X Nat
  <2>1. CASE Own(name) # {}
    BY <1>1, <1>2, <2>1 DEF Means
  <2>2. CASE Own(name) = {}
    BY <1>3, <1>4, <2>2 DEF Means
  <2> QED BY <2>1, <2>2
<1> QED BY <1>5 DEF Means, MeantBefore

LEMMA CreateInv == ASSUME Inv, Create PROVE Inv'
<1>0. phase = "create" /\ UNCHANGED <<scanner, system, compiler, text, next, bound, before>>
  BY DEF Create
<1>1. CASE Return
  BY <1>0, <1>1, ReturnInv
<1>2. CASE /\ \A e \in Range(extends) : GetMethod(e.type, e.func.name) = Nobody
           /\ phase' = "compile" /\ UNCHANGED log
  <2>1. ASSUME NEW k \in DOMAIN extends, NEW t \in Range(types[extends[k].type].line)
        PROVE  extends[k].func.name \notin DOMAIN types[t].methods
    <3> DEFINE e == extends[k]
    <3>1. e.type \in DOMAIN types
      BY BodiesType DEF Inv
    <3>2. GetMethod(e.type, e.func.name) = Nobody
      BY <1>2 DEF Range
    <3> HIDE DEF e
    <3>3. HasAt(e.type, e.func.name) = {}
      BY <3>1, <3>2, MethodFound DEF Inv
    <3>4. PICK j \in DOMAIN types[e.type].line : t = types[e.type].line[j]
      BY DEF Range, e
    <3> QED BY <3>3, <3>4 DEF HasAt, e
  <2>2. Fresh'
    BY <1>0, <2>1 DEF Fresh, system, compiler
  <2>3. Progress' /\ phase' \in Phase
    BY <1>0, <1>2 DEF Inv, Progress, Phase, system
  <2>4. /\ next' \in 1 .. Len(funcs) + Len(extends) + 1
        /\ bound' \subseteq [name : Name, to : (0 .. Load) \X Nat]
    BY <1>0 DEF Inv, ReadOK, NamesOK
  <2> QED BY <1>0, <1>2, <2>2, <2>3, <2>4, PhaseInv
<1> QED BY <1>1, <1>2 DEF Create

LEMMA CompileBodyInv == ASSUME Inv, CompileBody PROVE Inv'
<1>0. /\ phase = "compile" /\ next <= Len(Bodies)
      /\ UNCHANGED <<scanner, system, compiler, text, before>>
  BY DEF CompileBody
<1>1. CASE Return /\ UNCHANGED <<bound, next>>
  BY <1>0, <1>1, ReturnInv
<1>2. CASE /\ bound' = bound \cup { [name |-> name, to |-> Means(name)] : name \in Bodies[next].uses }
           /\ next' = next + 1 /\ UNCHANGED <<phase, log>>
  <2>1. Bodies[next] \in FuncType /\ next \in Nat /\ next' \in 1 .. Len(funcs) + Len(extends) + 1
    <3>1. /\ next \in 1 .. Len(Bodies) /\ Bodies \in Seq(FuncType)
          /\ Len(Bodies) = Len(funcs) + Len(extends)
      BY <1>0, BodiesType DEF Inv, ReadOK
    <3> HIDE DEF FuncType
    <3> QED BY <1>2, <3>1, BodiesType DEF Inv
  <2>2. Bodies[next].uses \subseteq Name
    BY <2>1 DEF FuncType
  <2>3. public = before
    BY <1>0 DEF Inv, Progress
  <2>4. \A name \in Name : Means(name) \in (0 .. Load) \X Nat /\ Means(name) = MeantBefore(name)
    BY <1>0, <2>3, MeantType
  <2>5. bound' \subseteq [name : Name, to : (0 .. Load) \X Nat]
    BY <1>2, <2>2, <2>4 DEF Inv, NamesOK
  <2>6. \A b \in bound' : b.to = MeantBefore(b.name)
    BY <1>0, <1>2, <2>2, <2>4 DEF Inv, Progress
  <2>7. \A name : MeantBefore(name)' = MeantBefore(name)
    BY <1>0, <1>2 DEF MeantBefore, Own, Load, compiler
  <2>8. Progress'
    BY <1>0, <1>2, <2>3, <2>6, <2>7 DEF Progress, system
  <2>9. Fresh'
    BY <1>0, <1>2 DEF Inv, Fresh, Load, system, compiler
  <2> QED BY <1>0, <1>2, <2>1, <2>5, <2>8, <2>9, PhaseInv DEF Phase
<1> QED BY <1>0, <1>1, <1>2 DEF CompileBody

LEMMA EndCompileInv == ASSUME Inv, EndCompile PROVE Inv'
<1>0. /\ phase = "compile" /\ phase' = "extend" /\ next' = 1
      /\ UNCHANGED <<scanner, system, compiler, text, bound, before, log>>
  BY DEF EndCompile
<1>1. next' \in 1 .. Len(funcs) + Len(extends) + 1
  BY <1>0, BodiesType DEF Inv
<1>2. bound' \subseteq [name : Name, to : (0 .. Load) \X Nat]
  BY <1>0 DEF Inv, NamesOK
<1>3. \A name : MeantBefore(name)' = MeantBefore(name)
  BY <1>0 DEF MeantBefore, Own, Load, compiler
<1>4. Fresh' /\ Progress'
  BY <1>0, <1>3 DEF Inv, Fresh, Progress, Load, system, compiler
<1> QED BY <1>0, <1>1, <1>2, <1>4, PhaseInv DEF Phase

LEMMA EndExtendInv == ASSUME Inv, EndExtend PROVE Inv'
<1>0. /\ phase = "extend" /\ phase' = "publish" /\ next' = 1
      /\ UNCHANGED <<scanner, system, compiler, text, bound, before, log>>
  BY DEF EndExtend
<1>1. /\ next' \in 1 .. Len(funcs) + Len(extends) + 1 /\ next' <= Len(funcs) + 1
      /\ DOMAIN funcs = 1 .. Len(funcs)
  BY <1>0, BodiesType DEF Inv
<1>2. bound' \subseteq [name : Name, to : (0 .. Load) \X Nat]
  BY <1>0 DEF Inv, NamesOK
<1>3. \A name : MeantBefore(name)' = MeantBefore(name)
  BY <1>0 DEF MeantBefore, Own, Load, compiler
<1>4. \A name : PublicTo(name)' = {}
  BY <1>0, <1>1 DEF PublicTo, compiler
<1>5. public = before /\ public = [name \in DOMAIN public |-> public[name]]
  BY <1>0 DEF Inv, Progress, NamesOK
<1>6. PublishedTo' = before
  BY <1>0, <1>4, <1>5 DEF PublishedTo
<1>7. Fresh' /\ Progress'
  BY <1>0, <1>1, <1>3, <1>5, <1>6 DEF Inv, Fresh, Progress, system, compiler
<1> QED BY <1>0, <1>1, <1>2, <1>7, PhaseInv DEF Phase

(* A method of the file is added to its type.                              *)
LEMMA ExtendTypeInv == ASSUME Inv, ExtendType PROVE Inv'
<1> DEFINE e == extends[next]
           func == <<Load, Len(funcs) + next>>
<1>0. /\ phase = "extend" /\ next <= Len(extends) /\ next' = next + 1
      /\ AddMethod(e.type, e.func.name, func)
      /\ UNCHANGED <<scanner, public, compiler, phase, text, bound, before, log>>
  BY DEF ExtendType
<1>1. /\ Len(funcs) \in Nat /\ Len(extends) \in Nat /\ DOMAIN extends = 1 .. Len(extends)
      /\ next \in 1 .. Len(extends)
  BY <1>0, BodiesType DEF Inv, ReadOK
<1>2. e.type \in DOMAIN types /\ e.func.name \in Name
  <2>1. e \in [type : DOMAIN types, func : FuncType]
    BY <1>1, BodiesType DEF Inv
  <2> QED BY <2>1 DEF FuncType
<1>3. func \in FuncId /\ func[1] = Load
  BY <1>1, LoadNat DEF Inv, FuncId, Nobody
<1>4. /\ DOMAIN types' = DOMAIN types
      /\ \A t \in DOMAIN types :
            /\ types'[t].line = types[t].line /\ LineOK(t)'
            /\ t # e.type => types'[t].methods = types[t].methods
      /\ DOMAIN types'[e.type].methods = DOMAIN types[e.type].methods \cup {e.func.name}
      /\ \A n \in DOMAIN types'[e.type].methods :
            types'[e.type].methods[n] = IF n = e.func.name THEN func ELSE types[e.type].methods[n]
      /\ types' \in [DOMAIN types' -> [line : Seq(TypeId), methods : Methods]]
  <2> HIDE DEF e, func
  <2> QED BY <1>0, <1>2, <1>3, AddMethodOK DEF Inv
<1>5. TypesOK'
  BY <1>0, <1>4 DEF Inv, TypesOK, compiler
<1>6. Fresh'
  <2> SUFFICES ASSUME NEW k \in DOMAIN extends, NEW t \in Range(types'[extends[k].type].line),
                      extends[k].func.name \in DOMAIN types'[t].methods
               PROVE  types'[t].methods[extends[k].func.name][1] = Load
    BY <1>0 DEF Fresh, Load, compiler
  <2>1. extends[k].type \in DOMAIN types
    BY BodiesType DEF Inv
  <2>2. t \in Range(types[extends[k].type].line) /\ t \in DOMAIN types
    BY <1>4, <2>1, LineType DEF Inv
  <2>3. CASE t # e.type \/ extends[k].func.name # e.func.name
    <3>1. extends[k].func.name \in DOMAIN types[t].methods
      BY <1>4, <2>2, <2>3
    <3>2. types[t].methods[extends[k].func.name][1] = Load
      BY <1>0, <2>2, <3>1 DEF Inv, Fresh
    <3>3. types'[t].methods[extends[k].func.name] = types[t].methods[extends[k].func.name]
      <4> HIDE DEF e, func
      <4> QED BY <1>4, <2>2, <2>3
    <3> QED BY <3>2, <3>3
  <2>4. CASE t = e.type /\ extends[k].func.name = e.func.name
    BY <1>3, <1>4, <2>4
  <2> QED BY <2>3, <2>4
<1>7. LogOK' /\ ReadOK'
  BY <1>0, <1>1 DEF Inv, LogOK, ReadOK, scanner, compiler
<1>8. NamesOK'
  <2>1. ASSUME NEW name \in DOMAIN public PROVE Exists(public[name])'
    BY <1>0 DEF Inv, NamesOK, Exists, Load, compiler
  <2> QED BY <1>0, <2>1 DEF Inv, NamesOK, Load
<1>9. Progress'
  <2>1. \A name : MeantBefore(name)' = MeantBefore(name)
    BY <1>0 DEF MeantBefore, Own, Load, compiler
  <2> QED BY <1>0, <2>1 DEF Inv, Progress
<1> QED BY <1>5, <1>6, <1>7, <1>8, <1>9 DEF Inv

(* One more function of the file is made public, if it is to be.           *)
LEMMA PublicizeInv == ASSUME Inv, Publicize PROVE Inv'
<1> DEFINE f == funcs[next]
<1>0. /\ phase = "publish" /\ next <= Len(funcs) /\ next' = next + 1
      /\ public' = IF f.pub THEN Published(funcs, next, Load, public) ELSE public
      /\ UNCHANGED <<scanner, types, compiler, phase, text, bound, before, log>>
  BY DEF Publicize
<1>1. /\ Len(funcs) \in Nat /\ Len(extends) \in Nat /\ DOMAIN funcs = 1 .. Len(funcs)
      /\ next \in 1 .. Len(funcs)
  BY <1>0, BodiesType DEF Inv, ReadOK
<1>2. f.name \in Name /\ f.pub \in BOOLEAN
  <2>1. funcs \in Seq(FuncType)
    BY DEF Inv, ReadOK
  <2>2. f \in FuncType
    <3> HIDE DEF FuncType
    <3> QED BY <1>1, <2>1
  <2> QED BY <2>2 DEF FuncType
<1>3. public = PublishedTo
  BY <1>0 DEF Inv, Progress
<1>4. PICK fn : fn = f.name
  OBVIOUS
<1>5. /\ \A n : PublicTo(n) \subseteq 1 .. next - 1
      /\ \A n : PublicTo(n)' = IF n = fn /\ f.pub THEN PublicTo(n) \cup {next} ELSE PublicTo(n)
  BY <1>0, <1>1, <1>4 DEF PublicTo, compiler
<1>6. public' = PublishedTo'
  <2>1. CASE ~f.pub
    <3>1. \A n : PublicTo(n)' = PublicTo(n)
      BY <1>5, <2>1
    <3>2. PublishedTo' = PublishedTo
      BY <1>0, <3>1 DEF PublishedTo, Load
    <3> QED BY <1>0, <1>3, <2>1, <3>2
  <2>2. CASE f.pub
    <3> DEFINE to == DOMAIN before \cup {n \in Name : PublicTo(n)' # {}}
    <3>1. to = DOMAIN public \cup {fn}
      BY <1>2, <1>3, <1>4, <1>5, <2>2 DEF PublishedTo
    <3>2. PublicTo(fn)' # {} /\ Max(PublicTo(fn)') = next
      <4> DEFINE T == PublicTo(fn) \cup {next}
      <4>1. PublicTo(fn)' = T /\ next \in T
        BY <1>5, <2>2
      <4>2. next \in Nat /\ T \subseteq 0 .. next
        BY <1>1, <1>5
      <4> HIDE DEF T
      <4>3. Max(T) \in T /\ \A y \in T : y <= Max(T)
        BY <4>1, <4>2, MaxNat
      <4>4. Max(T) \in 0 .. next /\ next <= Max(T)
        BY <4>1, <4>2, <4>3
      <4>5. Max(T) = next
        BY <4>2, <4>4
      <4> QED BY <4>1, <4>5
    <3>3. ASSUME NEW n \in to
          PROVE  (IF PublicTo(n)' # {} THEN <<Load, Max(PublicTo(n)')>> ELSE before[n])
                    = IF n = fn THEN <<Load, next>> ELSE public[n]
      <4>1. CASE n = fn
        BY <3>2, <4>1
      <4>2. CASE n # fn
        <5>1. PublicTo(n)' = PublicTo(n) /\ n \in DOMAIN PublishedTo
          BY <1>3, <1>5, <3>1, <4>2
        <5>2. PublishedTo[n] = IF PublicTo(n) # {} THEN <<Load, Max(PublicTo(n))>> ELSE before[n]
          BY <5>1 DEF PublishedTo
        <5> QED BY <1>3, <4>2, <5>1, <5>2
      <4> QED BY <4>1, <4>2
    <3>4. PublishedTo' = [n \in to |-> IF PublicTo(n)' # {} THEN <<Load, Max(PublicTo(n)')>> ELSE before[n]]
      BY <1>0 DEF PublishedTo, Load
    <3>5. public' = [n \in to |-> IF n = fn THEN <<Load, next>> ELSE public[n]]
      BY <1>0, <1>4, <2>2, <3>1 DEF Published
    <3> HIDE DEF to
    <3> QED BY <3>3, <3>4, <3>5
  <2> QED BY <1>2, <2>1, <2>2
<1>7. Progress' /\ Fresh'
  <2>1. \A name : MeantBefore(name)' = MeantBefore(name)
    BY <1>0 DEF MeantBefore, Own, Load, compiler
  <2> QED BY <1>0, <1>1, <1>6, <2>1 DEF Inv, Progress, Fresh, compiler
<1>8. LogOK' /\ ReadOK' /\ TypesOK'
  <2>1. LogOK' /\ ReadOK'
    BY <1>0, <1>1 DEF Inv, LogOK, ReadOK, scanner, compiler
  <2>2. TypesOK'
    BY <1>0 DEF Inv, TypesOK, LineOK, compiler
  <2> QED BY <2>1, <2>2
<1>9. NamesOK'
  <2>1. PICK new \in Nat \X Nat : new = <<Load, next>>
    <3>1. Load \in Nat
      BY LoadNat DEF Inv
    <3>2. <<Load, next>> \in Nat \X Nat
      BY <1>1, <3>1
    <3> QED BY <3>2
  <2>2. \A id : Exists(id) => Exists(id)'
    BY <1>0 DEF Exists, Load, compiler
  <2>3. Exists(new)'
    BY <1>0, <1>1, <2>1 DEF Exists, Load, compiler
  <2>4. /\ DOMAIN public' \subseteq DOMAIN public \cup {f.name}
        /\ public' = [name \in DOMAIN public' |-> public'[name]]
        /\ \A name \in DOMAIN public' :
              \/ name \in DOMAIN public /\ public'[name] = public[name]
              \/ public'[name] = new
    BY <1>0, <1>2, <2>1 DEF Published, Inv, NamesOK
  <2>5. DOMAIN public' \subseteq Name
    BY <1>2, <2>4 DEF Inv, NamesOK
  <2>6. \A name \in DOMAIN public : public[name] \in Nat \X Nat /\ Exists(public[name])
    BY DEF Inv, NamesOK
  <2>7. ASSUME NEW name \in DOMAIN public'
        PROVE  public'[name] \in Nat \X Nat /\ Exists(public[name])'
    <3>1. PICK id : id = public'[name]
      OBVIOUS
    <3>2. id \in Nat \X Nat /\ Exists(id)'
      BY <2>1, <2>2, <2>3, <2>4, <2>6, <3>1
    <3> QED BY <3>1, <3>2 DEF Exists
  <2>8. public' \in [DOMAIN public' -> Nat \X Nat]
    BY <2>4, <2>7
  <2>9. bound' \subseteq [name : Name, to : (0 .. Load') \X Nat]
    BY <1>0 DEF Inv, NamesOK, Load
  <2> QED BY <2>5, <2>7, <2>8, <2>9 DEF NamesOK
<1> QED BY <1>7, <1>8, <1>9 DEF Inv

LEMMA LoadFileInv == ASSUME Inv, NEW t \in Texts, LoadFile(t) PROVE Inv'
<1>0. /\ phase = "idle" /\ Len(log) < MaxLoads /\ phase' = "parse"
      /\ text' = t /\ rest' = t.pieces /\ next' = 1 /\ bound' = {} /\ before' = public
      /\ funcs' = <<>> /\ extends' = <<>> /\ globals' = <<>>
      /\ errors' = FALSE /\ open' = <<>>
      /\ UNCHANGED <<start, public, types, log>>
  BY DEF LoadFile, system
<1>1. LogOK'
  BY <1>0 DEF Inv, LogOK
<1>2. ReadOK'
  <2>1. t.pieces \in Seq(PieceType)
    BY TextsAssumption
  <2>2. Len(funcs') = 0 /\ Len(extends') = 0
    BY <1>0
  <2>3. errors' \in BOOLEAN
    BY <1>0
  <2> QED BY <1>0, <2>1, <2>2, <2>3 DEF Inv, ReadOK, Phase
<1>3. TypesOK'
  BY <1>0 DEF Inv, TypesOK, LineOK
<1>4. NamesOK'
  <2>1. ASSUME NEW name \in DOMAIN public PROVE Exists(public[name])'
    BY <1>0 DEF Inv, NamesOK, Exists
  <2> QED BY <1>0, <2>1 DEF Inv, NamesOK
<1>5. Fresh' /\ Progress'
  BY <1>0 DEF Fresh, Progress
<1> QED BY <1>1, <1>2, <1>3, <1>4, <1>5 DEF Inv

LEMMA MethodAddMethodInv ==
    ASSUME Inv, NEW type \in DOMAIN types, NEW name \in Added, NEW func \in Range(public),
           MethodAddMethod(type, name, func)
    PROVE  Inv'
<1>0. /\ phase = "idle" /\ AddMethod(type, name, func)
      /\ UNCHANGED <<scanner, public, compiler, phase, text, next, bound, before, log>>
  BY DEF MethodAddMethod
<1>1. func \in FuncId
  BY PublicIds DEF Inv, Range
<1>2. name \in Name
  BY SystemAssumption
<1>3. TypesOK'
  <2>1. /\ DOMAIN types' = DOMAIN types
        /\ \A t \in DOMAIN types : LineOK(t)'
        /\ types' \in [DOMAIN types' -> [line : Seq(TypeId), methods : Methods]]
    BY <1>0, <1>1, <1>2, AddMethodOK DEF Inv
  <2> QED BY <1>0, <2>1 DEF Inv, TypesOK, compiler
<1>4. LogOK' /\ ReadOK'
  BY <1>0 DEF Inv, LogOK, ReadOK, scanner, compiler
<1>5. NamesOK'
  <2>1. ASSUME NEW n \in DOMAIN public PROVE Exists(public[n])'
    BY <1>0 DEF Inv, NamesOK, Exists
  <2> QED BY <1>0, <2>1 DEF Inv, NamesOK, Load
<1>6. Fresh' /\ Progress'
  BY <1>0 DEF Fresh, Progress
<1> QED BY <1>3, <1>4, <1>5, <1>6 DEF Inv

LEMMA InitInv == Init => Inv
<1> SUFFICES ASSUME Init PROVE Inv
  OBVIOUS
<1>1. /\ start = "INITIAL" /\ public = [name \in HostFunctions |-> <<0, 1>>]
      /\ types = [t \in {0} \X DOMAIN SystemTypes |->
                    [line |-> <<t>>, methods |-> [name \in SystemTypes[t[2]] |-> <<0, 2>>]]]
      /\ phase = "idle" /\ text = NoText /\ rest = <<>> /\ errors = FALSE /\ open = <<>>
      /\ funcs = <<>> /\ extends = <<>> /\ globals = <<>>
      /\ next = 1 /\ bound = {} /\ log = <<>>
  BY DEF Init
<1>2. LogOK
  BY <1>1, SystemAssumption DEF LogOK
<1>3. ReadOK
  <2>1. Len(funcs) = 0 /\ Len(extends) = 0 /\ errors \in BOOLEAN
    BY <1>1
  <2> QED BY <1>1, <2>1 DEF ReadOK, Condition, Phase
<1>4. TypesOK
  <2>1. ASSUME NEW t \in DOMAIN types
        PROVE  /\ t \in TypeId /\ types[t].line = <<t>>
               /\ types[t] \in [line : Seq(TypeId), methods : Methods]
    <3>1. /\ t \in {0} \X DOMAIN SystemTypes /\ t[2] \in DOMAIN SystemTypes
          /\ types[t] = [line |-> <<t>>, methods |-> [name \in SystemTypes[t[2]] |-> <<0, 2>>]]
      BY <1>1
    <3>2. t \in TypeId /\ SystemTypes[t[2]] \in SUBSET Name
      BY <3>1, SystemAssumption DEF TypeId
    <3>3. <<t>> \in Seq(TypeId)
      BY <3>2
    <3>4. <<0, 2>> \in FuncId
      BY DEF FuncId, Nobody
    <3>5. [name \in SystemTypes[t[2]] |-> <<0, 2>>] \in Methods
      BY <3>2, <3>4 DEF Methods
    <3> QED BY <3>1, <3>2, <3>3, <3>5
  <2>2. ASSUME NEW t \in DOMAIN types PROVE LineOK(t)
    <3>1. types[t].line = <<t>> /\ DOMAIN <<t>> = {1} /\ <<t>>[1] = t /\ <<t>> # <<>>
      BY <2>1
    <3>2. t \in Range(<<t>>)
      BY <3>1 DEF Range
    <3> QED BY <3>1, <3>2 DEF LineOK
  <2>3. types = [t \in DOMAIN types |-> types[t]]
    BY <1>1
  <2> QED BY <1>1, <2>1, <2>2, <2>3 DEF TypesOK
<1>5. NamesOK
  BY <1>1, SystemAssumption DEF NamesOK, Exists
<1>6. Fresh /\ Progress
  BY <1>1 DEF Fresh, Progress
<1> QED BY <1>2, <1>3, <1>4, <1>5, <1>6 DEF Inv

LEMMA NextInv == ASSUME Inv, [Next]_lvars PROVE Inv'
<1>1. CASE CannotOpen
  <2> DEFINE entry == [text |-> NoText, at |-> "open", read |-> <<>>, bound |-> {}]
  <2>1. entry \in LogType
    BY DEF LogType
  <2>2. /\ log' = Append(log, entry) /\ Len(log) < MaxLoads /\ phase = "idle" /\ phase' = phase
        /\ UNCHANGED <<scanner, system, compiler, text, next, bound, before>>
    BY <1>1 DEF CannotOpen
  <2> HIDE DEF entry
  <2> QED BY <2>1, <2>2, LoggedInv
<1>2. CASE \E t \in Texts : LoadFile(t)
  BY <1>2, LoadFileInv
<1>3. CASE Parse
  BY <1>3, ParseInv
<1>4. CASE Loaded
  BY <1>4, ReturnInv DEF Loaded
<1>5. CASE Compile
  BY <1>4, <1>5, CreateInv, CompileBodyInv, EndCompileInv, ExtendTypeInv, EndExtendInv,
     PublicizeInv DEF Compile
<1>6. CASE \E t \in DOMAIN types, name \in Added, func \in Range(public) :
              MethodAddMethod(t, name, func)
  BY <1>6, MethodAddMethodInv
<1>7. CASE UNCHANGED lvars
  <2> USE <1>7 DEF Inv, lvars, scanner, system, compiler
  <2>1. LogOK' /\ ReadOK'
    BY DEF LogOK, ReadOK
  <2>2. TypesOK'
    BY DEF TypesOK, LineOK
  <2>3. NamesOK'
    <3>1. ASSUME NEW name \in DOMAIN public PROVE Exists(public[name])'
      BY DEF NamesOK, Exists, Load
    <3> QED BY <3>1 DEF NamesOK, Load
  <2>4. Fresh'
    BY DEF Fresh, Load
  <2>5. Progress'
    <3>1. \A name : MeantBefore(name)' = MeantBefore(name) /\ PublicTo(name)' = PublicTo(name)
      BY DEF MeantBefore, Own, PublicTo, Load
    <3>2. PublishedTo' = PublishedTo
      BY <3>1 DEF PublishedTo, Load
    <3> QED BY <3>1, <3>2 DEF Progress
  <2> QED BY <2>1, <2>2, <2>3, <2>4, <2>5
<1> QED BY <1>1, <1>2, <1>3, <1>5, <1>6, <1>7 DEF Next

LEMMA Invariance == Spec => []Inv
  BY InitInv, NextInv, PTL DEF Spec

(***************************************************************************)
(* The scanner, the grammar, the tables of types and of names keep their   *)
(* types, and what a public name means is a function of the host or one    *)
(* that a load has read, wherever loads are given up.                      *)
(***************************************************************************)
THEOREM LoaderTypeOKThm == Spec => []LoaderTypeOK
<1>1. ASSUME Inv PROVE LoaderTypeOK
  <2>1. \A t \in DOMAIN types :
           /\ t \in (0 .. MaxLoads) \X Name
           /\ Head(types[t].line) = t /\ Range(types[t].line) \subseteq DOMAIN types
           /\ DOMAIN types[t].methods \subseteq Name
    <3> TAKE t \in DOMAIN types
    <3>1. types[t].line \in Seq(TypeId) /\ LineOK(t) /\ Range(types[t].line) \subseteq DOMAIN types
          /\ DOMAIN types[t].methods \subseteq Name
      BY <1>1, LineType DEF Inv
    <3>2. Head(types[t].line) = t
      BY <3>1 DEF LineOK
    <3> QED BY <1>1, <3>1, <3>2 DEF Inv, TypesOK, TypeId
  <2>2. next \in 1 .. Len(Bodies) + 1
    BY <1>1, BodiesType DEF Inv, ReadOK
  <2>3. \A name \in DOMAIN public :
           LET f == public[name]
           IN  \/ f = <<0, 1>>
               \/ f[1] \in DOMAIN log /\ f[2] \in DOMAIN log[f[1]].read
               \/ phase = "publish" /\ f[1] = Load /\ f[2] \in DOMAIN funcs
    BY <1>1 DEF Inv, NamesOK, Exists
  <2>4. phase \in {"idle", "parse", "create", "compile", "extend", "publish"}
    BY <1>1 DEF Inv, ReadOK, Phase
  <2>5. /\ start \in Condition /\ rest \in Seq(PieceType) /\ open \in Seq(DefType)
        /\ errors \in BOOLEAN /\ funcs \in Seq(FuncType) /\ globals \in Seq(Name)
    BY <1>1 DEF Inv, ReadOK
  <2>6. /\ DOMAIN public \subseteq Name
        /\ extends \in Seq([type : DOMAIN types, func : FuncType])
        /\ bound \subseteq [name : Name, to : (0 .. Load) \X Nat]
        /\ Len(log) <= MaxLoads
    BY <1>1 DEF Inv, LogOK, TypesOK, NamesOK
  <2> QED BY <2>1, <2>2, <2>3, <2>4, <2>5, <2>6 DEF LoaderTypeOK
<1> QED BY <1>1, Invariance, PTL

-----------------------------------------------------------------------------
(* Symbols is implemented *)

(* What the history that Symbols sees gains when a load returns.           *)
LEMMA SeenMore ==
    ASSUME LogOK, NEW entry \in LogType, log' = Append(log, entry)
    PROVE  LET l == [read |-> entry.read, bound |-> entry.bound, ok |-> entry.at = "publish"]
           IN  /\ Len(SeenLoads) = Len(log) /\ Len(SeenLoads') = Len(SeenLoads) + 1
               /\ SeenLoads' = Append(SeenLoads, l) /\ Table!Last(SeenLoads') = l
<1> DEFINE l == [read |-> entry.read, bound |-> entry.bound, ok |-> entry.at = "publish"]
           Item(e) == [read |-> e.read, bound |-> e.bound, ok |-> e.at = "publish"]
           S == {Item(e) : e \in LogType}
<1>1. /\ log \in Seq(LogType) /\ Len(log) \in Nat /\ DOMAIN log = 1 .. Len(log)
      /\ log' \in Seq(LogType) /\ Len(log') = Len(log) + 1 /\ DOMAIN log' = 1 .. Len(log) + 1
      /\ \A k \in 1 .. Len(log) : log'[k] = log[k] /\ log[k] \in LogType
      /\ log'[Len(log) + 1] = entry
  <2>1. log \in Seq(LogType)
    BY DEF LogOK
  <2> HIDE DEF LogType
  <2>2. /\ log' \in Seq(LogType) /\ Len(log') = Len(log) + 1
        /\ \A k \in 1 .. Len(log) : log'[k] = log[k]
        /\ log'[Len(log) + 1] = entry
    BY <2>1, AppendSeq
  <2> QED BY <2>1, <2>2
<1>2. SeenLoads = [k \in 1 .. Len(log) |-> Item(log[k])]
  BY <1>1 DEF SeenLoads, Succeeded
<1>3. SeenLoads' = [k \in 1 .. Len(log) + 1 |-> Item(log'[k])]
  BY <1>1 DEF SeenLoads, Succeeded
<1>4. l \in S /\ \A k \in 1 .. Len(log) : Item(log[k]) \in S /\ Item(log'[k]) = Item(log[k])
  BY <1>1
<1>5. Item(log'[Len(log) + 1]) = l
  BY <1>1
<1> HIDE DEF Item, S, l
<1>6. SeenLoads \in Seq(S) /\ Len(SeenLoads) = Len(log)
  BY <1>1, <1>2, <1>4, MakeSeq
<1>7. /\ Append(SeenLoads, l) \in Seq(S) /\ Len(Append(SeenLoads, l)) = Len(log) + 1
      /\ \A k \in 1 .. Len(log) : Append(SeenLoads, l)[k] = SeenLoads[k]
      /\ Append(SeenLoads, l)[Len(log) + 1] = l
  BY <1>4, <1>6, AppendSeq
<1>8. \A k \in 1 .. Len(log) + 1 : SeenLoads'[k] = Append(SeenLoads, l)[k] /\ SeenLoads'[k] \in S
  BY <1>1, <1>2, <1>3, <1>4, <1>5, <1>7
<1>9. SeenLoads' \in Seq(S) /\ Len(SeenLoads') = Len(log) + 1
  <2>1. SeenLoads' \in [1 .. Len(log) + 1 -> S]
    BY <1>3, <1>8
  <2> QED BY <1>1, <2>1, MakeSeq
<1>10. SeenLoads' = Append(SeenLoads, l)
  BY <1>7, <1>8, <1>9, SameSeq
<1>11. Table!Last(SeenLoads') = l
  BY <1>1, <1>7, <1>9, <1>10 DEF Table!Last
<1> QED BY <1>6, <1>9, <1>10, <1>11 DEF l

(* An entry that is no success is refused.                                 *)
LEMMA RefuseStep ==
    ASSUME LogOK, NEW entry \in LogType, log' = Append(log, entry), entry.at # "publish",
           SeenTable' = SeenTable
    PROVE  Table!Next
<1> DEFINE l == [read |-> entry.read, bound |-> entry.bound, ok |-> entry.at = "publish"]
<1>1. /\ Len(SeenLoads') = Len(SeenLoads) + 1 /\ SeenLoads' = Append(SeenLoads, l) /\ Table!Last(SeenLoads') = l
  BY SeenMore
<1>2. l.ok = FALSE
  OBVIOUS
<1> HIDE DEF l
<1> QED BY <1>1, <1>2 DEF Table!Next, Table!Refuse

(* One that is makes all of its public functions accessible at once.       *)
LEMMA AcceptStep == ASSUME Inv, Loaded PROVE Table!Next
<1> DEFINE entry == [text |-> text, at |-> phase, read |-> funcs, bound |-> bound]
           l == [read |-> entry.read, bound |-> entry.bound, ok |-> entry.at = "publish"]
<1>0. /\ phase = "publish" /\ next > Len(funcs) /\ phase' = "idle"
      /\ log' = Append(log, entry) /\ public' = public
  BY DEF Loaded, Return, system
<1>1. entry \in LogType
  <2>1. bound \subseteq BoundType
    <3>1. Load \in Nat
      BY LoadNat DEF Inv
    <3> QED BY <3>1 DEF Inv, NamesOK, BoundType
  <2>2. phase \in Phase
    BY DEF Inv, ReadOK
  <2>3. funcs \in Seq(FuncType) /\ text \in Texts \cup {NoText}
    BY DEF Inv, ReadOK, LogOK
  <2> QED BY <2>1, <2>2, <2>3 DEF LogType
<1>2. /\ Len(SeenLoads) = Len(log) /\ Len(SeenLoads') = Len(SeenLoads) + 1
      /\ SeenLoads' = Append(SeenLoads, l) /\ Table!Last(SeenLoads') = l
  BY <1>0, <1>1, SeenMore DEF Inv
<1>3. l.ok /\ l.bound = bound /\ l.read = funcs
  BY <1>0
<1>4. /\ SeenTable = before /\ SeenTable' = public /\ public = PublishedTo
  BY <1>0 DEF SeenTable, Inv, Progress
<1>5. \A n : PublicTo(n) = {p \in DOMAIN funcs : funcs[p].name = n /\ funcs[p].pub}
  BY <1>0, BodiesType DEF PublicTo, Inv, ReadOK
<1>6. \A n : Table!PublicIn(funcs, n) = PublicTo(n) /\ Table!NamedIn(funcs, n) = Own(n)
  BY <1>5 DEF Table!PublicIn, Table!NamedIn, Own
<1>7. Load = Len(SeenLoads) + 1
  BY <1>2 DEF Load
<1>8. \A T : Table!Min(T) = Min(T) /\ Table!Max(T) = Max(T)
  BY DEF Table!Min, Min, Table!Max, Max
<1>9. Table!AllPublished(funcs) = PublishedTo
  BY <1>4, <1>6, <1>7, <1>8 DEF Table!AllPublished, PublishedTo
<1>10. \A b \in bound : b.to = Table!Meaning(funcs, b.name)
  <2>1. \A b \in bound : b.to = MeantBefore(b.name)
    BY <1>0 DEF Inv, Progress
  <2>2. \A n : Table!Meaning(funcs, n) = MeantBefore(n)
    BY <1>4, <1>6, <1>7, <1>8 DEF Table!Meaning, MeantBefore, Nobody, Table!Nobody
  <2> QED BY <2>1, <2>2
<1> HIDE DEF l
<1> QED BY <1>2, <1>3, <1>4, <1>9, <1>10 DEF Table!Next, Table!Accept

(* While a load goes on, nothing of it is seen.                            *)
LEMMA SeenStays ==
    ASSUME log' = log, SeenTable' = SeenTable
    PROVE  UNCHANGED <<SeenTable, SeenLoads>>
  BY DEF SeenLoads, Succeeded

LEMMA ReturnStep ==
    ASSUME Inv, phase \notin {"idle", "publish"}, Return, UNCHANGED <<system, before>>
    PROVE  Table!Next
<1> DEFINE entry == [text |-> text, at |-> phase, read |-> funcs, bound |-> bound]
<1>1. entry \in LogType
  <2>1. bound \subseteq BoundType
    <3>1. Load \in Nat
      BY LoadNat DEF Inv
    <3> QED BY <3>1 DEF Inv, NamesOK, BoundType
  <2>2. phase \in Phase
    BY DEF Inv, ReadOK
  <2>3. funcs \in Seq(FuncType) /\ text \in Texts \cup {NoText}
    BY DEF Inv, ReadOK, LogOK
  <2> QED BY <2>1, <2>2, <2>3 DEF LogType
<1>2. log' = Append(log, entry) /\ entry.at # "publish"
  BY DEF Return
<1>3. SeenTable' = SeenTable
  BY DEF Return, SeenTable, system
<1> HIDE DEF entry
<1> QED BY <1>1, <1>2, <1>3, RefuseStep DEF Inv

LEMMA SymbolsStep ==
    ASSUME Inv, [Next]_lvars
    PROVE  [Table!Next]_<<SeenTable, SeenLoads>>
<1>1. CASE CannotOpen
  <2> DEFINE entry == [text |-> NoText, at |-> "open", read |-> <<>>, bound |-> {}]
  <2>1. entry \in LogType /\ entry.at # "publish"
    BY DEF LogType
  <2>2. log' = Append(log, entry) /\ SeenTable' = SeenTable
    BY <1>1 DEF CannotOpen, SeenTable, system
  <2> HIDE DEF entry
  <2> QED BY <2>1, <2>2, RefuseStep DEF Inv
<1>2. CASE Loaded
  BY <1>2, AcceptStep
<1>3. CASE phase \notin {"idle", "publish"} /\ Return /\ UNCHANGED <<system, before>>
  BY <1>3, ReturnStep
<1>4. CASE log' = log /\ SeenTable' = SeenTable
  BY <1>4, SeenStays
<1>5. CASE \E t \in Texts : LoadFile(t)
  <2>1. log' = log /\ SeenTable' = SeenTable
    BY <1>5 DEF LoadFile, SeenTable, system
  <2> QED BY <1>4, <2>1
<1>6. CASE Scan
  <2>1. log' = log /\ SeenTable' = SeenTable
    BY <1>6 DEF Scan, SeenTable
  <2> QED BY <1>4, <2>1
<1>7. CASE EndOfText \/ Create \/ CompileBody
  <2>1. /\ phase \in {"parse", "create", "compile"} /\ UNCHANGED <<system, before>>
        /\ Return \/ (log' = log /\ phase' \in {"create", "compile"})
    <3>1. CASE EndOfText
      BY <3>1 DEF EndOfText
    <3>2. CASE Create
      BY <3>2 DEF Create
    <3>3. CASE CompileBody
      BY <3>3 DEF CompileBody
    <3> QED BY <1>7, <3>1, <3>2, <3>3
  <2>2. CASE log' = log /\ phase' \in {"create", "compile"}
    BY <1>4, <2>1, <2>2 DEF SeenTable, system
  <2> QED BY <1>3, <2>1, <2>2
<1>8. CASE EndCompile \/ ExtendType \/ Publicize
  <2>1. log' = log /\ SeenTable' = SeenTable
    BY <1>8 DEF EndCompile, ExtendType, Publicize, SeenTable, system
  <2> QED BY <1>4, <2>1
<1>9. CASE EndExtend
  <2>1. /\ phase = "extend" /\ phase' = "publish" /\ log' = log /\ before' = before
    BY <1>9 DEF EndExtend
  <2>2. public = before
    BY <2>1 DEF Inv, Progress
  <2>3. SeenTable' = SeenTable
    BY <2>1, <2>2 DEF SeenTable
  <2> QED BY <1>4, <2>1, <2>3
<1>10. CASE \E t \in DOMAIN types, name \in Added, func \in Range(public) :
               MethodAddMethod(t, name, func)
  <2>1. log' = log /\ SeenTable' = SeenTable
    BY <1>10 DEF MethodAddMethod, SeenTable
  <2> QED BY <1>4, <2>1
<1>11. CASE UNCHANGED lvars
  BY <1>4, <1>11 DEF lvars, system, SeenTable
<1>12. Parse => Scan \/ EndOfText
  BY DEF Parse, InLineComment, InBlockComment, InString, BeginComment, Tokens
<1> QED BY <1>1, <1>2, <1>5, <1>6, <1>7, <1>8, <1>9, <1>10, <1>11, <1>12 DEF Next, Compile

(***************************************************************************)
(* Whatever fails wherever, a load is a single step of Symbols: all of its *)
(* public functions or none, and names bound to its own functions or to    *)
(* those public before it.                                                 *)
(***************************************************************************)
THEOREM IsSymbolsThm == Spec => IsSymbols
<1>1. Init => Table!Init
  <2> SUFFICES ASSUME Init PROVE Table!Init
    OBVIOUS
  <2>1. public = [name \in HostFunctions |-> <<0, 1>>] /\ phase = "idle" /\ log = <<>>
    BY DEF Init
  <2>2. SeenLoads = <<>>
    BY <2>1 DEF SeenLoads
  <2>3. SeenTable = public
    BY <2>1 DEF SeenTable
  <2> QED BY <2>1, <2>2, <2>3 DEF Table!Init
<1>2. Inv /\ [Next]_lvars =>
        [Table!Next]_<<SeenTable, SeenLoads>>
  BY SymbolsStep
<1> QED BY <1>1, <1>2, Invariance, PTL DEF Spec, IsSymbols, Table!Spec

-----------------------------------------------------------------------------
(* Methods are kept *)

LEMMA StepKeepsMethods ==
    ASSUME Inv, [Next]_lvars, phase # "idle", NEW t \in DOMAIN types, NEW name \in Name,
           NEW func, func = GetMethod(t, name), func # Nobody, func[1] # Load
    PROVE  GetMethod(t, name)' = func
<1>1. CASE types' = types
  BY <1>1 DEF GetMethod
<1>2. CASE ExtendType
  <2> DEFINE e == extends[next]
             new == <<Load, Len(funcs) + next>>
  <2>0. /\ phase = "extend" /\ next <= Len(extends)
        /\ AddMethod(e.type, e.func.name, new)
    BY <1>2 DEF ExtendType
  <2>1. next \in DOMAIN extends /\ Len(funcs) + next \in Nat
    BY <2>0, BodiesType DEF Inv, ReadOK
  <2>2. e \in [type : DOMAIN types, func : FuncType]
    BY <2>1, BodiesType DEF Inv
  <2>3. e.type \in DOMAIN types /\ e.func.name \in Name /\ new \in FuncId
    BY <2>1, <2>2, LoadNat DEF Inv, FuncType, FuncId, Nobody
  <2>4. PICK at, m : at = e.type /\ m = e.func.name
    OBVIOUS
  <2>5. /\ DOMAIN types' = DOMAIN types
        /\ \A s \in DOMAIN types :
              /\ types'[s].line = types[s].line
              /\ s # at => types'[s].methods = types[s].methods
        /\ DOMAIN types'[at].methods = DOMAIN types[at].methods \cup {m}
        /\ \A n \in DOMAIN types'[at].methods :
              n # m => types'[at].methods[n] = types[at].methods[n]
    <3> HIDE DEF e, new
    <3> QED BY <2>0, <2>3, <2>4, AddMethodOK DEF Inv
  <2>6. \A s \in Range(types[at].line) :
           m \in DOMAIN types[s].methods => types[s].methods[m][1] = Load
    BY <2>0, <2>1, <2>4 DEF Inv, Fresh
  <2> DEFINE line == types[t].line
             has == HasAt(t, name)
             first == Min(has)
  <2>7. /\ has \subseteq Nat /\ has # {} /\ first \in has
        /\ \A k \in has : first <= k
        /\ func = types[line[first]].methods[name]
    BY MethodFound DEF Inv
  <2>8. /\ LineOK(t) /\ first \in DOMAIN line /\ DOMAIN line \subseteq Nat
        /\ name \in DOMAIN types[line[first]].methods
    <3>1. LineOK(t) /\ DOMAIN line \subseteq Nat
      BY LineType DEF Inv
    <3>2. \A k \in has : k \in DOMAIN line /\ name \in DOMAIN types[line[k]].methods
      BY DEF HasAt
    <3> QED BY <2>7, <3>1, <3>2
  <2> HIDE DEF first, line, has
  <2>9. ASSUME NEW k \in DOMAIN line, line[k] = at, name = m PROVE first < k
    <3>1. k \in Nat /\ first \in Nat
      BY <2>8
    <3>2. CASE k <= first
      <4>1. line[first] \in Range(types[at].line)
        BY <2>8, <2>9, <3>2 DEF LineOK, line
      <4>2. func[1] = Load
        BY <2>6, <2>7, <2>8, <2>9, <4>1
      <4> QED BY <4>2
    <3> QED BY <3>1, <3>2
  <2>10. PICK after : after = HasAt(t, name)'
    OBVIOUS
  <2>11. /\ after = {k \in DOMAIN line : name \in DOMAIN types'[line[k]].methods}
         /\ \A k \in DOMAIN line : line[k] \in DOMAIN types
    BY <2>5, <2>8, <2>10 DEF HasAt, LineOK, line
  <2>12. first \in after /\ after \subseteq Nat /\ \A k \in after : first <= k
    <3>1. first \in after
      BY <2>5, <2>8, <2>11
    <3>2. ASSUME NEW k \in after PROVE first <= k
      <4>1. k \in DOMAIN line /\ k \in Nat /\ first \in Nat
        BY <2>8, <2>11
      <4>2. CASE line[k] = at /\ name = m
        BY <2>9, <4>1, <4>2
      <4>3. CASE ~(line[k] = at /\ name = m)
        <5>1. name \in DOMAIN types[line[k]].methods
          BY <2>5, <2>11, <4>1, <4>3
        <5>2. k \in has
          BY <4>1, <5>1 DEF HasAt, has, line
        <5> QED BY <2>7, <5>2
      <4> QED BY <4>2, <4>3
    <3> QED BY <2>8, <2>11, <3>1, <3>2
  <2>13. Min(after) = first
    <3>1. Min(after) \in after /\ \A y \in after : Min(after) <= y
      BY <2>12, MinNat
    <3>2. Min(after) \in Nat /\ first \in Nat /\ first <= Min(after) /\ Min(after) <= first
      BY <2>12, <3>1
    <3> QED BY <3>2
  <2>14. GetMethod(t, name)' = types'[types'[t].line[Min(after)]].methods[name]
    BY <2>10, <2>12 DEF GetMethod, HasAt
  <2>15. types'[line[first]].methods[name] = types[line[first]].methods[name]
    <3>1. ~(line[first] = at /\ name = m)
      BY <2>8, <2>9
    <3> QED BY <2>5, <2>8, <2>11, <2>12, <3>1
  <2> QED BY <2>5, <2>7, <2>13, <2>14, <2>15 DEF line
<1>3. CASE Tokens /\ types' # types
  <2>1. PICK n, parent \in Name :
           IsType(parent) /\ <<Load, n>> \notin DOMAIN types /\ NewType(n, parent)
    <3>1. Define(Def) /\ Scan
      BY <1>3 DEF Tokens, SyntaxError
    <3>2. Def.name \in Name /\ Def.parent \in Name
      BY <3>1, PieceRead DEF DefType
    <3>3. WellNamed(Def, Known) /\ Def.kind = "type" /\ AddType(Def)
      BY <1>3, <3>1 DEF Define, AddFunc, SetGlobal, SyntaxError
    <3>4. IsType(Def.parent) /\ <<Load, Def.name>> \notin DOMAIN types
      BY <3>2, <3>3 DEF WellNamed, Known, IsType
    <3>5. NewType(Def.name, Def.parent)
      BY <3>3 DEF AddType
    <3> QED BY <3>2, <3>4, <3>5
  <2>2. /\ DOMAIN types' = DOMAIN types \cup {<<Load, n>>}
        /\ \A s \in DOMAIN types : types'[s] = types[s]
    BY <2>1, NewTypeOK DEF Inv
  <2>3. types'[t].line = types[t].line /\ \A k \in DOMAIN types[t].line : types'[types[t].line[k]] = types[types[t].line[k]]
    BY <2>2, LineType DEF Inv, LineOK
  <2>4. HasAt(t, name)' = HasAt(t, name)
    BY <2>3 DEF HasAt
  <2>5. GetMethod(t, name)' = IF HasAt(t, name)' = {} THEN Nobody
                              ELSE types'[types'[t].line[Min(HasAt(t, name)')]].methods[name]
    BY DEF GetMethod, HasAt
  <2>6. HasAt(t, name) # {} /\ Min(HasAt(t, name)) \in DOMAIN types[t].line
        /\ func = types[types[t].line[Min(HasAt(t, name))]].methods[name]
    BY MethodFound DEF Inv, HasAt
  <2> QED BY <2>3, <2>4, <2>5, <2>6
<1>4. ExtendType \/ Tokens \/ types' = types
  BY DEF Next, CannotOpen, LoadFile, Parse, InLineComment, InBlockComment, InString,
         BeginComment, EndOfText, Compile, Create, CompileBody, EndCompile, EndExtend,
         Publicize, Loaded, MethodAddMethod, Goes, SyntaxError, system, lvars
<1> QED BY <1>1, <1>2, <1>3, <1>4

(***************************************************************************)
(* A load does not change what a method means that is not its own, of any  *)
(* type, wherever the type or one above it gets new ones.                  *)
(***************************************************************************)
THEOREM MethodsKeptThm == Spec => MethodsKept
<1>1. Inv /\ [Next]_lvars =>
        [phase # "idle" =>
           \A t \in DOMAIN types, name \in Name :
              LET func == GetMethod(t, name)
              IN  func # Nobody /\ func[1] # Load => GetMethod(t, name)' = func]_types
  <2> SUFFICES ASSUME Inv, [Next]_lvars, phase # "idle",
                      NEW t \in DOMAIN types, NEW name \in Name,
                      GetMethod(t, name) # Nobody, GetMethod(t, name)[1] # Load
               PROVE  GetMethod(t, name)' = GetMethod(t, name)
    OBVIOUS
  <2>1. PICK func : func = GetMethod(t, name)
    OBVIOUS
  <2> QED BY <2>1, StepKeepsMethods
<1> QED BY <1>1, Invariance, PTL DEF Spec, MethodsKept

-----------------------------------------------------------------------------
(* A text is read as what it says *)

ReadType == [start : Condition, open : Seq(DefType), errors : BOOLEAN,
             funcs : Seq(FuncType), own : SUBSET Name]

LEMMA ReadsType ==
    ASSUME NEW r \in ReadType, NEW piece \in PieceType
    PROVE  Reads(r, piece) \in ReadType
<1>0. /\ r.start \in Condition /\ r.open \in Seq(DefType) /\ r.errors \in BOOLEAN
      /\ r.funcs \in Seq(FuncType) /\ r.own \in SUBSET Name
      /\ r = [start |-> r.start, open |-> r.open, errors |-> r.errors, funcs |-> r.funcs,
              own |-> r.own]
  BY DEF ReadType
<1>1. piece.def \in DefType /\ piece.lex \in {"newline", "//", "/*", "*/", "'", "\"", "whole", "head", "tail"}
  BY DEF PieceType
<1>2. "INITIAL" \in Condition /\ \A lex \in {"//", "/*", "'", "\""} : Opens(lex) \in Condition
  BY DEF Condition, Opens
<1>3. \A c \in Condition : [r EXCEPT !.start = c] \in ReadType
  BY <1>0 DEF ReadType
<1>4. Wrong(r) \in ReadType
  <2>1. <<>> \in Seq(DefType) /\ TRUE \in BOOLEAN
    BY EmptySeq
  <2> QED BY <1>0, <1>2, <2>1 DEF Wrong, ReadType
<1>5. Enter(r, piece.def) \in ReadType
  <2>1. PICK def \in DefType : def = piece.def
    BY <1>1
  <2>2. PICK f : f = [name |-> def.name, pub |-> def.pub, uses |-> def.uses]
    OBVIOUS
  <2>3. f \in FuncType /\ def.name \in Name
    BY <2>2 DEF DefType, FuncType
  <2>4. Append(r.funcs, f) \in Seq(FuncType)
    BY <1>0, <2>3, AppendSeq
  <2>5. PICK fs : fs = IF def.kind = "function" THEN Append(r.funcs, f) ELSE r.funcs
    OBVIOUS
  <2>6. PICK own : own = IF def.kind = "type" THEN r.own \cup {def.name} ELSE r.own
    OBVIOUS
  <2>7. fs \in Seq(FuncType) /\ own \in SUBSET Name
    BY <1>0, <2>3, <2>4, <2>5, <2>6
  <2>8. Enter(r, def) = [start |-> r.start, open |-> <<>>, errors |-> r.errors,
                           own |-> own, funcs |-> fs]
    BY <2>2, <2>5, <2>6 DEF Enter
  <2>9. <<>> \in Seq(DefType)
    OBVIOUS
  <2> QED BY <1>0, <2>1, <2>7, <2>8, <2>9 DEF ReadType
<1>6. [r EXCEPT !.open = IF r.open = <<>> THEN <<piece.def>> ELSE r.open] \in ReadType
  <2>1. PICK o : o = IF r.open = <<>> THEN <<piece.def>> ELSE r.open
    OBVIOUS
  <2>2. o \in Seq(DefType)
    <3>1. PICK def \in DefType : def = piece.def
      BY <1>1
    <3> HIDE DEF DefType
    <3>2. <<def>> \in Seq(DefType)
      OBVIOUS
    <3> QED BY <1>0, <2>1, <3>1, <3>2
  <2> QED BY <1>0, <2>1, <2>2 DEF ReadType
<1> QED BY <1>1, <1>2, <1>3, <1>4, <1>5, <1>6 DEF Reads

(* The readings of a text are what they are defined as.                    *)
LEMMA ReadingsAre ==
    ASSUME NEW t \in Texts
    PROVE  /\ Readings(t)[0] = NothingRead
           /\ \A k \in 1 .. Len(t.pieces) : Readings(t)[k] = Reads(Readings(t)[k - 1], t.pieces[k])
<1>1. PICK s \in Seq(PieceType) : s = t.pieces
  BY TextsAssumption
<1>2. PICK n \in Nat : n = Len(s)
  OBVIOUS
<1>3. PICK base : base = NothingRead
  OBVIOUS
<1>4. base \in ReadType
  BY <1>3, EmptySeq DEF NothingRead, ReadType, Condition
<1>5. \A k \in 1 .. n : s[k] \in PieceType
  <2> HIDE DEF PieceType
  <2> QED BY <1>2
<1>6. PICK F : /\ F \in [(1 .. n) \X ReadType -> ReadType]
               /\ \A k \in 1 .. n, r \in ReadType : F[<<k, r>>] = Reads(r, s[k])
  <2> DEFINE G == [x \in (1 .. n) \X ReadType |-> Reads(x[2], s[x[1]])]
  <2>1. \A k \in 1 .. n, r \in ReadType : Reads(r, s[k]) \in ReadType
    BY <1>5, ReadsType
  <2>2. G \in [(1 .. n) \X ReadType -> ReadType]
    BY <2>1
  <2>3. \A k \in 1 .. n, r \in ReadType : G[<<k, r>>] = Reads(r, s[k])
    OBVIOUS
  <2> HIDE DEF G
  <2> QED BY <2>2, <2>3
<1>7. PICK f \in [0 .. n -> ReadType] : Folding(f, n, base, F)
  <2>1. F \in [(1 .. n) \X ReadType -> ReadType] /\ n \in Nat /\ base \in ReadType
    BY <1>2, <1>4, <1>6
  <2> QED BY <2>1, FoldExists
<1> DEFINE Steps(g) == g = [k \in 0 .. n |-> IF k = 0 THEN base ELSE Reads(g[k - 1], s[k])]
           read == CHOOSE g : Steps(g)
<1>8. Steps(f)
  <2>1. \A k \in 0 .. n : f[k] = IF k = 0 THEN base ELSE Reads(f[k - 1], s[k])
    <3> SUFFICES ASSUME NEW k \in 0 .. n
                 PROVE  f[k] = IF k = 0 THEN base ELSE Reads(f[k - 1], s[k])
      OBVIOUS
    <3>1. CASE k = 0
      BY <1>2, <1>7, <3>1 DEF Folding
    <3>2. CASE k # 0
      <4>1. k \in 1 .. n /\ k - 1 \in 0 .. n
        BY <1>2, <3>2
      <4>2. f[k] = F[<<k, f[k - 1]>>] /\ f[k - 1] \in ReadType
        BY <1>7, <3>2, <4>1 DEF Folding
      <4> QED BY <1>6, <3>2, <4>1, <4>2
    <3> QED BY <3>1, <3>2
  <2> QED BY <1>7, <2>1
<1>9. Steps(read)
  <2> HIDE DEF Steps
  <2> QED BY <1>8
<1>10. read[0] = base /\ \A k \in 1 .. n : read[k] = Reads(read[k - 1], s[k])
  <2>1. PICK g : g = read /\ Steps(g)
    BY <1>9
  <2> HIDE DEF read
  <2>2. g[0] = base /\ \A k \in 1 .. n : g[k] = Reads(g[k - 1], s[k])
    BY <1>2, <2>1
  <2> QED BY <2>1, <2>2
<1>11. Readings(t) = read
  BY <1>1, <1>2, <1>3 DEF Readings
<1> QED BY <1>1, <1>2, <1>3, <1>10, <1>11

(* The names of the types of the file being loaded, and what has been read *)
(* of its text, as a reader who began afresh would keep it.                *)
OwnTypes == {name \in Name : <<Load, name>> \in DOMAIN types}
NowRead  == [start |-> start, open |-> open, errors |-> errors, funcs |-> funcs,
             own |-> OwnTypes]
AtPiece(k) ==
    /\ k \in 0 .. Len(text.pieces)
    /\ rest = SubSeq(text.pieces, k + 1, Len(text.pieces))
    /\ NowRead = Readings(text)[k]

(* No text so far has ended inside a comment or a string.                  *)
Clean == \A j \in DOMAIN log : log[j].text.closed

TypesKnown ==
    /\ \A name \in Name : <<0, name>> \in DOMAIN types <=> name \in DOMAIN SystemTypes
    /\ \A t \in DOMAIN types : t[1] <= Load /\ (phase = "idle" => t[1] < Load)
AsRead ==
    /\ phase # "idle" => text \in Texts
    /\ Clean =>
          /\ phase = "idle" => start = "INITIAL"
          /\ phase = "parse" => \E k : AtPiece(k)
          /\ phase \in {"create", "compile", "extend", "publish"} =>
                start = Reading(text).start /\ text.sound /\ funcs = text.funcs

ReadInv == TypesKnown /\ AsRead /\ MisreadOnlyAfterOpen

(* The scanner's types are the reader's.                                   *)
LEMMA KnownTypes ==
    ASSUME TypesKnown
    PROVE  Known = OwnTypes \cup DOMAIN SystemTypes
<1>1. \A name \in Name : <<0, name>> \in DOMAIN types <=> name \in DOMAIN SystemTypes
  BY DEF TypesKnown
<1>2. DOMAIN SystemTypes \subseteq Name
  BY SystemAssumption
<1> QED BY <1>1, <1>2 DEF Known, OwnTypes, IsType

LEMMA OwnStays == ASSUME types' = types, log' = log PROVE OwnTypes' = OwnTypes
  BY DEF OwnTypes, Load

(* One step of the scanner and the grammar does what the reader does.      *)
LEMMA WithinReads ==
    ASSUME InLineComment \/ InBlockComment \/ InString
    PROVE  NowRead' = Reads(NowRead, Head(rest))
<1>0. PICK piece : piece = Head(rest)
  OBVIOUS
<1>1. types' = types /\ log' = log /\ funcs' = funcs
  BY DEF InLineComment, InBlockComment, InString, Scan, Goes, SyntaxError, compiler
<1>2. OwnTypes' = OwnTypes
  BY <1>1, OwnStays
<1>3. CASE InLineComment
  <2>1. /\ start = "LCOMMENT" /\ open' = open /\ errors' = errors
        /\ start' = IF piece.lex = "newline" THEN "INITIAL" ELSE start
    BY <1>0, <1>3 DEF InLineComment, Goes, compiler, Lex
  <2>2. Closes("LCOMMENT") = "newline"
    BY DEF Closes
  <2> QED BY <1>0, <1>1, <1>2, <2>1, <2>2 DEF NowRead, Reads
<1>4. CASE InBlockComment
  <2>1. /\ start = "BCOMMENT" /\ open' = open /\ errors' = errors
        /\ start' = IF piece.lex = "*/" THEN "INITIAL" ELSE start
    BY <1>0, <1>4 DEF InBlockComment, Goes, compiler, Lex
  <2>2. Closes("BCOMMENT") = "*/"
    BY DEF Closes
  <2> QED BY <1>0, <1>1, <1>2, <2>1, <2>2 DEF NowRead, Reads
<1>5. CASE InString
  <2>1. start \in {"SSTRING", "DSTRING"}
    BY <1>5 DEF InString
  <2>2. Closes("SSTRING") = "'" /\ Closes("DSTRING") = "\""
    BY DEF Closes
  <2>3. Closes(start) = IF start = "SSTRING" THEN "'" ELSE "\""
    BY <2>1, <2>2
  <2>4. CASE piece.lex = Closes(start)
    <3>1. start' = "INITIAL" /\ errors' = TRUE /\ open' = <<>>
      BY <1>0, <1>5, <2>3, <2>4 DEF InString, SyntaxError, Lex
    <3> QED BY <1>0, <1>1, <1>2, <2>1, <2>4, <3>1 DEF NowRead, Reads, Wrong
  <2>5. CASE piece.lex # Closes(start)
    <3>1. start' = start /\ errors' = errors /\ open' = open
      BY <1>0, <1>5, <2>3, <2>5 DEF InString, Goes, compiler, Lex
    <3> QED BY <1>0, <1>1, <1>2, <2>1, <2>5, <3>1 DEF NowRead, Reads
  <2> QED BY <2>4, <2>5
<1> QED BY <1>3, <1>4, <1>5

LEMMA BeginCommentReads ==
    ASSUME BeginComment PROVE NowRead' = Reads(NowRead, Head(rest))
<1>0. PICK piece : piece = Head(rest)
  OBVIOUS
<1>1. /\ types' = types /\ log' = log /\ funcs' = funcs /\ open' = open /\ errors' = errors
      /\ start = "INITIAL"
  BY DEF BeginComment, Scan, Goes, compiler
<1>2. OwnTypes' = OwnTypes
  BY <1>1, OwnStays
<1>3. /\ Opens("//") = "LCOMMENT" /\ Opens("/*") = "BCOMMENT"
      /\ Opens("'") = "SSTRING" /\ Opens("\"") = "DSTRING"
  BY DEF Opens
<1>4. \/ piece.lex = "newline" /\ start' = start
      \/ piece.lex \in {"//", "/*", "'", "\""} /\ start' = Opens(piece.lex)
  BY <1>0, <1>3 DEF BeginComment, Goes, Lex
<1> QED BY <1>0, <1>1, <1>2, <1>4 DEF NowRead, Reads

LEMMA TokensReads ==
    ASSUME Inv, TypesKnown, Tokens PROVE NowRead' = Reads(NowRead, Head(rest))
<1>0. PICK piece : piece = Head(rest)
  OBVIOUS
<1>1. PICK def : def = piece.def
  OBVIOUS
<1>2. /\ start = "INITIAL" /\ start' = start /\ log' = log /\ Scan
      /\ piece.lex \in {"whole", "head", "tail", "*/"}
      /\ Def = def /\ def \in DefType
  BY <1>0, <1>1, PieceRead DEF Tokens, Scan, Lex, Def
<1>3. Known = OwnTypes \cup DOMAIN SystemTypes
  BY KnownTypes
<1>4. ~(Completes(piece, open) /\ Follows(piece, open))
  BY DEF Completes, Follows, Range
<1>5. Reads(NowRead, piece) =
         IF Completes(piece, open) /\ WellNamed(def, Known) THEN Enter(NowRead, def)
         ELSE IF Follows(piece, open)
         THEN [NowRead EXCEPT !.open = IF open = <<>> THEN <<def>> ELSE open]
         ELSE Wrong(NowRead)
  BY <1>1, <1>2, <1>3 DEF Reads, NowRead
<1>6. CASE /\ SyntaxError /\ open' = <<>> /\ ~Follows(piece, open)
           /\ ~(Completes(piece, open) /\ WellNamed(def, Known))
  <2>1. funcs' = funcs /\ types' = types /\ errors' = TRUE
    BY <1>6 DEF SyntaxError
  <2>2. OwnTypes' = OwnTypes
    BY <1>2, <2>1, OwnStays
  <2> QED BY <1>0, <1>2, <1>5, <1>6, <2>1, <2>2 DEF NowRead, Wrong
<1>7. CASE /\ Follows(piece, open) /\ open' = (IF open = <<>> THEN <<def>> ELSE open)
           /\ UNCHANGED <<funcs, types, errors>>
  <2>1. OwnTypes' = OwnTypes
    BY <1>2, <1>7, OwnStays
  <2> QED BY <1>0, <1>2, <1>4, <1>5, <1>7, <2>1 DEF NowRead
<1>8. CASE Completes(piece, open) /\ WellNamed(def, Known) /\ Define(def) /\ open' = <<>>
  <2>1. NowRead' = Enter(NowRead, def)
    <3> DEFINE func == [name |-> def.name, pub |-> def.pub, uses |-> def.uses]
    <3>0. PICK fs, own : /\ fs = IF def.kind = "function" THEN Append(funcs, func) ELSE funcs
                         /\ own = IF def.kind = "type" THEN OwnTypes \cup {def.name} ELSE OwnTypes
      OBVIOUS
    <3>5. Enter(NowRead, def) = [start |-> start, open |-> <<>>, errors |-> errors,
                                 funcs |-> fs, own |-> own]
      <4>1. /\ NowRead.start = start /\ NowRead.errors = errors
            /\ NowRead.funcs = funcs /\ NowRead.own = OwnTypes
        BY DEF NowRead
      <4> QED BY <3>0, <4>1 DEF Enter
    <3> HIDE DEF func
    <3>6. ASSUME funcs' = fs, OwnTypes' = own, errors' = errors
          PROVE  NowRead' = Enter(NowRead, def)
      BY <1>2, <1>8, <3>5, <3>6 DEF NowRead
    <3>1. CASE def.kind = "function"
      <4>1. funcs' = Append(funcs, func) /\ types' = types /\ errors' = errors
        BY <1>8, <3>1 DEF Define, AddFunc, func
      <4>2. OwnTypes' = OwnTypes
        BY <1>2, <4>1, OwnStays
      <4> QED BY <3>0, <3>1, <3>6, <4>1, <4>2
    <3>2. CASE def.kind = "global"
      <4>1. funcs' = funcs /\ types' = types /\ errors' = errors
        BY <1>8, <3>2 DEF Define, SetGlobal
      <4>2. OwnTypes' = OwnTypes
        BY <1>2, <4>1, OwnStays
      <4> QED BY <3>0, <3>2, <3>6, <4>1, <4>2
    <3>3. CASE def.kind = "type"
      <4>1. funcs' = funcs /\ errors' = errors /\ NewType(def.name, def.parent)
        BY <1>8, <3>3 DEF Define, AddType
      <4>2. DOMAIN types' = DOMAIN types \cup {<<Load, def.name>>} /\ Load' = Load
        BY <1>2, <4>1 DEF NewType, Load
      <4>3. OwnTypes' = OwnTypes \cup {def.name}
        BY <1>2, <4>2 DEF OwnTypes, DefType
      <4> QED BY <3>0, <3>3, <3>6, <4>1, <4>3
    <3>4. def.kind \in {"function", "global", "type"}
      BY <1>2 DEF DefType
    <3> QED BY <3>1, <3>2, <3>3, <3>4
  <2> QED BY <1>0, <1>5, <1>8, <2>1
<1>9. \/ Completes(piece, open) /\ Define(def) /\ open' = <<>>
      \/ Follows(piece, open) /\ open' = (IF open = <<>> THEN <<def>> ELSE open)
         /\ UNCHANGED <<funcs, types, errors>>
      \/ ~Completes(piece, open) /\ ~Follows(piece, open) /\ SyntaxError /\ open' = <<>>
  BY <1>0, <1>2 DEF Tokens
<1>10. CASE Completes(piece, open) /\ Define(def) /\ open' = <<>> /\ ~WellNamed(def, Known)
  <2>1. SyntaxError
    BY <1>10 DEF Define
  <2> QED BY <1>4, <1>6, <1>10, <2>1
<1> QED BY <1>6, <1>7, <1>8, <1>9, <1>10

(* Of a text that the reader has read as far, one piece more is read.      *)
LEMMA ScanReads ==
    ASSUME Inv, TypesKnown, text \in Texts, NEW k, AtPiece(k), Parse, ~EndOfText
    PROVE  AtPiece(k + 1)'
<1>1. Scan /\ NowRead' = Reads(NowRead, Head(rest))
  <2>1. CASE InLineComment \/ InBlockComment \/ InString
    BY <2>1, WithinReads DEF InLineComment, InBlockComment, InString
  <2>2. CASE BeginComment
    BY <2>2, BeginCommentReads DEF BeginComment
  <2>3. CASE Tokens
    BY <2>3, TokensReads DEF Tokens
  <2> QED BY <2>1, <2>2, <2>3 DEF Parse
<1>2. PICK s \in Seq(PieceType) : s = text.pieces
  BY TextsAssumption
<1>3. PICK n \in Nat : n = Len(s)
  OBVIOUS
<1>4. k \in 0 .. n /\ rest = SubSeq(s, k + 1, n)
  BY <1>2, <1>3 DEF AtPiece
<1>5. rest # <<>> /\ rest' = Tail(rest) /\ text' = text
  BY <1>1 DEF Scan
<1>6. k < n /\ Head(rest) = s[k + 1] /\ rest' = SubSeq(s, k + 2, n)
  <2> HIDE DEF PieceType
  <2>1. k < n
    BY <1>3, <1>4, <1>5
  <2> QED BY <1>3, <1>4, <1>5, <2>1
<1>7. Readings(text)[k + 1] = Reads(Readings(text)[k], s[k + 1])
  <2>1. k + 1 \in 1 .. Len(text.pieces) /\ (k + 1) - 1 = k
    <3>1. k \in Nat /\ k < n
      BY <1>4, <1>6
    <3>2. k + 1 \in 1 .. n /\ (k + 1) - 1 = k
      BY <3>1
    <3> QED BY <1>2, <1>3, <3>2
  <2>2. Readings(text)[k + 1] = Reads(Readings(text)[(k + 1) - 1], text.pieces[k + 1])
    BY <2>1, ReadingsAre
  <2> QED BY <1>2, <2>1, <2>2
<1>8. NowRead' = Readings(text)[k + 1]
  BY <1>1, <1>6, <1>7 DEF AtPiece
<1>9. k + 1 \in 0 .. n /\ (k + 1) + 1 = k + 2
  BY <1>4, <1>6
<1> QED BY <1>2, <1>3, <1>5, <1>6, <1>8, <1>9 DEF AtPiece

(* A load that returns adds an entry, and one that was read as its text    *)
(* says leaves the scanner where a reader of it ends.                      *)
ReadRight ==
    /\ start = Reading(text).start
    /\ IF phase = "parse" THEN ~text.sound ELSE text.sound /\ funcs = text.funcs

LEMMA LogMore ==
    ASSUME LogOK, NEW entry \in LogType, log' = Append(log, entry)
    PROVE  /\ Len(log) \in Nat /\ DOMAIN log = 1 .. Len(log)
           /\ Len(log') = Len(log) + 1 /\ DOMAIN log' = 1 .. Len(log) + 1
           /\ \A k \in 1 .. Len(log) : log'[k] = log[k]
           /\ log'[Len(log) + 1] = entry
           /\ Clean' <=> Clean /\ entry.text.closed
<1>1. log \in Seq(LogType)
  BY DEF LogOK
<1> HIDE DEF LogType
<1>2. /\ Len(log) \in Nat /\ DOMAIN log = 1 .. Len(log)
      /\ Len(log') = Len(log) + 1 /\ DOMAIN log' = 1 .. Len(log) + 1
      /\ \A k \in 1 .. Len(log) : log'[k] = log[k]
      /\ log'[Len(log) + 1] = entry
  <2>1. Append(log, entry) \in Seq(LogType)
    BY <1>1, AppendSeq
  <2>2. Len(log) \in Nat /\ DOMAIN log = 1 .. Len(log)
    BY <1>1
  <2>3. /\ Len(log') = Len(log) + 1
        /\ \A k \in 1 .. Len(log) : log'[k] = log[k]
        /\ log'[Len(log) + 1] = entry
    BY <1>1, AppendSeq
  <2>4. DOMAIN log' = 1 .. Len(log')
    BY <2>1
  <2> QED BY <2>2, <2>3, <2>4
<1>3. Clean' <=> \A j \in 1 .. Len(log) + 1 : log'[j].text.closed
  BY <1>2 DEF Clean
<1>4. Clean <=> \A j \in 1 .. Len(log) : log[j].text.closed
  BY <1>2 DEF Clean
<1>5. (\A j \in 1 .. Len(log) + 1 : log'[j].text.closed)
         <=> (\A j \in 1 .. Len(log) : log[j].text.closed) /\ entry.text.closed
  BY <1>2
<1> QED BY <1>2, <1>3, <1>4, <1>5

(* One more entry, not misread unless a text before it was left open.      *)
LEMMA MisreadMore ==
    ASSUME LogOK, MisreadOnlyAfterOpen, NEW entry \in LogType, log' = Append(log, entry),
           Clean => \/ entry.at = "open"
                    \/ entry.at = "parse" /\ ~entry.text.sound
                    \/ entry.at # "parse" /\ entry.text.sound /\ entry.read = entry.text.funcs
    PROVE  MisreadOnlyAfterOpen'
<1>1. /\ Len(log) \in Nat /\ DOMAIN log = 1 .. Len(log) /\ DOMAIN log' = 1 .. Len(log) + 1
      /\ \A k \in 1 .. Len(log) : log'[k] = log[k]
      /\ log'[Len(log) + 1] = entry
  BY LogMore
<1>2. MisreadOnlyAfterOpen' <=>
         \A k \in DOMAIN log' : Misread(k)' => \E j \in 1 .. k - 1 : ~log'[j].text.closed
  BY DEF MisreadOnlyAfterOpen
<1>3. ASSUME NEW k \in DOMAIN log', Misread(k)'
      PROVE  \E j \in 1 .. k - 1 : ~log'[j].text.closed
  <2>1. CASE k <= Len(log)
    <3>1. k \in DOMAIN log /\ log'[k] = log[k]
      BY <1>1, <2>1
    <3>2. Misread(k)
      BY <1>3, <3>1 DEF Misread
    <3>3. PICK j \in 1 .. k - 1 : ~log[j].text.closed
      BY <3>1, <3>2 DEF MisreadOnlyAfterOpen
    <3>4. log'[j] = log[j]
      BY <1>1, <2>1
    <3> QED BY <3>3, <3>4
  <2>2. CASE k = Len(log) + 1
    <3>1. entry.at # "open" /\ IF entry.at = "parse" THEN entry.text.sound
                               ELSE ~entry.text.sound \/ entry.read # entry.text.funcs
      BY <1>1, <1>3, <2>2 DEF Misread
    <3>2. ~Clean
      BY <3>1
    <3>3. PICK j \in DOMAIN log : ~log[j].text.closed
      BY <3>2 DEF Clean
    <3>4. j \in 1 .. k - 1 /\ log'[j] = log[j]
      BY <1>1, <2>2
    <3> QED BY <3>3, <3>4
  <2>3. k <= Len(log) \/ k = Len(log) + 1
    BY <1>1
  <2> QED BY <2>1, <2>2, <2>3
<1> QED BY <1>2, <1>3

LEMMA MisreadStays ==
    ASSUME MisreadOnlyAfterOpen, log' = log
    PROVE  MisreadOnlyAfterOpen' /\ (Clean' <=> Clean)
  BY DEF MisreadOnlyAfterOpen, Misread, Clean

LEMMA ReturnReads ==
    ASSUME Inv, AsRead, MisreadOnlyAfterOpen, phase # "idle", Return, start' = start,
           Clean => ReadRight
    PROVE  AsRead' /\ MisreadOnlyAfterOpen'
<1> DEFINE entry == [text |-> text, at |-> phase, read |-> funcs, bound |-> bound]
<1>1. /\ log' = Append(log, entry) /\ phase' = "idle"
      /\ entry.text = text /\ entry.at = phase /\ entry.read = funcs
  BY DEF Return
<1>2. text \in Texts /\ phase \in Phase /\ LogOK
  BY DEF AsRead, Inv, ReadOK
<1>3. entry \in LogType
  <2>1. bound \subseteq BoundType
    <3>1. Load \in Nat
      BY LoadNat DEF Inv
    <3> QED BY <3>1 DEF Inv, NamesOK, BoundType
  <2>2. funcs \in Seq(FuncType)
    BY DEF Inv, ReadOK
  <2> QED BY <1>2, <2>1, <2>2 DEF LogType
<1> HIDE DEF entry
<1>4. MisreadOnlyAfterOpen'
  BY <1>1, <1>2, <1>3, MisreadMore DEF ReadRight
<1>5. ASSUME Clean' PROVE start' = "INITIAL"
  <2>1. Clean /\ text.closed
    BY <1>1, <1>2, <1>3, <1>5, LogMore
  <2>2. Reading(text).start = "INITIAL"
    BY <1>2, <2>1, ReadAssumption
  <2> QED BY <2>1, <2>2 DEF ReadRight
<1> QED BY <1>1, <1>4, <1>5 DEF AsRead

(* The end of the text: all of it has been read.                           *)
LEMMA EndReads ==
    ASSUME Inv, AsRead, MisreadOnlyAfterOpen, EndOfText
    PROVE  AsRead' /\ MisreadOnlyAfterOpen'
<1>0. /\ phase = "parse" /\ rest = <<>> /\ text \in Texts
      /\ start' = start /\ text' = text /\ funcs' = funcs
  BY DEF EndOfText, AsRead, scanner, compiler
<1>1. ASSUME Clean
      PROVE  /\ start = Reading(text).start /\ errors = Reading(text).errors
             /\ open = Reading(text).open /\ funcs = Reading(text).funcs
  <2>1. PICK k : AtPiece(k)
    BY <1>0, <1>1 DEF AsRead
  <2>2. PICK s \in Seq(PieceType) : s = text.pieces
    BY <1>0, TextsAssumption
  <2>3. PICK n \in Nat : n = Len(s)
    OBVIOUS
  <2>4. k \in 0 .. n /\ SubSeq(s, k + 1, n) = <<>>
    BY <1>0, <2>1, <2>2, <2>3 DEF AtPiece
  <2>5. k = n
    <3> HIDE DEF PieceType
    <3>1. Len(SubSeq(s, k + 1, n)) = IF n < k + 1 THEN 0 ELSE n - (k + 1) + 1
      <4>1. k + 1 \in Nat \ {0}
        BY <2>4
      <4> QED BY <2>3, <4>1, PartSeq
    <3>2. Len(SubSeq(s, k + 1, n)) = 0
      <4>1. SubSeq(s, k + 1, n) \in Seq(PieceType)
        <5>1. k + 1 \in Nat \ {0}
          BY <2>4
        <5> QED BY <2>3, <5>1, PartSeq
      <4> QED BY <2>4, <4>1, EmptySeq
    <3> QED BY <2>4, <3>1, <3>2
  <2>6. NowRead = Reading(text)
    BY <2>1, <2>2, <2>3, <2>5 DEF AtPiece, Reading
  <2> QED BY <2>6 DEF NowRead
<1>2. ASSUME Clean
      PROVE  /\ text.sound <=> ~errors /\ open = <<>>
             /\ text.sound => funcs = text.funcs
  BY <1>0, <1>1, <1>2, ReadAssumption
<1>3. CASE (errors \/ open # <<>>) /\ Return
  <2>1. Clean => ReadRight
    BY <1>0, <1>1, <1>2, <1>3 DEF ReadRight
  <2> QED BY <1>0, <1>3, <2>1, ReturnReads
<1>4. CASE ~errors /\ open = <<>> /\ phase' = "create" /\ log' = log
  <2>1. MisreadOnlyAfterOpen' /\ (Clean' <=> Clean)
    BY <1>4, MisreadStays
  <2>2. Clean => start = Reading(text).start /\ text.sound /\ funcs = text.funcs
    BY <1>1, <1>2, <1>4
  <2> QED BY <1>0, <1>4, <2>1, <2>2 DEF AsRead
<1> QED BY <1>3, <1>4 DEF EndOfText

LEMMA BeginReads ==
    ASSUME Inv, TypesKnown, AsRead, NEW t \in Texts, LoadFile(t)
    PROVE  AsRead'
<1>0. /\ phase = "idle" /\ phase' = "parse" /\ text' = t /\ rest' = t.pieces
      /\ funcs' = <<>> /\ errors' = FALSE /\ open' = <<>>
      /\ start' = start /\ types' = types /\ log' = log
  BY DEF LoadFile, system
<1>1. Clean' <=> Clean
  BY <1>0 DEF Clean
<1>2. OwnTypes' = {}
  <2>1. \A x \in DOMAIN types : x[1] < Load /\ Load \in Nat
    BY <1>0, LoadNat DEF TypesKnown, Inv
  <2>2. OwnTypes = {}
    BY <2>1 DEF OwnTypes
  <2> QED BY <1>0, <2>2, OwnStays
<1>3. ASSUME Clean' PROVE AtPiece(0)'
  <2>1. start = "INITIAL"
    BY <1>0, <1>1, <1>3 DEF AsRead
  <2>2. NowRead' = NothingRead
    BY <1>0, <1>2, <2>1 DEF NowRead, NothingRead
  <2>3. Readings(t)[0] = NothingRead
    BY ReadingsAre
  <2>4. PICK s \in Seq(PieceType) : s = t.pieces
    BY TextsAssumption
  <2>5. SubSeq(s, 0 + 1, Len(s)) = s /\ 0 \in 0 .. Len(s)
    <3> HIDE DEF PieceType
    <3> QED OBVIOUS
  <2>6. AtPiece(0)' <=> /\ 0 \in 0 .. Len(text'.pieces)
                        /\ rest' = SubSeq(text'.pieces, 0 + 1, Len(text'.pieces))
                        /\ NowRead' = Readings(text')[0]
    BY DEF AtPiece
  <2> QED BY <1>0, <2>2, <2>3, <2>4, <2>5, <2>6
<1> QED BY <1>0, <1>3 DEF AsRead

LEMMA TypesKnownStep ==
    ASSUME Inv, TypesKnown, [Next]_lvars
    PROVE  TypesKnown'
<1>0. Load \in Nat \ {0}
  BY LoadNat DEF Inv
<1>1. \/ DOMAIN types' = DOMAIN types
      \/ \E name : DOMAIN types' = DOMAIN types \cup {<<Load, name>>} /\ log' = log /\ phase' = phase /\ phase = "parse"
  <2>1. CASE Tokens
    BY <2>1 DEF Tokens, Scan, Define, AddFunc, SetGlobal, AddType, NewType, SyntaxError
  <2>2. CASE ExtendType
    BY <2>2 DEF ExtendType, AddMethod
  <2>3. CASE \E t \in DOMAIN types, name \in Added, func \in Range(public) :
                MethodAddMethod(t, name, func)
    BY <2>3 DEF MethodAddMethod, AddMethod
  <2>4. CASE types' = types
    BY <2>4
  <2>5. \/ Tokens \/ ExtendType \/ types' = types
        \/ \E t \in DOMAIN types, name \in Added, func \in Range(public) :
              MethodAddMethod(t, name, func)
    BY DEF Next, CannotOpen, LoadFile, Parse, InLineComment, InBlockComment, InString,
           BeginComment, EndOfText, Compile, Create, CompileBody, EndCompile, EndExtend,
           Publicize, Loaded, Goes, SyntaxError, system, lvars
  <2> QED BY <2>1, <2>2, <2>3, <2>4, <2>5
<1>2. \/ log' = log /\ (phase' = "idle" => phase = "idle")
      \/ \E entry \in LogType : log' = Append(log, entry)
  <2>1. CASE CannotOpen
    <3>1. [text |-> NoText, at |-> "open", read |-> <<>>, bound |-> {}] \in LogType
      BY DEF LogType
    <3> QED BY <2>1, <3>1 DEF CannotOpen
  <2>2. CASE Return
    <3>1. [text |-> text, at |-> phase, read |-> funcs, bound |-> bound] \in LogType
      <4>1. bound \subseteq BoundType
        BY <1>0 DEF Inv, NamesOK, BoundType
      <4>2. funcs \in Seq(FuncType) /\ phase \in Phase /\ text \in Texts \cup {NoText}
        BY DEF Inv, ReadOK, LogOK
      <4> QED BY <4>1, <4>2 DEF LogType
    <3> QED BY <2>2, <3>1 DEF Return
  <2>3. CASE Parse
    BY <2>2, <2>3 DEF Parse, InLineComment, InBlockComment, InString, BeginComment, Tokens, Scan, EndOfText
  <2>4. CASE Compile
    BY <2>2, <2>4 DEF Compile, Create, CompileBody, EndCompile, ExtendType, EndExtend, Publicize, Loaded
  <2> QED BY <2>1, <2>3, <2>4 DEF Next, LoadFile, MethodAddMethod, lvars
<1>3. (Load' = Load /\ (phase' = "idle" => phase = "idle")) \/ Load' = Load + 1
  <2>1. CASE log' = log /\ (phase' = "idle" => phase = "idle")
    BY <2>1 DEF Load
  <2>2. CASE \E entry \in LogType : log' = Append(log, entry)
    <3>1. Len(log') = Len(log) + 1 /\ Len(log) \in Nat
      BY <2>2, LogMore DEF Inv
    <3> QED BY <3>1 DEF Load
  <2> QED BY <1>2, <2>1, <2>2
<1>4. \A t \in DOMAIN types : t \in TypeId
  BY DEF Inv, TypesOK
<1>5. CASE DOMAIN types' = DOMAIN types
  <2>1. \A t \in DOMAIN types : t[1] \in Nat
    BY <1>4, SystemAssumption DEF TypeId
  <2>2. \A t \in DOMAIN types : t[1] <= Load' /\ (phase' = "idle" => t[1] < Load')
    BY <1>0, <1>3, <2>1 DEF TypesKnown
  <2> QED BY <1>5, <2>2 DEF TypesKnown
<1>6. CASE \E name : DOMAIN types' = DOMAIN types \cup {<<Load, name>>} /\ log' = log
                     /\ phase' = phase /\ phase = "parse"
  <2>1. PICK name : DOMAIN types' = DOMAIN types \cup {<<Load, name>>} /\ log' = log
                     /\ phase' = phase /\ phase = "parse"
    BY <1>6
  <2>2. Load' = Load
    BY <2>1 DEF Load
  <2>3. \A n : <<0, n>> # <<Load, name>>
    BY <1>0
  <2>4. \A t \in DOMAIN types' : t[1] <= Load'
    BY <1>0, <2>1, <2>2 DEF TypesKnown
  <2>5. \A n \in Name : <<0, n>> \in DOMAIN types' <=> n \in DOMAIN SystemTypes
    BY <2>1, <2>3 DEF TypesKnown
  <2> QED BY <2>1, <2>4, <2>5 DEF TypesKnown
<1> QED BY <1>1, <1>5, <1>6

LEMMA ReadStep ==
    ASSUME Inv, ReadInv, [Next]_lvars
    PROVE  ReadInv'
<1>0. TypesKnown /\ AsRead /\ MisreadOnlyAfterOpen /\ TypesKnown'
  BY TypesKnownStep DEF ReadInv
<1>1. CASE CannotOpen
  <2> DEFINE entry == [text |-> NoText, at |-> "open", read |-> <<>>, bound |-> {}]
  <2>1. entry \in LogType /\ entry.at = "open" /\ entry.text.closed
    BY DEF LogType, NoText
  <2>2. log' = Append(log, entry) /\ phase = "idle" /\ phase' = phase /\ start' = start
    BY <1>1 DEF CannotOpen, scanner
  <2> HIDE DEF entry
  <2>3. MisreadOnlyAfterOpen' /\ (Clean' <=> Clean)
    BY <1>0, <2>1, <2>2, MisreadMore, LogMore DEF Inv
  <2>4. AsRead'
    BY <1>0, <2>2, <2>3 DEF AsRead
  <2> QED BY <1>0, <2>3, <2>4 DEF ReadInv
<1>2. CASE \E t \in Texts : LoadFile(t)
  <2>1. AsRead'
    BY <1>0, <1>2, BeginReads
  <2>2. log' = log
    BY <1>2 DEF LoadFile
  <2> QED BY <1>0, <2>1, <2>2, MisreadStays DEF ReadInv
<1>3. CASE EndOfText
  BY <1>0, <1>3, EndReads DEF ReadInv
<1>4. CASE Parse /\ ~EndOfText
  <2>1. phase = "parse" /\ phase' = phase /\ text' = text /\ log' = log
    BY <1>4 DEF Parse, InLineComment, InBlockComment, InString, BeginComment, Tokens, Scan
  <2>2. text \in Texts /\ MisreadOnlyAfterOpen' /\ (Clean' <=> Clean)
    BY <1>0, <2>1, MisreadStays DEF AsRead
  <2>3. ASSUME Clean PROVE \E k : AtPiece(k)'
    <3>1. PICK k : AtPiece(k)
      BY <1>0, <2>1, <2>3 DEF AsRead
    <3>2. AtPiece(k + 1)'
      BY <1>0, <1>4, <2>2, <3>1, ScanReads
    <3> QED BY <3>2
  <2>4. AsRead'
    BY <2>1, <2>2, <2>3 DEF AsRead
  <2> QED BY <1>0, <2>2, <2>4 DEF ReadInv
<1>5. CASE /\ phase \in {"create", "compile", "extend", "publish"} /\ start' = start
           /\ text' = text /\ funcs' = funcs
           /\ Return \/ (log' = log /\ phase' \in {"create", "compile", "extend", "publish"})
  <2>1. Clean => ReadRight
    BY <1>0, <1>5 DEF AsRead, ReadRight
  <2>2. CASE Return
    BY <1>0, <1>5, <2>1, <2>2, ReturnReads DEF ReadInv
  <2>3. CASE log' = log /\ phase' \in {"create", "compile", "extend", "publish"}
    <3>1. MisreadOnlyAfterOpen' /\ (Clean' <=> Clean)
      BY <1>0, <2>3, MisreadStays
    <3>2. AsRead'
      BY <1>0, <1>5, <2>3, <3>1 DEF AsRead
    <3> QED BY <1>0, <3>1, <3>2 DEF ReadInv
  <2> QED BY <1>5, <2>2, <2>3
<1>6. CASE Compile
  BY <1>5, <1>6 DEF Compile, Create, CompileBody, EndCompile, ExtendType, EndExtend,
     Publicize, Loaded, scanner, compiler
<1>7. CASE (\E t \in DOMAIN types, name \in Added, func \in Range(public) :
              MethodAddMethod(t, name, func))
  <2>1. log' = log /\ phase = "idle" /\ phase' = phase /\ start' = start
    BY <1>7 DEF MethodAddMethod, scanner
  <2>2. MisreadOnlyAfterOpen' /\ (Clean' <=> Clean)
    BY <1>0, <2>1, MisreadStays
  <2>3. AsRead'
    BY <1>0, <2>1, <2>2 DEF AsRead
  <2> QED BY <1>0, <2>2, <2>3 DEF ReadInv
<1>8. CASE UNCHANGED lvars
  <2>1. /\ log' = log /\ phase' = phase /\ start' = start /\ text' = text /\ rest' = rest
        /\ funcs' = funcs /\ open' = open /\ errors' = errors /\ types' = types
    BY <1>8 DEF lvars, scanner, system, compiler
  <2>2. MisreadOnlyAfterOpen' /\ (Clean' <=> Clean) /\ OwnTypes' = OwnTypes
    BY <1>0, <2>1, MisreadStays, OwnStays
  <2>3. \A k : AtPiece(k)' <=> AtPiece(k)
    BY <2>1, <2>2 DEF AtPiece, NowRead
  <2>4. AsRead'
    BY <1>0, <2>1, <2>2, <2>3 DEF AsRead
  <2> QED BY <1>0, <2>2, <2>4 DEF ReadInv
<1> QED BY <1>1, <1>2, <1>3, <1>4, <1>6, <1>7, <1>8 DEF Next, Parse

LEMMA InitReads == Init => ReadInv
<1> SUFFICES ASSUME Init PROVE ReadInv
  OBVIOUS
<1>1. /\ start = "INITIAL" /\ phase = "idle" /\ log = <<>>
      /\ DOMAIN types = {0} \X DOMAIN SystemTypes
  BY DEF Init
<1>2. Load = 1 /\ DOMAIN log = {}
  BY <1>1 DEF Load
<1>3. \A t \in DOMAIN types : t[1] = 0
  BY <1>1
<1>4. TypesKnown
  BY <1>1, <1>2, <1>3 DEF TypesKnown
<1> QED BY <1>1, <1>2, <1>4 DEF ReadInv, AsRead, MisreadOnlyAfterOpen

(***************************************************************************)
(* A text is read as what it says, wherever the loads before it were given *)
(* up and whatever they read, unless the text of one of them ended inside  *)
(* a comment or a string: nothing else of a load reaches the scanning and  *)
(* parsing of the next.                                                    *)
(***************************************************************************)
THEOREM MisreadOnlyAfterOpenThm == Spec => []MisreadOnlyAfterOpen
<1>1. Inv /\ ReadInv /\ [Next]_lvars => ReadInv'
  BY ReadStep
<1>2. ReadInv => MisreadOnlyAfterOpen
  BY DEF ReadInv
<1> QED BY <1>1, <1>2, InitReads, Invariance, PTL DEF Spec
=============================================================================
