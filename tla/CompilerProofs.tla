--------------------------- MODULE CompilerProofs ---------------------------
(***************************************************************************)
(* What the compiler guarantees of the functions it finishes, for every    *)
(* file: jumps that land, variables that exist, a line for every word, and *)
(* nothing left over from one function for the next; and that it stays in  *)
(* its buffer when block_chunk is at least 2.                              *)
(*                                                                         *)
(* The words are right but for the holes: the jumps whose distance is      *)
(* still to be patched.  A plan is sound when each jump or loop that one   *)
(* of its tasks opens is closed by a later one, once, and when its tasks   *)
(* emit whole instructions.  Plan(node) is, for every node the grammar     *)
(* builds, whatever variables there are.                                   *)
(*                                                                         *)
(* Who will patch a hole can be read off the tasks of the activations: one *)
(* that has a close before it and no open is inside that structure.        *)
(***************************************************************************)
EXTENDS Compiler, SeqFacts, FiniteSetTheorems

-----------------------------------------------------------------------------
(* The words *)

JumpOp  == {"JUMP", "TJUMP", "FJUMP"}
IndexOp == {"LOOKUP", "ASSIGN", "ITER"}

(* The words of whole instructions that do not jump and use none but the   *)
(* first n variables.                                                      *)
GoodWords(w, n) ==
    /\ w \in Seq(WordType) /\ w # <<>> /\ w[1].word = "op"
    /\ \A i \in 1 .. Len(w) :
          /\ ~IsJump(w[i])
          /\ w[i].word = "value" => i > 1 /\ w[i - 1].word # "value"
          /\ w[i].word = "op" /\ w[i].text \in IndexOp =>
                i < Len(w) /\ w[i + 1].n \in 0 .. n - 1

(* The word before position p of the words c is a jump, and its distance   *)
(* is at p.                                                                *)
IsHole(c, p) == p \in 1 .. Len(c) - 1 /\ IsJump(c[p]) /\ c[p + 1].word = "arg"

(***************************************************************************)
(* The words c use none but the first n variables, their jumps land but    *)
(* for those at the positions in P, and an instruction begins at each      *)
(* position in Q.                                                          *)
(***************************************************************************)
Indexed(c, n) == \A i \in 1 .. Len(c) : c[i].word = "op" /\ c[i].text \in IndexOp =>
                    i < Len(c) /\ c[i + 1].n \in 0 .. n - 1
JumpsBut(c, P) == \A i \in 1 .. Len(c) : IsJump(c[i]) =>
                     IsHole(c, i) /\ (i \in P \/ Begins(c, Destination(c, i)))
CodeOK(c, n, P, Q) ==
    /\ c \in Seq(WordType)
    /\ Indexed(c, n)
    /\ \A p \in P : IsHole(c, p)
    /\ JumpsBut(c, P)
    /\ \A q \in Q : Begins(c, q)

-----------------------------------------------------------------------------
(* The tasks *)

TaskOK(t, n) ==
    /\ t \in TaskType
    /\ t.do = "emit" => GoodWords(t.words, n)
    /\ t.do \in {"jump", "land"} => t.k \in 1 .. 2
    /\ t.do \in {"jump", "leave", "again"} => t.op \in JumpOp
    /\ t.do = "var" => t.op \in STRING

(* A task that opens or closes: the loop (0), or the jump (1 or 2).        *)
Opens(t, b)  == IF b = 0 THEN t.do = "block" ELSE t.do = "jump" /\ t.k = b
Closes(t, b) == IF b = 0 THEN t.do = "unblock" ELSE t.do = "land" /\ t.k = b

(* Between the one and the other.                                          *)
Inside(todo, b) == /\ \E j \in DOMAIN todo : Closes(todo[j], b)
                   /\ \A i \in DOMAIN todo : ~Opens(todo[i], b)

(***************************************************************************)
(* What an activation may still have to do, with n variables: open what it *)
(* will close, once; go back to the start of a loop inside of it; and      *)
(* declare a variable first of all.                                        *)
(***************************************************************************)
GoodTodo(todo, n) ==
    /\ \A i \in DOMAIN todo :
          TaskOK(todo[i], IF todo[1].do = "var" THEN n + 1 ELSE n)
    /\ \A i \in DOMAIN todo : todo[i].do = "var" => i = 1
    /\ \A b \in 0 .. 2, i \in DOMAIN todo : Opens(todo[i], b) =>
          /\ \E j \in DOMAIN todo : j > i /\ Closes(todo[j], b)
          /\ \A j \in DOMAIN todo : Opens(todo[j], b) => j = i
    /\ \A b \in 0 .. 2, i, j \in DOMAIN todo :
          Closes(todo[i], b) /\ Closes(todo[j], b) => i = j
    /\ \A i \in DOMAIN todo : todo[i].do = "again" =>
          /\ \E j \in DOMAIN todo : j > i /\ Closes(todo[j], 0)
          /\ \A j \in DOMAIN todo : Opens(todo[j], 0) => j < i

-----------------------------------------------------------------------------
(* Code: adding words and patching distances *)

(* Constants, words and their parts have their types.                      *)
LEMMA ConstTypes ==
    ASSUME NEW kind \in {"nil", "number", "string", "type", "globals", "function", "global"},
           NEW id \in Identifier, NEW x \in Int
    PROVE  Const(kind, id, x) \in Constant
  BY DEF Const, Constant

LEMMA WordParts ==
    ASSUME NEW kind \in {"op", "arg", "value"}, NEW text \in Wording, NEW x \in Int,
           NEW v \in Constant
    PROVE  /\ Word(kind, text, x, v) \in WordType
           /\ Word(kind, text, x, v).word = kind /\ Word(kind, text, x, v).text = text
           /\ Word(kind, text, x, v).n = x
  BY DEF Word, WordType

LEMMA NilType == /\ NilConst \in Constant /\ "" \in Identifier /\ "" \in Wording
                 /\ "new" \in Identifier
<1>1. /\ "" \in Identifier /\ "" \in Wording /\ "new" \in Identifier /\ 0 \in Int
  BY DEF Identifier, Wording
<1> QED BY <1>1, ConstTypes, Zenon DEF NilConst

LEMMA WordTypes ==
    ASSUME NEW op \in Opcode, NEW id \in Identifier, NEW x \in Int, NEW v \in Constant
    PROVE  /\ Op(op) \in WordType /\ Arg(x) \in WordType /\ Name(id) \in WordType
           /\ Word("value", "", 0, v) \in WordType
           /\ Op(op).word = "op" /\ Op(op).text = op
           /\ Arg(x).word = "arg" /\ Arg(x).n = x /\ Name(id).word = "arg"
           /\ Word("value", "", 0, v).word = "value"
<1>1. PICK e : e = ""
  OBVIOUS
<1>2. PICK k : k = "op"
  OBVIOUS
<1>3. PICK l : l = "arg"
  OBVIOUS
<1>4. PICK m : m = "value"
  OBVIOUS
<1>5. op \in Wording /\ id \in Wording /\ e \in Wording /\ NilConst \in Constant
  BY <1>1, NilType DEF Wording
<1>6. k \in {"op", "arg", "value"} /\ l \in {"op", "arg", "value"} /\ m \in {"op", "arg", "value"}
  BY <1>2, <1>3, <1>4
<1>7. /\ Word(k, op, 0, NilConst) \in WordType /\ Word(k, op, 0, NilConst).word = k
      /\ Word(k, op, 0, NilConst).text = op
      /\ Word(l, e, x, NilConst) \in WordType /\ Word(l, e, x, NilConst).word = l
      /\ Word(l, e, x, NilConst).n = x
      /\ Word(l, id, 0, NilConst) \in WordType /\ Word(l, id, 0, NilConst).word = l
      /\ Word(m, e, 0, v) \in WordType /\ Word(m, e, 0, v).word = m
  BY <1>5, <1>6, WordParts
<1>8. /\ Op(op) = Word(k, op, 0, NilConst) /\ Arg(x) = Word(l, e, x, NilConst)
      /\ Name(id) = Word(l, id, 0, NilConst)
      /\ Word("value", "", 0, v) = Word(m, e, 0, v)
  BY <1>1, <1>2, <1>3, <1>4 DEF Op, Arg, Name
<1> QED BY <1>2, <1>3, <1>4, <1>7, <1>8

(* Words added at the end leave what was there as it was.                  *)
LEMMA AddCode ==
    ASSUME NEW c, NEW w, NEW n, NEW P, NEW Q, CodeOK(c, n, P, Q), GoodWords(w, n)
    PROVE  CodeOK(c \o w, n, P, Q)
<1> DEFINE d == c \o w
<1>1. /\ d \in Seq(WordType) /\ Len(d) = Len(c) + Len(w)
      /\ \A p \in 1 .. Len(c) : d[p] = c[p]
      /\ \A p \in 1 .. Len(w) : d[Len(c) + p] = w[p]
  <2> USE JoinSeq DEF CodeOK, GoodWords
  <2>1. /\ d \in Seq(WordType) /\ Len(d) = Len(c) + Len(w)
        /\ \A p \in 1 .. Len(c) + Len(w) : d[p] = IF p <= Len(c) THEN c[p] ELSE w[p - Len(c)]
    OBVIOUS
  <2>2. ASSUME NEW p \in 1 .. Len(w) PROVE d[Len(c) + p] = w[p]
    <3>1. Len(c) + p - Len(c) = p /\ Len(c) + p \in 1 .. Len(c) + Len(w) /\ ~(Len(c) + p <= Len(c))
      OBVIOUS
    <3> QED BY <2>1, <3>1
  <2> QED BY <2>1, <2>2
<1>2. /\ Len(c) \in Nat /\ Len(w) \in Nat /\ Len(w) > 0
      /\ d[Len(c) + 1].word = "op"
  BY <1>1 DEF CodeOK, GoodWords
<1> HIDE DEF d
<1>3. ASSUME NEW i \in 1 .. Len(d), i > Len(c)
      PROVE  /\ i - Len(c) \in 1 .. Len(w) /\ d[i] = w[i - Len(c)]
             /\ i < Len(d) => d[i + 1] = w[i - Len(c) + 1]
  <2>1. i - Len(c) \in 1 .. Len(w) /\ Len(c) + (i - Len(c)) = i
    BY <1>1, <1>2, <1>3
  <2>2. i < Len(d) => /\ i - Len(c) + 1 \in 1 .. Len(w)
                      /\ Len(c) + (i - Len(c) + 1) = i + 1
    BY <1>1, <1>2, <1>3
  <2> QED BY <1>1, <2>1, <2>2
<1>4. Indexed(d, n)
  <2> SUFFICES ASSUME NEW i \in 1 .. Len(d), d[i].word = "op" /\ d[i].text \in IndexOp
               PROVE  i < Len(d) /\ d[i + 1].n \in 0 .. n - 1
    BY DEF Indexed
  <2>1. CASE i <= Len(c)
    <3>1. i \in 1 .. Len(c) /\ c[i] = d[i]
      BY <1>1, <1>2, <2>1
    <3>2. i < Len(c) /\ c[i + 1].n \in 0 .. n - 1
      BY <3>1 DEF CodeOK, Indexed
    <3>3. i + 1 \in 1 .. Len(c)
      BY <1>2, <3>1, <3>2
    <3> QED BY <1>1, <1>2, <3>2, <3>3
  <2>2. CASE i > Len(c)
    <3>1. i - Len(c) < Len(w) /\ w[i - Len(c) + 1].n \in 0 .. n - 1
      BY <1>3, <2>2 DEF GoodWords
    <3> QED BY <1>1, <1>2, <1>3, <2>2, <3>1
  <2> QED BY <1>1, <1>2, <2>1, <2>2
<1>5. ASSUME NEW p, IsHole(c, p) PROVE IsHole(d, p)
  <2>1. p \in 1 .. Len(c) - 1 /\ IsJump(c[p]) /\ c[p + 1].word = "arg"
    BY <1>5 DEF IsHole
  <2>2. p \in 1 .. Len(c) /\ p + 1 \in 1 .. Len(c) /\ p \in 1 .. Len(d) - 1
    BY <1>1, <1>2, <2>1
  <2> QED BY <1>1, <2>1, <2>2 DEF IsHole
<1>6. ASSUME NEW q, Begins(c, q) PROVE Begins(d, q)
  <2>1. CASE q = Len(c)
    BY <1>1, <1>2, <2>1 DEF Begins
  <2>2. CASE q # Len(c)
    <3>1. q \in 0 .. Len(c) - 1 /\ c[q + 1].word = "op" /\ q + 1 \in 1 .. Len(c)
      BY <1>2, <1>6, <2>2 DEF Begins
    <3> QED BY <1>1, <1>2, <3>1 DEF Begins
  <2> QED BY <2>1, <2>2
<1>7. JumpsBut(d, P)
  <2> SUFFICES ASSUME NEW i \in 1 .. Len(d), IsJump(d[i])
               PROVE  IsHole(d, i) /\ (i \in P \/ Begins(d, Destination(d, i)))
    BY DEF JumpsBut
  <2>1. i <= Len(c)
    <3> SUFFICES ASSUME i > Len(c) PROVE FALSE
      BY <1>1, <1>2
    <3> QED BY <1>3 DEF GoodWords
  <2>2. IsHole(c, i) /\ (i \in P \/ Begins(c, Destination(c, i)))
    BY <1>1, <1>2, <2>1 DEF CodeOK, JumpsBut
  <2>3. Destination(c, i) = Destination(d, i)
    BY <1>1, <1>2, <2>2 DEF Destination, IsHole
  <2> QED BY <1>5, <1>6, <2>2, <2>3
<1>8. \A p \in P : IsHole(d, p)
  BY <1>5 DEF CodeOK
<1>9. \A q \in Q : Begins(d, q)
  BY <1>6 DEF CodeOK
<1> QED BY <1>1, <1>4, <1>7, <1>8, <1>9 DEF CodeOK, d

(***************************************************************************)
(* So does a jump: its distance is a hole, or goes back to where an        *)
(* instruction begins.                                                     *)
(***************************************************************************)
LEMMA AddJump ==
    ASSUME NEW c, NEW n, NEW P, NEW Q, CodeOK(c, n, P, Q), NEW op \in JumpOp, NEW x \in Int
    PROVE  /\ CodeOK(c \o One(op, x), n, P \cup {Len(c) + 1}, Q)
           /\ Len(c) + 1 + x \in Q => CodeOK(c \o One(op, x), n, P, Q)
<1> DEFINE d == c \o One(op, x)
<1>1. /\ d \in Seq(WordType) /\ Len(d) = Len(c) + 2 /\ Len(c) \in Nat
      /\ \A p \in 1 .. Len(c) : d[p] = c[p]
      /\ d[Len(c) + 1] = Op(op) /\ d[Len(c) + 2] = Arg(x)
  <2>1. One(op, x) \in Seq(WordType) /\ Len(One(op, x)) = 2
        /\ One(op, x)[1] = Op(op) /\ One(op, x)[2] = Arg(x)
    <3>1. op \in Opcode /\ "" \in Identifier /\ NilConst \in Constant
      BY NilType DEF JumpOp, Opcode
    <3>2. Op(op) \in WordType /\ Arg(x) \in WordType
      BY <3>1, WordTypes
    <3> QED BY <3>2 DEF One
  <2>2. c \in Seq(WordType)
    BY DEF CodeOK
  <2>3. /\ d \in Seq(WordType) /\ Len(d) = Len(c) + 2
        /\ \A p \in 1 .. Len(c) + 2 : d[p] = IF p <= Len(c) THEN c[p] ELSE One(op, x)[p - Len(c)]
    <3> DEFINE w == One(op, x)
    <3>1. w \in Seq(WordType) /\ Len(w) = 2
      BY <2>1
    <3> HIDE DEF w
    <3>2. /\ c \o w \in Seq(WordType) /\ Len(c \o w) = Len(c) + Len(w)
          /\ \A p \in 1 .. Len(c) + Len(w) : (c \o w)[p] = IF p <= Len(c) THEN c[p] ELSE w[p - Len(c)]
      BY <2>2, <3>1, JoinSeq
    <3> QED BY <3>1, <3>2 DEF w
  <2>4. Len(c) + 1 - Len(c) = 1 /\ Len(c) + 2 - Len(c) = 2 /\ Len(c) \in Nat
    BY <2>2
  <2> QED BY <2>1, <2>3, <2>4
<1>2. /\ d[Len(c) + 1].word = "op" /\ IsJump(d[Len(c) + 1]) /\ d[Len(c) + 1].text \notin IndexOp
      /\ d[Len(c) + 2].word = "arg" /\ ~IsJump(d[Len(c) + 2]) /\ d[Len(c) + 2].n = x
  <2>1. op \in Opcode /\ "" \in Identifier /\ NilConst \in Constant
    BY NilType DEF JumpOp, Opcode
  <2>2. Op(op).word = "op" /\ Op(op).text = op /\ Arg(x).word = "arg" /\ Arg(x).n = x
    BY <2>1, WordTypes
  <2> HIDE DEF d
  <2> QED BY <1>1, <2>2 DEF IsJump, JumpOp, IndexOp
<1> HIDE DEF d
<1>4. Indexed(d, n)
  <2> SUFFICES ASSUME NEW i \in 1 .. Len(d), d[i].word = "op" /\ d[i].text \in IndexOp
               PROVE  i < Len(d) /\ d[i + 1].n \in 0 .. n - 1
    BY DEF Indexed
  <2>1. i <= Len(c)
    BY <1>1, <1>2
  <2>2. i < Len(c) /\ c[i + 1].n \in 0 .. n - 1
    BY <1>1, <2>1 DEF CodeOK, Indexed
  <2> QED BY <1>1, <2>2
<1>5. ASSUME NEW p, IsHole(c, p) PROVE IsHole(d, p)
  BY <1>1, <1>5 DEF IsHole
<1>6. ASSUME NEW q, Begins(c, q) PROVE Begins(d, q)
  <2>1. CASE q = Len(c)
    BY <1>1, <1>2, <2>1 DEF Begins
  <2>2. CASE q # Len(c)
    <3>1. q \in 0 .. Len(c) - 1 /\ c[q + 1].word = "op" /\ q + 1 \in 1 .. Len(c)
      BY <1>1, <1>6, <2>2 DEF Begins
    <3> QED BY <1>1, <3>1 DEF Begins
  <2> QED BY <2>1, <2>2
<1>7. IsHole(d, Len(c) + 1) /\ Destination(d, Len(c) + 1) = Len(c) + 1 + x
  BY <1>1, <1>2 DEF IsHole, Destination
<1>8. ASSUME NEW i \in 1 .. Len(d), IsJump(d[i]), i # Len(c) + 1
      PROVE  IsHole(d, i) /\ (i \in P \/ Begins(d, Destination(d, i)))
  <2>1. i \in 1 .. Len(c)
    BY <1>1, <1>2, <1>8
  <2>2. IsHole(c, i) /\ (i \in P \/ Begins(c, Destination(c, i)))
    BY <1>1, <1>8, <2>1 DEF CodeOK, JumpsBut
  <2>3. Destination(c, i) = Destination(d, i)
    BY <1>1, <2>2 DEF Destination, IsHole
  <2> QED BY <1>5, <1>6, <2>2, <2>3
<1>9. \A q \in Q : Begins(d, q)
  BY <1>6 DEF CodeOK
<1>10. \A p \in P \cup {Len(c) + 1} : IsHole(d, p)
  BY <1>5, <1>7 DEF CodeOK
<1>11. JumpsBut(d, P \cup {Len(c) + 1})
  BY <1>7, <1>8 DEF JumpsBut
<1>12. Len(c) + 1 + x \in Q => JumpsBut(d, P)
  BY <1>7, <1>8, <1>9 DEF JumpsBut
<1> QED BY <1>1, <1>4, <1>9, <1>10, <1>11, <1>12 DEF CodeOK, d

(* d is c with the distances at ps so that they go to `to'.                *)
Filled(d, c, ps, to) ==
    d = [i \in 1 .. Len(c) |->
           IF i - 1 \in ps THEN [c[i] EXCEPT !.n = to - (i - 1)] ELSE c[i]]


(* Patching the holes at ps so that they go to where an instruction        *)
(* begins; some of the places may be in P still.                           *)
LEMMA PatchCode ==
    ASSUME NEW c, NEW n, NEW P, NEW Q, CodeOK(c, n, P, Q), NEW ps \in SUBSET P, NEW to,
           Begins(c, to), NEW R \in SUBSET P, P \subseteq R \cup ps, NEW d,
           Filled(d, c, ps, to)
    PROVE  CodeOK(d, n, R, Q) /\ Len(d) = Len(c)
<1> USE DEF Filled
<1>1. c \in Seq(WordType) /\ Len(c) \in Nat /\ to \in 0 .. Len(c)
  BY DEF CodeOK, Begins
<1>2. \A i \in 1 .. Len(c) : c[i] \in WordType
  BY <1>1
<1>3. d \in Seq(WordType) /\ Len(d) = Len(c)
  <2>1. ASSUME NEW i \in 1 .. Len(c)
        PROVE  (IF i - 1 \in ps THEN [c[i] EXCEPT !.n = to - (i - 1)] ELSE c[i]) \in WordType
    <3>1. c[i] \in WordType /\ to - (i - 1) \in Int
      BY <1>1, <1>2
    <3> QED BY <3>1 DEF WordType
  <2>2. d \in [1 .. Len(c) -> WordType]
    BY <2>1
  <2> QED BY <1>1, <2>2, MakeSeq
<1>4. ASSUME NEW i \in 1 .. Len(c)
      PROVE  /\ d[i].word = c[i].word /\ d[i].text = c[i].text
             /\ i - 1 \notin ps => d[i] = c[i]
             /\ i - 1 \in ps => d[i].n = to - (i - 1)
  <2>1. c[i] \in WordType
    BY <1>2
  <2>2. d[i] = IF i - 1 \in ps THEN [c[i] EXCEPT !.n = to - (i - 1)] ELSE c[i]
    OBVIOUS
  <2> QED BY <2>1, <2>2 DEF WordType
<1>5. \A p \in P : p \in 1 .. Len(c) - 1 /\ IsJump(c[p])
  BY DEF CodeOK, IsHole
<1>6. ASSUME NEW p, IsHole(c, p) PROVE IsHole(d, p)
  BY <1>1, <1>3, <1>4, <1>6 DEF IsHole, IsJump
<1>7. ASSUME NEW q, Begins(c, q) PROVE Begins(d, q)
  BY <1>1, <1>3, <1>4, <1>7 DEF Begins
<1>8. Indexed(d, n)
  <2> SUFFICES ASSUME NEW i \in 1 .. Len(c), d[i].word = "op" /\ d[i].text \in IndexOp
               PROVE  i < Len(d) /\ d[i + 1].n \in 0 .. n - 1
    BY <1>3 DEF Indexed
  <2>1. c[i].word = "op" /\ c[i].text \in IndexOp
    BY <1>4
  <2>2. i < Len(c) /\ c[i + 1].n \in 0 .. n - 1 /\ i + 1 \in 1 .. Len(c) /\ (i + 1) - 1 = i
    BY <1>1, <2>1 DEF CodeOK, Indexed
  <2>3. i \notin ps
    BY <1>5, <2>1 DEF IsJump, IndexOp
  <2> QED BY <1>3, <1>4, <2>2, <2>3
<1>9. JumpsBut(d, R)
  <2> SUFFICES ASSUME NEW i \in 1 .. Len(c), IsJump(d[i])
               PROVE  IsHole(d, i) /\ (i \in R \/ Begins(d, Destination(d, i)))
    BY <1>3 DEF JumpsBut
  <2>1. IsJump(c[i])
    BY <1>4 DEF IsJump
  <2>2. IsHole(c, i) /\ (i \in P \/ Begins(c, Destination(c, i)))
    BY <2>1 DEF CodeOK, JumpsBut
  <2>3. i + 1 \in 1 .. Len(c) /\ (i + 1) - 1 = i
    BY <1>1, <2>2 DEF IsHole
  <2>4. CASE i \in ps
    <3>1. d[i + 1].n = to - i
      BY <1>4, <2>3, <2>4
    <3>2. Destination(d, i) = to
      BY <1>1, <3>1 DEF Destination
    <3> QED BY <1>6, <1>7, <2>2, <3>2
  <2>5. CASE i \notin ps
    <3>1. d[i + 1] = c[i + 1]
      BY <1>4, <2>3, <2>5
    <3>2. Destination(d, i) = Destination(c, i)
      BY <3>1 DEF Destination
    <3> QED BY <1>6, <1>7, <2>2, <2>5, <3>2
  <2> QED BY <2>4, <2>5
<1>10. \A p \in R : IsHole(d, p)
  BY <1>6 DEF CodeOK
<1>11. \A q \in Q : Begins(d, q)
  BY <1>7 DEF CodeOK
<1> QED BY <1>3, <1>8, <1>9, <1>10, <1>11 DEF CodeOK

(* Another variable, and the end as a place where an instruction begins.   *)
LEMMA MoreCode ==
    ASSUME NEW c, NEW n \in Nat, NEW P, NEW Q, CodeOK(c, n, P, Q)
    PROVE  /\ CodeOK(c, n + 1, P, Q)
           /\ CodeOK(c, n, P, Q \cup {Len(c)})
           /\ \A R \in SUBSET Q : CodeOK(c, n, P, R)
<1>1. Indexed(c, n + 1)
  BY DEF CodeOK, Indexed
<1>2. Begins(c, Len(c))
  BY DEF CodeOK, Begins
<1> QED BY <1>1, <1>2 DEF CodeOK

-----------------------------------------------------------------------------
(* What the tasks emit *)

(* Two rows of whole instructions are one.                                 *)
LEMMA JoinWords ==
    ASSUME NEW v, NEW w, NEW n, GoodWords(v, n), GoodWords(w, n)
    PROVE  GoodWords(v \o w, n)
<1> DEFINE d == v \o w
<1>1. /\ d \in Seq(WordType) /\ Len(d) = Len(v) + Len(w)
      /\ \A p \in 1 .. Len(v) + Len(w) : d[p] = IF p <= Len(v) THEN v[p] ELSE w[p - Len(v)]
  BY JoinSeq DEF GoodWords
<1>2. Len(v) \in Nat /\ Len(w) \in Nat /\ Len(v) > 0 /\ Len(w) > 0
  BY DEF GoodWords
<1> HIDE DEF d
<1>3. ASSUME NEW i \in 1 .. Len(d), i <= Len(v)
      PROVE  /\ ~IsJump(d[i])
             /\ d[i].word = "value" => i > 1 /\ d[i - 1].word # "value"
             /\ d[i].word = "op" /\ d[i].text \in IndexOp =>
                   i < Len(d) /\ d[i + 1].n \in 0 .. n - 1
  <2>1. i \in 1 .. Len(v) /\ d[i] = v[i]
    BY <1>1, <1>2, <1>3
  <2>2. i > 1 => d[i - 1] = v[i - 1]
    BY <1>1, <1>2, <2>1
  <2>3. i < Len(v) => d[i + 1] = v[i + 1]
    BY <1>1, <1>2, <2>1
  <2>4. /\ ~IsJump(v[i])
        /\ v[i].word = "value" => i > 1 /\ v[i - 1].word # "value"
        /\ v[i].word = "op" /\ v[i].text \in IndexOp => i < Len(v) /\ v[i + 1].n \in 0 .. n - 1
    BY <2>1 DEF GoodWords
  <2> QED BY <1>1, <1>2, <2>1, <2>2, <2>3, <2>4
<1>4. ASSUME NEW i \in 1 .. Len(d), ~(i <= Len(v))
      PROVE  /\ ~IsJump(d[i])
             /\ d[i].word = "value" => i > 1 /\ d[i - 1].word # "value"
             /\ d[i].word = "op" /\ d[i].text \in IndexOp =>
                   i < Len(d) /\ d[i + 1].n \in 0 .. n - 1
  <2> DEFINE j == i - Len(v)
  <2>1. j \in 1 .. Len(w) /\ d[i] = w[j]
    BY <1>1, <1>2, <1>4
  <2>2. j > 1 => d[i - 1] = w[j - 1]
    <3> SUFFICES ASSUME j > 1 PROVE d[i - 1] = w[j - 1]
      OBVIOUS
    <3>1. i - 1 \in 1 .. Len(v) + Len(w) /\ ~(i - 1 <= Len(v)) /\ i - 1 - Len(v) = j - 1
      BY <1>1, <1>2, <2>1
    <3> QED BY <1>1, <3>1
  <2>3. j < Len(w) => d[i + 1] = w[j + 1]
    <3> SUFFICES ASSUME j < Len(w) PROVE d[i + 1] = w[j + 1]
      OBVIOUS
    <3>1. i + 1 \in 1 .. Len(v) + Len(w) /\ ~(i + 1 <= Len(v)) /\ i + 1 - Len(v) = j + 1
      BY <1>1, <1>2, <2>1
    <3> QED BY <1>1, <3>1
  <2>4. /\ ~IsJump(w[j])
        /\ w[j].word = "value" => j > 1 /\ w[j - 1].word # "value"
        /\ w[j].word = "op" /\ w[j].text \in IndexOp => j < Len(w) /\ w[j + 1].n \in 0 .. n - 1
    BY <2>1 DEF GoodWords
  <2>5. (j > 1 => i > 1) /\ (j < Len(w) => i < Len(d))
    BY <1>1, <1>2
  <2> HIDE DEF j
  <2> QED BY <2>1, <2>2, <2>3, <2>4, <2>5
<1>5. d # <<>> /\ d[1].word = "op"
  <2>1. d[1] = v[1] /\ Len(d) > 0
    BY <1>1, <1>2
  <2> QED BY <2>1, <1>1 DEF GoodWords
<1> QED BY <1>1, <1>3, <1>4, <1>5 DEF GoodWords, d

(* Instructions without a variable, a value or a distance.                 *)
SimpleOp   == Opcode \ (JumpOp \cup IndexOp)
SimpleWord == {w \in WordType : \/ w.word = "arg"
                                \/ w.word = "op" /\ w.text \notin JumpOp \cup IndexOp}

LEMMA SimpleParts ==
    ASSUME NEW op \in SimpleOp, NEW id \in Identifier, NEW x \in Int
    PROVE  /\ Op(op) \in SimpleWord /\ Op(op).word = "op"
           /\ Name(id) \in SimpleWord /\ Arg(x) \in SimpleWord
<1>1. op \in Opcode /\ NilConst \in Constant
  BY NilType DEF SimpleOp
<1> QED BY <1>1, WordTypes DEF SimpleWord, SimpleOp

LEMMA SimpleWords ==
    ASSUME NEW w \in Seq(SimpleWord), w # <<>>, w[1].word = "op", NEW n
    PROVE  GoodWords(w, n)
<1>1. \A i \in 1 .. Len(w) : w[i] \in SimpleWord
  OBVIOUS
<1>2. w \in Seq(WordType)
  BY DEF SimpleWord
<1>3. \A i \in 1 .. Len(w) : ~IsJump(w[i]) /\ w[i].word # "value"
                             /\ ~(w[i].word = "op" /\ w[i].text \in IndexOp)
  BY <1>1 DEF SimpleWord, IsJump, JumpOp
<1> QED BY <1>2, <1>3 DEF GoodWords

(* The words that tasks emit most.                                         *)
LEMMA OneWords ==
    ASSUME NEW op \in Opcode \ JumpOp, NEW n, NEW x \in Int, op \in IndexOp => x \in 0 .. n - 1
    PROVE  GoodWords(One(op, x), n)
<1>1. /\ Op(op) \in WordType /\ Arg(x) \in WordType
      /\ Op(op).word = "op" /\ Op(op).text = op /\ Arg(x).word = "arg" /\ Arg(x).n = x
  BY NilType, WordTypes
<1>2. PICK w : w = One(op, x)
  OBVIOUS
<1>3. w \in Seq(WordType) /\ Len(w) = 2 /\ w[1] = Op(op) /\ w[2] = Arg(x)
  BY <1>1, <1>2 DEF One
<1>4. ASSUME NEW i \in 1 .. Len(w)
      PROVE  /\ ~IsJump(w[i])
             /\ w[i].word # "value"
             /\ w[i].word = "op" /\ w[i].text \in IndexOp =>
                   i < Len(w) /\ w[i + 1].n \in 0 .. n - 1
  <2>1. CASE i = 1
    BY <1>1, <1>3, <2>1 DEF IsJump, JumpOp
  <2>2. CASE i = 2
    BY <1>1, <1>3, <2>2 DEF IsJump
  <2> QED BY <1>3, <2>1, <2>2
<1>5. w # <<>> /\ w[1].word = "op"
  BY <1>1, <1>3
<1>6. GoodWords(w, n)
  BY <1>3, <1>4, <1>5 DEF GoodWords
<1> QED BY <1>2, <1>6

LEMMA PushWords ==
    ASSUME NEW v \in Constant, NEW n
    PROVE  GoodWords(Push(v), n)
<1> DEFINE val == Word("value", "", 0, v)
<1>1. "PUSH" \in Opcode /\ "PUSH" \notin JumpOp /\ "PUSH" \notin IndexOp
  BY DEF Opcode, JumpOp, IndexOp
<1>2. /\ Op("PUSH") \in WordType /\ val \in WordType
      /\ Op("PUSH").word = "op" /\ Op("PUSH").text \notin JumpOp \cup IndexOp
      /\ val.word = "value"
  <2>1. PICK op : op = "PUSH"
    OBVIOUS
  <2>2. op \in Opcode /\ 0 \in Int
    BY <1>1, <2>1
  <2>3. Op(op) \in WordType /\ val \in WordType /\ Op(op).word = "op" /\ Op(op).text = op
        /\ val.word = "value"
    BY <2>2, NilType, WordTypes
  <2>4. Op(op).text \notin JumpOp \cup IndexOp
    BY <1>1, <2>1, <2>3
  <2> HIDE DEF val
  <2> QED BY <2>1, <2>3, <2>4
<1> HIDE DEF val
<1>3. PICK o : o = Op("PUSH")
  OBVIOUS
<1>4. PICK w : w = <<o, val>>
  OBVIOUS
<1>5. /\ o \in WordType /\ val \in WordType
      /\ o.word = "op" /\ o.text \notin JumpOp \cup IndexOp /\ val.word = "value"
  BY <1>2, <1>3
<1>6. w \in Seq(WordType) /\ Len(w) = 2 /\ w[1] = o /\ w[2] = val
  BY <1>5, <1>4
<1>7. ASSUME NEW i \in 1 .. Len(w)
      PROVE  /\ ~IsJump(w[i])
             /\ w[i].word = "value" => i > 1 /\ w[i - 1].word # "value"
             /\ ~(w[i].word = "op" /\ w[i].text \in IndexOp)
  <2>1. CASE i = 1
    BY <1>5, <1>6, <2>1 DEF IsJump, JumpOp
  <2>2. CASE i = 2
    BY <1>5, <1>6, <2>2 DEF IsJump
  <2> QED BY <1>6, <2>1, <2>2
<1>8. w # <<>> /\ w[1].word = "op"
  BY <1>5, <1>6
<1>9. GoodWords(w, n)
  BY <1>6, <1>7, <1>8 DEF GoodWords
<1> QED BY <1>4, <1>9, <1>3 DEF Push, val

LEMMA TupleWords ==
    ASSUME NEW a \in SimpleWord, a.word = "op", NEW b \in SimpleWord, NEW c \in SimpleWord,
           NEW d \in SimpleWord, NEW n
    PROVE  /\ GoodWords(<<a>>, n) /\ GoodWords(<<a, b>>, n)
           /\ GoodWords(<<a, b, c>>, n) /\ GoodWords(<<a, b, c, d>>, n)
<1>1. ASSUME NEW w \in Seq(SimpleWord), w # <<>>, w[1] = a
      PROVE  GoodWords(w, n)
  <2>1. w[1].word = "op"
    BY <1>1
  <2> QED BY <1>1, <2>1, SimpleWords
<1>2. /\ <<a>> \in Seq(SimpleWord) /\ <<a>> # <<>> /\ <<a>>[1] = a
      /\ <<a, b>> \in Seq(SimpleWord) /\ <<a, b>> # <<>> /\ <<a, b>>[1] = a
  OBVIOUS
<1>3. /\ <<a, b, c>> \in Seq(SimpleWord) /\ <<a, b, c>> # <<>> /\ <<a, b, c>>[1] = a
      /\ <<a, b, c, d>> \in Seq(SimpleWord) /\ <<a, b, c, d>> # <<>> /\ <<a, b, c, d>>[1] = a
  OBVIOUS
<1> QED BY <1>1, <1>2, <1>3, Zenon

LEMMA SomeWords ==
    ASSUME NEW op \in SimpleOp, NEW op2 \in SimpleOp, NEW op3 \in SimpleOp,
           NEW id \in Identifier, NEW x \in Int, NEW n
    PROVE  /\ GoodWords(<<Op(op)>>, n) /\ GoodWords(<<Op(op), Op(op2)>>, n)
           /\ GoodWords(<<Op(op), Op(op2), Op(op3)>>, n)
           /\ GoodWords(<<Op(op), Name(id)>>, n)
           /\ GoodWords(<<Op(op), Name(id), Arg(x)>>, n)
           /\ GoodWords(<<Op(op), Op(op2), Name(id)>>, n)
           /\ GoodWords(<<Op(op), Op(op2), Name(id), Op(op3)>>, n)
<1>1. /\ Op(op) \in SimpleWord /\ Op(op2) \in SimpleWord /\ Op(op3) \in SimpleWord
      /\ Name(id) \in SimpleWord /\ Arg(x) \in SimpleWord /\ Op(op).word = "op"
  BY SimpleParts
<1> QED BY <1>1, TupleWords, Zenon

-----------------------------------------------------------------------------
(* Tasks *)

LEMMA TaskParts ==
    ASSUME NEW do \in Do
    PROVE  /\ Task(do) \in TaskType
           /\ Task(do).do = do
<1>1. PICK e : e = ""
  OBVIOUS
<1>2. PICK z : z = <<>>
  OBVIOUS
<1>3. e \in Wording /\ z \in Seq(WordType) /\ z \in Seq(Nodes) /\ 0 \in 0 .. 2
  <2>1. e \in Wording
    BY <1>1, NilType
  <2>2. z \in Seq(WordType) /\ z \in Seq(Nodes)
    BY <1>2
  <2> QED BY <2>1, <2>2
<1>4. Task(do) = [do |-> do, words |-> z, nodes |-> z, op |-> e, k |-> 0]
  BY <1>1, <1>2 DEF Task
<1> HIDE DEF Do, WordType, Wording
<1>5. [do |-> do, words |-> z, nodes |-> z, op |-> e, k |-> 0] \in TaskType
  BY <1>3 DEF TaskType
<1> QED BY <1>4, <1>5

LEMMA TaskForms ==
    ASSUME NEW w \in Seq(WordType), NEW nodes \in Seq(Nodes), NEW op \in Wording,
           NEW k \in 0 .. 2
    PROVE  /\ Emit(w) \in TaskType /\ Emit(w).do = "emit" /\ Emit(w).words = w
           /\ Sub(nodes) \in TaskType /\ Sub(nodes).do = "sub"
           /\ Jump(k, op) \in TaskType /\ Jump(k, op).do = "jump" /\ Jump(k, op).k = k
           /\ Jump(k, op).op = op
           /\ Land(k) \in TaskType /\ Land(k).do = "land" /\ Land(k).k = k
           /\ Leave(op) \in TaskType /\ Leave(op).do = "leave" /\ Leave(op).op = op
           /\ Again(op) \in TaskType /\ Again(op).do = "again" /\ Again(op).op = op
           /\ AddVar(op) \in TaskType /\ AddVar(op).do = "var" /\ AddVar(op).op = op
           /\ PushBlock \in TaskType /\ PushBlock.do = "block"
           /\ PopBlock \in TaskType /\ PopBlock.do = "unblock"
           /\ AddContinue \in TaskType /\ AddContinue.do = "continue"
           /\ GoEnd \in TaskType /\ GoEnd.do = "return"
           /\ Refuse \in TaskType /\ Refuse.do = "fail"
<1>1. ASSUME NEW t \in TaskType
      PROVE  /\ [t EXCEPT !.words = w] \in TaskType /\ [t EXCEPT !.words = w].do = t.do
             /\ [t EXCEPT !.words = w].words = w
             /\ [t EXCEPT !.nodes = nodes] \in TaskType /\ [t EXCEPT !.nodes = nodes].do = t.do
             /\ [t EXCEPT !.op = op] \in TaskType /\ [t EXCEPT !.op = op].do = t.do
             /\ [t EXCEPT !.op = op].op = op
             /\ [t EXCEPT !.k = k] \in TaskType /\ [t EXCEPT !.k = k].do = t.do
             /\ [t EXCEPT !.k = k].k = k
             /\ [t EXCEPT !.k = k, !.op = op] \in TaskType
             /\ [t EXCEPT !.k = k, !.op = op].do = t.do
             /\ [t EXCEPT !.k = k, !.op = op].k = k /\ [t EXCEPT !.k = k, !.op = op].op = op
  BY DEF TaskType
<1>2. ASSUME NEW do \in Do
      PROVE  Task(do) \in TaskType /\ Task(do).do = do
  BY TaskParts
<1>3. /\ "emit" \in Do /\ "sub" \in Do /\ "jump" \in Do /\ "land" \in Do /\ "leave" \in Do
      /\ "again" \in Do /\ "var" \in Do /\ "block" \in Do /\ "unblock" \in Do
      /\ "continue" \in Do /\ "return" \in Do /\ "fail" \in Do
  BY DEF Do
<1>4. Emit(w) \in TaskType /\ Emit(w).do = "emit" /\ Emit(w).words = w
  BY <1>1, <1>2, <1>3, Zenon DEF Emit
<1>5. Sub(nodes) \in TaskType /\ Sub(nodes).do = "sub"
  BY <1>1, <1>2, <1>3, Zenon DEF Sub
<1>6. /\ Jump(k, op) \in TaskType /\ Jump(k, op).do = "jump" /\ Jump(k, op).k = k
      /\ Jump(k, op).op = op
  BY <1>1, <1>2, <1>3, Zenon DEF Jump
<1>7. Land(k) \in TaskType /\ Land(k).do = "land" /\ Land(k).k = k
  BY <1>1, <1>2, <1>3, Zenon DEF Land
<1>8. Leave(op) \in TaskType /\ Leave(op).do = "leave" /\ Leave(op).op = op
  BY <1>1, <1>2, <1>3, Zenon DEF Leave
<1>9. Again(op) \in TaskType /\ Again(op).do = "again" /\ Again(op).op = op
  BY <1>1, <1>2, <1>3, Zenon DEF Again
<1>10. AddVar(op) \in TaskType /\ AddVar(op).do = "var" /\ AddVar(op).op = op
  BY <1>1, <1>2, <1>3, Zenon DEF AddVar
<1>11. /\ PushBlock \in TaskType /\ PushBlock.do = "block"
       /\ PopBlock \in TaskType /\ PopBlock.do = "unblock"
       /\ AddContinue \in TaskType /\ AddContinue.do = "continue"
       /\ GoEnd \in TaskType /\ GoEnd.do = "return"
       /\ Refuse \in TaskType /\ Refuse.do = "fail"
  BY <1>2, <1>3, Zenon DEF PushBlock, PopBlock, AddContinue, GoEnd, Refuse
<1> QED BY <1>4, <1>5, <1>6, <1>7, <1>8, <1>9, <1>10, <1>11

(* Tasks that open and close nothing and declare no variable.              *)
PlainTask(n) == {t \in TaskType :
                   /\ t.do \in {"sub", "emit", "leave", "continue", "return", "fail"}
                   /\ TaskOK(t, n)}

LEMMA PlainTasks ==
    ASSUME NEW n, NEW nodes \in Seq(Nodes), NEW op \in JumpOp
    PROVE  /\ Sub(nodes) \in PlainTask(n)
           /\ Leave(op) \in PlainTask(n)
           /\ AddContinue \in PlainTask(n) /\ GoEnd \in PlainTask(n) /\ Refuse \in PlainTask(n)
<1>1. op \in Wording
  BY DEF JumpOp, Wording, Opcode
<1>2. <<>> \in Seq(WordType) /\ 0 \in 0 .. 2
  OBVIOUS
<1>3. /\ Sub(nodes) \in TaskType /\ Sub(nodes).do = "sub"
      /\ Leave(op) \in TaskType /\ Leave(op).do = "leave" /\ Leave(op).op = op
      /\ AddContinue \in TaskType /\ AddContinue.do = "continue"
      /\ GoEnd \in TaskType /\ GoEnd.do = "return"
      /\ Refuse \in TaskType /\ Refuse.do = "fail"
  BY <1>1, <1>2, TaskForms
<1> HIDE DEF JumpOp
<1> QED BY <1>3 DEF PlainTask, TaskOK

LEMMA PlainEmit ==
    ASSUME NEW n, NEW w, GoodWords(w, n)
    PROVE  Emit(w) \in PlainTask(n)
<1>1. w \in Seq(WordType)
  BY DEF GoodWords
<1>2. Emit(w) \in TaskType /\ Emit(w).do = "emit" /\ Emit(w).words = w
  <2>1. PICK e \in Wording : TRUE
    BY NilType
  <2>2. <<>> \in Seq(Nodes) /\ 0 \in 0 .. 2
    OBVIOUS
  <2> QED BY <2>1, <2>2, <1>1, TaskForms
<1> QED BY <1>2 DEF PlainTask, TaskOK

(* They leave nothing to be matched.                                       *)
LEMMA PlainGood ==
    ASSUME NEW n, NEW todo \in Seq(PlainTask(n))
    PROVE  /\ todo \in Seq(TaskType) /\ GoodTodo(todo, n)
           /\ \A b \in 0 .. 2 : ~Inside(todo, b)
<1>1. ASSUME NEW i \in DOMAIN todo
      PROVE  /\ todo[i] \in TaskType /\ TaskOK(todo[i], n) /\ todo[i].do # "var"
             /\ todo[i].do # "again"
             /\ \A b \in 0 .. 2 : ~Opens(todo[i], b) /\ ~Closes(todo[i], b)
  <2>1. todo[i] \in PlainTask(n)
    OBVIOUS
  <2>2. /\ todo[i] \in TaskType /\ TaskOK(todo[i], n)
        /\ todo[i].do \in {"sub", "emit", "leave", "continue", "return", "fail"}
    BY <2>1 DEF PlainTask
  <2> QED BY <2>2 DEF Opens, Closes
<1>2. \A i \in DOMAIN todo : todo[1].do # "var"
  <2> SUFFICES ASSUME NEW i \in DOMAIN todo PROVE todo[1].do # "var"
    OBVIOUS
  <2>1. 1 \in DOMAIN todo
    OBVIOUS
  <2> QED BY <1>1, <2>1
<1>3. todo \in Seq(TaskType)
  BY DEF PlainTask
<1> HIDE DEF PlainTask
<1> QED BY <1>1, <1>2, <1>3 DEF GoodTodo, Inside

-----------------------------------------------------------------------------
(* The plans of the nodes without jumps of their own *)

(* What the grammar guarantees of a node.                                  *)
LEMMA NodeParts ==
    ASSUME NEW node \in Nodes
    PROVE  /\ node.name \in STRING /\ node.name \in Identifier /\ node.value \in Constant
           /\ node.line \in Nat
           /\ node.kids \in Seq(Seq(Nodes)) /\ Len(node.kids) = Arity(node.type)
           /\ node.type \in {"MATH", "PREOP", "POSTOP"} =>
                 node.op \in SimpleOp
           /\ node.type \in {"PREOP", "POSTOP"} => node.kids[1] # <<>>
<1>1. node \in [type : STRING, kids : Seq(Seq(Nodes)), name : STRING, op : STRING,
                value : Constant, line : Nat]
  BY NodesAssumption
<1>2. node.name \in Identifier
  BY <1>1 DEF Identifier
<1>3. Operator \subseteq SimpleOp
  BY DEF Operator, SimpleOp, Opcode, Arithmetic, Relational, JumpOp, IndexOp
<1> QED BY <1>1, <1>2, <1>3, NodesAssumption

(* A variable or a global that is found has an index.                      *)
LEMMA Indexes ==
    ASSUME vars \in Seq(STRING), file \in FileType, NEW id
    PROVE  GetVar(id) \in -1 .. Len(vars) - 1 /\ GetGlobal(id) \in Int
<1> DEFINE I == {i \in 1 .. Len(vars) : vars[i] = id}
           J == {i \in 1 .. Len(file.globals) : file.globals[i] = id}
<1>1. GetVar(id) = (IF I # {} THEN Min(I) ELSE 0) - 1
  BY DEF GetVar, SelectInSeq
<1>2. I # {} => Min(I) \in I
  <2>1. I \subseteq Nat
    OBVIOUS
  <2> HIDE DEF I
  <2> QED BY <2>1, MinNat
<1>3. GetGlobal(id) = (IF J # {} THEN Min(J) ELSE 0) - 1
  BY DEF GetGlobal, SelectInSeq
<1>4. J # {} => Min(J) \in Nat
  <2>1. J \subseteq Nat
    OBVIOUS
  <2> HIDE DEF J
  <2> QED BY <2>1, MinNat
<1> QED BY <1>1, <1>2, <1>3, <1>4

(* Tasks that emit one thing.                                              *)
LEMMA PlainAlone ==
    ASSUME NEW n, NEW op \in SimpleOp
    PROVE  Alone(op) \in PlainTask(n) /\ GoodWords(<<Op(op)>>, n)
<1>1. PICK id \in Identifier : TRUE
  BY NilType
<1>2. GoodWords(<<Op(op)>>, n)
  BY <1>1, 0 \in Int, SomeWords
<1> QED BY <1>2, PlainEmit DEF Alone

LEMMA PlainPush ==
    ASSUME NEW n, NEW v \in Constant
    PROVE  Emit(Push(v)) \in PlainTask(n)
  BY PushWords, PlainEmit

LEMMA PlainVariable ==
    ASSUME NEW n, NEW x \in 0 .. n - 1, n \in Nat, NEW op \in IndexOp
    PROVE  GoodWords(One(op, x), n) /\ Emit(One(op, x)) \in PlainTask(n)
<1>1. op \in Opcode \ JumpOp
  BY DEF IndexOp, JumpOp, Opcode
<1>2. GoodWords(One(op, x), n)
  BY <1>1, x \in Int, OneWords
<1> QED BY <1>2, PlainEmit

LEMMA PlainCounted ==
    ASSUME NEW n, NEW x \in Int, NEW op \in SimpleOp
    PROVE  GoodWords(One(op, x), n) /\ Emit(One(op, x)) \in PlainTask(n)
<1>1. op \in Opcode \ JumpOp /\ op \notin IndexOp
  BY DEF SimpleOp
<1>2. GoodWords(One(op, x), n)
  BY <1>1, OneWords
<1> QED BY <1>2, PlainEmit

LEMMA PlainNamed ==
    ASSUME NEW n, NEW id \in Identifier, NEW op \in SimpleOp
    PROVE  GoodWords(<<Op(op), Name(id)>>, n) /\ Emit(<<Op(op), Name(id)>>) \in PlainTask(n)
<1>1. GoodWords(<<Op(op), Name(id)>>, n)
  BY 0 \in Int, SomeWords
<1> QED BY <1>1, PlainEmit

LEMMA Ops ==
    /\ "POP" \in SimpleOp /\ "TEST" \in SimpleOp /\ "SETINDEX" \in SimpleOp
    /\ "INDEX" \in SimpleOp /\ "NEW" \in SimpleOp /\ "TYPECAST" \in SimpleOp
    /\ "IN" \in SimpleOp /\ "YIELD" \in SimpleOp /\ "NEGATE" \in SimpleOp
    /\ "NOT" \in SimpleOp /\ "STRINGCAST" \in SimpleOp /\ "INTCAST" \in SimpleOp
    /\ "CONCAT" \in SimpleOp /\ "GET_MEMBER" \in SimpleOp /\ "SET_MEMBER" \in SimpleOp
    /\ "COPY" \in SimpleOp /\ "INVOKE" \in SimpleOp /\ "METHOD" \in SimpleOp
    /\ "NEWARRAY" \in SimpleOp
    /\ "LOOKUP" \in IndexOp /\ "ASSIGN" \in IndexOp /\ "ITER" \in IndexOp
    /\ "JUMP" \in JumpOp /\ "TJUMP" \in JumpOp /\ "FJUMP" \in JumpOp
  BY DEF SimpleOp, Opcode, JumpOp, IndexOp

LEMMA NamedConsts ==
    ASSUME NEW id \in Identifier, NEW x \in Int
    PROVE  /\ Const("globals", "", 0) \in Constant /\ Number(x) \in Constant
           /\ Const("function", id, 0) \in Constant /\ Const("global", id, 0) \in Constant
<1>1. "" \in Identifier
  BY NilType
<1>2. 0 \in Int
  OBVIOUS
<1>3. /\ "globals" \in {"nil", "number", "string", "type", "globals", "function", "global"}
      /\ "number" \in {"nil", "number", "string", "type", "globals", "function", "global"}
      /\ "function" \in {"nil", "number", "string", "type", "globals", "function", "global"}
      /\ "global" \in {"nil", "number", "string", "type", "globals", "function", "global"}
  OBVIOUS
<1> QED BY <1>2, <1>1, <1>3, ConstTypes, Zenon DEF Number

LEMMA PlainGlobal ==
    ASSUME vars \in Seq(STRING), file \in FileType, NEW n, NEW id \in Identifier
    PROVE  /\ GoodWords(GlobalIndex(id), n)
           /\ GoodWords(GlobalIndex(id) \o <<Op("INDEX")>>, n)
<1>1. GetGlobal(id) \in Int
  BY Indexes
<1>2. GoodWords(Push(Const("globals", "", 0)), n)
      /\ GoodWords(Push(Number(GetGlobal(id))), n)
  <2>1. PICK x : x = GetGlobal(id)
    OBVIOUS
  <2>2. Const("globals", "", 0) \in Constant /\ Number(x) \in Constant
    BY <1>1, <2>1, NamedConsts
  <2>3. GoodWords(Push(Const("globals", "", 0)), n) /\ GoodWords(Push(Number(x)), n)
    BY <2>2, PushWords
  <2> QED BY <2>1, <2>3
<1>3. GoodWords(GlobalIndex(id), n)
  BY <1>2, JoinWords DEF GlobalIndex
<1>4. GoodWords(<<Op("INDEX")>>, n)
  BY Ops, PlainAlone, Zenon
<1> QED BY <1>3, <1>4, JoinWords

LEMMA LookupPlain ==
    ASSUME vars \in Seq(STRING), file \in FileType, NEW n \in Nat, n = Len(vars), NEW id \in Identifier
    PROVE  PlanLookup(id) \in Seq(PlainTask(n))
<1>1. PICK x : x = GetVar(id)
  OBVIOUS
<1>2. CASE GetVar(id) >= 0
  <2>1. x \in 0 .. n - 1
    BY <1>1, <1>2, Indexes
  <2>2. Emit(One("LOOKUP", x)) \in PlainTask(n)
    BY <2>1, Ops, PlainVariable, Zenon
  <2>3. PlanLookup(id) = <<Emit(One("LOOKUP", x))>>
    BY <1>1, <1>2 DEF PlanLookup
  <2> QED BY <2>2, <2>3
<1>3. Emit(Push(Const("function", id, 0))) \in PlainTask(n)
      /\ Emit(Push(Const("global", id, 0))) \in PlainTask(n)
  <2>1. Const("function", id, 0) \in Constant /\ Const("global", id, 0) \in Constant
    <3>1. 0 \in Int
      OBVIOUS
    <3> QED BY <3>1, NamedConsts
  <2> QED BY <2>1, PlainPush
<1>4. Emit(GlobalIndex(id) \o <<Op("INDEX")>>) \in PlainTask(n)
  BY PlainGlobal, PlainEmit
<1>5. Refuse \in PlainTask(n)
  BY PlainTasks, Ops, <<>> \in Seq(Nodes), Zenon
<1>6. CASE ~(GetVar(id) >= 0)
  <2>1. PlanLookup(id) \in {<<Emit(Push(Const("function", id, 0)))>>,
                            <<Emit(Push(Const("global", id, 0)))>>,
                            <<Emit(GlobalIndex(id) \o <<Op("INDEX")>>)>>, <<Refuse>>}
    BY <1>6 DEF PlanLookup
  <2>2. /\ <<Emit(Push(Const("function", id, 0)))>> \in Seq(PlainTask(n))
        /\ <<Emit(Push(Const("global", id, 0)))>> \in Seq(PlainTask(n))
    BY <1>3
  <2>3. /\ <<Emit(GlobalIndex(id) \o <<Op("INDEX")>>)>> \in Seq(PlainTask(n))
        /\ <<Refuse>> \in Seq(PlainTask(n))
    BY <1>4, <1>5
  <2> QED BY <2>1, <2>2, <2>3
<1> QED BY <1>2, <1>6

LEMMA AssignPlain ==
    ASSUME vars \in Seq(STRING), file \in FileType, NEW n \in Nat, n = Len(vars), NEW id \in Identifier,
           NEW value \in Seq(Nodes)
    PROVE  PlanAssign(id, value) \in Seq(PlainTask(n))
<1>1. PICK x : x = GetVar(id)
  OBVIOUS
<1>2. Sub(value) \in PlainTask(n) /\ Refuse \in PlainTask(n)
  BY Ops, PlainTasks
<1>3. Emit(GlobalIndex(id)) \in PlainTask(n) /\ Alone("SETINDEX") \in PlainTask(n)
  <2>1. Alone("SETINDEX") \in PlainTask(n)
    BY Ops, PlainAlone, Zenon
  <2> QED BY <2>1, PlainGlobal, PlainEmit
<1>4. CASE GetVar(id) >= 0
  <2>1. x \in 0 .. n - 1
    BY <1>1, <1>4, Indexes
  <2>2. Emit(One("ASSIGN", x)) \in PlainTask(n)
    BY <2>1, Ops, PlainVariable, Zenon
  <2>3. PlanAssign(id, value) = <<Sub(value), Emit(One("ASSIGN", x))>>
    BY <1>1, <1>4 DEF PlanAssign
  <2> QED BY <1>2, <2>2, <2>3
<1>5. CASE ~(GetVar(id) >= 0)
  <2>1. PlanAssign(id, value) \in {<<Emit(GlobalIndex(id)), Sub(value), Alone("SETINDEX")>>,
                                   <<Refuse>>}
    BY <1>5 DEF PlanAssign
  <2>2. <<Emit(GlobalIndex(id)), Sub(value), Alone("SETINDEX")>> \in Seq(PlainTask(n))
        /\ <<Refuse>> \in Seq(PlainTask(n))
    BY <1>2, <1>3
  <2> QED BY <2>1, <2>2
<1> QED BY <1>4, <1>5

(* += and its like.                                                        *)
LEMMA OperatorPlain ==
    ASSUME vars \in Seq(STRING), file \in FileType, NEW n \in Nat, n = Len(vars),
           NEW op \in SimpleOp, NEW lval \in Nodes, NEW value \in Seq(Nodes)
    PROVE  /\ PlanPreOp(op, lval, value) \in Seq(PlainTask(n))
           /\ PlanPostOp(op, lval, value) \in Seq(PlainTask(n))
<1>1. PICK x : x = GetVar(lval.name)
  OBVIOUS
<1>2. Sub(value) \in PlainTask(n) /\ Refuse \in PlainTask(n)
  BY Ops, PlainTasks
<1>3. lval.name \in Identifier /\ lval.kids \in Seq(Seq(Nodes)) /\ Len(lval.kids) = Arity(lval.type)
  BY NodeParts
<1>4. CASE lval.type = "LOOKUP" /\ GetVar(lval.name) >= 0
  <2>1. x \in 0 .. n - 1
    BY <1>1, <1>4, Indexes
  <2>2. GoodWords(One("LOOKUP", x), n) /\ GoodWords(One("ASSIGN", x), n)
    BY <2>1, Ops, PlainVariable, Zenon
  <2>3. GoodWords(<<Op(op)>>, n) /\ GoodWords(<<Op("POP")>>, n) /\ GoodWords(One("COPY", 1), n)
    BY Ops, 1 \in Int, PlainAlone, PlainCounted, Zenon
  <2>4. GoodWords(One("LOOKUP", x) \o One("COPY", 1), n)
        /\ GoodWords(<<Op(op)>> \o One("ASSIGN", x), n)
    BY <2>2, <2>3, JoinWords
  <2>5. GoodWords(<<Op(op)>> \o One("ASSIGN", x) \o <<Op("POP")>>, n)
    BY <2>3, <2>4, JoinWords
  <2>6. Emit(One("LOOKUP", x)) \in PlainTask(n)
        /\ Emit(One("LOOKUP", x) \o One("COPY", 1)) \in PlainTask(n)
        /\ Emit(<<Op(op)>> \o One("ASSIGN", x)) \in PlainTask(n)
        /\ Emit(<<Op(op)>> \o One("ASSIGN", x) \o <<Op("POP")>>) \in PlainTask(n)
    BY <2>2, <2>4, <2>5, PlainEmit
  <2>7. PlanPreOp(op, lval, value) = << Emit(One("LOOKUP", x)), Sub(value),
                                        Emit(<<Op(op)>> \o One("ASSIGN", x)) >>
    BY <1>1, <1>4 DEF PlanPreOp
  <2>8. PlanPostOp(op, lval, value) =
           << Emit(One("LOOKUP", x) \o One("COPY", 1)), Sub(value),
              Emit(<<Op(op)>> \o One("ASSIGN", x) \o <<Op("POP")>>) >>
    BY <1>1, <1>4 DEF PlanPostOp
  <2> QED BY <1>2, <2>6, <2>7, <2>8
<1>5. CASE lval.type = "GETINDEX"
  <2>1. Sub(lval.kids[1]) \in PlainTask(n) /\ Sub(lval.kids[2]) \in PlainTask(n)
    <3>1. Arity(lval.type) = 2
      BY <1>5 DEF Arity
    <3>2. lval.kids[1] \in Seq(Nodes) /\ lval.kids[2] \in Seq(Nodes)
      BY <1>3, <3>1
    <3> QED BY <3>2, Ops, PlainTasks, Zenon
  <2>2. GoodWords(One("COPY", 2), n) /\ GoodWords(One("COPY", 1), n) /\ GoodWords(<<Op("INDEX")>>, n)
    BY Ops, 1 \in Int, 2 \in Int, PlainAlone, PlainCounted, Zenon
  <2>3. GoodWords(One("COPY", 2) \o One("COPY", 2), n)
        /\ GoodWords(<<Op("INDEX")>> \o One("COPY", 1), n)
    BY <2>2, JoinWords
  <2>4. GoodWords(One("COPY", 2) \o One("COPY", 2) \o <<Op("INDEX")>>, n)
    BY <2>2, <2>3, JoinWords
  <2>5. GoodWords(<<Op(op), Op("SETINDEX")>>, n)
        /\ GoodWords(<<Op(op), Op("SETINDEX"), Op("POP")>>, n)
    BY Ops, <1>3, 1 \in Int, SomeWords, Zenon
  <2>6. Emit(One("COPY", 2) \o One("COPY", 2) \o <<Op("INDEX")>>) \in PlainTask(n)
        /\ Emit(<<Op("INDEX")>> \o One("COPY", 1)) \in PlainTask(n)
        /\ Emit(<<Op(op), Op("SETINDEX")>>) \in PlainTask(n)
        /\ Emit(<<Op(op), Op("SETINDEX"), Op("POP")>>) \in PlainTask(n)
    BY <2>3, <2>4, <2>5, PlainEmit
  <2>7. PlanPreOp(op, lval, value) =
           << Sub(lval.kids[1]), Sub(lval.kids[2]),
              Emit(One("COPY", 2) \o One("COPY", 2) \o <<Op("INDEX")>>), Sub(value),
              Emit(<<Op(op), Op("SETINDEX")>>) >>
    BY <1>5 DEF PlanPreOp
  <2>8. PlanPostOp(op, lval, value) =
           << Sub(lval.kids[1]), Sub(lval.kids[2]),
              Emit(<<Op("INDEX")>> \o One("COPY", 1)), Sub(value),
              Emit(<<Op(op), Op("SETINDEX"), Op("POP")>>) >>
    BY <1>5 DEF PlanPostOp
  <2> QED BY <1>2, <2>1, <2>6, <2>7, <2>8
<1>6. CASE lval.type = "GETMEMBER"
  <2>1. Sub(lval.kids[1]) \in PlainTask(n)
    <3>1. Arity(lval.type) = 1
      BY <1>6 DEF Arity
    <3>2. lval.kids[1] \in Seq(Nodes)
      BY <1>3, <3>1
    <3> QED BY <3>2, Ops, PlainTasks, Zenon
  <2>2. PICK m : m = lval.name
    OBVIOUS
  <2>3. GoodWords(One("COPY", 1), n) /\ GoodWords(<<Op("GET_MEMBER"), Name(m)>>, n)
    BY Ops, <1>3, <2>2, 1 \in Int, PlainCounted, PlainNamed, Zenon
  <2>4. GoodWords(One("COPY", 1) \o <<Op("GET_MEMBER"), Name(m)>>, n)
        /\ GoodWords(<<Op("GET_MEMBER"), Name(m)>> \o One("COPY", 1), n)
    BY <2>3, JoinWords
  <2>5. GoodWords(<<Op(op), Op("SET_MEMBER"), Name(m)>>, n)
        /\ GoodWords(<<Op(op), Op("SET_MEMBER"), Name(m), Op("POP")>>, n)
    BY Ops, <1>3, <2>2, 1 \in Int, SomeWords, Zenon
  <2>6. Emit(One("COPY", 1) \o <<Op("GET_MEMBER"), Name(m)>>) \in PlainTask(n)
        /\ Emit(<<Op("GET_MEMBER"), Name(m)>> \o One("COPY", 1)) \in PlainTask(n)
        /\ Emit(<<Op(op), Op("SET_MEMBER"), Name(m)>>) \in PlainTask(n)
        /\ Emit(<<Op(op), Op("SET_MEMBER"), Name(m), Op("POP")>>) \in PlainTask(n)
    BY <2>4, <2>5, PlainEmit
  <2>7. PlanPreOp(op, lval, value) =
           << Sub(lval.kids[1]), Emit(One("COPY", 1) \o <<Op("GET_MEMBER"), Name(m)>>),
              Sub(value), Emit(<<Op(op), Op("SET_MEMBER"), Name(m)>>) >>
    BY <1>6, <2>2 DEF PlanPreOp
  <2>8. PlanPostOp(op, lval, value) =
           << Sub(lval.kids[1]), Emit(<<Op("GET_MEMBER"), Name(m)>> \o One("COPY", 1)),
              Sub(value), Emit(<<Op(op), Op("SET_MEMBER"), Name(m), Op("POP")>>) >>
    BY <1>6, <2>2 DEF PlanPostOp
  <2> QED BY <1>2, <2>1, <2>6, <2>7, <2>8
<1>7. CASE /\ ~(lval.type = "LOOKUP" /\ GetVar(lval.name) >= 0)
           /\ lval.type # "GETINDEX" /\ lval.type # "GETMEMBER"
  <2>1. PlanPreOp(op, lval, value) = <<Refuse>> /\ PlanPostOp(op, lval, value) = <<Refuse>>
    BY <1>7 DEF PlanPreOp, PlanPostOp
  <2> QED BY <1>2, <2>1
<1> QED BY <1>4, <1>5, <1>6, <1>7

LEMMA ShapesPlain ==
    ASSUME NEW n, NEW op \in SimpleOp, NEW a \in Seq(Nodes), NEW b \in Seq(Nodes)
    PROVE  /\ Unary(op, a) \in Seq(PlainTask(n)) /\ Binary(op, a, b) \in Seq(PlainTask(n))
           /\ <<Sub(a)>> \in Seq(PlainTask(n)) /\ <<Sub(a), GoEnd>> \in Seq(PlainTask(n))
<1>1. /\ Sub(a) \in PlainTask(n) /\ Sub(b) \in PlainTask(n) /\ Alone(op) \in PlainTask(n)
      /\ GoEnd \in PlainTask(n)
  BY Ops, PlainTasks, PlainAlone
<1> QED BY <1>1 DEF Unary, Binary

LEMMA CallsPlain ==
    ASSUME NEW n, NEW args \in Seq(Nodes), NEW func \in Seq(Nodes), NEW id \in Identifier,
           NEW type \in Constant, NEW call
    PROVE  /\ PlanInvoke(func, args) \in Seq(PlainTask(n))
           /\ CallMethod(id, args) \in Seq(PlainTask(n))
           /\ PlanArray(args) \in Seq(PlainTask(n))
           /\ PlanNew(type, args, call) \in Seq(PlainTask(n))
           /\ PlanCast(type, args) \in Seq(PlainTask(n))
<1>1. PICK k \in Int : k = Len(args)
  OBVIOUS
<1>2. Sub(args) \in PlainTask(n) /\ Sub(func) \in PlainTask(n)
  BY Ops, PlainTasks
<1>3. Emit(One("INVOKE", k)) \in PlainTask(n) /\ Emit(One("NEWARRAY", k)) \in PlainTask(n)
  BY Ops, PlainCounted, Zenon
<1>4. ASSUME NEW m \in Identifier
      PROVE  CallMethod(m, args) \in Seq(PlainTask(n))
  <2>1. GoodWords(<<Op("METHOD"), Name(m), Arg(k)>>, n)
    BY Ops, SomeWords, Zenon
  <2>2. Emit(<<Op("METHOD"), Name(m), Arg(k)>>) \in PlainTask(n)
    BY <2>1, PlainEmit
  <2>3. CallMethod(m, args) = <<Sub(args), Emit(<<Op("METHOD"), Name(m), Arg(k)>>)>>
    BY <1>1 DEF CallMethod
  <2> QED BY <1>2, <2>2, <2>3
<1>5. PlanInvoke(func, args) \in Seq(PlainTask(n))
  <2>1. PlanInvoke(func, args) = <<Sub(args), Sub(func), Emit(One("INVOKE", k))>>
    BY <1>1 DEF PlanInvoke
  <2> QED BY <1>2, <1>3, <2>1
<1>6. PlanArray(args) \in Seq(PlainTask(n))
  <2>1. PlanArray(args) = <<Sub(args), Emit(One("NEWARRAY", k))>>
    BY <1>1 DEF PlanArray
  <2> QED BY <1>2, <1>3, <2>1
<1>7. Emit(Push(type) \o <<Op("NEW")>>) \in PlainTask(n)
      /\ Emit(Push(type) \o <<Op("TYPECAST")>>) \in PlainTask(n)
  <2>1. GoodWords(<<Op("NEW")>>, n) /\ GoodWords(<<Op("TYPECAST")>>, n)
    BY Ops, PlainAlone, Zenon
  <2>2. GoodWords(Push(type) \o <<Op("NEW")>>, n) /\ GoodWords(Push(type) \o <<Op("TYPECAST")>>, n)
    BY <2>1, PushWords, JoinWords
  <2> QED BY <2>2, PlainEmit
<1>8. PlanCast(type, args) \in Seq(PlainTask(n))
  BY <1>2, <1>7 DEF PlanCast
<1>9. PlanNew(type, args, call) \in Seq(PlainTask(n))
  <2>1. CallMethod("new", args) \in Seq(PlainTask(n))
    <3>1. PICK m : m = "new"
      OBVIOUS
    <3>2. m \in Identifier
      BY <3>1, NilType
    <3>3. CallMethod(m, args) \in Seq(PlainTask(n))
      BY <1>4, <3>2
    <3> QED BY <3>1, <3>3
  <2>2. PICK t : t = IF call = "call" THEN CallMethod("new", args) ELSE <<>>
    OBVIOUS
  <2>3. t \in Seq(PlainTask(n))
    BY <2>1, <2>2
  <2>4. PlanNew(type, args, call) = <<Emit(Push(type) \o <<Op("NEW")>>)>> \o t
    BY <2>2 DEF PlanNew
  <2>5. <<Emit(Push(type) \o <<Op("NEW")>>)>> \in Seq(PlainTask(n))
    BY <1>7
  <2> QED BY <2>3, <2>4, <2>5, ConcatSeq
<1> QED BY <1>4, <1>5, <1>6, <1>8, <1>9

LEMMA OthersPlain ==
    ASSUME NEW n, NEW a \in Seq(Nodes), NEW b \in Seq(Nodes), NEW c \in Seq(Nodes),
           NEW id \in Identifier
    PROVE  /\ PlanStatement(a) \in Seq(PlainTask(n)) /\ PlanIn(a, b) \in Seq(PlainTask(n))
           /\ PlanSetIndex(a, b, c) \in Seq(PlainTask(n))
           /\ PlanReturn(a) \in Seq(PlainTask(n))
           /\ PlanMember(id, a, b) \in Seq(PlainTask(n))
           /\ \A type \in {"BREAK", "CONTINUE", "YIELD"} : PlanExit(type) \in Seq(PlainTask(n))
<1>1. PlanStatement(a) \in Seq(PlainTask(n)) /\ PlanIn(a, b) \in Seq(PlainTask(n))
  BY Ops, ShapesPlain, Zenon DEF PlanStatement, PlanIn
<1>2. PlanSetIndex(a, b, c) \in Seq(PlainTask(n))
  <2>1. Binary("SETINDEX", b, c) \in Seq(PlainTask(n)) /\ <<Sub(a)>> \in Seq(PlainTask(n))
    BY Ops, ShapesPlain, Zenon
  <2> QED BY <2>1, ConcatSeq DEF PlanSetIndex
<1>3. PlanReturn(a) \in Seq(PlainTask(n))
  <2>1. Emit(Push(NilConst)) \in PlainTask(n)
    BY NilType, PlainPush
  <2>2. Sub(a) \in PlainTask(n) /\ GoEnd \in PlainTask(n)
    BY Ops, PlainTasks
  <2>3. PICK t \in PlainTask(n) : t = IF a # <<>> THEN Sub(a) ELSE Emit(Push(NilConst))
    BY <2>1, <2>2
  <2>4. PlanReturn(a) = <<t, GoEnd>>
    BY <2>3 DEF PlanReturn
  <2> QED BY <2>2, <2>4
<1>4. PlanMember(id, a, b) \in Seq(PlainTask(n))
  <2>1. Emit(<<Op("GET_MEMBER"), Name(id)>>) \in PlainTask(n)
        /\ Emit(<<Op("SET_MEMBER"), Name(id)>>) \in PlainTask(n)
    BY Ops, PlainNamed, Zenon
  <2>2. Sub(a) \in PlainTask(n) /\ Sub(b) \in PlainTask(n)
    BY Ops, PlainTasks
  <2>3. <<Sub(a)>> \in Seq(PlainTask(n))
        /\ <<Sub(b), Emit(<<Op("SET_MEMBER"), Name(id)>>)>> \in Seq(PlainTask(n))
        /\ <<Emit(<<Op("GET_MEMBER"), Name(id)>>)>> \in Seq(PlainTask(n))
    BY <2>1, <2>2
  <2>4. PICK t : t = IF b # <<>> THEN << Sub(b), Emit(<<Op("SET_MEMBER"), Name(id)>>) >>
                     ELSE << Emit(<<Op("GET_MEMBER"), Name(id)>>) >>
    OBVIOUS
  <2>5. PlanMember(id, a, b) = <<Sub(a)>> \o t
    BY <2>4 DEF PlanMember
  <2>6. t \in Seq(PlainTask(n))
    BY <2>3, <2>4
  <2> QED BY <2>3, <2>5, <2>6, ConcatSeq
<1>5. \A type \in {"BREAK", "CONTINUE", "YIELD"} : PlanExit(type) \in Seq(PlainTask(n))
  <2>1. Leave("JUMP") \in PlainTask(n) /\ AddContinue \in PlainTask(n) /\ Alone("YIELD") \in PlainTask(n)
    BY Ops, PlainTasks, PlainAlone, Zenon
  <2>2. /\ PlanExit("BREAK") = <<Leave("JUMP")>> /\ PlanExit("CONTINUE") = <<AddContinue>>
        /\ PlanExit("YIELD") = <<Alone("YIELD")>>
    BY DEF PlanExit
  <2>3. /\ <<Leave("JUMP")>> \in Seq(PlainTask(n)) /\ <<AddContinue>> \in Seq(PlainTask(n))
        /\ <<Alone("YIELD")>> \in Seq(PlainTask(n))
    BY <2>1
  <2> QED BY <2>2, <2>3
<1> QED BY <1>1, <1>2, <1>3, <1>4, <1>5

LEMMA ConversionPlain ==
    ASSUME NEW n, NEW kids \in Seq(Seq(Nodes)), NEW op \in SimpleOp
    PROVE  PlanConversion(op, kids) \in Seq(PlainTask(n))
<1>1. \A i \in DOMAIN kids : Sub(kids[i]) \in PlainTask(n)
  <2> SUFFICES ASSUME NEW i \in DOMAIN kids PROVE Sub(kids[i]) \in PlainTask(n)
    OBVIOUS
  <2>1. kids[i] \in Seq(Nodes)
    OBVIOUS
  <2> QED BY <2>1, Ops, PlainTasks, Zenon
<1>2. PICK s : s = [i \in DOMAIN kids |-> Sub(kids[i])]
  OBVIOUS
<1>3. s \in Seq(PlainTask(n))
  <2>1. s \in [1 .. Len(kids) -> PlainTask(n)]
    BY <1>1, <1>2
  <2>2. Len(kids) \in Nat
    OBVIOUS
  <2> HIDE DEF PlainTask
  <2> QED BY <2>1, <2>2, MakeSeq, Zenon
<1>4. Alone(op) \in PlainTask(n)
  BY PlainAlone
<1>5. <<Alone(op)>> \in Seq(PlainTask(n))
  BY <1>4
<1>6. PlanConversion(op, kids) = s \o <<Alone(op)>>
  BY <1>2 DEF PlanConversion
<1> QED BY <1>3, <1>5, <1>6, ConcatSeq

(* The nodes whose plans open something, or declare a variable.            *)
Control == {"OR", "AND", "DECLARE", "IF", "LOOP", "FOR", "FOREACH"}

LEMMA PlanPlain ==
    ASSUME vars \in Seq(STRING), file \in FileType, NEW n \in Nat, n = Len(vars),
           NEW node \in Nodes, node.type \notin Control
    PROVE  Plan(node) \in Seq(PlainTask(n))
<1>1. /\ node.name \in Identifier /\ node.value \in Constant
      /\ node.kids \in Seq(Seq(Nodes)) /\ Len(node.kids) = Arity(node.type)
      /\ node.type \in {"MATH", "PREOP", "POSTOP"} => node.op \in SimpleOp
      /\ node.type \in {"PREOP", "POSTOP"} => node.kids[1] # <<>>
  BY NodeParts
<1>2. \A i \in 1 .. Len(node.kids) : node.kids[i] \in Seq(Nodes)
  BY <1>1
<1>3. <<>> \in Seq(Nodes) /\ <<>> \in Seq(PlainTask(n))
  OBVIOUS
<1>4. CASE node.type \in {"MATH", "GETINDEX", "IN", "INVOKE", "METHOD", "SETMEMBER"}
  <2>1. node.kids[1] \in Seq(Nodes) /\ node.kids[2] \in Seq(Nodes)
    <3>1. Arity(node.type) = 2
      BY <1>4 DEF Arity
    <3> QED BY <1>1, <1>2, <3>1
  <2>2. CASE node.type = "MATH"
    <3>1. Plan(node) = Binary(node.op, node.kids[1], node.kids[2])
      BY <2>2 DEF Plan
    <3> QED BY <1>1, <2>1, <2>2, <3>1, ShapesPlain
  <2>3. CASE node.type = "GETINDEX"
    <3>1. Plan(node) = Binary("INDEX", node.kids[1], node.kids[2])
      BY <2>3 DEF Plan
    <3> QED BY <2>1, <3>1, Ops, ShapesPlain, Zenon
  <2>4. CASE node.type = "IN"
    <3>1. Plan(node) = PlanIn(node.kids[1], node.kids[2])
      BY <2>4 DEF Plan
    <3> QED BY <1>1, <2>1, <3>1, OthersPlain
  <2>5. CASE node.type = "INVOKE"
    <3>1. Plan(node) = PlanInvoke(node.kids[1], node.kids[2])
      BY <2>5 DEF Plan
    <3> QED BY <1>1, <2>1, <3>1, CallsPlain
  <2>6. CASE node.type = "METHOD"
    <3>1. Plan(node) = <<Sub(node.kids[1])>> \o CallMethod(node.name, node.kids[2])
      BY <2>6 DEF Plan
    <3>2. CallMethod(node.name, node.kids[2]) \in Seq(PlainTask(n))
      BY <1>1, <2>1, CallsPlain
    <3>3. <<Sub(node.kids[1])>> \in Seq(PlainTask(n))
      BY Ops, <2>1, ShapesPlain, Zenon
    <3> QED BY <3>1, <3>2, <3>3, ConcatSeq
  <2>7. CASE node.type = "SETMEMBER"
    <3>1. Plan(node) = PlanMember(node.name, node.kids[1], node.kids[2])
      BY <2>7 DEF Plan
    <3> QED BY <1>1, <2>1, <3>1, OthersPlain
  <2> QED BY <1>4, <2>2, <2>3, <2>4, <2>5, <2>6, <2>7
<1>5. CASE node.type \in {"NEGATE", "NOT", "ASSIGN", "STATEMENT", "ARRAY", "RETURN", "CAST",
                          "NEW", "GETMEMBER"}
  <2>1. node.kids[1] \in Seq(Nodes)
    <3>1. Arity(node.type) = 1
      BY <1>5 DEF Arity
    <3> QED BY <1>1, <1>2, <3>1
  <2>2. CASE node.type \in {"NEGATE", "NOT"}
    <3>1. Plan(node) = Unary(node.type, node.kids[1])
      BY <2>2 DEF Plan
    <3>2. node.type \in SimpleOp
      BY <2>2, Ops
    <3> QED BY <2>1, <3>1, <3>2, ShapesPlain
  <2>3. CASE node.type = "ASSIGN"
    <3>1. Plan(node) = PlanAssign(node.name, node.kids[1])
      BY <2>3 DEF Plan
    <3> QED BY <1>1, <2>1, <3>1, AssignPlain
  <2>4. CASE node.type = "STATEMENT"
    <3>1. Plan(node) = PlanStatement(node.kids[1])
      BY <2>4 DEF Plan
    <3> QED BY <1>1, <2>1, <3>1, OthersPlain
  <2>5. CASE node.type = "ARRAY"
    <3>1. Plan(node) = PlanArray(node.kids[1])
      BY <2>5 DEF Plan
    <3> QED BY <1>1, <2>1, <3>1, CallsPlain
  <2>6. CASE node.type = "RETURN"
    <3>1. Plan(node) = PlanReturn(node.kids[1])
      BY <2>6 DEF Plan
    <3> QED BY <1>1, <2>1, <3>1, OthersPlain
  <2>7. CASE node.type = "CAST"
    <3>1. Plan(node) = PlanCast(node.value, node.kids[1])
      BY <2>7 DEF Plan
    <3> QED BY <1>1, <2>1, <3>1, CallsPlain
  <2>8. CASE node.type = "NEW"
    <3>1. Plan(node) = PlanNew(node.value, node.kids[1], node.op)
      BY <2>8 DEF Plan
    <3> QED BY <1>1, <2>1, <3>1, CallsPlain
  <2>9. CASE node.type = "GETMEMBER"
    <3>1. Plan(node) = PlanMember(node.name, node.kids[1], <<>>)
      BY <2>9 DEF Plan
    <3> QED BY <1>1, <1>3, <2>1, <3>1, OthersPlain
  <2> QED BY <1>5, <2>2, <2>3, <2>4, <2>5, <2>6, <2>7, <2>8, <2>9
<1>6. CASE node.type \in {"PREOP", "POSTOP"}
  <2>1. node.kids[1] \in Seq(Nodes) /\ node.kids[2] \in Seq(Nodes) /\ node.kids[1] # <<>>
    <3>1. Arity(node.type) = 2
      BY <1>6 DEF Arity
    <3> QED BY <1>1, <1>2, <1>6, <3>1
  <2>2. node.kids[1][1] \in Nodes /\ node.op \in SimpleOp
    BY <1>1, <1>6, <2>1
  <2>3. Plan(node) \in {PlanPreOp(node.op, node.kids[1][1], node.kids[2]),
                        PlanPostOp(node.op, node.kids[1][1], node.kids[2])}
    BY <1>6 DEF Plan
  <2> QED BY <2>1, <2>2, <2>3, OperatorPlain
<1>7. CASE node.type = "SETINDEX"
  <2>1. /\ node.kids[1] \in Seq(Nodes) /\ node.kids[2] \in Seq(Nodes) /\ node.kids[3] \in Seq(Nodes)
    <3>1. Arity(node.type) = 3
      BY <1>7 DEF Arity
    <3> QED BY <1>1, <1>2, <3>1
  <2>2. Plan(node) = PlanSetIndex(node.kids[1], node.kids[2], node.kids[3])
    BY <1>7 DEF Plan
  <2> QED BY <1>1, <2>1, <2>2, OthersPlain
<1>8. CASE node.type \in {"STRINGCAST", "INTCAST", "CONCAT"}
  <2>1. Plan(node) = PlanConversion(node.type, node.kids)
    BY <1>8 DEF Plan
  <2>2. node.type \in SimpleOp
    BY <1>8, Ops
  <2> QED BY <1>1, <2>1, <2>2, ConversionPlain
<1>9. CASE node.type \in {"BREAK", "CONTINUE", "YIELD"}
  <2>1. Plan(node) = PlanExit(node.type)
    BY <1>9 DEF Plan
  <2> QED BY <1>1, <1>3, <1>9, <2>1, OthersPlain
<1>10. CASE node.type = "DATA"
  <2>1. Plan(node) = <<Emit(Push(node.value))>>
    BY <1>10 DEF Plan
  <2>2. Emit(Push(node.value)) \in PlainTask(n)
    BY <1>1, PlainPush
  <2> QED BY <2>1, <2>2
<1>11. CASE node.type = "LOOKUP"
  <2>1. Plan(node) = PlanLookup(node.name)
    BY <1>11 DEF Plan
  <2> QED BY <1>1, <2>1, LookupPlain
<1>12. CASE node.type \notin {"MATH", "GETINDEX", "IN", "INVOKE", "METHOD", "SETMEMBER",
                 "NEGATE", "NOT", "ASSIGN", "STATEMENT", "ARRAY", "RETURN", "CAST",
                 "NEW", "GETMEMBER", "PREOP", "POSTOP", "SETINDEX", "STRINGCAST", "INTCAST",
                 "CONCAT", "BREAK", "CONTINUE", "YIELD", "DATA", "LOOKUP"}
  <2>1. Plan(node) = <<>>
    BY <1>12 DEF Plan, Control
  <2> QED BY <1>3, <2>1
<1> QED BY <1>4, <1>5, <1>6, <1>7, <1>8, <1>9, <1>10, <1>11, <1>12

-----------------------------------------------------------------------------
(* The plans of the nodes with jumps of their own *)

(***************************************************************************)
(* Tasks that open a structure at the position open[b] and close it at     *)
(* close[b], 0 being nowhere.                                              *)
(***************************************************************************)
Matched(todo, n, open, close) ==
    /\ todo \in Seq(TaskType)
    /\ open \in [0 .. 2 -> Nat] /\ close \in [0 .. 2 -> Nat]
    /\ \A i \in DOMAIN todo :
          /\ TaskOK(todo[i], IF todo[1].do = "var" THEN n + 1 ELSE n)
          /\ todo[i].do = "var" => i = 1
          /\ todo[i].do = "again" => open[0] < i /\ i < close[0]
          /\ \A b \in 0 .. 2 : /\ Opens(todo[i], b) <=> i = open[b]
                               /\ Closes(todo[i], b) <=> i = close[b]
    /\ \A b \in 0 .. 2 : \/ open[b] = 0 /\ close[b] = 0
                         \/ open[b] \in DOMAIN todo /\ close[b] \in DOMAIN todo
                            /\ open[b] < close[b]

LEMMA MatchedGood ==
    ASSUME NEW n, NEW todo, NEW open, NEW close, Matched(todo, n, open, close)
    PROVE  /\ todo \in Seq(TaskType) /\ GoodTodo(todo, n)
           /\ \A b \in 0 .. 2 : ~Inside(todo, b)
<1>1. ASSUME NEW b \in 0 .. 2, NEW i \in DOMAIN todo, Opens(todo[i], b)
      PROVE  /\ \E j \in DOMAIN todo : j > i /\ Closes(todo[j], b)
             /\ \A j \in DOMAIN todo : Opens(todo[j], b) => j = i
  <2>1. i = open[b] /\ close[b] \in DOMAIN todo /\ open[b] < close[b]
    BY <1>1 DEF Matched
  <2>2. Closes(todo[close[b]], b) /\ close[b] > i
    BY <2>1 DEF Matched
  <2>3. \A j \in DOMAIN todo : Opens(todo[j], b) => j = i
    BY <2>1 DEF Matched
  <2> QED BY <2>1, <2>2, <2>3
<1>2. \A b \in 0 .. 2, i, j \in DOMAIN todo :
         Closes(todo[i], b) /\ Closes(todo[j], b) => i = j
  BY DEF Matched
<1>3. ASSUME NEW i \in DOMAIN todo, todo[i].do = "again"
      PROVE  /\ \E j \in DOMAIN todo : j > i /\ Closes(todo[j], 0)
             /\ \A j \in DOMAIN todo : Opens(todo[j], 0) => j < i
  <2>1. open[0] < i /\ i < close[0] /\ close[0] \in DOMAIN todo
    BY <1>3 DEF Matched
  <2>2. Closes(todo[close[0]], 0) /\ close[0] > i
    BY <2>1 DEF Matched
  <2>3. \A j \in DOMAIN todo : Opens(todo[j], 0) => j = open[0]
    BY DEF Matched
  <2> QED BY <2>1, <2>2, <2>3
<1>4. ASSUME NEW b \in 0 .. 2
      PROVE  ~Inside(todo, b)
  <2> SUFFICES ASSUME NEW j \in DOMAIN todo, Closes(todo[j], b)
               PROVE  \E i \in DOMAIN todo : Opens(todo[i], b)
    BY DEF Inside
  <2>1. j = close[b] /\ j > 0
    BY DEF Matched
  <2>2. open[b] \in DOMAIN todo
    BY <2>1 DEF Matched
  <2> QED BY <2>2 DEF Matched
<1>5. \A i \in DOMAIN todo : /\ TaskOK(todo[i], IF todo[1].do = "var" THEN n + 1 ELSE n)
                             /\ todo[i].do = "var" => i = 1
  BY DEF Matched
<1>6. todo \in Seq(TaskType)
  BY DEF Matched
<1> QED BY <1>1, <1>2, <1>3, <1>4, <1>5, <1>6 DEF GoodTodo

(* What a task of a plan opens and closes.                                 *)
LEMMA Neutral ==
    ASSUME NEW n, NEW t \in PlainTask(n)
    PROVE  /\ t \in TaskType /\ TaskOK(t, n) /\ t.do # "var" /\ t.do # "again"
           /\ \A b \in 0 .. 2 : ~Opens(t, b) /\ ~Closes(t, b)
  BY DEF PlainTask, Opens, Closes

LEMMA Brackets ==
    ASSUME NEW n, NEW k \in 1 .. 2, NEW op \in JumpOp
    PROVE  /\ Jump(k, op) \in TaskType /\ TaskOK(Jump(k, op), n)
           /\ Jump(k, op).do # "var" /\ Jump(k, op).do # "again"
           /\ \A b \in 0 .. 2 : (Opens(Jump(k, op), b) <=> b = k) /\ ~Closes(Jump(k, op), b)
           /\ Land(k) \in TaskType /\ TaskOK(Land(k), n)
           /\ Land(k).do # "var" /\ Land(k).do # "again"
           /\ \A b \in 0 .. 2 : ~Opens(Land(k), b) /\ (Closes(Land(k), b) <=> b = k)
           /\ PushBlock \in TaskType /\ TaskOK(PushBlock, n)
           /\ PushBlock.do # "var" /\ PushBlock.do # "again"
           /\ \A b \in 0 .. 2 : (Opens(PushBlock, b) <=> b = 0) /\ ~Closes(PushBlock, b)
           /\ PopBlock \in TaskType /\ TaskOK(PopBlock, n)
           /\ PopBlock.do # "var" /\ PopBlock.do # "again"
           /\ \A b \in 0 .. 2 : ~Opens(PopBlock, b) /\ (Closes(PopBlock, b) <=> b = 0)
           /\ Again(op) \in TaskType /\ TaskOK(Again(op), n) /\ Again(op).do # "var"
           /\ \A b \in 0 .. 2 : ~Opens(Again(op), b) /\ ~Closes(Again(op), b)
<1>1. op \in Wording /\ k \in 0 .. 2
  BY DEF JumpOp, Wording, Opcode
<1>2. /\ Jump(k, op) \in TaskType /\ Jump(k, op).do = "jump" /\ Jump(k, op).k = k
      /\ Jump(k, op).op = op
      /\ Land(k) \in TaskType /\ Land(k).do = "land" /\ Land(k).k = k
      /\ PushBlock \in TaskType /\ PushBlock.do = "block"
      /\ PopBlock \in TaskType /\ PopBlock.do = "unblock"
      /\ Again(op) \in TaskType /\ Again(op).do = "again" /\ Again(op).op = op
  <2>1. PICK w \in Seq(WordType), nodes \in Seq(Nodes) : TRUE
    <3>1. <<>> \in Seq(WordType) /\ <<>> \in Seq(Nodes)
      OBVIOUS
    <3> QED BY <3>1, Zenon
  <2> QED BY <1>1, <2>1, TaskForms
<1> HIDE DEF JumpOp
<1>3. /\ \A b \in 0 .. 2 : (Opens(Jump(k, op), b) <=> b = k) /\ ~Closes(Jump(k, op), b)
      /\ TaskOK(Jump(k, op), n)
  BY <1>2 DEF Opens, Closes, TaskOK
<1>4. /\ \A b \in 0 .. 2 : ~Opens(Land(k), b) /\ (Closes(Land(k), b) <=> b = k)
      /\ TaskOK(Land(k), n)
  BY <1>2 DEF Opens, Closes, TaskOK
<1>5. /\ \A b \in 0 .. 2 : (Opens(PushBlock, b) <=> b = 0) /\ ~Closes(PushBlock, b)
      /\ TaskOK(PushBlock, n)
  BY <1>2 DEF Opens, Closes, TaskOK
<1>6. /\ \A b \in 0 .. 2 : ~Opens(PopBlock, b) /\ (Closes(PopBlock, b) <=> b = 0)
      /\ TaskOK(PopBlock, n)
  BY <1>2 DEF Opens, Closes, TaskOK
<1>7. /\ \A b \in 0 .. 2 : ~Opens(Again(op), b) /\ ~Closes(Again(op), b)
      /\ TaskOK(Again(op), n)
  BY <1>2 DEF Opens, Closes, TaskOK
<1> QED BY <1>2, <1>3, <1>4, <1>5, <1>6, <1>7

LEMMA TestPlain == \A n : Test \in PlainTask(n)
<1> SUFFICES ASSUME NEW n PROVE Test \in PlainTask(n)
  OBVIOUS
<1>1. PICK id \in Identifier : TRUE
  BY NilType
<1>2. GoodWords(<<Op("TEST"), Op("POP")>>, n)
  BY <1>1, Ops, 0 \in Int, SomeWords, Zenon
<1> QED BY <1>2, PlainEmit DEF Test

LEMMA LogicGood ==
    ASSUME NEW n, NEW op \in JumpOp, NEW a \in Seq(Nodes), NEW b \in Seq(Nodes)
    PROVE  LET todo == PlanLogic(op, a, b)
           IN  Matched(todo, n, [x \in 0 .. 2 |-> IF x = 1 THEN 3 ELSE 0],
                                [x \in 0 .. 2 |-> IF x = 1 THEN 6 ELSE 0])
<1>1. PICK t1, t2, t3, t4, t5, t6, todo :
         /\ t1 = Sub(a) /\ t2 = Alone("TEST") /\ t3 = Jump(1, op) /\ t4 = Alone("POP")
         /\ t5 = Sub(b) /\ t6 = Land(1) /\ todo = <<t1, t2, t3, t4, t5, t6>>
  OBVIOUS
<1>2. \A t \in {t1, t2, t4, t5} : t \in PlainTask(n)
  BY <1>1, Ops, PlainTasks, PlainAlone
<1>3. \A t \in {t1, t2, t4, t5} :
         /\ t \in TaskType /\ TaskOK(t, n) /\ t.do # "var" /\ t.do # "again"
         /\ \A x \in 0 .. 2 : ~Opens(t, x) /\ ~Closes(t, x)
  BY <1>2, Neutral
<1>4. /\ t3 \in TaskType /\ TaskOK(t3, n) /\ t3.do # "var" /\ t3.do # "again"
      /\ \A x \in 0 .. 2 : (Opens(t3, x) <=> x = 1) /\ ~Closes(t3, x)
      /\ t6 \in TaskType /\ TaskOK(t6, n) /\ t6.do # "var" /\ t6.do # "again"
      /\ \A x \in 0 .. 2 : ~Opens(t6, x) /\ (Closes(t6, x) <=> x = 1)
  BY <1>1, Brackets, 1 \in 1 .. 2
<1>5. /\ todo \in Seq(TaskType) /\ DOMAIN todo = 1 .. 6
      /\ todo[1] = t1 /\ todo[2] = t2 /\ todo[3] = t3 /\ todo[4] = t4 /\ todo[5] = t5 /\ todo[6] = t6
  BY <1>1, <1>3, <1>4
<1>6. ASSUME NEW i \in 1 .. 6, NEW x \in 0 .. 2
      PROVE  /\ TaskOK(todo[i], n) /\ todo[i].do # "var" /\ todo[i].do # "again"
             /\ Opens(todo[i], x) <=> i = 3 /\ x = 1
             /\ Closes(todo[i], x) <=> i = 6 /\ x = 1
  <2>1. CASE i \in {1, 2, 4, 5}
    BY <1>3, <1>5, <2>1
  <2>2. CASE i = 3
    BY <1>4, <1>5, <2>2
  <2>3. CASE i = 6
    BY <1>4, <1>5, <2>3
  <2> QED BY <2>1, <2>2, <2>3
<1>7. Matched(todo, n, [x \in 0 .. 2 |-> IF x = 1 THEN 3 ELSE 0],
                       [x \in 0 .. 2 |-> IF x = 1 THEN 6 ELSE 0])
  BY <1>5, <1>6 DEF Matched
<1>8. todo = PlanLogic(op, a, b)
  BY <1>1 DEF PlanLogic
<1> QED BY <1>7, <1>8

LEMMA IfGood ==
    ASSUME NEW n, NEW test \in Seq(Nodes), NEW then \in Seq(Nodes), NEW else \in Seq(Nodes)
    PROVE  LET todo == PlanIf(test, then, else)
           IN  todo \in Seq(TaskType) /\ GoodTodo(todo, n) /\ \A b \in 0 .. 2 : ~Inside(todo, b)
<1>1. PICK t1, t2, t3, t4, j2, l1, t7, l2 :
         /\ t1 = Sub(test) /\ t2 = Test /\ t3 = Jump(1, "FJUMP") /\ t4 = Sub(then)
         /\ j2 = Jump(2, "JUMP") /\ l1 = Land(1) /\ t7 = Sub(else) /\ l2 = Land(2)
  OBVIOUS
<1>2. \A t \in {t1, t2, t4, t7} : t \in PlainTask(n)
  BY <1>1, Ops, PlainTasks, TestPlain
<1>3. \A t \in {t1, t2, t4, t7} :
         /\ t \in TaskType /\ TaskOK(t, n) /\ t.do # "var" /\ t.do # "again"
         /\ \A x \in 0 .. 2 : ~Opens(t, x) /\ ~Closes(t, x)
  BY <1>2, Neutral
<1>4. /\ t3 \in TaskType /\ TaskOK(t3, n) /\ t3.do # "var" /\ t3.do # "again"
      /\ \A x \in 0 .. 2 : (Opens(t3, x) <=> x = 1) /\ ~Closes(t3, x)
      /\ l1 \in TaskType /\ TaskOK(l1, n) /\ l1.do # "var" /\ l1.do # "again"
      /\ \A x \in 0 .. 2 : ~Opens(l1, x) /\ (Closes(l1, x) <=> x = 1)
  BY <1>1, Brackets, Ops, 1 \in 1 .. 2
<1>5. /\ j2 \in TaskType /\ TaskOK(j2, n) /\ j2.do # "var" /\ j2.do # "again"
      /\ \A x \in 0 .. 2 : (Opens(j2, x) <=> x = 2) /\ ~Closes(j2, x)
      /\ l2 \in TaskType /\ TaskOK(l2, n) /\ l2.do # "var" /\ l2.do # "again"
      /\ \A x \in 0 .. 2 : ~Opens(l2, x) /\ (Closes(l2, x) <=> x = 2)
  BY <1>1, Brackets, Ops, 2 \in 1 .. 2
<1>6. CASE else # <<>>
  <2> DEFINE open  == [x \in 0 .. 2 |-> CASE x = 0 -> 0 [] x = 1 -> 3 [] x = 2 -> 5]
             close == [x \in 0 .. 2 |-> CASE x = 0 -> 0 [] x = 1 -> 6 [] x = 2 -> 8]
  <2>1. PICK todo : todo = <<t1, t2, t3, t4, j2, l1, t7, l2>>
    OBVIOUS
  <2>2. /\ todo \in Seq(TaskType) /\ DOMAIN todo = 1 .. 8
        /\ todo[1] = t1 /\ todo[2] = t2 /\ todo[3] = t3 /\ todo[4] = t4
        /\ todo[5] = j2 /\ todo[6] = l1 /\ todo[7] = t7 /\ todo[8] = l2
    BY <2>1, <1>3, <1>4, <1>5
  <2>3. ASSUME NEW i \in 1 .. 8, NEW x \in 0 .. 2
        PROVE  /\ TaskOK(todo[i], n) /\ todo[i].do # "var" /\ todo[i].do # "again"
               /\ Opens(todo[i], x) <=> i = open[x]
               /\ Closes(todo[i], x) <=> i = close[x]
    <3>1. CASE i \in {1, 2, 4, 7}
      BY <1>3, <2>2, <3>1
    <3>2. CASE i \in {3, 6}
      BY <1>4, <2>2, <3>2
    <3>3. CASE i \in {5, 8}
      BY <1>5, <2>2, <3>3
    <3> QED BY <3>1, <3>2, <3>3
  <2>4. open \in [0 .. 2 -> Nat] /\ close \in [0 .. 2 -> Nat]
        /\ \A x \in 0 .. 2 : \/ open[x] = 0 /\ close[x] = 0
                             \/ open[x] \in 1 .. 8 /\ close[x] \in 1 .. 8 /\ open[x] < close[x]
    OBVIOUS
  <2> HIDE DEF open, close
  <2>5. Matched(todo, n, open, close)
    BY <2>2, <2>3, <2>4 DEF Matched
  <2>6. todo = PlanIf(test, then, else)
    BY <1>1, <1>6, <2>1 DEF PlanIf
  <2> QED BY <2>5, <2>6, MatchedGood
<1>7. CASE ~(else # <<>>)
  <2> DEFINE open  == [x \in 0 .. 2 |-> IF x = 1 THEN 3 ELSE 0]
             close == [x \in 0 .. 2 |-> IF x = 1 THEN 5 ELSE 0]
  <2>1. PICK todo : todo = <<t1, t2, t3, t4, l1>>
    OBVIOUS
  <2>2. /\ todo \in Seq(TaskType) /\ DOMAIN todo = 1 .. 5
        /\ todo[1] = t1 /\ todo[2] = t2 /\ todo[3] = t3 /\ todo[4] = t4 /\ todo[5] = l1
    BY <2>1, <1>3, <1>4
  <2>3. ASSUME NEW i \in 1 .. 5, NEW x \in 0 .. 2
        PROVE  /\ TaskOK(todo[i], n) /\ todo[i].do # "var" /\ todo[i].do # "again"
               /\ Opens(todo[i], x) <=> i = open[x]
               /\ Closes(todo[i], x) <=> i = close[x]
    <3>1. CASE i \in {1, 2, 4}
      BY <1>3, <2>2, <3>1
    <3>2. CASE i \in {3, 5}
      BY <1>4, <2>2, <3>2
    <3> QED BY <3>1, <3>2
  <2>4. open \in [0 .. 2 -> Nat] /\ close \in [0 .. 2 -> Nat]
        /\ \A x \in 0 .. 2 : \/ open[x] = 0 /\ close[x] = 0
                             \/ open[x] \in 1 .. 5 /\ close[x] \in 1 .. 5 /\ open[x] < close[x]
    OBVIOUS
  <2> HIDE DEF open, close
  <2>5. Matched(todo, n, open, close)
    BY <2>2, <2>3, <2>4 DEF Matched
  <2>6. todo = PlanIf(test, then, else)
    BY <1>1, <1>7, <2>1 DEF PlanIf
  <2> QED BY <2>5, <2>6, MatchedGood
<1> QED BY <1>6, <1>7

LEMMA ForGood ==
    ASSUME NEW n, NEW setup \in Seq(Nodes), NEW test \in Seq(Nodes), NEW step \in Seq(Nodes),
           NEW body \in Seq(Nodes)
    PROVE  LET todo == PlanFor(setup, test, step, body)
           IN  todo \in Seq(TaskType) /\ GoodTodo(todo, n) /\ \A b \in 0 .. 2 : ~Inside(todo, b)
<1>1. PICK t1, t2, t3, t4, t5, t6, t7, t8, t9, t10, t11, todo :
         /\ t1 = Sub(setup) /\ t2 = Jump(1, "JUMP") /\ t3 = PushBlock /\ t4 = Sub(step)
         /\ t5 = Land(1) /\ t6 = Sub(test) /\ t7 = Test /\ t8 = Leave("FJUMP") /\ t9 = Sub(body)
         /\ t10 = AddContinue /\ t11 = PopBlock
         /\ todo = <<t1, t2, t3, t4, t5, t6, t7, t8, t9, t10, t11>>
  OBVIOUS
<1>2. \A t \in {t1, t4, t6, t7, t8, t9, t10} : t \in PlainTask(n)
  <2>1. t1 \in PlainTask(n) /\ t4 \in PlainTask(n) /\ t6 \in PlainTask(n) /\ t9 \in PlainTask(n)
    BY <1>1, Ops, PlainTasks
  <2>2. t7 \in PlainTask(n) /\ t8 \in PlainTask(n) /\ t10 \in PlainTask(n)
    BY <1>1, Ops, PlainTasks, TestPlain, Zenon
  <2> QED BY <2>1, <2>2
<1>3. \A t \in {t1, t4, t6, t7, t8, t9, t10} :
         /\ t \in TaskType /\ TaskOK(t, n) /\ t.do # "var" /\ t.do # "again"
         /\ \A x \in 0 .. 2 : ~Opens(t, x) /\ ~Closes(t, x)
  BY <1>2, Neutral
<1>4. /\ t2 \in TaskType /\ TaskOK(t2, n) /\ t2.do # "var" /\ t2.do # "again"
      /\ \A x \in 0 .. 2 : (Opens(t2, x) <=> x = 1) /\ ~Closes(t2, x)
      /\ t5 \in TaskType /\ TaskOK(t5, n) /\ t5.do # "var" /\ t5.do # "again"
      /\ \A x \in 0 .. 2 : ~Opens(t5, x) /\ (Closes(t5, x) <=> x = 1)
  BY <1>1, Brackets, Ops, 1 \in 1 .. 2
<1>5. /\ t3 \in TaskType /\ TaskOK(t3, n) /\ t3.do # "var" /\ t3.do # "again"
      /\ \A x \in 0 .. 2 : (Opens(t3, x) <=> x = 0) /\ ~Closes(t3, x)
      /\ t11 \in TaskType /\ TaskOK(t11, n) /\ t11.do # "var" /\ t11.do # "again"
      /\ \A x \in 0 .. 2 : ~Opens(t11, x) /\ (Closes(t11, x) <=> x = 0)
  BY <1>1, Brackets, Ops, 1 \in 1 .. 2
<1> DEFINE open  == [x \in 0 .. 2 |-> CASE x = 0 -> 3 [] x = 1 -> 2 [] x = 2 -> 0]
           close == [x \in 0 .. 2 |-> CASE x = 0 -> 11 [] x = 1 -> 5 [] x = 2 -> 0]
<1>6. /\ todo \in Seq(TaskType) /\ DOMAIN todo = 1 .. 11
      /\ todo[1] = t1 /\ todo[2] = t2 /\ todo[3] = t3 /\ todo[4] = t4 /\ todo[5] = t5
      /\ todo[6] = t6 /\ todo[7] = t7 /\ todo[8] = t8 /\ todo[9] = t9 /\ todo[10] = t10
      /\ todo[11] = t11
  BY <1>1, <1>3, <1>4, <1>5
<1>7. ASSUME NEW i \in 1 .. 11, NEW x \in 0 .. 2
      PROVE  /\ TaskOK(todo[i], n) /\ todo[i].do # "var" /\ todo[i].do # "again"
             /\ Opens(todo[i], x) <=> i = open[x]
             /\ Closes(todo[i], x) <=> i = close[x]
  <2>1. CASE i \in {1, 4, 6, 7, 8, 9, 10}
    BY <1>3, <1>6, <2>1
  <2>2. CASE i \in {2, 5}
    BY <1>4, <1>6, <2>2
  <2>3. CASE i \in {3, 11}
    BY <1>5, <1>6, <2>3
  <2> QED BY <2>1, <2>2, <2>3
<1>8. open \in [0 .. 2 -> Nat] /\ close \in [0 .. 2 -> Nat]
      /\ \A x \in 0 .. 2 : \/ open[x] = 0 /\ close[x] = 0
                           \/ open[x] \in 1 .. 11 /\ close[x] \in 1 .. 11 /\ open[x] < close[x]
  OBVIOUS
<1> HIDE DEF open, close
<1>9. Matched(todo, n, open, close)
  <2>1. todo[1].do # "var" /\ \A i \in DOMAIN todo : 0 \in 0 .. 2 /\ i \in 1 .. 11
    BY <1>6, <1>7
  <2>2. \A i \in DOMAIN todo :
           /\ TaskOK(todo[i], IF todo[1].do = "var" THEN n + 1 ELSE n)
           /\ todo[i].do # "var" /\ todo[i].do # "again"
    BY <1>7, <2>1
  <2>3. \A i \in DOMAIN todo : \A x \in 0 .. 2 : /\ Opens(todo[i], x) <=> i = open[x]
                                                 /\ Closes(todo[i], x) <=> i = close[x]
    BY <1>7, <2>1
  <2>4. \A x \in 0 .. 2 : \/ open[x] = 0 /\ close[x] = 0
                          \/ open[x] \in DOMAIN todo /\ close[x] \in DOMAIN todo
                             /\ open[x] < close[x]
    BY <1>6, <1>8
  <2>5. \A i \in DOMAIN todo :
          /\ TaskOK(todo[i], IF todo[1].do = "var" THEN n + 1 ELSE n)
          /\ todo[i].do = "var" => i = 1
          /\ todo[i].do = "again" => open[0] < i /\ i < close[0]
          /\ \A b \in 0 .. 2 : /\ Opens(todo[i], b) <=> i = open[b]
                               /\ Closes(todo[i], b) <=> i = close[b]
    BY <2>2, <2>3
  <2> QED BY <1>6, <1>8, <2>4, <2>5, Zenon DEF Matched
<1>10. todo = PlanFor(setup, test, step, body)
  BY <1>1 DEF PlanFor
<1> QED BY <1>9, <1>10, MatchedGood

(***************************************************************************)
(* A list of tasks with one loop in it, from the position o to c; around   *)
(* and inside it is nothing to match, but for going back to its start, and *)
(* before it a variable may be declared.                                   *)
(***************************************************************************)
LEMMA BlockGood ==
    ASSUME NEW n, NEW m, NEW todo, NEW len \in Nat, DOMAIN todo = 1 .. len, todo \in Seq(TaskType),
           NEW o \in 1 .. len, NEW c \in 1 .. len, o < c,
           todo[o] = PushBlock, todo[c] = PopBlock,
           m = IF todo[1].do = "var" THEN n + 1 ELSE n,
           \A i \in 1 .. len : i \notin {o, c} =>
              \/ todo[i] \in PlainTask(m)
              \/ o < i /\ i < c /\ todo[i] \in {Again(op) : op \in JumpOp}
              \/ i = 1 /\ \E id \in STRING : todo[i] = AddVar(id)
    PROVE  /\ todo \in Seq(TaskType) /\ GoodTodo(todo, n)
           /\ \A b \in 0 .. 2 : ~Inside(todo, b)
<1> DEFINE open  == [x \in 0 .. 2 |-> IF x = 0 THEN o ELSE 0]
           close == [x \in 0 .. 2 |-> IF x = 0 THEN c ELSE 0]
<1>1. /\ TaskOK(PushBlock, m) /\ PushBlock.do # "var" /\ PushBlock.do # "again"
      /\ \A x \in 0 .. 2 : (Opens(PushBlock, x) <=> x = 0) /\ ~Closes(PushBlock, x)
      /\ TaskOK(PopBlock, m) /\ PopBlock.do # "var" /\ PopBlock.do # "again"
      /\ \A x \in 0 .. 2 : ~Opens(PopBlock, x) /\ (Closes(PopBlock, x) <=> x = 0)
  BY Brackets, Ops, 1 \in 1 .. 2
<1>2. ASSUME NEW op \in JumpOp
      PROVE  /\ TaskOK(Again(op), m) /\ Again(op).do # "var"
             /\ \A x \in 0 .. 2 : ~Opens(Again(op), x) /\ ~Closes(Again(op), x)
  BY Brackets, 1 \in 1 .. 2
<1>3. ASSUME NEW id \in STRING
      PROVE  /\ TaskOK(AddVar(id), m) /\ AddVar(id).do = "var"
             /\ \A x \in 0 .. 2 : ~Opens(AddVar(id), x) /\ ~Closes(AddVar(id), x)
  <2>1. id \in Wording
    BY Zenon DEF Wording, Identifier
  <2>2. 0 \in 0 .. 2
    OBVIOUS
  <2>3. PICK w \in Seq(WordType), nodes \in Seq(Nodes) : TRUE
    <3>1. <<>> \in Seq(WordType) /\ <<>> \in Seq(Nodes)
      OBVIOUS
    <3> QED BY <3>1, Zenon
  <2>4. AddVar(id) \in TaskType /\ AddVar(id).do = "var" /\ AddVar(id).op = id
    BY <2>2, <2>1, <2>3, TaskForms
  <2> QED BY <2>4 DEF TaskOK, Opens, Closes
<1>4. ASSUME NEW i \in 1 .. len
      PROVE  /\ TaskOK(todo[i], m)
             /\ todo[i].do = "var" => i = 1
             /\ todo[i].do = "again" => o < i /\ i < c
             /\ \A x \in 0 .. 2 : /\ Opens(todo[i], x) <=> i = o /\ x = 0
                                  /\ Closes(todo[i], x) <=> i = c /\ x = 0
  <2>1. CASE i \in {o, c}
    BY <1>1, <2>1
  <2>2. CASE i \notin {o, c} /\ todo[i] \in PlainTask(m)
    BY <2>2, Neutral
  <2>3. CASE i \notin {o, c} /\ o < i /\ i < c /\ todo[i] \in {Again(op) : op \in JumpOp}
    BY <1>2, <2>3
  <2>4. CASE i \notin {o, c} /\ i = 1 /\ \E id \in STRING : todo[i] = AddVar(id)
    BY <1>3, <2>4
  <2> QED BY <2>1, <2>2, <2>3, <2>4
<1>5. open \in [0 .. 2 -> Nat] /\ close \in [0 .. 2 -> Nat] /\ open[0] = o /\ close[0] = c
      /\ \A x \in 0 .. 2 : x # 0 => open[x] = 0 /\ close[x] = 0
  OBVIOUS
<1> HIDE DEF open, close
<1>6. \A i \in DOMAIN todo :
         /\ TaskOK(todo[i], IF todo[1].do = "var" THEN n + 1 ELSE n)
         /\ todo[i].do = "var" => i = 1
         /\ todo[i].do = "again" => open[0] < i /\ i < close[0]
  BY <1>4, <1>5
<1>7. ASSUME NEW i \in DOMAIN todo, NEW x \in 0 .. 2
      PROVE  /\ Opens(todo[i], x) <=> i = open[x]
             /\ Closes(todo[i], x) <=> i = close[x]
  <2>1. i > 0
    OBVIOUS
  <2>2. CASE x = 0
    BY <1>4, <1>5, <2>2
  <2>3. CASE x # 0
    BY <1>4, <1>5, <2>1, <2>3
  <2> QED BY <2>2, <2>3
<1>8. \A x \in 0 .. 2 : \/ open[x] = 0 /\ close[x] = 0
                        \/ open[x] \in DOMAIN todo /\ close[x] \in DOMAIN todo /\ open[x] < close[x]
  BY <1>5
<1>9. Matched(todo, n, open, close)
  BY <1>5, <1>6, <1>7, <1>8 DEF Matched
<1> QED BY <1>9, MatchedGood

LEMMA LoopGood ==
    ASSUME NEW n, NEW op, NEW test \in Seq(Nodes), NEW body \in Seq(Nodes)
    PROVE  LET todo == PlanLoop(op, test, body)
           IN  todo \in Seq(TaskType) /\ GoodTodo(todo, n) /\ \A b \in 0 .. 2 : ~Inside(todo, b)
<1>1. PICK s, t, b, c, lf, lt, af, at, push, pop :
         /\ s = Sub(test) /\ t = Test /\ b = Sub(body) /\ c = AddContinue
         /\ lf = Leave("FJUMP") /\ lt = Leave("TJUMP") /\ af = Again("FJUMP") /\ at = Again("TJUMP")
         /\ push = PushBlock /\ pop = PopBlock
  OBVIOUS
<1>2. /\ s \in PlainTask(n) /\ t \in PlainTask(n) /\ b \in PlainTask(n) /\ c \in PlainTask(n)
      /\ lf \in PlainTask(n) /\ lt \in PlainTask(n)
  <2>1. s \in PlainTask(n) /\ t \in PlainTask(n) /\ b \in PlainTask(n) /\ c \in PlainTask(n)
    BY <1>1, Ops, PlainTasks, TestPlain
  <2>2. lf \in PlainTask(n) /\ lt \in PlainTask(n)
    BY <1>1, Ops, PlainTasks, Zenon
  <2> QED BY <2>1, <2>2
<1>3. /\ af \in {Again(o) : o \in JumpOp} /\ at \in {Again(o) : o \in JumpOp}
      /\ af \in TaskType /\ at \in TaskType /\ push \in TaskType /\ pop \in TaskType
      /\ push.do # "var" /\ push = PushBlock /\ pop = PopBlock
  <2>1. af \in TaskType /\ at \in TaskType /\ push \in TaskType /\ pop \in TaskType
        /\ push.do # "var"
    BY <1>1, Ops, Brackets, 1 \in 1 .. 2, Zenon
  <2> QED BY <1>1, <2>1, Ops
<1>4. /\ s \in TaskType /\ t \in TaskType /\ b \in TaskType /\ c \in TaskType
      /\ lf \in TaskType /\ lt \in TaskType
  BY <1>2, Neutral
<1>5. ASSUME NEW todo, NEW len \in Nat, len > 1, DOMAIN todo = 1 .. len, todo \in Seq(TaskType),
             todo[1] = push, todo[len] = pop,
             \A i \in 2 .. len - 1 : todo[i] \in {s, t, b, c, lf, lt, af, at}
      PROVE  todo \in Seq(TaskType) /\ GoodTodo(todo, n) /\ \A x \in 0 .. 2 : ~Inside(todo, x)
  <2>1. n = IF todo[1].do = "var" THEN n + 1 ELSE n
    BY <1>3, <1>5
  <2>2. \A i \in 1 .. len : i \notin {1, len} =>
           \/ todo[i] \in PlainTask(n)
           \/ 1 < i /\ i < len /\ todo[i] \in {Again(o) : o \in JumpOp}
           \/ i = 1 /\ \E id \in STRING : todo[i] = AddVar(id)
    <3> SUFFICES ASSUME NEW i \in 1 .. len, i \notin {1, len}
                 PROVE  1 < i /\ i < len /\ (todo[i] \in PlainTask(n) \/ todo[i] \in {Again(o) : o \in JumpOp})
      OBVIOUS
    <3>1. i \in 2 .. len - 1 /\ 1 < i /\ i < len
      OBVIOUS
    <3> QED BY <1>2, <1>3, <1>5, <3>1
  <2>3. 1 \in 1 .. len /\ len \in 1 .. len /\ 1 < len
    BY <1>5
  <2>4. todo[1] = PushBlock /\ todo[len] = PopBlock
    BY <1>3, <1>5
  <2> QED BY <1>5, <2>1, <2>2, <2>3, <2>4, BlockGood
<1>6. CASE op = "WHILE"
  <2>1. PICK todo : todo = <<push, s, t, lf, b, c, pop>>
    OBVIOUS
  <2>2. todo = PlanLoop(op, test, body)
    BY <1>1, <1>6, <2>1 DEF PlanLoop
  <2>3. /\ DOMAIN todo = 1 .. 7 /\ todo \in Seq(TaskType) /\ todo[1] = push /\ todo[7] = pop
        /\ \A i \in 2 .. 6 : todo[i] \in {s, t, b, c, lf, lt, af, at}
    BY <1>3, <1>4, <2>1
  <2>4. 7 \in Nat /\ 7 > 1 /\ 7 - 1 = 6
    OBVIOUS
  <2> QED BY <1>5, <2>2, <2>3, <2>4
<1>7. CASE op = "UNTIL"
  <2>1. PICK todo : todo = <<push, s, t, lt, b, c, pop>>
    OBVIOUS
  <2>2. todo = PlanLoop(op, test, body)
    BY <1>1, <1>7, <2>1 DEF PlanLoop
  <2>3. /\ DOMAIN todo = 1 .. 7 /\ todo \in Seq(TaskType) /\ todo[1] = push /\ todo[7] = pop
        /\ \A i \in 2 .. 6 : todo[i] \in {s, t, b, c, lf, lt, af, at}
    BY <1>3, <1>4, <2>1
  <2>4. 7 \in Nat /\ 7 > 1 /\ 7 - 1 = 6
    OBVIOUS
  <2> QED BY <1>5, <2>2, <2>3, <2>4
<1>8. CASE op = "DOWHILE"
  <2>1. PICK todo : todo = <<push, b, s, t, at, pop>>
    OBVIOUS
  <2>2. todo = PlanLoop(op, test, body)
    BY <1>1, <1>8, <2>1 DEF PlanLoop
  <2>3. /\ DOMAIN todo = 1 .. 6 /\ todo \in Seq(TaskType) /\ todo[1] = push /\ todo[6] = pop
        /\ \A i \in 2 .. 5 : todo[i] \in {s, t, b, c, lf, lt, af, at}
    BY <1>3, <1>4, <2>1
  <2>4. 6 \in Nat /\ 6 > 1 /\ 6 - 1 = 5
    OBVIOUS
  <2> QED BY <1>5, <2>2, <2>3, <2>4
<1>9. CASE op = "DOUNTIL"
  <2>1. PICK todo : todo = <<push, b, s, t, af, pop>>
    OBVIOUS
  <2>2. todo = PlanLoop(op, test, body)
    BY <1>1, <1>9, <2>1 DEF PlanLoop
  <2>3. /\ DOMAIN todo = 1 .. 6 /\ todo \in Seq(TaskType) /\ todo[1] = push /\ todo[6] = pop
        /\ \A i \in 2 .. 5 : todo[i] \in {s, t, b, c, lf, lt, af, at}
    BY <1>3, <1>4, <2>1
  <2>4. 6 \in Nat /\ 6 > 1 /\ 6 - 1 = 5
    OBVIOUS
  <2> QED BY <1>5, <2>2, <2>3, <2>4
<1>10. CASE op = "FOREVER"
  <2>1. PICK todo : todo = <<push, b, c, pop>>
    OBVIOUS
  <2>2. todo = PlanLoop(op, test, body)
    BY <1>1, <1>10, <2>1 DEF PlanLoop
  <2>3. /\ DOMAIN todo = 1 .. 4 /\ todo \in Seq(TaskType) /\ todo[1] = push /\ todo[4] = pop
        /\ \A i \in 2 .. 3 : todo[i] \in {s, t, b, c, lf, lt, af, at}
    BY <1>3, <1>4, <2>1
  <2>4. 4 \in Nat /\ 4 > 1 /\ 4 - 1 = 3
    OBVIOUS
  <2> QED BY <1>5, <2>2, <2>3, <2>4
<1>11. CASE op \notin {"WHILE", "UNTIL", "DOWHILE", "DOUNTIL", "FOREVER"}
  <2>1. PICK todo : todo = <<push, pop>>
    OBVIOUS
  <2>2. todo = PlanLoop(op, test, body)
    BY <1>1, <1>11, <2>1 DEF PlanLoop
  <2>3. /\ DOMAIN todo = 1 .. 2 /\ todo \in Seq(TaskType) /\ todo[1] = push /\ todo[2] = pop
        /\ \A i \in 2 .. 1 : todo[i] \in {s, t, b, c, lf, lt, af, at}
    BY <1>3, <1>4, <2>1
  <2>4. 2 \in Nat /\ 2 > 1 /\ 2 - 1 = 1
    OBVIOUS
  <2> QED BY <1>5, <2>2, <2>3, <2>4
<1> QED BY <1>6, <1>7, <1>8, <1>9, <1>10, <1>11

LEMMA ForeachGood ==
    ASSUME vars \in Seq(STRING), file \in FileType, NEW n \in Nat, n = Len(vars),
           NEW id \in STRING, NEW list \in Seq(Nodes), NEW body \in Seq(Nodes)
    PROVE  LET todo == PlanForeach(id, list, body)
           IN  todo \in Seq(TaskType) /\ GoodTodo(todo, n) /\ \A b \in 0 .. 2 : ~Inside(todo, b)
<1>1. PICK x, index :
         x = GetVar(id) /\ index = IF x >= 0 THEN x ELSE n
  OBVIOUS
<1>2. x \in -1 .. n - 1
  BY <1>1, Indexes
<1>3. PICK m : m = IF x >= 0 THEN n ELSE n + 1
  OBVIOUS
<1>4. m \in Nat /\ index \in 0 .. m - 1
  <2>1. CASE x >= 0
    <3>1. m = n /\ index = x
      BY <1>1, <1>3, <2>1, Zenon
    <3> QED BY <1>2, <2>1, <3>1
  <2>2. CASE ~(x >= 0)
    <3>1. m = n + 1 /\ index = n
      BY <1>1, <1>3, <2>2, Zenon
    <3> QED BY <3>1
  <2> QED BY <2>1, <2>2
<1>5. PICK v, l, push, it, lf, b, c, pop, p :
         /\ v = AddVar(id) /\ l = Sub(list) /\ push = PushBlock /\ it = Emit(One("ITER", index))
         /\ lf = Leave("FJUMP") /\ b = Sub(body) /\ c = AddContinue /\ pop = PopBlock
         /\ p = Alone("POP")
  OBVIOUS
<1>6. /\ l \in PlainTask(m) /\ b \in PlainTask(m) /\ c \in PlainTask(m) /\ lf \in PlainTask(m)
      /\ it \in PlainTask(m) /\ p \in PlainTask(m)
  <2>1. l \in PlainTask(m) /\ b \in PlainTask(m) /\ c \in PlainTask(m)
    BY <1>5, Ops, PlainTasks
  <2>2. lf \in PlainTask(m) /\ p \in PlainTask(m)
    <3>1. PICK nodes \in Seq(Nodes) : TRUE
      OBVIOUS
    <3> QED BY <1>5, <3>1, Ops, PlainTasks, PlainAlone, Zenon
  <2>3. it \in PlainTask(m)
    BY <1>4, <1>5, Ops, PlainVariable, Zenon
  <2> QED BY <2>1, <2>2, <2>3
<1>7. /\ l \in TaskType /\ b \in TaskType /\ c \in TaskType /\ lf \in TaskType
      /\ it \in TaskType /\ p \in TaskType /\ l.do # "var"
  BY <1>6, Neutral
<1>8. v \in TaskType /\ v.do = "var" /\ push \in TaskType /\ pop \in TaskType
  <2>1. id \in Wording
    BY Zenon DEF Wording, Identifier
  <2>2. PICK w \in Seq(WordType) : TRUE
    <3>1. <<>> \in Seq(WordType)
      OBVIOUS
    <3> QED BY <3>1, Zenon
  <2>3. 0 \in 0 .. 2
    OBVIOUS
  <2>4. v \in TaskType /\ v.do = "var"
    BY <1>5, <2>1, <2>2, <2>3, TaskForms
  <2>5. push \in TaskType /\ pop \in TaskType
    BY <1>5, Ops, Brackets, 1 \in 1 .. 2
  <2> QED BY <2>4, <2>5
<1>9. ASSUME NEW todo, NEW len \in Nat, NEW o \in 1 .. len, NEW d \in 1 .. len, o < d,
             DOMAIN todo = 1 .. len, todo \in Seq(TaskType), todo[o] = push, todo[d] = pop,
             m = IF todo[1].do = "var" THEN n + 1 ELSE n,
             \A i \in 1 .. len : i \notin {o, d} =>
                todo[i] \in {l, it, lf, b, c, p} \/ (i = 1 /\ todo[i] = v)
      PROVE  todo \in Seq(TaskType) /\ GoodTodo(todo, n) /\ \A y \in 0 .. 2 : ~Inside(todo, y)
  <2>1. todo[o] = PushBlock /\ todo[d] = PopBlock
    BY <1>5, <1>9
  <2>2. \A i \in 1 .. len : i \notin {o, d} =>
           \/ todo[i] \in PlainTask(m)
           \/ o < i /\ i < d /\ todo[i] \in {Again(q) : q \in JumpOp}
           \/ i = 1 /\ \E q \in STRING : todo[i] = AddVar(q)
    <3> SUFFICES ASSUME NEW i \in 1 .. len, i \notin {o, d}
                 PROVE  \/ todo[i] \in PlainTask(m)
                        \/ i = 1 /\ \E q \in STRING : todo[i] = AddVar(q)
      OBVIOUS
    <3>1. CASE todo[i] \in {l, it, lf, b, c, p}
      BY <1>6, <3>1
    <3>2. CASE i = 1 /\ todo[i] = v
      BY <1>5, <3>2
    <3> QED BY <1>9, <3>1, <3>2
  <2>3. /\ len \in Nat /\ DOMAIN todo = 1 .. len /\ todo \in Seq(TaskType)
        /\ o \in 1 .. len /\ d \in 1 .. len /\ o < d
        /\ m = IF todo[1].do = "var" THEN n + 1 ELSE n
    BY <1>9
  <2> QED BY <2>1, <2>2, <2>3, BlockGood, Zenon
<1>10. PICK loop : loop = <<l, push, it, lf, b, c, pop, p>>
  OBVIOUS
<1>11. /\ loop \in Seq(TaskType) /\ Len(loop) = 8 /\ DOMAIN loop = 1 .. 8
       /\ loop[1] = l /\ loop[2] = push /\ loop[7] = pop
       /\ \A i \in 1 .. 8 : i \notin {2, 7} => loop[i] \in {l, it, lf, b, c, p}
  BY <1>7, <1>8, <1>10
<1>12. CASE x >= 0
  <2>1. loop = PlanForeach(id, list, body)
    <3>1. PlanForeach(id, list, body) = <<>> \o loop
      BY <1>1, <1>5, <1>10, <1>12 DEF PlanForeach
    <3>2. <<>> \o loop = loop
      BY <1>11
    <3> QED BY <3>1, <3>2
  <2>2. m = IF loop[1].do = "var" THEN n + 1 ELSE n
    BY <1>3, <1>7, <1>11, <1>12
  <2>3. PICK len, o, d : len = 8 /\ o = 2 /\ d = 7
    OBVIOUS
  <2>4. /\ len \in Nat /\ o \in 1 .. len /\ d \in 1 .. len
        /\ DOMAIN loop = 1 .. len /\ o < d /\ loop[o] = push /\ loop[d] = pop
        /\ \A i \in 1 .. len : i \notin {o, d} => loop[i] \in {l, it, lf, b, c, p}
    BY <1>11, <2>3
  <2> QED BY <1>9, <1>11, <2>1, <2>2, <2>4
<1>13. CASE ~(x >= 0)
  <2>1. PICK todo : todo = <<v>> \o loop
    OBVIOUS
  <2>2. todo = PlanForeach(id, list, body)
    BY <1>1, <1>5, <1>10, <1>13, <2>1 DEF PlanForeach
  <2>3. /\ todo \in Seq(TaskType) /\ DOMAIN todo = 1 .. 9 /\ todo[1] = v
        /\ \A i \in 2 .. 9 : todo[i] = loop[i - 1]
    <3>1. <<v>> \in Seq(TaskType) /\ Len(<<v>>) = 1 /\ <<v>>[1] = v
      BY <1>8
    <3>2. PICK w : w = <<v>>
      OBVIOUS
    <3>3. /\ w \o loop \in Seq(TaskType) /\ Len(w \o loop) = Len(w) + Len(loop)
          /\ \A i \in 1 .. Len(w) + Len(loop) :
                (w \o loop)[i] = IF i <= Len(w) THEN w[i] ELSE loop[i - Len(w)]
      BY <1>11, <3>1, <3>2, JoinSeq
    <3> QED BY <1>11, <2>1, <3>1, <3>2, <3>3
  <2>4. todo[3] = push /\ todo[8] = pop
    BY <1>11, <2>3
  <2>5. \A i \in 1 .. 9 : i \notin {3, 8} => \/ todo[i] \in {l, it, lf, b, c, p}
                                             \/ (i = 1 /\ todo[i] = v)
    <3> SUFFICES ASSUME NEW i \in 2 .. 9, i \notin {3, 8}
                 PROVE  todo[i] \in {l, it, lf, b, c, p}
      BY <2>3
    <3>1. i - 1 \in 1 .. 8 /\ i - 1 \notin {2, 7}
      OBVIOUS
    <3> QED BY <1>11, <2>3, <3>1
  <2>6. m = IF todo[1].do = "var" THEN n + 1 ELSE n
    BY <1>3, <1>8, <1>13, <2>3
  <2>7. PICK len, o, d : len = 9 /\ o = 3 /\ d = 8
    OBVIOUS
  <2>8. /\ len \in Nat /\ o \in 1 .. len /\ d \in 1 .. len
        /\ DOMAIN todo = 1 .. len /\ o < d /\ todo[o] = push /\ todo[d] = pop
        /\ \A i \in 1 .. len : i \notin {o, d} => \/ todo[i] \in {l, it, lf, b, c, p}
                                                 \/ (i = 1 /\ todo[i] = v)
    BY <2>3, <2>4, <2>5, <2>7
  <2> QED BY <1>9, <2>2, <2>3, <2>6, <2>8
<1> QED BY <1>12, <1>13

LEMMA DeclareGood ==
    ASSUME vars \in Seq(STRING), NEW n \in Nat, n = Len(vars),
           NEW id \in STRING, NEW init \in Seq(Nodes)
    PROVE  LET todo == PlanDeclare(id, init)
           IN  todo \in Seq(TaskType) /\ GoodTodo(todo, n) /\ \A b \in 0 .. 2 : ~Inside(todo, b)
<1>1. CASE GetVar(id) >= 0
  <2>1. PICK r : r = Refuse
    OBVIOUS
  <2>2. PICK nodes \in Seq(Nodes) : TRUE
    OBVIOUS
  <2>3. r \in PlainTask(n)
    BY <2>1, <2>2, Ops, PlainTasks, Zenon
  <2>4. <<r>> \in Seq(PlainTask(n))
    BY <2>3
  <2>5. PlanDeclare(id, init) = <<r>>
    BY <1>1, <2>1 DEF PlanDeclare
  <2> QED BY <2>4, <2>5, PlainGood
<1>2. CASE ~(GetVar(id) >= 0)
  <2>1. PICK v, s, e, todo :
           /\ v = AddVar(id) /\ s = (IF init # <<>> THEN Sub(init) ELSE Emit(Push(NilConst)))
           /\ e = Emit(One("ASSIGN", n)) /\ todo = <<v, s, e>>
    OBVIOUS
  <2>2. s \in PlainTask(n + 1)
    <3>1. Sub(init) \in PlainTask(n + 1)
      BY Ops, PlainTasks, Zenon
    <3>2. Emit(Push(NilConst)) \in PlainTask(n + 1)
      BY NilType, PlainPush, Zenon
    <3> QED BY <2>1, <3>1, <3>2, Zenon
  <2>3. e \in PlainTask(n + 1)
    <3>1. n \in 0 .. (n + 1) - 1 /\ n + 1 \in Nat
      OBVIOUS
    <3> QED BY <2>1, <3>1, Ops, PlainVariable, Zenon
  <2>4. /\ v \in TaskType /\ TaskOK(v, n + 1) /\ v.do = "var" /\ v.do # "again"
        /\ \A x \in 0 .. 2 : ~Opens(v, x) /\ ~Closes(v, x)
    <3>1. id \in Wording
      BY Zenon DEF Wording, Identifier
    <3>2. 0 \in 0 .. 2
      OBVIOUS
    <3>3. PICK w \in Seq(WordType), nodes \in Seq(Nodes) : TRUE
      <4>1. <<>> \in Seq(WordType) /\ <<>> \in Seq(Nodes)
        OBVIOUS
      <4> QED BY <4>1, Zenon
    <3>4. v \in TaskType /\ v.do = "var" /\ v.op = id
      BY <2>1, <3>1, <3>2, <3>3, TaskForms
    <3> QED BY <3>4 DEF TaskOK, Opens, Closes
  <2>5. \A t \in {s, e} :
           /\ t \in TaskType /\ TaskOK(t, n + 1) /\ t.do # "var" /\ t.do # "again"
           /\ \A x \in 0 .. 2 : ~Opens(t, x) /\ ~Closes(t, x)
    BY <2>2, <2>3, Neutral
  <2>6. /\ todo \in Seq(TaskType) /\ DOMAIN todo = 1 .. 3
        /\ todo[1] = v /\ todo[2] = s /\ todo[3] = e
    BY <2>1, <2>4, <2>5
  <2>7. ASSUME NEW i \in 1 .. 3
        PROVE  /\ TaskOK(todo[i], n + 1) /\ (todo[i].do = "var" => i = 1)
               /\ todo[i].do # "again"
               /\ \A x \in 0 .. 2 : ~Opens(todo[i], x) /\ ~Closes(todo[i], x)
    <3>1. CASE i = 1
      BY <2>4, <2>6, <3>1
    <3>2. CASE i \in {2, 3}
      BY <2>5, <2>6, <3>2
    <3> QED BY <3>1, <3>2
  <2> DEFINE none == [x \in 0 .. 2 |-> 0]
  <2>8. none \in [0 .. 2 -> Nat] /\ \A x \in 0 .. 2 : none[x] = 0
    OBVIOUS
  <2> HIDE DEF none
  <2>9. todo[1].do = "var"
    BY <2>4, <2>6
  <2>10. Matched(todo, n, none, none)
    BY <2>6, <2>7, <2>8, <2>9 DEF Matched
  <2>11. todo = PlanDeclare(id, init)
    BY <1>2, <2>1 DEF PlanDeclare
  <2> QED BY <2>10, <2>11, MatchedGood
<1> QED BY <1>1, <1>2

(* The plan of every node is sound when it is made.                        *)
LEMMA PlanGood ==
    ASSUME vars \in Seq(STRING), file \in FileType, NEW n \in Nat, n = Len(vars),
           NEW node \in Nodes
    PROVE  /\ Plan(node) \in Seq(TaskType) /\ GoodTodo(Plan(node), n)
           /\ \A b \in 0 .. 2 : ~Inside(Plan(node), b)
<1> DEFINE Sound(todo) == /\ todo \in Seq(TaskType) /\ GoodTodo(todo, n)
                          /\ \A b \in 0 .. 2 : ~Inside(todo, b)
<1>1. /\ node.kids \in Seq(Seq(Nodes)) /\ Len(node.kids) = Arity(node.type)
      /\ node.name \in STRING
  BY NodeParts
<1>2. \A i \in 1 .. Len(node.kids) : node.kids[i] \in Seq(Nodes)
  BY <1>1
<1>3. CASE node.type \notin Control
  BY <1>3, PlanPlain, PlainGood
<1>4. CASE node.type \in {"OR", "AND"}
  <2>1. node.kids[1] \in Seq(Nodes) /\ node.kids[2] \in Seq(Nodes)
    <3>1. Len(node.kids) = 2
      BY <1>1, <1>4 DEF Arity
    <3> QED BY <1>2, <3>1
  <2>2. ASSUME NEW op \in JumpOp PROVE Sound(PlanLogic(op, node.kids[1], node.kids[2]))
    BY <2>1, LogicGood, MatchedGood, Zenon
  <2>3. \/ Plan(node) = PlanLogic("TJUMP", node.kids[1], node.kids[2])
        \/ Plan(node) = PlanLogic("FJUMP", node.kids[1], node.kids[2])
    BY <1>4 DEF Plan
  <2> HIDE DEF Sound
  <2>4. Sound(Plan(node))
    BY <2>2, <2>3, Ops, Zenon
  <2> QED BY <2>4 DEF Sound
<1>5. CASE node.type = "DECLARE"
  <2>1. node.kids[1] \in Seq(Nodes)
    <3>1. Len(node.kids) = 1
      BY <1>1, <1>5 DEF Arity
    <3> QED BY <1>2, <3>1
  <2>2. Plan(node) = PlanDeclare(node.name, node.kids[1])
    BY <1>5 DEF Plan
  <2> QED BY <1>1, <2>1, <2>2, DeclareGood
<1>6. CASE node.type = "IF"
  <2>1. node.kids[1] \in Seq(Nodes) /\ node.kids[2] \in Seq(Nodes) /\ node.kids[3] \in Seq(Nodes)
    <3>1. Len(node.kids) = 3
      BY <1>1, <1>6 DEF Arity
    <3> QED BY <1>2, <3>1
  <2>2. Plan(node) = PlanIf(node.kids[1], node.kids[2], node.kids[3])
    BY <1>6 DEF Plan
  <2> QED BY <2>1, <2>2, IfGood
<1>7. CASE node.type = "LOOP"
  <2>1. node.kids[1] \in Seq(Nodes) /\ node.kids[2] \in Seq(Nodes)
    <3>1. Len(node.kids) = 2
      BY <1>1, <1>7 DEF Arity
    <3> QED BY <1>2, <3>1
  <2>2. Plan(node) = PlanLoop(node.op, node.kids[1], node.kids[2])
    BY <1>7 DEF Plan
  <2> QED BY <2>1, <2>2, LoopGood
<1>8. CASE node.type = "FOR"
  <2>1. /\ node.kids[1] \in Seq(Nodes) /\ node.kids[2] \in Seq(Nodes)
        /\ node.kids[3] \in Seq(Nodes) /\ node.kids[4] \in Seq(Nodes)
    <3>1. Len(node.kids) = 4
      BY <1>1, <1>8 DEF Arity
    <3> QED BY <1>2, <3>1
  <2>2. Plan(node) = PlanFor(node.kids[1], node.kids[2], node.kids[3], node.kids[4])
    BY <1>8 DEF Plan
  <2> QED BY <2>1, <2>2, ForGood
<1>9. CASE node.type = "FOREACH"
  <2>1. node.kids[1] \in Seq(Nodes) /\ node.kids[2] \in Seq(Nodes)
    <3>1. Len(node.kids) = 2
      BY <1>1, <1>9 DEF Arity
    <3> QED BY <1>2, <3>1
  <2>2. Plan(node) = PlanForeach(node.name, node.kids[1], node.kids[2])
    BY <1>9 DEF Plan
  <2> QED BY <1>1, <2>1, <2>2, ForeachGood
<1> QED BY <1>3, <1>4, <1>5, <1>6, <1>7, <1>8, <1>9 DEF Control

-----------------------------------------------------------------------------
(* The activations and what they will patch *)

Activations(wk, n) == \A d \in DOMAIN wk : GoodTodo(wk[d].todo, n)
InLoops(wk) == {d \in DOMAIN wk : Inside(wk[d].todo, 0)}

(* The holes: of returns, of the breaks out of a loop, of the jumps of an  *)
(* activation.                                                             *)
HolesIn(wk)  == UNION {{wk[d].pos[k] : k \in {k \in 1 .. 2 : Inside(wk[d].todo, k)}}
                       : d \in DOMAIN wk}
BreaksOf(bs) == UNION {bs[b].breaks : b \in DOMAIN bs}
PendingOf(rs, bs, wk) == rs \cup BreaksOf(bs) \cup HolesIn(wk)
StartsOf(bs) == {bs[b].start : b \in DOMAIN bs}

-----------------------------------------------------------------------------
(* The invariant *)

BodyInv == status = "body" =>
    /\ CodeOK(code, Len(vars), PendingOf(returns, blocks, work), StartsOf(blocks))
    /\ Activations(work, Len(vars))
    /\ Len(blocks) = Cardinality(InLoops(work))

Between == status \in {"between", "done"} => work = <<>> /\ blocks = <<>> /\ returns = {}

Results == \A k \in DOMAIN compiled : CodeOK(compiled[k].code, compiled[k].varc, {}, {})

Room == block_chunk >= 2 => status # "overrun" /\ (status = "body" => Len(code) <= size)

Recorded ==
    status = "body" =>
       /\ Len(lines) = Len(code)
       /\ SpansTo(Len(debug)) = last_op
       /\ \A k \in 1 .. Len(debug) : SpansTo(k) \in 0 .. last_op
       /\ \A p \in 0 .. last_op - 1 : GetLineOf(p) = lines[p + 1]
       /\ \A p \in last_op .. Len(code) - 1 : lines[p + 1] = last_line

Inv == TypeOK /\ file \in Files /\ BodyInv /\ Between /\ Results /\ Room /\ Recorded /\ LinesRight

-----------------------------------------------------------------------------
(* What is left to do *)

LEMMA HoleParts ==
    \A wk, p : p \in HolesIn(wk) <=>
       \E d \in DOMAIN wk, k \in 1 .. 2 : Inside(wk[d].todo, k) /\ p = wk[d].pos[k]
  BY DEF HolesIn

(* The words that are right with n variables are with one more.            *)
LEMMA MoreVariables ==
    ASSUME NEW n \in Nat
    PROVE  /\ \A t : TaskOK(t, n) => TaskOK(t, n + 1)
           /\ \A todo \in Seq(TaskType) : GoodTodo(todo, n) => GoodTodo(todo, n + 1)
<1>1. ASSUME NEW m \in Nat, NEW w, GoodWords(w, m) PROVE GoodWords(w, m + 1)
  BY <1>1 DEF GoodWords
<1>2. ASSUME NEW m \in Nat, NEW t, TaskOK(t, m) PROVE TaskOK(t, m + 1)
  BY <1>1, <1>2 DEF TaskOK
<1>3. ASSUME NEW todo \in Seq(TaskType), GoodTodo(todo, n) PROVE GoodTodo(todo, n + 1)
  <2>1. ASSUME NEW i \in DOMAIN todo
        PROVE  TaskOK(todo[i], IF todo[1].do = "var" THEN (n + 1) + 1 ELSE n + 1)
    <3>1. TaskOK(todo[i], IF todo[1].do = "var" THEN n + 1 ELSE n)
      BY <1>3 DEF GoodTodo
    <3>2. CASE todo[1].do = "var"
      <4>1. TaskOK(todo[i], n + 1) /\ n + 1 \in Nat
        BY <3>1, <3>2
      <4> QED BY <1>2, <3>2, <4>1
    <3>3. CASE todo[1].do # "var"
      <4>1. TaskOK(todo[i], n)
        BY <3>1, <3>3
      <4> QED BY <1>2, <3>3, <4>1
    <3> QED BY <3>2, <3>3
  <2>2. /\ \A i \in DOMAIN todo : todo[i].do = "var" => i = 1
        /\ \A b \in 0 .. 2, i \in DOMAIN todo : Opens(todo[i], b) =>
              /\ \E j \in DOMAIN todo : j > i /\ Closes(todo[j], b)
              /\ \A j \in DOMAIN todo : Opens(todo[j], b) => j = i
        /\ \A b \in 0 .. 2, i, j \in DOMAIN todo :
              Closes(todo[i], b) /\ Closes(todo[j], b) => i = j
        /\ \A i \in DOMAIN todo : todo[i].do = "again" =>
              /\ \E j \in DOMAIN todo : j > i /\ Closes(todo[j], 0)
              /\ \A j \in DOMAIN todo : Opens(todo[j], 0) => j < i
    BY <1>3, Zenon DEF GoodTodo
  <2> QED BY <2>1, <2>2, Zenon DEF GoodTodo
<1> QED BY <1>2, <1>3

(* What is left when the first task is done.                               *)
LEMMA RestGood ==
    ASSUME NEW n \in Nat, NEW todo \in Seq(TaskType), todo # <<>>, GoodTodo(todo, n),
           NEW rest, rest = Tail(todo), NEW m, m = IF todo[1].do = "var" THEN n + 1 ELSE n
    PROVE  /\ rest \in Seq(TaskType) /\ GoodTodo(rest, m) /\ TaskOK(todo[1], m)
           /\ \A b \in 0 .. 2 :
                 /\ Inside(rest, b) <=> \/ Opens(todo[1], b)
                                        \/ Inside(todo, b) /\ ~Closes(todo[1], b)
                 /\ Closes(todo[1], b) => Inside(todo, b)
                 /\ Opens(todo[1], b) => ~Inside(todo, b)
           /\ todo[1].do = "again" => Inside(todo, 0)
<1>1. PICK len \in Nat : len = Len(todo) - 1
  <2>1. Len(todo) \in Nat /\ Len(todo) # 0
    BY EmptySeq
  <2> QED BY <2>1
<1>2. /\ rest \in Seq(TaskType) /\ DOMAIN rest = 1 .. len /\ DOMAIN todo = 1 .. len + 1
      /\ \A i \in 1 .. len : rest[i] = todo[i + 1]
  BY <1>1
<1>3. 1 \in DOMAIN todo /\ \A i \in 1 .. len : i + 1 \in DOMAIN todo
  BY <1>2
<1>4. \A i \in DOMAIN todo : TaskOK(todo[i], m)
  BY DEF GoodTodo
<1>5. \A i \in 1 .. len : rest[i].do # "var"
  <2> SUFFICES ASSUME NEW i \in 1 .. len PROVE rest[i].do # "var"
    OBVIOUS
  <2>1. todo[i + 1].do = "var" => i + 1 = 1
    BY <1>3 DEF GoodTodo
  <2> QED BY <1>2, <2>1
<1>6. \A i \in DOMAIN rest : TaskOK(rest[i], IF rest[1].do = "var" THEN m + 1 ELSE m)
  <2> SUFFICES ASSUME NEW i \in 1 .. len
               PROVE  TaskOK(rest[i], IF rest[1].do = "var" THEN m + 1 ELSE m)
    BY <1>2
  <2>1. 1 \in 1 .. len
    OBVIOUS
  <2> QED BY <1>2, <1>3, <1>4, <1>5, <2>1
<1>7. ASSUME NEW b \in 0 .. 2, NEW i \in 1 .. len, Opens(rest[i], b)
      PROVE  /\ \E j \in 1 .. len : j > i /\ Closes(rest[j], b)
             /\ \A j \in 1 .. len : Opens(rest[j], b) => j = i
  <2>1. i + 1 \in DOMAIN todo /\ Opens(todo[i + 1], b)
    BY <1>2, <1>3, <1>7
  <2>2. PICK j \in DOMAIN todo : j > i + 1 /\ Closes(todo[j], b)
    BY <2>1 DEF GoodTodo
  <2>3. j - 1 \in 1 .. len /\ j - 1 > i /\ Closes(rest[j - 1], b)
    BY <1>2, <2>2
  <2>4. ASSUME NEW h \in 1 .. len, Opens(rest[h], b) PROVE h = i
    <3>1. h + 1 \in DOMAIN todo /\ Opens(todo[h + 1], b)
      BY <1>2, <1>3, <2>4
    <3>2. h + 1 = i + 1
      BY <2>1, <3>1 DEF GoodTodo
    <3> QED BY <3>2
  <2> QED BY <2>3, <2>4
<1>8. ASSUME NEW b \in 0 .. 2, NEW i \in 1 .. len, NEW j \in 1 .. len,
             Closes(rest[i], b), Closes(rest[j], b)
      PROVE  i = j
  <2>1. Closes(todo[i + 1], b) /\ Closes(todo[j + 1], b)
    BY <1>2, <1>8
  <2>2. i + 1 = j + 1
    BY <1>3, <2>1 DEF GoodTodo
  <2> QED BY <2>2
<1>9. ASSUME NEW i \in DOMAIN todo, todo[i].do = "again"
      PROVE  /\ \E j \in DOMAIN todo : j > i /\ Closes(todo[j], 0)
             /\ \A j \in DOMAIN todo : Opens(todo[j], 0) => j < i
  BY <1>9 DEF GoodTodo
<1>10. \A b \in 0 .. 2 : \A t : ~(Opens(t, b) /\ Closes(t, b))
  BY DEF Opens, Closes
<1>11. ASSUME NEW b \in 0 .. 2, Closes(todo[1], b)
       PROVE  Inside(todo, b) /\ ~Inside(rest, b)
  <2>1. ASSUME NEW i \in DOMAIN todo PROVE ~Opens(todo[i], b)
    <3> SUFFICES ASSUME Opens(todo[i], b) PROVE FALSE
      OBVIOUS
    <3>1. PICK j \in DOMAIN todo : j > i /\ Closes(todo[j], b)
      BY DEF GoodTodo
    <3>2. j = 1
      BY <1>3, <1>11, <3>1 DEF GoodTodo
    <3> QED BY <1>2, <3>1, <3>2
  <2>2. ASSUME NEW i \in 1 .. len PROVE ~Closes(rest[i], b)
    <3> SUFFICES ASSUME Closes(todo[i + 1], b) PROVE FALSE
      BY <1>2
    <3>1. i + 1 = 1
      BY <1>3, <1>11 DEF GoodTodo
    <3> QED BY <3>1
  <2> QED BY <1>2, <1>3, <1>11, <2>1, <2>2 DEF Inside
<1>12. ASSUME NEW b \in 0 .. 2, Opens(todo[1], b)
       PROVE  ~Inside(todo, b) /\ Inside(rest, b)
  <2>1. PICK j \in DOMAIN todo : j > 1 /\ Closes(todo[j], b)
    BY <1>3, <1>12 DEF GoodTodo
  <2>2. j - 1 \in 1 .. len /\ Closes(rest[j - 1], b)
    BY <1>2, <2>1
  <2>3. ASSUME NEW i \in 1 .. len PROVE ~Opens(rest[i], b)
    <3> SUFFICES ASSUME Opens(todo[i + 1], b) PROVE FALSE
      BY <1>2
    <3>1. i + 1 = 1
      BY <1>3, <1>12 DEF GoodTodo
    <3> QED BY <3>1
  <2> QED BY <1>2, <1>3, <1>12, <2>2, <2>3 DEF Inside
<1>13. ASSUME NEW b \in 0 .. 2, ~Opens(todo[1], b), ~Closes(todo[1], b)
       PROVE  Inside(rest, b) <=> Inside(todo, b)
  <2>1. ASSUME Inside(rest, b) PROVE Inside(todo, b)
    <3>1. PICK j \in 1 .. len : Closes(rest[j], b)
      BY <1>2, <2>1 DEF Inside
    <3>2. j + 1 \in DOMAIN todo /\ Closes(todo[j + 1], b)
      BY <1>2, <1>3, <3>1
    <3>3. ASSUME NEW i \in DOMAIN todo PROVE ~Opens(todo[i], b)
      <4>1. CASE i = 1
        BY <1>13, <4>1
      <4>2. CASE i # 1
        <5>1. i - 1 \in 1 .. len /\ rest[i - 1] = todo[i]
          BY <1>2, <4>2
        <5> QED BY <1>2, <2>1, <5>1 DEF Inside
      <4> QED BY <4>1, <4>2
    <3> QED BY <3>2, <3>3 DEF Inside
  <2>2. ASSUME Inside(todo, b) PROVE Inside(rest, b)
    <3>1. PICK j \in DOMAIN todo : Closes(todo[j], b)
      BY <2>2 DEF Inside
    <3>2. j # 1
      BY <1>13, <3>1
    <3>3. j - 1 \in 1 .. len /\ Closes(rest[j - 1], b)
      BY <1>2, <3>1, <3>2
    <3>4. ASSUME NEW i \in 1 .. len PROVE ~Opens(rest[i], b)
      BY <1>2, <1>3, <2>2 DEF Inside
    <3> QED BY <1>2, <3>3, <3>4 DEF Inside
  <2> QED BY <2>1, <2>2
<1>14. ASSUME NEW i \in 1 .. len, rest[i].do = "again"
       PROVE  /\ \E j \in 1 .. len : j > i /\ Closes(rest[j], 0)
              /\ \A j \in 1 .. len : Opens(rest[j], 0) => j < i
  <2>1. i + 1 \in DOMAIN todo /\ todo[i + 1].do = "again"
    BY <1>2, <1>3, <1>14
  <2>2. PICK j \in DOMAIN todo : j > i + 1 /\ Closes(todo[j], 0)
    BY <1>9, <2>1
  <2>3. ASSUME NEW h \in 1 .. len, Opens(rest[h], 0) PROVE h < i
    <3>1. h + 1 < i + 1
      BY <1>2, <1>3, <1>9, <2>1, <2>3
    <3> QED BY <3>1
  <2>4. j - 1 \in 1 .. len /\ j - 1 > i /\ Closes(rest[j - 1], 0)
    BY <1>2, <2>2
  <2> QED BY <2>3, <2>4
<1>15. todo[1].do = "again" => Inside(todo, 0)
  <2> SUFFICES ASSUME todo[1].do = "again" PROVE Inside(todo, 0)
    OBVIOUS
  <2>1. PICK j \in DOMAIN todo : Closes(todo[j], 0)
    BY <1>3, <1>9
  <2>2. ASSUME NEW j2 \in DOMAIN todo PROVE ~Opens(todo[j2], 0)
    BY <1>2, <1>3, <1>9
  <2> QED BY <2>1, <2>2 DEF Inside
<1>16. GoodTodo(rest, m)
  <2>1. /\ \A i \in DOMAIN rest : rest[i].do = "var" => i = 1
        /\ \A b \in 0 .. 2, i \in DOMAIN rest : Opens(rest[i], b) =>
              /\ \E j \in DOMAIN rest : j > i /\ Closes(rest[j], b)
              /\ \A j \in DOMAIN rest : Opens(rest[j], b) => j = i
        /\ \A b \in 0 .. 2, i, j \in DOMAIN rest :
              Closes(rest[i], b) /\ Closes(rest[j], b) => i = j
    BY <1>2, <1>5, <1>7, <1>8
  <2>2. \A i \in DOMAIN rest : rest[i].do = "again" =>
              /\ \E j \in DOMAIN rest : j > i /\ Closes(rest[j], 0)
              /\ \A j \in DOMAIN rest : Opens(rest[j], 0) => j < i
    BY <1>2, <1>14
  <2> QED BY <1>6, <2>1, <2>2, Zenon DEF GoodTodo
<1> QED BY <1>2, <1>3, <1>4, <1>10, <1>11, <1>12, <1>13, <1>15, <1>16

-----------------------------------------------------------------------------
(* The activations *)

LEMMA ActParts ==
    ASSUME NEW wk \in Seq(Activation), wk # <<>>
    PROVE  /\ Len(wk) \in 1 .. Len(wk) /\ Len(wk) \in Nat /\ DOMAIN wk = 1 .. Len(wk)
           /\ \A d \in 1 .. Len(wk) :
                 /\ wk[d] \in Activation /\ wk[d].todo \in Seq(TaskType)
                 /\ wk[d].nodes \in Seq(Nodes)
                 /\ wk[d].pos \in [1 .. 2 -> Nat]
<1>1. Len(wk) \in Nat /\ Len(wk) # 0
  BY EmptySeq
<1>2. \A d \in 1 .. Len(wk) : wk[d] \in Activation
  OBVIOUS
<1> QED BY <1>1, <1>2 DEF Activation

(***************************************************************************)
(* The innermost activation changes; which structures it is inside of      *)
(* tells which holes and loops there are.                                  *)
(***************************************************************************)
Topped(wk2, wk, a) == wk2 = [wk EXCEPT ![Len(wk)] = a]

LEMMA LastAct ==
    ASSUME NEW n, NEW wk \in Seq(Activation), wk # <<>>, NEW a \in Activation, NEW wk2,
           Topped(wk2, wk, a), Activations(wk, n), GoodTodo(a.todo, n)
    PROVE  /\ wk2 \in Seq(Activation) /\ Activations(wk2, n)
           /\ InLoops(wk2) = IF Inside(a.todo, 0) THEN InLoops(wk) \cup {Len(wk)}
                             ELSE InLoops(wk) \ {Len(wk)}
<1>1. PICK top : top = Len(wk)
  OBVIOUS
<1>2. top \in 1 .. Len(wk) /\ DOMAIN wk = 1 .. Len(wk) /\ top \in Nat
  BY <1>1, ActParts
<1>3. /\ wk2 \in Seq(Activation) /\ Len(wk2) = Len(wk) /\ DOMAIN wk2 = 1 .. Len(wk)
      /\ wk2[top] = a /\ \A d \in 1 .. Len(wk) : d # top => wk2[d] = wk[d]
  BY <1>1, <1>2, UpdateSeq DEF Topped
<1>4. Activations(wk2, n)
  BY <1>2, <1>3 DEF Activations
<1>5. InLoops(wk2) = IF Inside(a.todo, 0) THEN InLoops(wk) \cup {top} ELSE InLoops(wk) \ {top}
  <2>1. InLoops(wk2) = {d \in 1 .. Len(wk) : Inside(wk2[d].todo, 0)}
        /\ InLoops(wk) = {d \in 1 .. Len(wk) : Inside(wk[d].todo, 0)}
    BY <1>2, <1>3 DEF InLoops
  <2> QED BY <1>2, <1>3, <2>1
<1> QED BY <1>1, <1>3, <1>4, <1>5

LEMMA LastParts ==
    ASSUME NEW wk \in Seq(Activation), wk # <<>>, NEW a \in Activation, NEW wk2,
           Topped(wk2, wk, a), NEW p
    PROVE  /\ p \in HolesIn(wk) <=>
                 \/ \E d \in 1 .. Len(wk), k \in 1 .. 2 :
                       d # Len(wk) /\ Inside(wk[d].todo, k) /\ p = wk[d].pos[k]
                 \/ \E k \in 1 .. 2 : Inside(wk[Len(wk)].todo, k) /\ p = wk[Len(wk)].pos[k]
           /\ p \in HolesIn(wk2) <=>
                 \/ \E d \in 1 .. Len(wk), k \in 1 .. 2 :
                       d # Len(wk) /\ Inside(wk[d].todo, k) /\ p = wk[d].pos[k]
                 \/ \E k \in 1 .. 2 : Inside(a.todo, k) /\ p = a.pos[k]
<1>1. PICK top : top = Len(wk)
  OBVIOUS
<1>2. top \in 1 .. Len(wk) /\ DOMAIN wk = 1 .. Len(wk) /\ top \in Nat
  BY <1>1, ActParts
<1>3. /\ wk2 \in Seq(Activation) /\ Len(wk2) = Len(wk) /\ DOMAIN wk2 = 1 .. Len(wk)
      /\ wk2[top] = a /\ \A d \in 1 .. Len(wk) : d # top => wk2[d] = wk[d]
  BY <1>1, <1>2, UpdateSeq DEF Topped
<1>4. p \in HolesIn(wk) <=>
         \E d \in 1 .. Len(wk), k \in 1 .. 2 : Inside(wk[d].todo, k) /\ p = wk[d].pos[k]
  BY <1>2 DEF HolesIn
<1>5. p \in HolesIn(wk2) <=>
         \E d \in 1 .. Len(wk), k \in 1 .. 2 : Inside(wk2[d].todo, k) /\ p = wk2[d].pos[k]
  <2>1. p \in HolesIn(wk2) <=>
           \E d \in DOMAIN wk2, k \in 1 .. 2 : Inside(wk2[d].todo, k) /\ p = wk2[d].pos[k]
    BY DEF HolesIn
  <2>2. DOMAIN wk2 = 1 .. Len(wk)
    BY <1>3
  <2> QED BY <2>1, <2>2, Zenon
<1>6. (\E d \in 1 .. Len(wk), k \in 1 .. 2 : Inside(wk[d].todo, k) /\ p = wk[d].pos[k])
      <=> \/ \E d \in 1 .. Len(wk), k \in 1 .. 2 :
                d # top /\ Inside(wk[d].todo, k) /\ p = wk[d].pos[k]
          \/ \E k \in 1 .. 2 : Inside(wk[top].todo, k) /\ p = wk[top].pos[k]
  BY <1>2
<1>7. (\E d \in 1 .. Len(wk), k \in 1 .. 2 : Inside(wk2[d].todo, k) /\ p = wk2[d].pos[k])
      <=> \/ \E d \in 1 .. Len(wk), k \in 1 .. 2 :
                d # top /\ Inside(wk[d].todo, k) /\ p = wk[d].pos[k]
          \/ \E k \in 1 .. 2 : Inside(a.todo, k) /\ p = a.pos[k]
  BY <1>2, <1>3
<1> QED BY <1>1, <1>4, <1>5, <1>6, <1>7

LEMMA LastSame ==
    ASSUME NEW wk \in Seq(Activation), wk # <<>>, NEW a \in Activation, NEW wk2,
           Topped(wk2, wk, a), a.pos = wk[Len(wk)].pos,
           \A k \in 1 .. 2 : Inside(a.todo, k) <=> Inside(wk[Len(wk)].todo, k)
    PROVE  HolesIn(wk2) = HolesIn(wk)
<1>1. \A p : p \in HolesIn(wk2) <=> p \in HolesIn(wk)
  <2> SUFFICES ASSUME NEW p PROVE p \in HolesIn(wk2) <=> p \in HolesIn(wk)
    OBVIOUS
  <2>1. /\ p \in HolesIn(wk) <=>
              \/ \E d \in 1 .. Len(wk), k \in 1 .. 2 :
                    d # Len(wk) /\ Inside(wk[d].todo, k) /\ p = wk[d].pos[k]
              \/ \E k \in 1 .. 2 : Inside(wk[Len(wk)].todo, k) /\ p = wk[Len(wk)].pos[k]
        /\ p \in HolesIn(wk2) <=>
              \/ \E d \in 1 .. Len(wk), k \in 1 .. 2 :
                    d # Len(wk) /\ Inside(wk[d].todo, k) /\ p = wk[d].pos[k]
              \/ \E k \in 1 .. 2 : Inside(a.todo, k) /\ p = a.pos[k]
    BY LastParts
  <2> QED BY <2>1
<1> QED BY <1>1

LEMMA LastHole ==
    ASSUME NEW wk \in Seq(Activation), wk # <<>>, NEW a \in Activation, NEW wk2,
           Topped(wk2, wk, a), NEW j \in 1 .. 2,
           \A k \in 1 .. 2 : k # j => a.pos[k] = wk[Len(wk)].pos[k],
           \A k \in 1 .. 2 : k # j => (Inside(a.todo, k) <=> Inside(wk[Len(wk)].todo, k)),
           ~Inside(wk[Len(wk)].todo, j), Inside(a.todo, j)
    PROVE  HolesIn(wk2) = HolesIn(wk) \cup {a.pos[j]}
<1>1. \A p : p \in HolesIn(wk2) <=> p \in HolesIn(wk) \/ p = a.pos[j]
  <2> SUFFICES ASSUME NEW p PROVE p \in HolesIn(wk2) <=> p \in HolesIn(wk) \/ p = a.pos[j]
    OBVIOUS
  <2>1. /\ p \in HolesIn(wk) <=>
              \/ \E d \in 1 .. Len(wk), k \in 1 .. 2 :
                    d # Len(wk) /\ Inside(wk[d].todo, k) /\ p = wk[d].pos[k]
              \/ \E k \in 1 .. 2 : Inside(wk[Len(wk)].todo, k) /\ p = wk[Len(wk)].pos[k]
        /\ p \in HolesIn(wk2) <=>
              \/ \E d \in 1 .. Len(wk), k \in 1 .. 2 :
                    d # Len(wk) /\ Inside(wk[d].todo, k) /\ p = wk[d].pos[k]
              \/ \E k \in 1 .. 2 : Inside(a.todo, k) /\ p = a.pos[k]
    BY LastParts
  <2> QED BY <2>1
<1> QED BY <1>1

LEMMA LastFilled ==
    ASSUME NEW wk \in Seq(Activation), wk # <<>>, NEW a \in Activation, NEW wk2,
           Topped(wk2, wk, a), NEW j \in 1 .. 2, a.pos = wk[Len(wk)].pos,
           \A k \in 1 .. 2 : k # j => (Inside(a.todo, k) <=> Inside(wk[Len(wk)].todo, k)),
           Inside(wk[Len(wk)].todo, j), ~Inside(a.todo, j)
    PROVE  /\ wk[Len(wk)].pos[j] \in HolesIn(wk)
           /\ HolesIn(wk2) \subseteq HolesIn(wk)
           /\ HolesIn(wk) \subseteq HolesIn(wk2) \cup {wk[Len(wk)].pos[j]}
<1>1. wk[Len(wk)].pos[j] \in HolesIn(wk)
  <2>1. Len(wk) \in DOMAIN wk
    BY ActParts
  <2> QED BY <2>1 DEF HolesIn
<1>2. \A p : p \in HolesIn(wk2) => p \in HolesIn(wk)
  <2> SUFFICES ASSUME NEW p PROVE p \in HolesIn(wk2) => p \in HolesIn(wk)
    OBVIOUS
  <2>1. /\ p \in HolesIn(wk) <=>
              \/ \E d \in 1 .. Len(wk), k \in 1 .. 2 :
                    d # Len(wk) /\ Inside(wk[d].todo, k) /\ p = wk[d].pos[k]
              \/ \E k \in 1 .. 2 : Inside(wk[Len(wk)].todo, k) /\ p = wk[Len(wk)].pos[k]
        /\ p \in HolesIn(wk2) <=>
              \/ \E d \in 1 .. Len(wk), k \in 1 .. 2 :
                    d # Len(wk) /\ Inside(wk[d].todo, k) /\ p = wk[d].pos[k]
              \/ \E k \in 1 .. 2 : Inside(a.todo, k) /\ p = a.pos[k]
    BY LastParts
  <2> QED BY <2>1
<1>3. \A p : p \in HolesIn(wk) => p \in HolesIn(wk2) \/ p = wk[Len(wk)].pos[j]
  <2> SUFFICES ASSUME NEW p PROVE p \in HolesIn(wk) => p \in HolesIn(wk2) \/ p = wk[Len(wk)].pos[j]
    OBVIOUS
  <2>1. /\ p \in HolesIn(wk) <=>
              \/ \E d \in 1 .. Len(wk), k \in 1 .. 2 :
                    d # Len(wk) /\ Inside(wk[d].todo, k) /\ p = wk[d].pos[k]
              \/ \E k \in 1 .. 2 : Inside(wk[Len(wk)].todo, k) /\ p = wk[Len(wk)].pos[k]
        /\ p \in HolesIn(wk2) <=>
              \/ \E d \in 1 .. Len(wk), k \in 1 .. 2 :
                    d # Len(wk) /\ Inside(wk[d].todo, k) /\ p = wk[d].pos[k]
              \/ \E k \in 1 .. 2 : Inside(a.todo, k) /\ p = a.pos[k]
    BY LastParts
  <2> QED BY <2>1
<1> QED BY <1>1, <1>2, <1>3

LEMMA NothingInside == \A b : ~Inside(<<>>, b)
<1>1. DOMAIN <<>> = {}
  OBVIOUS
<1> QED BY <1>1 DEF Inside

(* What the steps make of the activations.                                 *)
First(t, wk)     == wk[Len(wk)].todo # <<>> /\ t = Head(wk[Len(wk)].todo)
Counted(m, n, t) == /\ t.do = "var" => m = n + 1
                    /\ t.do # "var" => m = n
Advanced(wk2, wk)             == wk2 = [wk EXCEPT ![Len(wk)].todo = Tail(@)]
Jumped(wk2, wk, k, p)         == wk2 = [wk EXCEPT ![Len(wk)].todo = Tail(@),
                                                  ![Len(wk)].pos[k] = p]
Planned(wk2, wk, nodes, todo) ==
    wk2 = [wk EXCEPT ![Len(wk)] = [wk[Len(wk)] EXCEPT !.nodes = nodes, !.todo = todo]]

(* The first task of the innermost activation is done.                     *)
LEMMA WorkDone ==
    ASSUME NEW n \in Nat, NEW wk \in Seq(Activation), wk # <<>>, Activations(wk, n),
           NEW t, First(t, wk), NEW m, Counted(m, n, t),
           NEW wk2, Advanced(wk2, wk)
    PROVE  /\ wk2 \in Seq(Activation) /\ Activations(wk2, m) /\ TaskOK(t, m) /\ t \in TaskType
           /\ t.do \notin {"block", "unblock"} => InLoops(wk2) = InLoops(wk)
           /\ t.do = "block" => /\ InLoops(wk2) = InLoops(wk) \cup {Len(wk)}
                                /\ Len(wk) \notin InLoops(wk)
           /\ t.do = "unblock" => /\ InLoops(wk2) = InLoops(wk) \ {Len(wk)}
                                  /\ Len(wk) \in InLoops(wk)
           /\ t.do = "again" => Len(wk) \in InLoops(wk)
           /\ t.do \notin {"jump", "land"} => HolesIn(wk2) = HolesIn(wk)
           /\ t.do = "land" => /\ wk[Len(wk)].pos[t.k] \in HolesIn(wk)
                               /\ HolesIn(wk2) \subseteq HolesIn(wk)
                               /\ HolesIn(wk) \subseteq HolesIn(wk2) \cup {wk[Len(wk)].pos[t.k]}
<1>1. PICK top : top = Len(wk)
  OBVIOUS
<1>2. /\ top \in 1 .. Len(wk) /\ DOMAIN wk = 1 .. Len(wk) /\ wk[top] \in Activation
      /\ wk[top].todo \in Seq(TaskType)
  BY <1>1, ActParts
<1>3. PICK todo, rest, a :
         todo = wk[top].todo /\ rest = Tail(todo) /\ a = [wk[top] EXCEPT !.todo = rest]
  OBVIOUS
<1>4. todo \in Seq(TaskType) /\ todo # <<>> /\ t = todo[1] /\ GoodTodo(todo, n)
  BY <1>1, <1>2, <1>3 DEF Activations, First
<1>5. /\ rest \in Seq(TaskType) /\ GoodTodo(rest, m) /\ TaskOK(t, m)
      /\ \A b \in 0 .. 2 :
            /\ Inside(rest, b) <=> Opens(t, b) \/ (Inside(todo, b) /\ ~Closes(t, b))
            /\ Closes(t, b) => Inside(todo, b)
            /\ Opens(t, b) => ~Inside(todo, b)
      /\ t.do = "again" => Inside(todo, 0)
  <2>1. PICK h : h = todo[1]
    OBVIOUS
  <2>2. m = IF todo[1].do = "var" THEN n + 1 ELSE n
    BY <1>4 DEF Counted
  <2>3. /\ rest \in Seq(TaskType) /\ GoodTodo(rest, m) /\ TaskOK(h, m)
        /\ \A b \in 0 .. 2 :
              /\ Inside(rest, b) <=> Opens(h, b) \/ (Inside(todo, b) /\ ~Closes(h, b))
              /\ Closes(h, b) => Inside(todo, b)
              /\ Opens(h, b) => ~Inside(todo, b)
        /\ h.do = "again" => Inside(todo, 0)
    BY <1>3, <1>4, <2>1, <2>2, RestGood
  <2> QED BY <1>4, <2>1, <2>3
<1>6. a \in Activation /\ a.todo = rest /\ a.pos = wk[top].pos
  BY <1>2, <1>3, <1>5 DEF Activation
<1>7. Topped(wk2, wk, a)
  BY <1>1, <1>3 DEF Topped, Advanced
<1>8. Activations(wk, m)
  <2>1. CASE t.do = "var"
    <3>1. \A d \in DOMAIN wk : GoodTodo(wk[d].todo, n + 1)
      BY ActParts, MoreVariables DEF Activations
    <3> QED BY <2>1, <3>1 DEF Activations, Counted
  <2>2. CASE t.do # "var"
    BY <2>2 DEF Counted
  <2> QED BY <2>1, <2>2
<1>9. /\ wk2 \in Seq(Activation) /\ Activations(wk2, m)
      /\ InLoops(wk2) = IF Inside(rest, 0) THEN InLoops(wk) \cup {top} ELSE InLoops(wk) \ {top}
  <2>1. GoodTodo(a.todo, m)
    BY <1>5, <1>6
  <2>2. /\ wk2 \in Seq(Activation) /\ Activations(wk2, m)
        /\ InLoops(wk2) = IF Inside(a.todo, 0) THEN InLoops(wk) \cup {Len(wk)}
                          ELSE InLoops(wk) \ {Len(wk)}
    BY <1>6, <1>7, <1>8, <2>1, LastAct, Zenon
  <2> QED BY <1>1, <1>6, <2>2
<1>10. top \in InLoops(wk) <=> Inside(todo, 0)
  BY <1>2, <1>3 DEF InLoops
<1>11. 0 \in 0 .. 2 /\ \A k \in 1 .. 2 : k \in 0 .. 2 /\ k # 0
  OBVIOUS
<1>12. t.do \notin {"block", "unblock"} => InLoops(wk2) = InLoops(wk)
  <2> SUFFICES ASSUME t.do \notin {"block", "unblock"} PROVE InLoops(wk2) = InLoops(wk)
    OBVIOUS
  <2>1. ~Opens(t, 0) /\ ~Closes(t, 0)
    BY DEF Opens, Closes
  <2>2. Inside(rest, 0) <=> Inside(todo, 0)
    BY <1>5, <1>11, <2>1
  <2> QED BY <1>9, <1>10, <2>2
<1>13. t.do = "block" => InLoops(wk2) = InLoops(wk) \cup {top} /\ top \notin InLoops(wk)
  <2> SUFFICES ASSUME t.do = "block"
               PROVE  InLoops(wk2) = InLoops(wk) \cup {top} /\ top \notin InLoops(wk)
    OBVIOUS
  <2>1. Opens(t, 0)
    BY DEF Opens
  <2> QED BY <1>5, <1>9, <1>10, <1>11, <2>1
<1>14. t.do = "unblock" => InLoops(wk2) = InLoops(wk) \ {top} /\ top \in InLoops(wk)
  <2> SUFFICES ASSUME t.do = "unblock"
               PROVE  InLoops(wk2) = InLoops(wk) \ {top} /\ top \in InLoops(wk)
    OBVIOUS
  <2>1. Closes(t, 0) /\ ~Opens(t, 0)
    BY DEF Closes, Opens
  <2> QED BY <1>5, <1>9, <1>10, <1>11, <2>1
<1>15. t.do \notin {"jump", "land"} => HolesIn(wk2) = HolesIn(wk)
  <2> SUFFICES ASSUME t.do \notin {"jump", "land"} PROVE HolesIn(wk2) = HolesIn(wk)
    OBVIOUS
  <2>1. \A k \in 1 .. 2 : ~Opens(t, k) /\ ~Closes(t, k)
    BY DEF Opens, Closes
  <2>2. \A k \in 1 .. 2 : Inside(a.todo, k) <=> Inside(wk[Len(wk)].todo, k)
    BY <1>1, <1>3, <1>5, <1>6, <1>11, <2>1
  <2>3. a.pos = wk[Len(wk)].pos
    BY <1>1, <1>6
  <2> QED BY <1>6, <1>7, <2>2, <2>3, LastSame
<1>16. t.do = "land" => /\ wk[top].pos[t.k] \in HolesIn(wk)
                        /\ HolesIn(wk2) \subseteq HolesIn(wk)
                        /\ HolesIn(wk) \subseteq HolesIn(wk2) \cup {wk[top].pos[t.k]}
  <2> SUFFICES ASSUME t.do = "land"
               PROVE  /\ wk[top].pos[t.k] \in HolesIn(wk)
                      /\ HolesIn(wk2) \subseteq HolesIn(wk)
                      /\ HolesIn(wk) \subseteq HolesIn(wk2) \cup {wk[top].pos[t.k]}
    OBVIOUS
  <2>1. t.k \in 1 .. 2
    BY <1>5 DEF TaskOK
  <2>2. \A k \in 1 .. 2 : ~Opens(t, k) /\ (Closes(t, k) <=> k = t.k)
    BY DEF Opens, Closes
  <2>3. Inside(todo, t.k) /\ ~Inside(rest, t.k)
        /\ \A k \in 1 .. 2 : k # t.k => (Inside(rest, k) <=> Inside(todo, k))
    BY <1>5, <1>11, <2>1, <2>2
  <2>4. /\ Inside(wk[Len(wk)].todo, t.k) /\ ~Inside(a.todo, t.k)
        /\ \A k \in 1 .. 2 : k # t.k => (Inside(a.todo, k) <=> Inside(wk[Len(wk)].todo, k))
        /\ a.pos = wk[Len(wk)].pos
    BY <1>1, <1>3, <1>6, <2>3
  <2>5. /\ wk[Len(wk)].pos[t.k] \in HolesIn(wk)
        /\ HolesIn(wk2) \subseteq HolesIn(wk)
        /\ HolesIn(wk) \subseteq HolesIn(wk2) \cup {wk[Len(wk)].pos[t.k]}
    BY <1>6, <1>7, <2>1, <2>4, LastFilled, Zenon
  <2> QED BY <1>1, <2>5
<1>17. t.do = "again" => top \in InLoops(wk)
  BY <1>5, <1>10
<1>18. t \in TaskType
  BY <1>4
<1> QED BY <1>1, <1>5, <1>9, <1>12, <1>13, <1>14, <1>15, <1>16, <1>17, <1>18

(* So it is, and it left a hole at p.                                      *)
LEMMA WorkJump ==
    ASSUME NEW n \in Nat, NEW wk \in Seq(Activation), wk # <<>>, Activations(wk, n),
           NEW t, First(t, wk), t.do = "jump",
           NEW p \in Nat,
           NEW wk2, Jumped(wk2, wk, t.k, p)
    PROVE  /\ wk2 \in Seq(Activation) /\ Activations(wk2, n) /\ TaskOK(t, n) /\ t \in TaskType
           /\ InLoops(wk2) = InLoops(wk) /\ HolesIn(wk2) = HolesIn(wk) \cup {p}
<1>1. PICK top : top = Len(wk)
  OBVIOUS
<1>2. /\ top \in 1 .. Len(wk) /\ DOMAIN wk = 1 .. Len(wk) /\ wk[top] \in Activation
      /\ wk[top].todo \in Seq(TaskType) /\ wk[top].pos \in [1 .. 2 -> Nat]
  BY <1>1, ActParts
<1>3. PICK todo, rest, a :
         todo = wk[top].todo /\ rest = Tail(todo)
         /\ a = [wk[top] EXCEPT !.todo = rest, !.pos[t.k] = p]
  OBVIOUS
<1>4. todo \in Seq(TaskType) /\ todo # <<>> /\ t = todo[1] /\ GoodTodo(todo, n)
  BY <1>1, <1>2, <1>3 DEF Activations, First
<1>5. /\ rest \in Seq(TaskType) /\ GoodTodo(rest, n) /\ TaskOK(t, n)
      /\ \A b \in 0 .. 2 :
            /\ Inside(rest, b) <=> Opens(t, b) \/ (Inside(todo, b) /\ ~Closes(t, b))
            /\ Opens(t, b) => ~Inside(todo, b)
  <2>1. PICK h, m : h = todo[1] /\ m = n
    OBVIOUS
  <2>2. m = IF todo[1].do = "var" THEN n + 1 ELSE n
    BY <1>4, <2>1
  <2>3. /\ rest \in Seq(TaskType) /\ GoodTodo(rest, m) /\ TaskOK(h, m)
        /\ \A b \in 0 .. 2 :
              /\ Inside(rest, b) <=> Opens(h, b) \/ (Inside(todo, b) /\ ~Closes(h, b))
              /\ Closes(h, b) => Inside(todo, b)
              /\ Opens(h, b) => ~Inside(todo, b)
        /\ h.do = "again" => Inside(todo, 0)
    <3>1. h = todo[1] /\ rest = Tail(todo)
      BY <1>3, <2>1
    <3>2. todo \in Seq(TaskType) /\ todo # <<>> /\ GoodTodo(todo, n)
      BY <1>4
    <3> QED BY <2>2, <3>1, <3>2, RestGood
  <2> QED BY <1>4, <2>1, <2>3
<1>6. t.k \in 1 .. 2
  BY <1>5 DEF TaskOK
<1>7. /\ a \in Activation /\ a.todo = rest /\ a.pos[t.k] = p
      /\ \A k \in 1 .. 2 : k # t.k => a.pos[k] = wk[top].pos[k]
  BY <1>2, <1>3, <1>5, <1>6 DEF Activation
<1>8. Topped(wk2, wk, a)
  BY <1>1, <1>2, <1>3 DEF Activation, Topped, Jumped
<1>9. 0 \in 0 .. 2 /\ \A k \in 1 .. 2 : k \in 0 .. 2 /\ k # 0
  OBVIOUS
<1>10. /\ ~Opens(t, 0) /\ ~Closes(t, 0)
       /\ \A k \in 1 .. 2 : (Opens(t, k) <=> k = t.k) /\ ~Closes(t, k)
  BY DEF Opens, Closes
<1>11. /\ Inside(rest, 0) <=> Inside(todo, 0)
       /\ ~Inside(todo, t.k) /\ Inside(rest, t.k)
       /\ \A k \in 1 .. 2 : k # t.k => (Inside(rest, k) <=> Inside(todo, k))
  BY <1>5, <1>6, <1>9, <1>10
<1>12. /\ wk2 \in Seq(Activation) /\ Activations(wk2, n)
       /\ InLoops(wk2) = IF Inside(rest, 0) THEN InLoops(wk) \cup {top} ELSE InLoops(wk) \ {top}
       /\ HolesIn(wk2) = HolesIn(wk) \cup {p}
  <2>1. GoodTodo(a.todo, n)
    BY <1>5, <1>7
  <2>2. /\ \A k \in 1 .. 2 : k # t.k => a.pos[k] = wk[Len(wk)].pos[k]
        /\ \A k \in 1 .. 2 : k # t.k => (Inside(a.todo, k) <=> Inside(wk[Len(wk)].todo, k))
    BY <1>1, <1>3, <1>7, <1>11
  <2>3. ~Inside(wk[Len(wk)].todo, t.k) /\ Inside(a.todo, t.k)
    BY <1>1, <1>3, <1>7, <1>11
  <2>4. /\ wk2 \in Seq(Activation) /\ Activations(wk2, n)
        /\ InLoops(wk2) = IF Inside(a.todo, 0) THEN InLoops(wk) \cup {Len(wk)}
                          ELSE InLoops(wk) \ {Len(wk)}
    BY <1>7, <1>8, <2>1, LastAct, Zenon
  <2>5. HolesIn(wk2) = HolesIn(wk) \cup {a.pos[t.k]}
    <3>1. a \in Activation
      BY <1>7
    <3> QED BY <1>6, <1>8, <2>2, <2>3, <3>1, LastHole
  <2> QED BY <1>1, <1>7, <2>4, <2>5
<1>13. top \in InLoops(wk) <=> Inside(todo, 0)
  BY <1>2, <1>3 DEF InLoops
<1>14. InLoops(wk2) = InLoops(wk)
  BY <1>11, <1>12, <1>13
<1>15. t \in TaskType
  BY <1>4
<1> QED BY <1>5, <1>12, <1>14, <1>15

(* The plan of its next node is taken up; another activation begins or one *)
(* ends.                                                                   *)
LEMMA WorkPlan ==
    ASSUME NEW n, NEW wk \in Seq(Activation), wk # <<>>, Activations(wk, n),
           wk[Len(wk)].todo = <<>>, NEW nodes \in Seq(Nodes), NEW todo \in Seq(TaskType),
           GoodTodo(todo, n), \A b \in 0 .. 2 : ~Inside(todo, b), NEW wk2,
           Planned(wk2, wk, nodes, todo)
    PROVE  /\ wk2 \in Seq(Activation) /\ Activations(wk2, n)
           /\ InLoops(wk2) = InLoops(wk) /\ HolesIn(wk2) = HolesIn(wk)
<1>1. PICK top, a : top = Len(wk) /\ a = [wk[top] EXCEPT !.nodes = nodes, !.todo = todo]
  OBVIOUS
<1>2. top \in 1 .. Len(wk) /\ DOMAIN wk = 1 .. Len(wk) /\ wk[top] \in Activation
  BY <1>1, ActParts
<1>3. a \in Activation /\ a.todo = todo /\ a.pos = wk[top].pos
  BY <1>1, <1>2 DEF Activation
<1>4. Topped(wk2, wk, a) /\ GoodTodo(a.todo, n)
  BY <1>1, <1>2, <1>3 DEF Topped, Planned
<1>5. \A b \in 0 .. 2 : ~Inside(a.todo, b) /\ ~Inside(wk[top].todo, b)
  BY <1>1, <1>3, NothingInside
<1>6. ~Inside(a.todo, 0) /\ ~Inside(wk[top].todo, 0)
      /\ \A k \in 1 .. 2 : ~Inside(a.todo, k) /\ ~Inside(wk[Len(wk)].todo, k)
  <2>1. 0 \in 0 .. 2 /\ \A k \in 1 .. 2 : k \in 0 .. 2
    OBVIOUS
  <2> QED BY <1>1, <1>5, <2>1
<1>7. /\ wk2 \in Seq(Activation) /\ Activations(wk2, n)
      /\ InLoops(wk2) = IF Inside(a.todo, 0) THEN InLoops(wk) \cup {Len(wk)}
                        ELSE InLoops(wk) \ {Len(wk)}
  BY <1>3, <1>4, LastAct, Zenon
<1>8. top \notin InLoops(wk)
  BY <1>6 DEF InLoops
<1>9. HolesIn(wk2) = HolesIn(wk)
  BY <1>1, <1>3, <1>4, <1>6, LastSame
<1> QED BY <1>1, <1>6, <1>7, <1>8, <1>9

LEMMA WorkPush ==
    ASSUME NEW n, NEW wk \in Seq(Activation), Activations(wk, n), NEW nodes \in Seq(Nodes),
           NEW wk2, wk2 = Append(wk, Listing(nodes))
    PROVE  /\ wk2 \in Seq(Activation) /\ wk2 # <<>> /\ Activations(wk2, n)
           /\ InLoops(wk2) = InLoops(wk) /\ HolesIn(wk2) = HolesIn(wk)
<1>1. PICK a : a = Listing(nodes)
  OBVIOUS
<1>2. a \in Activation /\ a.todo = <<>>
  <2>1. <<0, 0>> \in [1 .. 2 -> Nat] /\ <<>> \in Seq(TaskType)
    OBVIOUS
  <2> QED BY <1>1, <2>1 DEF Listing, Activation
<1>3. /\ wk2 \in Seq(Activation) /\ Len(wk2) = Len(wk) + 1 /\ DOMAIN wk2 = 1 .. Len(wk) + 1
      /\ DOMAIN wk = 1 .. Len(wk) /\ Len(wk) \in Nat
      /\ wk2[Len(wk) + 1] = a /\ \A d \in 1 .. Len(wk) : wk2[d] = wk[d]
  BY <1>1, <1>2, AppendSeq
<1>4. GoodTodo(a.todo, n) /\ \A b : ~Inside(a.todo, b)
  <2>1. DOMAIN a.todo = {}
    BY <1>2
  <2> QED BY <1>2, <2>1, NothingInside DEF GoodTodo
<1>5. Activations(wk2, n)
  <2> SUFFICES ASSUME NEW d \in 1 .. Len(wk) + 1 PROVE GoodTodo(wk2[d].todo, n)
    BY <1>3 DEF Activations
  <2>1. CASE d = Len(wk) + 1
    BY <1>3, <1>4, <2>1
  <2>2. CASE d # Len(wk) + 1
    BY <1>3, <2>2 DEF Activations
  <2> QED BY <2>1, <2>2
<1>6. \A d \in 1 .. Len(wk) + 1, b \in 0 .. 2 :
         Inside(wk2[d].todo, b) <=> d \in 1 .. Len(wk) /\ Inside(wk[d].todo, b)
  BY <1>3, <1>4
<1>7. InLoops(wk2) = InLoops(wk)
  BY <1>3, <1>6 DEF InLoops
<1>8. \A p : p \in HolesIn(wk2) <=> p \in HolesIn(wk)
  <2> SUFFICES ASSUME NEW p PROVE p \in HolesIn(wk2) <=> p \in HolesIn(wk)
    OBVIOUS
  <2>1. p \in HolesIn(wk2) <=> \E d \in 1 .. Len(wk) + 1, k \in 1 .. 2 :
                                  Inside(wk2[d].todo, k) /\ p = wk2[d].pos[k]
    <3>1. p \in HolesIn(wk2) <=> \E d \in DOMAIN wk2, k \in 1 .. 2 :
                                    Inside(wk2[d].todo, k) /\ p = wk2[d].pos[k]
      BY DEF HolesIn
    <3> QED BY <1>3, <3>1, Zenon
  <2>2. p \in HolesIn(wk) <=> \E d \in 1 .. Len(wk), k \in 1 .. 2 :
                                 Inside(wk[d].todo, k) /\ p = wk[d].pos[k]
    <3>1. p \in HolesIn(wk) <=> \E d \in DOMAIN wk, k \in 1 .. 2 :
                                   Inside(wk[d].todo, k) /\ p = wk[d].pos[k]
      BY DEF HolesIn
    <3> QED BY <1>3, <3>1, Zenon
  <2>3. \A d \in 1 .. Len(wk) : d \in 1 .. Len(wk) + 1 /\ wk2[d] = wk[d]
    BY <1>3
  <2>4. \A k \in 1 .. 2 : k \in 0 .. 2
    OBVIOUS
  <2> QED BY <1>6, <2>1, <2>2, <2>3, <2>4
<1>9. wk2 # <<>>
  BY <1>3
<1> QED BY <1>3, <1>5, <1>7, <1>8, <1>9

LEMMA WorkPop ==
    ASSUME NEW n, NEW wk \in Seq(Activation), wk # <<>>, Activations(wk, n),
           wk[Len(wk)].todo = <<>>, NEW wk2, wk2 = Front(wk)
    PROVE  /\ wk2 \in Seq(Activation) /\ Activations(wk2, n)
           /\ InLoops(wk2) = InLoops(wk) /\ HolesIn(wk2) = HolesIn(wk)
<1>1. PICK top : top = Len(wk)
  OBVIOUS
<1>2. top \in Nat /\ top > 0 /\ DOMAIN wk = 1 .. top
  BY <1>1, ActParts
<1>3. /\ wk2 \in Seq(Activation) /\ DOMAIN wk2 = 1 .. top - 1
      /\ \A d \in 1 .. top - 1 : wk2[d] = wk[d] /\ d \in 1 .. top
  BY <1>1, <1>2, PrefixSeq DEF Front
<1>4. \A b : ~Inside(wk[top].todo, b)
  BY <1>1, NothingInside
<1>5. Activations(wk2, n)
  BY <1>2, <1>3 DEF Activations
<1>6. \A d \in 1 .. top, b \in 0 .. 2 :
         Inside(wk[d].todo, b) <=> d \in 1 .. top - 1 /\ Inside(wk2[d].todo, b)
  BY <1>2, <1>3, <1>4
<1>7. InLoops(wk2) = InLoops(wk)
  BY <1>2, <1>3, <1>6 DEF InLoops
<1>8. \A p : p \in HolesIn(wk2) <=> p \in HolesIn(wk)
  <2> SUFFICES ASSUME NEW p PROVE p \in HolesIn(wk2) <=> p \in HolesIn(wk)
    OBVIOUS
  <2>1. p \in HolesIn(wk2) <=> \E d \in 1 .. top - 1, k \in 1 .. 2 :
                                  Inside(wk2[d].todo, k) /\ p = wk2[d].pos[k]
    <3>1. p \in HolesIn(wk2) <=> \E d \in DOMAIN wk2, k \in 1 .. 2 :
                                    Inside(wk2[d].todo, k) /\ p = wk2[d].pos[k]
      BY DEF HolesIn
    <3> QED BY <1>3, <3>1, Zenon
  <2>2. p \in HolesIn(wk) <=> \E d \in 1 .. top, k \in 1 .. 2 :
                                 Inside(wk[d].todo, k) /\ p = wk[d].pos[k]
    <3>1. p \in HolesIn(wk) <=> \E d \in DOMAIN wk, k \in 1 .. 2 :
                                   Inside(wk[d].todo, k) /\ p = wk[d].pos[k]
      BY DEF HolesIn
    <3> QED BY <1>2, <3>1, Zenon
  <2>3. \A k \in 1 .. 2 : k \in 0 .. 2
    OBVIOUS
  <2> QED BY <1>3, <1>6, <2>1, <2>2, <2>3
<1> QED BY <1>3, <1>5, <1>7, <1>8

-----------------------------------------------------------------------------
(* The buffer *)

(* A value comes right behind an opcode.                                   *)
Rowed(w) == w \in Seq(WordType) /\ \A i \in 1 .. Len(w) :
               w[i].word = "value" => i > 1 /\ w[i - 1].word # "value"

LEMMA RowedWords ==
    /\ \A w, n : GoodWords(w, n) => Rowed(w)
    /\ \A op \in JumpOp, x \in Int : Rowed(One(op, x)) /\ Len(One(op, x)) = 2
<1>1. \A w, n : GoodWords(w, n) => Rowed(w)
  BY DEF GoodWords, Rowed
<1>2. ASSUME NEW op \in JumpOp, NEW x \in Int PROVE Rowed(One(op, x)) /\ Len(One(op, x)) = 2
  <2>1. op \in Opcode
    BY DEF JumpOp, Opcode
  <2>2. Op(op) \in WordType /\ Arg(x) \in WordType /\ Op(op).word = "op" /\ Arg(x).word = "arg"
    BY <2>1, NilType, WordTypes
  <2>3. PICK a, b, w : a = Op(op) /\ b = Arg(x) /\ w = <<a, b>>
    OBVIOUS
  <2>4. w \in Seq(WordType) /\ Len(w) = 2 /\ w[1].word = "op" /\ w[2].word = "arg"
    BY <2>2, <2>3
  <2>5. \A i \in 1 .. Len(w) : w[i].word # "value"
    <3>1. \A i \in 1 .. Len(w) : i = 1 \/ i = 2
      BY <2>4
    <3> QED BY <2>4, <3>1
  <2> HIDE DEF WordType
  <2>6. Rowed(w) /\ Len(w) = 2
    BY <2>4, <2>5 DEF Rowed
  <2> QED BY <2>3, <2>6 DEF One
<1> QED BY <1>1, <1>2

BufferState == [count : Nat, room : Nat, over : BOOLEAN]

LEMMA PlaceType ==
    ASSUME block_chunk \in Nat, NEW b \in BufferState, NEW w
    PROVE  /\ Place(b, w) \in BufferState
           /\ Place(b, w).count = b.count + 1
           /\ block_chunk >= 2 /\ ~b.over /\ b.count <= b.room
              /\ (w.word = "value" => b.count < b.room)
              => /\ ~Place(b, w).over /\ Place(b, w).count <= Place(b, w).room
                 /\ w.word # "value" => Place(b, w).count < Place(b, w).room
<1>1. PICK tight : tight = (w.word # "value" /\ IsTight(b.count, b.room))
  OBVIOUS
<1>2. PICK room : room = IF tight THEN b.room + block_chunk ELSE b.room
  OBVIOUS
<1>3. /\ b.count \in Nat /\ b.room \in Nat /\ b.over \in BOOLEAN
  BY DEF BufferState
<1>4. Place(b, w) = [count |-> b.count + 1, room |-> room,
                     over |-> b.over \/ b.count + 1 > room]
  BY <1>1, <1>2 DEF Place
<1>5. room \in Nat
  BY <1>2, <1>3
<1>6. Place(b, w) \in BufferState
  <2>1. (b.over \/ b.count + 1 > room) \in BOOLEAN
    OBVIOUS
  <2> QED BY <1>3, <1>4, <1>5, <2>1 DEF BufferState
<1>7. /\ Place(b, w).count = b.count + 1 /\ Place(b, w).room = room
      /\ Place(b, w).over = (b.over \/ b.count + 1 > room)
  BY <1>4
<1>8. ASSUME block_chunk >= 2, ~b.over, b.count <= b.room,
             w.word = "value" => b.count < b.room
      PROVE  /\ ~(b.count + 1 > room)
             /\ w.word # "value" => b.count + 1 < room
  <2>1. CASE w.word = "value"
    <3>1. room = b.room
      BY <1>1, <1>2, <2>1
    <3> QED BY <1>3, <1>8, <2>1, <3>1
  <2>2. CASE w.word # "value" /\ tight
    <3>1. room = b.room + block_chunk
      BY <1>2, <2>2
    <3> QED BY <1>3, <1>8, <3>1
  <2>3. CASE w.word # "value" /\ ~tight
    <3>1. room = b.room /\ ~(b.count >= b.room - 1)
      BY <1>1, <1>2, <2>3 DEF IsTight
    <3> QED BY <1>3, <3>1
  <2> QED BY <2>1, <2>2, <2>3
<1>9. ASSUME block_chunk >= 2, ~b.over, b.count <= b.room,
             w.word = "value" => b.count < b.room
      PROVE  /\ ~Place(b, w).over /\ Place(b, w).count <= Place(b, w).room
             /\ w.word # "value" => Place(b, w).count < Place(b, w).room
  <2>1. b.count + 1 <= room
    BY <1>3, <1>5, <1>8, <1>9
  <2> QED BY <1>7, <1>8, <1>9, <2>1
<1> QED BY <1>6, <1>7, <1>9

(* What adding words does to the buffer.                                   *)
LEMMA AddToParts ==
    ASSUME NEW cells \in Seq(WordType), NEW words, Rowed(words), size \in Nat,
           block_chunk \in Nat, NEW then, AddTo(cells, words, then)
    PROVE  /\ code' = cells \o words /\ size' \in Nat
           /\ lines' = lines \o [i \in 1 .. Len(words) |-> last_line]
           /\ status' \in {"overrun", then}
           /\ block_chunk >= 2 /\ Len(cells) <= size =>
                 status' = then /\ Len(cells) + Len(words) <= size'
<1>1. PICK n : n = Len(words)
  OBVIOUS
<1>2. n \in Nat /\ words \in Seq(WordType) /\ Len(cells) \in Nat
  BY <1>1 DEF Rowed
<1>3. PICK base : base = [count |-> Len(cells), room |-> size, over |-> FALSE]
  OBVIOUS
<1>4. /\ base \in BufferState /\ base.count = Len(cells) /\ base.room = size /\ ~base.over
  BY <1>2, <1>3 DEF BufferState
<1>5. PICK F : /\ F \in [(1 .. n) \X BufferState -> BufferState]
               /\ \A k \in 1 .. n, b \in BufferState : F[<<k, b>>] = Place(b, words[k])
  <2> DEFINE G == [x \in (1 .. n) \X BufferState |-> Place(x[2], words[x[1]])]
  <2>1. G \in [(1 .. n) \X BufferState -> BufferState]
    BY PlaceType
  <2>2. \A k \in 1 .. n, b \in BufferState : G[<<k, b>>] = Place(b, words[k])
    OBVIOUS
  <2> HIDE DEF G
  <2> QED BY <2>1, <2>2
<1>6. F \in [(1 .. n) \X BufferState -> BufferState] /\ n \in Nat /\ base \in BufferState
  BY <1>2, <1>4, <1>5
<1>7. PICK f \in [0 .. n -> BufferState] : Folding(f, n, base, F)
  BY <1>6, FoldExists
<1>8. f = [k \in 0 .. n |-> IF k = 0 THEN base ELSE F[<<k, f[k - 1]>>]]
  BY <1>7 DEF Folding
<1>9. \A k \in 1 .. n : f[k - 1] \in BufferState /\ f[k] = Place(f[k - 1], words[k])
  <2> SUFFICES ASSUME NEW k \in 1 .. n
               PROVE  f[k - 1] \in BufferState /\ f[k] = Place(f[k - 1], words[k])
    OBVIOUS
  <2>1. k - 1 \in 0 .. n /\ k \in 0 .. n /\ k # 0
    BY <1>2
  <2>2. f[k - 1] \in BufferState
    BY <1>8, <2>1
  <2>3. f[k] = F[<<k, f[k - 1]>>]
    BY <1>8, <2>1
  <2> QED BY <1>5, <2>2, <2>3
<1>10. f[0] = base
  BY <1>2, <1>8
<1> DEFINE Steps(g) == g = [k \in 0 .. n |-> IF k = 0 THEN base ELSE Place(g[k - 1], words[k])]
           after == CHOOSE g : Steps(g)
<1>11. Steps(f)
  <2>1. \A k \in 0 .. n : f[k] = IF k = 0 THEN base ELSE Place(f[k - 1], words[k])
    BY <1>2, <1>9, <1>10
  <2> QED BY <1>8, <2>1
<1>12. Steps(after)
  <2> HIDE DEF Steps
  <2> QED BY <1>11
<1>13. /\ code' = cells \o words
       /\ size' = after[n].room
       /\ lines' = lines \o [i \in 1 .. n |-> last_line]
       /\ status' = IF after[n].over THEN "overrun" ELSE then
  BY <1>1, <1>3 DEF AddTo
<1> HIDE DEF Steps, after
<1>14. after \in [0 .. n -> BufferState]
  <2> DEFINE T == {k \in Nat : k <= n => after[k] \in BufferState}
  <2>1. after = [k \in 0 .. n |-> IF k = 0 THEN base ELSE Place(after[k - 1], words[k])]
    BY <1>12 DEF Steps
  <2>2. 0 \in T
    BY <1>2, <1>4, <2>1
  <2>3. ASSUME NEW k \in Nat, k \in T PROVE k + 1 \in T
    <3> SUFFICES ASSUME k + 1 <= n PROVE after[k + 1] \in BufferState
      OBVIOUS
    <3>1. k + 1 \in 0 .. n /\ k + 1 # 0 /\ (k + 1) - 1 = k /\ after[k] \in BufferState
      BY <1>2, <2>3
    <3>2. after[k + 1] = Place(after[k], words[k + 1])
      BY <2>1, <3>1
    <3> QED BY <3>1, <3>2, PlaceType
  <2> HIDE DEF T
  <2>4. Nat \subseteq T
    BY <2>2, <2>3, NatSetInduction
  <2>5. \A k \in 0 .. n : after[k] \in BufferState
    BY <1>2, <2>4 DEF T
  <2> QED BY <2>1, <2>5
<1>15. /\ after[0] = base
       /\ \A k \in 1 .. n : after[k] = Place(after[k - 1], words[k])
  BY <1>2, <1>12 DEF Steps
<1>16. size' \in Nat
  <2>1. after[n] \in BufferState
    BY <1>2, <1>14
  <2> QED BY <1>13, <2>1 DEF BufferState
<1>17. status' \in {"overrun", then}
  BY <1>13
<1>18. ASSUME block_chunk >= 2, Len(cells) <= size
       PROVE  status' = then /\ Len(cells) + Len(words) <= size'
  <2> DEFINE Fits(k) == /\ ~after[k].over /\ after[k].count = Len(cells) + k
                        /\ after[k].count <= after[k].room
                        /\ k > 0 /\ words[k].word # "value" => after[k].count < after[k].room
             T == {k \in Nat : k <= n => Fits(k)}
  <2>1. Fits(0)
    BY <1>2, <1>4, <1>15, <1>18
  <2>2. ASSUME NEW k \in Nat, k + 1 <= n, Fits(k) PROVE Fits(k + 1)
    <3>1. k + 1 \in 1 .. n /\ (k + 1) - 1 = k /\ after[k] \in BufferState
      <4>1. k \in 0 .. n
        BY <1>2, <2>2
      <4> QED BY <1>2, <1>14, <2>2, <4>1
    <3>2. after[k + 1] = Place(after[k], words[k + 1])
      BY <1>15, <3>1
    <3>3. after[k].count \in Nat /\ after[k].room \in Nat
      BY <3>1 DEF BufferState
    <3>4. words[k + 1].word = "value" => after[k].count < after[k].room
      <4> SUFFICES ASSUME words[k + 1].word = "value" PROVE after[k].count < after[k].room
        OBVIOUS
      <4>1. k + 1 > 1 /\ words[(k + 1) - 1].word # "value"
        BY <1>1, <3>1 DEF Rowed
      <4>2. k > 0 /\ words[k].word # "value"
        BY <3>1, <4>1
      <4> QED BY <2>2, <4>2
    <3>5. /\ ~Place(after[k], words[k + 1]).over
          /\ Place(after[k], words[k + 1]).count <= Place(after[k], words[k + 1]).room
          /\ words[k + 1].word # "value" =>
                Place(after[k], words[k + 1]).count < Place(after[k], words[k + 1]).room
          /\ Place(after[k], words[k + 1]).count = after[k].count + 1
      BY <1>18, <2>2, <3>1, <3>4, PlaceType
    <3> HIDE DEF after
    <3>6. after[k + 1].count = Len(cells) + (k + 1)
      BY <1>2, <2>2, <3>2, <3>5
    <3> QED BY <3>2, <3>5, <3>6
  <2> HIDE DEF Fits
  <2>3. 0 \in T
    BY <2>1
  <2>4. \A k \in Nat : k \in T => k + 1 \in T
    <3> SUFFICES ASSUME NEW k \in Nat, k \in T, k + 1 <= n PROVE Fits(k + 1)
      OBVIOUS
    <3>1. k <= n
      BY <1>2
    <3> QED BY <2>2, <3>1
  <2> HIDE DEF T
  <2>5. n \in T
    BY <1>2, <2>3, <2>4, NatSetInduction
  <2>6. Fits(n)
    BY <1>2, <2>5 DEF T
  <2> QED BY <1>1, <1>13, <2>6 DEF Fits
<1> QED BY <1>1, <1>13, <1>16, <1>17, <1>18

-----------------------------------------------------------------------------
(* The line table *)

Entry == [span : Nat, line : Nat]
SumTo(d, k) == LET sum[j \in 0 .. k] == IF j = 0 THEN 0 ELSE sum[j - 1] + d[j].span
               IN  sum[k]
LineOf(d, p) == d[Min({k \in DOMAIN d : p < SumTo(d, k)})].line

(* The sums of the spans d up to its entry n.                              *)
Sums(g, d, n) == /\ g[0] = 0
                 /\ \A k \in 1 .. n : g[k] = g[k - 1] + d[k].span
                 /\ \A k \in 0 .. n : g[k] \in Nat

LEMMA SumsExist ==
    ASSUME NEW d \in Seq(Entry), NEW n \in 0 .. Len(d)
    PROVE  \E g : /\ Sums(g, d, n)
                  /\ g = [j \in 0 .. n |-> IF j = 0 THEN 0 ELSE g[j - 1] + d[j].span]
<1>1. \A k \in 1 .. n : d[k].span \in Nat
  <2>1. \A k \in 1 .. n : d[k] \in Entry
    OBVIOUS
  <2> QED BY <2>1 DEF Entry
<1>2. PICK F : /\ F \in [(1 .. n) \X Nat -> Nat]
               /\ \A k \in 1 .. n, b \in Nat : F[<<k, b>>] = b + d[k].span
  <2> DEFINE G == [x \in (1 .. n) \X Nat |-> x[2] + d[x[1]].span]
  <2>1. G \in [(1 .. n) \X Nat -> Nat]
    BY <1>1
  <2>2. \A k \in 1 .. n, b \in Nat : G[<<k, b>>] = b + d[k].span
    OBVIOUS
  <2> HIDE DEF G
  <2> QED BY <2>1, <2>2
<1>3. PICK zero : zero = 0
  OBVIOUS
<1>4. F \in [(1 .. n) \X Nat -> Nat] /\ n \in Nat /\ zero \in Nat
  BY <1>2, <1>3
<1>5. PICK g \in [0 .. n -> Nat] : Folding(g, n, zero, F)
  BY <1>4, FoldExists
<1>6. g[0] = 0
  BY <1>3, <1>4, <1>5 DEF Folding
<1>7. \A k \in 1 .. n : g[k] = g[k - 1] + d[k].span
  <2> SUFFICES ASSUME NEW k \in 1 .. n PROVE g[k] = g[k - 1] + d[k].span
    OBVIOUS
  <2>1. k \in 0 .. n /\ k - 1 \in 0 .. n /\ k # 0
    BY <1>4
  <2>2. g[k] = F[<<k, g[k - 1]>>] /\ g[k - 1] \in Nat
    BY <1>5, <2>1 DEF Folding
  <2> QED BY <1>2, <2>2
<1>8. \A j \in 0 .. n : g[j] = IF j = 0 THEN 0 ELSE g[j - 1] + d[j].span
  BY <1>4, <1>6, <1>7
<1>9. g = [j \in 0 .. n |-> IF j = 0 THEN 0 ELSE g[j - 1] + d[j].span]
  BY <1>5, <1>8
<1>10. Sums(g, d, n)
  BY <1>5, <1>6, <1>7 DEF Sums
<1> QED BY <1>9, <1>10

LEMMA SumToSums ==
    ASSUME NEW d \in Seq(Entry), NEW g, Sums(g, d, Len(d)), NEW k \in 0 .. Len(d)
    PROVE  SumTo(d, k) = g[k]
<1> DEFINE Is(h) == h = [j \in 0 .. k |-> IF j = 0 THEN 0 ELSE h[j - 1] + d[j].span]
           sum   == CHOOSE h : Is(h)
<1>1. Is(sum)
  <2>1. \E h : Is(h)
    BY SumsExist
  <2> HIDE DEF Is
  <2> QED BY <2>1
<1>2. SumTo(d, k) = sum[k]
  BY DEF SumTo
<1> HIDE DEF sum
<1>3. sum[0] = 0 /\ \A j \in 1 .. k : sum[j] = sum[j - 1] + d[j].span
  <2>1. 0 \in 0 .. k /\ k \in Nat
    OBVIOUS
  <2> QED BY <1>1, <2>1
<1> HIDE DEF Is
<1>4. k \in Nat /\ k <= Len(d) /\ Len(d) \in Nat
  OBVIOUS
<1> DEFINE T == {j \in Nat : j <= k => sum[j] = g[j]}
<1>5. 0 \in T
  BY <1>3 DEF Sums
<1>6. \A j \in Nat : j \in T => j + 1 \in T
  <2> SUFFICES ASSUME NEW j \in Nat, j \in T, j + 1 <= k PROVE sum[j + 1] = g[j + 1]
    OBVIOUS
  <2>1. j + 1 \in 1 .. k /\ j + 1 \in 1 .. Len(d) /\ (j + 1) - 1 = j /\ j <= k
    BY <1>4
  <2>2. sum[j + 1] = sum[j] + d[j + 1].span
    BY <1>3, <2>1
  <2>3. g[j + 1] = g[j] + d[j + 1].span
    BY <2>1 DEF Sums
  <2> QED BY <2>1, <2>2, <2>3
<1> HIDE DEF T
<1>7. k \in T
  BY <1>4, <1>5, <1>6, NatSetInduction
<1> QED BY <1>2, <1>4, <1>7 DEF T

(* One more entry.                                                         *)
Grown(d2, d, e) == d2 = Append(d, e)

LEMMA SumAppend ==
    ASSUME NEW d \in Seq(Entry), NEW e \in Entry, NEW d2, Grown(d2, d, e)
    PROVE  /\ d2 \in Seq(Entry) /\ Len(d2) = Len(d) + 1 /\ Len(d) \in Nat
           /\ \A k \in 1 .. Len(d) : d2[k] = d[k]
           /\ d2[Len(d) + 1] = e
           /\ \A k \in 0 .. Len(d) : SumTo(d, k) \in Nat /\ SumTo(d2, k) = SumTo(d, k)
           /\ SumTo(d2, Len(d) + 1) = SumTo(d, Len(d)) + e.span
           /\ SumTo(d, 0) = 0
<1>1. /\ d2 \in Seq(Entry) /\ Len(d2) = Len(d) + 1 /\ Len(d) \in Nat
      /\ \A k \in 1 .. Len(d) : d2[k] = d[k]
      /\ d2[Len(d) + 1] = e
  BY AppendSeq DEF Grown
<1>2. PICK g : Sums(g, d2, Len(d2))
  <2>1. Len(d2) \in 0 .. Len(d2)
    BY <1>1
  <2> QED BY <1>1, <2>1, SumsExist
<1>3. Sums(g, d, Len(d))
  BY <1>1, <1>2 DEF Sums
<1>4. \A k \in 0 .. Len(d) : SumTo(d, k) = g[k]
  BY <1>3, SumToSums
<1>5. \A k \in 0 .. Len(d) + 1 : SumTo(d2, k) = g[k]
  <2>1. \A k \in 0 .. Len(d2) : SumTo(d2, k) = g[k]
    <3>1. d2 \in Seq(Entry)
      BY <1>1
    <3> QED BY <1>2, <3>1, SumToSums
  <2> QED BY <1>1, <2>1
<1>6. \A k \in 0 .. Len(d) : g[k] \in Nat
  BY <1>3 DEF Sums
<1>7. g[Len(d) + 1] = g[Len(d)] + e.span /\ g[0] = 0
  <2>1. Len(d) + 1 \in 1 .. Len(d2) /\ (Len(d) + 1) - 1 = Len(d)
    BY <1>1
  <2>2. g[Len(d) + 1] = g[Len(d)] + d2[Len(d) + 1].span /\ g[0] = 0
    BY <1>2, <2>1 DEF Sums
  <2> QED BY <1>1, <2>2
<1>8. 0 \in 0 .. Len(d) /\ Len(d) \in 0 .. Len(d) /\ Len(d) + 1 \in 0 .. Len(d) + 1
      /\ \A k \in 0 .. Len(d) : k \in 0 .. Len(d) + 1
  BY <1>1
<1>9. \A k \in 0 .. Len(d) : SumTo(d, k) \in Nat /\ SumTo(d2, k) = SumTo(d, k)
  BY <1>4, <1>5, <1>6, <1>8
<1>10. SumTo(d2, Len(d) + 1) = SumTo(d, Len(d)) + e.span
  BY <1>4, <1>5, <1>7, <1>8
<1>11. SumTo(d, 0) = 0
  BY <1>4, <1>7, <1>8
<1> QED BY <1>1, <1>9, <1>10, <1>11

(* What was found is found still, and behind it the new entry.             *)
LEMMA LineAppend ==
    ASSUME NEW d \in Seq(Entry), NEW e \in Entry, NEW d2, Grown(d2, d, e), NEW p \in Nat
    PROVE  /\ p < SumTo(d, Len(d)) => LineOf(d2, p) = LineOf(d, p)
           /\ (\A k \in 1 .. Len(d) : SumTo(d, k) <= p) /\ p < SumTo(d, Len(d)) + e.span
                 => LineOf(d2, p) = e.line
<1>1. PICK n : n = Len(d)
  OBVIOUS
<1>2. /\ n \in Nat /\ DOMAIN d = 1 .. n /\ DOMAIN d2 = 1 .. n + 1
      /\ \A k \in 1 .. n : d2[k] = d[k]
      /\ d2[n + 1] = e
      /\ \A k \in 0 .. n : SumTo(d, k) \in Nat /\ SumTo(d2, k) = SumTo(d, k)
      /\ SumTo(d2, n + 1) = SumTo(d, n) + e.span /\ SumTo(d, 0) = 0
  <2>1. /\ d2 \in Seq(Entry) /\ Len(d2) = n + 1 /\ n \in Nat
        /\ \A k \in 1 .. n : d2[k] = d[k]
        /\ d2[n + 1] = e
    BY <1>1, SumAppend
  <2>2. /\ \A k \in 0 .. n : SumTo(d, k) \in Nat /\ SumTo(d2, k) = SumTo(d, k)
        /\ SumTo(d2, n + 1) = SumTo(d, n) + e.span /\ SumTo(d, 0) = 0
    BY <1>1, SumAppend
  <2> QED BY <1>1, <2>1, <2>2
<1>3. PICK T, T2 : /\ T = {k \in 1 .. n : p < SumTo(d, k)}
                   /\ T2 = {k \in 1 .. n + 1 : p < SumTo(d2, k)}
  OBVIOUS
<1>4. LineOf(d, p) = d[Min(T)].line /\ LineOf(d2, p) = d2[Min(T2)].line
  BY <1>2, <1>3 DEF LineOf
<1>5. T \subseteq Nat /\ T2 \subseteq Nat
  BY <1>2, <1>3
<1>6. \A k \in 1 .. n : k \in T2 <=> k \in T
  BY <1>2, <1>3
<1>7. ASSUME p < SumTo(d, n) PROVE LineOf(d2, p) = LineOf(d, p)
  <2>1. n \in T
    <3>1. n # 0
      BY <1>2, <1>7
    <3> QED BY <1>2, <1>3, <1>7, <3>1
  <2>2. n \in T2
    BY <1>2, <1>3, <1>6, <2>1
  <2>3. Min(T) \in T /\ \A y \in T : Min(T) <= y
    BY <1>5, <2>1, MinNat
  <2>4. Min(T2) \in T2 /\ \A y \in T2 : Min(T2) <= y
    BY <1>5, <2>2, MinNat
  <2>5. PICK x, y : x = Min(T) /\ y = Min(T2)
    OBVIOUS
  <2>6. x \in 1 .. n /\ y \in 1 .. n
    BY <1>2, <1>3, <2>2, <2>3, <2>4, <2>5
  <2>7. x <= y /\ y <= x
    BY <1>6, <2>3, <2>4, <2>5, <2>6
  <2>8. x = y
    BY <2>6, <2>7
  <2> QED BY <1>2, <1>4, <2>5, <2>6, <2>8
<1>8. ASSUME \A k \in 1 .. n : SumTo(d, k) <= p, p < SumTo(d, n) + e.span
      PROVE  LineOf(d2, p) = e.line
  <2>1. \A k \in T2 : k = n + 1
    <3> SUFFICES ASSUME NEW k \in T2, k # n + 1 PROVE FALSE
      OBVIOUS
    <3>1. k \in 1 .. n
      BY <1>2, <1>3
    <3>2. p < SumTo(d, k) /\ SumTo(d, k) \in Nat
      BY <1>2, <1>3, <3>1
    <3> QED BY <1>8, <3>1, <3>2
  <2>2. n + 1 \in T2
    BY <1>2, <1>3, <1>8
  <2>3. Min(T2) = n + 1
    BY <1>5, <2>1, <2>2, MinNat
  <2> QED BY <1>2, <1>4, <2>3
<1> QED BY <1>1, <1>7, <1>8

(***************************************************************************)
(* The entries d are right for the first lo of n words, whose lines are l; *)
(* the words behind those are of line ll.                                  *)
(***************************************************************************)
Noted(d, l, lo, ll, n) ==
    /\ Len(l) = n
    /\ SumTo(d, Len(d)) = lo
    /\ \A k \in 1 .. Len(d) : SumTo(d, k) \in 0 .. lo
    /\ \A p \in 0 .. lo - 1 : LineOf(d, p) = l[p + 1]
    /\ \A p \in lo .. n - 1 : l[p + 1] = ll

LEMMA NotedStart ==
    ASSUME NEW ll PROVE Noted(<<>>, <<>>, 0, ll, 0)
<1>1. PICK d : d = <<>>
  OBVIOUS
<1>2. d \in Seq(Entry) /\ Len(d) = 0 /\ 0 \in 0 .. Len(d)
  BY <1>1
<1>3. PICK g : Sums(g, d, Len(d))
  BY <1>2, SumsExist
<1>4. SumTo(d, 0) = g[0] /\ g[0] = 0
  BY <1>2, <1>3, SumToSums DEF Sums
<1> QED BY <1>1, <1>2, <1>4 DEF Noted

(* Words of the line that the compiler is at.                              *)
Marked(l2, l, m, ll) == l2 = l \o [i \in 1 .. m |-> ll]

LEMMA NotedWords ==
    ASSUME NEW d, NEW l \in Seq(Nat), NEW n \in Nat, NEW lo \in 0 .. n, NEW ll \in Nat,
           Noted(d, l, lo, ll, n), NEW m \in Nat, NEW l2, Marked(l2, l, m, ll)
    PROVE  l2 \in Seq(Nat) /\ Noted(d, l2, lo, ll, n + m)
<1>1. PICK w : w = [i \in 1 .. m |-> ll]
  OBVIOUS
<1>2. w \in Seq(Nat) /\ Len(w) = m /\ \A i \in 1 .. m : w[i] = ll
  <2>1. w \in [1 .. m -> Nat]
    BY <1>1
  <2> QED BY <1>1, <2>1, MakeSeq
<1>3. Len(l) = n
  BY DEF Noted
<1>4. /\ l2 \in Seq(Nat) /\ Len(l2) = n + m
      /\ \A p \in 1 .. n + m : l2[p] = IF p <= n THEN l[p] ELSE w[p - n]
  <2>1. l2 = l \o w
    BY <1>1 DEF Marked
  <2>2. /\ l \o w \in Seq(Nat) /\ Len(l \o w) = Len(l) + Len(w)
        /\ \A p \in 1 .. Len(l) + Len(w) : (l \o w)[p] = IF p <= Len(l) THEN l[p] ELSE w[p - Len(l)]
    <3>1. w \in Seq(Nat)
      BY <1>2
    <3> QED BY <3>1, JoinSeq
  <2> QED BY <1>2, <1>3, <2>1, <2>2
<1>5. \A p \in 0 .. lo - 1 : LineOf(d, p) = l2[p + 1]
  <2> SUFFICES ASSUME NEW p \in 0 .. lo - 1 PROVE LineOf(d, p) = l2[p + 1]
    OBVIOUS
  <2>1. p + 1 \in 1 .. n + m /\ p + 1 <= n
    OBVIOUS
  <2>2. l2[p + 1] = l[p + 1]
    BY <1>4, <2>1
  <2> QED BY <2>2 DEF Noted
<1>6. \A p \in lo .. n + m - 1 : l2[p + 1] = ll
  <2> SUFFICES ASSUME NEW p \in lo .. n + m - 1 PROVE l2[p + 1] = ll
    OBVIOUS
  <2>1. p + 1 \in 1 .. n + m /\ p \in Nat
    OBVIOUS
  <2>2. CASE p + 1 <= n
    <3>1. p \in lo .. n - 1 /\ l2[p + 1] = l[p + 1]
      BY <1>4, <2>1, <2>2
    <3> QED BY <3>1 DEF Noted
  <2>3. CASE ~(p + 1 <= n)
    <3>1. (p + 1) - n \in 1 .. m /\ l2[p + 1] = w[(p + 1) - n]
      BY <1>4, <2>1, <2>3
    <3> QED BY <1>2, <3>1
  <2> QED BY <2>2, <2>3
<1> QED BY <1>4, <1>5, <1>6 DEF Noted

(* An entry for the words behind.                                          *)
LEMMA NotedEntry ==
    ASSUME NEW d \in Seq(Entry), NEW l, NEW n \in Nat, NEW lo \in 0 .. n, NEW ll \in Nat,
           Noted(d, l, lo, ll, n), NEW d2, Grown(d2, d, [span |-> n - lo, line |-> ll]),
           NEW ll2
    PROVE  d2 \in Seq(Entry) /\ Noted(d2, l, n, ll2, n)
<1>1. PICK e : e = [span |-> n - lo, line |-> ll]
  OBVIOUS
<1>2. e \in Entry /\ e.span = n - lo /\ e.line = ll /\ Grown(d2, d, e)
  BY <1>1 DEF Entry
<1>3. /\ d2 \in Seq(Entry) /\ Len(d2) = Len(d) + 1 /\ Len(d) \in Nat
      /\ \A k \in 0 .. Len(d) : SumTo(d, k) \in Nat /\ SumTo(d2, k) = SumTo(d, k)
      /\ SumTo(d2, Len(d) + 1) = SumTo(d, Len(d)) + e.span
  BY <1>2, SumAppend
<1>4. SumTo(d, Len(d)) = lo
  BY DEF Noted
<1>5. SumTo(d2, Len(d2)) = n
  BY <1>2, <1>3, <1>4
<1>6. \A k \in 1 .. Len(d2) : SumTo(d2, k) \in 0 .. n
  <2> SUFFICES ASSUME NEW k \in 1 .. Len(d2) PROVE SumTo(d2, k) \in 0 .. n
    OBVIOUS
  <2>1. CASE k = Len(d2)
    BY <1>5, <2>1
  <2>2. CASE k # Len(d2)
    <3>1. k \in 1 .. Len(d) /\ k \in 0 .. Len(d)
      BY <1>3, <2>2
    <3>2. SumTo(d, k) \in 0 .. lo
      BY <3>1 DEF Noted
    <3> QED BY <1>3, <3>1, <3>2
  <2> QED BY <2>1, <2>2
<1>7. \A p \in 0 .. n - 1 : LineOf(d2, p) = l[p + 1]
  <2> SUFFICES ASSUME NEW p \in 0 .. n - 1 PROVE LineOf(d2, p) = l[p + 1]
    OBVIOUS
  <2>1. p \in Nat
    OBVIOUS
  <2>2. CASE p < lo
    <3>1. p \in 0 .. lo - 1
      BY <2>1, <2>2
    <3>2. LineOf(d, p) = l[p + 1]
      BY <3>1 DEF Noted
    <3>3. LineOf(d2, p) = LineOf(d, p)
      BY <1>2, <1>4, <2>1, <2>2, LineAppend
    <3> QED BY <3>2, <3>3
  <2>3. CASE ~(p < lo)
    <3>1. p \in lo .. n - 1
      BY <2>1, <2>3
    <3>2. l[p + 1] = ll
      BY <3>1 DEF Noted
    <3>3. \A k \in 1 .. Len(d) : SumTo(d, k) <= p
      <4> SUFFICES ASSUME NEW k \in 1 .. Len(d) PROVE SumTo(d, k) <= p
        OBVIOUS
      <4>1. SumTo(d, k) \in 0 .. lo
        BY DEF Noted
      <4> QED BY <2>1, <2>3, <4>1
    <3>4. p < SumTo(d, Len(d)) + e.span
      BY <1>2, <1>4
    <3>5. LineOf(d2, p) = e.line
      BY <1>2, <2>1, <3>3, <3>4, LineAppend
    <3> QED BY <1>2, <3>2, <3>5
  <2> QED BY <2>2, <2>3
<1> QED BY <1>3, <1>5, <1>6, <1>7 DEF Noted

-----------------------------------------------------------------------------
(* The loops *)

BlockType == [start : Nat, breaks : SUBSET Nat]

LEMMA LoopParts ==
    \A bs, p : /\ p \in BreaksOf(bs) <=> \E b \in DOMAIN bs : p \in bs[b].breaks
               /\ p \in StartsOf(bs) <=> \E b \in DOMAIN bs : p = bs[b].start
  BY DEF BreaksOf, StartsOf

LEMMA NoLoops == BreaksOf(<<>>) = {} /\ StartsOf(<<>>) = {}
<1>1. DOMAIN <<>> = {}
  OBVIOUS
<1> QED BY <1>1 DEF BreaksOf, StartsOf

(* Another loop, one less, another break out of the innermost.             *)
LEMMA LoopBegins ==
    ASSUME NEW bs \in Seq(BlockType), NEW n \in Nat, NEW bs2, Grown(bs2, bs, [start |-> n, breaks |-> {}])
    PROVE  /\ bs2 \in Seq(BlockType) /\ Len(bs2) = Len(bs) + 1
           /\ BreaksOf(bs2) = BreaksOf(bs) /\ StartsOf(bs2) = StartsOf(bs) \cup {n}
<1>1. PICK e : e = [start |-> n, breaks |-> {}]
  OBVIOUS
<1>2. e \in BlockType /\ e.start = n /\ e.breaks = {}
  BY <1>1 DEF BlockType
<1>3. /\ bs2 \in Seq(BlockType) /\ Len(bs2) = Len(bs) + 1 /\ Len(bs) \in Nat
      /\ \A k \in 1 .. Len(bs) : bs2[k] = bs[k]
      /\ bs2[Len(bs) + 1] = e
  BY <1>1, <1>2, AppendSeq DEF Grown
<1>4. /\ DOMAIN bs = 1 .. Len(bs) /\ DOMAIN bs2 = 1 .. Len(bs) + 1
      /\ \A k : k \in 1 .. Len(bs) + 1 <=> k \in 1 .. Len(bs) \/ k = Len(bs) + 1
  BY <1>3
<1>5. \A p : p \in BreaksOf(bs2) <=> p \in BreaksOf(bs)
  BY <1>2, <1>3, <1>4, LoopParts
<1>6. \A p : p \in StartsOf(bs2) <=> p \in StartsOf(bs) \/ p = n
  BY <1>2, <1>3, <1>4, LoopParts
<1> QED BY <1>3, <1>5, <1>6

LEMMA LoopEnds ==
    ASSUME NEW bs \in Seq(BlockType), bs # <<>>, NEW last, last = bs[Len(bs)], NEW bs2, bs2 = Front(bs)
    PROVE  /\ bs2 \in Seq(BlockType) /\ Len(bs2) = Len(bs) - 1
           /\ StartsOf(bs2) \subseteq StartsOf(bs)
           /\ last.breaks \subseteq BreaksOf(bs) /\ BreaksOf(bs2) \subseteq BreaksOf(bs)
           /\ BreaksOf(bs) \subseteq BreaksOf(bs2) \cup last.breaks
<1>1. PICK n : n = Len(bs)
  OBVIOUS
<1>2. n \in Nat /\ n > 0 /\ DOMAIN bs = 1 .. n
  BY <1>1, EmptySeq
<1>3. /\ bs2 \in Seq(BlockType) /\ Len(bs2) = n - 1 /\ DOMAIN bs2 = 1 .. n - 1
      /\ \A k \in 1 .. n - 1 : bs2[k] = bs[k]
  BY <1>1, <1>2, PrefixSeq DEF Front
<1>4. \A k : k \in 1 .. n <=> k \in 1 .. n - 1 \/ k = n
  BY <1>2
<1>5. \A p : p \in BreaksOf(bs) <=> p \in BreaksOf(bs2) \/ p \in last.breaks
  BY <1>1, <1>2, <1>3, <1>4, LoopParts
<1>6. \A p : p \in StartsOf(bs2) => p \in StartsOf(bs)
  BY <1>2, <1>3, <1>4, LoopParts
<1> QED BY <1>1, <1>3, <1>5, <1>6

Left(bs2, bs, p) == bs2 = [bs EXCEPT ![Len(bs)].breaks = @ \cup {p}]

LEMMA LoopLeft ==
    ASSUME NEW bs \in Seq(BlockType), bs # <<>>, NEW p \in Nat, NEW bs2, Left(bs2, bs, p)
    PROVE  /\ bs2 \in Seq(BlockType) /\ Len(bs2) = Len(bs)
           /\ BreaksOf(bs2) = BreaksOf(bs) \cup {p} /\ StartsOf(bs2) = StartsOf(bs)
<1>1. PICK n : n = Len(bs)
  OBVIOUS
<1>2. n \in 1 .. n /\ DOMAIN bs = 1 .. n
  BY <1>1, EmptySeq
<1>3. PICK e : e = [bs[n] EXCEPT !.breaks = @ \cup {p}]
  OBVIOUS
<1>4. bs[n] \in BlockType
  BY <1>1, <1>2
<1>5. e \in BlockType /\ e.start = bs[n].start /\ e.breaks = bs[n].breaks \cup {p}
  BY <1>3, <1>4 DEF BlockType
<1>6. bs2 = [bs EXCEPT ![n] = e]
  BY <1>1, <1>3 DEF Left
<1>7. /\ bs2 \in Seq(BlockType) /\ Len(bs2) = n /\ DOMAIN bs2 = 1 .. n
      /\ bs2[n] = e /\ \A k \in 1 .. n : k # n => bs2[k] = bs[k]
  BY <1>1, <1>2, <1>5, <1>6, UpdateSeq
<1>8. \A x : x \in BreaksOf(bs2) <=> x \in BreaksOf(bs) \/ x = p
  BY <1>2, <1>5, <1>7, LoopParts
<1>9. \A x : x \in StartsOf(bs2) <=> x \in StartsOf(bs)
  BY <1>2, <1>5, <1>7, LoopParts
<1> QED BY <1>1, <1>7, <1>8, <1>9

LEMMA LoopStarts ==
    ASSUME NEW bs \in Seq(BlockType), bs # <<>>
    PROVE  /\ bs[Len(bs)].start \in StartsOf(bs) /\ bs[Len(bs)].start \in Nat
           /\ bs[1].start \in StartsOf(bs) /\ bs[1].start \in Nat
<1>1. Len(bs) \in DOMAIN bs /\ 1 \in DOMAIN bs
  BY EmptySeq
<1>2. bs[Len(bs)] \in BlockType /\ bs[1] \in BlockType
  BY <1>1
<1> QED BY <1>1, <1>2, LoopParts DEF BlockType

(* One loop for each activation inside of one.                             *)
LEMMA LoopCount ==
    ASSUME NEW wk \in Seq(Activation)
    PROVE  /\ IsFiniteSet(InLoops(wk)) /\ Cardinality(InLoops(wk)) \in Nat
           /\ \A d : d \notin InLoops(wk) =>
                 Cardinality(InLoops(wk) \cup {d}) = Cardinality(InLoops(wk)) + 1
           /\ \A d \in InLoops(wk) :
                 /\ Cardinality(InLoops(wk) \ {d}) = Cardinality(InLoops(wk)) - 1
                 /\ Cardinality(InLoops(wk)) > 0
<1>1. PICK L : L = InLoops(wk)
  OBVIOUS
<1>2. L \subseteq 1 .. Len(wk)
  BY <1>1 DEF InLoops
<1>3. IsFiniteSet(L)
  <2>1. IsFiniteSet(1 .. Len(wk))
    <3>1. 1 \in Int /\ Len(wk) \in Int
      OBVIOUS
    <3> QED BY <3>1, FS_Interval
  <2>2. L \in SUBSET (1 .. Len(wk))
    BY <1>2
  <2> QED BY <2>1, <2>2, FS_Subset
<1>4. Cardinality(L) \in Nat
  BY <1>3, FS_CardinalityType
<1>5. \A d : d \notin L => Cardinality(L \cup {d}) = Cardinality(L) + 1
  BY <1>3, FS_AddElement
<1>6. \A d \in L : Cardinality(L \ {d}) = Cardinality(L) - 1
  BY <1>3, FS_RemoveElement
<1>7. \A d \in L : Cardinality(L) > 0
  BY <1>3, <1>4, FS_EmptySet
<1> QED BY <1>1, <1>3, <1>4, <1>5, <1>6, <1>7

LEMMA NoWork == InLoops(<<>>) = {} /\ HolesIn(<<>>) = {} /\ Cardinality({}) = 0
<1>1. DOMAIN <<>> = {}
  OBVIOUS
<1> QED BY <1>1, FS_EmptySet DEF InLoops, HolesIn

-----------------------------------------------------------------------------
(* The steps *)

(* TypeOK and BodyInv by their parts.                                      *)
ContextOK == /\ file \in FileType /\ block_chunk \in BlockChunks
             /\ compiled \in Seq([code : Seq(WordType), varc : Nat, vars : Seq(STRING)])
StacksOK  == /\ vars \in Seq(STRING) /\ work \in Seq(Activation)
             /\ blocks \in Seq(BlockType) /\ returns \subseteq Nat
BufferOK  == /\ code \in Seq(WordType) /\ size \in Nat /\ lines \in Seq(Nat)
             /\ debug \in Seq(Entry) /\ last_op \in 0 .. Len(code) /\ last_line \in Nat
Sound(c, vs, rs, bs, wk) ==
    /\ CodeOK(c, Len(vs), PendingOf(rs, bs, wk), StartsOf(bs))
    /\ Activations(wk, Len(vs))
    /\ Len(bs) = Cardinality(InLoops(wk))

LEMMA TypeParts ==
    TypeOK <=> /\ ContextOK /\ StacksOK /\ BufferOK
               /\ status \in {"between", "body", "failed", "done", "overrun"}
  BY DEF TypeOK, ContextOK, StacksOK, BufferOK, BlockType, Entry

LEMMA BodyParts ==
    BodyInv <=> (status = "body" => Sound(code, vars, returns, blocks, work))
  BY DEF BodyInv, Sound

LEMMA RecordedParts ==
    Recorded <=> (status = "body" => Noted(debug, lines, last_op, last_line, Len(code)))
  BY DEF Recorded, Noted, SpansTo, SumTo, GetLineOf, LineOf

(* What holds in a body.                                                   *)
LEMMA InBody ==
    ASSUME Inv, status = "body"
    PROVE  /\ ContextOK /\ StacksOK /\ BufferOK /\ Sound(code, vars, returns, blocks, work)
           /\ Noted(debug, lines, last_op, last_line, Len(code))
           /\ block_chunk >= 2 => Len(code) <= size
           /\ block_chunk \in Nat /\ Len(code) \in Nat /\ Len(vars) \in Nat
<1>1. ContextOK /\ StacksOK /\ BufferOK /\ Sound(code, vars, returns, blocks, work)
  BY TypeParts, BodyParts DEF Inv
<1>2. Noted(debug, lines, last_op, last_line, Len(code))
  BY RecordedParts DEF Inv
<1>3. block_chunk >= 2 => Len(code) <= size
  BY DEF Inv, Room
<1>4. block_chunk \in Nat
  BY <1>1, FilesAssumption DEF ContextOK
<1>5. Len(code) \in Nat /\ Len(vars) \in Nat
  BY <1>1 DEF BufferOK, StacksOK
<1> QED BY <1>1, <1>2, <1>3, <1>4, <1>5

(* What a step of CompileNode has to keep.                                 *)
LEMMA StepKeeps ==
    ASSUME Inv, UNCHANGED context, status' \in {"body", "overrun"},
           StacksOK', BufferOK', Room',
           status' = "body" => /\ Sound(code, vars, returns, blocks, work)'
                               /\ Noted(debug, lines, last_op, last_line, Len(code))'
    PROVE  Inv'
<1>1. ContextOK' /\ file' \in Files
  BY TypeParts DEF Inv, ContextOK, context
<1>2. TypeOK'
  BY <1>1 DEF TypeOK, ContextOK, StacksOK, BufferOK, BlockType, Entry
<1>3. BodyInv' /\ Recorded'
  BY DEF BodyInv, Sound, Recorded, Noted, SpansTo, SumTo, GetLineOf, LineOf
<1>4. Between' /\ LinesRight'
  BY DEF Between, LinesRight
<1>5. Results'
  BY DEF Inv, Results, context
<1> QED BY <1>1, <1>2, <1>3, <1>4, <1>5 DEF Inv

(* Adding words.                                                           *)
LEMMA AddStep ==
    ASSUME Inv, status = "body", NEW words, Rowed(words), Add(words), UNCHANGED <<context, where>>
    PROVE  /\ code' = code \o words /\ status' \in {"body", "overrun"} /\ BufferOK' /\ Room'
           /\ Noted(debug, lines, last_op, last_line, Len(code))'
<1>1. /\ BufferOK /\ block_chunk \in Nat /\ Len(code) \in Nat
      /\ Noted(debug, lines, last_op, last_line, Len(code))
      /\ block_chunk >= 2 => Len(code) <= size
  BY InBody
<1>2. PICK then : then = "body"
  OBVIOUS
<1>3. AddTo(code, words, then)
  BY <1>2 DEF Add
<1>4. code \in Seq(WordType) /\ size \in Nat
  BY <1>1 DEF BufferOK
<1>5. /\ code' = code \o words /\ size' \in Nat
      /\ lines' = lines \o [i \in 1 .. Len(words) |-> last_line]
      /\ status' \in {"overrun", then}
      /\ block_chunk >= 2 /\ Len(code) <= size =>
            status' = then /\ Len(code) + Len(words) <= size'
  BY <1>1, <1>3, <1>4, AddToParts
<1>6. words \in Seq(WordType) /\ Len(words) \in Nat
  BY DEF Rowed
<1>7. code' \in Seq(WordType) /\ Len(code') = Len(code) + Len(words)
  <2>1. code \o words \in Seq(WordType) /\ Len(code \o words) = Len(code) + Len(words)
    BY <1>4, <1>6, JoinSeq
  <2> QED BY <1>5, <2>1
<1>8. UNCHANGED <<debug, last_op, last_line, block_chunk>>
  BY DEF where, context
<1>9. lines' \in Seq(Nat) /\ Noted(debug, lines', last_op, last_line, Len(code) + Len(words))
  <2>1. PICK m, n, l, l2, ll : m = Len(words) /\ n = Len(code) /\ l = lines /\ l2 = lines'
                               /\ ll = last_line
    OBVIOUS
  <2>2. m \in Nat /\ n \in Nat /\ l \in Seq(Nat) /\ ll \in Nat /\ last_op \in 0 .. n
    BY <1>1, <1>6, <2>1 DEF BufferOK
  <2>3. Noted(debug, l, last_op, ll, n)
    BY <1>1, <2>1
  <2>4. Marked(l2, l, m, ll)
    BY <1>5, <2>1 DEF Marked
  <2>5. l2 \in Seq(Nat) /\ Noted(debug, l2, last_op, ll, n + m)
    BY <2>2, <2>3, <2>4, NotedWords
  <2> QED BY <2>1, <2>5
<1>10. BufferOK'
  BY <1>1, <1>5, <1>6, <1>7, <1>8, <1>9 DEF BufferOK
<1>11. Room'
  BY <1>1, <1>2, <1>5, <1>7, <1>8 DEF Room
<1>12. Noted(debug, lines, last_op, last_line, Len(code))'
  BY <1>7, <1>8, <1>9
<1> QED BY <1>2, <1>5, <1>10, <1>11, <1>12

(* Keeping the words, but for some distances.                              *)
LEMMA KeepStep ==
    ASSUME Inv, status = "body", code' \in Seq(WordType), Len(code') = Len(code),
           UNCHANGED <<context, status, size, where, lines>>
    PROVE  /\ status' = "body" /\ BufferOK' /\ Room'
           /\ Noted(debug, lines, last_op, last_line, Len(code))'
<1>1. /\ BufferOK /\ Noted(debug, lines, last_op, last_line, Len(code))
      /\ block_chunk >= 2 => Len(code) <= size
  BY InBody
<1>2. UNCHANGED <<debug, last_op, last_line, block_chunk>>
  BY DEF where, context
<1>3. BufferOK'
  BY <1>1, <1>2 DEF BufferOK
<1>4. Room'
  BY <1>1, <1>2 DEF Room
<1>5. Noted(debug, lines, last_op, last_line, Len(code))'
  BY <1>1, <1>2
<1> QED BY <1>3, <1>4, <1>5

(* The first task of the innermost activation.                             *)
LEMMA DoingParts ==
    ASSUME Inv, NEW do, Doing(do)
    PROVE  /\ status = "body" /\ work \in Seq(Activation) /\ work # <<>>
           /\ Activations(work, Len(vars)) /\ Len(vars) \in Nat
           /\ work[Len(work)].todo # <<>>
           /\ Current = Head(work[Len(work)].todo) /\ Current.do = do
           /\ \A k, p : work' = DoneAt(k, p) => Jumped(work', work, k, p)
           /\ work' = Done => Advanced(work', work)
<1>1. status = "body" /\ work # <<>> /\ work[Len(work)].todo # <<>> /\ Current.do = do
      /\ Current = Head(work[Len(work)].todo)
  BY DEF Doing, Act, Current
<1>2. work \in Seq(Activation) /\ Activations(work, Len(vars)) /\ Len(vars) \in Nat
  BY <1>1, InBody DEF StacksOK, Sound
<1>3. work' = Done => Advanced(work', work)
  BY DEF Done, Advanced
<1>4. \A k, p : work' = DoneAt(k, p) => Jumped(work', work, k, p)
  BY DEF DoneAt, Jumped
<1> QED BY <1>1, <1>2, <1>3, <1>4

(* The first task is done, and it declares no variable.                    *)
LEMMA TaskDone ==
    ASSUME Inv, NEW do, Doing(do), do # "var", work' = Done
    PROVE  /\ work' \in Seq(Activation) /\ Activations(work', Len(vars))
           /\ TaskOK(Current, Len(vars)) /\ Current \in TaskType /\ Current.do = do
           /\ do \notin {"block", "unblock"} => InLoops(work') = InLoops(work)
           /\ do = "block" => /\ InLoops(work') = InLoops(work) \cup {Len(work)}
                              /\ Len(work) \notin InLoops(work)
           /\ do = "unblock" => /\ InLoops(work') = InLoops(work) \ {Len(work)}
                                /\ Len(work) \in InLoops(work)
           /\ do = "again" => Len(work) \in InLoops(work)
           /\ do \notin {"jump", "land"} => HolesIn(work') = HolesIn(work)
           /\ do = "land" => /\ Act.pos[Current.k] \in HolesIn(work)
                             /\ HolesIn(work') \subseteq HolesIn(work)
                             /\ HolesIn(work) \subseteq HolesIn(work') \cup {Act.pos[Current.k]}
<1>1. /\ work \in Seq(Activation) /\ work # <<>>
      /\ Activations(work, Len(vars)) /\ Len(vars) \in Nat
      /\ work[Len(work)].todo # <<>>
      /\ Current = Head(work[Len(work)].todo) /\ Current.do = do
      /\ Advanced(work', work)
  BY DoingParts
<1>2. PICK n, wk, wk2, t : n = Len(vars) /\ wk = work /\ wk2 = work' /\ t = Current
  OBVIOUS
<1>3. /\ n \in Nat /\ wk \in Seq(Activation) /\ wk # <<>> /\ Activations(wk, n)
      /\ First(t, wk) /\ Advanced(wk2, wk)
      /\ t.do # "var" /\ t.do = do
  BY <1>1, <1>2 DEF First
<1>4. Counted(n, n, t)
  BY <1>3 DEF Counted
<1>5. /\ wk2 \in Seq(Activation) /\ Activations(wk2, n) /\ TaskOK(t, n) /\ t \in TaskType
      /\ t.do \notin {"block", "unblock"} => InLoops(wk2) = InLoops(wk)
      /\ t.do = "block" => /\ InLoops(wk2) = InLoops(wk) \cup {Len(wk)}
                           /\ Len(wk) \notin InLoops(wk)
      /\ t.do = "unblock" => /\ InLoops(wk2) = InLoops(wk) \ {Len(wk)}
                             /\ Len(wk) \in InLoops(wk)
      /\ t.do = "again" => Len(wk) \in InLoops(wk)
      /\ t.do \notin {"jump", "land"} => HolesIn(wk2) = HolesIn(wk)
      /\ t.do = "land" => /\ wk[Len(wk)].pos[t.k] \in HolesIn(wk)
                          /\ HolesIn(wk2) \subseteq HolesIn(wk)
                          /\ HolesIn(wk) \subseteq HolesIn(wk2) \cup {wk[Len(wk)].pos[t.k]}
  BY <1>3, <1>4, WorkDone
<1> QED BY <1>2, <1>3, <1>5 DEF Act

(* Nothing but the work is done.                                           *)
LEMMA SoundWork ==
    ASSUME NEW c, NEW vs, NEW rs, NEW bs, NEW wk, NEW wk2, Sound(c, vs, rs, bs, wk),
           Activations(wk2, Len(vs)), InLoops(wk2) = InLoops(wk), HolesIn(wk2) = HolesIn(wk)
    PROVE  Sound(c, vs, rs, bs, wk2)
  BY DEF Sound, PendingOf

LEMMA DoEmitKeeps == ASSUME Inv, DoEmit PROVE Inv'
<1>1. PICK do : do = "emit" /\ Doing(do)
  BY DEF DoEmit
<1>2. /\ Add(Current.words) /\ work' = Done /\ UNCHANGED <<context, where>>
      /\ UNCHANGED <<vars, blocks, returns>>
  BY DEF DoEmit, stacks
<1>3. /\ work' \in Seq(Activation) /\ Activations(work', Len(vars))
      /\ TaskOK(Current, Len(vars)) /\ Current.do = do
      /\ InLoops(work') = InLoops(work) /\ HolesIn(work') = HolesIn(work)
  BY <1>1, <1>2, TaskDone
<1>4. PICK words : words = Current.words
  OBVIOUS
<1>5. GoodWords(words, Len(vars)) /\ Add(words)
  BY <1>1, <1>2, <1>3, <1>4 DEF TaskOK
<1>6. status = "body" /\ StacksOK /\ Sound(code, vars, returns, blocks, work)
  BY <1>1, DoingParts, InBody
<1>7. Rowed(words)
  BY <1>5, RowedWords
<1>8. /\ code' = code \o words /\ status' \in {"body", "overrun"} /\ BufferOK' /\ Room'
      /\ Noted(debug, lines, last_op, last_line, Len(code))'
  BY <1>2, <1>5, <1>6, <1>7, AddStep
<1>9. Sound(code \o words, vars, returns, blocks, work)
  BY <1>5, <1>6, AddCode DEF Sound
<1>10. Sound(code \o words, vars, returns, blocks, work')
  BY <1>3, <1>9, SoundWork
<1>11. Sound(code, vars, returns, blocks, work)'
  BY <1>2, <1>8, <1>10
<1>12. StacksOK'
  BY <1>2, <1>3, <1>6 DEF StacksOK
<1> QED BY <1>2, <1>8, <1>11, <1>12, StepKeeps

LEMMA DoSubKeeps == ASSUME Inv, DoSub PROVE Inv'
<1>1. PICK do : do = "sub" /\ Doing(do)
  BY DEF DoSub
<1>2. /\ work' = Append(Done, Listing(Current.nodes))
      /\ UNCHANGED <<context, status, size, where, lines>>
      /\ UNCHANGED <<vars, blocks, returns, code>>
  BY DEF DoSub, stacks, buffer
<1>3. PICK wk, wk2, t, n :
         wk = work /\ wk2 = [wk EXCEPT ![Len(wk)].todo = Tail(@)] /\ t = Current /\ n = Len(vars)
  OBVIOUS
<1>4. /\ n \in Nat /\ wk \in Seq(Activation) /\ wk # <<>> /\ Activations(wk, n)
      /\ First(t, wk) /\ t.do = "sub" /\ status = "body"
  BY <1>1, <1>3, DoingParts DEF First
<1>5. Advanced(wk2, wk)
  BY <1>3 DEF Advanced
<1>6. Counted(n, n, t) /\ t.do \notin {"block", "unblock"} /\ t.do \notin {"jump", "land"}
  BY <1>4 DEF Counted
<1>7. /\ wk2 \in Seq(Activation) /\ Activations(wk2, n) /\ t \in TaskType
      /\ InLoops(wk2) = InLoops(wk) /\ HolesIn(wk2) = HolesIn(wk)
  BY <1>4, <1>5, <1>6, WorkDone
<1>8. work' = Append(wk2, Listing(t.nodes)) /\ t.nodes \in Seq(Nodes)
  BY <1>2, <1>3, <1>7 DEF Done, TaskType
<1>9. PICK wk3, nodes : wk3 = work' /\ nodes = t.nodes
  OBVIOUS
<1>10. nodes \in Seq(Nodes) /\ wk3 = Append(wk2, Listing(nodes))
  BY <1>8, <1>9
<1>11. /\ wk3 \in Seq(Activation) /\ Activations(wk3, n)
       /\ InLoops(wk3) = InLoops(wk2) /\ HolesIn(wk3) = HolesIn(wk2)
  BY <1>7, <1>10, WorkPush
<1>12. StacksOK /\ BufferOK /\ Sound(code, vars, returns, blocks, work) /\ Len(code) \in Nat
  BY <1>4, InBody
<1>13. /\ work' \in Seq(Activation) /\ Activations(work', Len(vars))
       /\ InLoops(work') = InLoops(work) /\ HolesIn(work') = HolesIn(work)
  BY <1>3, <1>7, <1>9, <1>11
<1>14. Sound(code, vars, returns, blocks, work')
  BY <1>12, <1>13, SoundWork
<1>15. Sound(code, vars, returns, blocks, work)'
  BY <1>2, <1>14
<1>16. /\ status' = "body" /\ BufferOK' /\ Room'
       /\ Noted(debug, lines, last_op, last_line, Len(code))'
  BY <1>2, <1>4, <1>12, KeepStep DEF BufferOK
<1>17. StacksOK'
  BY <1>2, <1>12, <1>13 DEF StacksOK
<1> QED BY <1>2, <1>15, <1>16, <1>17, StepKeeps

LEMMA DoJumpKeeps == ASSUME Inv, DoJump PROVE Inv'
<1>1. PICK do : do = "jump" /\ Doing(do)
  BY DEF DoJump
<1>2. /\ Add(Hole(Current.op)) /\ work' = DoneAt(Current.k, HoleAt)
      /\ UNCHANGED <<context, where>> /\ UNCHANGED <<vars, blocks, returns>>
  BY DEF DoJump, stacks
<1>3. StacksOK /\ BufferOK /\ Sound(code, vars, returns, blocks, work) /\ Len(code) \in Nat
      /\ status = "body"
  BY <1>1, DoingParts, InBody
<1>4. PICK wk, wk2, t, n, p :
         wk = work /\ wk2 = work' /\ t = Current /\ n = Len(vars) /\ p = Len(code) + 1
  OBVIOUS
<1>5. /\ n \in Nat /\ wk \in Seq(Activation) /\ wk # <<>> /\ Activations(wk, n)
      /\ First(t, wk) /\ t.do = "jump" /\ p \in Nat /\ Jumped(wk2, wk, t.k, p)
  BY <1>1, <1>2, <1>3, <1>4, DoingParts DEF First, HoleAt
<1>6. /\ wk2 \in Seq(Activation) /\ Activations(wk2, n) /\ TaskOK(t, n)
      /\ InLoops(wk2) = InLoops(wk) /\ HolesIn(wk2) = HolesIn(wk) \cup {p}
  BY <1>5, WorkJump
<1>7. PICK op, x, words : op = t.op /\ x = 0 /\ words = One(op, x)
  OBVIOUS
<1>8. op \in JumpOp /\ x \in Int
  BY <1>5, <1>6, <1>7 DEF TaskOK
<1>9. Add(words) /\ Rowed(words)
  BY <1>2, <1>4, <1>7, <1>8, RowedWords DEF Hole
<1>10. /\ code' = code \o words /\ status' \in {"body", "overrun"} /\ BufferOK' /\ Room'
       /\ Noted(debug, lines, last_op, last_line, Len(code))'
  BY <1>2, <1>3, <1>9, AddStep
<1>11. CodeOK(code \o One(op, x), n, PendingOf(returns, blocks, wk) \cup {Len(code) + 1},
              StartsOf(blocks))
  <2>1. CodeOK(code, n, PendingOf(returns, blocks, wk), StartsOf(blocks))
    BY <1>3, <1>4 DEF Sound
  <2> QED BY <1>8, <2>1, AddJump
<1>12. PendingOf(returns, blocks, wk) \cup {Len(code) + 1} = PendingOf(returns, blocks, wk2)
  BY <1>4, <1>6 DEF PendingOf
<1>13. Sound(code \o words, vars, returns, blocks, wk2)
  BY <1>3, <1>4, <1>6, <1>7, <1>11, <1>12 DEF Sound
<1>14. Sound(code, vars, returns, blocks, work)'
  BY <1>2, <1>4, <1>10, <1>13
<1>15. StacksOK'
  BY <1>2, <1>3, <1>4, <1>6 DEF StacksOK
<1> QED BY <1>2, <1>10, <1>14, <1>15, StepKeeps

(* Patching leaves words.                                                  *)
LEMMA PatchedWords ==
    ASSUME code \in Seq(WordType), NEW ps \in SUBSET Nat, NEW to \in Nat
    PROVE  Patched(ps, to) \in Seq(WordType) /\ Len(Patched(ps, to)) = Len(code)
<1>1. PICK n, d : n = Len(code) /\ d = Patched(ps, to)
  OBVIOUS
<1>2. n \in Nat
  BY <1>1
<1>3. d = [i \in 1 .. n |-> IF i - 1 \in ps THEN [code[i] EXCEPT !.n = to - (i - 1)]
                            ELSE code[i]]
  BY <1>1 DEF Patched
<1>4. ASSUME NEW i \in 1 .. n
      PROVE  (IF i - 1 \in ps THEN [code[i] EXCEPT !.n = to - (i - 1)] ELSE code[i])
                \in WordType
  <2>1. code[i] \in WordType /\ to - (i - 1) \in Int
    BY <1>1
  <2> QED BY <2>1 DEF WordType
<1>5. d \in [1 .. n -> WordType]
  BY <1>3, <1>4
<1> QED BY <1>1, <1>2, <1>5, MakeSeq

(* A hole is patched at the end.                                           *)
LEMMA PatchEnd ==
    ASSUME NEW n, NEW P, NEW Q, CodeOK(code, n, P, Q), NEW ps \in SUBSET P,
           NEW R \in SUBSET P, P \subseteq R \cup ps
    PROVE  /\ CodeOK(Patched(ps, Len(code)), n, R, Q)
           /\ Len(Patched(ps, Len(code))) = Len(code)
<1>1. PICK c, to, d : c = code /\ to = Len(code) /\ d = Patched(ps, to)
  OBVIOUS
<1>2. Filled(d, c, ps, to)
  BY <1>1 DEF Patched, Filled
<1>3. CodeOK(c, n, P, Q) /\ Len(c) \in Nat
  BY <1>1 DEF CodeOK
<1>4. Begins(c, to)
  BY <1>1, <1>3 DEF Begins
<1>5. CodeOK(d, n, R, Q) /\ Len(d) = Len(c)
  BY <1>2, <1>3, <1>4, PatchCode
<1> QED BY <1>1, <1>5

LEMMA DoLandKeeps == ASSUME Inv, DoLand PROVE Inv'
<1>1. PICK do : do = "land" /\ Doing(do)
  BY DEF DoLand
<1>2. /\ code' = Patched({Act.pos[Current.k]}, Len(code)) /\ work' = Done
      /\ UNCHANGED <<context, status, size, where, lines>>
      /\ UNCHANGED <<vars, blocks, returns>>
  BY DEF DoLand, stacks
<1>3. StacksOK /\ BufferOK /\ Sound(code, vars, returns, blocks, work) /\ Len(code) \in Nat
      /\ status = "body"
  BY <1>1, DoingParts, InBody
<1>4. PICK p, ps, P, R : /\ p = Act.pos[Current.k] /\ ps = {p}
                         /\ P = PendingOf(returns, blocks, work)
                         /\ R = PendingOf(returns, blocks, work')
  OBVIOUS
<1>5. /\ work' \in Seq(Activation) /\ Activations(work', Len(vars))
      /\ InLoops(work') = InLoops(work) /\ p \in HolesIn(work)
      /\ HolesIn(work') \subseteq HolesIn(work)
      /\ HolesIn(work) \subseteq HolesIn(work') \cup {p}
  BY <1>1, <1>2, <1>4, TaskDone
<1>6. ps \in SUBSET P /\ R \in SUBSET P /\ P \subseteq R \cup ps
  BY <1>4, <1>5 DEF PendingOf
<1>7. CodeOK(code, Len(vars), P, StartsOf(blocks))
  BY <1>3, <1>4 DEF Sound
<1>8. code' = Patched(ps, Len(code))
  BY <1>2, <1>4
<1>9. CodeOK(code', Len(vars), R, StartsOf(blocks)) /\ Len(code') = Len(code)
  <2>1. /\ CodeOK(Patched(ps, Len(code)), Len(vars), R, StartsOf(blocks))
        /\ Len(Patched(ps, Len(code))) = Len(code)
    BY <1>6, <1>7, PatchEnd
  <2> QED BY <1>8, <2>1
<1>10. Sound(code', vars, returns, blocks, work')
  BY <1>3, <1>4, <1>5, <1>9 DEF Sound
<1>11. Sound(code, vars, returns, blocks, work)'
  BY <1>2, <1>10
<1>12. code' \in Seq(WordType)
  BY <1>9 DEF CodeOK
<1>13. /\ status' = "body" /\ BufferOK' /\ Room'
       /\ Noted(debug, lines, last_op, last_line, Len(code))'
  BY <1>2, <1>3, <1>9, <1>12, KeepStep
<1>14. StacksOK'
  BY <1>2, <1>3, <1>5 DEF StacksOK
<1> QED BY <1>2, <1>11, <1>13, <1>14, StepKeeps

LEMMA DoVarKeeps == ASSUME Inv, DoVar PROVE Inv'
<1>1. PICK do : do = "var" /\ Doing(do)
  BY DEF DoVar
<1>2. /\ vars' = Append(vars, Current.op) /\ work' = Done
      /\ UNCHANGED <<context, status, size, where, lines>>
      /\ UNCHANGED <<blocks, returns, code>>
  BY DEF DoVar, buffer
<1>3. StacksOK /\ BufferOK /\ Sound(code, vars, returns, blocks, work) /\ Len(code) \in Nat
      /\ status = "body"
  BY <1>1, DoingParts, InBody
<1>4. PICK wk, wk2, t, n, m :
         wk = work /\ wk2 = work' /\ t = Current /\ n = Len(vars) /\ m = n + 1
  OBVIOUS
<1>5. /\ n \in Nat /\ wk \in Seq(Activation) /\ wk # <<>> /\ Activations(wk, n)
      /\ First(t, wk) /\ t.do = "var" /\ Advanced(wk2, wk)
  BY <1>1, <1>2, <1>4, DoingParts DEF First
<1>6. Counted(m, n, t) /\ t.do \notin {"block", "unblock"} /\ t.do \notin {"jump", "land"}
  BY <1>4, <1>5 DEF Counted
<1>7. /\ wk2 \in Seq(Activation) /\ Activations(wk2, m) /\ TaskOK(t, m)
      /\ InLoops(wk2) = InLoops(wk) /\ HolesIn(wk2) = HolesIn(wk)
  BY <1>5, <1>6, WorkDone
<1>8. t.op \in STRING
  BY <1>5, <1>7 DEF TaskOK
<1>9. vars' \in Seq(STRING) /\ Len(vars') = m
  <2>1. vars \in Seq(STRING) /\ vars' = Append(vars, t.op)
    BY <1>2, <1>3, <1>4 DEF StacksOK
  <2> QED BY <1>4, <1>8, <2>1, AppendSeq
<1>10. CodeOK(code, m, PendingOf(returns, blocks, wk), StartsOf(blocks))
  <2>1. CodeOK(code, n, PendingOf(returns, blocks, wk), StartsOf(blocks))
    BY <1>3, <1>4 DEF Sound
  <2> QED BY <1>4, <1>5, <2>1, MoreCode
<1>11. Sound(code, vars', returns, blocks, wk2)
  BY <1>3, <1>4, <1>7, <1>9, <1>10 DEF Sound, PendingOf
<1>12. Sound(code, vars, returns, blocks, work)'
  BY <1>2, <1>4, <1>11
<1>13. /\ status' = "body" /\ BufferOK' /\ Room'
       /\ Noted(debug, lines, last_op, last_line, Len(code))'
  BY <1>2, <1>3, KeepStep DEF BufferOK
<1>14. StacksOK'
  BY <1>2, <1>3, <1>4, <1>7, <1>9 DEF StacksOK
<1> QED BY <1>2, <1>12, <1>13, <1>14, StepKeeps

LEMMA DoPushBlockKeeps == ASSUME Inv, DoPushBlock PROVE Inv'
<1>1. PICK do : do = "block" /\ Doing(do)
  BY DEF DoPushBlock
<1>2. /\ blocks' = Append(blocks, [start |-> Len(code), breaks |-> {}]) /\ work' = Done
      /\ UNCHANGED <<context, status, size, where, lines>>
      /\ UNCHANGED <<vars, returns, code>>
  BY DEF DoPushBlock, buffer
<1>3. StacksOK /\ BufferOK /\ Sound(code, vars, returns, blocks, work) /\ Len(code) \in Nat
      /\ status = "body" /\ Len(vars) \in Nat
  BY <1>1, DoingParts, InBody
<1>4. /\ work' \in Seq(Activation) /\ Activations(work', Len(vars))
      /\ InLoops(work') = InLoops(work) \cup {Len(work)} /\ Len(work) \notin InLoops(work)
      /\ HolesIn(work') = HolesIn(work)
  BY <1>1, <1>2, TaskDone
<1>5. PICK bs, bs2, n : bs = blocks /\ bs2 = blocks' /\ n = Len(code)
  OBVIOUS
<1>6. bs \in Seq(BlockType) /\ n \in Nat /\ Grown(bs2, bs, [start |-> n, breaks |-> {}])
  BY <1>2, <1>3, <1>5 DEF StacksOK, Grown
<1>7. /\ bs2 \in Seq(BlockType) /\ Len(bs2) = Len(bs) + 1
      /\ BreaksOf(bs2) = BreaksOf(bs) /\ StartsOf(bs2) = StartsOf(bs) \cup {n}
  BY <1>6, LoopBegins
<1>8. Len(bs2) = Cardinality(InLoops(work'))
  <2>1. Len(bs) = Cardinality(InLoops(work)) /\ work \in Seq(Activation)
    BY <1>3, <1>5 DEF Sound, StacksOK
  <2>2. Cardinality(InLoops(work) \cup {Len(work)}) = Cardinality(InLoops(work)) + 1
    BY <1>4, <2>1, LoopCount
  <2> QED BY <1>4, <1>7, <2>1, <2>2
<1>9. CodeOK(code, Len(vars), PendingOf(returns, blocks, work), StartsOf(blocks) \cup {Len(code)})
  <2>1. CodeOK(code, Len(vars), PendingOf(returns, blocks, work), StartsOf(blocks))
    BY <1>3 DEF Sound
  <2> QED BY <1>3, <2>1, MoreCode
<1>10. Sound(code, vars, returns, bs2, work')
  BY <1>4, <1>5, <1>7, <1>8, <1>9 DEF Sound, PendingOf
<1>11. Sound(code, vars, returns, blocks, work)'
  BY <1>2, <1>5, <1>10
<1>12. /\ status' = "body" /\ BufferOK' /\ Room'
       /\ Noted(debug, lines, last_op, last_line, Len(code))'
  BY <1>2, <1>3, KeepStep DEF BufferOK
<1>13. StacksOK'
  BY <1>2, <1>3, <1>4, <1>5, <1>7 DEF StacksOK
<1> QED BY <1>2, <1>11, <1>12, <1>13, StepKeeps

LEMMA DoPopBlockKeeps == ASSUME Inv, DoPopBlock PROVE Inv'
<1>1. PICK do : do = "unblock" /\ Doing(do)
  BY DEF DoPopBlock
<1>2. /\ code' = Patched(Block.breaks, Len(code)) /\ blocks' = Front(blocks) /\ work' = Done
      /\ UNCHANGED <<context, status, size, where, lines>>
      /\ UNCHANGED <<vars, returns>>
  BY DEF DoPopBlock
<1>3. StacksOK /\ BufferOK /\ Sound(code, vars, returns, blocks, work) /\ Len(code) \in Nat
      /\ status = "body" /\ Len(vars) \in Nat
  BY <1>1, DoingParts, InBody
<1>4. /\ work' \in Seq(Activation) /\ Activations(work', Len(vars))
      /\ InLoops(work') = InLoops(work) \ {Len(work)} /\ Len(work) \in InLoops(work)
      /\ HolesIn(work') = HolesIn(work)
  BY <1>1, <1>2, TaskDone
<1>5. PICK bs, bs2, last : bs = blocks /\ bs2 = blocks' /\ last = bs[Len(bs)]
  OBVIOUS
<1>6. /\ Len(bs) = Cardinality(InLoops(work))
      /\ Cardinality(InLoops(work) \ {Len(work)}) = Cardinality(InLoops(work)) - 1
      /\ Cardinality(InLoops(work)) > 0
  <2>1. Len(bs) = Cardinality(InLoops(work)) /\ work \in Seq(Activation)
    BY <1>3, <1>5 DEF Sound, StacksOK
  <2> QED BY <1>4, <2>1, LoopCount
<1>7. bs \in Seq(BlockType) /\ bs # <<>> /\ bs2 = Front(bs)
  BY <1>2, <1>3, <1>5, <1>6 DEF StacksOK
<1>8. /\ bs2 \in Seq(BlockType) /\ Len(bs2) = Len(bs) - 1
      /\ StartsOf(bs2) \subseteq StartsOf(bs)
      /\ last.breaks \subseteq BreaksOf(bs) /\ BreaksOf(bs2) \subseteq BreaksOf(bs)
      /\ BreaksOf(bs) \subseteq BreaksOf(bs2) \cup last.breaks
  BY <1>5, <1>7, LoopEnds
<1>9. PICK ps, P, R : /\ ps = last.breaks /\ P = PendingOf(returns, bs, work)
                      /\ R = PendingOf(returns, bs2, work')
  OBVIOUS
<1>10. ps \in SUBSET P /\ R \in SUBSET P /\ P \subseteq R \cup ps
  BY <1>4, <1>8, <1>9 DEF PendingOf
<1>11. CodeOK(code, Len(vars), P, StartsOf(bs2))
  <2>1. CodeOK(code, Len(vars), P, StartsOf(bs))
    BY <1>3, <1>5, <1>9 DEF Sound
  <2> QED BY <1>3, <1>8, <2>1, MoreCode
<1>12. code' = Patched(ps, Len(code))
  BY <1>2, <1>5, <1>9 DEF Block
<1>13. CodeOK(code', Len(vars), R, StartsOf(bs2)) /\ Len(code') = Len(code)
  <2>1. /\ CodeOK(Patched(ps, Len(code)), Len(vars), R, StartsOf(bs2))
        /\ Len(Patched(ps, Len(code))) = Len(code)
    BY <1>10, <1>11, PatchEnd
  <2> QED BY <1>12, <2>1
<1>14. Sound(code', vars, returns, bs2, work')
  BY <1>4, <1>6, <1>8, <1>9, <1>13 DEF Sound
<1>15. Sound(code, vars, returns, blocks, work)'
  BY <1>2, <1>5, <1>14
<1>16. code' \in Seq(WordType)
  BY <1>13 DEF CodeOK
<1>17. /\ status' = "body" /\ BufferOK' /\ Room'
       /\ Noted(debug, lines, last_op, last_line, Len(code))'
  BY <1>2, <1>3, <1>13, <1>16, KeepStep
<1>18. StacksOK'
  BY <1>2, <1>3, <1>4, <1>5, <1>8 DEF StacksOK
<1> QED BY <1>2, <1>15, <1>17, <1>18, StepKeeps

LEMMA DoLeaveKeeps == ASSUME Inv, DoLeave PROVE Inv'
<1>1. PICK do : do = "leave" /\ Doing(do)
  BY DEF DoLeave
<1>2. /\ Add(Hole(Current.op)) /\ blocks # <<>> /\ work' = Done
      /\ blocks' = [blocks EXCEPT ![Len(blocks)].breaks = @ \cup {HoleAt}]
      /\ UNCHANGED <<context, where>> /\ UNCHANGED <<vars, returns>>
  BY DEF DoLeave
<1>3. StacksOK /\ BufferOK /\ Sound(code, vars, returns, blocks, work) /\ Len(code) \in Nat
      /\ status = "body"
  BY <1>1, DoingParts, InBody
<1>4. /\ work' \in Seq(Activation) /\ Activations(work', Len(vars))
      /\ TaskOK(Current, Len(vars)) /\ Current.do = do
      /\ InLoops(work') = InLoops(work) /\ HolesIn(work') = HolesIn(work)
  BY <1>1, <1>2, TaskDone
<1>5. PICK bs, bs2, p : bs = blocks /\ bs2 = blocks' /\ p = Len(code) + 1
  OBVIOUS
<1>6. bs \in Seq(BlockType) /\ bs # <<>> /\ p \in Nat /\ Left(bs2, bs, p)
  BY <1>2, <1>3, <1>5 DEF StacksOK, Left, HoleAt
<1>7. /\ bs2 \in Seq(BlockType) /\ Len(bs2) = Len(bs)
      /\ BreaksOf(bs2) = BreaksOf(bs) \cup {p} /\ StartsOf(bs2) = StartsOf(bs)
  BY <1>6, LoopLeft
<1>8. PICK op, x, words : op = Current.op /\ x = 0 /\ words = One(op, x)
  OBVIOUS
<1>9. op \in JumpOp /\ x \in Int
  BY <1>1, <1>4, <1>8 DEF TaskOK
<1>10. Add(words) /\ Rowed(words)
  BY <1>2, <1>8, <1>9, RowedWords DEF Hole
<1>11. /\ code' = code \o words /\ status' \in {"body", "overrun"} /\ BufferOK' /\ Room'
       /\ Noted(debug, lines, last_op, last_line, Len(code))'
  BY <1>2, <1>3, <1>10, AddStep
<1>12. CodeOK(code \o One(op, x), Len(vars), PendingOf(returns, bs, work) \cup {Len(code) + 1},
              StartsOf(bs))
  <2>1. CodeOK(code, Len(vars), PendingOf(returns, bs, work), StartsOf(bs))
    BY <1>3, <1>5 DEF Sound
  <2> QED BY <1>9, <2>1, AddJump
<1>13. PendingOf(returns, bs, work) \cup {Len(code) + 1} = PendingOf(returns, bs2, work')
  BY <1>4, <1>5, <1>7 DEF PendingOf
<1>14. Sound(code \o words, vars, returns, bs2, work')
  BY <1>3, <1>4, <1>5, <1>7, <1>8, <1>12, <1>13 DEF Sound
<1>15. Sound(code, vars, returns, blocks, work)'
  BY <1>2, <1>5, <1>11, <1>14
<1>16. StacksOK'
  BY <1>2, <1>3, <1>4, <1>5, <1>7 DEF StacksOK
<1> QED BY <1>2, <1>11, <1>15, <1>16, StepKeeps

LEMMA DoReturnKeeps == ASSUME Inv, DoReturn PROVE Inv'
<1>1. PICK do : do = "return" /\ Doing(do)
  BY DEF DoReturn
<1>2. /\ Add(Hole("JUMP")) /\ work' = Done /\ returns' = returns \cup {HoleAt}
      /\ UNCHANGED <<context, where>> /\ UNCHANGED <<vars, blocks>>
  BY DEF DoReturn
<1>3. StacksOK /\ BufferOK /\ Sound(code, vars, returns, blocks, work) /\ Len(code) \in Nat
      /\ status = "body"
  BY <1>1, DoingParts, InBody
<1>4. /\ work' \in Seq(Activation) /\ Activations(work', Len(vars))
      /\ InLoops(work') = InLoops(work) /\ HolesIn(work') = HolesIn(work)
  BY <1>1, <1>2, TaskDone
<1>5. PICK op, x, words : op = "JUMP" /\ x = 0 /\ words = One(op, x)
  OBVIOUS
<1>6. op \in JumpOp /\ x \in Int
  BY <1>5 DEF JumpOp
<1>7. Add(words) /\ Rowed(words)
  BY <1>2, <1>5, <1>6, RowedWords DEF Hole
<1>8. /\ code' = code \o words /\ status' \in {"body", "overrun"} /\ BufferOK' /\ Room'
      /\ Noted(debug, lines, last_op, last_line, Len(code))'
  BY <1>2, <1>3, <1>7, AddStep
<1>9. CodeOK(code \o One(op, x), Len(vars), PendingOf(returns, blocks, work) \cup {Len(code) + 1},
             StartsOf(blocks))
  <2>1. CodeOK(code, Len(vars), PendingOf(returns, blocks, work), StartsOf(blocks))
    BY <1>3 DEF Sound
  <2> QED BY <1>6, <2>1, AddJump
<1>10. PendingOf(returns, blocks, work) \cup {Len(code) + 1}
          = PendingOf(returns', blocks, work')
  BY <1>2, <1>4 DEF PendingOf, HoleAt
<1>11. Sound(code \o words, vars, returns', blocks, work')
  BY <1>3, <1>4, <1>5, <1>9, <1>10 DEF Sound
<1>12. Sound(code, vars, returns, blocks, work)'
  BY <1>2, <1>8, <1>11
<1>13. StacksOK'
  <2>1. returns \subseteq Nat /\ HoleAt \in Nat
    BY <1>3 DEF StacksOK, HoleAt
  <2>2. returns' \subseteq Nat
    BY <1>2, <2>1
  <2> QED BY <1>2, <1>3, <1>4, <2>2 DEF StacksOK
<1> QED BY <1>2, <1>8, <1>12, <1>13, StepKeeps

(* A jump back to where a loop begins.                                     *)
LEMMA BackStep ==
    ASSUME Inv, NEW do, do \in {"continue", "again"}, Doing(do), work' = Done, NEW op \in JumpOp,
           NEW start, start \in StartsOf(blocks), start \in Nat, Add(One(op, start - HoleAt)),
           UNCHANGED <<context, stacks, where>>
    PROVE  Inv'
<1>1. StacksOK /\ BufferOK /\ Sound(code, vars, returns, blocks, work) /\ Len(code) \in Nat
      /\ status = "body"
  BY DoingParts, InBody
<1>2. do # "var" /\ do \notin {"block", "unblock"} /\ do \notin {"jump", "land"}
  OBVIOUS
<1>3. /\ work' \in Seq(Activation) /\ Activations(work', Len(vars))
      /\ InLoops(work') = InLoops(work) /\ HolesIn(work') = HolesIn(work)
  BY <1>2, TaskDone
<1>4. PICK x, words : x = start - HoleAt /\ words = One(op, x)
  OBVIOUS
<1>5. x \in Int /\ Len(code) + 1 + x = start
  BY <1>1, <1>4 DEF HoleAt
<1>6. Add(words) /\ Rowed(words)
  BY <1>4, <1>5, RowedWords
<1>7. /\ code' = code \o words /\ status' \in {"body", "overrun"} /\ BufferOK' /\ Room'
      /\ Noted(debug, lines, last_op, last_line, Len(code))'
  BY <1>1, <1>6, AddStep
<1>8. CodeOK(code \o One(op, x), Len(vars), PendingOf(returns, blocks, work), StartsOf(blocks))
  <2>1. CodeOK(code, Len(vars), PendingOf(returns, blocks, work), StartsOf(blocks))
    BY <1>1 DEF Sound
  <2>2. Len(code) + 1 + x \in StartsOf(blocks)
    BY <1>5
  <2> QED BY <1>5, <2>1, <2>2, AddJump
<1>9. Sound(code \o words, vars, returns, blocks, work)
  BY <1>1, <1>4, <1>8 DEF Sound
<1>10. Sound(code \o words, vars, returns, blocks, work')
  BY <1>3, <1>9, SoundWork
<1>11. UNCHANGED <<vars, blocks, returns>> /\ UNCHANGED context
  BY DEF stacks
<1>12. Sound(code, vars, returns, blocks, work)'
  BY <1>7, <1>10, <1>11
<1>13. StacksOK'
  BY <1>1, <1>3, <1>11 DEF StacksOK
<1> QED BY <1>7, <1>11, <1>12, <1>13, StepKeeps

LEMMA DoContinueKeeps == ASSUME Inv, DoContinue PROVE Inv'
<1>1. PICK do, op : do = "continue" /\ op = "JUMP" /\ Doing(do)
  BY DEF DoContinue
<1>2. StacksOK
  BY <1>1, DoingParts, InBody
<1>3. PICK bs, start : bs = blocks /\ start = bs[Len(bs)].start
  OBVIOUS
<1>4. bs \in Seq(BlockType) /\ bs # <<>>
  BY <1>2, <1>3 DEF DoContinue, StacksOK
<1>5. start \in StartsOf(blocks) /\ start \in Nat
  BY <1>3, <1>4, LoopStarts
<1>6. /\ work' = Done /\ Add(One(op, start - HoleAt)) /\ UNCHANGED <<context, stacks, where>>
  BY <1>1, <1>3 DEF DoContinue, Block
<1>7. op \in JumpOp /\ do \in {"continue", "again"}
  BY <1>1 DEF JumpOp
<1> QED BY <1>1, <1>5, <1>6, <1>7, BackStep

LEMMA DoAgainKeeps == ASSUME Inv, DoAgain PROVE Inv'
<1>1. PICK do, op : do = "again" /\ op = Current.op /\ Doing(do)
  BY DEF DoAgain
<1>2. StacksOK /\ Sound(code, vars, returns, blocks, work)
  BY <1>1, DoingParts, InBody
<1>3. PICK bs, start : bs = blocks /\ start = bs[1].start
  OBVIOUS
<1>4. /\ work' = Done /\ Add(One(op, start - HoleAt)) /\ UNCHANGED <<context, stacks, where>>
  BY <1>1, <1>3 DEF DoAgain
<1>5. /\ TaskOK(Current, Len(vars)) /\ Current.do = do /\ Len(work) \in InLoops(work)
  BY <1>1, <1>4, TaskDone
<1>6. bs \in Seq(BlockType) /\ bs # <<>>
  <2>1. Len(bs) = Cardinality(InLoops(work)) /\ work \in Seq(Activation)
        /\ bs \in Seq(BlockType)
    BY <1>2, <1>3 DEF Sound, StacksOK
  <2>2. Cardinality(InLoops(work)) > 0
    BY <1>5, <2>1, LoopCount
  <2> QED BY <2>1, <2>2
<1>7. start \in StartsOf(blocks) /\ start \in Nat
  BY <1>3, <1>6, LoopStarts
<1>8. op \in JumpOp /\ do \in {"continue", "again"}
  BY <1>1, <1>5 DEF TaskOK
<1> QED BY <1>1, <1>4, <1>7, <1>8, BackStep

LEMMA ListEndKeeps == ASSUME Inv, ListEnd PROVE Inv'
<1>1. /\ status = "body" /\ work # <<>> /\ work[Len(work)].todo = <<>> /\ work' = Front(work)
      /\ UNCHANGED <<context, status, size, where, lines>>
      /\ UNCHANGED <<vars, blocks, returns, code>>
  BY DEF ListEnd, Act, buffer, stacks
<1>2. StacksOK /\ BufferOK /\ Sound(code, vars, returns, blocks, work)
  BY <1>1, InBody
<1>3. PICK wk, wk2, n : wk = work /\ wk2 = work' /\ n = Len(vars)
  OBVIOUS
<1>4. /\ wk \in Seq(Activation) /\ wk # <<>> /\ Activations(wk, n)
      /\ wk[Len(wk)].todo = <<>> /\ wk2 = Front(wk)
  BY <1>1, <1>2, <1>3 DEF StacksOK, Sound
<1>5. /\ wk2 \in Seq(Activation) /\ Activations(wk2, n)
      /\ InLoops(wk2) = InLoops(wk) /\ HolesIn(wk2) = HolesIn(wk)
  BY <1>4, WorkPop
<1>6. Sound(code, vars, returns, blocks, work')
  <2>1. Sound(code, vars, returns, blocks, wk) /\ Activations(wk2, Len(vars))
    BY <1>2, <1>3, <1>5
  <2>2. Sound(code, vars, returns, blocks, wk2)
    BY <1>5, <2>1, SoundWork
  <2> QED BY <1>3, <2>2
<1>7. Sound(code, vars, returns, blocks, work)'
  BY <1>1, <1>6
<1>8. /\ status' = "body" /\ BufferOK' /\ Room'
      /\ Noted(debug, lines, last_op, last_line, Len(code))'
  BY <1>1, <1>2, KeepStep DEF BufferOK
<1>9. StacksOK'
  BY <1>1, <1>2, <1>3, <1>5 DEF StacksOK
<1> QED BY <1>1, <1>7, <1>8, <1>9, StepKeeps

LEMMA VisitKeeps == ASSUME Inv, Visit PROVE Inv'
<1>1. PICK node : node = Head(Act.nodes)
  OBVIOUS
<1>2. /\ status = "body" /\ work # <<>> /\ Act.todo = <<>> /\ Act.nodes # <<>>
      /\ \/ node.line = last_line /\ UNCHANGED where
         \/ /\ debug' = Append(debug, [span |-> Len(code) - last_op, line |-> last_line])
            /\ last_op' = Len(code) /\ last_line' = node.line
      /\ work' = [work EXCEPT ![Len(work)] = [Act EXCEPT !.nodes = Tail(@), !.todo = Plan(node)]]
      /\ UNCHANGED <<context, status, size, lines>>
      /\ UNCHANGED <<vars, blocks, returns, code>>
  BY <1>1 DEF Visit, buffer, stacks
<1>3. /\ ContextOK /\ StacksOK /\ BufferOK /\ Sound(code, vars, returns, blocks, work)
      /\ Len(code) \in Nat /\ Len(vars) \in Nat
      /\ Noted(debug, lines, last_op, last_line, Len(code))
      /\ block_chunk >= 2 => Len(code) <= size
  BY <1>2, InBody
<1>4. PICK wk, wk2, n, nodes, rest, todo :
         /\ wk = work /\ wk2 = work' /\ n = Len(vars)
         /\ nodes = wk[Len(wk)].nodes /\ rest = Tail(nodes) /\ todo = Plan(node)
  OBVIOUS
<1>5. /\ wk \in Seq(Activation) /\ wk # <<>> /\ Activations(wk, n) /\ n \in Nat
      /\ wk[Len(wk)].todo = <<>>
  BY <1>2, <1>3, <1>4 DEF StacksOK, Sound, Act
<1>6. nodes \in Seq(Nodes) /\ nodes # <<>> /\ node = nodes[1]
  <2>1. wk[Len(wk)].nodes \in Seq(Nodes)
    BY <1>5, ActParts
  <2> QED BY <1>1, <1>2, <1>4, <2>1 DEF Act
<1>7. node \in Nodes /\ rest \in Seq(Nodes)
  BY <1>4, <1>6
<1>8. node.line \in Nat
  BY <1>7, NodesAssumption
<1>9. /\ todo \in Seq(TaskType) /\ GoodTodo(todo, n) /\ \A b \in 0 .. 2 : ~Inside(todo, b)
  <2>1. vars \in Seq(STRING) /\ file \in FileType
    BY <1>3 DEF StacksOK, ContextOK
  <2>2. n = Len(vars) /\ n \in Nat
    BY <1>4, <1>5
  <2>3. /\ Plan(node) \in Seq(TaskType) /\ GoodTodo(Plan(node), n)
        /\ \A b \in 0 .. 2 : ~Inside(Plan(node), b)
    BY <1>7, <2>1, <2>2, PlanGood
  <2> QED BY <1>4, <2>3
<1>10. Planned(wk2, wk, rest, todo)
  <2>1. wk2 = [wk EXCEPT ![Len(wk)] =
                 [wk[Len(wk)] EXCEPT !.nodes = Tail(wk[Len(wk)].nodes), !.todo = todo]]
    BY <1>2, <1>4 DEF Act
  <2>2. rest = Tail(wk[Len(wk)].nodes)
    BY <1>4
  <2>3. wk2 = [wk EXCEPT ![Len(wk)] = [wk[Len(wk)] EXCEPT !.nodes = rest, !.todo = todo]]
    BY <2>1, <2>2
  <2> QED BY <2>3 DEF Planned
<1>11. /\ wk2 \in Seq(Activation) /\ Activations(wk2, n)
       /\ InLoops(wk2) = InLoops(wk) /\ HolesIn(wk2) = HolesIn(wk)
  BY <1>5, <1>7, <1>9, <1>10, WorkPlan
<1>12. Sound(code, vars, returns, blocks, work')
  <2>1. Sound(code, vars, returns, blocks, wk) /\ Activations(wk2, Len(vars))
    BY <1>3, <1>4, <1>11
  <2>2. Sound(code, vars, returns, blocks, wk2)
    BY <1>11, <2>1, SoundWork
  <2> QED BY <1>4, <2>2
<1>13. Sound(code, vars, returns, blocks, work)'
  BY <1>2, <1>12
<1>14. /\ Noted(debug', lines, last_op', last_line', Len(code))
       /\ debug' \in Seq(Entry) /\ last_op' \in 0 .. Len(code) /\ last_line' \in Nat
  <2>1. CASE UNCHANGED where
    BY <1>3, <2>1 DEF where, BufferOK
  <2>2. CASE /\ debug' = Append(debug, [span |-> Len(code) - last_op, line |-> last_line])
             /\ last_op' = Len(code) /\ last_line' = node.line
    <3>1. PICK d, d2, l, m, lo, ll, ll2 :
             /\ d = debug /\ d2 = debug' /\ l = lines /\ m = Len(code) /\ lo = last_op
             /\ ll = last_line /\ ll2 = last_line'
      OBVIOUS
    <3>2. /\ d \in Seq(Entry) /\ m \in Nat /\ lo \in 0 .. m /\ ll \in Nat
          /\ Noted(d, l, lo, ll, m) /\ Grown(d2, d, [span |-> m - lo, line |-> ll])
      BY <1>3, <2>2, <3>1 DEF BufferOK, Grown
    <3>3. d2 \in Seq(Entry) /\ Noted(d2, l, m, ll2, m)
      BY <3>2, NotedEntry
    <3> QED BY <1>3, <1>8, <2>2, <3>1, <3>3
  <2> QED BY <1>2, <2>1, <2>2
<1>15. BufferOK'
  BY <1>2, <1>3, <1>14 DEF BufferOK
<1>16. Noted(debug, lines, last_op, last_line, Len(code))'
  BY <1>2, <1>14
<1>17. Room'
  BY <1>2, <1>3 DEF Room, context
<1>18. StacksOK'
  BY <1>2, <1>3, <1>4, <1>11 DEF StacksOK
<1>19. status' \in {"body", "overrun"}
  BY <1>2
<1> QED BY <1>2, <1>13, <1>15, <1>16, <1>17, <1>18, <1>19, StepKeeps

(* The compiler gives up, or is done.                                      *)
LEMMA StopKeeps ==
    ASSUME Inv, status' \in {"failed", "done"},
           status' = "done" => status = "between",
           UNCHANGED <<context, buffer, work, stacks, where, lines>>
    PROVE  Inv'
<1>1. UNCHANGED <<file, block_chunk, compiled, code, size, vars, blocks, returns, work,
                  debug, last_op, last_line, lines>>
  BY DEF context, buffer, stacks, where
<1>2. TypeOK' /\ file' \in Files
  BY <1>1 DEF Inv, TypeOK
<1>3. BodyInv' /\ Recorded' /\ LinesRight' /\ Room'
  BY DEF BodyInv, Recorded, LinesRight, Room
<1>4. Between' /\ Results'
  BY <1>1 DEF Inv, Between, Results
<1> QED BY <1>2, <1>3, <1>4 DEF Inv

LEMMA FailKeeps == ASSUME Inv, Fail PROVE Inv'
<1>1. /\ status' = "failed" /\ UNCHANGED <<context, buffer, work, stacks, where, lines>>
  BY DEF Fail
<1> QED BY <1>1, StopKeeps

LEMMA CompleteKeeps == ASSUME Inv, Complete PROVE Inv'
<1>1. /\ status = "between" /\ status' = "done"
      /\ UNCHANGED <<context, buffer, work, stacks, where, lines>>
  BY DEF Complete
<1> QED BY <1>1, StopKeeps

(* A function begins with nothing compiled of it.                          *)
LEMMA BeginKeeps == ASSUME Inv, Begin PROVE Inv'
<1>1. PICK f : f = file.funcs[Len(compiled) + 1]
  OBVIOUS
<1>2. /\ status = "between" /\ Len(compiled) < Len(file.funcs)
      /\ vars' = f.args \o f.varg /\ work' = << Listing(Transform(f.body, file.line)) >>
      /\ code' = <<>> /\ size' = 0 /\ lines' = <<>>
      /\ debug' = <<>> /\ last_line' = file.line /\ last_op' = 0 /\ status' = "body"
      /\ UNCHANGED context /\ UNCHANGED <<blocks, returns>>
  BY <1>1 DEF Begin
<1>3. ContextOK /\ StacksOK /\ file \in Files /\ blocks = <<>> /\ returns = {}
  BY <1>2, TypeParts DEF Inv, Between
<1>4. Len(compiled) + 1 \in DOMAIN file.funcs /\ file.funcs \in Seq([name : STRING,
         args : Seq(STRING), varg : Seq(STRING), body : Seq(Nodes), method : BOOLEAN])
      /\ file.line \in Nat
  BY <1>2, <1>3 DEF ContextOK, FileType
<1>5. f.args \in Seq(STRING) /\ f.varg \in Seq(STRING)
  <2>1. PICK funcs, k : funcs = file.funcs /\ k = Len(compiled) + 1
    OBVIOUS
  <2>2. PICK T : T = [name : STRING, args : Seq(STRING), varg : Seq(STRING),
                      body : Seq(Nodes), method : BOOLEAN]
    OBVIOUS
  <2>3. k \in DOMAIN funcs /\ funcs \in Seq(T)
    BY <1>4, <2>1, <2>2
  <2>4. funcs[k] \in T
    BY <2>3
  <2>5. funcs[k].args \in Seq(STRING) /\ funcs[k].varg \in Seq(STRING)
    BY <2>2, <2>4
  <2> QED BY <1>1, <2>1, <2>5
<1>6. PICK nodes : nodes = Transform(f.body, file.line)
  OBVIOUS
<1>7. nodes \in Seq(Nodes)
  <2>1. PICK k : k = Len(compiled) + 1
    OBVIOUS
  <2>2. k \in DOMAIN file.funcs /\ nodes = Transform(file.funcs[k].body, file.line)
    BY <1>1, <1>4, <1>6, <2>1
  <2>3. nodes \in {Transform(file.funcs[j].body, file.line) : j \in DOMAIN file.funcs}
    BY <2>2
  <2>4. nodes \in UNION {{Transform(g.funcs[j].body, g.line) : j \in DOMAIN g.funcs} : g \in Files}
    BY <1>3, <2>3
  <2> QED BY <2>4, TransformAssumption
<1>8. PICK wk, wk2 : wk = <<>> /\ wk2 = Append(wk, Listing(nodes))
  OBVIOUS
<1>9. work' = wk2
  BY <1>2, <1>6, <1>8
<1>10. vars' \in Seq(STRING)
  <2>1. f.args \o f.varg \in Seq(STRING)
    BY <1>5, ConcatSeq
  <2> QED BY <1>2, <2>1
<1>11. PICK n : n = Len(vars')
  OBVIOUS
<1>12. wk \in Seq(Activation) /\ Activations(wk, n)
  BY <1>8 DEF Activations
<1>13. /\ wk2 \in Seq(Activation) /\ Activations(wk2, n)
       /\ InLoops(wk2) = InLoops(wk) /\ HolesIn(wk2) = HolesIn(wk)
  BY <1>7, <1>8, <1>12, WorkPush
<1>14. InLoops(wk2) = {} /\ HolesIn(wk2) = {} /\ Cardinality({}) = 0
  BY <1>8, <1>13, NoWork
<1>15. CodeOK(<<>>, n, {}, {})
  BY DEF CodeOK, Indexed, JumpsBut
<1>16. Sound(code, vars, returns, blocks, work)'
  <2>1. PendingOf({}, <<>>, wk2) = {} /\ StartsOf(<<>>) = {}
    BY <1>14, NoLoops DEF PendingOf
  <2>2. Sound(<<>>, vars', {}, <<>>, wk2)
    BY <1>11, <1>13, <1>14, <1>15, <2>1 DEF Sound
  <2> QED BY <1>2, <1>3, <1>9, <2>2
<1>17. StacksOK'
  BY <1>2, <1>3, <1>9, <1>10, <1>13 DEF StacksOK
<1>18. BufferOK'
  BY <1>2, <1>4 DEF BufferOK
<1>19. Room'
  BY <1>2 DEF Room
<1>20. Noted(debug, lines, last_op, last_line, Len(code))'
  <2>1. Noted(<<>>, <<>>, 0, file.line, 0)
    BY NotedStart
  <2>2. Len(code') = 0
    BY <1>2
  <2> QED BY <1>2, <2>1, <2>2
<1>21. status' \in {"body", "overrun"}
  BY <1>2
<1> QED BY <1>2, <1>16, <1>17, <1>18, <1>19, <1>20, <1>21, StepKeeps

(* A function is finished with every jump patched.                         *)
LEMMA FinishedCode ==
    ASSUME NEW n, NEW end, end = Len(code) + 2, CodeOK(code, n, returns, {})
    PROVE  /\ CodeOK(Patched(returns, end) \o Push(NilConst), n, {}, {})
           /\ Patched(returns, end) \in Seq(WordType) /\ Len(Patched(returns, end)) = Len(code)
           /\ Rowed(Push(NilConst)) /\ Len(Push(NilConst)) = 2
<1>1. PICK ps, c, w, e, p : /\ ps = returns /\ c = code /\ w = Push(NilConst) /\ e = c \o w
                            /\ p = Patched(ps, end)
  OBVIOUS
<1>2. CodeOK(c, n, ps, {}) /\ c \in Seq(WordType) /\ Len(c) \in Nat
      /\ \A q \in ps : q \in 1 .. Len(c) - 1
  BY <1>1 DEF CodeOK, IsHole
<1>3. GoodWords(w, n) /\ Rowed(w) /\ w \in Seq(WordType) /\ Len(w) = 2
  <2>1. GoodWords(w, n)
    BY <1>1, NilType, PushWords
  <2>2. Len(w) = 2
    BY <1>1 DEF Push
  <2> QED BY <2>1, <2>2, RowedWords DEF GoodWords
<1>4. CodeOK(e, n, ps, {})
  BY <1>1, <1>2, <1>3, AddCode
<1>5. /\ e \in Seq(WordType) /\ Len(e) = end
      /\ \A i \in 1 .. end : e[i] = IF i <= Len(c) THEN c[i] ELSE w[i - Len(c)]
  <2>1. /\ c \o w \in Seq(WordType) /\ Len(c \o w) = Len(c) + Len(w)
        /\ \A i \in 1 .. Len(c) + Len(w) :
              (c \o w)[i] = IF i <= Len(c) THEN c[i] ELSE w[i - Len(c)]
    BY <1>2, <1>3, JoinSeq
  <2> QED BY <1>1, <1>3, <2>1
<1>6. Begins(e, end)
  BY <1>1, <1>2, <1>5 DEF Begins
<1>7. PICK d, to : to = end /\ Filled(d, e, ps, to)
  BY DEF Filled
<1>8. CodeOK(d, n, {}, {}) /\ Len(d) = Len(e)
  <2>1. PICK P, R, Q : P = ps /\ R = {} /\ Q = {}
    OBVIOUS
  <2>2. ps \in SUBSET P /\ R \in SUBSET P /\ P \subseteq R \cup ps /\ CodeOK(e, n, P, Q)
    BY <1>4, <2>1
  <2>3. Begins(e, to) /\ Filled(d, e, ps, to)
    BY <1>6, <1>7
  <2>4. CodeOK(d, n, R, Q) /\ Len(d) = Len(e)
    BY <2>2, <2>3, PatchCode
  <2> QED BY <2>1, <2>4
<1>9. p \in Seq(WordType) /\ Len(p) = Len(c)
  <2>1. ps \in SUBSET Nat /\ end \in Nat /\ code \in Seq(WordType)
    BY <1>1, <1>2
  <2>2. Patched(ps, end) \in Seq(WordType) /\ Len(Patched(ps, end)) = Len(code)
    BY <2>1, PatchedWords
  <2> QED BY <1>1, <2>2
<1>10. /\ p \o w \in Seq(WordType) /\ Len(p \o w) = end
       /\ \A i \in 1 .. end : (p \o w)[i] = IF i <= Len(c) THEN p[i] ELSE w[i - Len(c)]
  <2>1. /\ p \o w \in Seq(WordType) /\ Len(p \o w) = Len(p) + Len(w)
        /\ \A i \in 1 .. Len(p) + Len(w) :
              (p \o w)[i] = IF i <= Len(p) THEN p[i] ELSE w[i - Len(p)]
    <3>1. p \in Seq(WordType) /\ w \in Seq(WordType)
      BY <1>3, <1>9
    <3> QED BY <3>1, JoinSeq
  <2> QED BY <1>1, <1>3, <1>9, <2>1
<1>11. \A i \in 1 .. end : (p \o w)[i] = d[i]
  <2> SUFFICES ASSUME NEW i \in 1 .. end PROVE (p \o w)[i] = d[i]
    OBVIOUS
  <2>1. d[i] = IF i - 1 \in ps THEN [e[i] EXCEPT !.n = end - (i - 1)] ELSE e[i]
    BY <1>5, <1>7 DEF Filled
  <2>2. CASE i <= Len(c)
    <3>1. i \in 1 .. Len(c) /\ e[i] = c[i] /\ (p \o w)[i] = p[i]
      BY <1>2, <1>5, <1>10, <2>2
    <3>2. p[i] = IF i - 1 \in ps THEN [c[i] EXCEPT !.n = end - (i - 1)] ELSE c[i]
      BY <1>1, <3>1 DEF Patched
    <3> QED BY <2>1, <3>1, <3>2
  <2>3. CASE ~(i <= Len(c))
    <3>1. i - 1 \notin ps
      BY <1>2, <2>3
    <3>2. (p \o w)[i] = w[i - Len(c)] /\ e[i] = w[i - Len(c)]
      BY <1>5, <1>10, <2>3
    <3> QED BY <2>1, <3>1, <3>2
  <2> QED BY <2>2, <2>3
<1>12. p \o w = d
  <2>1. d \in Seq(WordType) /\ Len(d) = end
    BY <1>5, <1>8 DEF CodeOK
  <2> QED BY <1>10, <1>11, <2>1, SameSeq
<1> QED BY <1>1, <1>3, <1>8, <1>9, <1>12

LEMMA FinishKeeps == ASSUME Inv, Finish PROVE Inv'
<1>1. PICK end, p, w, then : /\ end = Len(code) + 2 /\ p = Patched(returns, end)
                             /\ w = Push(NilConst) /\ then = "between"
  OBVIOUS
<1>2. /\ status = "body" /\ work = <<>> /\ AddTo(p, w, then)
      /\ debug' = Append(debug, [span |-> end - last_op, line |-> last_line])
      /\ compiled' = Append(compiled, Finished(code')) /\ returns' = {}
      /\ UNCHANGED <<file, block_chunk, vars, blocks, work, last_op, last_line>>
  BY <1>1 DEF Finish
<1>3. /\ ContextOK /\ StacksOK /\ BufferOK /\ Sound(code, vars, returns, blocks, work)
      /\ Noted(debug, lines, last_op, last_line, Len(code))
      /\ block_chunk >= 2 => Len(code) <= size
      /\ block_chunk \in Nat /\ Len(code) \in Nat /\ Len(vars) \in Nat
  BY <1>2, InBody
<1>4. blocks = <<>>
  <2>1. Len(blocks) = 0 /\ blocks \in Seq(BlockType)
    BY <1>2, <1>3, NoWork DEF Sound, StacksOK
  <2> QED BY <2>1, EmptySeq
<1>5. CodeOK(code, Len(vars), returns, {})
  <2>1. PendingOf(returns, <<>>, <<>>) = returns /\ StartsOf(<<>>) = {}
    BY NoWork, NoLoops DEF PendingOf
  <2> QED BY <1>2, <1>3, <1>4, <2>1 DEF Sound
<1>6. /\ CodeOK(p \o w, Len(vars), {}, {})
      /\ p \in Seq(WordType) /\ Len(p) = Len(code) /\ Rowed(w) /\ Len(w) = 2
  BY <1>1, <1>5, FinishedCode
<1>7. size \in Nat
  BY <1>3 DEF BufferOK
<1>8. /\ code' = p \o w /\ size' \in Nat
      /\ lines' = lines \o [i \in 1 .. Len(w) |-> last_line]
      /\ status' \in {"overrun", then}
      /\ block_chunk >= 2 /\ Len(p) <= size =>
            status' = then /\ Len(p) + Len(w) <= size'
  BY <1>2, <1>3, <1>6, <1>7, AddToParts
<1>9. code' \in Seq(WordType) /\ Len(code') = end
  <2>1. w \in Seq(WordType)
    BY <1>6 DEF Rowed
  <2>2. p \o w \in Seq(WordType) /\ Len(p \o w) = Len(p) + Len(w)
    BY <1>6, <2>1, JoinSeq
  <2> QED BY <1>1, <1>6, <1>8, <2>2
<1>10. /\ lines' \in Seq(Nat) /\ debug' \in Seq(Entry)
       /\ Noted(debug', lines', end, last_line, end)
  <2>1. PICK d, d2, l, l2, n, m, lo, ll :
           /\ d = debug /\ d2 = debug' /\ l = lines /\ l2 = lines'
           /\ n = Len(code) /\ m = 2 /\ lo = last_op /\ ll = last_line
    OBVIOUS
  <2>2. /\ d \in Seq(Entry) /\ l \in Seq(Nat) /\ n \in Nat /\ lo \in 0 .. n /\ ll \in Nat
        /\ Noted(d, l, lo, ll, n) /\ m \in Nat
    BY <1>3, <2>1 DEF BufferOK
  <2>3. Marked(l2, l, m, ll)
    BY <1>6, <1>8, <2>1 DEF Marked
  <2>4. l2 \in Seq(Nat) /\ Noted(d, l2, lo, ll, n + m)
    BY <2>2, <2>3, NotedWords
  <2>5. PICK e : e = n + m
    OBVIOUS
  <2>6. e \in Nat /\ lo \in 0 .. e /\ Noted(d, l2, lo, ll, e)
    BY <2>2, <2>4, <2>5
  <2>7. e = end
    BY <1>1, <2>1, <2>5
  <2>8. Grown(d2, d, [span |-> e - lo, line |-> ll])
    BY <1>2, <2>1, <2>7 DEF Grown
  <2>9. d2 \in Seq(Entry) /\ Noted(d2, l2, e, ll, e)
    BY <2>2, <2>6, <2>8, NotedEntry
  <2> QED BY <2>1, <2>4, <2>7, <2>9
<1>11. PICK f : f = Finished(code')
  OBVIOUS
<1>12. /\ f \in [code : Seq(WordType), varc : Nat, vars : Seq(STRING)]
       /\ f.code = code' /\ f.varc = Len(vars)
  BY <1>3, <1>9, <1>11 DEF Finished, StacksOK
<1>13. /\ compiled' \in Seq([code : Seq(WordType), varc : Nat, vars : Seq(STRING)])
       /\ DOMAIN compiled' = 1 .. Len(compiled) + 1 /\ DOMAIN compiled = 1 .. Len(compiled)
       /\ \A k \in 1 .. Len(compiled) : compiled'[k] = compiled[k]
       /\ compiled'[Len(compiled) + 1] = f
  <2>1. PICK T : T = [code : Seq(WordType), varc : Nat, vars : Seq(STRING)]
    OBVIOUS
  <2>2. compiled \in Seq(T) /\ f \in T /\ compiled' = Append(compiled, f)
    BY <1>2, <1>3, <1>11, <1>12, <2>1 DEF ContextOK
  <2>3. /\ compiled' \in Seq(T) /\ Len(compiled') = Len(compiled) + 1
        /\ \A k \in 1 .. Len(compiled) : compiled'[k] = compiled[k]
        /\ compiled'[Len(compiled) + 1] = f
    BY <2>2, AppendSeq
  <2> QED BY <2>1, <2>2, <2>3
<1>14. Results'
  <2> SUFFICES ASSUME NEW k \in 1 .. Len(compiled) + 1
               PROVE  CodeOK(compiled'[k].code, compiled'[k].varc, {}, {})
    BY <1>13 DEF Results
  <2>1. CASE k = Len(compiled) + 1
    BY <1>6, <1>8, <1>12, <1>13, <2>1
  <2>2. CASE k # Len(compiled) + 1
    <3>1. k \in 1 .. Len(compiled)
      BY <2>2
    <3> QED BY <1>13, <3>1 DEF Inv, Results
  <2> QED BY <2>1, <2>2
<1>15. status' \in {"overrun", "between"} /\ (block_chunk >= 2 => status' = "between")
  BY <1>1, <1>3, <1>6, <1>8
<1>16. Len(code') \in Nat /\ last_op \in 0 .. Len(code')
  BY <1>1, <1>3, <1>9 DEF BufferOK
<1>17. TypeOK'
  <2>1. StacksOK'
    BY <1>2, <1>3 DEF StacksOK
  <2>2. BufferOK'
    BY <1>2, <1>3, <1>8, <1>9, <1>10, <1>16 DEF BufferOK
  <2>3. ContextOK'
    BY <1>2, <1>3, <1>13 DEF ContextOK
  <2> QED BY <1>15, <2>1, <2>2, <2>3 DEF TypeOK, ContextOK, StacksOK, BufferOK, BlockType, Entry
<1>18. file' \in Files /\ BodyInv' /\ Recorded'
  BY <1>2, <1>15 DEF Inv, BodyInv, Recorded
<1>19. Between'
  BY <1>2, <1>4 DEF Between
<1>20. Room'
  BY <1>2, <1>15 DEF Room
<1>21. LinesRight'
  <2>1. /\ SumTo(debug', Len(debug')) = Len(code')
        /\ \A q \in 0 .. Len(code') - 1 : LineOf(debug', q) = lines'[q + 1]
    BY <1>9, <1>10 DEF Noted
  <2> QED BY <2>1 DEF LinesRight, SpansTo, SumTo, GetLineOf, LineOf
<1> QED BY <1>14, <1>17, <1>18, <1>19, <1>20, <1>21 DEF Inv

-----------------------------------------------------------------------------
(* The invariant holds *)

LEMMA InitInv == ASSUME Init PROVE Inv
<1>1. TypeOK /\ file \in Files
  BY FilesAssumption DEF Init, TypeOK
<1>2. BodyInv /\ Between /\ Room /\ Recorded /\ LinesRight
  BY DEF Init, BodyInv, Between, Room, Recorded, LinesRight
<1>3. Results
  BY DEF Init, Results
<1> QED BY <1>1, <1>2, <1>3 DEF Inv

LEMMA StutterInv == ASSUME Inv, UNCHANGED cvars PROVE Inv'
<1>1. UNCHANGED <<file, block_chunk, compiled, status, code, size, vars, blocks, returns, work,
                  debug, last_op, last_line, lines>>
  BY DEF cvars, context, buffer, stacks, where
<1>2. TypeOK' /\ file' \in Files
  BY <1>1 DEF Inv, TypeOK
<1>3. BodyInv'
  BY <1>1 DEF Inv, BodyInv
<1>4. Between' /\ Results' /\ Room'
  BY <1>1 DEF Inv, Between, Results, Room
<1>5. Recorded' /\ LinesRight'
  BY <1>1 DEF Inv, Recorded, LinesRight, SpansTo, GetLineOf
<1> QED BY <1>2, <1>3, <1>4, <1>5 DEF Inv

LEMMA NextInv == ASSUME Inv, [Next]_cvars PROVE Inv'
<1>1. CASE Begin
  BY <1>1, BeginKeeps
<1>2. CASE Visit
  BY <1>2, VisitKeeps
<1>3. CASE ListEnd
  BY <1>3, ListEndKeeps
<1>4. CASE DoSub
  BY <1>4, DoSubKeeps
<1>5. CASE DoEmit
  BY <1>5, DoEmitKeeps
<1>6. CASE DoJump
  BY <1>6, DoJumpKeeps
<1>7. CASE DoLand
  BY <1>7, DoLandKeeps
<1>8. CASE DoVar
  BY <1>8, DoVarKeeps
<1>9. CASE DoPushBlock
  BY <1>9, DoPushBlockKeeps
<1>10. CASE DoPopBlock
  BY <1>10, DoPopBlockKeeps
<1>11. CASE DoLeave
  BY <1>11, DoLeaveKeeps
<1>12. CASE DoContinue
  BY <1>12, DoContinueKeeps
<1>13. CASE DoAgain
  BY <1>13, DoAgainKeeps
<1>14. CASE DoReturn
  BY <1>14, DoReturnKeeps
<1>15. CASE Fail
  BY <1>15, FailKeeps
<1>16. CASE Finish
  BY <1>16, FinishKeeps
<1>17. CASE Complete
  BY <1>17, CompleteKeeps
<1>18. CASE UNCHANGED cvars
  BY <1>18, StutterInv
<1> QED BY <1>1, <1>2, <1>3, <1>4, <1>5, <1>6, <1>7, <1>8, <1>9, <1>10, <1>11, <1>12, <1>13,
           <1>14, <1>15, <1>16, <1>17, <1>18 DEF Next, CompileNode

LEMMA CompilerInv == Spec => []Inv
<1>1. Init => Inv
  BY InitInv
<1>2. Inv /\ [Next]_cvars => Inv'
  BY NextInv
<1> QED BY <1>1, <1>2, PTL DEF Spec

-----------------------------------------------------------------------------
(* The theorems *)

(* Every variable of the compiler keeps its type: the words it adds, the   *)
(* tasks it plans for a node, the blocks and the line table; and the line  *)
(* table is never ahead of the code (compiler.cpp:73-78).                  *)
THEOREM TypeOKThm == Spec => []TypeOK
<1>1. Inv => TypeOK
  BY DEF Inv
<1> QED BY <1>1, CompilerInv, PTL

(* In every function that Compile finishes, of every file, every jump goes *)
(* to where an instruction begins or to the end: the distances of ifs,     *)
(* loops, breaks, continues and returns were each patched, once and at     *)
(* their own place.                                                        *)
THEOREM JumpsLandThm == Spec => []JumpsLand
<1>1. Inv => JumpsLand
  <2> SUFFICES ASSUME Inv, NEW k \in DOMAIN compiled, NEW c, c = compiled[k].code,
                      NEW i \in 1 .. Len(c), IsJump(c[i])
               PROVE  Landed(c, i)
    BY DEF JumpsLand
  <2>1. CodeOK(c, compiled[k].varc, {}, {})
    BY DEF Inv, Results
  <2>2. IsHole(c, i) /\ Begins(c, Destination(c, i))
    BY <2>1 DEF CodeOK, JumpsBut
  <2>3. i < Len(c) /\ c[i + 1].word = "arg"
    BY <2>1, <2>2 DEF IsHole, CodeOK
  <2> QED BY <2>2, <2>3 DEF Landed
<1> QED BY <1>1, CompilerInv, PTL

(* A finished function names no variable outside of its frame, although    *)
(* the indexes were put into its code before the last variable was         *)
(* declared and the size of the frame is taken at the end.                 *)
THEOREM VariablesExistThm == Spec => []VariablesExist
<1>1. Inv => VariablesExist
  <2> SUFFICES ASSUME Inv, NEW k \in DOMAIN compiled, NEW c, c = compiled[k].code,
                      NEW i \in 1 .. Len(c), c[i].word = "op",
                      c[i].text \in {"LOOKUP", "ASSIGN", "ITER"}
               PROVE  c[i + 1].n \in 0 .. compiled[k].varc - 1
    BY DEF VariablesExist
  <2>1. CodeOK(c, compiled[k].varc, {}, {})
    BY DEF Inv, Results
  <2> QED BY <2>1 DEF CodeOK, Indexed, IndexOp
<1> QED BY <1>1, CompilerInv, PTL

(* The lists of open loops and of return jumps, which the functions of a   *)
(* file share, are empty between two functions.                            *)
THEOREM NothingCarriedThm == Spec => []NothingCarried
<1>1. Inv => NothingCarried
  BY DEF Inv, Between, NothingCarried
<1> QED BY <1>1, CompilerInv, PTL

(* The line table of a finished function has for each of its words the     *)
(* line the compiler was at when it added the word, and ends with the      *)
(* code.                                                                   *)
THEOREM LinesRightThm == Spec => []LinesRight
<1>1. Inv => LinesRight
  BY DEF Inv
<1> QED BY <1>1, CompilerInv, PTL

(* With a block_chunk of 2 or more nothing is written past the buffer of   *)
(* a function, however its words come in ones, twos and fours.             *)
THEOREM OverrunBySmallChunkThm == Spec => []OverrunBySmallChunk
<1>1. Inv => OverrunBySmallChunk
  <2> SUFFICES ASSUME Inv, status = "overrun" PROVE block_chunk < 2
    BY DEF OverrunBySmallChunk
  <2>1. block_chunk \in Nat /\ ~(block_chunk >= 2)
    BY FilesAssumption DEF Inv, TypeOK, Room
  <2> QED BY <2>1
<1> QED BY <1>1, CompilerInv, PTL
=============================================================================
