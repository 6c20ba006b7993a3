------------------------------ MODULE Bytecode ------------------------------
(***************************************************************************)
(* The instructions of opcodes.h, as the compiler emits them and the       *)
(* evaluator runs them: a record with the opcode (op), the count, variable,*)
(* distance or target that follows it (n), and a value or a name (arg).    *)
(***************************************************************************)
EXTENDS Integers, Sequences

Arithmetic == {"ADD", "SUBTRACT", "MULTIPLY"}
Relational == {"GT", "LT", "GTE", "LTE"}
Opcode == Arithmetic \cup Relational \cup
          {"PUSH", "DIVIDE", "NEGATE", "INVOKE", "CONCAT", "EQUAL", "NEQUAL",
           "NOT", "LOOKUP", "ASSIGN", "INDEX", "NEWARRAY", "TYPECAST",
           "STRINGCAST", "INTCAST", "SETINDEX", "METHOD", "JUMP", "POP", "TEST",
           "TJUMP", "FJUMP", "YIELD", "IN", "SET_MEMBER", "GET_MEMBER", "ITER",
           "NEW", "COPY"}

(* C++ division truncates toward zero.                                     *)
Magnitude(i) == IF i < 0 THEN -i ELSE i
Quotient(a, b) ==
    LET q == Magnitude(a) \div Magnitude(b)
    IN  IF (a < 0) = (b < 0) THEN q ELSE -q

(* How many operands an instruction reads or pops.                         *)
Needs(i) ==
    CASE i.op \in {"PUSH", "LOOKUP", "JUMP", "TJUMP", "FJUMP", "YIELD"} -> 0
      [] i.op \in {"INVOKE", "METHOD"} -> i.n + 1
      [] i.op \in {"NEWARRAY", "COPY"} -> i.n
      [] i.op \in {"NEGATE", "NOT", "ASSIGN", "STRINGCAST", "INTCAST", "POP",
                   "TEST", "GET_MEMBER", "ITER", "NEW"} -> 1
      [] i.op = "SETINDEX" -> 3
      [] OTHER -> 2

(* How many operands it leaves where it found Needs(i), when nothing fails. *)
Leaves(i) ==
    CASE i.op \in {"POP", "JUMP", "TJUMP", "FJUMP", "YIELD"} -> 0
      [] i.op = "COPY" -> i.n + 1
      [] OTHER -> 1

Target(i) == IF i.op \in {"JUMP", "TJUMP", "FJUMP"} THEN {i.n} ELSE {}

(***************************************************************************)
(* Code is balanced when the operands on the stack before an instruction   *)
(* are as many on every path to it: what the compiler owes the evaluator,  *)
(* and does not always give (CodeBalanced in MCCompiler).                  *)
(* The end of the code is where a function returns the value on top.       *)
(***************************************************************************)
Unreached == -1                 \* no path leads to the instruction

Balanced(c, d) ==
    /\ d \in [1 .. Len(c) -> Nat \cup {Unreached}]
    /\ c # <<>> => d[1] = 0
    /\ \A p \in 1 .. Len(c) : d[p] # Unreached =>
         LET after == d[p] - Needs(c[p]) + Leaves(c[p])
             next  == Target(c[p]) \cup (IF c[p].op = "JUMP" THEN {} ELSE {p + 1})
         IN  /\ d[p] >= Needs(c[p])
             /\ \A q \in next : IF q <= Len(c) THEN d[q] = after
                                ELSE q = Len(c) + 1 /\ after >= 1
=============================================================================
