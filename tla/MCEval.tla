------------------------------- MODULE MCEval -------------------------------
(***************************************************************************)
(* Small programs for the evaluator: the code is what compiler.cpp emits   *)
(* for the script in the comment, every statement ending in POP, every     *)
(* return in a jump to the end, every function in the PUSH nil that        *)
(* Compile adds.  Together they use every opcode.                          *)
(***************************************************************************)
EXTENDS Eval, Depths, TLC

CONSTANTS
    fn_div, fn_call, fn_then, fn_zero, fn_show, fn_cast, fn_index, fn_at, fn_each,
    fn_logic, fn_struct, fn_pause, fn_rest, fn_apply, fn_post, fn_square,
    odd_toString, ok_toString, bad_toString, wide_toString, ok_toInt, bad_toInt, me_run,
    cf_num, cf_print, cf_hook,         \* functions, cf_ for C functions
    arr, str, iter,                 \* an array, a string, an iterator
    good, bad, wide, lazy, odd,     \* instances of five script classes
    ty_class, ty_number,              \* type values
    run, x                          \* names

C_Functions == {cf_num, cf_print, cf_hook}
Methods == {ok_toString, bad_toString, wide_toString, ok_toInt, bad_toInt, me_run}
MC_Function ==
    C_Functions \cup Methods \cup
    {fn_div, fn_call, fn_then, fn_zero, fn_show, fn_cast, fn_index, fn_at, fn_each,
     fn_logic, fn_struct, fn_pause, fn_rest, fn_apply, fn_square}
Post_Function == MC_Function \cup {fn_post, odd_toString}
MC_Array     == {arr}
MC_String    == {str}
MC_Struct    == {good, bad, wide, lazy}
Post_Struct  == MC_Struct \cup {odd}
MC_Iterator  == {iter}
MC_TypeValue == {ty_class, ty_number}
MC_Addr      == [v \in Object |-> 5]
MC_Name      == {toString, toInt, run, x}
MC_Security  == {"read", "write"}

(* Which rights a file was loaded with: the first few functions come from  *)
(* files with fewer.                                                       *)
Rights(f) == CASE f \in {fn_div, ok_toString} -> {"read"}
               [] f \in {fn_show, fn_zero} -> {"write"}
               [] OTHER -> {"read", "write"}

Arity(f) == CASE f \in {fn_zero, cf_print} -> 0
              [] f \in {wide_toString, me_run, fn_post} -> 2
              [] OTHER -> 1
Locals(f) == CASE f \in {fn_zero} -> 0
               [] f \in {fn_call, fn_cast, fn_index, fn_each, fn_struct, fn_rest,
                         wide_toString, me_run, fn_post} -> 2
               [] f = fn_logic -> 3
               [] OTHER -> 1
MC_Func ==
    [f \in Function |->
       [argc |-> Arity(f), varc |-> Locals(f), varg |-> f \in {fn_rest, cf_print},
        cfunc |-> f \in C_Functions, access |-> Rights(f)]]

I(op)       == [op |-> op, arg |-> Nil, n |-> 0]
N(op, n)    == [op |-> op, arg |-> Nil, n |-> n]
P(v)        == [op |-> "PUSH", arg |-> v, n |-> 0]
M(name, n)  == [op |-> "METHOD", arg |-> name, n |-> n]
Get(name)   == [op |-> "GET_MEMBER", arg |-> name, n |-> 0]
Set(name)   == [op |-> "SET_MEMBER", arg |-> name, n |-> 0]
L(n)        == N("LOOKUP", n)

Script(f) ==
  CASE f = fn_div ->    \* fn_div (a) { return 1 / a; }
         << P(1), L(1), I("DIVIDE"), N("JUMP", 6), P(Nil) >>
    [] f = fn_call ->   \* fn_call (a) { var r = fn_div(a); return r + 1; }
         << L(1), P(fn_div), N("INVOKE", 1), N("ASSIGN", 2), I("POP"),
            L(2), P(1), I("ADD"), N("JUMP", 11), P(Nil) >>
    [] f = fn_then ->   \* fn_then (a) { 1 / a; fn_zero(); }
         << P(1), L(1), I("DIVIDE"), I("POP"),
            P(fn_zero), N("INVOKE", 0), I("POP"), P(Nil) >>
    [] f = fn_zero ->   \* fn_zero () { return 0; }
         << P(0), N("JUMP", 4), P(Nil) >>
    [] f = fn_show ->   \* fn_show (o) { return o :: o; }
         << L(1), L(1), I("CONCAT"), N("JUMP", 6), P(Nil) >>
    [] f = fn_cast ->   \* fn_cast (o) { var n = Int(o); return String(n); }
         << L(1), I("INTCAST"), N("ASSIGN", 2), I("POP"),
            L(2), I("STRINGCAST"), N("JUMP", 9), P(Nil) >>
    [] f = fn_index ->  \* fn_index (o) { var a = [1, o]; a[o] = a[0];
                        \*                return a[o] in a; }
         << P(1), L(1), N("NEWARRAY", 2), N("ASSIGN", 2), I("POP"),
            L(2), L(1), L(2), P(0), I("INDEX"), I("SETINDEX"), I("POP"),
            L(2), L(2), L(1), I("INDEX"), I("IN"), N("JUMP", 20), P(Nil) >>
    [] f = fn_at ->     \* fn_at (o) { o[1] = 2; 0 in o; return o[1]; }
         << L(1), P(1), P(2), I("SETINDEX"), I("POP"),
            L(1), P(0), I("IN"), I("POP"),
            L(1), P(1), I("INDEX"), N("JUMP", 15), P(Nil) >>
    [] f = fn_each ->   \* fn_each (o) { foreach (var v in o) if (v > 1) return v; }
         << L(1), N("ITER", 2), N("FJUMP", 12), L(2), P(1), I("GT"), I("TEST"),
            I("POP"), N("FJUMP", 2), L(2), N("JUMP", 14), I("POP"), P(Nil) >>
    [] f = fn_logic ->  \* fn_logic (a) { var b = a < 1 && !(a == 0); var i = 0;
                        \*   while (i <= 0 || b != b) i = - (i - 1);
                        \*   i *= 2; return i++ >= 2; }
         << L(1), P(1), I("LT"), I("TEST"), N("FJUMP", 11), I("POP"),
            L(1), P(0), I("EQUAL"), I("NOT"),
            N("ASSIGN", 2), I("POP"), P(0), N("ASSIGN", 3), I("POP"),
            L(3), P(0), I("LTE"), I("TEST"), N("TJUMP", 25), I("POP"),
            L(2), L(2), I("NEQUAL"),
            I("TEST"), I("POP"), N("FJUMP", 35),
            L(3), P(1), I("SUBTRACT"), I("NEGATE"), N("ASSIGN", 3), I("POP"),
            N("JUMP", 16),
            L(3), P(2), I("MULTIPLY"), N("ASSIGN", 3), I("POP"),
            L(3), N("COPY", 1), P(1), I("ADD"), N("ASSIGN", 3), I("POP"),
            P(2), I("GTE"), N("JUMP", 50), P(Nil) >>
    [] f = fn_struct -> \* fn_struct (o) { var p = new Class; p.x = o.x;
                        \*   o.run(p); return Class(p); }
         << P(ty_class), I("NEW"), N("ASSIGN", 2), I("POP"),
            L(2), L(1), Get(x), Set(x), I("POP"),
            L(1), L(2), M(run, 1), I("POP"),
            L(2), P(ty_class), I("TYPECAST"), N("JUMP", 19), P(Nil) >>
    [] f = fn_pause ->  \* fn_pause (a) { yield; return a; }
         << I("YIELD"), L(1), N("JUMP", 5), P(Nil) >>
    [] f = fn_rest ->   \* fn_rest (a, & more) { cf_print(a, more); return more; }
         << L(1), L(2), P(cf_print), N("INVOKE", 2), I("POP"),
            L(2), N("JUMP", 9), P(Nil) >>
    [] f = fn_apply ->  \* fn_apply (g) { return 1 + (g)(2) + cf_hook(g); }
         << P(1), P(2), L(1), N("INVOKE", 1), I("ADD"),
            L(1), P(cf_hook), N("INVOKE", 1), I("ADD"), N("JUMP", 12), P(Nil) >>
    [] f = fn_square -> \* fn_square (a) { return a * a; }
         << L(1), L(1), I("MULTIPLY"), N("JUMP", 6), P(Nil) >>
    [] f = fn_post ->   \* fn_post (a, b) { 1 / b; a[0] ++; }
         << P(1), L(2), I("DIVIDE"), I("POP"),
            L(1), P(0), I("INDEX"), N("COPY", 1), P(1), I("ADD"), I("SETINDEX"),
            I("POP"), I("POP"), P(Nil) >>
    [] f = ok_toString ->   \* toString () { return "..."; }
         << P(str), N("JUMP", 4), P(Nil) >>
    [] f = bad_toString ->  \* toString () { return fn_call(0); }
         << P(0), P(fn_call), N("INVOKE", 1), N("JUMP", 6), P(Nil) >>
    [] f = wide_toString -> \* toString (base) { return base; }
         << L(2), N("JUMP", 4), P(Nil) >>
    [] f = odd_toString ->  \* toString () { self.x ++; yield; }
         << L(1), Get(x), N("COPY", 1), P(1), I("ADD"), Set(x),
            I("POP"), I("POP"), I("YIELD"), P(Nil) >>
    [] f = ok_toInt ->      \* toInt () { return 1; }
         << P(1), N("JUMP", 4), P(Nil) >>
    [] f = bad_toInt ->     \* toInt () { fn_then(0); }
         << P(0), P(fn_then), N("INVOKE", 1), I("POP"), P(Nil) >>
    [] f = me_run ->        \* run (a) { return a; }
         << L(2), N("JUMP", 4), P(Nil) >>

MC_Code == [f \in Function |-> IF f \in C_Functions THEN <<>> ELSE Script(f)]

MC_Depth == [f \in Function |-> Depths(MC_Code[f])]

MC_Method ==
    [v \in Number \cup Object |->
       [m \in Name |->
          CASE v \in Number /\ m = toString -> cf_num
            [] v = good /\ m = toString -> ok_toString
            [] v = good /\ m = toInt -> ok_toInt
            [] v = good /\ m = run -> me_run
            [] v = bad /\ m = toString -> bad_toString
            [] v = bad /\ m = toInt -> bad_toInt
            [] v = wide /\ m = toString -> wide_toString
            [] v = lazy /\ m \in {toString, toInt} -> fn_pause
            [] v = odd /\ m = toString -> odd_toString
            [] v = wide /\ m = run -> cf_hook
            [] v = str /\ m = run -> cf_print
            [] OTHER -> NoMethod]]
MC_IsInstance == [t \in TypeValue |-> IF t = ty_number THEN Number ELSE Struct]
MC_Stored  == {1, 2}
MC_Garbage == {Nil, -1}

MC_CReturns == [f \in C_Functions |->
                  CASE f = cf_num -> {str} [] f = cf_print -> {Nil} [] OTHER -> {Nil, 1}]
MC_CRaises  == [f \in C_Functions |->
                  IF f = cf_hook THEN {SXE_BADARGS} ELSE {}]
Call(f, v)  == [func |-> f, args |-> <<v>>]
MC_CInvokes == [f \in C_Functions |->
                  IF f = cf_hook THEN {Call(fn_div, 1), Call(fn_call, 0), Call(fn_show, bad)}
                  ELSE {}]
No_CRaises  == [f \in C_Functions |-> {}]
Ok_CInvokes == [f \in C_Functions |->
                  IF f = cf_hook THEN {Call(fn_div, 1), Call(fn_show, good)} ELSE {}]

(* What the host invokes, per run.                                         *)
Calls(F, V) == {Call(f, v) : f \in F, v \in V}
Host_Clean ==
    Calls({fn_div, fn_call}, {1, 2}) \cup Calls({fn_show, fn_cast}, {good, Nil, 3})
    \cup Calls({fn_index}, {good, 0}) \cup Calls({fn_each}, {arr, Nil})
    \cup Calls({fn_logic}, {-1, 0, str}) \cup Calls({fn_struct}, {good})
    \cup Calls({fn_rest}, {1}) \cup Calls({fn_apply}, {fn_div, ok_toInt})
    \cup {[func |-> fn_rest, args |-> <<1, 2, 3>>]}
Host_Errors ==
    Calls({fn_div, fn_then, fn_call}, {0}) \cup Calls({fn_square}, {11})
    \cup Calls({fn_show, fn_index, fn_cast}, {bad, wide, lazy}) \cup Calls({fn_at}, {1, arr})
    \cup Calls({fn_each}, {1}) \cup Calls({fn_struct}, {1, wide, str})
    \cup Calls({fn_apply}, {1, fn_div, fn_pause, me_run})
    \cup {[func |-> fn_div, args |-> <<>>], [func |-> cf_hook, args |-> <<>>]}
Host_Yield == Calls({fn_pause, fn_apply}, {1, fn_pause})
Host_All == Host_Clean \cup Host_Errors \cup Host_Yield
Host_Straight ==
    Calls({fn_div, fn_call, fn_then, fn_cast, fn_show, fn_index},
          {0, good, bad, wide, lazy})
    \cup Calls({fn_struct}, {good, str, wide, 1}) \cup Calls({fn_at}, {1, arr})
    \cup Calls({fn_apply}, {fn_div, fn_pause, me_run})
    \cup {[func |-> fn_post, args |-> <<v, 1>>] : v \in {arr, 1}} \cup Calls({fn_show, fn_cast}, {odd})
Host_Failed == Calls({fn_call}, {0, 1}) \cup {[func |-> cf_hook, args |-> <<>>]}
Host_Lvalue == {[func |-> fn_post, args |-> <<arr, b>>] : b \in {0, 1}}
=============================================================================
