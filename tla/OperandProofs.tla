--------------------------- MODULE OperandProofs ----------------------------
(***************************************************************************)
(* What the evaluator keeps on the data stack that all functions share.    *)
(* When the code is balanced, no instruction, C function or epilogue finds *)
(* too few operands, whatever has gone wrong before; and as long as        *)
(* nothing has, every frame has exactly the ones its code says.  What the  *)
(* compiler emits is balanced but for postfix operators on elements and    *)
(* members, and do loops that jump back over the iterator of a foreach     *)
(* (CodeBalanced in MCCompiler).                                           *)
(*                                                                         *)
(* Both are about three things only: the frames fs, the number n of values *)
(* on the data stack, and the activations cs.  The first half says what    *)
(* holds of the three and shows that the few things an instruction, a call *)
(* or a return does to them preserve it; the second half shows that every  *)
(* step does one of those things.                                          *)
(***************************************************************************)
EXTENDS EvalProofs

-----------------------------------------------------------------------------
(* One frame *)

(* The operands that frame r must find at least.                           *)
Least(r) == IF Func[r.func].cfunc THEN 0
            ELSE IF r.op_ptr <= Len(Code[r.func]) THEN Depth[r.func][r.op_ptr]
            ELSE 1

(* Frame r has x operands, just as its code says.                          *)
Matches(r, x) == IF Func[r.func].cfunc THEN x = 0
                 ELSE IF r.op_ptr <= Len(Code[r.func]) THEN x = Depth[r.func][r.op_ptr]
                 ELSE x >= 1

(* It is at an instruction that a path leads to, or at its end.            *)
Reached(r) == ~Func[r.func].cfunc =>
    /\ r.op_ptr <= Len(Code[r.func]) + 1
    /\ r.op_ptr <= Len(Code[r.func]) => Depth[r.func][r.op_ptr] # Unreached

(* Where an instruction goes on, and the frame r when it has.              *)
Onward(i, p) == Target(i) \cup (IF i.op = "JUMP" THEN {} ELSE {p + 1})
SameButAt(r, q) == q.func = r.func /\ q.top = r.top /\ q.argc = r.argc

(* From r to q, a script frame needs x operands and leaves y instead.      *)
Goes(r, q, x, y) ==
    /\ SameButAt(r, q)
    /\ x \in Nat /\ y \in Nat
    /\ ~Func[r.func].cfunc
    /\ Reached(q)
    /\ Least(r) >= x
    /\ Least(q) <= Least(r) - x + y
    /\ \A z \in Int : Matches(r, z) => z >= x /\ Matches(q, z - x + y)

LEMMA NeedsNat ==
    ASSUME NEW i \in Instruction PROVE Needs(i) \in Nat /\ Leaves(i) \in Nat
  BY DEF Needs, Leaves, Instruction

LEMMA LeastInt ==
    ASSUME BalancedCode, NEW r \in Frame, Reached(r) PROVE Least(r) \in Nat
<1>1. r.func \in Function /\ r.op_ptr \in Nat \ {0}
  BY DEF Frame
<1>2. Code[r.func] \in Seq(Instruction) /\ Balanced(Code[r.func], Depth[r.func])
  BY <1>1, CodeAssumption DEF BalancedCode
<1>3. CASE ~Func[r.func].cfunc /\ r.op_ptr <= Len(Code[r.func])
  <2>1. r.op_ptr \in 1 .. Len(Code[r.func])
    BY <1>1, <1>2, <1>3
  <2> QED BY <1>2, <1>3, <2>1 DEF Least, Reached, Balanced, Unreached
<1> QED BY <1>3 DEF Least

(* What BalancedCode says of one instruction.                              *)
LEMMA BalancedGoes ==
    ASSUME BalancedCode, NEW r \in Frame, NEW q \in Frame, Reached(r), SameButAt(r, q),
           ~Func[r.func].cfunc, r.op_ptr <= Len(Code[r.func]),
           NEW i, i = Code[r.func][r.op_ptr], q.op_ptr \in Onward(i, r.op_ptr)
    PROVE  Goes(r, q, Needs(i), Leaves(i))
<1> DEFINE f == r.func
           p == r.op_ptr
           after == Depth[f][p] - Needs(i) + Leaves(i)
<1>1. f \in Function /\ p \in Nat \ {0} /\ q.op_ptr \in Nat \ {0} /\ q.func = f
  BY DEF Frame, SameButAt
<1>2. Code[f] \in Seq(Instruction) /\ Balanced(Code[f], Depth[f])
  BY <1>1, CodeAssumption DEF BalancedCode
<1>3. p \in 1 .. Len(Code[f]) /\ i \in Instruction
  BY <1>1, <1>2
<1>4. Needs(i) \in Nat /\ Leaves(i) \in Nat
  BY <1>3, NeedsNat
<1>5. Depth[f][p] # Unreached /\ Depth[f][p] \in Nat
  <2>1. Depth[f][p] # Unreached
    BY DEF Reached
  <2> QED BY <1>2, <1>3, <2>1 DEF Balanced
<1>6. /\ Depth[f][p] >= Needs(i)
      /\ IF q.op_ptr <= Len(Code[f]) THEN Depth[f][q.op_ptr] = after
         ELSE q.op_ptr = Len(Code[f]) + 1 /\ after >= 1
  BY <1>2, <1>3, <1>5 DEF Balanced, Onward
<1>7. after \in Nat /\ after # Unreached
  BY <1>4, <1>5, <1>6 DEF Unreached
<1>8. Least(r) = Depth[f][p] /\ \A z \in Int : Matches(r, z) => z = Depth[f][p]
  BY DEF Least, Matches
<1>9. CASE q.op_ptr <= Len(Code[f])
  <2>1. Reached(q)
    BY <1>1, <1>2, <1>6, <1>7, <1>9 DEF Reached
  <2>2. Least(q) = after /\ \A z \in Int : z = after => Matches(q, z)
    BY <1>1, <1>6, <1>9 DEF Least, Matches
  <2> HIDE DEF f, p
  <2> QED BY <1>4, <1>5, <1>6, <1>7, <1>8, <2>1, <2>2 DEF Goes, f
<1>10. CASE ~(q.op_ptr <= Len(Code[f]))
  <2>1. Reached(q) /\ after >= 1
    BY <1>1, <1>2, <1>6, <1>10 DEF Reached
  <2>2. Least(q) = 1 /\ \A z \in Int : z >= 1 => Matches(q, z)
    BY <1>1, <1>10 DEF Least, Matches
  <2> HIDE DEF f, p
  <2> QED BY <1>4, <1>5, <1>6, <1>7, <1>8, <2>1, <2>2 DEF Goes, f
<1> QED BY <1>9, <1>10

(* A frame that PushFrame has just made has none and needs none.           *)
Fresh(r) == r \in Frame /\ r.op_ptr = 1

LEMMA FreshReached ==
    ASSUME BalancedCode, NEW r, Fresh(r)
    PROVE  Reached(r) /\ Least(r) = 0 /\ Matches(r, 0)
<1>1. r.func \in Function /\ r.op_ptr = 1
  BY DEF Fresh, Frame
<1>2. /\ Code[r.func] \in Seq(Instruction) /\ Balanced(Code[r.func], Depth[r.func])
      /\ WellFormed(r.func)
  BY <1>1, CodeAssumption DEF BalancedCode
<1>3. CASE ~Func[r.func].cfunc
  <2>1. Code[r.func] # <<>> /\ Len(Code[r.func]) >= 1
    BY <1>2, <1>3 DEF WellFormed
  <2>2. Depth[r.func][1] = 0
    BY <1>2, <2>1 DEF Balanced
  <2> QED BY <1>1, <1>2, <1>3, <2>1, <2>2 DEF Reached, Least, Matches, Unreached
<1> QED BY <1>3 DEF Reached, Least, Matches

-----------------------------------------------------------------------------
(* The frames, the number of operands and the activations *)

(* What is known of them without looking at operands.                      *)
Nest(fs, cs) ==
    /\ fs \in Seq(Frame) /\ cs \in Seq(Activation)
    /\ \A i, j \in 1 .. Len(cs) : i < j => cs[i].ft < cs[j].ft
    /\ cs # <<>> => Len(fs) >= IF Last(cs).pc = "loop" THEN Last(cs).ft - 1
                               ELSE Last(cs).ft

(* What an activation at pc still adds to the operands.                    *)
Effect(pc) == CASE pc \in {"string", "int", "cfunc"} -> 1
                [] pc \in {"concat1", "concat2", "index"} -> -1
                [] pc = "setindex" -> -2
                [] OTHER -> 0

(* The operands when activation i began, and when frame r was pushed; a    *)
(* frame that has just been popped left its value above.                   *)
Base(fs, cs, i) == fs[cs[i].ft].top
Height(fs, n, r) == IF r <= Len(fs) THEN fs[r].top ELSE n - 1

AllReached(fs) == \A k \in 1 .. Len(fs) : Reached(fs[k])

(* The frames of one activation, left-over ones included, leave each other *)
(* what they need, and what their activation found.                        *)
Stacked(fs, cs) ==
    \A i \in 1 .. Len(cs), k \in 2 .. Len(fs) :
       cs[i].ft < k /\ (i < Len(cs) => k < cs[i + 1].ft) =>
          /\ fs[k].top >= Base(fs, cs, i)
          /\ fs[k].top + 1 >= Base(fs, cs, i) + Least(fs[k - 1])

(* So do the activations: one that waits for another, in a conversion or a *)
(* C function, will find what its top frame needs.                         *)
Waiting(fs, n, cs) ==
    \A i \in 1 .. Len(cs) - 1 :
       LET h == Height(fs, n, cs[i + 1].ft) + Effect(cs[i].pc)
       IN  /\ h >= Base(fs, cs, i) + 1
           /\ h >= Base(fs, cs, i) + Least(fs[cs[i + 1].ft - 1])

(* And so will the innermost; unless it runs, or has yet to pop a frame, a *)
(* value on top of what it found is there to be returned.                  *)
Running(fs, n, cs, run) ==
    cs # <<>> =>
       IF Len(fs) < Last(cs).ft THEN n >= 1
       ELSE LET h == n + Effect(Last(cs).pc)
            IN  /\ h >= Base(fs, cs, Len(cs)) + Least(fs[Len(fs)])
                /\ \/ Last(cs).pc = "exec"
                   \/ Last(cs).pc = "loop" /\ (run \/ Len(fs) > Last(cs).ft)
                   \/ h >= Base(fs, cs, Len(cs)) + 1

Enough(fs, n, cs, run) ==
    /\ Nest(fs, cs)
    /\ AllReached(fs) /\ Stacked(fs, cs) /\ Waiting(fs, n, cs) /\ Running(fs, n, cs, run)

LEMMA EffectInt ==
    ASSUME NEW pc PROVE Effect(pc) \in Int /\ Effect(pc) <= 1 /\ Effect(pc) >= -2
  BY DEF Effect

(* The numbers in all this.                                                *)
LEMMA NestFacts ==
    ASSUME NEW fs, NEW cs, Nest(fs, cs)
    PROVE  /\ Len(fs) \in Nat /\ Len(cs) \in Nat
           /\ \A k \in 1 .. Len(fs) : fs[k] \in Frame /\ fs[k].top \in Nat
           /\ \A i \in 1 .. Len(cs) : cs[i].ft \in Nat \ {0} /\ cs[i].ft <= Len(fs) + 1
           /\ \A i \in 1 .. Len(cs) - 1 : cs[i].ft \in 1 .. Len(fs)
           /\ cs # <<>> => Len(cs) >= 1 /\ Last(cs) = cs[Len(cs)]
           /\ cs # <<>> /\ Last(cs).pc # "loop" => Last(cs).ft \in 1 .. Len(fs)
<1>1. fs \in Seq(Frame) /\ cs \in Seq(Activation) /\ Len(fs) \in Nat /\ Len(cs) \in Nat
  BY DEF Nest
<1>2. /\ \A k \in 1 .. Len(fs) : fs[k] \in Frame /\ fs[k].top \in Nat
      /\ \A i \in 1 .. Len(cs) : cs[i].ft \in Nat \ {0}
  <2>1. \A k \in 1 .. Len(fs) : fs[k] \in Frame
    BY <1>1
  <2>2. \A i \in 1 .. Len(cs) : cs[i] \in Activation
    BY <1>1
  <2> QED BY <2>1, <2>2 DEF Frame, Activation
<1>3. cs # <<>> => Len(cs) >= 1 /\ Last(cs) = cs[Len(cs)] /\ Len(cs) \in 1 .. Len(cs)
  BY <1>1 DEF Last
<1>4. ASSUME NEW i \in 1 .. Len(cs)
      PROVE  cs[i].ft <= Len(fs) + 1 /\ (i < Len(cs) => cs[i].ft <= Len(fs))
  <2>1. cs # <<>> /\ Len(cs) \in 1 .. Len(cs) /\ i \in 1 .. Len(cs)
    BY <1>1, <1>4
  <2>2. Last(cs).ft <= Len(fs) + 1 /\ Last(cs).ft \in Nat /\ Last(cs) = cs[Len(cs)]
    BY <1>1, <1>2, <1>3, <2>1 DEF Nest
  <2>3. i < Len(cs) => cs[i].ft < cs[Len(cs)].ft
    BY <2>1 DEF Nest
  <2>4. cs[i].ft \in Nat
    BY <1>2
  <2> QED BY <1>1, <2>1, <2>2, <2>3, <2>4
<1>5. \A i \in 1 .. Len(cs) - 1 : cs[i].ft \in 1 .. Len(fs)
  BY <1>1, <1>2, <1>4
<1>6. cs # <<>> /\ Last(cs).pc # "loop" => Last(cs).ft \in 1 .. Len(fs)
  BY <1>1, <1>2, <1>3 DEF Nest
<1> QED BY <1>1, <1>2, <1>3, <1>4, <1>5, <1>6

(* A mark above another has a frame under it.                              *)
LEMMA UnderMark ==
    ASSUME NEW l \in Nat, NEW x \in 1 .. l, NEW y \in 1 .. l, x < y
    PROVE  y - 1 \in 1 .. l - 1 /\ y - 1 \in 1 .. l
  OBVIOUS

LEMMA SameHeight ==
    ASSUME NEW fs, NEW n, NEW gs, NEW m, NEW r, r <= Len(fs), r <= Len(gs), gs[r] = fs[r]
    PROVE  Height(gs, m, r) = Height(fs, n, r)
  BY DEF Height

(* The top frame and the innermost activation get on, the rest stays.      *)
OnTop(fs, cs, gs, bs) ==
    /\ Nest(fs, cs) /\ Nest(gs, bs)
    /\ cs # <<>> /\ Len(gs) = Len(fs) /\ Len(bs) = Len(cs)
    /\ \A k \in 1 .. Len(fs) - 1 : gs[k] = fs[k]
    /\ \A k \in 1 .. Len(cs) - 1 : bs[k] = cs[k]
    /\ Last(cs).ft <= Len(fs) /\ Last(bs).ft = Last(cs).ft
    /\ SameButAt(fs[Len(fs)], gs[Len(fs)])

LEMMA OnTopFacts ==
    ASSUME NEW fs, NEW cs, NEW gs, NEW bs, OnTop(fs, cs, gs, bs)
    PROVE  /\ Len(fs) \in Nat \ {0} /\ Len(cs) \in Nat \ {0} /\ bs # <<>>
           /\ Len(gs) = Len(fs) /\ Len(bs) = Len(cs)
           /\ \A k \in 1 .. Len(fs) : gs[k].top = fs[k].top
           /\ \A i \in 1 .. Len(cs) : bs[i].ft = cs[i].ft /\ cs[i].ft \in 1 .. Len(fs)
           /\ \A i \in 1 .. Len(cs) : Base(gs, bs, i) = Base(fs, cs, i)
           /\ \A i \in 1 .. Len(cs) : Base(fs, cs, i) \in Nat
<1>1. /\ Len(fs) \in Nat /\ Len(cs) \in Nat /\ Len(cs) >= 1 /\ Len(bs) \in Nat
      /\ Last(cs) = cs[Len(cs)] /\ Last(cs).ft \in Nat \ {0} /\ Last(cs).ft <= Len(fs)
      /\ Len(bs) = Len(cs) /\ Len(gs) = Len(fs)
  BY NestFacts DEF OnTop
<1>2. bs # <<>> /\ Last(bs) = bs[Len(bs)]
  BY <1>1, NestFacts DEF OnTop
<1>3. \A k \in 1 .. Len(fs) : gs[k].top = fs[k].top
  <2> SUFFICES ASSUME NEW k \in 1 .. Len(fs) PROVE gs[k].top = fs[k].top
    OBVIOUS
  <2>1. CASE k \in 1 .. Len(fs) - 1
    BY <2>1 DEF OnTop
  <2>2. CASE k = Len(fs)
    BY <2>2 DEF OnTop, SameButAt
  <2> QED BY <1>1, <2>1, <2>2
<1>4. \A i \in 1 .. Len(cs) : bs[i].ft = cs[i].ft /\ cs[i].ft \in 1 .. Len(fs)
  <2> SUFFICES ASSUME NEW i \in 1 .. Len(cs)
               PROVE  bs[i].ft = cs[i].ft /\ cs[i].ft \in 1 .. Len(fs)
    OBVIOUS
  <2>1. CASE i \in 1 .. Len(cs) - 1
    BY <2>1, NestFacts DEF OnTop
  <2>2. CASE i = Len(cs)
    BY <1>1, <1>2, <2>2 DEF OnTop
  <2> QED BY <1>1, <2>1, <2>2
<1>5. \A i \in 1 .. Len(cs) : Base(fs, cs, i) \in Nat /\ Base(gs, bs, i) = Base(fs, cs, i)
  BY <1>3, <1>4, NestFacts DEF OnTop, Base
<1> QED BY <1>1, <1>2, <1>3, <1>4, <1>5

(***************************************************************************)
(* An instruction takes x operands and leaves y, or goes into a conversion *)
(* that will; or an instruction or a conversion gets on in the same frame. *)
(***************************************************************************)
LEMMA OnTopRest ==
    ASSUME NEW fs, NEW n \in Nat, NEW cs, NEW run, Enough(fs, n, cs, run),
           NEW gs, NEW m \in Nat, NEW bs, OnTop(fs, cs, gs, bs), Reached(gs[Len(fs)])
    PROVE  AllReached(gs) /\ Stacked(gs, bs) /\ Waiting(gs, m, bs)
<1>0. /\ Len(fs) \in Nat \ {0} /\ Len(cs) \in Nat \ {0}
      /\ Len(gs) = Len(fs) /\ Len(bs) = Len(cs)
      /\ \A k \in 1 .. Len(fs) : gs[k].top = fs[k].top
      /\ \A i \in 1 .. Len(cs) : bs[i].ft = cs[i].ft /\ cs[i].ft \in 1 .. Len(fs)
      /\ \A i \in 1 .. Len(cs) : Base(gs, bs, i) = Base(fs, cs, i)
  BY OnTopFacts
<1>1. \A k \in 1 .. Len(fs) - 1 : gs[k] = fs[k]
  BY DEF OnTop
<1>2. AllReached(gs)
  BY <1>0, <1>1 DEF AllReached, Enough
<1>3. Stacked(gs, bs)
  <2> SUFFICES ASSUME NEW i \in 1 .. Len(cs), NEW k \in 2 .. Len(fs), bs[i].ft < k,
                      i < Len(cs) => k < bs[i + 1].ft
               PROVE  /\ gs[k].top >= Base(gs, bs, i)
                      /\ gs[k].top + 1 >= Base(gs, bs, i) + Least(gs[k - 1])
    BY <1>0 DEF Stacked
  <2>1. /\ i < Len(cs) => i + 1 \in 1 .. Len(cs)
        /\ k \in 1 .. Len(fs) /\ k - 1 \in 1 .. Len(fs) - 1
    BY <1>0
  <2>2. cs[i].ft < k /\ (i < Len(cs) => k < cs[i + 1].ft)
    BY <1>0, <2>1
  <2>3. /\ fs[k].top >= Base(fs, cs, i)
        /\ fs[k].top + 1 >= Base(fs, cs, i) + Least(fs[k - 1])
    BY <1>0, <2>1, <2>2 DEF Enough, Stacked
  <2> QED BY <1>0, <1>1, <2>1, <2>3
<1>4. Waiting(gs, m, bs)
  <2> SUFFICES ASSUME NEW i \in 1 .. Len(cs) - 1
               PROVE  LET h == Height(gs, m, bs[i + 1].ft) + Effect(bs[i].pc)
                      IN  /\ h >= Base(gs, bs, i) + 1
                          /\ h >= Base(gs, bs, i) + Least(gs[bs[i + 1].ft - 1])
    BY <1>0 DEF Waiting
  <2>1. i \in 1 .. Len(cs) /\ i + 1 \in 1 .. Len(cs)
    BY <1>0
  <2>2. bs[i] = cs[i] /\ cs[i].ft < cs[i + 1].ft
    BY <1>0, <2>1 DEF OnTop, Nest
  <2>3. cs[i + 1].ft \in 1 .. Len(fs) /\ cs[i + 1].ft - 1 \in 1 .. Len(fs) - 1
    <3>1. cs[i].ft \in 1 .. Len(fs) /\ cs[i + 1].ft \in 1 .. Len(fs) /\ Len(fs) \in Nat
      BY <1>0, <2>1
    <3> QED BY <2>2, <3>1, UnderMark
  <2>4. /\ Height(gs, m, bs[i + 1].ft) = Height(fs, n, cs[i + 1].ft)
        /\ gs[bs[i + 1].ft - 1] = fs[cs[i + 1].ft - 1]
        /\ Base(gs, bs, i) = Base(fs, cs, i)
    <3>1. gs[cs[i + 1].ft].top = fs[cs[i + 1].ft].top /\ bs[i + 1].ft = cs[i + 1].ft
      BY <1>0, <2>1, <2>3
    <3>2. cs[i + 1].ft <= Len(fs) /\ cs[i + 1].ft <= Len(gs)
      BY <1>0, <2>3
    <3>3. gs[cs[i + 1].ft - 1] = fs[cs[i + 1].ft - 1]
      BY <1>1, <2>3
    <3>4. Base(gs, bs, i) = Base(fs, cs, i)
      BY <1>0, <2>1
    <3> QED BY <3>1, <3>2, <3>3, <3>4 DEF Height
  <2> QED BY <1>0, <2>2, <2>4 DEF Enough, Waiting
<1> QED BY <1>2, <1>3, <1>4

LEMMA WorkEnough ==
    ASSUME NEW fs, NEW n \in Nat, NEW cs, NEW run, Enough(fs, n, cs, run),
           NEW gs, NEW m \in Nat, NEW bs, OnTop(fs, cs, gs, bs), Last(cs).pc = "exec",
           NEW x, NEW y, Goes(fs[Len(fs)], gs[Len(fs)], x, y),
           m + Effect(Last(bs).pc) >= n - x + y, Last(bs).pc = "exec" \/ y >= 1,
           Least(fs[Len(fs)]) \in Nat, Least(gs[Len(fs)]) \in Nat, NEW go
    PROVE  Enough(gs, m, bs, go) /\ n >= x
<1>1. /\ Len(fs) \in Nat \ {0} /\ Len(cs) \in Nat \ {0} /\ bs # <<>>
      /\ Len(gs) = Len(fs) /\ Len(bs) = Len(cs)
      /\ Base(gs, bs, Len(cs)) = Base(fs, cs, Len(cs)) /\ Base(fs, cs, Len(cs)) \in Nat
  BY OnTopFacts
<1>2. Last(bs).ft = Last(cs).ft /\ Last(cs).ft \in Nat /\ Last(cs).ft <= Len(fs) /\ cs # <<>>
  BY NestFacts DEF OnTop
<1>3. Effect(Last(cs).pc) = 0
  BY DEF Effect
<1>4. n >= Base(fs, cs, Len(cs)) + Least(fs[Len(fs)])
  BY <1>1, <1>2, <1>3 DEF Enough, Running
<1>5. /\ x \in Nat /\ y \in Nat
      /\ Least(fs[Len(fs)]) >= x
      /\ Least(gs[Len(fs)]) <= Least(fs[Len(fs)]) - x + y
      /\ Reached(gs[Len(fs)])
  BY DEF Goes
<1>6. Effect(Last(bs).pc) \in Int
  BY EffectInt
<1>7. Running(gs, m, bs, go)
  <2> DEFINE h == m + Effect(Last(bs).pc)
             b == Base(gs, bs, Len(bs))
             least == Least(gs[Len(gs)])
  <2>1. b = Base(fs, cs, Len(cs)) /\ b \in Nat /\ least = Least(gs[Len(fs)]) /\ h \in Int
    BY <1>1, <1>6
  <2>2. h >= n - x + y
    OBVIOUS
  <2>3. n >= b + Least(fs[Len(fs)])
    BY <1>4, <2>1
  <2> HIDE DEF h, b, least
  <2>4. h >= b + least
    BY <1>5, <2>1, <2>2, <2>3
  <2>5. Last(bs).pc = "exec" \/ h >= b + 1
    BY <1>5, <2>1, <2>2, <2>3
  <2>6. ~(Len(gs) < Last(bs).ft)
    BY <1>1, <1>2
  <2> QED BY <2>4, <2>5, <2>6 DEF Running, h, b, least
<1>8. AllReached(gs) /\ Stacked(gs, bs) /\ Waiting(gs, m, bs)
  BY <1>5, OnTopRest
<1> QED BY <1>1, <1>4, <1>5, <1>7, <1>8 DEF Enough, OnTop

(* A conversion gets on or is over, or a C function raises an error.       *)
LEMMA BackEnough ==
    ASSUME NEW fs, NEW n \in Nat, NEW cs, NEW run, Enough(fs, n, cs, run),
           NEW m \in Nat, NEW bs, OnTop(fs, cs, fs, bs),
           Last(cs).pc \notin {"exec", "loop"},
           m + Effect(Last(bs).pc) >= n + Effect(Last(cs).pc), NEW go,
           Least(fs[Len(fs)]) \in Nat
    PROVE  Enough(fs, m, bs, go) /\ n + Effect(Last(cs).pc) >= 1
<1>1. /\ Len(fs) \in Nat \ {0} /\ Len(cs) \in Nat \ {0} /\ bs # <<>>
      /\ Len(bs) = Len(cs)
      /\ Base(fs, bs, Len(cs)) = Base(fs, cs, Len(cs)) /\ Base(fs, cs, Len(cs)) \in Nat
  BY OnTopFacts
<1>2. Last(bs).ft = Last(cs).ft /\ Last(cs).ft \in Nat /\ Last(cs).ft <= Len(fs) /\ cs # <<>>
  BY NestFacts DEF OnTop
<1>3. Effect(Last(bs).pc) \in Int /\ Effect(Last(cs).pc) \in Int
  BY EffectInt
<1>4. /\ n + Effect(Last(cs).pc) >= Base(fs, cs, Len(cs)) + Least(fs[Len(fs)])
      /\ n + Effect(Last(cs).pc) >= Base(fs, cs, Len(cs)) + 1
  BY <1>1, <1>2 DEF Enough, Running
<1>5. Running(fs, m, bs, go)
  <2> DEFINE l == Least(fs[Len(fs)])
             h == m + Effect(Last(bs).pc)
             b == Base(fs, bs, Len(bs))
  <2>1. h >= b + l
    BY <1>1, <1>3, <1>4
  <2>2. h >= b + 1
    BY <1>1, <1>3, <1>4
  <2> HIDE DEF l, h, b
  <2> QED BY <1>1, <1>2, <2>1, <2>2 DEF Running, l, h, b
<1>6. Reached(fs[Len(fs)])
  BY <1>1 DEF Enough, AllReached
<1>7. AllReached(fs) /\ Stacked(fs, bs) /\ Waiting(fs, m, bs)
  BY <1>6, OnTopRest
<1> QED BY <1>1, <1>3, <1>4, <1>5, <1>7 DEF Enough, OnTop

(* run_code, when the state is RUNNING.                                    *)
LEMMA RunEnough ==
    ASSUME NEW fs, NEW n \in Nat, NEW cs, Enough(fs, n, cs, TRUE),
           NEW bs, OnTop(fs, cs, fs, bs), Last(cs).pc = "loop",
           Last(bs).pc \in {"exec", "cfunc"}, Least(fs[Len(fs)]) \in Nat
    PROVE  Enough(fs, n, bs, TRUE)
<1>1. /\ Len(fs) \in Nat \ {0} /\ Len(cs) \in Nat \ {0} /\ bs # <<>>
      /\ Len(bs) = Len(cs)
      /\ Base(fs, bs, Len(cs)) = Base(fs, cs, Len(cs)) /\ Base(fs, cs, Len(cs)) \in Nat
  BY OnTopFacts
<1>2. Last(bs).ft = Last(cs).ft /\ Last(cs).ft \in Nat /\ Last(cs).ft <= Len(fs) /\ cs # <<>>
  BY NestFacts DEF OnTop
<1>3. Effect(Last(cs).pc) = 0 /\ Effect("exec") = 0 /\ Effect("cfunc") = 1
  BY DEF Effect
<1>4. n >= Base(fs, cs, Len(cs)) + Least(fs[Len(fs)])
  BY <1>1, <1>2, <1>3 DEF Enough, Running
<1>5. Running(fs, n, bs, TRUE)
  <2>1. CASE Last(bs).pc = "exec"
    <3>1. Effect(Last(bs).pc) = 0
      BY <1>3, <2>1
    <3>2. n + Effect(Last(bs).pc) >= Base(fs, bs, Len(bs)) + Least(fs[Len(fs)])
      BY <1>1, <1>4, <3>1
    <3> QED BY <1>1, <1>2, <2>1, <3>2 DEF Running
  <2>2. CASE Last(bs).pc = "cfunc"
    <3>1. Effect(Last(bs).pc) = 1
      BY <1>3, <2>2
    <3> QED BY <1>1, <1>2, <1>4, <2>2, <3>1 DEF Running
  <2> QED BY <2>1, <2>2
<1>6. Reached(fs[Len(fs)])
  BY <1>1 DEF Enough, AllReached
<1>7. AllReached(fs) /\ Stacked(fs, bs) /\ Waiting(fs, n, bs)
  BY <1>6, OnTopRest
<1> QED BY <1>5, <1>7 DEF Enough, OnTop

(* One frame more, just made by PushFrame.                                 *)
Pushed(fs, gs) ==
    /\ fs \in Seq(Frame) /\ gs \in Seq(Frame)
    /\ Len(gs) = Len(fs) + 1
    /\ \A k \in 1 .. Len(fs) : gs[k] = fs[k]
    /\ Fresh(gs[Len(gs)])

(* One activation more, of a frame on top of fs.                           *)
Begun(fs, cs, bs) ==
    /\ Len(bs) = Len(cs) + 1
    /\ \A i \in 1 .. Len(cs) : bs[i] = cs[i]
    /\ bs[Len(bs)].pc = "loop" /\ bs[Len(bs)].ft = Len(fs) + 1

LEMMA BegunFacts ==
    ASSUME NEW fs, NEW cs, Nest(fs, cs), cs # <<>> => Last(cs).pc \notin {"exec", "loop"},
           NEW gs, Pushed(fs, gs), NEW bs, Begun(fs, cs, bs), Nest(gs, bs)
    PROVE  /\ Len(fs) \in Nat /\ Len(cs) \in Nat
           /\ \A i \in 1 .. Len(cs) : cs[i].ft \in 1 .. Len(fs)
           /\ cs # <<>> => Last(cs) = cs[Len(cs)]
           /\ Len(cs) > 0 => cs # <<>>
           /\ Len(gs) = Len(fs) + 1 /\ Len(bs) = Len(cs) + 1
           /\ bs # <<>> /\ Last(bs) = bs[Len(bs)]
           /\ \A k \in 1 .. Len(fs) : gs[k] = fs[k]
           /\ \A i \in 1 .. Len(cs) : bs[i] = cs[i]
           /\ bs[Len(bs)].ft = Len(fs) + 1 /\ bs[Len(bs)].pc = "loop"
<1>1. /\ Len(fs) \in Nat /\ Len(cs) \in Nat
      /\ \A i \in 1 .. Len(cs) - 1 : cs[i].ft \in 1 .. Len(fs)
      /\ cs # <<>> => Len(cs) >= 1 /\ Last(cs) = cs[Len(cs)]
                      /\ Last(cs).ft \in 1 .. Len(fs)
  BY NestFacts
<1>2. Len(cs) > 0 => cs # <<>>
  BY EmptySeq DEF Nest
<1>3. \A i \in 1 .. Len(cs) : cs[i].ft \in 1 .. Len(fs)
  <2> SUFFICES ASSUME NEW i \in 1 .. Len(cs) PROVE cs[i].ft \in 1 .. Len(fs)
    OBVIOUS
  <2>1. cs # <<>> /\ (i \in 1 .. Len(cs) - 1 \/ i = Len(cs))
    BY <1>1, <1>2
  <2> QED BY <1>1, <2>1
<1>4. bs # <<>>
  BY <1>1, EmptySeq DEF Begun, Nest
<1>5. Last(bs) = bs[Len(bs)]
  BY <1>4, NestFacts
<1> QED BY <1>1, <1>2, <1>3, <1>4, <1>5 DEF Pushed, Begun

(* Invoke, from the host, from a conversion or from a C function.          *)
LEMMA EnterEnough ==
    ASSUME BalancedCode,
           NEW fs, NEW n \in Nat, NEW cs, NEW run, Enough(fs, n, cs, run),
           cs # <<>> => Last(cs).pc \notin {"exec", "loop"},
           NEW gs, Pushed(fs, gs), gs[Len(gs)].top = n,
           NEW bs, Begun(fs, cs, bs), Nest(gs, bs)
    PROVE  Enough(gs, n, bs, TRUE)
<1>0. Nest(fs, cs)
  BY DEF Enough
<1>1. /\ Len(fs) \in Nat /\ Len(cs) \in Nat /\ Nest(fs, cs)
      /\ \A i \in 1 .. Len(cs) : cs[i].ft \in 1 .. Len(fs)
      /\ cs # <<>> => Last(cs) = cs[Len(cs)]
      /\ Len(cs) > 0 => cs # <<>>
  BY <1>0, BegunFacts
<1>2. /\ Len(gs) = Len(fs) + 1 /\ Len(bs) = Len(cs) + 1 /\ bs # <<>> /\ Last(bs) = bs[Len(bs)]
      /\ \A k \in 1 .. Len(fs) : gs[k] = fs[k]
      /\ \A i \in 1 .. Len(cs) : bs[i] = cs[i]
      /\ bs[Len(bs)].ft = Len(fs) + 1 /\ bs[Len(bs)].pc = "loop"
  BY <1>0, BegunFacts
<1>3. \A i \in 1 .. Len(cs) : Base(gs, bs, i) = Base(fs, cs, i)
  BY <1>1, <1>2 DEF Base
<1>4. Reached(gs[Len(gs)]) /\ Least(gs[Len(gs)]) = 0
  BY FreshReached DEF Pushed
<1>5. AllReached(gs)
  BY <1>1, <1>2, <1>4 DEF AllReached, Enough
<1>6. Stacked(gs, bs)
  <2> SUFFICES ASSUME NEW i \in 1 .. Len(cs) + 1, NEW k \in 2 .. Len(fs) + 1, bs[i].ft < k,
                      i < Len(bs) => k < bs[i + 1].ft
               PROVE  /\ gs[k].top >= Base(gs, bs, i)
                      /\ gs[k].top + 1 >= Base(gs, bs, i) + Least(gs[k - 1])
    BY <1>2 DEF Stacked
  <2>1. i \in 1 .. Len(cs) /\ (i < Len(cs) => i + 1 \in 1 .. Len(cs))
    BY <1>1, <1>2
  <2>2. k \in 2 .. Len(fs) /\ k \in 1 .. Len(fs) /\ k - 1 \in 1 .. Len(fs)
    <3>1. CASE i = Len(cs)
      BY <1>1, <1>2, <3>1
    <3>2. CASE i < Len(cs)
      <4>1. cs[i + 1].ft \in 1 .. Len(fs) /\ bs[i + 1] = cs[i + 1]
        BY <1>1, <1>2, <2>1, <3>2
      <4> QED BY <1>1, <1>2, <2>1, <3>2, <4>1
    <3> QED BY <1>1, <2>1, <3>1, <3>2
  <2>3. cs[i].ft < k /\ (i < Len(cs) => k < cs[i + 1].ft)
    BY <1>1, <1>2, <2>1
  <2>4. /\ fs[k].top >= Base(fs, cs, i)
        /\ fs[k].top + 1 >= Base(fs, cs, i) + Least(fs[k - 1])
    BY <2>1, <2>2, <2>3 DEF Enough, Stacked
  <2> QED BY <1>2, <1>3, <2>1, <2>2, <2>4
<1>7. Waiting(gs, n, bs)
  <2>0. Len(bs) - 1 = Len(cs)
    BY <1>1, <1>2
  <2> SUFFICES ASSUME NEW i \in 1 .. Len(cs)
               PROVE  LET h == Height(gs, n, bs[i + 1].ft) + Effect(bs[i].pc)
                      IN  /\ h >= Base(gs, bs, i) + 1
                          /\ h >= Base(gs, bs, i) + Least(gs[bs[i + 1].ft - 1])
    BY <2>0 DEF Waiting
  <2>1. CASE i = Len(cs)
    <3>1. /\ bs[i + 1].ft = Len(fs) + 1 /\ cs # <<>> /\ Len(fs) \in 1 .. Len(fs)
          /\ Last(cs) = cs[i]
      BY <1>1, <1>2, <2>1
    <3>2. Height(gs, n, bs[i + 1].ft) = n /\ gs[bs[i + 1].ft - 1] = fs[Len(fs)]
      BY <1>1, <1>2, <3>1 DEF Height
    <3>3. ~(Len(fs) < Last(cs).ft)
      BY <1>1, <3>1
    <3>4. /\ n + Effect(cs[i].pc) >= Base(fs, cs, i) + Least(fs[Len(fs)])
          /\ n + Effect(cs[i].pc) >= Base(fs, cs, i) + 1
      BY <2>1, <3>1, <3>3 DEF Enough, Running
    <3> QED BY <1>2, <1>3, <3>2, <3>4
  <2>2. CASE i \in 1 .. Len(cs) - 1
    <3>1. i + 1 \in 1 .. Len(cs) /\ cs[i].ft < cs[i + 1].ft
      <4>1. i \in 1 .. Len(cs) /\ i + 1 \in 1 .. Len(cs) /\ i < i + 1
        BY <1>1, <2>2
      <4>2. \A p, q \in 1 .. Len(cs) : p < q => cs[p].ft < cs[q].ft
        BY <1>1 DEF Nest
      <4> QED BY <4>1, <4>2
    <3>2. cs[i + 1].ft \in 1 .. Len(fs) /\ cs[i + 1].ft - 1 \in 1 .. Len(fs)
      BY <1>1, <3>1
    <3>3. /\ Height(gs, n, bs[i + 1].ft) = Height(fs, n, cs[i + 1].ft)
          /\ gs[bs[i + 1].ft - 1] = fs[cs[i + 1].ft - 1]
      <4>1. bs[i + 1].ft = cs[i + 1].ft
        BY <1>1, <1>2, <3>1
      <4>2. gs[cs[i + 1].ft] = fs[cs[i + 1].ft] /\ gs[cs[i + 1].ft - 1] = fs[cs[i + 1].ft - 1]
        BY <1>2, <3>2
      <4>3. cs[i + 1].ft <= Len(fs) /\ cs[i + 1].ft <= Len(gs)
        BY <1>1, <1>2, <3>2
      <4> QED BY <4>1, <4>2, <4>3, SameHeight
    <3> QED BY <1>2, <1>3, <2>2, <3>3 DEF Enough, Waiting
  <2> QED BY <1>1, <2>1, <2>2
<1>8. Running(gs, n, bs, TRUE)
  <2>1. Effect("loop") = 0
    BY DEF Effect
  <2>2. Base(gs, bs, Len(bs)) = n
    BY <1>2 DEF Base
  <2> QED BY <1>1, <1>2, <1>4, <2>1, <2>2 DEF Running
<1> QED BY <1>5, <1>6, <1>7, <1>8 DEF Enough

(***************************************************************************)
(* A call from the data stack: hs is fs with the caller past the call, gs  *)
(* has the new frame, whose top is under the arguments.                    *)
(***************************************************************************)
LEMMA CallEnough ==
    ASSUME BalancedCode,
           NEW fs, NEW n \in Nat, NEW cs, NEW run, Enough(fs, n, cs, run),
           Last(cs).pc = "exec",
           NEW hs, NEW bs, OnTop(fs, cs, hs, bs), Last(bs).pc = "loop",
           NEW x, Goes(fs[Len(fs)], hs[Len(fs)], x, 1),
           Least(fs[Len(fs)]) \in Nat, Least(hs[Len(fs)]) \in Nat,
           NEW gs, Pushed(hs, gs), gs[Len(gs)].top = n - x,
           NEW m \in Nat, m >= n - x, NEW go
    PROVE  Enough(gs, m, bs, go) /\ n >= x
<1>1. /\ Len(fs) \in Nat \ {0} /\ Len(cs) \in Nat \ {0} /\ bs # <<>>
      /\ Len(hs) = Len(fs) /\ Len(bs) = Len(cs)
      /\ \A i \in 1 .. Len(cs) : bs[i].ft = cs[i].ft /\ cs[i].ft \in 1 .. Len(fs)
      /\ \A i \in 1 .. Len(cs) : Base(hs, bs, i) = Base(fs, cs, i)
      /\ \A i \in 1 .. Len(cs) : Base(fs, cs, i) \in Nat
  BY OnTopFacts
<1>2. /\ Len(gs) = Len(fs) + 1
      /\ \A k \in 1 .. Len(fs) : gs[k] = hs[k]
  BY <1>1 DEF Pushed
<1>3. /\ Last(bs) = bs[Len(cs)] /\ Last(bs).ft = Last(cs).ft /\ Last(cs).ft \in 1 .. Len(fs)
      /\ cs # <<>> /\ Last(cs) = cs[Len(cs)]
  <2>1. cs # <<>> /\ Nest(fs, cs) /\ Nest(hs, bs)
    BY DEF OnTop
  <2>2. Last(cs) = cs[Len(cs)] /\ Last(bs) = bs[Len(bs)]
    BY <1>1, <2>1, NestFacts
  <2> QED BY <1>1, <2>1, <2>2
<1>4. \A i \in 1 .. Len(cs) : Base(gs, bs, i) = Base(fs, cs, i)
  <2>1. \A i \in 1 .. Len(cs) : Base(gs, bs, i) = Base(hs, bs, i)
    BY <1>1, <1>2 DEF Base
  <2> QED BY <1>1, <2>1
<1>5. /\ x \in Nat /\ Least(fs[Len(fs)]) >= x
      /\ Least(hs[Len(fs)]) <= Least(fs[Len(fs)]) - x + 1
      /\ Reached(hs[Len(fs)])
  BY DEF Goes
<1>6. n >= Base(fs, cs, Len(cs)) + Least(fs[Len(fs)])
  <2>1. Effect(Last(cs).pc) = 0
    BY DEF Effect
  <2>2. ~(Len(fs) < Last(cs).ft)
    BY <1>1, <1>3
  <2> QED BY <1>1, <1>3, <2>1, <2>2 DEF Enough, Running
<1>7. /\ n - x >= Base(gs, bs, Len(cs))
       /\ n - x + 1 >= Base(gs, bs, Len(cs)) + Least(hs[Len(fs)])
       /\ Base(gs, bs, Len(cs)) \in Nat /\ n - x \in Int
  <2>1. /\ Base(gs, bs, Len(cs)) = Base(fs, cs, Len(cs))
        /\ Base(fs, cs, Len(cs)) \in Nat
    BY <1>1, <1>4
  <2> QED BY <1>5, <1>6, <2>1
<1>8. AllReached(hs) /\ Stacked(hs, bs) /\ Waiting(hs, m, bs)
  BY <1>5, OnTopRest
<1>9. Reached(gs[Len(gs)]) /\ Least(gs[Len(gs)]) = 0 /\ gs \in Seq(Frame)
  BY FreshReached DEF Pushed
<1>10. AllReached(gs)
  <2> SUFFICES ASSUME NEW k \in 1 .. Len(gs) PROVE Reached(gs[k])
    BY DEF AllReached
  <2>1. k \in 1 .. Len(fs) \/ k = Len(gs)
    BY <1>1, <1>2
  <2> QED BY <1>1, <1>2, <1>8, <1>9, <2>1 DEF AllReached
<1>11. Stacked(gs, bs)
  <2> SUFFICES ASSUME NEW i \in 1 .. Len(cs), NEW k \in 2 .. Len(fs) + 1, bs[i].ft < k,
                      i < Len(cs) => k < bs[i + 1].ft
               PROVE  /\ gs[k].top >= Base(gs, bs, i)
                      /\ gs[k].top + 1 >= Base(gs, bs, i) + Least(gs[k - 1])
    BY <1>1, <1>2 DEF Stacked
  <2>1. CASE k \in 2 .. Len(fs)
    <3>1. /\ hs[k].top >= Base(hs, bs, i)
          /\ hs[k].top + 1 >= Base(hs, bs, i) + Least(hs[k - 1])
      BY <1>1, <1>8, <2>1 DEF Stacked
    <3>2. k \in 1 .. Len(fs) /\ k - 1 \in 1 .. Len(fs)
      BY <2>1
    <3> QED BY <1>1, <1>2, <1>4, <3>1, <3>2
  <2>2. CASE k = Len(fs) + 1
    <3>1. i = Len(cs)
      <4>1. ASSUME i < Len(cs) PROVE FALSE
        <5>1. i + 1 \in 1 .. Len(cs)
          BY <1>1, <4>1
        <5>2. bs[i + 1].ft \in 1 .. Len(fs)
          BY <1>1, <5>1
        <5> QED BY <1>1, <2>2, <4>1, <5>2
      <4> QED BY <1>1, <4>1
    <3>2. gs[k].top = n - x /\ gs[k - 1] = hs[Len(fs)]
      BY <1>1, <1>2, <2>2
    <3> QED BY <1>7, <3>1, <3>2
  <2> QED BY <1>1, <2>1, <2>2
<1>12. Waiting(gs, m, bs)
  <2> SUFFICES ASSUME NEW i \in 1 .. Len(cs) - 1
               PROVE  LET h == Height(gs, m, bs[i + 1].ft) + Effect(bs[i].pc)
                      IN  /\ h >= Base(gs, bs, i) + 1
                          /\ h >= Base(gs, bs, i) + Least(gs[bs[i + 1].ft - 1])
    BY <1>1 DEF Waiting
  <2>1. i \in 1 .. Len(cs) /\ i + 1 \in 1 .. Len(cs)
    BY <1>1
  <2>2. bs[i].ft < bs[i + 1].ft
    BY <1>1, <2>1 DEF OnTop, Nest
  <2>3. bs[i + 1].ft \in 1 .. Len(fs) /\ bs[i + 1].ft - 1 \in 1 .. Len(fs)
    <3>1. bs[i + 1].ft \in 1 .. Len(fs) /\ bs[i].ft \in 1 .. Len(fs)
      BY <1>1, <2>1
    <3>2. Len(fs) \in Nat
      BY <1>1
    <3> QED BY <2>2, <3>1, <3>2, UnderMark
  <2>4. /\ Height(gs, m, bs[i + 1].ft) = Height(hs, m, bs[i + 1].ft)
        /\ gs[bs[i + 1].ft - 1] = hs[bs[i + 1].ft - 1]
        /\ Base(gs, bs, i) = Base(hs, bs, i)
    <3>1. \A k \in 1 .. Len(fs) : gs[k] = hs[k]
      BY <1>2
    <3>2. /\ Len(fs) \in Nat /\ Len(hs) = Len(fs) /\ Len(gs) = Len(fs) + 1
          /\ Base(gs, bs, i) = Base(hs, bs, i)
      BY <1>1, <1>2, <1>4, <2>1
    <3>3. Height(gs, m, bs[i + 1].ft) = Height(hs, m, bs[i + 1].ft)
      <4>1. bs[i + 1].ft <= Len(gs) /\ bs[i + 1].ft <= Len(hs)
        BY <2>3, <3>2
      <4> QED BY <2>3, <3>1, <4>1 DEF Height
    <3> QED BY <2>3, <3>1, <3>2, <3>3
  <2> QED BY <1>1, <1>8, <2>4 DEF Waiting
<1>13. Running(gs, m, bs, go)
  <2>1. Effect(Last(bs).pc) = 0
    BY DEF Effect
  <2>2. m >= Base(gs, bs, Len(bs))
    BY <1>1, <1>7
  <2> QED BY <1>1, <1>2, <1>3, <1>4, <1>9, <2>1, <2>2 DEF Running
<1>14. Nest(gs, bs)
  BY <1>1, <1>2, <1>3, <1>9 DEF OnTop, Nest
<1> QED BY <1>1, <1>5, <1>6, <1>10, <1>11, <1>12, <1>13, <1>14 DEF Enough

(* The top frame is popped and leaves its value.                           *)
Returned(fs, cs, gs, bs) ==
    /\ Nest(fs, cs) /\ Nest(gs, bs) /\ cs # <<>>
    /\ Len(gs) = Len(fs) - 1 /\ Len(bs) = Len(cs)
    /\ \A k \in 1 .. Len(fs) - 1 : gs[k] = fs[k]
    /\ \A k \in 1 .. Len(cs) - 1 : bs[k] = cs[k]
    /\ Last(cs).pc # "loop" /\ Last(bs).pc = "loop" /\ Last(bs).ft = Last(cs).ft

LEMMA ReturnedFacts ==
    ASSUME NEW fs, NEW cs, NEW gs, NEW bs, Returned(fs, cs, gs, bs)
    PROVE  /\ Len(fs) \in Nat \ {0} /\ Len(cs) \in Nat \ {0} /\ bs # <<>>
           /\ Len(gs) = Len(fs) - 1 /\ Len(bs) = Len(cs)
           /\ \A k \in 1 .. Len(fs) - 1 : gs[k] = fs[k]
           /\ \A i \in 1 .. Len(cs) : bs[i].ft = cs[i].ft /\ cs[i].ft \in 1 .. Len(fs)
           /\ Last(cs) = cs[Len(cs)] /\ Last(bs) = bs[Len(cs)]
<1>1. /\ Len(fs) \in Nat /\ Len(cs) \in Nat /\ Len(cs) >= 1
      /\ Last(cs) = cs[Len(cs)] /\ Last(cs).ft \in 1 .. Len(fs)
      /\ Len(bs) = Len(cs)
      /\ \A i \in 1 .. Len(cs) - 1 : cs[i].ft \in 1 .. Len(fs)
  BY NestFacts DEF Returned
<1>2. bs # <<>> /\ Last(bs) = bs[Len(bs)]
  BY <1>1, NestFacts DEF Returned
<1>3. \A i \in 1 .. Len(cs) : bs[i].ft = cs[i].ft /\ cs[i].ft \in 1 .. Len(fs)
  <2> SUFFICES ASSUME NEW i \in 1 .. Len(cs)
               PROVE  bs[i].ft = cs[i].ft /\ cs[i].ft \in 1 .. Len(fs)
    OBVIOUS
  <2>1. CASE i \in 1 .. Len(cs) - 1
    BY <1>1, <2>1 DEF Returned
  <2>2. CASE i = Len(cs)
    BY <1>1, <1>2, <2>2 DEF Returned
  <2> QED BY <1>1, <2>1, <2>2
<1> QED BY <1>1, <1>2, <1>3 DEF Returned

LEMMA ReturnEnough ==
    ASSUME NEW fs, NEW n, NEW cs, NEW run, Enough(fs, n, cs, run),
           NEW gs, NEW bs, Returned(fs, cs, gs, bs),
           NEW m \in Nat, m = fs[Len(fs)].top + 1, NEW go
    PROVE  Enough(gs, m, bs, go)
<1>1. /\ Len(fs) \in Nat \ {0} /\ Len(cs) \in Nat \ {0} /\ bs # <<>>
      /\ Len(gs) = Len(fs) - 1 /\ Len(bs) = Len(cs)
      /\ \A k \in 1 .. Len(fs) - 1 : gs[k] = fs[k]
      /\ \A i \in 1 .. Len(cs) : bs[i].ft = cs[i].ft /\ cs[i].ft \in 1 .. Len(fs)
      /\ Last(cs) = cs[Len(cs)] /\ Last(bs) = bs[Len(cs)]
  BY ReturnedFacts
<1>2. /\ \A i, j \in 1 .. Len(cs) : i < j => cs[i].ft < cs[j].ft
      /\ \A i \in 1 .. Len(cs) - 1 : bs[i] = cs[i]
      /\ Last(bs).pc = "loop" /\ Nest(gs, bs)
  BY DEF Returned, Nest
<1>3. ASSUME NEW i \in 1 .. Len(cs), cs[i].ft < Len(fs)
      PROVE  Base(gs, bs, i) = Base(fs, cs, i)
  <2>1. cs[i].ft \in 1 .. Len(fs) - 1
    BY <1>1, <1>3
  <2> QED BY <1>1, <2>1 DEF Base
<1>4. AllReached(gs)
  BY <1>1 DEF Enough, AllReached
<1>5. Stacked(gs, bs)
  <2> SUFFICES ASSUME NEW i \in 1 .. Len(cs), NEW k \in 2 .. Len(fs) - 1, bs[i].ft < k,
                      i < Len(cs) => k < bs[i + 1].ft
               PROVE  /\ gs[k].top >= Base(gs, bs, i)
                      /\ gs[k].top + 1 >= Base(gs, bs, i) + Least(gs[k - 1])
    BY <1>1 DEF Stacked
  <2>1. /\ i < Len(cs) => i + 1 \in 1 .. Len(cs)
        /\ k \in 2 .. Len(fs) /\ k \in 1 .. Len(fs) - 1 /\ k - 1 \in 1 .. Len(fs) - 1
    BY <1>1
  <2>2. cs[i].ft < k /\ (i < Len(cs) => k < cs[i + 1].ft) /\ cs[i].ft < Len(fs)
    <3>1. cs[i].ft \in 1 .. Len(fs)
      BY <1>1
    <3> QED BY <1>1, <2>1, <3>1
  <2>3. /\ fs[k].top >= Base(fs, cs, i)
        /\ fs[k].top + 1 >= Base(fs, cs, i) + Least(fs[k - 1])
    BY <2>1, <2>2 DEF Enough, Stacked
  <2> QED BY <1>1, <1>3, <2>1, <2>2, <2>3
<1>6. Waiting(gs, m, bs)
  <2> SUFFICES ASSUME NEW i \in 1 .. Len(cs) - 1
               PROVE  LET h == Height(gs, m, bs[i + 1].ft) + Effect(bs[i].pc)
                      IN  /\ h >= Base(gs, bs, i) + 1
                          /\ h >= Base(gs, bs, i) + Least(gs[bs[i + 1].ft - 1])
    BY <1>1 DEF Waiting
  <2>1. i \in 1 .. Len(cs) /\ i + 1 \in 1 .. Len(cs) /\ bs[i] = cs[i]
    BY <1>1, <1>2
  <2>2. cs[i].ft < cs[i + 1].ft /\ cs[i + 1].ft \in 1 .. Len(fs) /\ cs[i].ft \in 1 .. Len(fs)
        /\ bs[i + 1].ft = cs[i + 1].ft
    BY <1>1, <1>2, <2>1
  <2>3. cs[i + 1].ft - 1 \in 1 .. Len(fs) - 1 /\ cs[i].ft < Len(fs)
    BY <1>1, <2>2
  <2>4. Height(gs, m, bs[i + 1].ft) = Height(fs, n, cs[i + 1].ft)
    <3>1. CASE cs[i + 1].ft = Len(fs)
      <4>1. fs[Len(fs)].top \in Nat
        BY <1>1, NestFacts DEF Returned
      <4> QED BY <1>1, <2>2, <3>1, <4>1 DEF Height
    <3>2. CASE cs[i + 1].ft \in 1 .. Len(fs) - 1
      <4>1. Len(fs) \in Nat /\ Len(gs) = Len(fs) - 1
        BY <1>1
      <4>2. cs[i + 1].ft <= Len(gs) /\ cs[i + 1].ft <= Len(fs)
        BY <3>2, <4>1
      <4>3. gs[cs[i + 1].ft] = fs[cs[i + 1].ft]
        BY <1>1, <3>2
      <4> QED BY <2>2, <4>2, <4>3 DEF Height
    <3> QED BY <1>1, <2>2, <3>1, <3>2
  <2>5. gs[bs[i + 1].ft - 1] = fs[cs[i + 1].ft - 1] /\ Base(gs, bs, i) = Base(fs, cs, i)
    BY <1>1, <1>3, <2>1, <2>2, <2>3
  <2> QED BY <2>1, <2>4, <2>5 DEF Enough, Waiting
<1>7. Running(gs, m, bs, go)
  <2>1. Effect(Last(bs).pc) = 0
    BY <1>2 DEF Effect
  <2>2. CASE cs[Len(cs)].ft = Len(fs)
    <3>1. fs[Len(fs)].top \in Nat
      BY <1>1, NestFacts DEF Returned
    <3>2. Len(gs) < Last(bs).ft /\ m >= 1
      BY <1>1, <2>2, <3>1
    <3> QED BY <3>2 DEF Running
  <2>3. CASE cs[Len(cs)].ft < Len(fs)
    <3>1. Len(cs) \in 1 .. Len(cs) /\ Len(fs) \in 2 .. Len(fs) /\ cs[Len(cs)].ft < Len(fs)
          /\ Len(fs) - 1 \in 1 .. Len(fs) - 1
      BY <1>1, <2>3
    <3>2. /\ fs[Len(fs)].top >= Base(fs, cs, Len(cs))
          /\ fs[Len(fs)].top + 1 >= Base(fs, cs, Len(cs)) + Least(fs[Len(fs) - 1])
      BY <3>1 DEF Enough, Stacked
    <3>3. Base(gs, bs, Len(bs)) = Base(fs, cs, Len(cs)) /\ gs[Len(gs)] = fs[Len(fs) - 1]
      BY <1>1, <1>3, <3>1
    <3>4. fs[Len(fs)].top \in Nat /\ Base(fs, cs, Len(cs)) \in Nat
      BY <1>1, <3>1, NestFacts DEF Returned, Base
    <3> DEFINE h == m + Effect(Last(bs).pc)
    <3>5. h >= Base(gs, bs, Len(bs)) + 1 /\ h >= Base(gs, bs, Len(bs)) + Least(gs[Len(gs)])
      BY <2>1, <3>2, <3>3, <3>4
    <3> HIDE DEF h
    <3> QED BY <1>1, <2>3, <3>5 DEF Running, h
  <2>4. cs[Len(cs)].ft \in 1 .. Len(fs)
    BY <1>1
  <2> QED BY <1>1, <2>2, <2>3, <2>4
<1> QED BY <1>2, <1>4, <1>5, <1>6, <1>7 DEF Enough

(***************************************************************************)
(* An activation ends: its frames above the l-th are gone, and its caller, *)
(* if there is one, goes on with m operands, and with its left-over frames.*)
(***************************************************************************)
Ended(fs, cs, l, gs, bs) ==
    /\ Nest(fs, cs) /\ Nest(gs, bs) /\ cs # <<>>
    /\ l \in 0 .. Len(fs) /\ l >= Last(cs).ft - 1
    /\ Len(gs) = l /\ \A k \in 1 .. l : gs[k] = fs[k]
    /\ Len(bs) = Len(cs) - 1 /\ \A i \in 1 .. Len(cs) - 1 : bs[i] = cs[i]

LEMMA EndEnough ==
    ASSUME NEW fs, NEW n \in Nat, NEW cs, NEW run, Enough(fs, n, cs, run),
           NEW l, NEW gs, NEW bs, Ended(fs, cs, l, gs, bs), NEW m \in Nat,
           l < Last(cs).ft => Len(fs) = l /\ m = n - 1,
           l >= Last(cs).ft => /\ m >= Base(fs, cs, Len(cs))
                               /\ m + 1 >= Base(fs, cs, Len(cs)) + Least(fs[l]),
           \A k \in 1 .. Len(fs) : Least(fs[k]) \in Nat, NEW go
    PROVE  Enough(gs, m, bs, go)
<1> DEFINE a == Len(cs)
           ft == Last(cs).ft
<1>1. /\ Nest(fs, cs) /\ Nest(gs, bs) /\ cs # <<>>
      /\ l \in 0 .. Len(fs) /\ l >= ft - 1
      /\ Len(gs) = l /\ (\A k \in 1 .. l : gs[k] = fs[k])
      /\ Len(bs) = a - 1 /\ (\A i \in 1 .. a - 1 : bs[i] = cs[i])
  BY DEF Ended
<1>2. /\ Len(fs) \in Nat /\ a \in Nat /\ a >= 1 /\ Last(cs) = cs[a]
      /\ \A k \in 1 .. Len(fs) : fs[k].top \in Nat
      /\ \A i \in 1 .. a : cs[i].ft \in Nat \ {0}
      /\ ft \in Nat \ {0} /\ l \in Nat
  <2>1. /\ Len(fs) \in Nat /\ a \in Nat /\ a >= 1 /\ Last(cs) = cs[a]
        /\ \A k \in 1 .. Len(fs) : fs[k].top \in Nat
        /\ \A i \in 1 .. a : cs[i].ft \in Nat \ {0}
    BY <1>1, NestFacts
  <2>2. a \in 1 .. a
    BY <2>1
  <2> QED BY <1>1, <2>1, <2>2
<1>3. \A i, j \in 1 .. a : i < j => cs[i].ft < cs[j].ft
  BY <1>1 DEF Nest
<1> HIDE DEF a, ft
<1>4. ft = cs[a].ft
  BY <1>2 DEF ft
<1>5. ASSUME NEW i \in 1 .. a - 1
      PROVE  /\ i \in 1 .. a /\ i + 1 \in 1 .. a
             /\ cs[i].ft \in 1 .. l /\ cs[i].ft <= ft - 1 /\ cs[i].ft < cs[i + 1].ft
             /\ Base(gs, bs, i) = Base(fs, cs, i) /\ Base(fs, cs, i) \in Nat
             /\ Effect(cs[i].pc) \in Int /\ Effect(cs[i].pc) <= 1
             /\ i + 1 < a => cs[i + 1].ft \in 1 .. l /\ bs[i + 1] = cs[i + 1]
  <2>1. i \in 1 .. a /\ i + 1 \in 1 .. a /\ a \in 1 .. a /\ i < a
    BY <1>2
  <2>2. cs[i].ft < ft /\ cs[i].ft < cs[i + 1].ft /\ cs[i].ft \in Nat \ {0}
    BY <1>2, <1>3, <1>4, <2>1
  <2>3. cs[i].ft \in 1 .. l /\ cs[i].ft <= ft - 1
    <3>1. l \in Nat /\ ft \in Nat /\ l >= ft - 1
      BY <1>1, <1>2
    <3> QED BY <2>2, <3>1
  <2>4. Base(gs, bs, i) = Base(fs, cs, i) /\ Base(fs, cs, i) \in Nat
    <3>1. bs[i] = cs[i] /\ gs[cs[i].ft] = fs[cs[i].ft]
      BY <1>1, <2>3
    <3>2. cs[i].ft \in 1 .. Len(fs)
      <4>1. l \in 0 .. Len(fs) /\ Len(fs) \in Nat
        BY <1>1, <1>2
      <4> QED BY <2>3, <4>1
    <3>3. fs[cs[i].ft].top \in Nat
      BY <1>2, <3>2
    <3> QED BY <3>1, <3>3 DEF Base
  <2>5. ASSUME i + 1 < a PROVE cs[i + 1].ft \in 1 .. l /\ bs[i + 1] = cs[i + 1]
    <3>1. i + 1 \in 1 .. a - 1 /\ cs[i + 1].ft < ft /\ cs[i + 1].ft \in Nat \ {0}
      BY <1>2, <1>3, <1>4, <2>1, <2>5
    <3>2. cs[i + 1].ft <= l
      BY <1>1, <1>2, <3>1
    <3> QED BY <1>1, <1>2, <3>1, <3>2
  <2> QED BY <2>1, <2>2, <2>3, <2>4, <2>5, EffectInt
(* What the caller, the activation under it, waits for.                    *)
<1>6. ASSUME a - 1 \in 1 .. a - 1
      PROVE  LET h == Height(fs, n, ft) + Effect(cs[a - 1].pc)
                 b == Base(fs, cs, a - 1)
             IN  h >= b + 1 /\ h >= b + Least(fs[ft - 1])
  <2>1. a - 1 + 1 = a
    BY <1>2
  <2>2. a - 1 \in 1 .. Len(cs) - 1
    BY <1>6 DEF a
  <2>3. cs[a - 1 + 1].ft = ft
    BY <1>4, <2>1
  <2> QED BY <2>2, <2>3 DEF Enough, Waiting
<1>7. ASSUME ft <= Len(fs)
      PROVE  Height(fs, n, ft) = Base(fs, cs, a) /\ Base(fs, cs, a) \in Nat
  BY <1>2, <1>4, <1>7 DEF Height, Base
<1>8. AllReached(gs)
  BY <1>1, <1>2 DEF Enough, AllReached
<1>9. Stacked(gs, bs)
  <2> SUFFICES ASSUME NEW i \in 1 .. a - 1, NEW k \in 2 .. l, bs[i].ft < k,
                      i < Len(bs) => k < bs[i + 1].ft
               PROVE  /\ gs[k].top >= Base(gs, bs, i)
                      /\ gs[k].top + 1 >= Base(gs, bs, i) + Least(gs[k - 1])
    BY <1>1 DEF Stacked
  <2>1. /\ k \in 2 .. Len(fs) /\ k \in 1 .. l /\ k - 1 \in 1 .. l /\ gs[k] = fs[k]
        /\ gs[k - 1] = fs[k - 1] /\ cs[i].ft < k /\ fs[k].top \in Nat
        /\ Least(fs[k - 1]) \in Nat
    <3>1. k \in 2 .. Len(fs) /\ k \in 1 .. l /\ k - 1 \in 1 .. l
      BY <1>1, <1>2
    <3>2. k \in 1 .. Len(fs) /\ k - 1 \in 1 .. Len(fs)
      BY <1>1, <1>2
    <3>3. bs[i] = cs[i]
      BY <1>1
    <3>4. gs[k] = fs[k] /\ gs[k - 1] = fs[k - 1]
      BY <1>1, <3>1
    <3>5. fs[k].top \in Nat /\ Least(fs[k - 1]) \in Nat
      BY <1>2, <3>2
    <3> QED BY <3>1, <3>3, <3>4, <3>5
  <2>2. ASSUME k < cs[i + 1].ft
        PROVE  /\ fs[k].top >= Base(fs, cs, i)
               /\ fs[k].top + 1 >= Base(fs, cs, i) + Least(fs[k - 1])
    BY <1>5, <2>1, <2>2 DEF Enough, Stacked, a
  <2>3. CASE k < cs[i + 1].ft
    BY <1>5, <2>1, <2>2, <2>3
  <2>4. CASE ~(k < cs[i + 1].ft)
    <3>1. i = a - 1 /\ cs[i + 1].ft = ft /\ k >= ft
      <4>1. ~(i + 1 < a)
        <5>1. ASSUME i + 1 < a PROVE FALSE
          <6>1. bs[i + 1] = cs[i + 1] /\ i < Len(bs)
            BY <1>1, <1>2, <1>5, <5>1
          <6> QED BY <2>4, <6>1
        <5> QED BY <5>1
      <4>2. i = a - 1
        <5>1. i \in 1 .. a - 1 /\ a \in Nat
          BY <1>2
        <5> QED BY <4>1, <5>1
      <4> QED BY <1>2, <1>4, <2>4, <4>2
    <3>2. ft <= Len(fs)
      BY <1>2, <2>1, <3>1
    <3>3. /\ Base(fs, cs, a) + Effect(cs[i].pc) >= Base(fs, cs, i) + 1
          /\ Base(fs, cs, a) + Effect(cs[i].pc) >= Base(fs, cs, i) + Least(fs[ft - 1])
      BY <1>6, <1>7, <3>1, <3>2
    <3>4. CASE k = ft
      <4>1. fs[k].top = Base(fs, cs, a)
        BY <1>4, <3>4 DEF Base
      <4>2. /\ Base(fs, cs, i) \in Nat /\ Base(gs, bs, i) = Base(fs, cs, i)
            /\ Effect(cs[i].pc) \in Int /\ Effect(cs[i].pc) <= 1
        BY <1>5
      <4>3. /\ fs[k].top + Effect(cs[i].pc) >= Base(fs, cs, i) + 1
            /\ fs[k].top + Effect(cs[i].pc) >= Base(fs, cs, i) + Least(fs[k - 1])
        BY <3>3, <3>4, <4>1
      <4>4. /\ fs[k].top >= Base(fs, cs, i)
            /\ fs[k].top + 1 >= Base(fs, cs, i) + Least(fs[k - 1])
        BY <2>1, <4>2, <4>3
      <4> QED BY <2>1, <4>2, <4>4
    <3>5. CASE k > ft
      <4>1. a \in 1 .. Len(cs) /\ ~(a < Len(cs)) /\ cs[a].ft < k
        BY <1>2, <1>4, <3>5 DEF a
      <4>2. /\ fs[k].top >= Base(fs, cs, a)
            /\ fs[k].top + 1 >= Base(fs, cs, a) + Least(fs[k - 1])
        BY <2>1, <4>1 DEF Enough, Stacked
      <4>3. /\ Base(fs, cs, a) \in Nat /\ Base(fs, cs, i) \in Nat
            /\ Effect(cs[i].pc) \in Int /\ Effect(cs[i].pc) <= 1
            /\ Base(gs, bs, i) = Base(fs, cs, i)
        BY <1>5, <1>7, <3>2
      <4>4. Base(fs, cs, a) >= Base(fs, cs, i)
        BY <3>3, <4>3
      <4>5. /\ fs[k].top >= Base(fs, cs, i)
            /\ fs[k].top + 1 >= Base(fs, cs, i) + Least(fs[k - 1])
        BY <2>1, <4>2, <4>3, <4>4
      <4> QED BY <2>1, <4>3, <4>5
    <3> QED BY <1>2, <2>1, <3>1, <3>4, <3>5
  <2> QED BY <2>3, <2>4
<1>10. Waiting(gs, m, bs)
  <2> SUFFICES ASSUME NEW i \in 1 .. Len(bs) - 1
               PROVE  LET h == Height(gs, m, bs[i + 1].ft) + Effect(bs[i].pc)
                      IN  /\ h >= Base(gs, bs, i) + 1
                          /\ h >= Base(gs, bs, i) + Least(gs[bs[i + 1].ft - 1])
    BY DEF Waiting
  <2>1. i \in 1 .. a - 1 /\ i + 1 < a /\ i \in 1 .. Len(cs) - 1 /\ bs[i] = cs[i]
    BY <1>1, <1>2 DEF a
  <2>2. cs[i + 1].ft \in 1 .. l /\ cs[i + 1].ft - 1 \in 1 .. l /\ bs[i + 1] = cs[i + 1]
    <3>1. cs[i].ft \in 1 .. l /\ cs[i].ft < cs[i + 1].ft
      BY <1>5, <2>1
    <3>2. cs[i + 1].ft \in 1 .. l /\ bs[i + 1] = cs[i + 1]
      BY <1>5, <2>1
    <3>3. cs[i + 1].ft \in Int /\ cs[i].ft \in Int
      BY <1>2, <3>1, <3>2
    <3>4. cs[i + 1].ft - 1 \in 1 .. l
      BY <1>2, <3>1, <3>2, <3>3
    <3> QED BY <3>2, <3>4
  <2>3. /\ Height(gs, m, bs[i + 1].ft) = Height(fs, n, cs[i + 1].ft)
        /\ gs[bs[i + 1].ft - 1] = fs[cs[i + 1].ft - 1]
        /\ Base(gs, bs, i) = Base(fs, cs, i)
    <3>1. cs[i + 1].ft <= Len(gs) /\ cs[i + 1].ft <= Len(fs)
      <4>1. cs[i + 1].ft \in Int /\ cs[i + 1].ft <= l
        BY <1>2, <2>2
      <4>2. Len(gs) = l /\ l <= Len(fs)
        BY <1>1, <1>2
      <4> QED BY <1>2, <4>1, <4>2
    <3>2. Height(gs, m, bs[i + 1].ft) = Height(fs, n, cs[i + 1].ft)
      BY <1>1, <2>2, <3>1 DEF Height
    <3> QED BY <1>1, <1>5, <2>1, <2>2, <3>2
  <2> QED BY <2>1, <2>3 DEF Enough, Waiting
<1>11. Running(gs, m, bs, go)
  <2> SUFFICES ASSUME bs # <<>> PROVE Running(gs, m, bs, go)
    BY DEF Running
  <2>1. Len(bs) >= 1 /\ Last(bs) = bs[Len(bs)]
    BY <1>1, NestFacts
  <2>2. a - 1 \in 1 .. a - 1 /\ Len(bs) = a - 1 /\ Last(bs) = cs[a - 1]
    BY <1>1, <1>2, <2>1
  <2> DEFINE e == Effect(cs[a - 1].pc)
             b == Base(fs, cs, a - 1)
  <2>3. /\ e \in Int /\ b \in Nat /\ Base(gs, bs, Len(bs)) = b
        /\ cs[a - 1].ft \in 1 .. l
    BY <1>5, <2>2
  <2>4. /\ Height(fs, n, ft) + e >= b + 1
        /\ Height(fs, n, ft) + e >= b + Least(fs[ft - 1])
    BY <1>6, <2>2
  <2>5. l \in 1 .. l /\ gs[Len(gs)] = fs[l] /\ Least(fs[l]) \in Nat
    BY <1>1, <1>2, <2>3
  <2> HIDE DEF e, b
  <2>6. m + e >= b + 1 /\ m + e >= b + Least(fs[l])
    <3>1. CASE l < ft
      <4>1. Len(fs) = l /\ m = n - 1 /\ ft - 1 = l
        <5>1. l < ft => Len(fs) = l /\ m = n - 1
          BY DEF ft
        <5>2. l \in Nat /\ ft \in Nat /\ l >= ft - 1
          BY <1>1, <1>2
        <5>3. ft - 1 = l
          BY <3>1, <5>2
        <5> QED BY <3>1, <5>1, <5>3
      <4>2. Height(fs, n, ft) = m
        BY <1>2, <3>1, <4>1 DEF Height
      <4> QED BY <2>4, <4>1, <4>2
    <3>2. CASE l >= ft
      <4>1. Height(fs, n, ft) = Base(fs, cs, a) /\ Base(fs, cs, a) \in Nat
        BY <1>1, <1>2, <1>7, <3>2
      <4>2. m >= Base(fs, cs, a) /\ m + 1 >= Base(fs, cs, a) + Least(fs[l])
        BY <3>2 DEF a, ft
      <4> QED BY <2>3, <2>4, <2>5, <4>1, <4>2
    <3> QED BY <1>1, <1>2, <3>1, <3>2
  <2>7. ~(Len(gs) < Last(bs).ft) /\ Effect(Last(bs).pc) = e
    BY <1>1, <2>2, <2>3 DEF e
  <2> QED BY <2>3, <2>5, <2>6, <2>7 DEF Running
<1> QED BY <1>1, <1>8, <1>9, <1>10, <1>11 DEF Enough

(* The epilogue of Invoke.                                                 *)
LEMMA FinishEnough ==
    ASSUME NEW fs, NEW n \in Nat, NEW cs, NEW run, Enough(fs, n, cs, run), n >= 1,
           Last(cs).pc = "loop", Len(fs) < Last(cs).ft \/ ~run,
           NEW l, l = IF Len(fs) < Last(cs).ft THEN Len(fs) ELSE Last(cs).ft,
           NEW gs, NEW bs, Ended(fs, cs, l, gs, bs),
           NEW m \in Nat,
           m = IF Len(fs) > Last(cs).ft THEN fs[Last(cs).ft + 1].top ELSE n - 1,
           \A k \in 1 .. Len(fs) : Least(fs[k]) \in Nat, NEW go
    PROVE  Enough(gs, m, bs, go)
<1> DEFINE ft == Last(cs).ft
<1>1. /\ Len(fs) \in Nat /\ Len(cs) \in Nat /\ Len(cs) >= 1 /\ Last(cs) = cs[Len(cs)]
      /\ \A k \in 1 .. Len(fs) : fs[k].top \in Nat
      /\ ft \in Nat \ {0} /\ ft - 1 <= Len(fs) /\ cs # <<>>
  BY NestFacts DEF Ended
<1>2. ASSUME l < ft PROVE Len(fs) = l /\ m = n - 1
  BY <1>1, <1>2
<1>3. ASSUME l >= ft
      PROVE  /\ m >= Base(fs, cs, Len(cs))
             /\ m + 1 >= Base(fs, cs, Len(cs)) + Least(fs[l])
  <2>1. l = ft /\ ft <= Len(fs) /\ ~run
    BY <1>1, <1>3
  <2>2. Base(fs, cs, Len(cs)) \in Nat /\ Least(fs[l]) \in Nat
    BY <1>1, <2>1 DEF Base
  <2>3. CASE Len(fs) > ft
    <3>1. /\ Len(cs) \in 1 .. Len(cs) /\ ft + 1 \in 2 .. Len(fs) /\ cs[Len(cs)].ft < ft + 1
          /\ ft + 1 - 1 = l
      BY <1>1, <2>1, <2>3
    <3>2. ASSUME NEW i \in 1 .. Len(cs), NEW k \in 2 .. Len(fs), i = Len(cs), k = ft + 1
          PROVE  /\ fs[k].top >= Base(fs, cs, i)
                 /\ fs[k].top + 1 >= Base(fs, cs, i) + Least(fs[k - 1])
      <4>1. cs[i].ft < k /\ ~(i < Len(cs))
        BY <1>1, <3>1, <3>2
      <4> QED BY <4>1 DEF Enough, Stacked
    <3>3. PICK i \in 1 .. Len(cs), k \in 2 .. Len(fs) : i = Len(cs) /\ k = ft + 1
      BY <3>1
    <3>4. /\ fs[k].top >= Base(fs, cs, i)
          /\ fs[k].top + 1 >= Base(fs, cs, i) + Least(fs[k - 1])
      BY <3>2, <3>3
    <3>5. m = fs[ft + 1].top
      BY <2>3
    <3> HIDE DEF ft
    <3>6. m = fs[k].top /\ k - 1 = l
      <4>1. m = fs[k].top
        BY <3>3, <3>5
      <4>2. k - 1 = l
        <5>1. ft \in Nat /\ l = ft
          BY <1>1, <2>1
        <5> QED BY <3>3, <5>1
      <4> QED BY <4>1, <4>2
    <3> QED BY <3>3, <3>4, <3>6
  <2>4. CASE ~(Len(fs) > ft)
    <3>1. Effect(Last(cs).pc) = 0
      BY DEF Effect
    <3>2. /\ n + 0 >= Base(fs, cs, Len(cs)) + Least(fs[Len(fs)])
          /\ n + 0 >= Base(fs, cs, Len(cs)) + 1
      <4>1. /\ cs # <<>> /\ ~(Len(fs) < Last(cs).ft) /\ Last(cs).pc = "loop"
            /\ ~(run \/ Len(fs) > Last(cs).ft)
        BY <1>1, <2>1, <2>4
      <4>2. Last(cs).pc # "exec"
        BY <4>1
      <4> QED BY <3>1, <4>1, <4>2 DEF Enough, Running
    <3>3. m = n - 1 /\ l = Len(fs)
      <4>1. Len(fs) = ft /\ Len(fs) \in Nat
        BY <1>1, <2>1, <2>4
      <4> QED BY <2>4, <4>1
    <3> DEFINE b == Base(fs, cs, Len(cs))
               least == Least(fs[Len(fs)])
    <3>4. b \in Nat /\ least \in Nat /\ n >= b + least /\ n >= b + 1
      BY <2>2, <3>2, <3>3
    <3> HIDE DEF b, least
    <3>5. m >= b /\ m + 1 >= b + least
      BY <3>3, <3>4
    <3> QED BY <3>3, <3>5 DEF b, least
  <2> QED BY <2>3, <2>4
<1> HIDE DEF ft
<1>4. /\ l < Last(cs).ft => Len(fs) = l /\ m = n - 1
      /\ l >= Last(cs).ft => /\ m >= Base(fs, cs, Len(cs))
                             /\ m + 1 >= Base(fs, cs, Len(cs)) + Least(fs[l])
  BY <1>2, <1>3 DEF ft
<1>5. \A k \in 1 .. Len(fs) : Least(fs[k]) \in Nat
  OBVIOUS
<1> QED BY <1>4, <1>5, EndEnough

-----------------------------------------------------------------------------
(* Just the operands, as long as nothing has gone wrong *)

(* Where the operands of a frame begin: above the arguments that it was    *)
(* called with from the stack.                                             *)
Root(cs, k) == \E i \in 1 .. Len(cs) : cs[i].ft = k
Bottom(fs, cs, k) == fs[k].top + (IF Root(cs, k) THEN 0 ELSE fs[k].argc)

(* Frame r, with x operands now, has its own when its activation, at pc,   *)
(* is back in the instruction loop.                                        *)
Suits(r, x, pc) == /\ Matches(r, x + (IF pc = "cfunc" THEN 0 ELSE Effect(pc)))
                   /\ pc \in Converting => ~Func[r.func].cfunc

(* A frame that has called another will have its own with the value that   *)
(* returns; one whose activation waits for another, with what is above.    *)
Called(fs, cs) ==
    \A k \in 1 .. Len(fs) - 1 : ~Root(cs, k + 1) =>
       /\ ~Func[fs[k].func].cfunc
       /\ Matches(fs[k], fs[k + 1].top + 1 - Bottom(fs, cs, k))

Entered(fs, n, cs) ==
    \A i \in 1 .. Len(cs) - 1 :
       LET r == cs[i + 1].ft
       IN  Suits(fs[r - 1], Height(fs, n, r) - Bottom(fs, cs, r - 1), cs[i].pc)

Going(fs, n, cs) ==
    cs # <<>> =>
       IF Len(fs) < Last(cs).ft THEN n >= 1 /\ (Len(fs) = 0 => n = 1)
       ELSE Suits(fs[Len(fs)], n - Bottom(fs, cs, Len(fs)), Last(cs).pc)

Just(fs, n, cs) ==
    /\ Nest(fs, cs)
    /\ Called(fs, cs) /\ Entered(fs, n, cs) /\ Going(fs, n, cs)
    /\ Len(fs) > 0 => fs[1].top = 0
    /\ IF cs = <<>> THEN Len(fs) = 0 /\ n = 0 ELSE cs[1].ft = 1

LEMMA BottomInt ==
    ASSUME NEW fs, NEW cs, Nest(fs, cs), NEW k \in 1 .. Len(fs)
    PROVE  Bottom(fs, cs, k) \in Nat
<1>1. fs[k] \in Frame
  BY NestFacts
<1> QED BY <1>1 DEF Bottom, Frame

LEMMA OnTopJust ==
    ASSUME NEW fs, NEW n, NEW cs, Just(fs, n, cs),
           NEW gs, NEW m, NEW bs, OnTop(fs, cs, gs, bs),
           Suits(gs[Len(fs)], m - Bottom(fs, cs, Len(fs)), Last(bs).pc)
    PROVE  Just(gs, m, bs)
<1>0. /\ Len(fs) \in Nat \ {0} /\ Len(cs) \in Nat \ {0} /\ bs # <<>>
      /\ Len(gs) = Len(fs) /\ Len(bs) = Len(cs)
      /\ \A k \in 1 .. Len(fs) : gs[k].top = fs[k].top
      /\ \A i \in 1 .. Len(cs) : bs[i].ft = cs[i].ft /\ cs[i].ft \in 1 .. Len(fs)
  BY OnTopFacts
<1>1. /\ \A k \in 1 .. Len(fs) - 1 : gs[k] = fs[k]
      /\ \A i \in 1 .. Len(cs) - 1 : bs[i] = cs[i]
      /\ Nest(fs, cs) /\ Nest(gs, bs) /\ cs # <<>>
      /\ Last(bs).ft = Last(cs).ft /\ Last(cs).ft <= Len(fs)
  BY DEF OnTop
<1>2. \A k : Root(bs, k) <=> Root(cs, k)
  BY <1>0 DEF Root
<1>3. \A k \in 1 .. Len(fs) : Bottom(gs, bs, k) = Bottom(fs, cs, k)
  <2> SUFFICES ASSUME NEW k \in 1 .. Len(fs) PROVE Bottom(gs, bs, k) = Bottom(fs, cs, k)
    OBVIOUS
  <2>1. gs[k].argc = fs[k].argc
    <3>1. CASE k = Len(fs)
      BY <3>1 DEF OnTop, SameButAt
    <3>2. CASE k \in 1 .. Len(fs) - 1
      BY <1>1, <3>2
    <3> QED BY <1>0, <3>1, <3>2
  <2> QED BY <1>0, <1>2, <2>1 DEF Bottom
<1>4. Called(gs, bs)
  <2> SUFFICES ASSUME NEW k \in 1 .. Len(fs) - 1, ~Root(bs, k + 1)
               PROVE  /\ ~Func[gs[k].func].cfunc
                      /\ Matches(gs[k], gs[k + 1].top + 1 - Bottom(gs, bs, k))
    BY <1>0 DEF Called
  <2>1. k \in 1 .. Len(fs) /\ k + 1 \in 1 .. Len(fs) /\ ~Root(cs, k + 1)
    BY <1>0, <1>2
  <2>2. /\ ~Func[fs[k].func].cfunc
        /\ Matches(fs[k], fs[k + 1].top + 1 - Bottom(fs, cs, k))
    BY <2>1 DEF Just, Called
  <2> QED BY <1>0, <1>1, <1>3, <2>1, <2>2
<1>5. Entered(gs, m, bs)
  <2> SUFFICES ASSUME NEW i \in 1 .. Len(cs) - 1, NEW r, r = bs[i + 1].ft
               PROVE  Suits(gs[r - 1], Height(gs, m, r) - Bottom(gs, bs, r - 1), bs[i].pc)
    BY <1>0 DEF Entered
  <2>1. i \in 1 .. Len(cs) /\ i + 1 \in 1 .. Len(cs) /\ bs[i] = cs[i] /\ r = cs[i + 1].ft
    BY <1>0, <1>1
  <2>2. cs[i].ft < cs[i + 1].ft
    BY <1>0, <1>1, <2>1 DEF Nest
  <2>3. r \in 1 .. Len(fs) /\ r - 1 \in 1 .. Len(fs) - 1 /\ r - 1 \in 1 .. Len(fs)
    <3>1. cs[i + 1].ft \in 1 .. Len(fs) /\ cs[i].ft \in 1 .. Len(fs)
      BY <1>0, <2>1
    <3> QED BY <1>0, <2>1, <2>2, <3>1
  <2>4. Suits(fs[r - 1], Height(fs, n, r) - Bottom(fs, cs, r - 1), cs[i].pc)
    BY <2>1 DEF Just, Entered
  <2>5. Height(gs, m, r) = Height(fs, n, r)
    BY <1>0, <2>3 DEF Height
  <2>6. gs[r - 1] = fs[r - 1] /\ Bottom(gs, bs, r - 1) = Bottom(fs, cs, r - 1)
    BY <1>1, <1>3, <2>3
  <2> QED BY <2>1, <2>4, <2>5, <2>6
<1>6. Going(gs, m, bs)
  <2>1. ~(Len(gs) < Last(bs).ft)
    BY <1>0, <1>1, NestFacts
  <2>2. Len(gs) \in 1 .. Len(fs)
    BY <1>0
  <2> QED BY <1>0, <1>3, <2>1, <2>2 DEF Going
<1>7. gs[1].top = 0 /\ bs[1].ft = 1
  <2>1. 1 \in 1 .. Len(fs) /\ 1 \in 1 .. Len(cs) /\ Len(fs) > 0
    BY <1>0
  <2> QED BY <1>0, <1>1, <2>1 DEF Just
<1> QED BY <1>0, <1>1, <1>4, <1>5, <1>6, <1>7 DEF Just

LEMMA EnterJust ==
    ASSUME BalancedCode,
           NEW fs, NEW n \in Nat, NEW cs, Just(fs, n, cs),
           cs # <<>> => Last(cs).pc \notin {"exec", "loop"},
           NEW gs, Pushed(fs, gs), gs[Len(gs)].top = n,
           NEW bs, Begun(fs, cs, bs), Nest(gs, bs)
    PROVE  Just(gs, n, bs)
<1>0. Nest(fs, cs)
  BY DEF Just
<1>1. /\ Len(fs) \in Nat /\ Len(cs) \in Nat
      /\ \A i \in 1 .. Len(cs) : cs[i].ft \in 1 .. Len(fs)
      /\ cs # <<>> => Last(cs) = cs[Len(cs)]
      /\ Len(cs) > 0 => cs # <<>>
  BY <1>0, BegunFacts
<1>2. /\ Len(gs) = Len(fs) + 1 /\ Len(bs) = Len(cs) + 1 /\ bs # <<>> /\ Last(bs) = bs[Len(bs)]
      /\ \A k \in 1 .. Len(fs) : gs[k] = fs[k]
      /\ \A i \in 1 .. Len(cs) : bs[i] = cs[i]
      /\ bs[Len(bs)].ft = Len(fs) + 1 /\ bs[Len(bs)].pc = "loop"
  BY <1>0, BegunFacts
<1>3. /\ \A k \in 1 .. Len(fs) : Root(bs, k) <=> Root(cs, k)
      /\ Root(bs, Len(gs))
  <2>1. ASSUME NEW k \in 1 .. Len(fs), Root(bs, k) PROVE Root(cs, k)
    <3>1. PICK i \in 1 .. Len(bs) : bs[i].ft = k
      BY <2>1 DEF Root
    <3>2. i # Len(bs)
      BY <1>1, <1>2, <3>1
    <3>3. i \in 1 .. Len(cs)
      BY <1>1, <1>2, <3>2
    <3> QED BY <1>2, <3>1, <3>3 DEF Root
  <2>2. ASSUME NEW k \in 1 .. Len(fs), Root(cs, k) PROVE Root(bs, k)
    <3>1. PICK i \in 1 .. Len(cs) : cs[i].ft = k
      BY <2>2 DEF Root
    <3> QED BY <1>1, <1>2, <3>1 DEF Root
  <2>3. Root(bs, Len(gs))
    BY <1>1, <1>2 DEF Root
  <2> QED BY <2>1, <2>2, <2>3
<1>4. \A k \in 1 .. Len(fs) : Bottom(gs, bs, k) = Bottom(fs, cs, k)
  BY <1>2, <1>3 DEF Bottom
<1>5. Called(gs, bs)
  <2> SUFFICES ASSUME NEW k \in 1 .. Len(gs) - 1, ~Root(bs, k + 1)
               PROVE  /\ ~Func[gs[k].func].cfunc
                      /\ Matches(gs[k], gs[k + 1].top + 1 - Bottom(gs, bs, k))
    BY DEF Called
  <2>1. k \in 1 .. Len(fs) - 1 /\ k \in 1 .. Len(fs) /\ k + 1 \in 1 .. Len(fs)
    <3>1. k + 1 # Len(gs)
      BY <1>3
    <3> QED BY <1>1, <1>2, <3>1
  <2>2. ~Root(cs, k + 1)
    BY <1>3, <2>1
  <2>3. /\ ~Func[fs[k].func].cfunc
        /\ Matches(fs[k], fs[k + 1].top + 1 - Bottom(fs, cs, k))
    BY <2>1, <2>2 DEF Just, Called
  <2> QED BY <1>2, <1>4, <2>1, <2>3
<1>6. Entered(gs, n, bs)
  <2> SUFFICES ASSUME NEW i \in 1 .. Len(cs), NEW r, r = bs[i + 1].ft
               PROVE  Suits(gs[r - 1], Height(gs, n, r) - Bottom(gs, bs, r - 1), bs[i].pc)
    <3>1. Len(bs) - 1 = Len(cs)
      BY <1>1, <1>2
    <3> QED BY <3>1 DEF Entered
  <2>1. CASE i < Len(cs)
    <3>1. i + 1 \in 1 .. Len(cs) /\ i \in 1 .. Len(cs) - 1
      BY <1>1, <2>1
    <3>2. r = cs[i + 1].ft /\ r \in 1 .. Len(fs) /\ cs[i].ft < r /\ cs[i].ft \in 1 .. Len(fs)
      BY <1>0, <1>1, <1>2, <3>1 DEF Nest
    <3>3. r - 1 \in 1 .. Len(fs) /\ r <= Len(fs) /\ r <= Len(gs)
      <4>1. Len(fs) \in Nat /\ Len(gs) = Len(fs) + 1
        BY <1>1, <1>2
      <4>2. r - 1 \in 1 .. Len(fs)
        BY <3>2, <4>1, UnderMark
      <4> QED BY <3>2, <4>1, <4>2
    <3>4. Height(gs, n, r) = Height(fs, n, r)
      <4>1. gs[r] = fs[r]
        BY <1>2, <3>2
      <4> QED BY <3>3, <4>1, SameHeight
    <3>5. Suits(fs[r - 1], Height(fs, n, r) - Bottom(fs, cs, r - 1), cs[i].pc)
      BY <3>1, <3>2 DEF Just, Entered
    <3> QED BY <1>2, <1>4, <3>3, <3>4, <3>5
  <2>2. CASE i = Len(cs)
    <3>1. r = Len(fs) + 1 /\ r - 1 = Len(fs) /\ r = Len(gs)
      BY <1>1, <1>2, <2>2
    <3>2. cs # <<>> /\ Last(cs) = cs[i] /\ cs[i].ft \in 1 .. Len(fs)
      BY <1>1, <2>2
    <3>3. Len(fs) \in 1 .. Len(fs) /\ ~(Len(fs) < Last(cs).ft)
      BY <1>1, <3>2
    <3>4. Suits(fs[Len(fs)], n - Bottom(fs, cs, Len(fs)), cs[i].pc)
      BY <3>2, <3>3 DEF Just, Going
    <3>5. Height(gs, n, r) = n
      BY <1>1, <1>2, <3>1 DEF Height
    <3> QED BY <1>2, <1>4, <3>1, <3>3, <3>4, <3>5
  <2> QED BY <1>1, <2>1, <2>2
<1>7. Going(gs, n, bs)
  <2>1. Fresh(gs[Len(gs)]) /\ ~(Len(gs) < Last(bs).ft)
    BY <1>1, <1>2 DEF Pushed
  <2>2. Matches(gs[Len(gs)], 0)
    BY <2>1, FreshReached
  <2>3. n - Bottom(gs, bs, Len(gs)) = 0
    BY <1>3 DEF Bottom
  <2>4. Effect(Last(bs).pc) = 0 /\ Last(bs).pc \notin Converting
    BY <1>2 DEF Effect, Converting
  <2>5. Suits(gs[Len(gs)], 0, Last(bs).pc)
    BY <2>2, <2>4 DEF Suits
  <2> QED BY <2>1, <2>3, <2>5 DEF Going
<1>8. gs[1].top = 0 /\ bs[1].ft = 1
  <2>1. CASE cs = <<>>
    <3>1. Len(fs) = 0 /\ n = 0 /\ Len(cs) = 0
      BY <2>1 DEF Just
    <3> QED BY <1>2, <3>1
  <2>2. CASE cs # <<>>
    <3>1. Len(cs) >= 1 /\ cs[1].ft = 1
      BY <1>0, <2>2, NestFacts DEF Just
    <3>2. 1 \in 1 .. Len(cs) /\ 1 \in 1 .. Len(fs)
      <4>1. 1 \in 1 .. Len(cs)
        BY <1>1, <3>1
      <4> QED BY <1>1, <3>1, <4>1
    <3>3. fs[1].top = 0 /\ cs[1].ft = 1
      BY <1>1, <2>2, <3>2 DEF Just
    <3> QED BY <1>2, <3>2, <3>3
  <2> QED BY <2>1, <2>2
<1> QED BY <1>1, <1>2, <1>5, <1>6, <1>7, <1>8 DEF Just

LEMMA CallJust ==
    ASSUME BalancedCode,
           NEW fs, NEW n \in Nat, NEW cs, Just(fs, n, cs), Last(cs).pc = "exec",
           NEW hs, NEW bs, OnTop(fs, cs, hs, bs), Last(bs).pc = "loop",
           NEW x, Goes(fs[Len(fs)], hs[Len(fs)], x, 1),
           NEW gs, Pushed(hs, gs), gs[Len(gs)].top = n - x,
           NEW m \in Nat, m = n - x + gs[Len(gs)].argc
    PROVE  Just(gs, m, bs)
<1>1. /\ Len(fs) \in Nat \ {0} /\ Len(cs) \in Nat \ {0} /\ bs # <<>>
      /\ Len(hs) = Len(fs) /\ Len(bs) = Len(cs)
      /\ \A k \in 1 .. Len(fs) : hs[k].top = fs[k].top
      /\ \A i \in 1 .. Len(cs) : bs[i].ft = cs[i].ft /\ cs[i].ft \in 1 .. Len(fs)
  BY OnTopFacts
<1>2. /\ \A k \in 1 .. Len(fs) - 1 : hs[k] = fs[k]
      /\ \A i \in 1 .. Len(cs) - 1 : bs[i] = cs[i]
      /\ Nest(fs, cs) /\ Nest(hs, bs) /\ cs # <<>>
      /\ Last(bs).ft = Last(cs).ft /\ Last(cs).ft <= Len(fs)
  BY DEF OnTop
<1>3. /\ Len(gs) = Len(fs) + 1
      /\ \A k \in 1 .. Len(fs) : gs[k] = hs[k]
      /\ gs \in Seq(Frame)
  BY <1>1 DEF Pushed
<1>4. /\ \A k : Root(bs, k) <=> Root(cs, k)
      /\ ~Root(bs, Len(gs))
  <2>1. \A k : Root(bs, k) <=> Root(cs, k)
    BY <1>1 DEF Root
  <2>2. ASSUME NEW i \in 1 .. Len(bs) PROVE bs[i].ft # Len(gs)
    <3>1. bs[i].ft \in 1 .. Len(fs)
      BY <1>1
    <3> QED BY <1>1, <1>3, <3>1
  <2> QED BY <2>1, <2>2 DEF Root
<1>5. \A k \in 1 .. Len(fs) : Bottom(gs, bs, k) = Bottom(fs, cs, k)
  <2> SUFFICES ASSUME NEW k \in 1 .. Len(fs) PROVE Bottom(gs, bs, k) = Bottom(fs, cs, k)
    OBVIOUS
  <2>1. hs[k].argc = fs[k].argc
    <3>1. CASE k = Len(fs)
      BY <3>1 DEF OnTop, SameButAt
    <3>2. CASE k \in 1 .. Len(fs) - 1
      BY <1>2, <3>2
    <3> QED BY <1>1, <3>1, <3>2
  <2> QED BY <1>1, <1>3, <1>4, <2>1 DEF Bottom
<1>6. n \in Nat /\ x \in Nat /\ Len(fs) \in 1 .. Len(fs) /\ Bottom(fs, cs, Len(fs)) \in Nat
  BY <1>1, <1>2, BottomInt DEF Goes
<1>7. /\ ~Func[hs[Len(fs)].func].cfunc
      /\ Matches(hs[Len(fs)], n - x + 1 - Bottom(fs, cs, Len(fs)))
  <2>1. ~(Len(fs) < Last(cs).ft)
    BY <1>1, <1>2, NestFacts
  <2>2. Suits(fs[Len(fs)], n - Bottom(fs, cs, Len(fs)), "exec")
    BY <1>2, <2>1 DEF Just, Going
  <2>3. Effect("exec") = 0
    BY DEF Effect
  <2> DEFINE z == n - Bottom(fs, cs, Len(fs))
  <2>4. z \in Int /\ Matches(fs[Len(fs)], z)
    BY <1>6, <2>2, <2>3 DEF Suits
  <2>5. Matches(hs[Len(fs)], z - x + 1)
    BY <2>4 DEF Goes
  <2>6. z - x + 1 = n - x + 1 - Bottom(fs, cs, Len(fs))
    BY <1>6
  <2>7. ~Func[hs[Len(fs)].func].cfunc
    BY DEF Goes, SameButAt
  <2> QED BY <2>5, <2>6, <2>7
<1>8. Called(gs, bs)
  <2> SUFFICES ASSUME NEW k \in 1 .. Len(fs), ~Root(bs, k + 1)
               PROVE  /\ ~Func[gs[k].func].cfunc
                      /\ Matches(gs[k], gs[k + 1].top + 1 - Bottom(gs, bs, k))
    <3>1. Len(gs) - 1 = Len(fs)
      BY <1>1, <1>3
    <3> QED BY <3>1 DEF Called
  <2>1. CASE k < Len(fs)
    <3>1. k \in 1 .. Len(fs) - 1 /\ k + 1 \in 1 .. Len(fs) /\ ~Root(cs, k + 1)
      BY <1>1, <1>4, <2>1
    <3>2. /\ ~Func[fs[k].func].cfunc
          /\ Matches(fs[k], fs[k + 1].top + 1 - Bottom(fs, cs, k))
      BY <3>1 DEF Just, Called
    <3> QED BY <1>1, <1>2, <1>3, <1>5, <3>1, <3>2
  <2>2. CASE k = Len(fs)
    <3>1. gs[k + 1].top + 1 - Bottom(gs, bs, k) = n - x + 1 - Bottom(fs, cs, Len(fs))
      BY <1>3, <1>5, <2>2
    <3>2. gs[k] = hs[Len(fs)]
      BY <1>3, <2>2
    <3> QED BY <1>7, <3>1, <3>2
  <2> QED BY <1>1, <2>1, <2>2
<1>9. Entered(gs, m, bs)
  <2> SUFFICES ASSUME NEW i \in 1 .. Len(cs) - 1, NEW r, r = bs[i + 1].ft
               PROVE  Suits(gs[r - 1], Height(gs, m, r) - Bottom(gs, bs, r - 1), bs[i].pc)
    BY <1>1 DEF Entered
  <2>1. i \in 1 .. Len(cs) /\ i + 1 \in 1 .. Len(cs) /\ bs[i] = cs[i] /\ r = cs[i + 1].ft
    BY <1>1, <1>2
  <2>2. cs[i].ft < cs[i + 1].ft
    BY <1>1, <1>2, <2>1 DEF Nest
  <2>3. r \in 1 .. Len(fs) /\ r - 1 \in 1 .. Len(fs) - 1 /\ r - 1 \in 1 .. Len(fs)
    <3>1. cs[i + 1].ft \in 1 .. Len(fs) /\ cs[i].ft \in 1 .. Len(fs)
      BY <1>1, <2>1
    <3>2. Len(fs) \in Nat
      BY <1>1
    <3> QED BY <2>1, <2>2, <3>1, <3>2, UnderMark
  <2>4. Suits(fs[r - 1], Height(fs, n, r) - Bottom(fs, cs, r - 1), cs[i].pc)
    BY <2>1 DEF Just, Entered
  <2>5. Height(gs, m, r) = Height(fs, n, r)
    <3>1. r <= Len(gs) /\ r <= Len(fs)
      BY <1>1, <1>3, <2>3
    <3> QED BY <1>1, <1>3, <2>3, <3>1 DEF Height
  <2>6. gs[r - 1] = fs[r - 1] /\ Bottom(gs, bs, r - 1) = Bottom(fs, cs, r - 1)
    BY <1>2, <1>3, <1>5, <2>3
  <2> QED BY <2>1, <2>4, <2>5, <2>6
<1>10. Going(gs, m, bs)
  <2>1. Fresh(gs[Len(gs)]) /\ ~(Len(gs) < Last(bs).ft)
    <3>1. Last(cs).ft \in Nat
      BY <1>2, NestFacts
    <3> QED BY <1>1, <1>2, <1>3, <3>1 DEF Pushed
  <2>2. Matches(gs[Len(gs)], 0)
    BY <2>1, FreshReached
  <2>3. m - Bottom(gs, bs, Len(gs)) = 0
    <3>1. gs[Len(gs)] \in Frame
      BY <2>1 DEF Fresh
    <3>2. gs[Len(gs)].argc \in Nat
      BY <3>1 DEF Frame
    <3> QED BY <1>4, <1>6, <3>2 DEF Bottom
  <2>4. Effect(Last(bs).pc) = 0 /\ Last(bs).pc \notin Converting
    BY DEF Effect, Converting
  <2>5. Suits(gs[Len(gs)], 0, Last(bs).pc)
    BY <2>2, <2>4 DEF Suits
  <2> QED BY <2>1, <2>3, <2>5 DEF Going
<1>11. gs[1].top = 0 /\ bs[1].ft = 1
  <2>1. 1 \in 1 .. Len(fs) /\ 1 \in 1 .. Len(cs) /\ Len(fs) > 0
    BY <1>1
  <2> QED BY <1>1, <1>2, <1>3, <2>1 DEF Just
<1>12. Nest(gs, bs)
  <2>1. \A i, j \in 1 .. Len(bs) : i < j => bs[i].ft < bs[j].ft
    BY <1>2 DEF Nest
  <2>2. Last(bs).ft \in Nat /\ Last(bs).ft <= Len(fs)
    BY <1>2, NestFacts
  <2>3. Len(gs) >= Last(bs).ft - 1
    BY <1>1, <1>3, <2>2
  <2> QED BY <1>2, <1>3, <2>1, <2>3 DEF Nest
<1> QED BY <1>1, <1>8, <1>9, <1>10, <1>11, <1>12 DEF Just

LEMMA ReturnJust ==
    ASSUME NEW fs, NEW n, NEW cs, Just(fs, n, cs),
           NEW gs, NEW bs, Returned(fs, cs, gs, bs),
           NEW m \in Nat, m = fs[Len(fs)].top + 1
    PROVE  Just(gs, m, bs)
<1>1. /\ Len(fs) \in Nat \ {0} /\ Len(cs) \in Nat \ {0} /\ bs # <<>>
      /\ Len(gs) = Len(fs) - 1 /\ Len(bs) = Len(cs)
      /\ \A k \in 1 .. Len(fs) - 1 : gs[k] = fs[k]
      /\ \A i \in 1 .. Len(cs) : bs[i].ft = cs[i].ft /\ cs[i].ft \in 1 .. Len(fs)
      /\ Last(cs) = cs[Len(cs)] /\ Last(bs) = bs[Len(cs)]
  BY ReturnedFacts
<1>2. /\ \A i, j \in 1 .. Len(cs) : i < j => cs[i].ft < cs[j].ft
      /\ \A i \in 1 .. Len(cs) - 1 : bs[i] = cs[i]
      /\ Last(bs).pc = "loop" /\ Nest(gs, bs) /\ Nest(fs, cs) /\ cs # <<>>
  BY DEF Returned, Nest
<1>3. /\ \A k : Root(bs, k) <=> Root(cs, k)
      /\ \A k \in 1 .. Len(fs) - 1 : Bottom(gs, bs, k) = Bottom(fs, cs, k)
  <2>1. \A k : Root(bs, k) <=> Root(cs, k)
    BY <1>1 DEF Root
  <2> QED BY <1>1, <2>1 DEF Bottom
<1>4. Called(gs, bs)
  <2> SUFFICES ASSUME NEW k \in 1 .. Len(gs) - 1, ~Root(bs, k + 1)
               PROVE  /\ ~Func[gs[k].func].cfunc
                      /\ Matches(gs[k], gs[k + 1].top + 1 - Bottom(gs, bs, k))
    BY DEF Called
  <2>1. k \in 1 .. Len(fs) - 1 /\ k + 1 \in 1 .. Len(fs) - 1 /\ ~Root(cs, k + 1)
    BY <1>1, <1>3
  <2>2. /\ ~Func[fs[k].func].cfunc
        /\ Matches(fs[k], fs[k + 1].top + 1 - Bottom(fs, cs, k))
    BY <2>1, <1>3 DEF Just, Called
  <2> QED BY <1>1, <1>3, <2>1, <2>2
<1>5. fs[Len(fs)].top \in Nat
  BY <1>1, <1>2, NestFacts
<1>6. Entered(gs, m, bs)
  <2> SUFFICES ASSUME NEW i \in 1 .. Len(cs) - 1, NEW r, r = bs[i + 1].ft
               PROVE  Suits(gs[r - 1], Height(gs, m, r) - Bottom(gs, bs, r - 1), bs[i].pc)
    BY <1>1 DEF Entered
  <2>1. i \in 1 .. Len(cs) /\ i + 1 \in 1 .. Len(cs) /\ bs[i] = cs[i] /\ r = cs[i + 1].ft
    BY <1>1, <1>2
  <2>2. cs[i].ft < cs[i + 1].ft
    BY <1>1, <1>2, <2>1
  <2>3. r \in 1 .. Len(fs) /\ r - 1 \in 1 .. Len(fs) - 1
    <3>1. cs[i + 1].ft \in 1 .. Len(fs) /\ cs[i].ft \in 1 .. Len(fs)
      BY <1>1, <2>1
    <3>2. Len(fs) \in Nat
      BY <1>1
    <3> QED BY <2>1, <2>2, <3>1, <3>2, UnderMark
  <2>4. Suits(fs[r - 1], Height(fs, n, r) - Bottom(fs, cs, r - 1), cs[i].pc)
    BY <2>1 DEF Just, Entered
  <2>5. Height(gs, m, r) = Height(fs, n, r)
    <3>1. CASE r < Len(fs)
      <4>1. r \in 1 .. Len(fs) - 1 /\ r <= Len(gs) /\ r <= Len(fs)
        BY <1>1, <2>3, <3>1
      <4> QED BY <1>1, <4>1 DEF Height
    <3>2. CASE r = Len(fs)
      <4>1. ~(r <= Len(gs)) /\ r <= Len(fs)
        BY <1>1, <3>2
      <4>2. Height(gs, m, r) = m - 1 /\ Height(fs, n, r) = fs[Len(fs)].top
        BY <3>2, <4>1 DEF Height
      <4> QED BY <1>5, <4>2
    <3> QED BY <1>1, <2>3, <3>1, <3>2
  <2>6. gs[r - 1] = fs[r - 1] /\ Bottom(gs, bs, r - 1) = Bottom(fs, cs, r - 1)
    BY <1>1, <1>3, <2>3
  <2> QED BY <2>1, <2>4, <2>5, <2>6
<1>7. Going(gs, m, bs)
  <2>1. Last(bs).ft = Last(cs).ft /\ Last(cs).ft \in 1 .. Len(fs)
    BY <1>1
  <2>2. CASE Last(cs).ft = Len(fs)
    <3>1. Len(gs) < Last(bs).ft /\ m >= 1
      BY <1>1, <1>5, <2>1, <2>2
    <3>2. ASSUME Len(gs) = 0 PROVE m = 1
      <4>1. Len(fs) = 1
        BY <1>1, <3>2
      <4>2. fs[1].top = 0
        BY <4>1 DEF Just
      <4> QED BY <4>1, <4>2
    <3> QED BY <3>1, <3>2 DEF Going
  <2>3. CASE Last(cs).ft < Len(fs)
    <3>1. ~(Len(gs) < Last(bs).ft) /\ Len(fs) - 1 \in 1 .. Len(fs) - 1
          /\ Len(fs) - 1 + 1 = Len(fs)
      BY <1>1, <2>1, <2>3
    <3>2. ~Root(cs, Len(fs))
      <4>1. \A i \in 1 .. Len(cs) : cs[i].ft <= Last(cs).ft
        <5>1. \A i \in 1 .. Len(cs) : i = Len(cs) \/ cs[i].ft < cs[Len(cs)].ft
          BY <1>1, <1>2
        <5> QED BY <1>1, <2>1, <5>1
      <4> QED BY <1>1, <2>1, <2>3, <4>1 DEF Root
    <3>3. Matches(fs[Len(fs) - 1], m - Bottom(fs, cs, Len(fs) - 1))
      <4>1. PICK k \in 1 .. Len(fs) - 1 : k = Len(fs) - 1 /\ k + 1 = Len(fs)
        BY <3>1
      <4>2. Matches(fs[k], fs[k + 1].top + 1 - Bottom(fs, cs, k))
        BY <3>2, <4>1 DEF Just, Called
      <4>3. PICK b \in Nat : b = Bottom(fs, cs, k)
        <5>1. k \in 1 .. Len(fs)
          BY <4>1
        <5>2. Nest(fs, cs)
          BY <1>2
        <5> QED BY <5>1, <5>2, BottomInt
      <4>4. fs[k + 1].top + 1 - b = m - b
        <5>1. PICK t \in Nat : t = fs[Len(fs)].top
          BY <1>5
        <5>2. fs[k + 1].top = t /\ m = t + 1
          BY <4>1, <5>1
        <5> QED BY <5>2
      <4>5. Matches(fs[k], m - b)
        BY <4>2, <4>3, <4>4
      <4>6. b = Bottom(fs, cs, Len(fs) - 1) /\ fs[Len(fs) - 1] = fs[k]
        BY <4>1, <4>3
      <4> QED BY <4>5, <4>6
    <3>4. Effect(Last(bs).pc) = 0 /\ Last(bs).pc \notin Converting
      BY <1>2 DEF Effect, Converting
    <3>5. m - Bottom(fs, cs, Len(fs) - 1) \in Int
      <4>1. Len(fs) - 1 \in 1 .. Len(fs)
        BY <1>1, <3>1
      <4> QED BY <1>2, <4>1, BottomInt
    <3>6. Suits(fs[Len(fs) - 1], m - Bottom(fs, cs, Len(fs) - 1), Last(bs).pc)
      BY <3>3, <3>4, <3>5 DEF Suits
    <3>7. Suits(gs[Len(gs)], m - Bottom(gs, bs, Len(gs)), Last(bs).pc)
      BY <1>1, <1>3, <3>1, <3>6
    <3> QED BY <3>1, <3>7 DEF Going
  <2> QED BY <1>1, <2>1, <2>2, <2>3
<1>8. (Len(gs) > 0 => gs[1].top = 0) /\ bs[1].ft = 1
  <2>1. 1 \in 1 .. Len(cs) /\ (Len(gs) > 0 => 1 \in 1 .. Len(fs) - 1)
    BY <1>1
  <2> QED BY <1>1, <1>2, <2>1 DEF Just
<1> QED BY <1>2, <1>4, <1>6, <1>7, <1>8, <1>1 DEF Just

LEMMA FinishJust ==
    ASSUME NEW fs, NEW n \in Nat, NEW cs, Just(fs, n, cs), Len(fs) < Last(cs).ft,
           NEW gs, NEW bs, Ended(fs, cs, Len(fs), gs, bs), NEW m, m = n - 1
    PROVE  Just(gs, m, bs)
<1>1. /\ Nest(fs, cs) /\ Nest(gs, bs) /\ cs # <<>>
      /\ Len(fs) >= Last(cs).ft - 1
      /\ Len(gs) = Len(fs) /\ (\A k \in 1 .. Len(fs) : gs[k] = fs[k])
      /\ Len(bs) = Len(cs) - 1 /\ (\A i \in 1 .. Len(cs) - 1 : bs[i] = cs[i])
  BY DEF Ended
<1>2. /\ Len(fs) \in Nat /\ Len(cs) \in Nat /\ Len(cs) >= 1 /\ Last(cs) = cs[Len(cs)]
      /\ \A i \in 1 .. Len(cs) - 1 : cs[i].ft \in 1 .. Len(fs)
      /\ \A i \in 1 .. Len(cs) : cs[i].ft \in Nat \ {0}
  BY <1>1, NestFacts
<1>3. cs[Len(cs)].ft = Len(fs) + 1
  <2>1. cs[Len(cs)].ft \in Nat
    BY <1>2
  <2> QED BY <1>1, <1>2, <2>1
<1>4. \A k \in 1 .. Len(fs) : Root(bs, k) <=> Root(cs, k)
  <2> SUFFICES ASSUME NEW k \in 1 .. Len(fs) PROVE Root(bs, k) <=> Root(cs, k)
    OBVIOUS
  <2>1. ASSUME Root(cs, k) PROVE Root(bs, k)
    <3>1. PICK i \in 1 .. Len(cs) : cs[i].ft = k
      BY <2>1 DEF Root
    <3>2. i # Len(cs)
      BY <1>2, <1>3, <3>1
    <3>3. i \in 1 .. Len(cs) - 1 /\ i \in 1 .. Len(bs)
      BY <1>1, <1>2, <3>2
    <3> QED BY <1>1, <3>1, <3>3 DEF Root
  <2>2. ASSUME Root(bs, k) PROVE Root(cs, k)
    <3>1. PICK i \in 1 .. Len(bs) : bs[i].ft = k
      BY <2>2 DEF Root
    <3>2. i \in 1 .. Len(cs) - 1 /\ i \in 1 .. Len(cs)
      BY <1>1, <1>2
    <3> QED BY <1>1, <3>1, <3>2 DEF Root
  <2> QED BY <2>1, <2>2
<1>5. \A k \in 1 .. Len(fs) : Bottom(gs, bs, k) = Bottom(fs, cs, k)
  BY <1>1, <1>4 DEF Bottom
<1>6. Called(gs, bs)
  <2> SUFFICES ASSUME NEW k \in 1 .. Len(fs) - 1, ~Root(bs, k + 1)
               PROVE  /\ ~Func[gs[k].func].cfunc
                      /\ Matches(gs[k], gs[k + 1].top + 1 - Bottom(gs, bs, k))
    BY <1>1 DEF Called
  <2>1. k \in 1 .. Len(fs) /\ k + 1 \in 1 .. Len(fs)
    BY <1>2
  <2>2. /\ ~Func[fs[k].func].cfunc
        /\ Matches(fs[k], fs[k + 1].top + 1 - Bottom(fs, cs, k))
    BY <1>4, <2>1 DEF Just, Called
  <2> QED BY <1>1, <1>5, <2>1, <2>2
<1>7. Entered(gs, m, bs)
  <2> SUFFICES ASSUME NEW i \in 1 .. Len(bs) - 1, NEW r, r = bs[i + 1].ft
               PROVE  Suits(gs[r - 1], Height(gs, m, r) - Bottom(gs, bs, r - 1), bs[i].pc)
    BY DEF Entered
  <2>1. i \in 1 .. Len(cs) - 1 /\ i + 1 \in 1 .. Len(cs) - 1 /\ i \in 1 .. Len(cs)
        /\ i + 1 \in 1 .. Len(cs)
    BY <1>1, <1>2
  <2>2. r = cs[i + 1].ft /\ cs[i].ft < r /\ r \in 1 .. Len(fs) /\ cs[i].ft \in 1 .. Len(fs)
    BY <1>1, <1>2, <2>1 DEF Nest
  <2>3. r - 1 \in 1 .. Len(fs)
    <3>1. Len(fs) \in Nat
      BY <1>2
    <3> QED BY <2>2, <3>1, UnderMark
  <2>4. Suits(fs[r - 1], Height(fs, n, r) - Bottom(fs, cs, r - 1), cs[i].pc)
    BY <2>1, <2>2 DEF Just, Entered
  <2>5. Height(gs, m, r) = Height(fs, n, r)
    BY <1>1, <2>2 DEF Height
  <2> QED BY <1>1, <1>5, <2>1, <2>3, <2>4, <2>5
<1>8. Going(gs, m, bs)
  <2> SUFFICES ASSUME bs # <<>> PROVE Going(gs, m, bs)
    BY DEF Going
  <2>1. Len(bs) >= 1 /\ Last(bs) = bs[Len(bs)]
    BY <1>1, NestFacts
  <2>2. PICK i \in 1 .. Len(cs) - 1 : i = Len(bs) /\ i + 1 = Len(cs)
    BY <1>1, <1>2, <2>1
  <2>3. Last(bs) = cs[i] /\ cs[i].ft \in 1 .. Len(fs)
    BY <1>1, <1>2, <2>1, <2>2
  <2>4. ~(Len(gs) < Last(bs).ft) /\ Len(fs) \in 1 .. Len(fs) /\ Len(fs) + 1 - 1 = Len(fs)
    BY <1>1, <1>2, <2>3
  <2>5. Height(fs, n, Len(fs) + 1) = m
    BY <1>2 DEF Height
  <2>6. Suits(fs[Len(fs)], m - Bottom(fs, cs, Len(fs)), cs[i].pc)
    <3>1. PICK r : r = cs[i + 1].ft
      OBVIOUS
    <3>2. Suits(fs[r - 1], Height(fs, n, r) - Bottom(fs, cs, r - 1), cs[i].pc)
      BY <3>1 DEF Just, Entered
    <3>3. r = Len(fs) + 1
      BY <1>3, <2>2, <3>1
    <3> QED BY <2>4, <2>5, <3>2, <3>3
  <2> QED BY <1>1, <1>5, <2>3, <2>4, <2>6 DEF Going
<1>9. /\ Len(gs) > 0 => gs[1].top = 0
      /\ IF bs = <<>> THEN Len(gs) = 0 /\ m = 0 ELSE bs[1].ft = 1
  <2>1. cs[1].ft = 1 /\ (Len(fs) > 0 => fs[1].top = 0)
    BY <1>1 DEF Just
  <2>2. ASSUME bs = <<>> PROVE Len(gs) = 0 /\ m = 0
    <3>1. Len(bs) = 0
      BY <2>2
    <3>2. Len(cs) = 1
      BY <1>1, <1>2, <3>1
    <3>3. Len(fs) = 0
      BY <1>2, <1>3, <2>1, <3>2
    <3>4. n = 1
      BY <1>1, <3>3 DEF Just, Going
    <3> QED BY <1>1, <3>3, <3>4
  <2>3. ASSUME bs # <<>> PROVE bs[1].ft = 1
    <3>1. Len(bs) >= 1
      BY <1>1, <2>3, NestFacts
    <3>2. 1 \in 1 .. Len(cs) - 1
      BY <1>1, <1>2, <3>1
    <3> QED BY <1>1, <2>1, <3>2
  <2>4. Len(gs) > 0 => gs[1].top = 0
    BY <1>1, <1>2, <2>1
  <2> QED BY <2>2, <2>3, <2>4
<1> QED BY <1>1, <1>6, <1>7, <1>8, <1>9 DEF Just

-----------------------------------------------------------------------------
(* Both at once *)

(* Enough operands, and just the operands as long as all is fine.          *)
Holds(fs, n, cs, run, fine) == Enough(fs, n, cs, run) /\ (fine => Just(fs, n, cs))

LEMMA LeastAll ==
    ASSUME BalancedCode, NEW fs, NEW n, NEW cs, NEW run, Enough(fs, n, cs, run)
    PROVE  \A k \in 1 .. Len(fs) : Least(fs[k]) \in Nat
<1>1. \A k \in 1 .. Len(fs) : fs[k] \in Frame /\ Reached(fs[k])
  BY NestFacts DEF Enough, AllReached
<1> QED BY <1>1, LeastInt

(* What Just says of the frame at work.                                    *)
LEMMA TopSuits ==
    ASSUME NEW fs, NEW n, NEW cs, Just(fs, n, cs), cs # <<>>, Last(cs).ft <= Len(fs)
    PROVE  Suits(fs[Len(fs)], n - Bottom(fs, cs, Len(fs)), Last(cs).pc)
<1>1. ~(Len(fs) < Last(cs).ft)
  BY NestFacts DEF Just
<1> QED BY <1>1 DEF Just, Going

LEMMA WorkHolds ==
    ASSUME BalancedCode,
           NEW fs, NEW n \in Nat, NEW cs, NEW run, NEW fine, Holds(fs, n, cs, run, fine),
           NEW gs, NEW m \in Nat, NEW bs, OnTop(fs, cs, gs, bs), Last(cs).pc = "exec",
           NEW x, NEW y, Goes(fs[Len(fs)], gs[Len(fs)], x, y),
           m + Effect(Last(bs).pc) >= n - x + y, Last(bs).pc = "exec" \/ y >= 1,
           NEW go, NEW ok,
           ok => /\ fine /\ m + Effect(Last(bs).pc) = n - x + y
                 /\ Last(bs).pc \in Converting \cup {"exec"}
    PROVE  Holds(gs, m, bs, go, ok) /\ n >= x
<1>1. /\ Enough(fs, n, cs, run) /\ Len(fs) \in 1 .. Len(fs)
      /\ Nest(fs, cs) /\ cs # <<>> /\ Last(cs).ft <= Len(fs)
  BY OnTopFacts DEF Holds, OnTop
<1>2. Least(fs[Len(fs)]) \in Nat
  BY <1>1, LeastAll
<1>3. Least(gs[Len(fs)]) \in Nat
  <2>1. gs[Len(fs)] \in Frame
    BY <1>1, NestFacts DEF OnTop
  <2> QED BY <2>1, LeastInt DEF Goes
<1>4. Enough(gs, m, bs, go) /\ n >= x
  BY <1>1, <1>2, <1>3, WorkEnough
<1>5. ASSUME ok PROVE Just(gs, m, bs)
  <2> DEFINE z == n - Bottom(fs, cs, Len(fs))
             pc == Last(bs).pc
  <2>1. /\ Just(fs, n, cs) /\ m + Effect(pc) = n - x + y /\ pc \in Converting \cup {"exec"}
    BY <1>5 DEF Holds
  <2>2. Bottom(fs, cs, Len(fs)) \in Nat
    BY <1>1, BottomInt
  <2>3. Matches(fs[Len(fs)], z)
    <3>1. Suits(fs[Len(fs)], z, "exec") /\ Effect("exec") = 0 /\ z \in Int
      <4>1. Suits(fs[Len(fs)], z, Last(cs).pc)
        BY <1>1, <2>1, TopSuits
      <4>2. z \in Int
        BY <2>2
      <4> HIDE DEF z
      <4> QED BY <4>1, <4>2 DEF Effect
    <3> HIDE DEF z
    <3> QED BY <3>1 DEF Suits
  <2>4. Matches(gs[Len(fs)], z - x + y) /\ x \in Nat /\ y \in Nat
    <3>1. z \in Int
      BY <2>2
    <3> HIDE DEF z
    <3> QED BY <2>3, <3>1 DEF Goes
  <2>5. Effect(pc) \in Int /\ pc # "cfunc"
    BY <2>1, EffectInt DEF Converting
  <2>6. z - x + y = m - Bottom(fs, cs, Len(fs)) + Effect(pc)
    <3> DEFINE b == Bottom(fs, cs, Len(fs))
               e == Effect(pc)
    <3>1. b \in Nat /\ e \in Int /\ m + e = n - x + y /\ x \in Nat /\ y \in Nat
      BY <2>1, <2>2, <2>4, <2>5
    <3> HIDE DEF b, e
    <3>2. n - b - x + y = m - b + e
      BY <3>1
    <3> QED BY <3>2 DEF b, e
  <2>7. ~Func[gs[Len(fs)].func].cfunc
    BY DEF Goes, SameButAt
  <2>8. Suits(gs[Len(fs)], m - Bottom(fs, cs, Len(fs)), pc)
    <3> HIDE DEF z, pc
    <3> QED BY <2>4, <2>5, <2>6, <2>7 DEF Suits
  <2> QED BY <2>1, <2>8, OnTopJust
<1> QED BY <1>4, <1>5 DEF Holds

LEMMA BackHolds ==
    ASSUME BalancedCode,
           NEW fs, NEW n \in Nat, NEW cs, NEW run, NEW fine, Holds(fs, n, cs, run, fine),
           NEW m \in Nat, NEW bs, OnTop(fs, cs, fs, bs),
           Last(cs).pc \notin {"exec", "loop"},
           m + Effect(Last(bs).pc) >= n + Effect(Last(cs).pc), NEW go, NEW ok,
           ok => /\ fine /\ m + Effect(Last(bs).pc) = n + Effect(Last(cs).pc)
                 /\ Last(cs).pc \in Converting
                 /\ Last(bs).pc \in Converting \cup {"exec"}
    PROVE  Holds(fs, m, bs, go, ok) /\ n + Effect(Last(cs).pc) >= 1
<1>1. /\ Enough(fs, n, cs, run) /\ Len(fs) \in 1 .. Len(fs)
      /\ Nest(fs, cs) /\ cs # <<>> /\ Last(cs).ft <= Len(fs)
  BY OnTopFacts DEF Holds, OnTop
<1>2. Least(fs[Len(fs)]) \in Nat
  BY <1>1, LeastAll
<1>3. Enough(fs, m, bs, go) /\ n + Effect(Last(cs).pc) >= 1
  BY <1>1, <1>2, BackEnough
<1>4. ASSUME ok PROVE Just(fs, m, bs)
  <2> DEFINE z == Bottom(fs, cs, Len(fs))
             pc == Last(cs).pc
             qc == Last(bs).pc
  <2>1. /\ Just(fs, n, cs) /\ m + Effect(qc) = n + Effect(pc)
        /\ pc \in Converting /\ qc \in Converting \cup {"exec"}
    BY <1>4 DEF Holds
  <2>2. z \in Nat /\ Effect(pc) \in Int /\ Effect(qc) \in Int
    BY <1>1, BottomInt, EffectInt
  <2>3. pc # "cfunc" /\ qc # "cfunc"
    BY <2>1 DEF Converting
  <2>4. Suits(fs[Len(fs)], n - z, pc)
    BY <1>1, <2>1, TopSuits
  <2> HIDE DEF z, pc, qc
  <2>5. Matches(fs[Len(fs)], n - z + Effect(pc)) /\ ~Func[fs[Len(fs)].func].cfunc
    BY <2>1, <2>3, <2>4 DEF Suits
  <2>6. n - z + Effect(pc) = m - z + Effect(qc)
    BY <2>1, <2>2
  <2>7. Suits(fs[Len(fs)], m - z, qc)
    BY <2>3, <2>5, <2>6 DEF Suits
  <2> QED BY <2>1, <2>7, OnTopJust DEF z, qc
<1> QED BY <1>3, <1>4 DEF Holds

LEMMA RunHolds ==
    ASSUME BalancedCode,
           NEW fs, NEW n \in Nat, NEW cs, NEW fine, Holds(fs, n, cs, TRUE, fine),
           NEW bs, OnTop(fs, cs, fs, bs), Last(cs).pc = "loop",
           Last(bs).pc \in {"exec", "cfunc"}
    PROVE  Holds(fs, n, bs, TRUE, fine)
<1>1. /\ Enough(fs, n, cs, TRUE) /\ Len(fs) \in 1 .. Len(fs)
      /\ Nest(fs, cs) /\ cs # <<>> /\ Last(cs).ft <= Len(fs)
  <2>1. Enough(fs, n, cs, TRUE)
    BY DEF Holds
  <2>2. Len(fs) \in 1 .. Len(fs)
    BY OnTopFacts
  <2> QED BY <2>1, <2>2 DEF OnTop
<1>2. Least(fs[Len(fs)]) \in Nat
  BY <1>1, LeastAll
<1>3. Enough(fs, n, bs, TRUE)
  BY <1>1, <1>2, RunEnough
<1>4. ASSUME fine PROVE Just(fs, n, bs)
  <2> DEFINE z == n - Bottom(fs, cs, Len(fs))
  <2>1. Just(fs, n, cs)
    BY <1>4 DEF Holds
  <2>2. Suits(fs[Len(fs)], z, "loop")
    BY <1>1, <2>1, TopSuits
  <2>3. z \in Int
    BY <1>1, BottomInt
  <2>4. /\ Effect("loop") = 0 /\ Effect("exec") = 0
        /\ "exec" \notin Converting /\ "cfunc" \notin Converting
    BY DEF Effect, Converting
  <2> HIDE DEF z
  <2>5. Matches(fs[Len(fs)], z)
    BY <2>2, <2>3, <2>4 DEF Suits
  <2>6. Suits(fs[Len(fs)], z, Last(bs).pc)
    <3>1. CASE Last(bs).pc = "exec"
      BY <2>3, <2>4, <2>5, <3>1 DEF Suits
    <3>2. CASE Last(bs).pc = "cfunc"
      BY <2>3, <2>4, <2>5, <3>2 DEF Suits
    <3> QED BY <3>1, <3>2
  <2> QED BY <2>1, <2>6, OnTopJust DEF z
<1> QED BY <1>3, <1>4 DEF Holds

LEMMA EnterHolds ==
    ASSUME BalancedCode,
           NEW fs, NEW n \in Nat, NEW cs, NEW run, NEW fine, Holds(fs, n, cs, run, fine),
           cs # <<>> => Last(cs).pc \notin {"exec", "loop"},
           NEW gs, Pushed(fs, gs), gs[Len(gs)].top = n,
           NEW bs, Begun(fs, cs, bs), Nest(gs, bs)
    PROVE  Holds(gs, n, bs, TRUE, fine)
<1>1. Enough(gs, n, bs, TRUE)
  BY EnterEnough DEF Holds
<1>2. fine => Just(gs, n, bs)
  BY EnterJust DEF Holds
<1> QED BY <1>1, <1>2 DEF Holds

LEMMA CallHolds ==
    ASSUME BalancedCode,
           NEW fs, NEW n \in Nat, NEW cs, NEW run, NEW fine, Holds(fs, n, cs, run, fine),
           Last(cs).pc = "exec",
           NEW hs, NEW bs, OnTop(fs, cs, hs, bs), Last(bs).pc = "loop",
           NEW x, Goes(fs[Len(fs)], hs[Len(fs)], x, 1),
           NEW gs, Pushed(hs, gs), gs[Len(gs)].top = n - x,
           NEW m \in Nat, m = n - x + gs[Len(gs)].argc, NEW go
    PROVE  Holds(gs, m, bs, go, fine)
<1>1. Enough(fs, n, cs, run) /\ Len(fs) \in 1 .. Len(fs) /\ Nest(hs, bs)
  BY OnTopFacts DEF Holds, OnTop
<1>2. Least(fs[Len(fs)]) \in Nat
  BY <1>1, LeastAll
<1>3. Least(hs[Len(fs)]) \in Nat
  <2>1. hs[Len(fs)] \in Frame
    BY <1>1, NestFacts DEF OnTop
  <2> QED BY <2>1, LeastInt DEF Goes
<1>4. m >= n - x
  <2>1. gs[Len(gs)].argc \in Nat /\ x \in Nat
    BY DEF Pushed, Fresh, Frame, Goes
  <2> QED BY <2>1
<1>5. Enough(gs, m, bs, go)
  BY <1>1, <1>2, <1>3, <1>4, CallEnough
<1>6. fine => Just(gs, m, bs)
  BY CallJust DEF Holds
<1> QED BY <1>5, <1>6 DEF Holds

LEMMA ReturnHolds ==
    ASSUME NEW fs, NEW n, NEW cs, NEW run, NEW fine, Holds(fs, n, cs, run, fine),
           NEW gs, NEW bs, Returned(fs, cs, gs, bs),
           NEW m \in Nat, m = fs[Len(fs)].top + 1, NEW go
    PROVE  Holds(gs, m, bs, go, fine)
<1>1. Enough(gs, m, bs, go)
  BY ReturnEnough DEF Holds
<1>2. fine => Just(gs, m, bs)
  BY ReturnJust DEF Holds
<1> QED BY <1>1, <1>2 DEF Holds

LEMMA FinishHolds ==
    ASSUME BalancedCode,
           NEW fs, NEW n \in Nat, NEW cs, NEW run, NEW fine, Holds(fs, n, cs, run, fine),
           n >= 1, Last(cs).pc = "loop", Len(fs) < Last(cs).ft \/ ~run,
           NEW l, l = IF Len(fs) < Last(cs).ft THEN Len(fs) ELSE Last(cs).ft,
           NEW gs, NEW bs, Ended(fs, cs, l, gs, bs),
           NEW m \in Nat,
           m = IF Len(fs) > Last(cs).ft THEN fs[Last(cs).ft + 1].top ELSE n - 1,
           NEW go, fine => run
    PROVE  Holds(gs, m, bs, go, fine)
<1>1. \A k \in 1 .. Len(fs) : Least(fs[k]) \in Nat
  BY LeastAll DEF Holds
<1>2. Enough(gs, m, bs, go)
  BY <1>1, FinishEnough DEF Holds
<1>3. ASSUME fine PROVE Just(gs, m, bs)
  <2>1. Len(fs) < Last(cs).ft /\ Just(fs, n, cs)
    BY <1>3 DEF Holds
  <2>2. l = Len(fs) /\ ~(Len(fs) > Last(cs).ft)
    <3>1. Len(fs) \in Nat /\ Last(cs).ft \in Nat
      BY NestFacts DEF Ended
    <3> QED BY <2>1, <3>1
  <2>3. m = n - 1 /\ Ended(fs, cs, Len(fs), gs, bs)
    BY <2>2
  <2> QED BY <2>1, <2>3, FinishJust
<1> QED BY <1>2, <1>3 DEF Holds

(* A yield leaves the frames, above their activation too.                  *)
LEMMA YieldHolds ==
    ASSUME BalancedCode,
           NEW fs, NEW n \in Nat, NEW cs, NEW run, NEW fine, Holds(fs, n, cs, run, fine),
           Last(cs).pc = "exec", NEW hs, OnTop(fs, cs, hs, cs),
           Goes(fs[Len(fs)], hs[Len(fs)], 0, 0),
           NEW bs, Ended(hs, cs, Len(fs), hs, bs), NEW go
    PROVE  Holds(hs, n, bs, go, FALSE)
<1>1. Effect(Last(cs).pc) = 0
  BY DEF Effect
<1>2. Holds(hs, n, cs, go, FALSE)
  <2>1. PICK x, y, ok : x = 0 /\ y = 0 /\ ok = FALSE
    OBVIOUS
  <2>2. Goes(fs[Len(fs)], hs[Len(fs)], x, y) /\ n + Effect(Last(cs).pc) >= n - x + y
    BY <1>1, <2>1
  <2>3. ~ok
    BY <2>1
  <2>4. Holds(hs, n, cs, go, ok)
    BY <2>2, <2>3, WorkHolds
  <2> QED BY <2>1, <2>4
<1>3. Enough(hs, n, cs, go) /\ \A k \in 1 .. Len(hs) : Least(hs[k]) \in Nat
  BY <1>2, LeastAll DEF Holds
<1>4. /\ Len(hs) = Len(fs) /\ Last(cs).ft <= Len(fs) /\ cs # <<>>
      /\ Last(cs) = cs[Len(cs)] /\ Len(cs) \in 1 .. Len(cs)
      /\ Base(hs, cs, Len(cs)) \in Nat
  <2>1. Len(hs) = Len(fs) /\ Last(cs).ft <= Len(fs) /\ cs # <<>> /\ Nest(fs, cs)
    BY DEF OnTop
  <2>2. /\ Len(cs) \in 1 .. Len(cs)
        /\ Base(hs, cs, Len(cs)) = Base(fs, cs, Len(cs)) /\ Base(fs, cs, Len(cs)) \in Nat
    BY OnTopFacts
  <2>3. Last(cs) = cs[Len(cs)]
    BY <2>1, NestFacts
  <2> QED BY <2>1, <2>2, <2>3
<1>5. ~(Len(hs) < Last(cs).ft) /\ Len(fs) \in 1 .. Len(fs)
  BY <1>4, OnTopFacts, NestFacts DEF OnTop
<1>6. n >= Base(hs, cs, Len(cs)) + Least(hs[Len(hs)])
  BY <1>1, <1>3, <1>4, <1>5 DEF Enough, Running
<1>7. Least(hs[Len(fs)]) \in Nat
  BY <1>3, <1>4, <1>5
<1>8. /\ n >= Base(hs, cs, Len(cs))
      /\ n + 1 >= Base(hs, cs, Len(cs)) + Least(hs[Len(fs)])
  BY <1>4, <1>6, <1>7
<1>9. ~(Len(fs) < Last(cs).ft)
  BY <1>4, <1>5
<1>10. Enough(hs, n, bs, go)
  BY <1>3, <1>8, <1>9, EndEnough
<1> QED BY <1>10 DEF Holds

-----------------------------------------------------------------------------
(* What the steps preserve *)

(* Frame r is about to execute a TYPECAST.                                 *)
AtCast(r) == r.op_ptr <= Len(Code[r.func]) /\ Code[r.func][r.op_ptr].op = "TYPECAST"

(* Its type has just been pushed.                                          *)
Typed ==
    \A k \in 1 .. Len(frames) : AtCast(frames[k]) =>
       /\ calls # <<>> /\ Act.pc = "exec" /\ k = Len(frames)
       /\ Len(data_stack) >= 1 /\ Top \in TypeValue

(* The state is not RUNNING for a reason.                                  *)
Blamed == calls # <<>> => state = "RUNNING" \/ raised # 0

Sound ==
    /\ crashed # "underflow"
    /\ raised = 0 => crashed # "empty"
    /\ calls = <<>> /\ raised = 0 => result.err = SXE_OK

OperandInv ==
    /\ Holds(frames, Len(data_stack), calls, state = "RUNNING", raised = 0)
    /\ Typed /\ Blamed /\ Sound

LEMMA InvNest == ASSUME Inv PROVE Nest(frames, calls)
<1>1. calls # <<>> => Last(calls) = Act
  BY DEF Last, Act
<1> QED BY <1>1 DEF Inv, TypeOK, ActsNested, Nest

LEMMA InvNestNext == ASSUME Inv' PROVE Nest(frames', calls')
<1>1. calls' # <<>> => Last(calls') = Act'
  BY DEF Last, Act
<1> QED BY <1>1 DEF Inv, TypeOK, ActsNested, Nest

(* What is known when an instruction is executed.                          *)
LEMMA ReadyFacts ==
    ASSUME BalancedCode, Inv, OperandInv, Ready
    PROVE  /\ Nest(frames, calls) /\ calls # <<>> /\ Last(calls) = Act
           /\ Last(calls).pc = "exec" /\ Last(calls).ft <= Len(frames)
           /\ Len(calls) \in Nat \ {0} /\ Len(frames) \in Nat \ {0}
           /\ GetFrame = frames[Len(frames)] /\ GetFrame \in Frame
           /\ Reached(GetFrame) /\ ~Func[GetFrame.func].cfunc
           /\ GetFrame.op_ptr <= Len(Code[GetFrame.func])
           /\ Instr = Code[GetFrame.func][GetFrame.op_ptr] /\ Instr \in Instruction
           /\ GetFrame.op_ptr \in Nat \ {0} /\ GetFrame.func \in Function
           /\ Len(data_stack) \in Nat /\ crashed = "no"
<1>1. /\ calls # <<>> /\ Busy /\ frames # <<>> /\ GetFrame \in Frame
      /\ Instr \in Instruction /\ GetFrame.op_ptr \in Nat \ {0}
  BY InstrOK, AtBusy DEF Ready
<1>2. /\ Len(calls) \in Nat \ {0} /\ Len(frames) \in Nat \ {0}
      /\ Len(data_stack) \in Nat
  BY <1>1 DEF Inv, TypeOK
<1>3. Last(calls) = Act /\ Act.pc = "exec" /\ crashed = "no"
      /\ GetFrame.op_ptr <= Len(Code[GetFrame.func])
  BY DEF Ready, At, Last, Act
<1>4. Reached(GetFrame)
  BY <1>2 DEF OperandInv, Holds, Enough, AllReached, GetFrame
<1>5. GetFrame.func \in Function
  BY <1>1 DEF Frame
<1>6. WellFormed(GetFrame.func) /\ Code[GetFrame.func] \in Seq(Instruction)
  BY <1>5, CodeAssumption
<1>7. Code[GetFrame.func] # <<>>
  BY <1>1, <1>3, <1>6
<1>8. ~Func[GetFrame.func].cfunc
  BY <1>6, <1>7 DEF WellFormed
<1>9. Act.ft <= Len(frames)
  BY <1>1, <1>2, ActType DEF Busy
<1> QED BY <1>1, <1>2, <1>3, <1>4, <1>5, <1>8, <1>9, InvNest DEF GetFrame, Instr

(* An instruction other than a PUSH does not lead to a TYPECAST.           *)
LEMMA NotCast ==
    ASSUME NEW r \in Frame, NEW q, SameButAt(r, q), r.op_ptr <= Len(Code[r.func]),
           q.op_ptr \in Onward(Code[r.func][r.op_ptr], r.op_ptr),
           Code[r.func][r.op_ptr].op # "PUSH"
    PROVE  ~AtCast(q)
<1> DEFINE f == r.func
           p == r.op_ptr
           i == Code[f][p]
<1>1. f \in Function /\ p \in Nat \ {0}
  BY DEF Frame
<1>2. WellFormed(f) /\ Code[f] \in Seq(Instruction)
  BY <1>1, CodeAssumption
<1>3. p \in DOMAIN Code[f] /\ p \in 1 .. Len(Code[f]) /\ Len(Code[f]) \in Nat
  BY <1>1, <1>2
<1>4. Target(i) \subseteq 1 .. Len(Code[f]) + 1
  <2> HIDE DEF f, p
  <2> QED BY <1>2, <1>3 DEF WellFormed
<1> SUFFICES ASSUME AtCast(q) PROVE FALSE
  OBVIOUS
<1> DEFINE o == q.op_ptr
<1>5. q.func = f /\ o <= Len(Code[f]) /\ Code[f][o].op = "TYPECAST"
  BY DEF AtCast, SameButAt
<1>6. o \in Target(i) \/ o = p + 1
  BY DEF Onward
<1>7. o \in DOMAIN Code[f]
  <2> HIDE DEF f, p, o, i
  <2> QED BY <1>1, <1>2, <1>3, <1>4, <1>5, <1>6
<1>8. CASE o \in Target(i)
  <2> HIDE DEF f, p, o
  <2> QED BY <1>2, <1>3, <1>5, <1>7, <1>8 DEF WellFormed
<1>9. CASE o = p + 1
  <2>1. i.op # "PUSH"
    OBVIOUS
  <2>2. o - 1 = p
    <3> HIDE DEF f, p, o, i
    <3> QED BY <1>1, <1>9
  <2>3. Code[f][o - 1].op = "PUSH"
    <3> HIDE DEF f, p, o, i
    <3> QED BY <1>2, <1>5, <1>7 DEF WellFormed
  <2> QED BY <2>1, <2>2, <2>3
<1> QED BY <1>6, <1>8, <1>9

(* A fresh frame is not at one.                                            *)
LEMMA FreshNotCast == ASSUME NEW r, Fresh(r) PROVE ~AtCast(r)
<1>1. r.func \in Function /\ r.op_ptr = 1
  BY DEF Fresh, Frame
<1> DEFINE f == r.func
<1>2. WellFormed(f) /\ Code[f] \in Seq(Instruction)
  BY <1>1, CodeAssumption
<1> HIDE DEF f
<1>3. 1 <= Len(Code[f]) => Code[f][1].op # "TYPECAST"
  <2> SUFFICES ASSUME 1 <= Len(Code[f]) PROVE Code[f][1].op # "TYPECAST"
    OBVIOUS
  <2> PICK o \in {1} : TRUE
    OBVIOUS
  <2>1. o \in DOMAIN Code[f] /\ o = 1
    BY <1>2
  <2> QED BY <1>2, <2>1 DEF WellFormed
<1> QED BY <1>1, <1>3 DEF AtCast, f

(* fs is the frame stack with the top frame gone on.                       *)
Steady(fs) ==
    /\ fs \in Seq(Frame) /\ Len(fs) = Len(frames)
    /\ \A k \in 1 .. Len(frames) - 1 : fs[k] = frames[k]
    /\ SameButAt(GetFrame, fs[Len(frames)])
    /\ fs[Len(frames)].op_ptr \in Onward(Instr, GetFrame.op_ptr)

(* A change of the top frame to r.                                         *)
LEMMA TopSteady ==
    ASSUME TypeOK, frames # <<>>, NEW r \in Frame, SameButAt(GetFrame, r),
           r.op_ptr \in Onward(Instr, GetFrame.op_ptr),
           NEW fs, fs = [frames EXCEPT ![Len(frames)] = r]
    PROVE  Steady(fs)
<1>1. frames \in Seq(Frame) /\ Len(frames) \in 1 .. Len(frames) /\ Len(frames) \in Nat
  BY DEF TypeOK
<1>2. /\ fs \in Seq(Frame)
      /\ Len(fs) = Len(frames)
      /\ fs[Len(frames)] = r
      /\ \A k \in 1 .. Len(frames) : k # Len(frames) => fs[k] = frames[k]
  BY <1>1, UpdateSeq
<1>3. \A k \in 1 .. Len(frames) - 1 : fs[k] = frames[k]
  <2> SUFFICES ASSUME NEW k \in 1 .. Len(frames) - 1 PROVE fs[k] = frames[k]
    OBVIOUS
  <2>1. k \in 1 .. Len(frames) /\ k # Len(frames)
    BY <1>1
  <2> QED BY <1>2, <2>1
<1> QED BY <1>2, <1>3 DEF Steady

LEMMA AdvancedSteady ==
    ASSUME TypeOK, frames # <<>>, Instr.op # "JUMP" PROVE Steady(Advanced)
<1> DEFINE r == [frames[Len(frames)] EXCEPT !.op_ptr = @ + 1]
<1>1. frames[Len(frames)] \in Frame
  BY TopFrame DEF GetFrame
<1>2. /\ r \in Frame /\ SameButAt(GetFrame, r)
      /\ r.op_ptr = GetFrame.op_ptr + 1
  BY <1>1 DEF Frame, GetFrame, SameButAt
<1>3. Advanced = [frames EXCEPT ![Len(frames)] = r]
  BY DEF Advanced
<1> HIDE DEF r
<1>4. r.op_ptr \in Onward(Instr, GetFrame.op_ptr)
  BY <1>2 DEF Onward
<1> QED BY <1>2, <1>3, <1>4, TopSteady

LEMMA JumpedSteady ==
    ASSUME TypeOK, frames # <<>>, Instr.op \in {"JUMP", "TJUMP", "FJUMP"},
           Instr.n \in Nat \ {0}
    PROVE  Steady(Jumped(Instr.n))
<1> DEFINE n == Instr.n
           r == [frames[Len(frames)] EXCEPT !.op_ptr = n]
<1>1. frames[Len(frames)] \in Frame
  BY TopFrame DEF GetFrame
<1>2. /\ r \in Frame /\ SameButAt(GetFrame, r)
      /\ r.op_ptr = n
  <2>1. n \in Nat \ {0}
    OBVIOUS
  <2> HIDE DEF n
  <2> QED BY <1>1, <2>1 DEF Frame, GetFrame, SameButAt
<1>3. Jumped(n) = [frames EXCEPT ![Len(frames)] = r]
  BY DEF Jumped
<1> HIDE DEF r
<1>4. r.op_ptr \in Onward(Instr, GetFrame.op_ptr)
  BY <1>2 DEF Onward, Target
<1> QED BY <1>2, <1>3, <1>4, TopSteady

(* A further change of the top frame that keeps its place.                 *)
LEMMA StillSteady ==
    ASSUME TypeOK, frames # <<>>, NEW fs, Steady(fs), NEW r \in Frame,
           SameButAt(fs[Len(frames)], r), r.op_ptr = fs[Len(frames)].op_ptr,
           NEW gs, gs = [fs EXCEPT ![Len(frames)] = r]
    PROVE  Steady(gs)
<1>1. /\ fs \in Seq(Frame) /\ Len(frames) \in 1 .. Len(fs) /\ Len(frames) \in Nat
      /\ Len(fs) = Len(frames)
  BY DEF TypeOK, Steady
<1>2. /\ gs \in Seq(Frame)
      /\ Len(gs) = Len(frames)
      /\ gs[Len(frames)] = r
      /\ \A k \in 1 .. Len(frames) : k # Len(frames) => gs[k] = fs[k]
  BY <1>1, UpdateSeq
<1>3. \A k \in 1 .. Len(frames) - 1 : gs[k] = frames[k]
  BY <1>1, <1>2 DEF Steady
<1>4. SameButAt(GetFrame, r) /\ r.op_ptr \in Onward(Instr, GetFrame.op_ptr)
  BY DEF Steady, SameButAt
<1> QED BY <1>2, <1>3, <1>4 DEF Steady

LEMMA FlagSteady ==
    ASSUME TypeOK, frames # <<>>, NEW fs, Steady(fs), NEW b \in BOOLEAN
    PROVE  Steady([fs EXCEPT ![Len(frames)].flag = b])
<1> DEFINE r == [fs[Len(frames)] EXCEPT !.flag = b]
<1>1. fs[Len(frames)] \in Frame
  BY DEF Steady, TypeOK
<1>2. r \in Frame /\ SameButAt(fs[Len(frames)], r) /\ r.op_ptr = fs[Len(frames)].op_ptr
  BY <1>1 DEF Frame, SameButAt
<1>3. [fs EXCEPT ![Len(frames)].flag = b] = [fs EXCEPT ![Len(frames)] = r]
  OBVIOUS
<1> HIDE DEF r
<1> QED BY <1>2, <1>3, StillSteady

LEMMA FlaggedSteady ==
    ASSUME TypeOK, frames # <<>>, Instr.op # "JUMP", NEW b \in BOOLEAN
    PROVE  Steady(Flagged(b))
  BY AdvancedSteady, FlagSteady DEF Flagged

LEMMA AssignedSteady ==
    ASSUME TypeOK, frames # <<>>, Instr.op # "JUMP",
           NEW n \in 1 .. Len(GetFrame.items), NEW v \in Value
    PROVE  Steady(Assigned(n, v))
<1>1. Steady(Advanced) /\ Like(Advanced)
  BY AdvancedSteady, AdvancedLike
<1> DEFINE fs == Advanced
           old == fs[Len(frames)].items
           new == [old EXCEPT ![n] = v]
           r == [fs[Len(frames)] EXCEPT !.items = new]
<1>2. fs[Len(frames)] \in Frame
  BY <1>1 DEF Like, TypeOK
<1>3. old \in Seq(Value) /\ n \in 1 .. Len(old)
  BY <1>1, <1>2, TopFrame DEF Like, Frame, GetFrame
<1>4. new \in Seq(Value)
  BY <1>3, UpdateSeq
<1>5. r \in Frame /\ SameButAt(fs[Len(frames)], r) /\ r.op_ptr = fs[Len(frames)].op_ptr
  <2> HIDE DEF new, fs
  <2> QED BY <1>2, <1>4 DEF Frame, SameButAt
<1>6. Assigned(n, v) = [fs EXCEPT ![Len(frames)] = r]
  BY DEF Assigned
<1>7. Steady(fs)
  BY <1>1
<1> HIDE DEF r, fs
<1> QED BY <1>5, <1>6, <1>7, StillSteady

(* Moving the innermost activation leaves them nested.                     *)
LEMMA MovedNest ==
    ASSUME Inv, calls # <<>>, Busy, NEW fs \in Seq(Frame), Len(fs) = Len(frames),
           NEW cs, Moved(cs)
    PROVE  /\ Nest(fs, cs)
           /\ cs # <<>> /\ Len(cs) = Len(calls) /\ Last(cs) = cs[Len(calls)]
           /\ Last(cs).ft = Act.ft /\ Act.ft <= Len(fs)
           /\ \A k \in 1 .. Len(calls) - 1 : cs[k] = calls[k]
<1>1. /\ cs \in Seq(Activation) /\ Len(cs) = Len(calls)
      /\ \A i \in 1 .. Len(cs) : cs[i].ft = calls[i].ft
  BY MovedCalls
<1>2. Len(calls) \in Nat /\ Len(calls) > 0 /\ Len(fs) \in Nat
  BY DEF Busy, Inv, TypeOK
<1>3. cs # <<>> /\ Last(cs) = cs[Len(calls)]
  BY <1>1, <1>2 DEF Last
<1>4. Last(cs).ft = Act.ft
  BY <1>3 DEF Moved
<1>5. Act.ft \in Nat \ {0} /\ Act.ft <= Len(fs)
  BY <1>2, ActType DEF Busy
<1>6. \A i, j \in 1 .. Len(cs) : i < j => cs[i].ft < cs[j].ft
  BY <1>1 DEF Inv, ActsNested
<1>7. Len(fs) >= IF Last(cs).pc = "loop" THEN Last(cs).ft - 1 ELSE Last(cs).ft
  BY <1>2, <1>4, <1>5
<1> QED BY <1>1, <1>3, <1>4, <1>5, <1>6, <1>7 DEF Nest, Moved

(* What an instruction does to its frame is what BalancedCode says.        *)
LEMMA SteadyOnTop ==
    ASSUME BalancedCode, Inv, OperandInv, Ready, NEW gs, Steady(gs), NEW bs, Moved(bs)
    PROVE  /\ OnTop(frames, calls, gs, bs)
           /\ Goes(frames[Len(frames)], gs[Len(frames)], Needs(Instr), Leaves(Instr))
<1>1. /\ Nest(frames, calls) /\ calls # <<>> /\ Last(calls) = Act
      /\ Last(calls).ft <= Len(frames)
      /\ Len(frames) \in Nat \ {0}
      /\ GetFrame = frames[Len(frames)] /\ GetFrame \in Frame
      /\ Reached(GetFrame) /\ ~Func[GetFrame.func].cfunc
      /\ GetFrame.op_ptr <= Len(Code[GetFrame.func])
      /\ Instr = Code[GetFrame.func][GetFrame.op_ptr]
  BY ReadyFacts
<1>2. gs \in Seq(Frame) /\ Len(gs) = Len(frames) /\ SameButAt(GetFrame, gs[Len(frames)])
  BY DEF Steady
<1>3. Busy
  BY InstrOK
<1>4. /\ Nest(gs, bs) /\ Len(bs) = Len(calls) /\ Last(bs).ft = Act.ft
      /\ \A k \in 1 .. Len(calls) - 1 : bs[k] = calls[k]
  BY <1>1, <1>2, <1>3, MovedNest
<1>5. OnTop(frames, calls, gs, bs)
  BY <1>1, <1>2, <1>4 DEF OnTop, Steady
<1>6. gs[Len(frames)] \in Frame
  BY <1>1, <1>2
<1>7. gs[Len(frames)].op_ptr \in Onward(Instr, GetFrame.op_ptr)
  BY DEF Steady
<1>8. Goes(GetFrame, gs[Len(frames)], Needs(Instr), Leaves(Instr))
  BY <1>1, <1>2, <1>6, <1>7, BalancedGoes
<1> QED BY <1>1, <1>5, <1>8

(* An instruction done, or up to the conversion of an operand.             *)
LEMMA InstrHolds ==
    ASSUME BalancedCode, Inv, OperandInv, Ready, NEW gs, Steady(gs), NEW bs, Moved(bs),
           NEW m \in Nat,
           m + Effect(Last(bs).pc) >= Len(data_stack) - Needs(Instr) + Leaves(Instr),
           Last(bs).pc = "exec" \/ Leaves(Instr) >= 1, NEW go, NEW ok,
           ok => /\ raised = 0
                 /\ m + Effect(Last(bs).pc)
                      = Len(data_stack) - Needs(Instr) + Leaves(Instr)
                 /\ Last(bs).pc \in Converting \cup {"exec"}
    PROVE  Holds(gs, m, bs, go, ok)
<1>1. /\ OnTop(frames, calls, gs, bs)
      /\ Goes(frames[Len(frames)], gs[Len(frames)], Needs(Instr), Leaves(Instr))
  BY SteadyOnTop
<1>2. Last(calls).pc = "exec" /\ Len(data_stack) \in Nat
  BY ReadyFacts
<1>3. Holds(frames, Len(data_stack), calls, state = "RUNNING", raised = 0)
  BY DEF OperandInv
<1> DEFINE x == Needs(Instr)
           y == Leaves(Instr)
           n == Len(data_stack)
           run == state = "RUNNING"
           fine == raised = 0
<1> HIDE DEF x, y, n, run, fine
<1>4. /\ Goes(frames[Len(frames)], gs[Len(frames)], x, y)
      /\ n \in Nat /\ Holds(frames, n, calls, run, fine)
      /\ m + Effect(Last(bs).pc) >= n - x + y
      /\ Last(bs).pc = "exec" \/ y >= 1
      /\ ok => /\ fine /\ m + Effect(Last(bs).pc) = n - x + y
               /\ Last(bs).pc \in Converting \cup {"exec"}
  BY <1>1, <1>2, <1>3 DEF x, y, n, run, fine
<1> QED BY <1>1, <1>2, <1>4, WorkHolds

(* The operands are there.                                                 *)
LEMMA OperandsThere ==
    ASSUME BalancedCode, Inv, OperandInv, Ready
    PROVE  Len(data_stack) >= Needs(Instr)
<1>1. /\ Nest(frames, calls) /\ calls # <<>> /\ Last(calls) = Act
      /\ Last(calls).pc = "exec" /\ Last(calls).ft <= Len(frames)
      /\ Len(calls) \in Nat \ {0} /\ Len(frames) \in Nat \ {0}
      /\ GetFrame = frames[Len(frames)] /\ GetFrame \in Frame
      /\ Reached(GetFrame) /\ ~Func[GetFrame.func].cfunc
      /\ GetFrame.op_ptr <= Len(Code[GetFrame.func])
      /\ Instr = Code[GetFrame.func][GetFrame.op_ptr] /\ Instr \in Instruction
      /\ GetFrame.op_ptr \in Nat \ {0} /\ GetFrame.func \in Function
      /\ Len(data_stack) \in Nat
  BY ReadyFacts
<1> DEFINE f == GetFrame.func
           p == GetFrame.op_ptr
<1>2. Balanced(Code[f], Depth[f]) /\ Depth[f][p] # Unreached
  BY <1>1 DEF BalancedCode, Reached
<1>3. p \in 1 .. Len(Code[f])
  <2>1. Code[f] \in Seq(Instruction)
    BY <1>1, CodeAssumption
  <2> HIDE DEF f, p
  <2> QED BY <1>1, <2>1 DEF f, p
<1>4. Depth[f][p] >= Needs(Instr)
  <2> DEFINE i == Code[f][p]
  <2>1. Depth[f][p] >= Needs(i)
    <3> HIDE DEF f, p
    <3> QED BY <1>2, <1>3 DEF Balanced
  <2> QED BY <1>1, <2>1
<1>5. Least(GetFrame) = Depth[f][p] /\ Least(GetFrame) \in Nat
  BY <1>1, LeastInt DEF Least
<1>6. Enough(frames, Len(data_stack), calls, state = "RUNNING")
  BY DEF OperandInv, Holds
<1>7. ~(Len(frames) < Last(calls).ft) /\ Effect(Last(calls).pc) = 0
  BY <1>1, NestFacts DEF Effect
<1>8. Base(frames, calls, Len(calls)) \in Nat
  <2>1. Len(calls) \in 1 .. Len(calls) /\ Last(calls) = calls[Len(calls)]
    BY <1>1 DEF Last
  <2>2. Last(calls).ft \in 1 .. Len(frames)
    BY <1>1, NestFacts
  <2> QED BY <1>1, <2>1, <2>2, NestFacts DEF Base
<1>9. Len(data_stack) + 0 >= Base(frames, calls, Len(calls)) + Least(frames[Len(frames)])
  BY <1>1, <1>6, <1>7 DEF Enough, Running
<1> HIDE DEF f, p
<1>10. Needs(Instr) \in Nat
  BY <1>1, NeedsNat
<1>11. Len(data_stack) >= Least(GetFrame)
  BY <1>1, <1>5, <1>8, <1>9
<1> QED BY <1>1, <1>4, <1>5, <1>10, <1>11

-----------------------------------------------------------------------------
(* The rest of the invariant *)

LEMMA Uncast ==
    ASSUME OperandInv, calls = <<>> \/ Act.pc # "exec"
    PROVE  \A k \in 1 .. Len(frames) : ~AtCast(frames[k])
  BY DEF OperandInv, Typed

LEMMA SteadyUncast ==
    ASSUME BalancedCode, Inv, OperandInv, Ready, NEW gs, Steady(gs)
    PROVE  /\ \A k \in 1 .. Len(gs) - 1 : ~AtCast(gs[k])
           /\ Instr.op # "PUSH" => \A k \in 1 .. Len(gs) : ~AtCast(gs[k])
<1>1. /\ Len(frames) \in Nat \ {0} /\ Len(gs) = Len(frames)
      /\ GetFrame \in Frame
      /\ GetFrame.op_ptr <= Len(Code[GetFrame.func])
      /\ Instr = Code[GetFrame.func][GetFrame.op_ptr]
  BY ReadyFacts DEF Steady
<1>2. \A k \in 1 .. Len(gs) - 1 : ~AtCast(gs[k])
  <2> SUFFICES ASSUME NEW k \in 1 .. Len(gs) - 1 PROVE ~AtCast(gs[k])
    OBVIOUS
  <2>1. k \in 1 .. Len(frames) - 1 /\ k \in 1 .. Len(frames) /\ k # Len(frames)
    BY <1>1
  <2>2. gs[k] = frames[k]
    BY <2>1 DEF Steady
  <2> QED BY <2>1, <2>2 DEF OperandInv, Typed
<1>3. ASSUME Instr.op # "PUSH" PROVE ~AtCast(gs[Len(frames)])
  BY <1>1, <1>3, NotCast DEF Steady
<1>4. ASSUME Instr.op # "PUSH", NEW k \in 1 .. Len(gs) PROVE ~AtCast(gs[k])
  <2>1. k \in 1 .. Len(gs) - 1 \/ k = Len(frames)
    BY <1>1
  <2> QED BY <1>2, <1>3, <1>4, <2>1
<1> QED BY <1>2, <1>4

(* A step that crashes nothing and leaves no frame at a cast.              *)
LEMMA RestKeeps ==
    ASSUME OperandInv, crashed' = crashed, calls' # <<>>,
           (calls # <<>> /\ state' = state) \/ state' = "RUNNING" \/ raised' # 0,
           raised' = 0 => raised = 0,
           \A k \in 1 .. Len(frames') : ~AtCast(frames'[k])
    PROVE  Typed' /\ Blamed' /\ Sound'
<1>1. Typed'
  BY DEF Typed, AtCast
<1>2. Blamed'
  BY DEF OperandInv, Blamed
<1>3. Sound'
  BY DEF OperandInv, Sound
<1> QED BY <1>1, <1>2, <1>3

-----------------------------------------------------------------------------
(* The instructions that stay in their frame *)

(* An instruction has gone on, with its operands replaced or an error.     *)
LEMMA DoneKeeps ==
    ASSUME BalancedCode, Inv, OperandInv, Ready, Steady(frames'), calls' = calls,
           crashed' = crashed, Len(data_stack') \in Nat,
           Len(data_stack') >= Len(data_stack) - Needs(Instr) + Leaves(Instr),
           \/ /\ raised' = raised /\ state' = state
              /\ Len(data_stack') = Len(data_stack) - Needs(Instr) + Leaves(Instr)
           \/ raised' # 0
    PROVE  /\ Holds(frames', Len(data_stack'), calls', state' = "RUNNING", raised' = 0)
           /\ Instr.op # "PUSH" => OperandInv'
<1>1. /\ calls # <<>> /\ Last(calls).pc = "exec"
      /\ Len(data_stack) \in Nat /\ Instr \in Instruction
  BY ReadyFacts
<1>2. Moved(calls) /\ Effect("exec") = 0
  BY MovedSelf DEF Effect
<1> DEFINE go == state' = "RUNNING"
           ok == raised' = 0
           m == Len(data_stack')
           gs == frames'
<1>3. Needs(Instr) \in Nat /\ Leaves(Instr) \in Nat
  BY <1>1, NeedsNat
<1>4. /\ m + Effect(Last(calls).pc) >= Len(data_stack) - Needs(Instr) + Leaves(Instr)
      /\ ok => /\ raised = 0
               /\ m + Effect(Last(calls).pc)
                    = Len(data_stack) - Needs(Instr) + Leaves(Instr)
               /\ Last(calls).pc \in Converting \cup {"exec"}
  BY <1>1, <1>2, <1>3
<1>5. Steady(gs) /\ m \in Nat /\ Last(calls).pc = "exec"
  BY <1>1
<1>6. Holds(gs, m, calls, go, ok)
  <2> HIDE DEF gs, m, go, ok
  <2> QED BY <1>2, <1>4, <1>5, InstrHolds
<1>7. ASSUME Instr.op # "PUSH" PROVE OperandInv'
  <2>1. \A k \in 1 .. Len(gs) : ~AtCast(gs[k])
    <3> HIDE DEF gs
    <3> QED BY <1>5, <1>7, SteadyUncast
  <2>2. Typed' /\ Blamed' /\ Sound'
    BY <1>1, <2>1, RestKeeps
  <2> QED BY <1>6, <2>2 DEF OperandInv
<1> QED BY <1>6, <1>7

LEMMA ReplaceKeeps ==
    ASSUME BalancedCode, Inv, OperandInv, Ready, NEW n \in Nat, n <= Len(data_stack),
           NEW vs, Len(vs) \in Nat, Len(Drop(n) \o vs) = Len(data_stack) - n + Len(vs),
           Replace(n, vs), Instr.op \notin {"PUSH", "JUMP"},
           n - Len(vs) = Needs(Instr) - Leaves(Instr)
    PROVE  OperandInv'
<1>1. frames # <<>> /\ TypeOK
  BY InstrOK
<1>2. Steady(frames')
  BY <1>1, AdvancedSteady DEF Replace
<1>3. Needs(Instr) \in Nat /\ Leaves(Instr) \in Nat /\ Len(data_stack) \in Nat
  BY ReadyFacts, NeedsNat
<1>4. /\ Len(data_stack') \in Nat
      /\ Len(data_stack') = Len(data_stack) - Needs(Instr) + Leaves(Instr)
  <2> DEFINE x == Needs(Instr)
             y == Leaves(Instr)
             l == Len(vs)
             m == Len(data_stack')
  <2>1. /\ x \in Nat /\ y \in Nat /\ Len(data_stack) \in Nat /\ l \in Nat
        /\ n - l = x - y /\ n <= Len(data_stack)
    BY <1>3
  <2>2. m = Len(data_stack) - n + l
    BY DEF Replace
  <2> HIDE DEF x, y, l, m
  <2>3. m \in Nat /\ m = Len(data_stack) - x + y
    BY <2>1, <2>2
  <2> QED BY <2>3 DEF x, y, m
<1> QED BY <1>2, <1>3, <1>4, DoneKeeps DEF Replace

LEMMA ReplaceOneKeeps ==
    ASSUME BalancedCode, Inv, OperandInv, Ready, NEW n \in Nat, n <= Len(data_stack),
           NEW v, Replace(n, <<v>>), Instr.op \notin {"PUSH", "JUMP"},
           n = Needs(Instr) - Leaves(Instr) + 1
    PROVE  OperandInv'
<1> DEFINE vs == <<v>>
<1>1. Len(vs) = 1 /\ Replace(n, vs)
  OBVIOUS
<1>2. Drop(n) \in Seq(Value) /\ Len(Drop(n)) = Len(data_stack) - n
  BY DropPeek
<1>3. Len(Drop(n) \o vs) = Len(data_stack) - n + 1
  <2> DEFINE s == Drop(n)
  <2> HIDE DEF s
  <2>1. s \in Seq(Value) => Len(s \o vs) = Len(s) + 1
    OBVIOUS
  <2> QED BY <1>2, <2>1 DEF s
<1>4. Needs(Instr) \in Nat /\ Leaves(Instr) \in Nat /\ Len(data_stack) \in Nat
  BY ReadyFacts, NeedsNat
<1> HIDE DEF vs
<1>5. /\ Len(vs) \in Nat /\ Len(Drop(n) \o vs) = Len(data_stack) - n + Len(vs)
      /\ n - Len(vs) = Needs(Instr) - Leaves(Instr)
  BY <1>1, <1>3, <1>4
<1> QED BY <1>1, <1>5, ReplaceKeeps

LEMMA ReplaceNoneKeeps ==
    ASSUME BalancedCode, Inv, OperandInv, Ready, NEW n \in Nat, n <= Len(data_stack),
           Replace(n, <<>>), Instr.op \notin {"PUSH", "JUMP"},
           n = Needs(Instr) - Leaves(Instr)
    PROVE  OperandInv'
<1> DEFINE vs == <<>>
<1>1. Len(vs) = 0 /\ Replace(n, vs)
  OBVIOUS
<1>2. Drop(n) \in Seq(Value) /\ Len(Drop(n)) = Len(data_stack) - n
  BY DropPeek
<1>3. Len(Drop(n) \o vs) = Len(data_stack) - n
  <2> DEFINE s == Drop(n)
  <2> HIDE DEF s
  <2>1. s \in Seq(Value) => Len(s \o vs) = Len(s)
    OBVIOUS
  <2> QED BY <1>2, <2>1 DEF s
<1>4. Needs(Instr) \in Nat /\ Leaves(Instr) \in Nat /\ Len(data_stack) \in Nat
  BY ReadyFacts, NeedsNat
<1> HIDE DEF vs
<1>5. /\ Len(vs) \in Nat /\ Len(Drop(n) \o vs) = Len(data_stack) - n + Len(vs)
      /\ n - Len(vs) = Needs(Instr) - Leaves(Instr)
  BY <1>1, <1>3, <1>4
<1> QED BY <1>1, <1>5, ReplaceKeeps

(* An error takes no more than the instruction may.                        *)
LEMMA FailKeeps ==
    ASSUME BalancedCode, Inv, OperandInv, Ready, NEW n \in Nat, n <= Len(data_stack),
           NEW err \in Error, Fail(n, err), Instr.op \notin {"PUSH", "JUMP"},
           n <= Needs(Instr) - Leaves(Instr) + 1
    PROVE  OperandInv'
<1>1. frames # <<>> /\ TypeOK
  BY InstrOK
<1>2. Steady(frames')
  BY <1>1, AdvancedSteady DEF Fail
<1>3. Needs(Instr) \in Nat /\ Leaves(Instr) \in Nat /\ Len(data_stack) \in Nat
  BY ReadyFacts, NeedsNat
<1>4. Drop(n) \in Seq(Value) /\ Len(Drop(n)) = Len(data_stack) - n
  BY DropPeek
<1>5. Len(data_stack') = Len(data_stack) - n + 1
  BY <1>4, SmallNumbers DEF Fail, Raise
<1>6. raised' # 0
  BY DEF Fail, Raise, Error, SXE_BADTYPE, SXE_UNDEFINED, SXE_NILCALL, SXE_BADARGS,
         SXE_EXISTS, SXE_DIVZERO
<1>7. /\ Len(data_stack') \in Nat
      /\ Len(data_stack') >= Len(data_stack) - Needs(Instr) + Leaves(Instr)
  BY <1>3, <1>5
<1> QED BY <1>2, <1>6, <1>7, DoneKeeps DEF Fail

LEMMA ReframeKeeps ==
    ASSUME BalancedCode, Inv, OperandInv, Ready, NEW fs, Steady(fs), Reframe(fs),
           Instr.op # "PUSH", Needs(Instr) = Leaves(Instr)
    PROVE  OperandInv'
<1>1. Needs(Instr) \in Nat /\ Leaves(Instr) \in Nat /\ Len(data_stack) \in Nat
  BY ReadyFacts, NeedsNat
<1>2. /\ Len(data_stack') \in Nat
      /\ Len(data_stack') = Len(data_stack) - Needs(Instr) + Leaves(Instr)
  BY <1>1 DEF Reframe
<1>3. Steady(frames')
  BY DEF Reframe
<1> QED BY <1>1, <1>2, <1>3, DoneKeeps DEF Reframe

(* A pushed type may be what a TYPECAST finds.                             *)
LEMMA PushKeeps == ASSUME BalancedCode, Inv, OperandInv, OpPush PROVE OperandInv'
<1>1. Ready /\ Instr.op = "PUSH" /\ Replace(0, <<Instr.arg>>) /\ Instr.arg \in Value
  BY OpNeeds, InstrOK DEF OpPush
<1>2. frames # <<>> /\ TypeOK /\ calls # <<>>
  BY <1>1, InstrOK
<1>3. Steady(frames')
  BY <1>1, <1>2, AdvancedSteady DEF Replace
<1>4. Needs(Instr) = 0 /\ Leaves(Instr) = 1 /\ Len(data_stack) \in Nat
  BY <1>1, ReadyFacts DEF Needs, Leaves
<1>5. Drop(0) \in Seq(Value) /\ Len(Drop(0)) = Len(data_stack)
  <2> PICK z \in Nat : z = 0
    OBVIOUS
  <2>1. Drop(z) \in Seq(Value) /\ Len(Drop(z)) = Len(data_stack) - z
    BY <1>4, DropPeek
  <2> QED BY <1>4, <2>1
<1> DEFINE v == Instr.arg
           s == Drop(0)
<1>6. /\ data_stack' = s \o <<v>> /\ s \in Seq(Value) /\ v \in Value
      /\ Len(s) = Len(data_stack)
  BY <1>1, <1>5 DEF Replace
<1>7. Len(data_stack') = Len(data_stack) + 1 /\ data_stack'[Len(data_stack')] = v
  <2> HIDE DEF s, v
  <2> QED BY <1>4, <1>6
<1>8. Holds(frames', Len(data_stack'), calls', state' = "RUNNING", raised' = 0)
  <2>1. /\ Len(data_stack') \in Nat
        /\ Len(data_stack') = Len(data_stack) - Needs(Instr) + Leaves(Instr)
    BY <1>4, <1>7
  <2> QED BY <1>1, <1>3, <1>4, <2>1, DoneKeeps DEF Replace
<1>9. /\ Len(frames) \in Nat \ {0} /\ Len(frames') = Len(frames)
      /\ GetFrame \in Frame /\ Instr = Code[GetFrame.func][GetFrame.op_ptr]
      /\ GetFrame.op_ptr \in Nat \ {0} /\ GetFrame.func \in Function
      /\ GetFrame.op_ptr <= Len(Code[GetFrame.func]) /\ Act.pc = "exec"
  BY <1>1, <1>3, ReadyFacts DEF Steady
<1>10. Typed'
  <2>1. \A k \in 1 .. Len(frames') - 1 : ~AtCast(frames'[k])
    <3> DEFINE gs == frames'
    <3>1. Steady(gs)
      BY <1>3
    <3> HIDE DEF gs
    <3>2. \A k \in 1 .. Len(gs) - 1 : ~AtCast(gs[k])
      BY <1>1, <3>1, SteadyUncast
    <3> QED BY <3>2 DEF gs
  <2>2. ASSUME AtCast(frames'[Len(frames')]) PROVE v \in TypeValue
    <3> DEFINE q == frames'[Len(frames)]
               f == GetFrame.func
               p == GetFrame.op_ptr
    <3>1. SameButAt(GetFrame, q) /\ q.op_ptr \in Onward(Instr, p)
      BY <1>3 DEF Steady
    <3>2. q.op_ptr = p + 1 /\ q.func = f
      BY <1>1, <3>1 DEF Onward, Target, SameButAt
    <3>3. p + 1 <= Len(Code[f]) /\ Code[f][p + 1].op = "TYPECAST"
      BY <1>9, <2>2, <3>2 DEF AtCast
    <3>4. Code[f] \in Seq(Instruction) /\ WellFormed(f)
      BY <1>9, CodeAssumption
    <3> PICK o \in Nat : o = p + 1
      BY <1>9
    <3> HIDE DEF f, p, q
    <3>5. p \in Nat \ {0} /\ o = p + 1 /\ o \in DOMAIN Code[f] /\ o - 1 = p
      BY <1>9, <3>3, <3>4 DEF p, f
    <3>6. Code[f][o - 1].arg \in TypeValue
      BY <3>3, <3>4, <3>5 DEF WellFormed
    <3> QED BY <1>9, <3>5, <3>6 DEF f, p
  <2>3. Top' = v
    BY <1>4, <1>7 DEF Top, Peek
  <2>4. calls' # <<>> /\ Act'.pc = "exec" /\ Len(data_stack') >= 1
    BY <1>1, <1>2, <1>4, <1>7, <1>9 DEF Replace, Act
  <2> SUFFICES ASSUME NEW k \in 1 .. Len(frames'), AtCast(frames'[k])
               PROVE  k = Len(frames') /\ v \in TypeValue
    BY <2>3, <2>4 DEF Typed, AtCast
  <2>5. k \in 1 .. Len(frames') - 1 \/ k = Len(frames')
    BY <1>9
  <2>6. k = Len(frames')
    BY <2>1, <2>5
  <2> QED BY <2>2, <2>6
<1>11. Blamed'
  BY <1>1 DEF Replace, OperandInv, Blamed
<1>12. Sound'
  BY <1>1 DEF Replace, OperandInv, Sound
<1> QED BY <1>8, <1>10, <1>11, <1>12 DEF OperandInv

LEMMA ArithmeticKeeps ==
    ASSUME BalancedCode, Inv, OperandInv, OpArithmetic PROVE OperandInv'
<1>1. PICK op \in Arithmetic : \E v : Op(op) /\ Replace(2, <<v>>)
  BY DEF OpArithmetic
<1>2. Ready /\ 2 <= Len(data_stack) /\ Instr.op = op
  BY <1>1, BinaryReady, OpNeeds
<1>3. /\ Needs(Instr) = 2 /\ Leaves(Instr) = 1
      /\ Instr.op \notin {"PUSH", "JUMP"}
  BY <1>2 DEF Needs, Leaves, Arithmetic
<1> QED BY <1>1, <1>2, <1>3, ReplaceOneKeeps

LEMMA DivideKeeps ==
    ASSUME BalancedCode, Inv, OperandInv, OpDivide PROVE OperandInv'
<1>1. Ready /\ 2 <= Len(data_stack) /\ Instr.op = "DIVIDE"
  BY BinaryReady, OpNeeds DEF OpDivide
<1>2. /\ Needs(Instr) = 2 /\ Leaves(Instr) = 1
      /\ Instr.op \notin {"PUSH", "JUMP"}
  BY <1>1 DEF Needs, Leaves
<1>3. CASE Fail(2, SXE_DIVZERO)
  BY <1>1, <1>2, <1>3, FailKeeps DEF Error
<1>4. CASE \E v : Replace(2, <<v>>)
  BY <1>1, <1>2, <1>4, ReplaceOneKeeps
<1> QED BY <1>3, <1>4 DEF OpDivide

LEMMA NegateKeeps ==
    ASSUME BalancedCode, Inv, OperandInv, OpNegate PROVE OperandInv'
<1>1. Ready /\ 1 <= Len(data_stack) /\ Instr.op = "NEGATE"
  BY UnaryReady, OpNeeds DEF OpNegate
<1>2. /\ Needs(Instr) = 1 /\ Leaves(Instr) = 1
      /\ Instr.op \notin {"PUSH", "JUMP"}
  BY <1>1 DEF Needs, Leaves
<1> QED BY <1>1, <1>2, ReplaceOneKeeps DEF OpNegate

LEMMA NotKeeps ==
    ASSUME BalancedCode, Inv, OperandInv, OpNot PROVE OperandInv'
<1>1. Ready /\ 1 <= Len(data_stack) /\ Instr.op = "NOT"
  BY UnaryReady, OpNeeds DEF OpNot
<1>2. /\ Needs(Instr) = 1 /\ Leaves(Instr) = 1
      /\ Instr.op \notin {"PUSH", "JUMP"}
  BY <1>1 DEF Needs, Leaves
<1>3. PICK v : Replace(1, <<v>>)
  BY DEF OpNot
<1> QED BY <1>1, <1>2, <1>3, ReplaceOneKeeps

LEMMA RelationalKeeps ==
    ASSUME BalancedCode, Inv, OperandInv, OpRelational PROVE OperandInv'
<1>1. PICK op \in Relational : \E v : Op(op) /\ Replace(2, <<v>>)
  BY DEF OpRelational
<1>2. Ready /\ 2 <= Len(data_stack) /\ Instr.op = op
  BY <1>1, BinaryReady, OpNeeds
<1>3. /\ Needs(Instr) = 2 /\ Leaves(Instr) = 1
      /\ Instr.op \notin {"PUSH", "JUMP"}
  BY <1>2 DEF Needs, Leaves, Relational
<1> QED BY <1>1, <1>2, <1>3, ReplaceOneKeeps

LEMMA EqualKeeps ==
    ASSUME BalancedCode, Inv, OperandInv, OpEqual PROVE OperandInv'
<1>1. PICK op \in {"EQUAL", "NEQUAL"} : \E v : Op(op) /\ Replace(2, <<v>>)
  BY DEF OpEqual
<1>2. Ready /\ 2 <= Len(data_stack) /\ Instr.op = op
  BY <1>1, BinaryReady, OpNeeds
<1>3. /\ Needs(Instr) = 2 /\ Leaves(Instr) = 1
      /\ Instr.op \notin {"PUSH", "JUMP"}
  BY <1>2 DEF Needs, Leaves
<1> QED BY <1>1, <1>2, <1>3, ReplaceOneKeeps

LEMMA LookupKeeps ==
    ASSUME BalancedCode, Inv, OperandInv, OpLookup PROVE OperandInv'
<1>1. PICK n \in Nat : \E v : n = 0 /\ Replace(n, <<v>>)
  BY DEF OpLookup
<1>2. Ready /\ n <= Len(data_stack) /\ Instr.op = "LOOKUP"
  BY <1>1, OpNeeds DEF OpLookup
<1>3. /\ Needs(Instr) = 0 /\ Leaves(Instr) = 1
      /\ Instr.op \notin {"PUSH", "JUMP"}
  BY <1>2 DEF Needs, Leaves
<1>4. n = Needs(Instr) - Leaves(Instr) + 1
  BY <1>1, <1>3
<1> QED BY <1>1, <1>2, <1>3, <1>4, ReplaceOneKeeps

LEMMA AssignKeeps ==
    ASSUME BalancedCode, Inv, OperandInv, OpAssign PROVE OperandInv'
<1>1. /\ Ready /\ Instr.op = "ASSIGN" /\ Top \in Value
      /\ Reframe(Assigned(Instr.n, Top))
  BY OpNeeds, UnaryReady DEF OpAssign
<1>2. Steady(Assigned(Instr.n, Top))
  BY <1>1, InstrOK, AssignedSteady
<1>3. Needs(Instr) = Leaves(Instr)
  BY <1>1 DEF Needs, Leaves
<1> QED BY <1>1, <1>2, <1>3, ReframeKeeps

LEMMA PopKeeps ==
    ASSUME BalancedCode, Inv, OperandInv, OpPop PROVE OperandInv'
<1>1. Ready /\ 1 <= Len(data_stack) /\ Instr.op = "POP"
  BY UnaryReady, OpNeeds DEF OpPop
<1>2. /\ Needs(Instr) = 1 /\ Leaves(Instr) = 0
      /\ Instr.op \notin {"PUSH", "JUMP"}
  BY <1>1 DEF Needs, Leaves
<1> QED BY <1>1, <1>2, ReplaceNoneKeeps DEF OpPop

LEMMA CopyKeeps ==
    ASSUME BalancedCode, Inv, OperandInv, OpCopy PROVE OperandInv'
<1>1. PICK n \in Nat : \E v : n = 0 /\ Replace(n, <<v>>)
  BY DEF OpCopy
<1>2. Ready /\ n <= Len(data_stack) /\ Instr.op = "COPY" /\ Instr.n \in Nat
  BY <1>1, OpNeeds DEF OpCopy
<1>3. /\ Needs(Instr) = Instr.n /\ Leaves(Instr) = Instr.n + 1
      /\ Instr.op \notin {"PUSH", "JUMP"}
  BY <1>2 DEF Needs, Leaves
<1>4. n = Needs(Instr) - Leaves(Instr) + 1
  BY <1>1, <1>2, <1>3
<1> QED BY <1>1, <1>2, <1>3, <1>4, ReplaceOneKeeps

LEMMA TestKeeps ==
    ASSUME BalancedCode, Inv, OperandInv, OpTest PROVE OperandInv'
<1>1. Ready /\ Instr.op = "TEST"
  BY UnaryReady, OpNeeds DEF OpTest
<1>2. PICK b \in IsTrue(Top) : Reframe(Flagged(b))
  BY DEF OpTest
<1>3. Steady(Flagged(b))
  BY <1>1, IsTrueBoolean, InstrOK, FlaggedSteady
<1>4. Needs(Instr) = Leaves(Instr)
  BY <1>1 DEF Needs, Leaves
<1> QED BY <1>1, <1>2, <1>3, <1>4, ReframeKeeps

LEMMA JumpKeeps ==
    ASSUME BalancedCode, Inv, OperandInv, OpJump PROVE OperandInv'
<1>1. Ready /\ Instr.op \in {"JUMP", "TJUMP", "FJUMP"}
  BY OpNeeds DEF OpJump
<1>2. Needs(Instr) = Leaves(Instr)
  BY <1>1 DEF Needs, Leaves
<1>3. /\ Steady(Jumped(Instr.n))
      /\ Instr.op # "JUMP" => Steady(Advanced)
  BY <1>1, InstrOK, AdvancedSteady, JumpedSteady
<1>4. \/ Reframe(Jumped(Instr.n))
      \/ Reframe(Advanced) /\ Instr.op # "JUMP"
  BY DEF OpJump, Op
<1> QED BY <1>1, <1>2, <1>3, <1>4, ReframeKeeps

LEMMA NewArrayKeeps ==
    ASSUME BalancedCode, Inv, OperandInv, OpNewArray PROVE OperandInv'
<1>1. /\ Ready /\ Instr.n \in Nat /\ Instr.op = "NEWARRAY"
      /\ Instr.n <= Len(data_stack)
  BY OpNeeds DEF OpNewArray, Needs
<1>2. /\ Needs(Instr) = Instr.n /\ Leaves(Instr) = 1
      /\ Instr.op \notin {"PUSH", "JUMP"}
  BY <1>1 DEF Needs, Leaves
<1>3. Instr.n = Needs(Instr) - Leaves(Instr) + 1
  BY <1>1, <1>2
<1> QED BY <1>1, <1>2, <1>3, ReplaceOneKeeps DEF OpNewArray

LEMMA InKeeps == ASSUME BalancedCode, Inv, OperandInv, OpIn PROVE OperandInv'
<1>1. Ready /\ 2 <= Len(data_stack) /\ Instr.op = "IN"
  BY BinaryReady, OpNeeds DEF OpIn
<1>2. /\ Needs(Instr) = 2 /\ Leaves(Instr) = 1
      /\ Instr.op \notin {"PUSH", "JUMP"}
  BY <1>1 DEF Needs, Leaves
<1>3. CASE \E found \in {1, Nil} : Replace(2, <<found>>)
  BY <1>1, <1>2, <1>3, ReplaceOneKeeps
<1>4. CASE Fail(2, SXE_BADTYPE)
  BY <1>1, <1>2, <1>4, FailKeeps DEF Error
<1> QED BY <1>3, <1>4 DEF OpIn

LEMMA GetMemberKeeps ==
    ASSUME BalancedCode, Inv, OperandInv, OpGetMember PROVE OperandInv'
<1>1. Ready /\ 1 <= Len(data_stack) /\ Instr.op = "GET_MEMBER"
  BY UnaryReady, OpNeeds DEF OpGetMember
<1>2. /\ Needs(Instr) = 1 /\ Leaves(Instr) = 1
      /\ Instr.op \notin {"PUSH", "JUMP"}
  BY <1>1 DEF Needs, Leaves
<1>3. CASE \E v : Replace(1, <<v>>)
  BY <1>1, <1>2, <1>3, ReplaceOneKeeps
<1>4. CASE Fail(1, SXE_BADTYPE)
  BY <1>1, <1>2, <1>4, FailKeeps DEF Error
<1> QED BY <1>3, <1>4 DEF OpGetMember

LEMMA SetMemberKeeps ==
    ASSUME BalancedCode, Inv, OperandInv, OpSetMember PROVE OperandInv'
<1>1. Ready /\ 2 <= Len(data_stack) /\ Instr.op = "SET_MEMBER"
  BY BinaryReady, OpNeeds DEF OpSetMember
<1>2. /\ Needs(Instr) = 2 /\ Leaves(Instr) = 1
      /\ Instr.op \notin {"PUSH", "JUMP"}
  BY <1>1 DEF Needs, Leaves
<1>3. CASE Replace(1, <<>>)
  BY <1>1, <1>2, <1>3, ReplaceNoneKeeps
<1>4. CASE Fail(2, SXE_BADTYPE)
  BY <1>1, <1>2, <1>4, FailKeeps DEF Error
<1> QED BY <1>3, <1>4 DEF OpSetMember

LEMMA NewKeeps == ASSUME BalancedCode, Inv, OperandInv, OpNew PROVE OperandInv'
<1>1. Ready /\ 1 <= Len(data_stack) /\ Instr.op = "NEW"
  BY UnaryReady, OpNeeds DEF OpNew
<1>2. /\ Needs(Instr) = 1 /\ Leaves(Instr) = 1
      /\ Instr.op \notin {"PUSH", "JUMP"}
  BY <1>1 DEF Needs, Leaves
<1>3. CASE \E v : Replace(1, <<v>>)
  BY <1>1, <1>2, <1>3, ReplaceOneKeeps
<1>4. CASE Fail(1, SXE_BADTYPE)
  BY <1>1, <1>2, <1>4, FailKeeps DEF Error
<1> QED BY <1>3, <1>4 DEF OpNew

LEMMA TypeCastKeeps ==
    ASSUME BalancedCode, Inv, OperandInv, OpTypeCast PROVE OperandInv'
<1>1. Ready /\ 2 <= Len(data_stack) /\ Instr.op = "TYPECAST"
  BY BinaryReady, OpNeeds DEF OpTypeCast
<1>2. /\ Needs(Instr) = 2 /\ Leaves(Instr) = 1
      /\ Instr.op \notin {"PUSH", "JUMP"}
  BY <1>1 DEF Needs, Leaves
<1>3. CASE Replace(1, <<>>)
  BY <1>1, <1>2, <1>3, ReplaceNoneKeeps
<1>4. CASE \E v : Replace(2, <<v>>)
  BY <1>1, <1>2, <1>4, ReplaceOneKeeps
<1> QED BY <1>3, <1>4 DEF OpTypeCast

LEMMA IterKeeps == ASSUME BalancedCode, Inv, OperandInv, OpIter PROVE OperandInv'
<1>1. /\ Ready /\ 1 <= Len(data_stack) /\ Top \in Value /\ Instr.op = "ITER"
      /\ Len(data_stack) \in Nat
  BY UnaryReady, OpNeeds DEF OpIter
<1>2. /\ frames # <<>> /\ TypeOK /\ Instr.n \in 1 .. Len(GetFrame.items)
  BY <1>1, InstrOK
<1>3. /\ Needs(Instr) = 1 /\ Leaves(Instr) = 1
      /\ Instr.op \notin {"PUSH", "JUMP"}
  BY <1>1 DEF Needs, Leaves
<1>4. \A b \in BOOLEAN : Steady(Flagged(b))
  BY <1>2, <1>3, FlaggedSteady
<1>5. CASE Reframe(Flagged(FALSE))
  BY <1>1, <1>3, <1>4, <1>5, ReframeKeeps
<1>6. CASE Fail(1, SXE_BADTYPE)
  BY <1>1, <1>3, <1>6, FailKeeps DEF Error
<1>7. CASE /\ data_stack' = Append(Drop(1),
                                   IF Top \in Array THEN Some(Iterator) ELSE Top)
           /\ \/ frames' = Flagged(FALSE)
              \/ \E v \in Stored :
                    frames' = [Assigned(Instr.n, v) EXCEPT ![Len(frames)].flag = TRUE]
           /\ UNCHANGED <<state, calls, result, crashed, raised>>
  <2>1. Steady(frames')
    <3>1. CASE frames' = Flagged(FALSE)
      BY <1>4, <3>1
    <3>2. CASE \E v \in Stored :
                  frames' = [Assigned(Instr.n, v) EXCEPT ![Len(frames)].flag = TRUE]
      <4>1. PICK v \in Value, b \in BOOLEAN :
               b /\ frames' = [Assigned(Instr.n, v) EXCEPT ![Len(frames)].flag = b]
        BY <3>2, HostAssumption
      <4>2. Steady(Assigned(Instr.n, v))
        BY <1>2, <1>3, AssignedSteady
      <4> QED BY <1>2, <4>1, <4>2, FlagSteady
    <3> QED BY <1>7, <3>1, <3>2
  <2>2. Drop(1) \in Seq(Value) /\ Len(Drop(1)) = Len(data_stack) - 1
    BY <1>1, DropPeek
  <2>3. Len(data_stack') = Len(data_stack)
    BY <1>1, <1>7, <2>2
  <2>4. /\ Len(data_stack') \in Nat
        /\ Len(data_stack') = Len(data_stack) - Needs(Instr) + Leaves(Instr)
    BY <1>1, <1>3, <2>3
  <2> QED BY <1>1, <1>3, <1>7, <2>1, <2>4, DoneKeeps
<1> QED BY <1>5, <1>6, <1>7 DEF OpIter

LEMMA SimpleKeeps == ASSUME BalancedCode, Inv, OperandInv, Simple PROVE OperandInv'
  BY PushKeeps, ArithmeticKeeps, DivideKeeps, NegateKeeps, NotKeeps, RelationalKeeps,
     EqualKeeps, LookupKeeps, AssignKeeps, PopKeeps, CopyKeeps, TestKeeps, JumpKeeps,
     NewArrayKeeps, InKeeps, GetMemberKeeps, SetMemberKeeps, NewKeeps, TypeCastKeeps,
     IterKeeps DEF Simple

-----------------------------------------------------------------------------
(* Calls and yields *)

LEMMA ArityKeeps == ASSUME OperandInv, Crash("arity") PROVE OperandInv'
<1>1. Typed'
  BY DEF OperandInv, Crash, Typed, AtCast, Act, Top, Peek
<1> QED BY <1>1 DEF OperandInv, Crash, Blamed, Sound

LEMMA NewFrameFresh ==
    ASSUME Inv, NEW f \in Function, NEW args \in Seq(Value), NEW top \in Nat,
           Len(args) >= Func[f].argc
    PROVE  /\ Fresh(NewFrame(f, args, top))
           /\ NewFrame(f, args, top).top = top
           /\ NewFrame(f, args, top).argc = Len(args)
<1>1. NewFrame(f, args, top) \in Frame
  BY NewFramePushable DEF Pushable
<1> QED BY <1>1 DEF NewFrame, Fresh

LEMMA AppendPushed ==
    ASSUME NEW fs \in Seq(Frame), NEW r, Fresh(r), NEW gs, gs = Append(fs, r)
    PROVE  Pushed(fs, gs) /\ Len(gs) = Len(fs) + 1 /\ gs[Len(gs)] = r
<1>1. r \in Frame
  BY DEF Fresh
<1>2. /\ gs \in Seq(Frame) /\ Len(gs) = Len(fs) + 1
      /\ \A k \in 1 .. Len(fs) : gs[k] = fs[k]
      /\ gs[Len(fs) + 1] = r
  BY <1>1, AppendSeq
<1>3. gs[Len(gs)] = r
  BY <1>2
<1> QED BY <1>2, <1>3 DEF Pushed

(* A fresh frame on frames that are not at a cast.                         *)
LEMMA PushedUncast ==
    ASSUME NEW fs, NEW gs, Pushed(fs, gs), \A k \in 1 .. Len(fs) : ~AtCast(fs[k])
    PROVE  \A k \in 1 .. Len(gs) : ~AtCast(gs[k])
<1>1. ~AtCast(gs[Len(gs)])
  BY FreshNotCast DEF Pushed
<1> SUFFICES ASSUME NEW k \in 1 .. Len(gs) PROVE ~AtCast(gs[k])
  OBVIOUS
<1>2. Len(fs) \in Nat /\ Len(gs) = Len(fs) + 1
  BY DEF Pushed
<1>3. k \in 1 .. Len(fs) \/ k = Len(gs)
  BY <1>2
<1> QED BY <1>1, <1>3 DEF Pushed

(* The innermost activation has moved to p.                                *)
LEMMA GotoLast ==
    ASSUME Inv, calls # <<>>, NEW p \in Location, p # "cfunc"
    PROVE  Moved(Goto(p)) /\ Goto(p) # <<>> /\ Last(Goto(p)).pc = p
<1>1. Moved(Goto(p)) /\ Goto(p)[Len(calls)].pc = p
  BY MovedGoto
<1>2. Len(calls) \in Nat /\ Len(calls) > 0 /\ Len(Goto(p)) = Len(calls)
  BY <1>1 DEF Moved, Inv, TypeOK
<1>3. Goto(p) \in Seq(Activation)
  BY <1>1 DEF Moved
<1> QED BY <1>1, <1>2, <1>3 DEF Last

LEMMA CallOnStackKeeps ==
    ASSUME BalancedCode, Inv, OperandInv, Ready, NEW f \in Function, NEW n \in Nat,
           NEW s \in Seq(Value), n <= Len(s),
           Len(s) - n = Len(data_stack) - Needs(Instr), Leaves(Instr) = 1,
           Instr.op \notin {"PUSH", "JUMP"}, CallOnStack(f, n, s)
    PROVE  OperandInv'
<1>1. /\ frames # <<>> /\ TypeOK /\ calls # <<>>
      /\ Len(data_stack) \in Nat /\ Needs(Instr) \in Nat /\ Len(s) \in Nat
      /\ Last(calls).pc = "exec" /\ Len(frames) \in Nat \ {0}
  BY InstrOK, ReadyFacts, NeedsNat
<1>2. Steady(Advanced)
  BY <1>1, AdvancedSteady
<1>3. /\ Moved(Goto("loop")) /\ Goto("loop") # <<>> /\ Last(Goto("loop")).pc = "loop"
      /\ Effect("loop") = 0
  BY <1>1, GotoLast DEF Location, Effect
<1> DEFINE hs == Advanced
           bs == Goto("loop")
           x == Needs(Instr)
           N == Len(data_stack)
           run == state = "RUNNING"
           fine == raised = 0
<1>4. /\ OnTop(frames, calls, hs, bs)
      /\ Goes(frames[Len(frames)], hs[Len(frames)], x, 1)
  BY <1>2, <1>3, SteadyOnTop
<1>5. \A k \in 1 .. Len(hs) : ~AtCast(hs[k])
  BY <1>2, SteadyUncast
<1>6. Holds(frames, N, calls, run, fine) /\ hs \in Seq(Frame)
  BY <1>2 DEF OperandInv, Steady
<1>7. CASE /\ n >= Func[f].argc
           /\ frames' = Append(Advanced, NewFrame(f, SubSeq(s, Len(s) - n + 1, Len(s)),
                                                  Len(s) - n))
           /\ data_stack' = s
           /\ calls' = Goto("loop")
           /\ UNCHANGED <<state, result, crashed, raised>>
  <2> DEFINE args == SubSeq(s, Len(s) - n + 1, Len(s))
             r == NewFrame(f, args, Len(s) - n)
             gs == frames'
             m == Len(data_stack')
             go == state' = "RUNNING"
  <2>1. args \in Seq(Value) /\ Len(args) = n /\ Len(s) - n \in Nat
    <3>1. n \in 0 .. Len(s)
      BY <1>1
    <3> QED BY <3>1, SuffixSeq
  <2>2. Fresh(r) /\ r.top = Len(s) - n /\ r.argc = n
    <3> HIDE DEF args
    <3> QED BY <1>7, <2>1, NewFrameFresh
  <2>3. gs = Append(hs, r)
    BY <1>7
  <2>4. Pushed(hs, gs) /\ gs[Len(gs)] = r
    <3> HIDE DEF hs, gs, r
    <3> QED BY <1>6, <2>2, <2>3, AppendPushed
  <2>5. /\ gs[Len(gs)].top = N - x /\ m \in Nat
        /\ m = N - x + gs[Len(gs)].argc
    <3> HIDE DEF r
    <3>1. m = Len(s)
      BY <1>7
    <3> HIDE DEF gs, m
    <3> QED BY <1>1, <2>2, <2>4, <3>1
  <2>6. Holds(gs, m, bs, go, fine)
    <3>1. N \in Nat /\ Last(calls).pc = "exec" /\ Last(bs).pc = "loop"
      BY <1>1, <1>3
    <3> HIDE DEF gs, m, go, hs, bs, x, N, run, fine
    <3> QED BY <1>4, <1>6, <2>4, <2>5, <3>1, CallHolds
  <2>7. \A k \in 1 .. Len(gs) : ~AtCast(gs[k])
    <3> HIDE DEF gs, hs
    <3> QED BY <1>5, <2>4, PushedUncast
  <2>8. Typed' /\ Blamed' /\ Sound'
    BY <1>1, <1>3, <1>7, <2>7, RestKeeps
  <2> QED BY <1>7, <2>6, <2>8 DEF OperandInv
<1>8. CASE /\ frames' = Advanced
           /\ Raise(s, SXE_BADARGS)
           /\ calls' = Goto("loop")
           /\ UNCHANGED <<result, crashed>>
  <2>1. Len(data_stack') = Len(s) + 1 /\ raised' # 0
    BY <1>8 DEF Raise, SXE_BADARGS
  <2> DEFINE m == Len(data_stack')
             go == state' = "RUNNING"
             ok == raised' = 0
  <2>2. /\ m \in Nat /\ ~ok
        /\ m + Effect(Last(bs).pc) >= Len(data_stack) - Needs(Instr) + Leaves(Instr)
        /\ Leaves(Instr) >= 1
    <3>1. m = Len(s) + 1 /\ ~ok
      BY <2>1
    <3> HIDE DEF m, ok
    <3> QED BY <1>1, <1>3, <3>1
  <2>3. Holds(hs, m, bs, go, ok)
    <3>1. Steady(hs) /\ Moved(bs)
      BY <1>2, <1>3
    <3> HIDE DEF m, ok, go, hs, bs
    <3> QED BY <2>2, <3>1, InstrHolds
  <2>4. Typed' /\ Blamed' /\ Sound'
    BY <1>1, <1>3, <1>5, <1>8, <2>1, RestKeeps
  <2> QED BY <1>8, <2>3, <2>4 DEF OperandInv
<1>9. CASE Crash("arity")
  BY <1>9, ArityKeeps
<1> QED BY <1>7, <1>8, <1>9 DEF CallOnStack

LEMMA InvokeKeeps ==
    ASSUME BalancedCode, Inv, OperandInv, OpInvoke PROVE OperandInv'
<1>1. /\ Ready /\ Len(data_stack) \in Nat /\ Instr.n \in Nat /\ Instr.op = "INVOKE"
      /\ Instr.n + 1 <= Len(data_stack)
  BY OpNeeds DEF OpInvoke, Needs
<1>2. /\ Needs(Instr) = Instr.n + 1 /\ Leaves(Instr) = 1
      /\ Instr.op \notin {"PUSH", "JUMP"}
  BY <1>1 DEF Needs, Leaves
<1>3. CASE Top \in Function /\ CallOnStack(Top, Instr.n, Drop(1))
  <2>1. Drop(1) \in Seq(Value) /\ Len(Drop(1)) = Len(data_stack) - 1
    BY <1>1, DropPeek
  <2>2. /\ Instr.n <= Len(Drop(1))
        /\ Len(Drop(1)) - Instr.n = Len(data_stack) - Needs(Instr)
    BY <1>1, <1>2, <2>1
  <2> QED BY <1>1, <1>2, <1>3, <2>1, <2>2, CallOnStackKeeps
<1>4. CASE Fail(Instr.n + 1, SXE_BADTYPE)
  <2> PICK k \in Nat : k = Instr.n + 1
    BY <1>1
  <2>1. Fail(k, SXE_BADTYPE) /\ k <= Len(data_stack)
        /\ k <= Needs(Instr) - Leaves(Instr) + 1
    BY <1>1, <1>2, <1>4
  <2> QED BY <1>1, <1>2, <2>1, FailKeeps DEF Error
<1> QED BY <1>3, <1>4 DEF OpInvoke

LEMMA MethodKeeps ==
    ASSUME BalancedCode, Inv, OperandInv, OpMethod PROVE OperandInv'
<1>1. /\ Ready /\ Len(data_stack) \in Nat /\ Instr.n \in Nat /\ Instr.op = "METHOD"
      /\ Instr.n + 1 <= Len(data_stack) /\ data_stack \in Seq(Value)
  <2>1. data_stack \in Seq(Value)
    BY DEF Inv, TypeOK
  <2> QED BY <2>1, OpNeeds DEF OpMethod, Needs
<1>2. /\ Needs(Instr) = Instr.n + 1 /\ Leaves(Instr) = 1
      /\ Instr.op \notin {"PUSH", "JUMP"}
  BY <1>1 DEF Needs, Leaves
<1> DEFINE self == Peek(Instr.n + 1)
<1> PICK k \in Nat : k = Instr.n + 1
  BY <1>1
<1>3. self \in Value
  BY <1>1, DropPeek
<1>4. CASE Fail(k, SXE_NILCALL) \/ Fail(k, SXE_UNDEFINED)
  <2>1. k <= Len(data_stack) /\ k <= Needs(Instr) - Leaves(Instr) + 1
    BY <1>1, <1>2
  <2> QED BY <1>1, <1>2, <1>4, <2>1, FailKeeps DEF Error
<1>5. CASE /\ MethodOf(self, Instr.arg) # NoMethod
           /\ CallOnStack(MethodOf(self, Instr.arg), k, data_stack)
  <2>1. Instr.arg \in Name
    BY <1>1, InstrOK
  <2>2. MethodOf(self, Instr.arg) \in Function
    <3> HIDE DEF self
    <3> QED BY <1>3, <1>5, <2>1, MethodFunction
  <2>3. k <= Len(data_stack) /\ Len(data_stack) - k = Len(data_stack) - Needs(Instr)
    BY <1>1, <1>2
  <2> QED BY <1>1, <1>2, <1>5, <2>2, <2>3, CallOnStackKeeps
<1> QED BY <1>4, <1>5 DEF OpMethod

(* A step that crashes nothing, with an error or a yield before it.        *)
LEMMA RestRaised ==
    ASSUME OperandInv, crashed' = crashed, raised' # 0,
           \A k \in 1 .. Len(frames') : ~AtCast(frames'[k])
    PROVE  Typed' /\ Blamed' /\ Sound'
  BY DEF OperandInv, Typed, Blamed, Sound, AtCast

LEMMA YieldKeeps ==
    ASSUME BalancedCode, Inv, OperandInv, OpYield, Inv' PROVE OperandInv'
<1>1. Ready /\ Instr.op = "YIELD"
  BY OpNeeds DEF OpYield
<1>2. /\ Nest(frames, calls) /\ calls # <<>> /\ Last(calls) = Act
      /\ Last(calls).pc = "exec" /\ Last(calls).ft <= Len(frames)
      /\ Len(calls) \in Nat \ {0} /\ Len(frames) \in Nat \ {0}
      /\ Len(data_stack) \in Nat
  BY <1>1, ReadyFacts
<1>3. /\ Needs(Instr) = 0 /\ Leaves(Instr) = 0
      /\ Instr.op \notin {"PUSH", "JUMP"}
  BY <1>1 DEF Needs, Leaves
<1>4. Steady(Advanced)
  BY <1>1, <1>3, InstrOK, AdvancedSteady
<1> DEFINE hs == Advanced
           bs == calls'
           N == Len(data_stack)
           go == state' = "RUNNING"
           run == state = "RUNNING"
           fine == raised = 0
<1>5. /\ OnTop(frames, calls, hs, calls)
      /\ Goes(frames[Len(frames)], hs[Len(frames)], 0, 0)
  BY <1>1, <1>3, <1>4, MovedSelf, SteadyOnTop
<1>6. frames' = hs /\ data_stack' = data_stack /\ Nest(hs, bs)
  BY InvNestNext DEF OpYield
<1>7. /\ Len(bs) = Len(calls) - 1
      /\ \A i \in 1 .. Len(calls) - 1 : bs[i] = calls[i]
  <2>1. bs = SubSeq(calls, 1, Len(calls) - 1) /\ calls \in Seq(Activation)
    BY <1>2 DEF OpYield, Front, Nest
  <2> DEFINE l == Len(calls) - 1
  <2>2. l \in 0 .. Len(calls)
    BY <1>2
  <2> HIDE DEF l, bs
  <2>3. Len(bs) = l /\ \A i \in 1 .. l : bs[i] = calls[i]
    BY <2>1, <2>2, PrefixSeq DEF l
  <2> QED BY <2>3 DEF l
<1>8. Last(calls).ft \in Nat
  BY <1>2, NestFacts
<1>9. Ended(hs, calls, Len(frames), hs, bs)
  <2>1. Len(hs) = Len(frames) /\ Nest(hs, calls)
    BY <1>5 DEF OnTop
  <2>2. Len(frames) \in 0 .. Len(hs) /\ Len(frames) >= Last(calls).ft - 1
    BY <1>2, <1>8, <2>1
  <2> HIDE DEF hs, bs
  <2> QED BY <1>2, <1>6, <1>7, <2>1, <2>2 DEF Ended
<1>10. Holds(frames, N, calls, run, fine)
  BY DEF OperandInv
<1>11. Holds(hs, N, bs, go, FALSE)
  <2>1. N \in Nat
    BY <1>2
  <2> HIDE DEF hs, bs, N, go, run, fine
  <2> QED BY <1>2, <1>5, <1>9, <1>10, <2>1, YieldHolds
<1>12. raised' # 0
  BY DEF OpYield, YIELDED
<1>13. \A k \in 1 .. Len(hs) : ~AtCast(hs[k])
  BY <1>1, <1>3, <1>4, SteadyUncast
<1>14. Typed' /\ Blamed' /\ Sound'
  BY <1>6, <1>12, <1>13, RestRaised DEF OpYield
<1> QED BY <1>6, <1>11, <1>12, <1>14 DEF OperandInv

LEMMA CallingKeeps ==
    ASSUME BalancedCode, Inv, OperandInv, Calling, Inv' PROVE OperandInv'
  BY InvokeKeeps, MethodKeeps, YieldKeeps DEF Calling

-----------------------------------------------------------------------------
(* Conversions *)

(* What is known of an activation at p, past the head of its loop.         *)
LEMMA AtFacts ==
    ASSUME Inv, NEW p, At(p), p # "loop"
    PROVE  /\ Nest(frames, calls) /\ calls # <<>> /\ Busy /\ Last(calls) = Act
           /\ Last(calls).pc = p /\ Last(calls).ft <= Len(frames)
           /\ Len(calls) \in Nat \ {0} /\ Len(frames) \in Nat \ {0}
           /\ GetFrame = frames[Len(frames)] /\ GetFrame \in Frame
           /\ Len(data_stack) \in Nat /\ crashed = "no" /\ frames \in Seq(Frame)
<1>1. calls # <<>> /\ Busy /\ frames # <<>> /\ GetFrame \in Frame
  BY AtBusy
<1>2. /\ Len(calls) \in Nat \ {0} /\ Len(frames) \in Nat \ {0}
      /\ Len(data_stack) \in Nat /\ frames \in Seq(Frame)
  BY <1>1 DEF Inv, TypeOK
<1>3. Last(calls) = Act /\ Act.pc = p /\ crashed = "no"
  BY DEF At, Last, Act
<1>4. Act.ft <= Len(frames)
  BY <1>1, <1>2, ActType DEF Busy
<1> QED BY <1>1, <1>2, <1>3, <1>4, InvNest DEF GetFrame

LEMMA MovedOnTop ==
    ASSUME Inv, NEW p, At(p), p # "loop", NEW bs, Moved(bs)
    PROVE  OnTop(frames, calls, frames, bs)
<1>1. /\ Nest(frames, calls) /\ calls # <<>> /\ Busy /\ Last(calls) = Act
      /\ Last(calls).ft <= Len(frames) /\ frames \in Seq(Frame)
  BY AtFacts
<1>2. /\ Nest(frames, bs) /\ Len(bs) = Len(calls) /\ Last(bs).ft = Act.ft
      /\ \A k \in 1 .. Len(calls) - 1 : bs[k] = calls[k]
  BY <1>1, MovedNest
<1> QED BY <1>1, <1>2 DEF OnTop, SameButAt

(* A conversion or a C function goes on.                                   *)
LEMMA AtHolds ==
    ASSUME BalancedCode, Inv, OperandInv, NEW p \in Converting \cup {"cfunc"}, At(p),
           NEW bs, Moved(bs), NEW m \in Nat,
           m + Effect(Last(bs).pc) >= Len(data_stack) + Effect(p), NEW go, NEW ok,
           ok => /\ raised = 0 /\ p \in Converting
                 /\ m + Effect(Last(bs).pc) = Len(data_stack) + Effect(p)
                 /\ Last(bs).pc \in Converting \cup {"exec"}
    PROVE  Holds(frames, m, bs, go, ok) /\ Len(data_stack) + Effect(p) >= 1
<1>1. p # "loop" /\ p # "exec"
  BY DEF Converting
<1>2. Last(calls).pc = p /\ Len(data_stack) \in Nat /\ OnTop(frames, calls, frames, bs)
  BY <1>1, AtFacts, MovedOnTop
<1> DEFINE run == state = "RUNNING"
           fine == raised = 0
           N == Len(data_stack)
<1>3. Holds(frames, N, calls, run, fine)
  BY DEF OperandInv
<1>4. /\ m + Effect(Last(bs).pc) >= N + Effect(Last(calls).pc)
      /\ ok => /\ fine /\ m + Effect(Last(bs).pc) = N + Effect(Last(calls).pc)
               /\ Last(calls).pc \in Converting
               /\ Last(bs).pc \in Converting \cup {"exec"}
      /\ Last(calls).pc \notin {"exec", "loop"} /\ N \in Nat
  BY <1>1, <1>2
<1> HIDE DEF run, fine, N
<1>5. Holds(frames, m, bs, go, ok) /\ N + Effect(Last(calls).pc) >= 1
  BY <1>2, <1>3, <1>4, BackHolds
<1> QED BY <1>2, <1>5 DEF N

LEMMA HoldsWhen ==
    ASSUME NEW fs, NEW n, NEW cs, NEW fine, Holds(fs, n, cs, TRUE, fine), NEW go, go
    PROVE  Holds(fs, n, cs, go, fine)
  BY DEF Holds, Enough, Running

(* With no activation there is nothing to find.                            *)
LEMMA EmptyHolds ==
    ASSUME NEW fs, NEW n, NEW cs, NEW run, NEW fine, Holds(fs, n, cs, run, fine),
           cs = <<>>, NEW m, NEW go, NEW ok, ~ok
    PROVE  Holds(fs, m, cs, go, ok)
<1>1. Nest(fs, cs) /\ AllReached(fs) /\ Len(cs) = 0
  BY DEF Holds, Enough
<1>2. Stacked(fs, cs)
  BY <1>1 DEF Stacked
<1>3. Waiting(fs, m, cs)
  BY <1>1 DEF Waiting
<1>4. Running(fs, m, cs, go)
  BY DEF Running
<1> QED BY <1>1, <1>2, <1>3, <1>4 DEF Holds, Enough

(* A call of Invoke.                                                       *)
LEMMA EnterKeeps ==
    ASSUME BalancedCode, Inv, OperandInv, Inv', NEW f \in Function, NEW args \in Seq(Value),
           NEW fs \in Seq(Frame), NEW s \in Seq(Value), NEW cs \in Seq(Activation), NEW run,
           Holds(fs, Len(s), cs, run, raised = 0),
           cs # <<>> => Last(cs).pc \notin {"exec", "loop"} /\ Last(cs).ft <= Len(fs),
           \A k \in 1 .. Len(fs) : ~AtCast(fs[k]),
           Enter(f, args, fs, s, cs)
    PROVE  OperandInv'
<1> DEFINE gs == frames'
           bs == calls'
           n == Len(s)
           m == Len(data_stack')
           go == state' = "RUNNING"
           fine == raised = 0
           ok == raised' = 0
<1>0. n \in Nat /\ Len(fs) \in Nat /\ Len(cs) \in Nat
  OBVIOUS
<1>1. CASE /\ Len(args) >= Func[f].argc
           /\ frames' = Append(fs, NewFrame(f, args, Len(s)))
           /\ data_stack' = s
           /\ state' = "RUNNING"
           /\ calls' = Append(cs, [pc |-> "loop", ft |-> Len(fs) + 1, value |-> Nil])
           /\ result' = NoResult
           /\ UNCHANGED <<crashed, raised>>
  <2> DEFINE r == NewFrame(f, args, Len(s))
             a == [pc |-> "loop", ft |-> Len(fs) + 1, value |-> Nil]
  <2>1. Fresh(r) /\ r.top = n
    BY <1>0, <1>1, NewFrameFresh
  <2>2. gs = Append(fs, r) /\ bs = Append(cs, a) /\ m = n
    BY <1>1
  <2>3. Pushed(fs, gs) /\ gs[Len(gs)] = r
    <3> HIDE DEF gs, r
    <3> QED BY <2>1, <2>2, AppendPushed
  <2>4. gs[Len(gs)].top = n
    BY <2>1, <2>3
  <2>5. Begun(fs, cs, bs) /\ bs # <<>>
    <3>1. a.pc = "loop" /\ a.ft = Len(fs) + 1
      OBVIOUS
    <3> HIDE DEF a, bs
    <3>2. Len(bs) = Len(cs) + 1 /\ (\A i \in 1 .. Len(cs) : bs[i] = cs[i])
          /\ bs[Len(cs) + 1] = a
      BY <1>0, <2>2
    <3> QED BY <1>0, <3>1, <3>2 DEF Begun
  <2>6. Nest(gs, bs)
    BY InvNestNext
  <2>7. Holds(gs, n, bs, TRUE, fine)
    <3>1. Holds(fs, n, cs, run, fine)
      OBVIOUS
    <3> HIDE DEF gs, bs, n, fine
    <3> QED BY <1>0, <2>3, <2>4, <2>5, <2>6, <3>1, EnterHolds
  <2>8. Holds(gs, m, bs, go, fine)
    <3>1. go
      BY <1>1
    <3> HIDE DEF gs, bs, n, fine, go, m
    <3> QED BY <2>2, <2>7, <3>1, HoldsWhen
  <2>9. \A k \in 1 .. Len(gs) : ~AtCast(gs[k])
    <3> HIDE DEF gs
    <3> QED BY <2>3, PushedUncast
  <2>10. Typed' /\ Blamed' /\ Sound'
    BY <1>1, <2>5, <2>9, RestKeeps
  <2> QED BY <1>1, <2>8, <2>10 DEF OperandInv
<1>2. CASE /\ frames' = fs
           /\ Raise(s, SXE_BADARGS)
           /\ calls' = cs
           /\ UNCHANGED crashed
  <2>1. m = n + 1 /\ ~ok
    BY <1>2 DEF Raise, SXE_BADARGS
  <2>2. Holds(fs, m, cs, go, ok)
    <3>1. CASE cs = <<>>
      <4>1. Holds(fs, n, cs, run, fine)
        OBVIOUS
      <4> HIDE DEF m, n, go, fine, ok
      <4> QED BY <2>1, <3>1, <4>1, EmptyHolds
    <3>2. CASE cs # <<>>
      <4>1. Holds(fs, n, cs, run, fine)
        OBVIOUS
      <4>2. Last(cs).pc \notin {"exec", "loop"} /\ Last(cs).ft <= Len(fs)
        BY <3>2
      <4>3. OnTop(fs, cs, fs, cs)
        <5>1. Nest(fs, cs)
          BY <4>1 DEF Holds, Enough
        <5> QED BY <3>2, <4>2, <5>1 DEF OnTop, SameButAt
      <4>4. m \in Nat /\ m + Effect(Last(cs).pc) >= n + Effect(Last(cs).pc)
        BY <1>0, <2>1, EffectInt
      <4> HIDE DEF m, n, go, fine, ok
      <4> QED BY <1>0, <2>1, <4>1, <4>2, <4>3, <4>4, BackHolds
    <3> QED BY <3>1, <3>2
  <2>3. Typed' /\ Blamed' /\ Sound'
    BY <1>2, <2>1, RestRaised
  <2> QED BY <1>2, <2>2, <2>3 DEF OperandInv
<1>3. CASE Crash("arity")
  BY <1>3, ArityKeeps
<1> QED BY <1>1, <1>2, <1>3 DEF Enter

LEMMA ConvertKeeps ==
    ASSUME BalancedCode, Inv, OperandInv, Inv', calls # <<>>,
           NEW v \in Value, NEW T, NEW m \in Name,
           NEW fs \in Seq(Frame), NEW s \in Seq(Value), NEW cs \in Seq(Activation),
           cs # <<>>, Last(cs).pc \in Converting, Last(cs).ft <= Len(fs),
           \A go : Holds(fs, Len(s), cs, go, raised = 0),
           \A k \in 1 .. Len(fs) : ~AtCast(fs[k]),
           Convert(v, T, m, fs, s, cs)
    PROVE  OperandInv'
<1>1. CASE /\ frames' = fs
           /\ data_stack' = s
           /\ calls' = cs
           /\ UNCHANGED <<state, crashed, raised>>
  <2>1. Holds(frames', Len(data_stack'), calls', state' = "RUNNING", raised' = 0)
    BY <1>1
  <2>2. Typed' /\ Blamed' /\ Sound'
    BY <1>1, RestKeeps
  <2> QED BY <2>1, <2>2 DEF OperandInv
<1>2. CASE /\ MethodOf(v, m) # NoMethod
           /\ Enter(MethodOf(v, m), <<v>>, fs, s, cs)
  <2>1. MethodOf(v, m) \in Function
    BY <1>2, MethodFunction
  <2>2. <<v>> \in Seq(Value)
    OBVIOUS
  <2>3. Last(cs).pc \notin {"exec", "loop"} /\ Last(cs).ft <= Len(fs)
    BY DEF Converting
  <2> QED BY <1>2, <2>1, <2>2, <2>3, EnterKeeps
<1> QED BY <1>1, <1>2 DEF Convert

(* The innermost activation has moved to p with a value.                   *)
LEMMA GotoWithLast ==
    ASSUME Inv, calls # <<>>, NEW p \in Location, p # "cfunc", NEW v \in Value
    PROVE  Moved(GotoWith(p, v)) /\ GotoWith(p, v) # <<>> /\ Last(GotoWith(p, v)).pc = p
<1>1. Moved(GotoWith(p, v)) /\ GotoWith(p, v)[Len(calls)].pc = p
  BY MovedGotoWith
<1>2. Len(calls) \in Nat /\ Len(calls) > 0 /\ Len(GotoWith(p, v)) = Len(calls)
  BY <1>1 DEF Moved, Inv, TypeOK
<1>3. GotoWith(p, v) \in Seq(Activation)
  BY <1>1 DEF Moved
<1> QED BY <1>1, <1>2, <1>3 DEF Last

(* An instruction up to the conversion of its operand.                     *)
LEMMA ConvertOpKeeps ==
    ASSUME BalancedCode, Inv, OperandInv, Inv', Ready, Leaves(Instr) = 1,
           Instr.op \notin {"PUSH", "JUMP"},
           NEW v \in Value, NEW T, NEW m \in Name, NEW s \in Seq(Value),
           NEW cs, Moved(cs), cs # <<>>, Last(cs).pc \in Converting,
           Len(s) + Effect(Last(cs).pc) = Len(data_stack) - Needs(Instr) + 1,
           Convert(v, T, m, Advanced, s, cs)
    PROVE  OperandInv'
<1>1. /\ frames # <<>> /\ TypeOK /\ calls # <<>> /\ Busy
      /\ Len(data_stack) \in Nat /\ Needs(Instr) \in Nat /\ Len(s) \in Nat
  BY InstrOK, ReadyFacts, NeedsNat
<1>2. Steady(Advanced)
  BY <1>1, AdvancedSteady
<1> DEFINE hs == Advanced
           n == Len(s)
           fine == raised = 0
<1>3. Steady(hs) /\ hs \in Seq(Frame) /\ Len(hs) = Len(frames)
  BY <1>2 DEF Steady
<1>4. \A go : Holds(hs, n, cs, go, fine)
  <2> SUFFICES ASSUME NEW go PROVE Holds(hs, n, cs, go, fine)
    OBVIOUS
  <2> DEFINE e == n + Effect(Last(cs).pc)
             d == Len(data_stack) - Needs(Instr) + Leaves(Instr)
  <2>1. e = d /\ e \in Int
    BY <1>1, EffectInt
  <2>2. e >= d /\ n \in Nat
    <3> HIDE DEF e, d
    <3> QED BY <1>1, <2>1
  <2>3. /\ Leaves(Instr) >= 1
        /\ fine => /\ raised = 0 /\ e = d /\ Last(cs).pc \in Converting \cup {"exec"}
    BY <2>1
  <2> HIDE DEF hs, n, fine
  <2> QED BY <1>3, <2>2, <2>3, InstrHolds
<1>5. \A k \in 1 .. Len(hs) : ~AtCast(hs[k])
  BY <1>2, SteadyUncast
<1>6. cs \in Seq(Activation) /\ Last(cs).ft <= Len(hs)
  <2> HIDE DEF hs
  <2> QED BY <1>1, <1>3, MovedNest DEF Moved
<1> QED BY <1>1, <1>3, <1>4, <1>5, <1>6, ConvertKeeps

LEMMA ConcatKeeps ==
    ASSUME BalancedCode, Inv, OperandInv, OpConcat, Inv' PROVE OperandInv'
<1>1. /\ Ready /\ Peek(2) \in Value /\ calls # <<>> /\ data_stack \in Seq(Value)
      /\ Instr.op = "CONCAT"
  BY BinaryReady, InstrOK, OpNeeds DEF OpConcat, TypeOK
<1>2. /\ Needs(Instr) = 2 /\ Leaves(Instr) = 1
      /\ Instr.op \notin {"PUSH", "JUMP"}
  BY <1>1 DEF Needs, Leaves
<1>3. /\ Moved(Goto("concat1")) /\ Goto("concat1") # <<>>
      /\ Last(Goto("concat1")).pc = "concat1"
  BY <1>1, GotoLast DEF Location, Converting
<1>4. "concat1" \in Converting /\ Effect("concat1") = -1
  BY DEF Converting, Effect
<1>5. Len(data_stack) + Effect("concat1") = Len(data_stack) - Needs(Instr) + 1
  BY <1>1, <1>2, <1>4
<1> QED BY <1>1, <1>2, <1>3, <1>4, <1>5, ConversionKinds, ConvertOpKeeps DEF OpConcat

LEMMA CastKeeps ==
    ASSUME BalancedCode, Inv, OperandInv, OpCast, Inv' PROVE OperandInv'
<1>1. PICK op \in {"STRINGCAST", "INTCAST"}, p \in {"string", "int"},
           T \in SUBSET Value, m \in Name :
         Op(op) /\ Convert(Top, T, m, Advanced, Drop(1), Goto(p))
  BY ConversionKinds DEF OpCast
<1>2. /\ Ready /\ Top \in Value /\ calls # <<>> /\ Instr.op = op
      /\ 1 <= Len(data_stack) /\ Len(data_stack) \in Nat
  BY <1>1, UnaryReady, InstrOK, OpNeeds
<1>3. /\ Needs(Instr) = 1 /\ Leaves(Instr) = 1
      /\ Instr.op \notin {"PUSH", "JUMP"}
  BY <1>1, <1>2 DEF Needs, Leaves
<1>4. p \in Converting /\ Effect(p) = 1 /\ p \in Location /\ p # "cfunc"
  BY <1>1 DEF Converting, Effect, Location
<1>5. Moved(Goto(p)) /\ Goto(p) # <<>> /\ Last(Goto(p)).pc = p
  BY <1>2, <1>4, GotoLast
<1>6. Drop(1) \in Seq(Value) /\ Len(Drop(1)) = Len(data_stack) - 1
  BY <1>2, DropPeek
<1>7. Len(Drop(1)) + Effect(p) = Len(data_stack) - Needs(Instr) + 1
  BY <1>2, <1>3, <1>4, <1>6
<1> QED BY <1>1, <1>2, <1>3, <1>4, <1>5, <1>6, <1>7, ConvertOpKeeps

LEMMA IndexKeeps ==
    ASSUME BalancedCode, Inv, OperandInv, OpIndex, Inv' PROVE OperandInv'
<1>0. data_stack \in Seq(Value)
  BY DEF Inv, TypeOK
<1>1. PICK op \in {"INDEX", "SETINDEX"}, p \in {"index", "setindex"},
           v \in Value, a \in Value :
         /\ Op(op) /\ (op = "INDEX" <=> p = "index")
         /\ Convert(v, Number, toInt, Advanced, data_stack, GotoWith(p, a))
  <2>1. CASE /\ Op("INDEX")
             /\ Convert(Top, Number, toInt, Advanced, data_stack,
                        GotoWith("index", Peek(2)))
    BY <2>1, BinaryReady
  <2>2. CASE /\ Op("SETINDEX")
             /\ Convert(Peek(2), Number, toInt, Advanced, data_stack,
                        GotoWith("setindex", Peek(3)))
    <3>1. Len(data_stack) \in Nat /\ 3 <= Len(data_stack)
      BY <2>2, OpNeeds DEF Needs
    <3>2. Peek(2) \in Value /\ Peek(3) \in Value
      BY <3>1, DropPeek
    <3> QED BY <2>2, <3>2
  <2> QED BY <2>1, <2>2 DEF OpIndex
<1>2. /\ Ready /\ calls # <<>> /\ Instr.op = op /\ Len(data_stack) \in Nat
  BY <1>1, InstrOK, OpNeeds
<1>3. /\ Needs(Instr) = IF op = "INDEX" THEN 2 ELSE 3
      /\ Leaves(Instr) = 1
      /\ Instr.op \notin {"PUSH", "JUMP"}
  BY <1>1, <1>2 DEF Needs, Leaves
<1>4. /\ p \in Converting /\ Effect(p) = IF op = "INDEX" THEN -1 ELSE -2
      /\ p \in Location /\ p # "cfunc"
  BY <1>1 DEF Converting, Effect, Location
<1>5. Moved(GotoWith(p, a)) /\ GotoWith(p, a) # <<>> /\ Last(GotoWith(p, a)).pc = p
  BY <1>2, <1>4, GotoWithLast
<1>6. Len(data_stack) + Effect(p) = Len(data_stack) - Needs(Instr) + 1
  BY <1>2, <1>3, <1>4
<1> QED BY <1>0, <1>1, <1>2, <1>3, <1>4, <1>5, <1>6, ConversionKinds, ConvertOpKeeps

(* Back in the instruction loop, with the outcome of the conversion.       *)
LEMMA BackKeeps ==
    ASSUME BalancedCode, Inv, OperandInv, NEW p \in Converting, At(p),
           frames' = frames, calls' = Goto("exec"), crashed' = crashed,
           Len(data_stack') \in Nat, Len(data_stack') = Len(data_stack) + Effect(p),
           (raised' = raised /\ state' = state) \/ raised' # 0
    PROVE  OperandInv'
<1>1. p # "loop" /\ p # "exec" /\ p \in Converting \cup {"cfunc"}
  BY DEF Converting
<1>2. calls # <<>> /\ Act.pc = p
  BY <1>1, AtFacts
<1>3. /\ Moved(Goto("exec")) /\ Goto("exec") # <<>> /\ Last(Goto("exec")).pc = "exec"
      /\ Effect("exec") = 0
  BY <1>2, GotoLast DEF Location, Effect
<1> DEFINE bs == Goto("exec")
           m == Len(data_stack')
           go == state' = "RUNNING"
           ok == raised' = 0
<1>4. /\ m \in Nat /\ m + Effect(Last(bs).pc) = Len(data_stack) + Effect(p)
      /\ m + Effect(Last(bs).pc) >= Len(data_stack) + Effect(p)
      /\ Last(bs).pc \in Converting \cup {"exec"}
      /\ ok => raised = 0
  BY <1>3
<1>5. Holds(frames, m, bs, go, ok)
  <2>1. Moved(bs)
    BY <1>3
  <2> HIDE DEF m, bs, go, ok
  <2> QED BY <1>1, <1>4, <2>1, AtHolds
<1>6. Typed' /\ Blamed' /\ Sound'
  BY <1>1, <1>2, <1>3, Uncast, RestKeeps
<1> QED BY <1>5, <1>6 DEF OperandInv

LEMMA ConcatSecondKeeps ==
    ASSUME BalancedCode, Inv, OperandInv, ConcatSecond, Inv' PROVE OperandInv'
<1>1. /\ At("concat1") /\ 2 <= Len(data_stack) /\ data_stack \in Seq(Value)
      /\ Len(data_stack) \in Nat
  BY DEF ConcatSecond, Inv, TypeOK
<1> PICK p \in Converting : p = "concat1"
  BY DEF Converting
<1>2. At(p) /\ p # "loop" /\ p # "exec" /\ p \in Converting \cup {"cfunc"}
  BY <1>1
<1>3. /\ calls # <<>> /\ Busy /\ Act.pc = p /\ Last(calls) = Act
      /\ frames \in Seq(Frame)
  BY <1>2, AtFacts
<1>4. Effect("concat1") = -1 /\ Effect("concat2") = -1
  BY DEF Effect
<1>5. CASE /\ data_stack' = Append(Drop(2), Nil)
           /\ calls' = Goto("exec")
           /\ UNCHANGED <<frames, state, result, crashed, raised>>
  <2>1. Drop(2) \in Seq(Value) /\ Len(Drop(2)) = Len(data_stack) - 2
    BY <1>1, DropPeek
  <2>2. /\ Len(data_stack') \in Nat
        /\ Len(data_stack') = Len(data_stack) + Effect(p)
    BY <1>1, <1>4, <1>5, <2>1
  <2> QED BY <1>2, <1>5, <2>2, BackKeeps
<1>6. CASE Convert(Top, String, toString, frames, data_stack, Goto("concat2"))
  <2> DEFINE bs == Goto("concat2")
             n == Len(data_stack)
             fine == raised = 0
  <2>1. Moved(bs) /\ bs # <<>> /\ Last(bs).pc = "concat2"
    BY <1>3, GotoLast DEF Location, Converting
  <2>2. "concat2" \in Converting
    BY DEF Converting
  <2>3. \A go : Holds(frames, n, bs, go, fine)
    <3> SUFFICES ASSUME NEW go PROVE Holds(frames, n, bs, go, fine)
      OBVIOUS
    <3>1. /\ n \in Nat /\ n + Effect(Last(bs).pc) = Len(data_stack) + Effect(p)
          /\ n + Effect(Last(bs).pc) >= Len(data_stack) + Effect(p)
          /\ Last(bs).pc \in Converting \cup {"exec"}
          /\ fine => raised = 0
      BY <1>1, <1>4, <2>1, <2>2
    <3> HIDE DEF bs, n, fine
    <3> QED BY <1>2, <2>1, <3>1, AtHolds
  <2>4. \A k \in 1 .. Len(frames) : ~AtCast(frames[k])
    BY <1>2, <1>3, Uncast
  <2>5. bs \in Seq(Activation) /\ Last(bs).ft <= Len(frames)
    BY <1>3, <2>1, MovedNest DEF Moved
  <2>6. Top \in Value
    BY <1>1, TopValue
  <2> QED BY <1>1, <1>3, <1>6, <2>1, <2>2, <2>3, <2>4, <2>5, <2>6,
             ConversionKinds, ConvertKeeps
<1> QED BY <1>5, <1>6 DEF ConcatSecond

LEMMA ConcatEndKeeps ==
    ASSUME BalancedCode, Inv, OperandInv, ConcatEnd PROVE OperandInv'
<1>1. At("concat2") /\ 2 <= Len(data_stack) /\ Len(data_stack) \in Nat
  BY DEF ConcatEnd, Inv, TypeOK
<1> PICK p \in Converting : p = "concat2"
  BY DEF Converting
<1>2. Drop(2) \in Seq(Value) /\ Len(Drop(2)) = Len(data_stack) - 2
  BY <1>1, DropPeek
<1>3. (IF Converted(String) = Nil THEN Nil ELSE Some(String)) \in Value
  BY SmallNumbers, SomeObjects, Kinds
<1>4. Len(data_stack') = Len(data_stack) - 1
  BY <1>1, <1>2, <1>3 DEF ConcatEnd
<1>5. Effect(p) = -1
  BY DEF Effect
<1>6. /\ Len(data_stack') \in Nat
      /\ Len(data_stack') = Len(data_stack) + Effect(p)
  BY <1>1, <1>4, <1>5
<1> QED BY <1>1, <1>6, BackKeeps DEF ConcatEnd

LEMMA CastEndKeeps ==
    ASSUME BalancedCode, Inv, OperandInv, CastEnd PROVE OperandInv'
<1>1. PICK p \in {"string", "int"} : \E v : At(p) /\ data_stack' = Append(data_stack, v)
  BY DEF CastEnd
<1>2. p \in Converting /\ Effect(p) = 1
  BY DEF Converting, Effect
<1>3. Len(data_stack) \in Nat /\ Len(data_stack') = Len(data_stack) + 1
  BY <1>1 DEF Inv, TypeOK
<1>4. /\ Len(data_stack') \in Nat
      /\ Len(data_stack') = Len(data_stack) + Effect(p)
  BY <1>2, <1>3
<1> QED BY <1>1, <1>2, <1>4, BackKeeps DEF CastEnd

LEMMA IndexEndKeeps ==
    ASSUME BalancedCode, Inv, OperandInv, IndexEnd PROVE OperandInv'
<1>1. PICK p \in {"index", "setindex"} :
       LET n == IF p = "index" THEN 2 ELSE 3
       IN  /\ At(p)
           /\ Len(data_stack) >= n
           /\ calls' = Goto("exec")
           /\ \/ /\ Act.value \in Array
                 /\ \E v \in IF p = "index" THEN Stored \cup {Nil} ELSE {Top, Nil} :
                       data_stack' = Append(Drop(n), v)
                 /\ UNCHANGED <<state, raised>>
              \/ /\ Act.value \notin Array
                 /\ Raise(Drop(n), SXE_BADTYPE)
           /\ UNCHANGED <<frames, result, crashed>>
  BY DEF IndexEnd
<1> DEFINE n == IF p = "index" THEN 2 ELSE 3
<1>2. n \in Nat /\ n <= Len(data_stack) /\ Len(data_stack) \in Nat
  BY <1>1 DEF Inv, TypeOK
<1>3. p \in Converting /\ Effect(p) = 1 - n
  BY DEF Converting, Effect
<1>4. Drop(n) \in Seq(Value) /\ Len(Drop(n)) = Len(data_stack) - n
  <2> HIDE DEF n
  <2> QED BY <1>2, DropPeek
<1>5. (\E v : data_stack' = Append(Drop(n), v)) /\ (UNCHANGED <<state, raised>> \/ raised' # 0)
  BY <1>1 DEF Raise, SXE_BADTYPE
<1>6. Len(data_stack') = Len(data_stack) - n + 1
  <2> HIDE DEF n
  <2> QED BY <1>2, <1>4, <1>5
<1>7. /\ Len(data_stack') \in Nat
      /\ Len(data_stack') = Len(data_stack) + Effect(p)
  <2> HIDE DEF n
  <2> QED BY <1>2, <1>3, <1>6
<1> QED BY <1>1, <1>3, <1>5, <1>7, BackKeeps

LEMMA ConversionKeeps ==
    ASSUME BalancedCode, Inv, OperandInv, Conversion, Inv' PROVE OperandInv'
  BY ConcatKeeps, ConcatSecondKeeps, ConcatEndKeeps, CastKeeps, CastEndKeeps,
     IndexKeeps, IndexEndKeeps DEF Conversion

-----------------------------------------------------------------------------
(* The head of the loop, returns and the epilogue *)

LEMMA HoldsRunning ==
    ASSUME NEW fs, NEW n, NEW cs, NEW go, NEW fine, Holds(fs, n, cs, go, fine), go
    PROVE  Holds(fs, n, cs, TRUE, fine)
  BY DEF Holds, Enough, Running

LEMMA RunKeeps ==
    ASSUME BalancedCode, Inv, OperandInv, RunScript \/ RunCFunction PROVE OperandInv'
<1>1. /\ At("loop") /\ Len(frames) >= Act.ft /\ state = "RUNNING"
      /\ UNCHANGED <<frames, data_stack, state, result, crashed, raised>>
  BY DEF RunScript, RunCFunction
<1>2. calls # <<>> /\ Busy /\ frames # <<>> /\ GetFrame \in Frame
  BY <1>1, AtLoop
<1>3. PICK p \in {"exec", "cfunc"} : Moved(calls') /\ calls'[Len(calls)].pc = p
  <2>1. CASE RunScript
    <3>1. Moved(Goto("exec")) /\ Goto("exec")[Len(calls)].pc = "exec"
      BY <1>2, MovedGoto DEF Location
    <3> QED BY <2>1, <3>1 DEF RunScript
  <2>2. CASE RunCFunction
    <3>1. /\ GetFrame.func \in Function /\ GetFrame.func \in Value
          /\ Func[GetFrame.func].cfunc
      BY <1>2, <2>2, Kinds DEF Frame, RunCFunction
    <3>2. /\ Moved(GotoWith("cfunc", GetFrame.func))
          /\ GotoWith("cfunc", GetFrame.func)[Len(calls)].pc = "cfunc"
      BY <1>2, <3>1, MovedGotoWith DEF Location
    <3> QED BY <2>2, <3>2 DEF RunCFunction
  <2> QED BY <2>1, <2>2
<1> DEFINE bs == calls'
           n == Len(data_stack)
           go == state = "RUNNING"
           fine == raised = 0
<1>4. frames \in Seq(Frame) /\ n \in Nat /\ Nest(frames, calls)
  BY InvNest DEF Inv, TypeOK
<1>5. /\ Nest(frames, bs) /\ bs # <<>> /\ Len(bs) = Len(calls)
      /\ Last(bs) = bs[Len(calls)]
      /\ Last(bs).ft = Act.ft /\ Act.ft <= Len(frames)
      /\ \A k \in 1 .. Len(calls) - 1 : bs[k] = calls[k]
  <2>1. Moved(bs)
    BY <1>3
  <2> HIDE DEF bs
  <2> QED BY <1>2, <1>4, <2>1, MovedNest
<1>6. Last(calls) = Act /\ Act.pc = "loop"
  BY <1>1 DEF At, Last, Act
<1>7. OnTop(frames, calls, frames, bs)
  <2> HIDE DEF bs
  <2> QED BY <1>2, <1>4, <1>5, <1>6 DEF OnTop, SameButAt
<1>8. Holds(frames, n, calls, TRUE, fine)
  <2>1. Holds(frames, n, calls, go, fine) /\ go
    BY <1>1 DEF OperandInv
  <2> HIDE DEF n, go, fine
  <2> QED BY <2>1, HoldsRunning
<1>9. Holds(frames, n, bs, TRUE, fine)
  <2>1. Last(bs).pc \in {"exec", "cfunc"}
    BY <1>3, <1>5
  <2> HIDE DEF n, bs, fine
  <2> QED BY <1>4, <1>6, <1>7, <1>8, <2>1, RunHolds
<1>10. Holds(frames, n, bs, go, fine)
  <2>1. go
    BY <1>1
  <2> HIDE DEF n, bs, fine, go
  <2> QED BY <1>9, <2>1, HoldsWhen
<1>11. Typed' /\ Blamed' /\ Sound'
  BY <1>1, <1>2, <1>5, <1>6, Uncast, RestKeeps
<1> QED BY <1>1, <1>10, <1>11 DEF OperandInv

LEMMA ResizeLen ==
    ASSUME NEW s \in Seq(Value), NEW n \in Nat PROVE Len(Resize(s, n)) = n
<1>1. DOMAIN Resize(s, n) = 1 .. n /\ Resize(s, n) \in Seq(Value)
  BY ResizeSeq DEF Resize
<1> QED BY <1>1

LEMMA PopFrameKeeps ==
    ASSUME BalancedCode, Inv, OperandInv, Inv', NEW p \in {"exec", "cfunc"}, At(p),
           NEW ret, data_stack' = Append(Resize(data_stack, GetFrame.top), ret),
           frames' = Front(frames), calls' = Goto("loop"),
           UNCHANGED <<state, result, crashed, raised>>
    PROVE  OperandInv'
<1>1. /\ Nest(frames, calls) /\ calls # <<>> /\ Busy /\ Last(calls) = Act
      /\ Last(calls).pc = p /\ Last(calls).ft <= Len(frames)
      /\ Len(calls) \in Nat \ {0} /\ Len(frames) \in Nat \ {0}
      /\ GetFrame = frames[Len(frames)] /\ GetFrame \in Frame
      /\ frames \in Seq(Frame)
  BY AtFacts
<1>2. /\ Moved(Goto("loop")) /\ Goto("loop") # <<>> /\ Last(Goto("loop")).pc = "loop"
  BY <1>1, GotoLast DEF Location
<1> DEFINE gs == frames'
           bs == calls'
           n == Len(data_stack)
           m == Len(data_stack')
           run == state = "RUNNING"
           fine == raised = 0
           go == state' = "RUNNING"
<1>3. /\ Len(bs) = Len(calls) /\ Last(bs).ft = Act.ft /\ bs # <<>>
      /\ Last(bs).pc = "loop"
      /\ \A k \in 1 .. Len(calls) - 1 : bs[k] = calls[k]
  <2>1. Moved(bs) /\ bs = Goto("loop")
    BY <1>2
  <2> HIDE DEF bs
  <2> QED BY <1>1, <1>2, <2>1, MovedNest
<1>4. Len(gs) = Len(frames) - 1 /\ \A k \in 1 .. Len(frames) - 1 : gs[k] = frames[k]
  <2> DEFINE l == Len(frames) - 1
  <2>1. gs = SubSeq(frames, 1, l) /\ l \in 0 .. Len(frames)
    BY <1>1 DEF Front
  <2> HIDE DEF l, gs
  <2>2. Len(gs) = l /\ \A k \in 1 .. l : gs[k] = frames[k]
    BY <1>1, <2>1, PrefixSeq
  <2> QED BY <2>2 DEF l
<1>5. Nest(gs, bs)
  BY InvNestNext
<1>6. Returned(frames, calls, gs, bs)
  <2> HIDE DEF gs, bs
  <2> QED BY <1>1, <1>3, <1>4, <1>5 DEF Returned
<1>7. m \in Nat /\ m = frames[Len(frames)].top + 1
  <2> DEFINE t == GetFrame.top
             s == Resize(data_stack, t)
  <2>1. t \in Nat /\ data_stack \in Seq(Value)
    BY <1>1 DEF Frame, Inv, TypeOK
  <2>2. s \in Seq(Value) /\ Len(s) = t
    <3> HIDE DEF t
    <3> QED BY <2>1, ResizeSeq, ResizeLen
  <2>3. data_stack' = Append(s, ret)
    OBVIOUS
  <2> HIDE DEF s
  <2>4. m = t + 1
    BY <2>1, <2>2, <2>3
  <2> QED BY <1>1, <2>1, <2>4
<1>8. Holds(frames, n, calls, run, fine)
  BY DEF OperandInv
<1>9. Holds(gs, m, bs, go, fine)
  <2> HIDE DEF gs, bs, n, m, run, fine, go
  <2> QED BY <1>6, <1>7, <1>8, ReturnHolds
<1>10. \A k \in 1 .. Len(gs) : ~AtCast(gs[k])
  <2> SUFFICES ASSUME NEW k \in 1 .. Len(gs) PROVE ~AtCast(gs[k])
    OBVIOUS
  <2>1. k \in 1 .. Len(frames) /\ k # Len(frames) /\ gs[k] = frames[k]
    <3> HIDE DEF gs
    <3> QED BY <1>1, <1>4
  <2>2. ~AtCast(frames[k])
    BY <2>1 DEF OperandInv, Typed
  <2> QED BY <2>1, <2>2
<1>11. Typed' /\ Blamed' /\ Sound'
  BY <1>1, <1>3, <1>10, RestKeeps
<1> QED BY <1>9, <1>11 DEF OperandInv

LEMMA ReturnFrameKeeps ==
    ASSUME BalancedCode, Inv, OperandInv, ReturnFrame, Inv' PROVE OperandInv'
  BY PopFrameKeeps DEF ReturnFrame

LEMMA CReturnKeeps ==
    ASSUME BalancedCode, Inv, OperandInv, CReturn, Inv' PROVE OperandInv'
  BY PopFrameKeeps DEF CReturn

(* How high the epilogue leaves the data stack.                            *)
LEMMA UnwoundLen ==
    ASSUME Inv, NEW s \in Seq(Value), NEW n \in Nat
    PROVE  Len(Unwound(s, n)) = IF Len(frames) > n THEN frames[n + 1].top ELSE Len(s)
<1>1. Len(frames) \in Nat
  BY DEF Inv, TypeOK
<1>2. CASE Len(frames) <= n
  BY <1>1, <1>2 DEF Unwound
<1>3. CASE Len(frames) > n
  <2> DEFINE top == frames[n + 1].top
  <2>1. top \in Nat
    <3>1. frames[n + 1] \in Frame
      BY <1>1, <1>3 DEF Inv, TypeOK
    <3> QED BY <3>1 DEF Frame
  <2>2. ~(Len(frames) <= n)
    BY <1>1, <1>3
  <2>3. DOMAIN Unwound(s, n) = 1 .. top
    BY <2>2 DEF Unwound
  <2>4. Unwound(s, n) \in Seq(Value)
    BY UnwoundSeq
  <2> HIDE DEF top
  <2>5. Len(Unwound(s, n)) = top
    BY <2>1, <2>3, <2>4
  <2> QED BY <1>3, <2>5 DEF top
<1> QED BY <1>1, <1>2, <1>3

(* An Invoke ends in its turn.                                             *)
LEMMA FinishKeeps ==
    ASSUME BalancedCode, Inv, OperandInv, Finish, Inv' PROVE OperandInv'
<1>1. /\ At("loop") /\ Epilogue /\ (Len(frames) < Act.ft \/ state # "RUNNING")
      /\ data_stack # <<>> /\ UNCHANGED <<state, crashed, raised>>
  BY DEF Finish, LoopOver, Epilogue
<1>2. /\ calls # <<>> /\ Act.ft \in Nat \ {0} /\ Len(frames) \in Nat
      /\ Len(frames) >= Act.ft - 1
  BY <1>1, AtLoop
<1>3. /\ Last(calls) = Act /\ Act.pc = "loop" /\ Nest(frames, calls)
      /\ data_stack \in Seq(Value) /\ frames \in Seq(Frame) /\ calls \in Seq(Activation)
  BY <1>1, InvNest DEF At, Last, Act, Inv, TypeOK
<1> DEFINE gs == frames'
           bs == calls'
           ft == Act.ft
           n == Len(data_stack)
           m == Len(data_stack')
           l == IF Len(frames) < ft THEN Len(frames) ELSE ft
           run == state = "RUNNING"
           fine == raised = 0
           go == state' = "RUNNING"
<1>4. n \in Nat /\ n >= 1 /\ Len(calls) \in Nat /\ Len(calls) >= 1
  BY <1>1, <1>2, <1>3
<1>5. l \in 0 .. Len(frames) /\ l >= ft - 1
  BY <1>2
<1>6. Len(gs) = l /\ \A k \in 1 .. l : gs[k] = frames[k]
  <2>1. gs = SubSeq(frames, 1, l)
    BY <1>1 DEF Epilogue, Below
  <2> HIDE DEF gs, l
  <2> QED BY <1>3, <1>5, <2>1, PrefixSeq
<1>7. Len(bs) = Len(calls) - 1 /\ \A i \in 1 .. Len(calls) - 1 : bs[i] = calls[i]
  <2> DEFINE c == Len(calls) - 1
  <2>1. bs = SubSeq(calls, 1, c) /\ c \in 0 .. Len(calls)
    BY <1>1, <1>4 DEF Epilogue, Front
  <2> HIDE DEF bs, c
  <2>2. Len(bs) = c /\ \A k \in 1 .. c : bs[k] = calls[k]
    BY <1>3, <2>1, PrefixSeq
  <2> QED BY <2>2 DEF c
<1>8. Nest(gs, bs)
  BY InvNestNext
<1>9. Ended(frames, calls, l, gs, bs)
  <2> HIDE DEF gs, bs, l
  <2> QED BY <1>2, <1>3, <1>5, <1>6, <1>7, <1>8 DEF Ended
<1>10. m \in Nat /\ m = IF Len(frames) > ft THEN frames[ft + 1].top ELSE n - 1
  <2>1. Drop(1) \in Seq(Value) /\ Len(Drop(1)) = n - 1
    BY <1>4, DropPeek
  <2> DEFINE s == Drop(1)
  <2>2. data_stack' = Unwound(s, ft)
    BY <1>1 DEF Epilogue
  <2> HIDE DEF s
  <2>3. Unwound(s, ft) \in Seq(Value)
        /\ Len(Unwound(s, ft)) = IF Len(frames) > ft THEN frames[ft + 1].top ELSE Len(s)
    BY <1>2, <2>1, UnwoundSeq, UnwoundLen DEF s
  <2>4. Len(s) = n - 1
    BY <2>1 DEF s
  <2> HIDE DEF n, ft
  <2> QED BY <2>2, <2>3, <2>4
<1>11. fine => run
  BY <1>2 DEF OperandInv, Blamed
<1>12. Holds(frames, n, calls, run, fine)
  BY DEF OperandInv
<1>13. Holds(gs, m, bs, go, fine)
  <2>1. /\ Last(calls).pc = "loop" /\ (Len(frames) < Last(calls).ft \/ ~run)
        /\ l = IF Len(frames) < Last(calls).ft THEN Len(frames) ELSE Last(calls).ft
        /\ m = IF Len(frames) > Last(calls).ft THEN frames[Last(calls).ft + 1].top
               ELSE n - 1
    BY <1>1, <1>3, <1>10
  <2> HIDE DEF gs, bs, n, m, l, run, fine, go
  <2> QED BY <1>4, <1>9, <1>10, <1>11, <1>12, <2>1, FinishHolds
<1>14. \A k \in 1 .. Len(gs) : ~AtCast(gs[k])
  <2> SUFFICES ASSUME NEW k \in 1 .. Len(gs) PROVE ~AtCast(gs[k])
    OBVIOUS
  <2>1. k \in 1 .. Len(frames) /\ gs[k] = frames[k]
    <3> HIDE DEF gs, l
    <3> QED BY <1>2, <1>5, <1>6
  <2> QED BY <1>3, <2>1, Uncast
<1>15. Typed'
  BY <1>14 DEF Typed, AtCast
<1>16. Blamed'
  BY <1>1, <1>2 DEF OperandInv, Blamed
<1>17. Sound'
  <2>1. raised' = 0 => result'.err = SXE_OK
    BY <1>1, <1>11 DEF Epilogue
  <2> QED BY <1>1, <2>1 DEF OperandInv, Sound
<1> QED BY <1>1, <1>13, <1>15, <1>16, <1>17 DEF OperandInv

(* The epilogue finds no value only if an error or a yield came first.     *)
LEMMA FinishEmptyKeeps ==
    ASSUME BalancedCode, Inv, OperandInv, FinishEmpty PROVE OperandInv'
<1>1. /\ At("loop") /\ (Len(frames) < Act.ft \/ state # "RUNNING")
      /\ data_stack = <<>> /\ Crash("empty")
  BY DEF FinishEmpty, LoopOver
<1>2. raised # 0
  <2> SUFFICES ASSUME raised = 0 PROVE FALSE
    OBVIOUS
  <2>1. calls # <<>> /\ Last(calls) = Act
    BY <1>1 DEF At, Last, Act
  <2>2. Len(frames) < Last(calls).ft
    BY <1>1, <2>1 DEF OperandInv, Blamed
  <2>3. Len(data_stack) >= 1
    BY <2>1, <2>2 DEF OperandInv, Holds, Enough, Running
  <2> QED BY <1>1, <2>3
<1>3. Typed'
  BY <1>1 DEF OperandInv, Crash, Typed, AtCast, Act, Top, Peek
<1>4. Sound'
  BY <1>1, <1>2 DEF OperandInv, Crash, Sound
<1> QED BY <1>1, <1>3, <1>4 DEF OperandInv, Crash, Blamed

(* An instruction finds its operands, and a TYPECAST its type.             *)
LEMMA NoInstrUnderflow ==
    ASSUME BalancedCode, Inv, OperandInv, Underflow PROVE FALSE
<1>1. /\ Ready
      /\ \/ Len(data_stack) < Needs(Instr)
         \/ Instr.op = "TYPECAST" /\ Top \notin TypeValue
  BY DEF Underflow
<1>2. /\ Len(frames) \in Nat \ {0} /\ GetFrame = frames[Len(frames)]
      /\ GetFrame.op_ptr <= Len(Code[GetFrame.func])
      /\ Instr = Code[GetFrame.func][GetFrame.op_ptr] /\ Instr \in Instruction
      /\ Len(data_stack) \in Nat
  BY <1>1, ReadyFacts
<1>3. Needs(Instr) \in Nat
  BY <1>2, NeedsNat
<1>4. Len(data_stack) >= Needs(Instr)
  BY <1>1, OperandsThere
<1>5. Instr.op = "TYPECAST" /\ Top \notin TypeValue
  BY <1>1, <1>2, <1>3, <1>4
<1>6. AtCast(frames[Len(frames)]) /\ Len(frames) \in 1 .. Len(frames)
  BY <1>2, <1>5 DEF AtCast
<1> QED BY <1>5, <1>6 DEF OperandInv, Typed

(* And so does what comes after a conversion.                              *)
LEMMA NoConvertUnderflow ==
    ASSUME BalancedCode, Inv, OperandInv, ConvertUnderflow PROVE FALSE
<1>1. PICK p \in Converting \ {"string", "int"} :
         At(p) /\ Len(data_stack) < (IF p = "setindex" THEN 3 ELSE 2)
  BY DEF ConvertUnderflow
<1> DEFINE n == Len(data_stack)
           run == state = "RUNNING"
           fine == raised = 0
<1>2. p # "loop" /\ p # "exec" /\ Effect(p) = IF p = "setindex" THEN -2 ELSE -1
  BY DEF Converting, Effect
<1>3. /\ Nest(frames, calls) /\ calls # <<>> /\ Last(calls).pc = p /\ n \in Nat
      /\ Len(frames) \in Nat \ {0} /\ Last(calls).ft <= Len(frames)
  BY <1>1, <1>2, AtFacts
<1>4. Holds(frames, n, calls, run, fine)
  BY DEF OperandInv
<1>5. OnTop(frames, calls, frames, calls)
  BY <1>3 DEF OnTop, SameButAt
<1>6. n + Effect(p) >= n + Effect(p)
  BY <1>3, EffectInt
<1> DEFINE ok == FALSE
<1>7. ~ok
  OBVIOUS
<1> HIDE DEF n, run, fine, ok
<1>8. n + Effect(Last(calls).pc) >= 1
  BY <1>2, <1>3, <1>4, <1>5, <1>6, <1>7, BackHolds
<1> QED BY <1>1, <1>2, <1>3, <1>8 DEF n

LEMMA ControlKeeps ==
    ASSUME BalancedCode, Inv, OperandInv, Control, Inv' PROVE OperandInv'
  BY RunKeeps, ReturnFrameKeeps, FinishKeeps, FinishEmptyKeeps, NoInstrUnderflow,
     NoConvertUnderflow DEF Control

-----------------------------------------------------------------------------
(* C functions and the host *)

LEMMA CRaiseKeeps ==
    ASSUME BalancedCode, Inv, OperandInv, CRaise PROVE OperandInv'
<1>1. /\ At("cfunc") /\ UNCHANGED <<frames, calls, result, crashed>>
      /\ \E err : Raise(data_stack, err) /\ err \in CRaises[Act.value]
  BY DEF CRaise
<1>2. CRaises[Act.value] \subseteq Error
  BY <1>1, InsideCFunction, HostAssumption
<1>3. /\ Len(data_stack') = Len(data_stack) + 1 /\ Len(data_stack) \in Nat
      /\ raised' # 0
  <2>1. PICK err \in Error : Raise(data_stack, err)
    BY <1>1, <1>2
  <2>2. err # 0
    BY DEF Error, SXE_BADTYPE, SXE_UNDEFINED, SXE_NILCALL, SXE_BADARGS, SXE_EXISTS,
           SXE_DIVZERO
  <2>3. data_stack \in Seq(Value)
    BY DEF Inv, TypeOK
  <2>4. data_stack' = Append(data_stack, err) /\ raised' = err
    BY <2>1 DEF Raise
  <2> HIDE DEF Value
  <2>5. Len(Append(data_stack, err)) = Len(data_stack) + 1 /\ Len(data_stack) \in Nat
    BY <2>3
  <2> QED BY <2>2, <2>4, <2>5
<1> PICK p \in Converting \cup {"cfunc"} : p = "cfunc"
  OBVIOUS
<1>4. calls # <<>> /\ Last(calls).pc = p /\ Act.pc = p /\ Moved(calls)
  BY <1>1, AtFacts, MovedSelf
<1> DEFINE m == Len(data_stack')
           go == state' = "RUNNING"
           ok == raised' = 0
<1>5. m \in Nat /\ ~ok /\ m + Effect(Last(calls).pc) >= Len(data_stack) + Effect(p)
  BY <1>3, <1>4, EffectInt
<1>6. Holds(frames, m, calls, go, ok)
  <2>1. At(p)
    BY <1>1
  <2> HIDE DEF m, go, ok
  <2> QED BY <1>4, <1>5, <2>1, AtHolds
<1>7. Typed' /\ Blamed' /\ Sound'
  BY <1>1, <1>3, <1>4, Uncast, RestRaised
<1> QED BY <1>1, <1>6, <1>7 DEF OperandInv

LEMMA CInvokeKeeps ==
    ASSUME BalancedCode, Inv, OperandInv, CInvoke, Inv' PROVE OperandInv'
<1>1. At("cfunc") /\ \E h \in CInvokes[Act.value] :
                        Enter(h.func, h.args, frames, data_stack, calls)
  BY DEF CInvoke
<1>2. PICK f \in Function, args \in Seq(Value) :
         Enter(f, args, frames, data_stack, calls)
  BY <1>1, InsideCFunction, HostAssumption
<1>3. /\ calls # <<>> /\ Last(calls).pc = "cfunc" /\ Last(calls).ft <= Len(frames)
      /\ Act.pc = "cfunc"
  BY <1>1, AtFacts
<1>4. frames \in Seq(Frame) /\ data_stack \in Seq(Value) /\ calls \in Seq(Activation)
  BY DEF Inv, TypeOK
<1>5. \A k \in 1 .. Len(frames) : ~AtCast(frames[k])
  BY <1>3, Uncast
<1> DEFINE run == state = "RUNNING"
<1>6. Holds(frames, Len(data_stack), calls, run, raised = 0)
  BY DEF OperandInv
<1> HIDE DEF run
<1> QED BY <1>2, <1>3, <1>4, <1>5, <1>6, EnterKeeps

LEMMA HostInvokeKeeps ==
    ASSUME BalancedCode, Inv, OperandInv, HostInvoke, Inv' PROVE OperandInv'
<1>1. calls = <<>> /\ \E h \in HostCalls :
                         Enter(h.func, h.args, frames, data_stack, calls)
  BY DEF HostInvoke
<1>2. PICK f \in Function, args \in Seq(Value) :
         Enter(f, args, frames, data_stack, calls)
  BY <1>1, HostAssumption
<1>3. frames \in Seq(Frame) /\ data_stack \in Seq(Value) /\ calls \in Seq(Activation)
  BY DEF Inv, TypeOK
<1>4. \A k \in 1 .. Len(frames) : ~AtCast(frames[k])
  BY <1>1, Uncast
<1> DEFINE run == state = "RUNNING"
<1>5. Holds(frames, Len(data_stack), calls, run, raised = 0)
  BY DEF OperandInv
<1>6. calls # <<>> => Last(calls).pc \notin {"exec", "loop"} /\ Last(calls).ft <= Len(frames)
  BY <1>1
<1> HIDE DEF run
<1> QED BY <1>2, <1>3, <1>4, <1>5, <1>6, EnterKeeps

LEMMA NextKeeps ==
    ASSUME BalancedCode, Inv, OperandInv, Next, Inv' PROVE OperandInv'
<1>1. CASE HostInvoke
  BY <1>1, HostInvokeKeeps
<1>2. CASE Step
  BY <1>2, SimpleKeeps, CallingKeeps, ConversionKeeps, ControlKeeps DEF Step
<1>3. CASE CFunction
  BY <1>3, CRaiseKeeps, CInvokeKeeps, CReturnKeeps DEF CFunction
<1> QED BY <1>1, <1>2, <1>3 DEF Next

-----------------------------------------------------------------------------
(* The invariant *)

LEMMA InitOperands == ASSUME Init PROVE OperandInv
<1>1. /\ frames = <<>> /\ calls = <<>> /\ data_stack = <<>> /\ raised = 0
      /\ crashed = "no" /\ result.err = SXE_OK
      /\ Len(frames) = 0 /\ Len(calls) = 0 /\ Len(data_stack) = 0
  BY DEF Init, NoResult
<1>2. Nest(frames, calls)
  BY InitInv, InvNest
<1> DEFINE run == state = "RUNNING"
<1> HIDE DEF run
<1>3. Enough(frames, 0, calls, run)
  BY <1>1, <1>2 DEF Enough, AllReached, Stacked, Waiting, Running
<1>4. Just(frames, 0, calls)
  BY <1>1, <1>2 DEF Just, Called, Entered, Going
<1>5. Holds(frames, Len(data_stack), calls, run, raised = 0)
  BY <1>1, <1>3, <1>4 DEF Holds
<1>6. Typed /\ Blamed /\ Sound
  BY <1>1 DEF Typed, Blamed, Sound
<1> QED BY <1>5, <1>6 DEF OperandInv, run

LEMMA StutterKeeps == ASSUME OperandInv, UNCHANGED vars PROVE OperandInv'
<1>1. UNCHANGED <<frames, data_stack, state, calls, result, crashed, raised>>
  BY DEF vars
<1>2. Holds(frames', Len(data_stack'), calls', state' = "RUNNING", raised' = 0)
  BY <1>1 DEF OperandInv
<1>3. Typed' /\ Blamed' /\ Sound'
  BY <1>1 DEF OperandInv, Typed, Blamed, Sound, AtCast, Act, Top, Peek
<1> QED BY <1>2, <1>3 DEF OperandInv

(***************************************************************************)
(* On balanced code the data stack of eval.cpp always holds what the frames*)
(* and activations still need, at least, and exactly that until an error   *)
(* or a yield.                                                             *)
(***************************************************************************)
THEOREM OperandInvThm == Spec => [](BalancedCode => OperandInv)
<1> DEFINE I == Inv /\ (BalancedCode => OperandInv)
<1>1. Init => I
  BY InitInv, InitOperands
<1>2. I /\ [Next]_vars => I'
  <2> SUFFICES ASSUME I, [Next]_vars PROVE I'
    OBVIOUS
  <2>1. Inv'
    BY StepInv
  <2>2. BalancedCode' <=> BalancedCode
    BY DEF BalancedCode
  <2>3. ASSUME BalancedCode PROVE OperandInv'
    <3>1. CASE Next
      BY <2>1, <2>3, <3>1, NextKeeps
    <3>2. CASE UNCHANGED vars
      BY <2>3, <3>2, StutterKeeps
    <3> QED BY <3>1, <3>2
  <2> QED BY <2>1, <2>2, <2>3
<1>3. I => (BalancedCode => OperandInv)
  OBVIOUS
<1> QED BY <1>1, <1>2, <1>3, PTL DEF Spec

(***************************************************************************)
(* No instruction, and no conversion that comes back, reads below the data *)
(* stack (PopValue and GetValue check nothing), whatever was raised before;*)
(* and Invoke's epilogue finds a return value until an error or a yield.   *)
(***************************************************************************)
THEOREM NoUnderflowThm == Spec => []NoUnderflow
<1>1. (BalancedCode => OperandInv) => NoUnderflow
  BY DEF NoUnderflow, OperandInv, Sound
<1> QED BY <1>1, OperandInvThm, PTL

(***************************************************************************)
(* After an Invoke of the host in which nothing was raised and nothing     *)
(* yielded, eval.cpp:561-576 leave both stacks empty and return SXE_OK.    *)
(***************************************************************************)
THEOREM CleanReturnThm == Spec => []CleanReturn
<1>1. Inv /\ (BalancedCode => OperandInv) => CleanReturn
  <2> SUFFICES ASSUME Inv, OperandInv, calls = <<>>, raised = 0
               PROVE  frames = <<>> /\ data_stack = <<>> /\ result.err = SXE_OK
    BY DEF CleanReturn
  <2>1. Just(frames, Len(data_stack), calls)
    BY DEF OperandInv, Holds
  <2>2. Len(frames) = 0 /\ Len(data_stack) = 0
    BY <2>1 DEF Just
  <2>3. frames \in Seq(Frame) /\ data_stack \in Seq(Value)
    BY DEF Inv, TypeOK
  <2>4. frames = <<>>
    BY <2>2, <2>3, EmptySeq
  <2>5. data_stack = <<>>
    BY <2>2, <2>3, EmptySeq
  <2> QED BY <2>4, <2>5 DEF OperandInv, Sound
<1> QED BY <1>1, InvThm, OperandInvThm, PTL

(* The activation that frame k belongs to.                                 *)
LEMMA Owner ==
    ASSUME Nest(frames, calls), NEW k \in Nat, NEW a \in 1 .. Len(calls),
           calls[a].ft <= k, a < Len(calls) => calls[a + 1].ft > k
    PROVE  Max({b \in 1 .. Len(calls) : calls[b].ft <= k}) = a
<1> DEFINE T == {b \in 1 .. Len(calls) : calls[b].ft <= k}
<1>1. /\ Len(calls) \in Nat
      /\ \A i \in 1 .. Len(calls) : calls[i].ft \in Nat
  BY NestFacts
<1>2. a \in T /\ T \subseteq 0 .. Len(calls)
  OBVIOUS
<1>3. ASSUME NEW y \in T PROVE y <= a
  <2> SUFFICES ASSUME a < y PROVE FALSE
    BY <1>1
  <2>1. y \in 1 .. Len(calls) /\ calls[y].ft <= k
    OBVIOUS
  <2>2. a < Len(calls) /\ a + 1 \in 1 .. Len(calls) /\ a + 1 <= y
    BY <1>1, <2>1
  <2>3. calls[a + 1].ft <= calls[y].ft
    <3>1. CASE a + 1 = y
      BY <1>1, <2>1, <3>1
    <3>2. CASE a + 1 < y
      <4>1. calls[a + 1].ft < calls[y].ft
        BY <2>1, <2>2, <3>2 DEF Nest
      <4> QED BY <1>1, <2>1, <2>2, <4>1
    <3> QED BY <2>1, <2>2, <3>1, <3>2
  <2> QED BY <1>1, <2>1, <2>2, <2>3
<1> HIDE DEF T
<1>4. Max(T) \in T /\ \A y \in T : y <= Max(T)
  BY <1>1, <1>2, MaxNat
<1>5. Max(T) <= a /\ a <= Max(T) /\ Max(T) \in Nat
  BY <1>2, <1>3, <1>4
<1>6. Max(T) = a
  BY <1>5
<1> QED BY <1>6 DEF T

(* What OperandsMatch says of a frame with x operands, y when it goes on.  *)
Fits(r, x, y) == IF Func[r.func].cfunc THEN x = 0
                 ELSE IF r.op_ptr <= Len(Code[r.func]) THEN y = Depth[r.func][r.op_ptr]
                 ELSE y >= 1

Owes(pc) == CASE pc \in {"string", "int"} -> 1
              [] pc \in {"concat1", "concat2", "index"} -> -1
              [] pc = "setindex" -> -2
              [] OTHER -> 0

LEMMA SuitsFits ==
    ASSUME NEW r, NEW x \in Int, NEW pc, Suits(r, x, pc) PROVE Fits(r, x, x + Owes(pc))
<1>1. Owes(pc) = (IF pc = "cfunc" THEN 0 ELSE Effect(pc)) /\ Owes(pc) \in Int
  BY DEF Owes, Effect
<1>2. pc \notin Converting => Owes(pc) = 0
  BY DEF Owes, Converting
<1> QED BY <1>1, <1>2 DEF Suits, Matches, Fits

LEMMA FrameFits ==
    ASSUME Nest(frames, calls), Just(frames, Len(data_stack), calls), Len(data_stack) \in Nat,
           NEW k \in 1 .. Len(frames)
    PROVE  Operands(k) \in Int /\ Fits(frames[k], Operands(k), Operands(k) + Owed(k))
<1> DEFINE b == Bottom(frames, calls, k)
           n == Len(data_stack)
<1>1. /\ Len(frames) \in Nat /\ Len(calls) \in Nat /\ k \in Nat \ {0} /\ k <= Len(frames)
      /\ \A i \in 1 .. Len(frames) : frames[i].top \in Nat
      /\ \A i \in 1 .. Len(calls) : calls[i].ft \in Nat /\ calls[i].ft <= Len(frames) + 1
  BY NestFacts
<1>2. calls # <<>> /\ calls[1].ft = 1
  BY <1>1 DEF Just
<1>3. Len(calls) >= 1 /\ Last(calls) = calls[Len(calls)] /\ Act = calls[Len(calls)]
  BY <1>2, NestFacts DEF Act
<1>4. /\ frames[k].top + (IF IsRoot(k) THEN 0 ELSE frames[k].argc) = b
      /\ frames[k].top \in Nat /\ frames[k].argc \in Nat
  BY <1>1, NestFacts DEF IsRoot, Bottom, Root, Frame
<1>5. b \in Nat
  BY BottomInt
<1> DEFINE c == IF IsRoot(k) THEN 0 ELSE frames[k].argc
<1>6. ASSUME NEW x \in Int, Operands(k) = x - frames[k].top - c PROVE Operands(k) = x - b
  <2>1. frames[k].top + c = b /\ c \in Nat /\ frames[k].top \in Nat
    BY <1>4
  <2> HIDE DEF b, c
  <2> QED BY <1>5, <1>6, <2>1
<1>7. CASE k < Len(frames) /\ ~IsRoot(k + 1)
  <2>1. Operands(k) = frames[k + 1].top - b
    <3>1. frames[k + 1].top \in Int
      BY <1>1, <1>7
    <3>2. Operands(k) = frames[k + 1].top - frames[k].top - c
      BY <1>7 DEF Operands
    <3> HIDE DEF b, c
    <3> QED BY <1>6, <3>1, <3>2
  <2>2. Owed(k) = 1
    BY <1>7 DEF Owed
  <2>3. ~Root(calls, k + 1) /\ k \in 1 .. Len(frames) - 1 /\ k + 1 \in 1 .. Len(frames)
    BY <1>1, <1>7 DEF IsRoot, Root
  <2>4. /\ ~Func[frames[k].func].cfunc
        /\ Matches(frames[k], frames[k + 1].top + 1 - b)
    BY <2>3 DEF Just, Called
  <2>5. frames[k + 1].top \in Nat
    BY <1>1, <2>3
  <2> HIDE DEF b
  <2>6. frames[k + 1].top + 1 - b = Operands(k) + Owed(k) /\ Operands(k) \in Int
    BY <1>5, <2>1, <2>2, <2>5
  <2> QED BY <2>4, <2>6 DEF Matches, Fits
<1>8. ASSUME NEW a \in 1 .. Len(calls), calls[a].ft <= k,
             a < Len(calls) => calls[a + 1].ft > k, NEW h \in Int,
             Suits(frames[k], h - b, calls[a].pc), Operands(k) = h - b,
             ~(k < Len(frames) /\ ~IsRoot(k + 1))
      PROVE  Operands(k) \in Int /\ Fits(frames[k], Operands(k), Operands(k) + Owed(k))
  <2>1. Max({d \in 1 .. Len(calls) : calls[d].ft <= k}) = a
    BY <1>1, <1>8, Owner
  <2>2. Owed(k) = Owes(calls[a].pc)
    BY <1>8, <2>1 DEF Owed, Owes
  <2> HIDE DEF b
  <2>3. Operands(k) \in Int
    BY <1>5, <1>8
  <2> QED BY <1>8, <2>2, <2>3, SuitsFits
<1>9. ASSUME NEW j \in 2 .. Len(calls), calls[j].ft = k + 1,
             Operands(k) = Height(frames, n, k + 1) - b,
             ~(k < Len(frames) /\ ~IsRoot(k + 1))
      PROVE  Operands(k) \in Int /\ Fits(frames[k], Operands(k), Operands(k) + Owed(k))
  <2> DEFINE a == j - 1
             h == Height(frames, n, k + 1)
  <2>1. /\ a \in 1 .. Len(calls) - 1 /\ a \in 1 .. Len(calls) /\ a < Len(calls)
        /\ a + 1 = j /\ a < j /\ j \in 1 .. Len(calls)
    BY <1>1, <1>9
  <2>2. calls[a].ft < calls[j].ft
    BY <2>1 DEF Nest
  <2>3. calls[a].ft <= k /\ calls[a + 1].ft > k
    <3>1. calls[a].ft \in Nat /\ calls[a + 1].ft = k + 1 /\ k \in Nat
      BY <1>1, <1>9, <2>1
    <3>2. calls[a].ft < k + 1
      BY <1>9, <2>2
    <3> QED BY <3>1, <3>2
  <2>4. h \in Int
    BY <1>1 DEF Height
  <2>5. Suits(frames[calls[a + 1].ft - 1],
              Height(frames, n, calls[a + 1].ft) - Bottom(frames, calls, calls[a + 1].ft - 1),
              calls[a].pc)
    <3> HIDE DEF a, n
    <3> QED BY <2>1 DEF Just, Entered, n
  <2>6. calls[a + 1].ft = k + 1 /\ calls[a + 1].ft - 1 = k
    BY <1>1, <1>9, <2>1
  <2>7. Suits(frames[k], h - b, calls[a].pc)
    BY <2>5, <2>6
  <2> HIDE DEF a, h, b
  <2> QED BY <1>8, <1>9, <2>1, <2>3, <2>4, <2>7 DEF h
<1>10. CASE k < Len(frames) /\ IsRoot(k + 1)
  <2>1. PICK j \in 1 .. Len(calls) : calls[j].ft = k + 1
    BY <1>10 DEF IsRoot
  <2>2. j \in 2 .. Len(calls)
    BY <1>1, <1>2, <2>1
  <2>3. Operands(k) = frames[k + 1].top - b
    <3>1. frames[k + 1].top \in Int
      BY <1>1, <1>10
    <3>2. Operands(k) = frames[k + 1].top - frames[k].top - c
      BY <1>10 DEF Operands
    <3> HIDE DEF b, c
    <3> QED BY <1>6, <3>1, <3>2
  <2>4. Height(frames, n, k + 1) = frames[k + 1].top
    BY <1>1, <1>10 DEF Height
  <2> HIDE DEF b, n
  <2> QED BY <1>9, <1>10, <2>1, <2>2, <2>3, <2>4
<1>11. CASE k = Len(frames) /\ ~Returning
  <2>1. Act.ft <= Len(frames) /\ Act.ft \in Nat
    BY <1>1, <1>2, <1>3, <1>11 DEF Returning
  <2>2. Operands(k) = n - b
    <3>1. ~(k < Len(frames))
      BY <1>1, <1>11
    <3>2. Len(data_stack) - 0 = n /\ n \in Int
      OBVIOUS
    <3>3. Operands(k) = n - frames[k].top - c
      BY <1>11, <3>1, <3>2 DEF Operands
    <3> HIDE DEF b, c, n
    <3> QED BY <1>6, <3>2, <3>3
  <2>3. Suits(frames[k], n - b, calls[Len(calls)].pc)
    BY <1>2, <1>3, <1>11, <2>1, TopSuits
  <2>4. Len(calls) \in 1 .. Len(calls) /\ calls[Len(calls)].ft <= k
    BY <1>1, <1>3, <1>11, <2>1
  <2> HIDE DEF b
  <2> QED BY <1>1, <1>8, <1>11, <2>2, <2>3, <2>4
<1>12. CASE k = Len(frames) /\ Returning
  <2>1. calls[Len(calls)].ft = k + 1 /\ Len(calls) \in 1 .. Len(calls)
    BY <1>1, <1>3, <1>12 DEF Returning
  <2>2. Len(calls) \in 2 .. Len(calls)
    BY <1>1, <1>2, <1>3, <2>1
  <2>3. Operands(k) = n - 1 - b
    <3>1. ~(k < Len(frames)) /\ n - 1 \in Int
      BY <1>1, <1>12
    <3>2. Operands(k) = n - 1 - frames[k].top - c
      BY <1>12, <3>1 DEF Operands
    <3> HIDE DEF b, c, n
    <3> QED BY <1>6, <3>1, <3>2
  <2>4. Height(frames, n, k + 1) = n - 1
    BY <1>1, <1>12 DEF Height
  <2> HIDE DEF b, n
  <2> QED BY <1>9, <1>12, <2>1, <2>2, <2>3, <2>4
<1> QED BY <1>1, <1>7, <1>10, <1>11, <1>12

(***************************************************************************)
(* As long as nothing was raised and nothing yielded, every frame has just *)
(* the operands its code says: no call, conversion, C function or epilogue *)
(* takes anything its caller keeps on the data stack, or adds to it.       *)
(***************************************************************************)
THEOREM OperandsMatchThm == Spec => []OperandsMatch
<1>1. Inv /\ (BalancedCode => OperandInv) => OperandsMatch
  <2> SUFFICES ASSUME Inv, OperandInv, raised = 0, NEW k \in 1 .. Len(frames)
               PROVE  Fits(frames[k], Operands(k), Operands(k) + Owed(k))
    BY DEF OperandsMatch, Fits
  <2>1. Just(frames, Len(data_stack), calls) /\ Nest(frames, calls)
    BY InvNest DEF OperandInv, Holds
  <2>2. Len(data_stack) \in Nat
    BY DEF Inv, TypeOK
  <2> QED BY <2>1, <2>2, FrameFits
<1> QED BY <1>1, InvThm, OperandInvThm, PTL
=============================================================================
