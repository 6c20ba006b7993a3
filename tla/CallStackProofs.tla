-------------------------- MODULE CallStackProofs ---------------------------
(***************************************************************************)
(* CallStack's invariants, for every set of rights and every height.       *)
(***************************************************************************)
EXTENDS CallStack, SeqFacts, TLAPS

Inv == TypeOK /\ MarksNested /\ AccessNarrows

LEMMA InitInv == Init => Inv
  BY DEF Init, Inv, TypeOK, MarksNested, AccessNarrows, Height, Mark

(***************************************************************************)
(* A push by PushFrame: the stack stays typed and the rights only narrow.  *)
(***************************************************************************)
LEMMA PushNarrows ==
    ASSUME TypeOK, AccessNarrows,
           NEW a \in SUBSET Security, Granted(a), stack' = Append(stack, a)
    PROVE  /\ stack' \in Seq(SUBSET Security)
           /\ Len(stack') = Len(stack) + 1
           /\ \A k \in 1 .. Len(stack) : stack'[k] = stack[k]
           /\ AccessNarrows'
<1>1. /\ stack' \in Seq(SUBSET Security)
      /\ Len(stack') = Len(stack) + 1
      /\ \A k \in 1 .. Len(stack) : stack'[k] = stack[k]
      /\ stack'[Len(stack) + 1] = a
  BY AppendSeq DEF TypeOK
<1>2. ASSUME NEW i \in 1 .. Len(stack) PROVE a \subseteq stack[i]
  <2>1. stack # <<>> /\ Len(stack) \in Nat /\ Len(stack) \in 1 .. Len(stack)
    BY <1>2 DEF TypeOK
  <2>2. a \subseteq stack[Len(stack)]
    BY <2>1 DEF Granted, Height
  <2>3. stack[Len(stack)] \subseteq stack[i]
    BY <2>1, <1>2 DEF AccessNarrows, Height
  <2> QED BY <2>2, <2>3
<1>3. ASSUME NEW i \in 1 .. Len(stack'), NEW j \in 1 .. Len(stack'), i <= j
      PROVE  stack'[j] \subseteq stack'[i]
  <2>0. Len(stack) \in Nat
    BY DEF TypeOK
  <2>1. CASE j <= Len(stack)
    BY <2>0, <2>1, <1>1, <1>3 DEF AccessNarrows, Height
  <2>2. CASE j = Len(stack) + 1 /\ i <= Len(stack)
    BY <2>0, <2>2, <1>1, <1>2, <1>3
  <2>3. CASE j = Len(stack) + 1 /\ i = Len(stack) + 1
    BY <2>3
  <2> QED BY <2>0, <2>1, <2>2, <2>3, <1>1, <1>3
<1> QED BY <1>1, <1>3 DEF AccessNarrows, Height

(***************************************************************************)
(* Cutting the stack to a prefix keeps it typed and its rights narrowing.  *)
(***************************************************************************)
LEMMA CutNarrows ==
    ASSUME TypeOK, AccessNarrows,
           NEW n \in 0 .. Len(stack), stack' = SubSeq(stack, 1, n)
    PROVE  /\ stack' \in Seq(SUBSET Security)
           /\ Len(stack') = n
           /\ \A k \in 1 .. n : stack'[k] = stack[k]
           /\ AccessNarrows'
<1>1. /\ stack' \in Seq(SUBSET Security)
      /\ Len(stack') = n
      /\ \A k \in 1 .. n : stack'[k] = stack[k]
  BY PrefixSeq DEF TypeOK
<1>2. ASSUME NEW i \in 1 .. Len(stack'), NEW j \in 1 .. Len(stack'), i <= j
      PROVE  stack'[j] \subseteq stack'[i]
  <2>1. Len(stack) \in Nat /\ i \in 1 .. n /\ j \in 1 .. n
    BY <1>1, <1>2 DEF TypeOK
  <2>2. i \in 1 .. Len(stack) /\ j \in 1 .. Len(stack)
    BY <2>1
  <2>3. stack[j] \subseteq stack[i]
    BY <1>2, <2>2 DEF AccessNarrows, Height
  <2> QED BY <1>1, <2>1, <2>3
<1>3. AccessNarrows'
  BY <1>2 DEF AccessNarrows, Height
<1> QED BY <1>1, <1>3

LEMMA NextInv == Inv /\ [Next]_vars => Inv'
<1> SUFFICES ASSUME Inv, [Next]_vars PROVE Inv'
  OBVIOUS
<1> USE DEF Inv
<1>0. Len(stack) \in Nat /\ Len(marks) \in Nat
  BY DEF TypeOK
<1>1. CASE Call
  <2>1. PICK a \in SUBSET Security : Granted(a) /\ stack' = Append(stack, a)
    BY <1>1 DEF Call
  <2>2. /\ stack' \in Seq(SUBSET Security)
        /\ Len(stack') = Len(stack) + 1
        /\ AccessNarrows'
    BY <2>1, PushNarrows
  <2>3. marks' = marks
    BY <1>1 DEF Call
  <2>4. MarksNested'
    BY <1>0, <2>2, <2>3 DEF MarksNested, Mark, Height, TypeOK
  <2> QED BY <2>2, <2>3, <2>4 DEF TypeOK
<1>2. CASE Return
  <2>1. marks # <<>> /\ marks' = marks /\ Mark <= Len(stack)
    BY <1>2 DEF Return, Height
  <2>2. Mark \in Nat \ {0}
    BY <1>0, <2>1 DEF Mark, TypeOK
  <2>3. Len(stack) - 1 \in 0 .. Len(stack)
    BY <1>0, <2>1, <2>2
  <2>4. /\ stack' \in Seq(SUBSET Security)
        /\ Len(stack') = Len(stack) - 1
        /\ AccessNarrows'
    BY <1>2, <2>3, CutNarrows DEF Return, Height
  <2>5. MarksNested'
    BY <1>0, <2>1, <2>2, <2>4 DEF MarksNested, Mark, Height
  <2> QED BY <2>1, <2>4, <2>5 DEF TypeOK
<1>3. CASE Begin
  <2>1. PICK a \in SUBSET Security : Granted(a) /\ stack' = Append(stack, a)
    BY <1>3 DEF Begin
  <2>2. /\ stack' \in Seq(SUBSET Security)
        /\ Len(stack') = Len(stack) + 1
        /\ AccessNarrows'
    BY <2>1, PushNarrows
  <2>3. marks' = Append(marks, Len(stack) + 1) /\ (marks # <<>> => Mark <= Len(stack))
    BY <1>3 DEF Begin, Height
  <2>4. /\ marks' \in Seq(Nat \ {0})
        /\ Len(marks') = Len(marks) + 1
        /\ \A k \in 1 .. Len(marks) : marks'[k] = marks[k]
        /\ marks'[Len(marks) + 1] = Len(stack) + 1
    BY <1>0, <2>3, AppendSeq DEF TypeOK
  <2>5. ASSUME NEW i \in 1 .. Len(marks) PROVE marks[i] <= Len(stack)
    <3>1. marks # <<>> /\ Len(marks) \in 1 .. Len(marks)
      BY <1>0, <2>5
    <3>2. marks[i] <= Mark /\ Mark \in Nat /\ marks[i] \in Nat
      BY <1>0, <2>5, <3>1 DEF MarksNested, Mark, TypeOK
    <3> QED BY <1>0, <2>3, <3>1, <3>2
  <2>6. ASSUME NEW i \in 1 .. Len(marks'), NEW j \in 1 .. Len(marks'), i < j
        PROVE  marks'[i] < marks'[j]
    <3>1. i \in 1 .. Len(marks) /\ marks[i] \in Nat
      BY <1>0, <2>4, <2>6 DEF TypeOK
    <3>2. CASE j \in 1 .. Len(marks)
      BY <2>4, <2>6, <3>1, <3>2 DEF MarksNested
    <3>3. CASE j = Len(marks) + 1
      BY <1>0, <2>4, <2>5, <3>1, <3>3
    <3> QED BY <1>0, <2>4, <2>6, <3>2, <3>3
  <2>7. Mark' - 1 <= Height'
    BY <1>0, <2>2, <2>4 DEF Mark, Height
  <2> QED BY <2>2, <2>4, <2>6, <2>7 DEF TypeOK, MarksNested
<1>4. CASE End
  <2>1. marks # <<>> /\ Len(marks) - 1 \in 0 .. Len(marks)
    BY <1>0, <1>4 DEF End, TypeOK
  <2>2. PICK n \in 0 .. Len(stack) : n >= Mark - 1 /\ stack' = SubSeq(stack, 1, n)
    BY <1>4 DEF End, Height
  <2>3. /\ stack' \in Seq(SUBSET Security)
        /\ Len(stack') = n
        /\ AccessNarrows'
    BY <2>2, CutNarrows
  <2>4. /\ marks' \in Seq(Nat \ {0})
        /\ Len(marks') = Len(marks) - 1
        /\ \A k \in 1 .. Len(marks) - 1 : marks'[k] = marks[k]
    BY <1>4, <2>1, PrefixSeq DEF End, TypeOK
  <2>5. ASSUME NEW i \in 1 .. Len(marks'), NEW j \in 1 .. Len(marks'), i < j
        PROVE  marks'[i] < marks'[j]
    <3>1. /\ i \in 1 .. Len(marks) - 1 /\ j \in 1 .. Len(marks) - 1
          /\ i \in 1 .. Len(marks) /\ j \in 1 .. Len(marks)
      BY <1>0, <2>4, <2>5
    <3>2. marks[i] < marks[j]
      BY <2>5, <3>1 DEF MarksNested
    <3> QED BY <2>4, <3>1, <3>2
  <2>6. ASSUME marks' # <<>> PROVE Mark' - 1 <= Height'
    <3>1. Len(marks) - 1 \in 1 .. Len(marks) - 1
      BY <1>0, <2>4, <2>6
    <3>2. Mark' = marks[Len(marks) - 1]
      BY <2>4, <3>1 DEF Mark
    <3>3. marks[Len(marks) - 1] < Mark
      BY <1>0, <3>1 DEF MarksNested, Mark
    <3>4. Mark \in Nat /\ marks[Len(marks) - 1] \in Nat
      BY <1>0, <2>1, <3>1 DEF Mark, TypeOK
    <3> QED BY <2>2, <2>3, <3>2, <3>3, <3>4 DEF Height
  <2> QED BY <2>3, <2>4, <2>5, <2>6 DEF TypeOK, MarksNested
<1>5. CASE UNCHANGED vars
  BY <1>5 DEF vars, TypeOK, MarksNested, AccessNarrows, Mark, Height
<1> QED BY <1>1, <1>2, <1>3, <1>4, <1>5 DEF Next

LEMMA Invariance == Spec => []Inv
  BY InitInv, NextInv, PTL DEF Spec

(***************************************************************************)
(* Every push, pop and end leaves a stack of sets of rights and marks that *)
(* are positions of it.                                                    *)
(***************************************************************************)
THEOREM TypeOKThm == Spec => []TypeOK
  BY Invariance, PTL DEF Inv

(***************************************************************************)
(* The marks of nested activations stay nested under the stack.            *)
(***************************************************************************)
THEOREM MarksNestedThm == Spec => []MarksNested
  BY Invariance, PTL DEF Inv

(***************************************************************************)
(* Rights only narrow up the stack, whatever the order in which the        *)
(* activations call, return, fail and leave frames behind.                 *)
(***************************************************************************)
THEOREM AccessNarrowsThm == Spec => []AccessNarrows
  BY Invariance, PTL DEF Inv

(***************************************************************************)
(* No step of an activation changes a frame that was there before it.      *)
(***************************************************************************)
LEMMA StepKeepsCallers ==
    ASSUME Inv, [Next]_vars, marks # <<>>
    PROVE  /\ Len(stack') >= Mark - 1
           /\ \A k \in 1 .. Mark - 1 : stack'[k] = stack[k]
<1> USE DEF Inv
<1>0. Len(stack) \in Nat /\ Mark \in Nat \ {0} /\ Mark - 1 <= Len(stack)
  BY DEF TypeOK, MarksNested, Mark, Height
<1>1. CASE Call \/ Begin
  <2>1. PICK a \in SUBSET Security : Granted(a) /\ stack' = Append(stack, a)
    BY <1>1 DEF Call, Begin
  <2> QED BY <1>0, <2>1, PushNarrows
<1>2. CASE Return
  <2>1. Mark <= Len(stack) /\ stack' = SubSeq(stack, 1, Len(stack) - 1)
    BY <1>2 DEF Return, Height
  <2>2. Len(stack) - 1 \in 0 .. Len(stack)
    BY <1>0, <2>1
  <2>3. /\ Len(stack') = Len(stack) - 1
        /\ \A k \in 1 .. Len(stack) - 1 : stack'[k] = stack[k]
    BY <2>1, <2>2, CutNarrows
  <2> QED BY <1>0, <2>1, <2>3
<1>3. CASE End
  <2>1. PICK n \in 0 .. Len(stack) : n >= Mark - 1 /\ stack' = SubSeq(stack, 1, n)
    BY <1>3 DEF End, Height
  <2>2. /\ Len(stack') = n
        /\ \A k \in 1 .. n : stack'[k] = stack[k]
    BY <2>1, CutNarrows
  <2> QED BY <1>0, <2>1, <2>2
<1>4. CASE UNCHANGED vars
  BY <1>0, <1>4 DEF vars
<1> QED BY <1>1, <1>2, <1>3, <1>4 DEF Next

(***************************************************************************)
(* The frames under an activation's mark are its callers': it keeps them.  *)
(***************************************************************************)
THEOREM CallersKeptThm == Spec => CallersKept
<1>1. Inv /\ [Next]_vars =>
        [marks # <<>> => /\ Len(stack') >= Mark - 1
                         /\ \A k \in 1 .. Mark - 1 : stack'[k] = stack[k]]_vars
  BY StepKeepsCallers
<1> QED BY <1>1, Invariance, PTL DEF Spec, CallersKept
=============================================================================
