----------------------------- MODULE CallStack -----------------------------
(***************************************************************************)
(* What System::Invoke promises about the frame stack, whatever the        *)
(* scripts, the C functions and the errors in between.                     *)
(*                                                                         *)
(* The machine of eval.cpp keeps one stack of frames for all the C++       *)
(* activations of Invoke: an activation remembers the height of the stack  *)
(* right after it pushed its own frame (frame_top) and works above that    *)
(* mark.  Here a frame is its access rights and an activation is its mark. *)
(***************************************************************************)
EXTENDS Integers, Sequences

CONSTANT Security       \* the bits of a SecurityLevel

VARIABLES
    stack,              \* the access rights of each frame, bottom first
    marks               \* frame_top of each activation of Invoke, outermost first

vars == <<stack, marks>>

Height == Len(stack)
Mark  == marks[Len(marks)]

(* Mutant: the caller's rights are not looked at.                          *)
GrantedAny(a) == TRUE

(***************************************************************************)
(* The rights a new frame may have: PushFrame takes those of the function, *)
(* masked by the caller's.                                                 *)
(***************************************************************************)
Granted(a) == stack # <<>> => a \subseteq stack[Height]

Init == /\ stack = <<>>
        /\ marks = <<>>

(* A script instruction calls a function or a method.                      *)
Call == /\ marks # <<>>
        /\ Mark <= Height
        /\ \E a \in SUBSET Security :
              /\ Granted(a)
              /\ stack' = Append(stack, a)
        /\ UNCHANGED marks

(* Mutant: it returns although the frames of its activation are all gone.  *)
ReturnUnguarded ==
    /\ marks # <<>>
    /\ Height > 0
    /\ stack' = SubSeq(stack, 1, Height - 1)
    /\ UNCHANGED marks

(* The function on top returns to the frame under it.                      *)
Return == /\ marks # <<>>
          /\ Mark <= Height
          /\ stack' = SubSeq(stack, 1, Height - 1)
          /\ UNCHANGED marks

(* Mutant: the mark is taken before the push.                              *)
BeginEarly ==
    /\ marks # <<>> => Mark <= Height
    /\ \E a \in SUBSET Security :
          /\ Granted(a)
          /\ stack' = Append(stack, a)
    /\ marks' = Append(marks, Height)

(* Invoke is entered, by the host or from inside another activation.       *)
Begin == /\ marks # <<>> => Mark <= Height
         /\ \E a \in SUBSET Security :
               /\ Granted(a)
               /\ stack' = Append(stack, a)
         /\ marks' = Append(marks, Height + 1)

(* Mutant: any number of frames is discarded.                              *)
EndDeep == /\ marks # <<>>
           /\ \E n \in 0 .. Height : stack' = SubSeq(stack, 1, n)
           /\ marks' = SubSeq(marks, 1, Len(marks) - 1)

(***************************************************************************)
(* Invoke returns.  It may discard frames of its own, and after an error   *)
(* or a yield it may leave some behind, but it never removes a frame that  *)
(* was there before it began.                                              *)
(***************************************************************************)
End == /\ marks # <<>>
       /\ \E n \in 0 .. Height : /\ n >= Mark - 1
                                /\ stack' = SubSeq(stack, 1, n)
       /\ marks' = SubSeq(marks, 1, Len(marks) - 1)

Next == Call \/ Return \/ Begin \/ End

Spec == Init /\ [][Next]_vars

-----------------------------------------------------------------------------

TypeOK == /\ stack \in Seq(SUBSET Security)
          /\ marks \in Seq(Nat \ {0})

(***************************************************************************)
(* Each activation's mark is above the marks of the ones that wait for it, *)
(* and the stack never falls below the frame under the innermost mark.     *)
(***************************************************************************)
MarksNested ==
    /\ \A i, j \in 1 .. Len(marks) : i < j => marks[i] < marks[j]
    /\ marks # <<>> => Mark - 1 <= Height

(***************************************************************************)
(* Rights only narrow: no frame has a right that some frame under it       *)
(* lacks, so code run with few rights cannot gain any by calling.          *)
(***************************************************************************)
AccessNarrows ==
    \A i, j \in 1 .. Height : i <= j => stack[j] \subseteq stack[i]

(***************************************************************************)
(* An activation leaves every frame under its own mark as it found it: no  *)
(* step of it, and not its end, pops or replaces a frame of its callers.   *)
(***************************************************************************)
CallersKept ==
    [][marks # <<>> =>
         /\ Len(stack') >= Mark - 1
         /\ \A k \in 1 .. Mark - 1 : stack'[k] = stack[k]]_vars
=============================================================================
