---------------------------- MODULE MCCallStack ----------------------------
(* CallStack, with at most MaxDepth frames. *)
EXTENDS CallStack

CONSTANT MaxDepth

Fits == Len(stack') <= MaxDepth

BoundedNext == (Call /\ Fits) \/ Return \/ (Begin /\ Fits) \/ End

BoundedSpec == Init /\ [][BoundedNext]_vars
=============================================================================
