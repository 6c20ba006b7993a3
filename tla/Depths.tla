------------------------------- MODULE Depths -------------------------------
(***************************************************************************)
(* How many operands there are before each instruction: the depths that    *)
(* make code Balanced, if any do, found by following it, and the bodies    *)
(* for which there are none because of a back jump to another loop.        *)
(***************************************************************************)
EXTENDS Bytecode, TLC

(* Operands before each instruction that a path leads to, as the first     *)
(* path there leaves them.                                                 *)
RECURSIVE Follow(_, _)
Follow(c, d) ==
    LET next(p) == Target(c[p]) \cup (IF c[p].op = "JUMP" THEN {} ELSE {p + 1})
        new == {pq \in (DOMAIN d) \X (1 .. Len(c)) :
                  pq[2] \in next(pq[1]) \ DOMAIN d}
    IN  IF new # {}
        THEN LET pq == CHOOSE e \in new : TRUE
                 p  == pq[1]
             IN  Follow(c, d @@ (pq[2] :> d[p] - Needs(c[p]) + Leaves(c[p])))
        ELSE [p \in 1 .. Len(c) |-> IF p \in DOMAIN d THEN d[p] ELSE Unreached]

Depths(c) == IF c = <<>> THEN <<>> ELSE Follow(c, 1 :> 0)

(* Every path to an instruction brings at least d operands, and d are      *)
(* enough; a path may bring more.                                          *)
Suffices(c, d) ==
    \A p \in 1 .. Len(c) : d[p] # Unreached =>
       LET after == d[p] - Needs(c[p]) + Leaves(c[p])
           next  == Target(c[p]) \cup (IF c[p].op = "JUMP" THEN {} ELSE {p + 1})
       IN  /\ d[p] >= Needs(c[p])
           /\ \A q \in next : after >= IF q <= Len(c) THEN d[q] ELSE 1

-----------------------------------------------------------------------------
(* Back jumps, seen in the tree *)

(* Where control may go at a list of statements, tests coming out either   *)
(* way: on to what follows it, or out of the loop around it.               *)
RECURSIVE Ways(_)
Ways(list) ==
    IF list = <<>> THEN {"on"}
    ELSE LET node  == Head(list)
             of(i) == Ways(node.kids[i])
             ways  == CASE node.type = "BREAK" -> {"break"}
                        [] node.type \in {"CONTINUE", "RETURN"} -> {}
                        [] node.type = "IF" -> of(2) \cup of(3)
                        [] node.type = "LOOP" /\ node.op = "FOREVER" ->
                             IF "break" \in of(2) THEN {"on"} ELSE {}
                        [] node.type = "LOOP" /\ node.op \in {"DOWHILE", "DOUNTIL"} ->
                             IF of(2) # {} THEN {"on"} ELSE {}
                        [] OTHER -> {"on"}
         IN  IF "on" \in ways THEN (ways \ {"on"}) \cup Ways(Tail(list)) ELSE ways

(***************************************************************************)
(* The test of a do loop jumps back to the start of the outermost loop     *)
(* around it.  Each foreach between the two has its iterator on the stack  *)
(* at the test, and had not at that start.  depth: the foreachs around the *)
(* list; home: those at the start of the outermost loop, or Unreached when *)
(* there is no loop.                                                       *)
(***************************************************************************)
RECURSIVE Strays(_, _, _)
Strays(list, depth, home) ==
    LET start(d) == IF home = Unreached THEN d ELSE home
    IN  \E k \in DOMAIN list :
           /\ "on" \in Ways(SubSeq(list, 1, k - 1))
           /\ LET node == list[k]
                  body(i, d) == Strays(node.kids[i], d, start(d))
              IN  CASE node.type = "IF" -> \E i \in 2 .. 3 : Strays(node.kids[i], depth, home)
                    [] node.type = "FOREACH" -> body(2, depth + 1)
                    [] node.type = "FOR" -> body(4, depth)
                    [] node.type = "LOOP" ->
                         \/ body(2, depth)
                         \/ /\ node.op \in {"DOWHILE", "DOUNTIL"} /\ "on" \in Ways(node.kids[2])
                            /\ depth # start(depth)
                    [] OTHER -> FALSE
=============================================================================
