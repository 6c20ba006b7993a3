-------------------------------- MODULE List --------------------------------
(***************************************************************************)
(* What an Array is to a script: a list of values, with no allocation.     *)
(* reply is the last operation that was asked for and what it gave.        *)
(***************************************************************************)
EXTENDS Integers, Sequences

CONSTANTS
    Value, Nil, One,        \* values, nil and the number 1 among them
    End,                    \* not a value: an iterator has no more
    Index,                  \* integers used as indexes
    Equals                  \* the pairs for which Value::Equal holds

VARIABLES items, reply

Reply(op, index, value, gives) ==
    [op |-> op, index |-> index, value |-> value, gives |-> gives]

Distance(i, j) == IF i < j THEN j - i ELSE i - j

(* An index counts from 0, a negative one from the end; outside of the     *)
(* list it means the element that is nearest.                              *)
Meant(i, n)   == IF i < 0 THEN i + n ELSE i
Nearest(i, n) == CHOOSE p \in 0 .. n - 1 :
                   \A q \in 0 .. n - 1 : Distance(Meant(i, n), p) <= Distance(Meant(i, n), q)
Element(i)    == Nearest(i, Len(items)) + 1

Init == items \in Seq(Value) /\ reply = Reply("none", 0, Nil, Nil)

Add(v) == /\ items' = Append(items, v)
          /\ reply' = Reply("append", 0, v, v)

(* There may be no memory for one more.                                    *)
AddFails(v) == /\ reply' = Reply("append", 0, v, Nil)
               /\ UNCHANGED items

(* The first element equal to v goes.                                      *)
IsFirst(k, v) == /\ <<v, items[k]>> \in Equals
                 /\ \A j \in 1 .. k - 1 : <<v, items[j]>> \notin Equals
Remove(v) == \E k \in 1 .. Len(items) :
                /\ IsFirst(k, v)
                /\ items' = SubSeq(items, 1, k - 1) \o SubSeq(items, k + 1, Len(items))
                /\ reply' = Reply("remove", 0, v, One)
RemoveNone(v) == /\ \A k \in 1 .. Len(items) : <<v, items[k]>> \notin Equals
                 /\ reply' = Reply("remove", 0, v, Nil)
                 /\ UNCHANGED items

Get(i) == /\ reply' = Reply("get", i, Nil, IF items = <<>> THEN Nil ELSE items[Element(i)])
          /\ UNCHANGED items

Set(i, v) == IF items = <<>>
             THEN reply' = Reply("set", i, v, Nil) /\ UNCHANGED items
             ELSE /\ items' = [items EXCEPT ![Element(i)] = v]
                  /\ reply' = Reply("set", i, v, v)

(* An iterator gives an element of the list as it is now, or no more; the  *)
(* method next never gives a nil that is an element.                       *)
Iterate == /\ \/ \E k \in 1 .. Len(items) : reply' = Reply("iterate", 0, Nil, items[k])
              \/ reply' = Reply("iterate", 0, Nil, End)
           /\ UNCHANGED items
NextOf  == /\ \/ \E k \in 1 .. Len(items) : /\ items[k] # Nil
                                            /\ reply' = Reply("next", 0, Nil, items[k])
              \/ reply' = Reply("next", 0, Nil, Nil)
           /\ UNCHANGED items

Next == \/ \E v \in Value : Add(v) \/ AddFails(v) \/ Remove(v) \/ RemoveNone(v)
        \/ \E i \in Index : Get(i) \/ \E v \in Value : Set(i, v)
        \/ Iterate \/ NextOf

Spec == Init /\ [][Next]_<<items, reply>>
=============================================================================
