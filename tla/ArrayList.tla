----------------------------- MODULE ArrayList ------------------------------
(***************************************************************************)
(* One Array with its iterators: `count' values in an allocation of        *)
(* Len(list) cells, which append makes longer by array_chunk cells when it *)
(* is full.  The host may set array_chunk at any time.  An iterator is a   *)
(* position, and the array may change under it.                            *)
(*                                                                         *)
(* A cell has, besides its value, the number of the append that made it    *)
(* (history): that is what tells two equal elements apart.  Cells past     *)
(* count hold anything.                                                    *)
(***************************************************************************)
EXTENDS Integers, Sequences, FiniteSets

CONSTANTS
    Value, Nil, One,        \* values, nil and the number 1 among them
    End,                    \* not a value: ITER found no more
    Index,                  \* integers used as indexes
    Equals,                 \* the pairs for which Value::Equal holds
    Chunks,                 \* what array_chunk may be set to
    MaxAppends, MaxIters    \* bounds: elements ever made, iterators

ASSUME ArrayAssumption ==
    /\ Nil \in Value /\ One \in Value /\ End \notin Value
    /\ Index \subseteq Int /\ Chunks \subseteq Nat
    /\ MaxAppends \in Nat

VARIABLES
    list, count, array_chunk,
    iters,                  \* iterators: index, and history
    reply,                  \* the last operation asked for and what it gave
    appends,                \* history: elements made so far
    overrun                 \* a value was written past the allocation

avars == <<list, count, array_chunk, iters, reply, appends, overrun>>

Size == Len(list)
Cell == [mark : Nat, value : Value]
Filled(n, cell) == [i \in 1 .. n |-> cell]

Reply(op, index, value, gives) ==
    [op |-> op, index |-> index, value |-> value, gives |-> gives]

(* Mutant: it grows when it is too late.                                   *)
IsFullLate == count > Size

IsFull == count = Size

(* The allocation after GC_REALLOC: what is added holds anything.          *)
Grown(chunk, fill) == list \o Filled(chunk, fill)

(* list[count ++] = value; past the allocation, what follows is undefined.  *)
Written(cells, v) ==
    IF count + 1 > Len(cells)
    THEN overrun' = TRUE /\ UNCHANGED <<list, count, appends, reply>>
    ELSE /\ list' = [cells EXCEPT ![count + 1] = [mark |-> appends + 1, value |-> v]]
         /\ count' = count + 1 /\ appends' = appends + 1
         /\ reply' = Reply("append", 0, v, v)
         /\ UNCHANGED overrun

(* GC_REALLOC may find no memory: then nil is returned.                    *)
MethodAppend(v) ==
    /\ ~overrun /\ appends < MaxAppends
    /\ \/ ~IsFull /\ Written(list, v)
       \/ /\ IsFull
          /\ \E rest \in Value :
                Written(Grown(array_chunk, [mark |-> 0, value |-> rest]), v)
       \/ /\ IsFull
          /\ reply' = Reply("append", 0, v, Nil)
          /\ UNCHANGED <<list, count, appends, overrun>>
    /\ UNCHANGED <<array_chunk, iters>>

IsFirst(k, v) == /\ <<v, list[k].value>> \in Equals
                 /\ \A j \in 1 .. k - 1 : <<v, list[j].value>> \notin Equals

(* Mutant: the last element is put into the hole.                          *)
MovedLast(k) == [list EXCEPT ![k] = list[count]]

(* memmove of the cells behind the k-th; the last one is now there twice.  *)
Moved(k) == [p \in 1 .. Size |-> IF p \in k .. count - 1 THEN list[p + 1] ELSE list[p]]

MethodRemove(v) ==
    /\ ~overrun
    /\ \/ \E k \in 1 .. count :
             /\ IsFirst(k, v)
             /\ list' = Moved(k) /\ count' = count - 1
             /\ iters' = [i \in DOMAIN iters |->
                            IF k <= iters[i].index
                            THEN [iters[i] EXCEPT !.removed = @ + 1] ELSE iters[i]]
             /\ reply' = Reply("remove", 0, v, One)
       \/ /\ \A k \in 1 .. count : <<v, list[k].value>> \notin Equals
          /\ reply' = Reply("remove", 0, v, Nil)
          /\ UNCHANGED <<list, count, iters>>
    /\ UNCHANGED <<array_chunk, appends, overrun>>

(* Wrapped and clamped, from 0.                                            *)
At(i) ==
    LET w == IF i < 0 THEN IF i + count < 0 THEN 0 ELSE i + count ELSE i
    IN  IF w >= count THEN count - 1 ELSE w

GetIndex(i) ==
    /\ ~overrun
    /\ reply' = Reply("get", i, Nil, IF count = 0 THEN Nil ELSE list[At(i) + 1].value)
    /\ UNCHANGED <<list, count, array_chunk, iters, appends, overrun>>

SetIndex(i, v) ==
    /\ ~overrun
    /\ IF count = 0 THEN reply' = Reply("set", i, v, Nil) /\ UNCHANGED list
       ELSE /\ list' = [list EXCEPT ![At(i) + 1].value = v]
            /\ reply' = Reply("set", i, v, v)
    /\ UNCHANGED <<count, array_chunk, iters, appends, overrun>>

MethodIter ==
    /\ ~overrun /\ Len(iters) < MaxIters
    /\ iters' = Append(iters, [index |-> 0, seen |-> 0, passed |-> {}, removed |-> 0])
    /\ UNCHANGED <<list, count, array_chunk, reply, appends, overrun>>

Passed(k, to) == iters[k].passed \cup {list[p].mark : p \in iters[k].index + 1 .. to}

(* Mutant: one further than the cell it gives.                             *)
GoesToNext(k, to) ==
    iters' = [iters EXCEPT ![k] = [index |-> to + 1, seen |-> list[to].mark,
                                   passed |-> Passed(k, to), removed |-> iters[k].removed]]

(* Iterator k goes to position to; the cells it goes past, the last of     *)
(* them the one it gives.                                                  *)
GoesTo(k, to) ==
    iters' = [iters EXCEPT ![k] = [index |-> to, seen |-> list[to].mark,
                                   passed |-> Passed(k, to), removed |-> iters[k].removed]]

(* Mutant: compared with the allocation, not with the count.               *)
IsSpentLate(k) == iters[k].index >= Size

IsSpent(k) == iters[k].index >= count

(* ArrayIterator::Next, as ITER uses it.                                   *)
IterNext(k) ==
    /\ ~overrun
    /\ IF IsSpent(k) THEN reply' = Reply("iterate", 0, Nil, End) /\ UNCHANGED iters
       ELSE /\ GoesTo(k, iters[k].index + 1)
            /\ reply' = Reply("iterate", 0, Nil, list[iters[k].index + 1].value)
    /\ UNCHANGED <<list, count, array_chunk, appends, overrun>>

(* The method next: it goes on until there is a value other than nil.      *)
MethodNext(k) ==
    /\ ~overrun
    /\ \/ \E to \in iters[k].index + 1 .. count :
             /\ list[to].value # Nil
             /\ \A p \in iters[k].index + 1 .. to - 1 : list[p].value = Nil
             /\ GoesTo(k, to)
             /\ reply' = Reply("next", 0, Nil, list[to].value)
       \/ /\ \A p \in iters[k].index + 1 .. count : list[p].value = Nil
          /\ IF IsSpent(k) THEN UNCHANGED iters ELSE GoesTo(k, count)
          /\ reply' = Reply("next", 0, Nil, Nil)
    /\ UNCHANGED <<list, count, array_chunk, appends, overrun>>

(* Mutant: added to what it was.                                           *)
SetArrayChunkMore ==
    /\ \E c \in Chunks : array_chunk' = array_chunk + c
    /\ UNCHANGED <<list, count, iters, reply, appends, overrun>>

SetArrayChunk ==
    /\ array_chunk' \in Chunks
    /\ UNCHANGED <<list, count, iters, reply, appends, overrun>>

(* new Array, new Array(n, values), or new Array(n, NULL) for the extra    *)
(* arguments of a call, which are then appended.                           *)
ArrayInit ==
    /\ array_chunk \in Chunks
    /\ \E n \in 0 .. MaxAppends :
          \/ /\ \E values \in [1 .. n -> Value] :
                   list = [i \in 1 .. n |-> [mark |-> i, value |-> values[i]]]
             /\ count = n
          \/ /\ \E rest \in Value : list = Filled(n, [mark |-> 0, value |-> rest])
             /\ count = 0
    /\ appends = count
    /\ iters = <<>> /\ reply = Reply("none", 0, Nil, Nil) /\ overrun = FALSE

ArrayNext ==
    \/ \E v \in Value : MethodAppend(v) \/ MethodRemove(v)
    \/ \E i \in Index : GetIndex(i) \/ \E v \in Value : SetIndex(i, v)
    \/ MethodIter
    \/ \E k \in DOMAIN iters : IterNext(k) \/ MethodNext(k)
    \/ SetArrayChunk

ArraySpec == ArrayInit /\ [][ArrayNext]_avars
-----------------------------------------------------------------------------
(* Properties *)

IteratorType == [index : Nat, seen : Nat, passed : SUBSET Nat, removed : Nat]

Operation == {"none", "append", "remove", "get", "set", "iterate", "next"}
ReplyType == [op : Operation, index : Int, value : Value, gives : Value \cup {End}]

(* Every variable has its type.                                            *)
ArrayTypeOK ==
    /\ list \in Seq(Cell)
    /\ count \in Nat
    /\ array_chunk \in Chunks
    /\ iters \in Seq(IteratorType)
    /\ reply \in ReplyType
    /\ appends \in Nat
    /\ overrun \in BOOLEAN

(***************************************************************************)
(* Nothing is written past the allocation unless array_chunk was set to 0  *)
(* (array.cpp:182), whatever is appended and removed and however the       *)
(* option changes in between.                                              *)
(***************************************************************************)
OverrunByZero == [][overrun' # overrun => array_chunk = 0]_avars

(***************************************************************************)
(* An iterator gives elements in the order of the list and none twice, not *)
(* even when the list is shortened or extended while it is under way.      *)
(***************************************************************************)
OnlyForward ==
    [][\A k \in DOMAIN iters :
          iters'[k].index # iters[k].index => iters'[k].seen > iters[k].seen]_avars

(***************************************************************************)
(* It misses no more elements than were removed from those it had gone    *)
(* past, so none if nothing was removed there.                             *)
(***************************************************************************)
NoneMissed ==
    \A k \in DOMAIN iters :
       Cardinality({p \in 1 .. iters[k].index :
                      p <= count /\ list[p].mark \notin iters[k].passed}) <= iters[k].removed

(***************************************************************************)
(* What scripts see of it is a list: no stale or unwritten cell is read,   *)
(* every index finds the nearest element, remove takes the first that is   *)
(* equal, and an iterator gives what is in the list at that time.          *)
(***************************************************************************)
L == INSTANCE List WITH items <- [p \in 1 .. count |-> list[p].value]
IsList == L!Spec
=============================================================================
