---------------------------- MODULE ArrayProofs -----------------------------
(***************************************************************************)
(* ArrayList, for any values, chunks, indexes and number of elements.      *)
(***************************************************************************)
EXTENDS ArrayList, SeqFacts, FiniteSetTheorems, TLAPS

(* The values fit; the marks grow along the list and are those of appends. *)
Ordered == /\ count <= Size
           /\ \A p \in 1 .. count : list[p].mark \in 1 .. appends
           /\ \A p, q \in 1 .. count : p < q => list[p].mark < list[q].mark

(* What is ahead of an iterator is younger than all it has given.          *)
Ahead == \A k \in DOMAIN iters :
            \A p \in iters[k].index + 1 .. count : iters[k].seen < list[p].mark

Inv == ArrayTypeOK /\ Ordered /\ Ahead /\ \A k \in DOMAIN iters : iters[k].seen <= appends

(* The numbers the invariant speaks of are numbers.                        *)
LEMMA Numbers ==
    ASSUME Inv
    PROVE  /\ list \in Seq(Cell) /\ Size \in Nat /\ count \in 0 .. Size
           /\ appends \in Nat
           /\ iters \in Seq(IteratorType)
           /\ \A k \in DOMAIN iters : iters[k].index \in Nat /\ iters[k].seen \in Nat
           /\ \A p \in 1 .. Size : list[p] \in Cell
<1>1. /\ list \in Seq(Cell) /\ count \in Nat /\ count <= Size /\ appends \in Nat
      /\ iters \in Seq(IteratorType)
  BY DEF Inv, ArrayTypeOK, Ordered
<1>2. Size \in Nat /\ \A p \in 1 .. Size : list[p] \in Cell
  BY <1>1 DEF Size
<1>3. \A k \in DOMAIN iters : iters[k] \in IteratorType
  BY <1>1
<1>4. \A k \in DOMAIN iters : iters[k].index \in Nat /\ iters[k].seen \in Nat
  BY <1>3 DEF IteratorType
<1> QED BY <1>1, <1>2, <1>4

LEMMA ReplyTyped ==
    ASSUME NEW op \in Operation, NEW i \in Int, NEW v \in Value, NEW g \in Value \cup {End}
    PROVE  Reply(op, i, v, g) \in ReplyType
  BY DEF Reply, ReplyType

LEMMA InitInv == ArrayInit => Inv
<1> SUFFICES ASSUME ArrayInit PROVE Inv
  OBVIOUS
<1>1. PICK n \in 0 .. MaxAppends :
         \/ /\ \E values \in [1 .. n -> Value] :
                  list = [i \in 1 .. n |-> [mark |-> i, value |-> values[i]]]
            /\ count = n
         \/ /\ \E rest \in Value : list = Filled(n, [mark |-> 0, value |-> rest])
            /\ count = 0
  BY DEF ArrayInit
<1>2. n \in Nat
  BY ArrayAssumption
<1>3. iters = <<>> /\ iters \in Seq(IteratorType) /\ appends = count /\ overrun = FALSE
      /\ array_chunk \in Chunks
  BY DEF ArrayInit
<1>4. reply \in ReplyType
  <2>1. Reply("none", 0, Nil, Nil) \in ReplyType
    BY ArrayAssumption, ReplyTyped DEF Operation
  <2> QED BY <2>1 DEF ArrayInit
<1>5. CASE count = n /\ \E values \in [1 .. n -> Value] :
              list = [i \in 1 .. n |-> [mark |-> i, value |-> values[i]]]
  <2>1. PICK values \in [1 .. n -> Value] :
           list = [i \in 1 .. n |-> [mark |-> i, value |-> values[i]]]
    BY <1>5
  <2>2. list \in [1 .. n -> Cell]
    BY <2>1, <1>2 DEF Cell
  <2>3. list \in Seq(Cell) /\ Size = n
    BY <2>2, <1>2, MakeSeq DEF Size
  <2>4. \A p \in 1 .. n : list[p].mark = p
    BY <2>1
  <2>5. ArrayTypeOK
    BY <1>2, <1>3, <1>4, <1>5, <2>3 DEF ArrayTypeOK
  <2>6. Ordered
    BY <1>2, <1>3, <1>5, <2>3, <2>4 DEF Ordered
  <2> QED BY <1>3, <2>5, <2>6 DEF Inv, Ahead
<1>6. CASE count = 0 /\ \E rest \in Value : list = Filled(n, [mark |-> 0, value |-> rest])
  <2>1. list \in [1 .. n -> Cell]
    BY <1>6 DEF Filled, Cell
  <2>2. list \in Seq(Cell) /\ Size = n
    BY <2>1, <1>2, MakeSeq DEF Size
  <2>3. ArrayTypeOK
    BY <1>2, <1>3, <1>4, <1>6, <2>2 DEF ArrayTypeOK
  <2>4. Ordered
    BY <1>2, <1>3, <1>6, <2>2 DEF Ordered
  <2> QED BY <1>3, <2>3, <2>4 DEF Inv, Ahead
<1> QED BY <1>1, <1>5, <1>6

(***************************************************************************)
(* A write behind the last value, in the allocation as it is or grown.     *)
(***************************************************************************)
LEMMA WrittenInv ==
    ASSUME Inv, NEW v \in Value, NEW cells \in Seq(Cell), Written(cells, v),
           Len(cells) >= Size, \A p \in 1 .. Size : cells[p] = list[p],
           UNCHANGED <<array_chunk, iters>>
    PROVE  Inv'
<1>0. /\ list \in Seq(Cell) /\ Size \in Nat /\ count \in 0 .. Size /\ appends \in Nat
      /\ iters \in Seq(IteratorType) /\ Len(cells) \in Nat
      /\ \A k \in DOMAIN iters : iters[k].index \in Nat /\ iters[k].seen \in Nat
      /\ \A p \in 1 .. Size : list[p] \in Cell
  BY Numbers
<1>1. CASE count + 1 > Len(cells)
  <2>1. UNCHANGED <<list, count, appends, reply, iters, array_chunk>> /\ overrun' = TRUE
    BY <1>1 DEF Written
  <2>2. Size' = Size
    BY <2>1 DEF Size
  <2>3. ArrayTypeOK'
    BY <2>1 DEF Inv, ArrayTypeOK
  <2>4. Ordered'
    BY <2>1, <2>2 DEF Inv, Ordered
  <2> QED BY <2>1, <2>3, <2>4 DEF Inv, Ahead
<1>2. CASE count + 1 <= Len(cells)
  <2> DEFINE cell == [mark |-> appends + 1, value |-> v]
  <2>1. /\ list' = [cells EXCEPT ![count + 1] = cell]
        /\ count' = count + 1 /\ appends' = appends + 1
        /\ reply' = Reply("append", 0, v, v)
        /\ UNCHANGED <<overrun, array_chunk, iters>>
    BY <1>0, <1>2 DEF Written
  <2>2. cell \in Cell
    BY <1>0 DEF Cell
  <2>3. count + 1 \in 1 .. Len(cells)
    BY <1>0, <1>2
  <2>4. /\ list' \in Seq(Cell) /\ Size' = Len(cells)
        /\ list'[count + 1] = cell
        /\ \A p \in 1 .. Len(cells) : p # count + 1 => list'[p] = cells[p]
    <3> HIDE DEF cell
    <3> QED BY <2>1, <2>2, <2>3, UpdateSeq DEF Size
  <2>5. \A p \in 1 .. count : list'[p] = list[p]
    BY <1>0, <2>4
  <2>6. reply' \in ReplyType
    BY <2>1, ReplyTyped DEF Operation
  <2>7. ArrayTypeOK'
    BY <1>0, <2>1, <2>4, <2>6 DEF ArrayTypeOK, Inv
  <2>8. \A p \in 1 .. count : list[p].mark \in 1 .. appends
    BY DEF Inv, Ordered
  <2>9. Ordered'
    <3>1. count' <= Size'
      BY <1>0, <1>2, <2>1, <2>4
    <3>2. \A p \in 1 .. count' : list'[p].mark \in 1 .. appends'
      BY <1>0, <2>1, <2>4, <2>5, <2>8
    <3>3. ASSUME NEW p \in 1 .. count', NEW q \in 1 .. count', p < q
          PROVE  list'[p].mark < list'[q].mark
      <4>1. p \in 1 .. count /\ list'[p] = list[p] /\ list[p].mark \in 1 .. appends
        BY <1>0, <2>1, <2>5, <2>8, <3>3
      <4>2. CASE q = count + 1
        BY <1>0, <2>4, <4>1, <4>2
      <4>3. CASE q # count + 1
        <5>1. q \in 1 .. count
          BY <1>0, <2>1, <4>3
        <5> QED BY <2>5, <3>3, <4>1, <5>1 DEF Inv, Ordered
      <4> QED BY <4>2, <4>3
    <3> QED BY <3>1, <3>2, <3>3 DEF Ordered
  <2>10. Ahead'
    <3> SUFFICES ASSUME NEW k \in DOMAIN iters, NEW p \in iters[k].index + 1 .. count + 1
                 PROVE  iters[k].seen < list'[p].mark
      BY <2>1 DEF Ahead
    <3>1. CASE p = count + 1
      BY <1>0, <2>4, <3>1 DEF Inv
    <3>2. CASE p # count + 1
      BY <1>0, <2>5, <3>2 DEF Inv, Ahead
    <3> QED BY <3>1, <3>2
  <2>11. \A k \in DOMAIN iters' : iters'[k].seen <= appends'
    BY <1>0, <2>1 DEF Inv
  <2> QED BY <2>7, <2>9, <2>10, <2>11 DEF Inv
<1> QED BY <1>0, <1>1, <1>2

(* The allocation after GC_REALLOC begins with the one before.             *)
LEMMA GrownSeq ==
    ASSUME Inv, NEW rest \in Value
    PROVE  LET cells == Grown(array_chunk, [mark |-> 0, value |-> rest])
           IN  /\ cells \in Seq(Cell)
               /\ Len(cells) = Size + array_chunk
               /\ \A p \in 1 .. Size : cells[p] = list[p]
<1> DEFINE fill  == Filled(array_chunk, [mark |-> 0, value |-> rest])
<1>1. array_chunk \in Nat
  BY ArrayAssumption DEF Inv, ArrayTypeOK
<1>2. fill \in [1 .. array_chunk -> Cell]
  BY DEF Filled, Cell
<1>3. fill \in Seq(Cell) /\ Len(fill) = array_chunk
  <2> HIDE DEF fill
  <2> QED BY <1>1, <1>2, MakeSeq
<1>4. list \in Seq(Cell)
  BY DEF Inv, ArrayTypeOK
<1>5. /\ list \o fill \in Seq(Cell) /\ Len(list \o fill) = Len(list) + array_chunk
      /\ \A p \in 1 .. Len(list) : (list \o fill)[p] = list[p]
  <2> HIDE DEF fill
  <2> QED BY <1>3, <1>4
<1> QED BY <1>5 DEF Grown, Size

(* A clamped index is that of a value.                                     *)
LEMMA AtInside ==
    ASSUME Inv, NEW i \in Index, count # 0
    PROVE  At(i) + 1 \in 1 .. count
<1>1. i \in Int /\ count \in Nat
  BY ArrayAssumption, Numbers
<1> QED BY <1>1 DEF At

(* Replacing the value of a cell keeps its mark.                           *)
LEMMA SetInv ==
    ASSUME Inv, NEW v \in Value, NEW j \in 1 .. count,
           list' = [list EXCEPT ![j].value = v], reply' \in ReplyType,
           UNCHANGED <<count, array_chunk, iters, appends, overrun>>
    PROVE  Inv'
<1>0. /\ list \in Seq(Cell) /\ Size \in Nat /\ count \in 0 .. Size /\ j \in 1 .. Size
      /\ \A p \in 1 .. Size : list[p] \in Cell
  BY Numbers
<1> DEFINE cell == [list[j] EXCEPT !.value = v]
<1>1. cell \in Cell /\ cell.mark = list[j].mark
  BY <1>0 DEF Cell
<1>2. list' = [list EXCEPT ![j] = cell]
  OBVIOUS
<1>3. /\ list' \in Seq(Cell) /\ Size' = Size /\ list'[j] = cell
      /\ \A p \in 1 .. Size : p # j => list'[p] = list[p]
  <2> HIDE DEF cell
  <2> QED BY <1>0, <1>1, <1>2, UpdateSeq DEF Size
<1>4. \A p \in 1 .. Size : list'[p].mark = list[p].mark
  <2> HIDE DEF cell
  <2> QED BY <1>1, <1>3
<1>5. ArrayTypeOK'
  BY <1>3 DEF Inv, ArrayTypeOK
<1>6. Ordered'
  BY <1>0, <1>3, <1>4 DEF Inv, Ordered
<1>7. Ahead'
  <2> SUFFICES ASSUME NEW k \in DOMAIN iters, NEW p \in iters[k].index + 1 .. count
               PROVE  iters[k].seen < list'[p].mark
    BY DEF Ahead
  <2>1. p \in 1 .. Size /\ iters[k].seen < list[p].mark
    BY <1>0, Numbers DEF Inv, Ahead
  <2> QED BY <1>4, <2>1
<1> QED BY <1>5, <1>6, <1>7 DEF Inv

(* Closing the gap of a removed element keeps the order of the others, and *)
(* what is ahead of an iterator was ahead of it before.                    *)
LEMMA RemoveInv ==
    ASSUME Inv, NEW j \in 1 .. count,
           list' = Moved(j), count' = count - 1, reply' \in ReplyType,
           iters' = [i \in DOMAIN iters |->
                       IF j <= iters[i].index
                       THEN [iters[i] EXCEPT !.removed = @ + 1] ELSE iters[i]],
           UNCHANGED <<array_chunk, appends, overrun>>
    PROVE  Inv'
<1>0. /\ list \in Seq(Cell) /\ Size \in Nat /\ count \in 0 .. Size
      /\ \A p \in 1 .. Size : list[p] \in Cell
      /\ iters \in Seq(IteratorType)
      /\ \A k \in DOMAIN iters : iters[k].index \in Nat /\ iters[k].seen \in Nat
  BY Numbers
<1>1. list' \in Seq(Cell) /\ Size' = Size
  <2>1. list' \in [1 .. Size -> Cell]
    <3> SUFFICES ASSUME NEW p \in 1 .. Size
                 PROVE  (IF p \in j .. count - 1 THEN list[p + 1] ELSE list[p]) \in Cell
      BY DEF Moved
    <3>1. p \in j .. count - 1 => p + 1 \in 1 .. Size
      BY <1>0
    <3> QED BY <1>0, <3>1
  <2> QED BY <1>0, <2>1, MakeSeq DEF Size
<1>2. \A p \in 1 .. count - 1 : list'[p] = list[IF p < j THEN p ELSE p + 1]
  BY <1>0 DEF Moved
<1>3. /\ iters' \in Seq(IteratorType) /\ DOMAIN iters' = DOMAIN iters
      /\ \A k \in DOMAIN iters : /\ iters'[k].index = iters[k].index
                                 /\ iters'[k].seen = iters[k].seen
  <2>1. DOMAIN iters = 1 .. Len(iters) /\ Len(iters) \in Nat
    BY <1>0
  <2>2. ASSUME NEW k \in DOMAIN iters
        PROVE  /\ iters'[k] \in IteratorType
               /\ iters'[k].index = iters[k].index /\ iters'[k].seen = iters[k].seen
    <3>1. iters[k] \in IteratorType
      BY <1>0
    <3>2. iters'[k] = IF j <= iters[k].index
                      THEN [iters[k] EXCEPT !.removed = @ + 1] ELSE iters[k]
      OBVIOUS
    <3> QED BY <3>1, <3>2 DEF IteratorType
  <2>3. DOMAIN iters' = DOMAIN iters /\ iters' \in [1 .. Len(iters) -> IteratorType]
    BY <2>1, <2>2
  <2> QED BY <2>1, <2>2, <2>3, MakeSeq
<1>4. ArrayTypeOK'
  BY <1>0, <1>1, <1>3 DEF Inv, ArrayTypeOK
<1>5. Ordered'
  <2>1. \A p \in 1 .. count - 1 : list'[p].mark \in 1 .. appends
    BY <1>0, <1>2 DEF Inv, Ordered
  <2>2. ASSUME NEW p \in 1 .. count - 1, NEW q \in 1 .. count - 1, p < q
        PROVE  list'[p].mark < list'[q].mark
    <3> DEFINE pp == IF p < j THEN p ELSE p + 1
               qq == IF q < j THEN q ELSE q + 1
    <3>1. pp \in 1 .. count /\ qq \in 1 .. count /\ pp < qq
      BY <1>0, <2>2
    <3>2. list'[p] = list[pp] /\ list'[q] = list[qq]
      BY <1>2
    <3> HIDE DEF pp, qq
    <3> QED BY <3>1, <3>2 DEF Inv, Ordered
  <2> QED BY <1>0, <1>1, <2>1, <2>2 DEF Ordered
<1>6. Ahead'
  <2> SUFFICES ASSUME NEW k \in DOMAIN iters, NEW p \in iters[k].index + 1 .. count - 1
               PROVE  iters[k].seen < list'[p].mark
    BY <1>3 DEF Ahead
  <2> DEFINE pp == IF p < j THEN p ELSE p + 1
  <2>1. pp \in iters[k].index + 1 .. count /\ p \in 1 .. count - 1
    BY <1>0
  <2>2. list'[p] = list[pp]
    BY <1>2, <2>1
  <2> HIDE DEF pp
  <2> QED BY <2>1, <2>2 DEF Inv, Ahead
<1> QED BY <1>3, <1>4, <1>5, <1>6 DEF Inv

(* An iterator that goes on sees a younger element.                        *)
LEMMA GoesToInv ==
    ASSUME Inv, NEW k \in DOMAIN iters, NEW to \in iters[k].index + 1 .. count,
           GoesTo(k, to), reply' \in ReplyType,
           UNCHANGED <<list, count, array_chunk, appends, overrun>>
    PROVE  /\ Inv'
           /\ iters'[k].seen > iters[k].seen
           /\ \A i \in DOMAIN iters : i # k => iters'[i] = iters[i]
<1>0. /\ list \in Seq(Cell) /\ Size \in Nat /\ count \in 0 .. Size /\ appends \in Nat
      /\ \A p \in 1 .. Size : list[p] \in Cell
      /\ iters \in Seq(IteratorType)
      /\ \A i \in DOMAIN iters : iters[i].index \in Nat /\ iters[i].seen \in Nat
  BY Numbers
<1>1. to \in 1 .. count /\ to \in 1 .. Size
  BY <1>0
<1>2. list[to].mark \in Nat /\ list[to].mark <= appends /\ iters[k].seen < list[to].mark
  BY <1>0, <1>1 DEF Inv, Ordered, Ahead
<1> DEFINE it == [index |-> to, seen |-> list[to].mark,
                  passed |-> Passed(k, to), removed |-> iters[k].removed]
<1>3. Passed(k, to) \subseteq Nat
  <2>1. iters[k] \in IteratorType
    BY <1>0
  <2>2. ASSUME NEW p \in iters[k].index + 1 .. to PROVE list[p].mark \in Nat
    <3>1. p \in 1 .. Size
      BY <1>0, <1>1
    <3> QED BY <1>0, <3>1 DEF Cell
  <2> QED BY <2>1, <2>2 DEF Passed, IteratorType
<1>4. it \in IteratorType /\ it.index = to /\ it.seen = list[to].mark
  <2>1. iters[k] \in IteratorType
    BY <1>0
  <2> QED BY <1>1, <1>2, <1>3, <2>1 DEF IteratorType
<1>5. iters' = [iters EXCEPT ![k] = it]
  BY DEF GoesTo
<1>6. /\ iters' \in Seq(IteratorType) /\ DOMAIN iters' = DOMAIN iters
      /\ iters'[k] = it
      /\ \A i \in DOMAIN iters : i # k => iters'[i] = iters[i]
  <2> HIDE DEF it
  <2>1. k \in 1 .. Len(iters) /\ DOMAIN iters = 1 .. Len(iters)
    BY <1>0
  <2> QED BY <1>0, <1>4, <1>5, <2>1, UpdateSeq
<1> HIDE DEF it
<1>7. ArrayTypeOK'
  BY <1>6 DEF Inv, ArrayTypeOK
<1>8. Ordered'
  BY DEF Inv, Ordered, Size
<1>9. Ahead'
  <2> SUFFICES ASSUME NEW i \in DOMAIN iters, NEW p \in iters'[i].index + 1 .. count
               PROVE  iters'[i].seen < list[p].mark
    BY <1>6 DEF Ahead
  <2>1. CASE i = k
    <3>1. p \in 1 .. count /\ to < p
      BY <1>1, <1>4, <1>6, <2>1
    <3> QED BY <1>1, <1>4, <1>6, <2>1, <3>1 DEF Inv, Ordered
  <2>2. CASE i # k
    BY <1>6, <2>2 DEF Inv, Ahead
  <2> QED BY <2>1, <2>2
<1>10. \A i \in DOMAIN iters' : iters'[i].seen <= appends'
  BY <1>2, <1>4, <1>6 DEF Inv
<1> QED BY <1>2, <1>4, <1>6, <1>7, <1>8, <1>9, <1>10 DEF Inv

(* What leaves the cells and iterators alone.                              *)
LEMMA SameInv ==
    ASSUME Inv, reply' \in ReplyType, array_chunk' \in Chunks,
           UNCHANGED <<list, count, iters, appends, overrun>>
    PROVE  Inv'
<1>1. ArrayTypeOK'
  BY DEF Inv, ArrayTypeOK
<1>2. Ordered'
  BY DEF Inv, Ordered, Size
<1> QED BY <1>1, <1>2 DEF Inv, Ahead

(* A new iterator has everything ahead of it.                              *)
LEMMA IterInv ==
    ASSUME Inv, MethodIter PROVE Inv'
<1> DEFINE new == [index |-> 0, seen |-> 0, passed |-> {}, removed |-> 0]
<1>1. new \in IteratorType
  BY DEF IteratorType
<1>2. iters \in Seq(IteratorType) /\ appends \in Nat /\ count \in Nat
  BY Numbers
<1>3. /\ iters' \in Seq(IteratorType) /\ Len(iters') = Len(iters) + 1
      /\ \A k \in 1 .. Len(iters) : iters'[k] = iters[k]
      /\ iters'[Len(iters) + 1] = new
  <2>1. iters' = Append(iters, new)
    BY DEF MethodIter
  <2> HIDE DEF new
  <2> QED BY <1>1, <1>2, <2>1, AppendSeq
<1>4. UNCHANGED <<list, count, array_chunk, reply, appends, overrun>>
  BY DEF MethodIter
<1>5. ArrayTypeOK'
  BY <1>3, <1>4 DEF Inv, ArrayTypeOK
<1>6. Ordered'
  BY <1>4 DEF Inv, Ordered, Size
<1>7. ASSUME NEW k \in DOMAIN iters' PROVE k \in DOMAIN iters \/ iters'[k] = new
  BY <1>2, <1>3
<1>8. \A k \in DOMAIN iters : iters'[k] = iters[k]
  BY <1>2, <1>3
<1>9. Ahead'
  <2> SUFFICES ASSUME NEW k \in DOMAIN iters', NEW p \in iters'[k].index + 1 .. count
               PROVE  iters'[k].seen < list[p].mark
    BY <1>4 DEF Ahead
  <2>1. CASE k \in DOMAIN iters
    BY <1>8, <2>1 DEF Inv, Ahead
  <2>2. CASE iters'[k] = new
    <3>1. p \in 1 .. count /\ iters'[k].seen = 0
      BY <1>2, <2>2
    <3> QED BY <1>2, <3>1 DEF Inv, Ordered
  <2> QED BY <1>7, <2>1, <2>2
<1>10. ASSUME NEW k \in DOMAIN iters' PROVE iters'[k].seen <= appends'
  BY <1>2, <1>4, <1>7, <1>8 DEF Inv
<1> QED BY <1>5, <1>6, <1>9, <1>10 DEF Inv

(***************************************************************************)
(* What an append does: it writes behind the last value in cells that      *)
(* begin with the old ones and, unless the chunk is 0, have room for it,   *)
(* or it fails.                                                            *)
(***************************************************************************)
LEMMA AppendShape ==
    ASSUME Inv, NEW v \in Value, MethodAppend(v)
    PROVE  /\ UNCHANGED <<array_chunk, iters>>
           /\ \/ \E cells \in Seq(Cell) :
                    /\ Written(cells, v)
                    /\ Len(cells) >= Size
                    /\ \A p \in 1 .. Size : cells[p] = list[p]
                    /\ array_chunk # 0 => count + 1 <= Len(cells)
              \/ /\ reply' = Reply("append", 0, v, Nil)
                 /\ UNCHANGED <<list, count, appends, overrun>>
<1>0. /\ list \in Seq(Cell) /\ Size \in Nat /\ count \in 0 .. Size /\ array_chunk \in Nat
      /\ Size = Len(list)
  BY Numbers, ArrayAssumption DEF Inv, ArrayTypeOK, Size
<1>1. CASE ~IsFull /\ Written(list, v)
  BY <1>0, <1>1 DEF IsFull, MethodAppend
<1>2. ASSUME NEW rest \in Value, IsFull,
             Written(Grown(array_chunk, [mark |-> 0, value |-> rest]), v)
      PROVE  \E cells \in Seq(Cell) :
                /\ Written(cells, v)
                /\ Len(cells) >= Size
                /\ \A p \in 1 .. Size : cells[p] = list[p]
                /\ array_chunk # 0 => count + 1 <= Len(cells)
  <2> DEFINE cells == Grown(array_chunk, [mark |-> 0, value |-> rest])
  <2>1. /\ cells \in Seq(Cell) /\ Len(cells) = Size + array_chunk
        /\ \A p \in 1 .. Size : cells[p] = list[p]
    BY GrownSeq
  <2> HIDE DEF cells
  <2>2. Written(cells, v)
    BY <1>2 DEF cells
  <2> QED BY <1>0, <1>2, <2>1, <2>2 DEF IsFull
<1> QED BY <1>1, <1>2 DEF MethodAppend

LEMMA AppendInv ==
    ASSUME Inv, NEW v \in Value, MethodAppend(v) PROVE Inv'
<1>1. CASE \E cells \in Seq(Cell) : /\ Written(cells, v)
                                    /\ Len(cells) >= Size
                                    /\ \A p \in 1 .. Size : cells[p] = list[p]
  BY <1>1, AppendShape, WrittenInv
<1>2. CASE /\ reply' = Reply("append", 0, v, Nil)
           /\ UNCHANGED <<list, count, appends, overrun>>
  <2>1. reply' \in ReplyType /\ array_chunk' \in Chunks
    BY <1>2, AppendShape, ArrayAssumption, ReplyTyped DEF Operation, Inv, ArrayTypeOK
  <2> QED BY <1>2, <2>1, AppendShape, SameInv
<1> QED BY <1>1, <1>2, AppendShape

(* The values inside are values.                                           *)
LEMMA ValueTyped ==
    ASSUME Inv, NEW p \in 1 .. count PROVE list[p].value \in Value
<1>1. p \in 1 .. Size
  BY Numbers
<1> QED BY <1>1, Numbers DEF Cell

LEMMA NextInv == Inv /\ [ArrayNext]_avars => Inv'
<1> SUFFICES ASSUME Inv, [ArrayNext]_avars PROVE Inv'
  OBVIOUS
<1>0. /\ array_chunk \in Chunks /\ count \in Nat
      /\ Nil \in Value /\ One \in Value /\ Index \subseteq Int
  BY ArrayAssumption DEF Inv, ArrayTypeOK
<1>1. ASSUME NEW v \in Value, MethodAppend(v) PROVE Inv'
  BY <1>1, AppendInv
<1>2. ASSUME NEW v \in Value, MethodRemove(v) PROVE Inv'
  <2>1. Reply("remove", 0, v, One) \in ReplyType /\ Reply("remove", 0, v, Nil) \in ReplyType
    BY <1>0, ReplyTyped DEF Operation
  <2>2. CASE \E j \in 1 .. count :
               /\ list' = Moved(j) /\ count' = count - 1
               /\ iters' = [i \in DOMAIN iters |->
                              IF j <= iters[i].index
                              THEN [iters[i] EXCEPT !.removed = @ + 1] ELSE iters[i]]
               /\ reply' = Reply("remove", 0, v, One)
    BY <1>2, <2>1, <2>2, RemoveInv DEF MethodRemove
  <2>3. CASE reply' = Reply("remove", 0, v, Nil) /\ UNCHANGED <<list, count, iters>>
    BY <1>0, <1>2, <2>1, <2>3, SameInv DEF MethodRemove
  <2> QED BY <1>2, <2>2, <2>3 DEF MethodRemove
<1>3. ASSUME NEW i \in Index, GetIndex(i) PROVE Inv'
  <2>1. (IF count = 0 THEN Nil ELSE list[At(i) + 1].value) \in Value
    BY <1>0, AtInside, ValueTyped
  <2>2. reply' \in ReplyType
    BY <1>0, <1>3, <2>1, ReplyTyped DEF GetIndex, Operation
  <2> QED BY <1>0, <1>3, <2>2, SameInv DEF GetIndex
<1>4. ASSUME NEW i \in Index, NEW v \in Value, SetIndex(i, v) PROVE Inv'
  <2>1. reply' \in ReplyType
    BY <1>0, <1>4, ReplyTyped DEF SetIndex, Operation
  <2>2. CASE count = 0
    BY <1>0, <1>4, <2>1, <2>2, SameInv DEF SetIndex
  <2>3. CASE count # 0
    <3>1. At(i) + 1 \in 1 .. count
      BY <2>3, AtInside
    <3> QED BY <1>4, <2>1, <2>3, <3>1, SetInv DEF SetIndex
  <2> QED BY <2>2, <2>3
<1>5. CASE MethodIter
  BY <1>5, IterInv
<1>6. ASSUME NEW k \in DOMAIN iters, IterNext(k) PROVE Inv'
  <2>0. iters[k].index \in Nat
    BY Numbers
  <2>1. CASE IsSpent(k)
    <3>1. reply' \in ReplyType
      BY <1>0, <1>6, <2>1, ReplyTyped DEF IterNext, Operation
    <3> QED BY <1>0, <1>6, <2>1, <3>1, SameInv DEF IterNext
  <2>2. CASE ~IsSpent(k)
    <3>1. iters[k].index + 1 \in iters[k].index + 1 .. count /\ iters[k].index + 1 \in 1 .. count
      BY <1>0, <2>0, <2>2 DEF IsSpent
    <3>2. reply' \in ReplyType
      BY <1>0, <1>6, <2>2, <3>1, ValueTyped, ReplyTyped DEF IterNext, Operation
    <3> QED BY <1>6, <2>2, <3>1, <3>2, GoesToInv DEF IterNext
  <2> QED BY <2>1, <2>2
<1>7. ASSUME NEW k \in DOMAIN iters, MethodNext(k) PROVE Inv'
  <2>0. iters[k].index \in Nat
    BY Numbers
  <2>1. ASSUME NEW to \in iters[k].index + 1 .. count, GoesTo(k, to),
               reply' = Reply("next", 0, Nil, list[to].value)
        PROVE  Inv'
    <3>1. to \in 1 .. count
      BY <2>0
    <3>2. reply' \in ReplyType
      BY <1>0, <2>1, <3>1, ValueTyped, ReplyTyped DEF Operation
    <3> QED BY <1>7, <2>1, <3>2, GoesToInv DEF MethodNext
  <2>2. CASE /\ IF IsSpent(k) THEN UNCHANGED iters ELSE GoesTo(k, count)
             /\ reply' = Reply("next", 0, Nil, Nil)
    <3>1. reply' \in ReplyType
      BY <1>0, <2>2, ReplyTyped DEF Operation
    <3>2. CASE IsSpent(k)
      BY <1>0, <1>7, <2>2, <3>1, <3>2, SameInv DEF MethodNext
    <3>3. CASE ~IsSpent(k)
      <4>1. count \in iters[k].index + 1 .. count
        BY <1>0, <2>0, <3>3 DEF IsSpent
      <4> QED BY <1>7, <2>2, <3>1, <3>3, <4>1, GoesToInv DEF MethodNext
    <3> QED BY <3>2, <3>3
  <2> QED BY <1>7, <2>1, <2>2 DEF MethodNext
<1>8. CASE SetArrayChunk
  BY <1>8, SameInv DEF SetArrayChunk, Inv, ArrayTypeOK
<1>9. CASE UNCHANGED avars
  BY <1>0, <1>9, SameInv DEF avars, Inv, ArrayTypeOK
<1> QED BY <1>1, <1>2, <1>3, <1>4, <1>5, <1>6, <1>7, <1>8, <1>9 DEF ArrayNext

LEMMA AlwaysInv == ArraySpec => []Inv
  BY InitInv, NextInv, PTL DEF ArraySpec

(* Every variable keeps its type.                                          *)
THEOREM ArrayTypeOKThm == ArraySpec => []ArrayTypeOK
<1>1. Inv => ArrayTypeOK
  BY DEF Inv
<1> QED BY <1>1, AlwaysInv, PTL

(***************************************************************************)
(* With array_chunk other than 0 an append never writes past the           *)
(* allocation, whatever was removed, and whatever the option was before.   *)
(***************************************************************************)
THEOREM OverrunByZeroThm == ArraySpec => OverrunByZero
<1>1. Inv /\ [ArrayNext]_avars => [overrun' # overrun => array_chunk = 0]_avars
  <2> SUFFICES ASSUME Inv, [ArrayNext]_avars, overrun' # overrun PROVE array_chunk = 0
    OBVIOUS
  <2>1. PICK v \in Value : MethodAppend(v)
    BY DEF ArrayNext, MethodRemove, GetIndex, SetIndex, MethodIter, IterNext, MethodNext,
           SetArrayChunk, avars
  <2>2. PICK cells \in Seq(Cell) : /\ Written(cells, v)
                                   /\ array_chunk # 0 => count + 1 <= Len(cells)
    BY <2>1, AppendShape
  <2>3. count + 1 > Len(cells)
    BY <2>2 DEF Written
  <2>4. count \in Nat /\ Len(cells) \in Nat
    BY Numbers
  <2> QED BY <2>2, <2>3, <2>4
<1> QED BY <1>1, AlwaysInv, PTL DEF ArraySpec, OverrunByZero

(* A step that moves an iterator moves it as GoesTo says.                  *)
LEMMA Movement ==
    ASSUME Inv, [ArrayNext]_avars, NEW k \in DOMAIN iters,
           iters'[k].index # iters[k].index
    PROVE  \E i \in DOMAIN iters, to \in Nat :
              /\ to \in iters[i].index + 1 .. count /\ GoesTo(i, to)
              /\ reply' \in ReplyType
              /\ UNCHANGED <<list, count, array_chunk, appends, overrun>>
<1>0. /\ count \in Nat /\ iters \in Seq(IteratorType)
      /\ \A i \in DOMAIN iters : iters[i].index \in Nat
  BY Numbers
<1>1. reply' \in ReplyType
  BY NextInv DEF Inv, ArrayTypeOK
<1>2. ASSUME NEW v \in Value, MethodRemove(v) PROVE FALSE
  <2>1. CASE UNCHANGED iters
    BY <2>1
  <2>2. ASSUME NEW j \in 1 .. count,
               iters' = [i \in DOMAIN iters |->
                           IF j <= iters[i].index
                           THEN [iters[i] EXCEPT !.removed = @ + 1] ELSE iters[i]]
        PROVE  FALSE
    <3>1. iters[k] \in IteratorType
      BY <1>0
    <3>2. iters'[k] = IF j <= iters[k].index
                      THEN [iters[k] EXCEPT !.removed = @ + 1] ELSE iters[k]
      BY <2>2
    <3> QED BY <3>1, <3>2 DEF IteratorType
  <2> QED BY <1>2, <2>1, <2>2 DEF MethodRemove
<1>3. CASE MethodIter
  <2> DEFINE new == [index |-> 0, seen |-> 0, passed |-> {}, removed |-> 0]
  <2>1. new \in IteratorType /\ iters' = Append(iters, new)
    BY <1>3 DEF MethodIter, IteratorType
  <2> HIDE DEF new
  <2>2. k \in 1 .. Len(iters)
    BY <1>0
  <2>3. iters'[k] = iters[k]
    BY <1>0, <2>1, <2>2, AppendSeq
  <2> QED BY <2>3
<1>4. ASSUME NEW i \in DOMAIN iters, IterNext(i)
      PROVE  \E to \in Nat :
                /\ to \in iters[i].index + 1 .. count /\ GoesTo(i, to)
                /\ UNCHANGED <<list, count, array_chunk, appends, overrun>>
  <2>1. ~IsSpent(i)
    BY <1>4 DEF IterNext
  <2>2. iters[i].index + 1 \in iters[i].index + 1 .. count /\ iters[i].index + 1 \in Nat
    BY <1>0, <2>1 DEF IsSpent
  <2> QED BY <1>4, <2>1, <2>2 DEF IterNext
<1>5. ASSUME NEW i \in DOMAIN iters, MethodNext(i)
      PROVE  \E to \in Nat :
                /\ to \in iters[i].index + 1 .. count /\ GoesTo(i, to)
                /\ UNCHANGED <<list, count, array_chunk, appends, overrun>>
  <2>0. iters[i].index \in Nat
    BY <1>0
  <2>1. ASSUME NEW to \in iters[i].index + 1 .. count, GoesTo(i, to)
        PROVE  \E n \in Nat :
                  /\ n \in iters[i].index + 1 .. count /\ GoesTo(i, n)
                  /\ UNCHANGED <<list, count, array_chunk, appends, overrun>>
    <3>1. to \in Nat
      BY <2>0
    <3> QED BY <1>5, <2>1, <3>1 DEF MethodNext
  <2>2. CASE ~IsSpent(i) /\ GoesTo(i, count)
    <3>1. count \in iters[i].index + 1 .. count
      BY <1>0, <2>0, <2>2 DEF IsSpent
    <3> QED BY <2>1, <2>2, <3>1
  <2>3. CASE UNCHANGED iters
    BY <2>3
  <2> QED BY <1>5, <2>1, <2>2, <2>3 DEF MethodNext
<1>6. CASE UNCHANGED iters
  BY <1>6
<1>7. \/ \E v \in Value : MethodRemove(v)
      \/ MethodIter
      \/ \E i \in DOMAIN iters : IterNext(i) \/ MethodNext(i)
      \/ UNCHANGED iters
  BY DEF ArrayNext, MethodAppend, GetIndex, SetIndex, SetArrayChunk, avars
<1> QED BY <1>1, <1>2, <1>3, <1>4, <1>5, <1>6, <1>7

(***************************************************************************)
(* An iterator only gives elements younger than those it gave, however     *)
(* many there are and whatever happens to the array meanwhile.             *)
(***************************************************************************)
THEOREM OnlyForwardThm == ArraySpec => OnlyForward
<1>1. Inv /\ [ArrayNext]_avars =>
        [\A k \in DOMAIN iters :
           iters'[k].index # iters[k].index => iters'[k].seen > iters[k].seen]_avars
  <2> SUFFICES ASSUME Inv, [ArrayNext]_avars, NEW k \in DOMAIN iters,
                      iters'[k].index # iters[k].index
               PROVE  iters'[k].seen > iters[k].seen
    OBVIOUS
  <2>1. PICK i \in DOMAIN iters, to \in Nat :
              /\ to \in iters[i].index + 1 .. count /\ GoesTo(i, to)
              /\ reply' \in ReplyType
              /\ UNCHANGED <<list, count, array_chunk, appends, overrun>>
    BY Movement
  <2>2. /\ iters'[i].seen > iters[i].seen
        /\ \A j \in DOMAIN iters : j # i => iters'[j] = iters[j]
    BY <2>1, GoesToInv
  <2> QED BY <2>2
<1> QED BY <1>1, AlwaysInv, PTL DEF ArraySpec, OnlyForward

-----------------------------------------------------------------------------
(* Iterators and removed elements *)

(* The positions an iterator has gone past where nothing is, or nothing    *)
(* that it has gone past: what is appended later may be put there.         *)
Vacant(k) == {p \in 1 .. iters[k].index :
                p <= count => list[p].mark \notin iters[k].passed}
Allowed == \A k \in DOMAIN iters : Cardinality(Vacant(k)) <= iters[k].removed

LEMMA VacantFinite ==
    ASSUME Inv, NEW k \in DOMAIN iters
    PROVE  IsFiniteSet(Vacant(k)) /\ Cardinality(Vacant(k)) \in Nat /\ iters[k].removed \in Nat
<1>1. iters[k] \in IteratorType
  BY Numbers
<1>2. iters[k].index \in Nat /\ iters[k].removed \in Nat
  BY <1>1 DEF IteratorType
<1>3. IsFiniteSet(1 .. iters[k].index)
  BY <1>2, FS_Interval
<1>4. Vacant(k) \in SUBSET (1 .. iters[k].index)
  BY DEF Vacant
<1>5. IsFiniteSet(Vacant(k))
  BY <1>3, <1>4, FS_Subset
<1> QED BY <1>2, <1>5, FS_CardinalityType

(* Where nothing becomes vacant, nothing more has to be allowed.           *)
LEMMA NoneVacated ==
    ASSUME Inv, Allowed, NEW k \in DOMAIN iters, NEW S \in SUBSET Vacant(k),
           NEW n, n = iters[k].removed
    PROVE  Cardinality(S) <= n
<1>1. /\ IsFiniteSet(Vacant(k)) /\ Cardinality(Vacant(k)) \in Nat /\ n \in Nat
      /\ Cardinality(Vacant(k)) <= n
  BY VacantFinite DEF Allowed
<1>2. IsFiniteSet(S) /\ Cardinality(S) <= Cardinality(Vacant(k))
  BY <1>1, FS_Subset
<1>3. Cardinality(S) \in Nat
  BY <1>2, FS_CardinalityType
<1> QED BY <1>1, <1>2, <1>3

(* What steps do to the elements and the iterators.                        *)
LEMMA Steps ==
    ASSUME Inv, [ArrayNext]_avars
    PROVE  \/ \E j \in 1 .. count :
                /\ list' = Moved(j) /\ count' = count - 1
                /\ iters' = [i \in DOMAIN iters |->
                               IF j <= iters[i].index
                               THEN [iters[i] EXCEPT !.removed = @ + 1] ELSE iters[i]]
           \/ /\ \/ UNCHANGED iters
                 \/ MethodIter
                 \/ \E i \in DOMAIN iters :
                       \E to \in iters[i].index + 1 .. count : GoesTo(i, to)
              /\ \A p \in 1 .. count : p <= count' /\ list'[p].mark = list[p].mark
<1> DEFINE Stays == \A p \in 1 .. count : p <= count' /\ list'[p].mark = list[p].mark
<1>0. /\ list \in Seq(Cell) /\ Size \in Nat /\ count \in 0 .. Size /\ count >= count
      /\ \A p \in 1 .. Size : list[p] \in Cell
      /\ \A i \in DOMAIN iters : iters[i].index \in Nat
  BY Numbers
<1>1. ASSUME NEW v \in Value, MethodAppend(v) PROVE UNCHANGED iters /\ Stays
  <2>1. UNCHANGED iters
    BY <1>1 DEF MethodAppend
  <2>2. ASSUME NEW cells \in Seq(Cell), Written(cells, v), Len(cells) >= Size,
               \A p \in 1 .. Size : cells[p] = list[p]
        PROVE  Stays
    <3>1. CASE count + 1 > Len(cells)
      BY <1>0, <2>2, <3>1 DEF Written
    <3>2. CASE count + 1 <= Len(cells)
      <4> DEFINE cell == [mark |-> appends + 1, value |-> v]
      <4>1. list' = [cells EXCEPT ![count + 1] = cell] /\ count' = count + 1
        BY <1>0, <2>2, <3>2 DEF Written
      <4>2. \A p \in 1 .. count : list'[p] = list[p]
        <5> HIDE DEF cell
        <5> QED BY <1>0, <2>2, <3>2, <4>1
      <4> QED BY <1>0, <4>1, <4>2
    <3> QED BY <1>0, <3>1, <3>2
  <2>3. UNCHANGED <<list, count>> => Stays
    BY <1>0
  <2> HIDE DEF Stays
  <2> QED BY <1>1, <2>1, <2>2, <2>3, AppendShape
<1>2. ASSUME NEW i \in Index, NEW v \in Value, SetIndex(i, v) PROVE UNCHANGED iters /\ Stays
  <2>1. UNCHANGED <<count, iters>>
    BY <1>2 DEF SetIndex
  <2>2. CASE UNCHANGED list
    BY <1>0, <2>1, <2>2
  <2>3. CASE list' = [list EXCEPT ![At(i) + 1].value = v]
    <3>1. \A p \in 1 .. Size : list'[p].mark = list[p].mark
      <4> SUFFICES ASSUME NEW p \in 1 .. Size PROVE list'[p].mark = list[p].mark
        OBVIOUS
      <4>1. list'[p] = IF p = At(i) + 1 THEN [list[p] EXCEPT !.value = v] ELSE list[p]
        BY <1>0, <2>3 DEF Size
      <4> QED BY <1>0, <4>1 DEF Cell
    <3> QED BY <1>0, <2>1, <3>1
  <2> QED BY <1>2, <2>1, <2>2, <2>3 DEF SetIndex
<1>3. ASSUME NEW k \in DOMAIN iters, IterNext(k) \/ MethodNext(k)
      PROVE  /\ UNCHANGED <<list, count>>
             /\ \/ UNCHANGED iters
                \/ \E to \in iters[k].index + 1 .. count : GoesTo(k, to)
  <2>1. ~IsSpent(k) => /\ iters[k].index + 1 \in iters[k].index + 1 .. count
                       /\ count \in iters[k].index + 1 .. count
    BY <1>0 DEF IsSpent
  <2> QED BY <1>3, <2>1 DEF IterNext, MethodNext
<1>4. ASSUME NEW v \in Value, MethodRemove(v), ~ UNCHANGED <<list, count, iters>>
      PROVE  \E j \in 1 .. count :
                /\ list' = Moved(j) /\ count' = count - 1
                /\ iters' = [i \in DOMAIN iters |->
                               IF j <= iters[i].index
                               THEN [iters[i] EXCEPT !.removed = @ + 1] ELSE iters[i]]
  BY <1>4 DEF MethodRemove
<1>5. UNCHANGED <<list, count>> => Stays
  BY <1>0
<1>6. \/ \E v \in Value : MethodAppend(v) \/ MethodRemove(v)
      \/ \E i \in Index, v \in Value : SetIndex(i, v)
      \/ MethodIter /\ UNCHANGED <<list, count>>
      \/ \E k \in DOMAIN iters : IterNext(k) \/ MethodNext(k)
      \/ UNCHANGED <<list, count, iters>>
  BY DEF ArrayNext, GetIndex, MethodIter, SetArrayChunk, avars
<1> HIDE DEF Stays
<1>7. CASE Stays /\ \/ UNCHANGED iters
                    \/ MethodIter
                    \/ \E i \in DOMAIN iters :
                          \E to \in iters[i].index + 1 .. count : GoesTo(i, to)
  BY <1>7 DEF Stays
<1>8. CASE \E v \in Value : MethodRemove(v)
  BY <1>4, <1>5, <1>7, <1>8
<1> QED BY <1>1, <1>2, <1>3, <1>5, <1>6, <1>7, <1>8

(* Where no element moves, what is appended fills a vacant place or none,  *)
(* and an iterator that goes on has been at all places behind it.          *)
LEMMA AllowedStays ==
    ASSUME Inv, Allowed,
           \A p \in 1 .. count : p <= count' /\ list'[p].mark = list[p].mark,
           NEW k \in DOMAIN iters,
           \/ iters'[k] = iters[k]
           \/ \E to \in iters[k].index + 1 .. count : GoesTo(k, to)
    PROVE  Cardinality(Vacant(k)') <= iters'[k].removed
<1>0. /\ count \in Nat /\ iters \in Seq(IteratorType)
      /\ iters[k] \in IteratorType /\ iters[k].index \in Nat
  BY Numbers
<1>1. CASE iters'[k] = iters[k]
  <2>1. Vacant(k)' \subseteq Vacant(k)
    <3> SUFFICES ASSUME NEW p \in 1 .. iters[k].index, p <= count,
                        p <= count' => list'[p].mark \notin iters[k].passed
                 PROVE  list[p].mark \notin iters[k].passed
      BY <1>1 DEF Vacant
    <3>1. p \in 1 .. count
      BY <1>0
    <3> QED BY <1>0, <3>1
  <2> QED BY <1>1, <2>1, NoneVacated
<1>2. ASSUME NEW to \in iters[k].index + 1 .. count, GoesTo(k, to)
      PROVE  Cardinality(Vacant(k)') <= iters'[k].removed
  <2>1. iters'[k] = [index |-> to, seen |-> list[to].mark,
                     passed |-> Passed(k, to), removed |-> iters[k].removed]
    BY <1>2 DEF GoesTo
  <2>2. /\ iters'[k].index = to /\ iters'[k].passed = Passed(k, to)
        /\ iters'[k].removed = iters[k].removed
    BY <2>1
  <2>3. Vacant(k)' \subseteq Vacant(k)
    <3> SUFFICES ASSUME NEW p \in 1 .. to,
                        p <= count' => list'[p].mark \notin Passed(k, to)
                 PROVE  p \in 1 .. iters[k].index /\ list[p].mark \notin iters[k].passed
      BY <2>2 DEF Vacant
    <3>1. p \in 1 .. count /\ to \in Int
      BY <1>0
    <3>2. list[p].mark \notin Passed(k, to)
      BY <1>0, <3>1
    <3>3. p \notin iters[k].index + 1 .. to
      BY <3>2 DEF Passed
    <3> QED BY <1>0, <3>1, <3>2, <3>3 DEF Passed
  <2> QED BY <2>2, <2>3, NoneVacated
<1> QED BY <1>1, <1>2

(* A removal leaves one more vacant place to the iterators past it, the    *)
(* last they went past, and none to the others.                            *)
LEMMA AllowedRemoved ==
    ASSUME Inv, Allowed, NEW j \in 1 .. count,
           list' = Moved(j), count' = count - 1,
           iters' = [i \in DOMAIN iters |->
                       IF j <= iters[i].index
                       THEN [iters[i] EXCEPT !.removed = @ + 1] ELSE iters[i]],
           NEW k \in DOMAIN iters
    PROVE  Cardinality(Vacant(k)') <= iters'[k].removed
<1>0. /\ list \in Seq(Cell) /\ Size \in Nat /\ count \in 0 .. Size
      /\ iters[k] \in IteratorType /\ iters[k].index \in Nat
  BY Numbers
<1>1. \A p \in 1 .. count - 1 : list'[p] = list[IF p < j THEN p ELSE p + 1]
  BY <1>0 DEF Moved
<1>2. CASE j > iters[k].index
  <2>1. iters'[k] = iters[k]
    BY <1>0, <1>2
  <2>2. Vacant(k)' \subseteq Vacant(k)
    <3> SUFFICES ASSUME NEW p \in 1 .. iters[k].index, p <= count,
                        p <= count - 1 => list'[p].mark \notin iters[k].passed
                 PROVE  list[p].mark \notin iters[k].passed
      BY <2>1 DEF Vacant
    <3>1. p \in 1 .. count - 1 /\ p < j
      BY <1>0, <1>2
    <3> QED BY <1>1, <3>1
  <2> QED BY <2>1, <2>2, NoneVacated
<1>3. CASE j <= iters[k].index
  <2>1. iters'[k] = [iters[k] EXCEPT !.removed = @ + 1]
    BY <1>3
  <2>2. /\ iters'[k].index = iters[k].index /\ iters'[k].passed = iters[k].passed
        /\ iters'[k].removed = iters[k].removed + 1 /\ iters[k].removed \in Nat
    BY <1>0, <2>1 DEF IteratorType
  <2> DEFINE S == Vacant(k)'
             rest == S \ {iters[k].index}
             from == [p \in rest |-> IF p < j THEN p ELSE p + 1]
  <2>3. S = {p \in 1 .. iters[k].index :
               p <= count - 1 => list'[p].mark \notin iters[k].passed}
    BY <2>2 DEF Vacant
  <2>4. ASSUME NEW p \in rest
        PROVE  p \in Int /\ (IF p < j THEN p ELSE p + 1) \in Vacant(k)
    <3>1. /\ p \in 1 .. iters[k].index - 1
          /\ p <= count - 1 => list'[p].mark \notin iters[k].passed
      BY <1>0, <2>3
    <3>2. CASE p < j
      <4>1. p \in 1 .. count - 1 /\ p \in 1 .. iters[k].index
        BY <1>0, <3>1, <3>2
      <4> QED BY <1>1, <3>1, <3>2, <4>1 DEF Vacant
    <3>3. CASE ~(p < j)
      <4>1. /\ p + 1 \in 1 .. iters[k].index /\ p \in Int
            /\ p + 1 <= count => p \in 1 .. count - 1 /\ p <= count - 1
        BY <1>0, <3>1
      <4>2. p + 1 <= count => list[p + 1].mark \notin iters[k].passed
        BY <1>1, <3>1, <3>3, <4>1
      <4> QED BY <3>3, <4>1, <4>2 DEF Vacant
    <3> QED BY <3>1, <3>2, <3>3
  <2>5. from \in Injection(rest, Vacant(k))
    <3>1. from \in [rest -> Vacant(k)]
      BY <2>4
    <3>2. ASSUME NEW p \in rest, NEW q \in rest, from[p] = from[q] PROVE p = q
      BY <1>0, <2>4, <3>2
    <3> QED BY <3>1, <3>2 DEF Injection, IsInjective
  <2>6. IsFiniteSet(rest) /\ Cardinality(rest) <= Cardinality(Vacant(k))
    <3> HIDE DEF from, rest
    <3> QED BY <2>5, VacantFinite, FS_Injection
  <2>7. IsFiniteSet(rest \cup {iters[k].index})
        /\ Cardinality(rest \cup {iters[k].index}) <= Cardinality(rest) + 1
    <3> HIDE DEF rest
    <3>1. Cardinality(rest) \in Nat
      BY <2>6, FS_CardinalityType
    <3> QED BY <2>6, <3>1, FS_AddElement
  <2>8. Cardinality(S) <= Cardinality(rest) + 1 /\ Cardinality(S) \in Nat
    <3>1. S \in SUBSET (rest \cup {iters[k].index})
      OBVIOUS
    <3> HIDE DEF S, rest
    <3>2. IsFiniteSet(S) /\ Cardinality(S) <= Cardinality(rest \cup {iters[k].index})
      BY <2>7, <3>1, FS_Subset
    <3>3. /\ Cardinality(S) \in Nat /\ Cardinality(rest) \in Nat
          /\ Cardinality(rest \cup {iters[k].index}) \in Nat
      BY <2>6, <2>7, <3>2, FS_CardinalityType
    <3> QED BY <2>7, <3>2, <3>3
  <2>9. Cardinality(Vacant(k)) <= iters[k].removed /\ Cardinality(Vacant(k)) \in Nat
    BY VacantFinite DEF Allowed
  <2>10. Cardinality(rest) \in Nat
    BY <2>6, FS_CardinalityType
  <2> HIDE DEF S, rest
  <2> QED BY <2>2, <2>6, <2>8, <2>9, <2>10 DEF S
<1> QED BY <1>0, <1>2, <1>3

LEMMA NextAllowed == Inv /\ Allowed /\ [ArrayNext]_avars => Allowed'
<1> SUFFICES ASSUME Inv, Allowed, [ArrayNext]_avars PROVE Allowed'
  OBVIOUS
<1>0. iters \in Seq(IteratorType)
  BY Numbers
<1>1. ASSUME NEW j \in 1 .. count, list' = Moved(j), count' = count - 1,
             iters' = [i \in DOMAIN iters |->
                         IF j <= iters[i].index
                         THEN [iters[i] EXCEPT !.removed = @ + 1] ELSE iters[i]]
      PROVE  Allowed'
  <2>1. DOMAIN iters' = DOMAIN iters
    BY <1>1
  <2>2. ASSUME NEW k \in DOMAIN iters PROVE Cardinality(Vacant(k)') <= iters'[k].removed
    BY <1>1, AllowedRemoved
  <2> QED BY <2>1, <2>2 DEF Allowed, Vacant
<1>2. ASSUME \A p \in 1 .. count : p <= count' /\ list'[p].mark = list[p].mark,
             \/ UNCHANGED iters
             \/ MethodIter
             \/ \E i \in DOMAIN iters :
                   \E to \in iters[i].index + 1 .. count : GoesTo(i, to)
      PROVE  Allowed'
  <2>1. CASE UNCHANGED iters
    <3>1. ASSUME NEW k \in DOMAIN iters PROVE Cardinality(Vacant(k)') <= iters'[k].removed
      BY <1>2, <2>1, AllowedStays
    <3> QED BY <2>1, <3>1 DEF Allowed, Vacant
  <2>2. CASE MethodIter
    <3> DEFINE new == [index |-> 0, seen |-> 0, passed |-> {}, removed |-> 0]
    <3>1. new \in IteratorType /\ iters' = Append(iters, new)
      BY <2>2 DEF MethodIter, IteratorType
    <3>2. /\ \A k \in DOMAIN iters : iters'[k] = iters[k]
          /\ \A k \in DOMAIN iters' : k \in DOMAIN iters \/ iters'[k] = new
      <4> HIDE DEF new
      <4> QED BY <1>0, <3>1, AppendSeq
    <3>3. ASSUME NEW k \in DOMAIN iters PROVE Cardinality(Vacant(k)') <= iters'[k].removed
      BY <1>2, <3>2, AllowedStays
    <3>4. ASSUME NEW k \in DOMAIN iters', iters'[k] = new
          PROVE  Cardinality(Vacant(k)') <= iters'[k].removed
      <4>1. Vacant(k)' = {} /\ iters'[k].removed = 0
        BY <3>4 DEF Vacant
      <4>2. Cardinality({}) <= 0
        BY FS_EmptySet
      <4> QED BY <4>1, <4>2
    <3> QED BY <3>2, <3>3, <3>4 DEF Allowed, Vacant
  <2>3. ASSUME NEW i \in DOMAIN iters, NEW to \in iters[i].index + 1 .. count, GoesTo(i, to)
        PROVE  Allowed'
    <3>1. DOMAIN iters' = DOMAIN iters /\ \A k \in DOMAIN iters : k # i => iters'[k] = iters[k]
      BY <2>3 DEF GoesTo
    <3>2. ASSUME NEW k \in DOMAIN iters PROVE Cardinality(Vacant(k)') <= iters'[k].removed
      BY <1>2, <2>3, <3>1, AllowedStays
    <3> QED BY <3>1, <3>2 DEF Allowed, Vacant
  <2> QED BY <1>2, <2>1, <2>2, <2>3
<1> QED BY <1>1, <1>2, Steps

(***************************************************************************)
(* An iterator misses at most as many elements as were removed behind it,  *)
(* however many are removed and appended and however far it goes.          *)
(***************************************************************************)
THEOREM NoneMissedThm == ArraySpec => []NoneMissed
<1>1. ArrayInit => Allowed
  BY DEF ArrayInit, Allowed
<1>2. Inv /\ Allowed => NoneMissed
  <2> SUFFICES ASSUME Inv, Allowed, NEW k \in DOMAIN iters
               PROVE  Cardinality({p \in 1 .. iters[k].index :
                                     p <= count /\ list[p].mark \notin iters[k].passed})
                         <= iters[k].removed
    BY DEF NoneMissed
  <2> DEFINE S == {p \in 1 .. iters[k].index :
                     p <= count /\ list[p].mark \notin iters[k].passed}
  <2>1. S \in SUBSET Vacant(k)
    BY DEF Vacant
  <2> HIDE DEF S
  <2>2. Cardinality(S) <= iters[k].removed
    BY <2>1, NoneVacated
  <2> QED BY <2>2 DEF S
<1> QED BY <1>1, <1>2, NextAllowed, AlwaysInv, PTL DEF ArraySpec

-----------------------------------------------------------------------------
(* Refinement *)

ItemsOf(cells, n) == [p \in 1 .. n |-> cells[p].value]
Items == ItemsOf(list, count)

LEMMA ItemsOfSeq ==
    ASSUME NEW cells \in Seq(Cell), NEW n \in 0 .. Len(cells)
    PROVE  /\ ItemsOf(cells, n) \in Seq(Value) /\ Len(ItemsOf(cells, n)) = n
           /\ \A p \in 1 .. n : ItemsOf(cells, n)[p] = cells[p].value
           /\ ItemsOf(cells, n) = <<>> <=> n = 0
<1>1. n \in Nat /\ \A p \in 1 .. n : cells[p] \in Cell
  OBVIOUS
<1>2. \A p \in 1 .. n : cells[p].value \in Value
  BY <1>1 DEF Cell
<1>3. ItemsOf(cells, n) \in [1 .. n -> Value]
  BY <1>2 DEF ItemsOf
<1>4. ItemsOf(cells, n) \in Seq(Value) /\ Len(ItemsOf(cells, n)) = n
  BY <1>1, <1>3, MakeSeq
<1>5. ItemsOf(cells, n) = <<>> <=> n = 0
  BY <1>4, EmptySeq
<1> QED BY <1>4, <1>5 DEF ItemsOf

LEMMA ItemsSeq ==
    ASSUME Inv
    PROVE  /\ Items \in Seq(Value) /\ Len(Items) = count
           /\ \A p \in 1 .. count : Items[p] = list[p].value
           /\ Items = <<>> <=> count = 0
  BY Numbers, ItemsOfSeq DEF Items, Size

(* The clamped index is the nearest.                                       *)
LEMMA NearestAt ==
    ASSUME Inv, NEW i \in Index, count # 0
    PROVE  L!Nearest(i, count) = At(i)
<1>0. i \in Int /\ count \in Nat /\ At(i) \in 0 .. count - 1
  <2>1. i \in Int /\ count \in Nat
    BY ArrayAssumption, Numbers
  <2> QED BY <2>1, AtInside DEF At
<1> DEFINE m == L!Meant(i, count)
<1>1. m \in Int /\ At(i) = (IF m < 0 THEN 0 ELSE IF m >= count THEN count - 1 ELSE m)
  BY <1>0 DEF L!Meant, At
<1> HIDE DEF m
<1>2. \A q \in 0 .. count - 1 : L!Distance(m, At(i)) <= L!Distance(m, q)
  BY <1>0, <1>1 DEF L!Distance
<1>3. ASSUME NEW p \in 0 .. count - 1,
             \A q \in 0 .. count - 1 : L!Distance(m, p) <= L!Distance(m, q)
      PROVE  p = At(i)
  <2>1. L!Distance(m, p) <= L!Distance(m, At(i))
    BY <1>0, <1>3
  <2> QED BY <1>0, <1>1, <2>1 DEF L!Distance
<1> QED BY <1>0, <1>2, <1>3 DEF L!Nearest, m

LEMMA ElementAt ==
    ASSUME Inv, NEW i \in Index, count # 0
    PROVE  L!Element(i) = At(i) + 1 /\ At(i) + 1 \in 1 .. count
<1>1. Len(Items) = count
  BY ItemsSeq
<1>2. L!Element(i) = L!Nearest(i, Len(Items)) + 1
  BY DEF L!Element, Items, ItemsOf
<1> QED BY <1>1, <1>2, NearestAt, AtInside

(* What the next state holds as a list, in any step.                       *)
LEMMA NextItems ==
    ASSUME Inv, [ArrayNext]_avars
    PROVE  /\ Items' \in Seq(Value) /\ Len(Items') = count' /\ count' \in Nat
           /\ \A p \in 1 .. count' : Items'[p] = list'[p].value
<1>1. list' \in Seq(Cell) /\ count' \in Nat /\ count' <= Len(list')
  BY NextInv DEF Inv, ArrayTypeOK, Ordered, Size
<1>2. count' \in 0 .. Len(list')
  BY <1>1
<1>3. /\ ItemsOf(list', count') \in Seq(Value) /\ Len(ItemsOf(list', count')) = count'
      /\ \A p \in 1 .. count' : ItemsOf(list', count')[p] = list'[p].value
  BY <1>1, <1>2, ItemsOfSeq
<1> QED BY <1>1, <1>3 DEF Items

(* What append did is Add, AddFails, or nothing when it overran.           *)
LEMMA AppendRefines ==
    ASSUME Inv, NEW v \in Value, MethodAppend(v)
    PROVE  [L!Next]_<<Items, reply>>
<1>0. /\ count \in Nat /\ [ArrayNext]_avars
      /\ Items \in Seq(Value) /\ Len(Items) = count
      /\ \A p \in 1 .. count : Items[p] = list[p].value
  BY Numbers, ItemsSeq DEF ArrayNext
<1>1. ASSUME NEW cells \in Seq(Cell), Written(cells, v), Len(cells) >= Size,
             \A p \in 1 .. Size : cells[p] = list[p]
      PROVE  [L!Next]_<<Items, reply>>
  <2>0. Len(cells) \in Nat /\ Size \in Nat /\ count \in 0 .. Size /\ appends \in Nat
    BY Numbers
  <2>1. CASE count + 1 > Len(cells)
    <3>1. UNCHANGED <<list, count, reply>>
      BY <1>1, <2>1 DEF Written
    <3> QED BY <3>1 DEF Items
  <2>2. CASE count + 1 <= Len(cells)
    <3> DEFINE cell == [mark |-> appends + 1, value |-> v]
    <3>1. /\ list' = [cells EXCEPT ![count + 1] = cell]
          /\ count' = count + 1 /\ reply' = Reply("append", 0, v, v)
      BY <1>1, <2>0, <2>2 DEF Written
    <3>2. cell \in Cell /\ cell.value = v /\ count + 1 \in 1 .. Len(cells)
      BY <2>0, <2>2 DEF Cell
    <3>3. /\ list'[count + 1].value = v
          /\ \A p \in 1 .. count : list'[p] = list[p]
      <4> HIDE DEF cell
      <4>1. /\ list'[count + 1] = cell
            /\ \A p \in 1 .. Len(cells) : p # count + 1 => list'[p] = cells[p]
        BY <3>1, <3>2, UpdateSeq
      <4> QED BY <1>1, <2>0, <3>2, <4>1
    <3> HIDE DEF cell
    <3>4. /\ Items' \in Seq(Value) /\ Len(Items') = count + 1
          /\ \A p \in 1 .. count + 1 : Items'[p] = list'[p].value
      BY <1>0, <3>1, NextItems
    <3>5. /\ Append(Items, v) \in Seq(Value) /\ Len(Append(Items, v)) = count + 1
          /\ \A p \in 1 .. count : Append(Items, v)[p] = Items[p]
          /\ Append(Items, v)[count + 1] = v
      BY <1>0, AppendSeq
    <3>6. \A p \in 1 .. count + 1 : Items'[p] = Append(Items, v)[p]
      <4> SUFFICES ASSUME NEW p \in 1 .. count + 1 PROVE Items'[p] = Append(Items, v)[p]
        OBVIOUS
      <4>1. CASE p = count + 1
        BY <3>3, <3>4, <3>5, <4>1
      <4>2. CASE p # count + 1
        <5>1. p \in 1 .. count
          BY <1>0, <4>2
        <5> QED BY <1>0, <3>3, <3>4, <3>5, <5>1
      <4> QED BY <4>1, <4>2
    <3>7. Items' = Append(Items, v)
      BY <1>0, <3>4, <3>5, <3>6, SameSeq
    <3>8. L!Add(v)
      BY <3>1, <3>7 DEF L!Add, L!Reply, Reply, Items, ItemsOf
    <3> QED BY <3>8 DEF L!Next
  <2> QED BY <2>0, <2>1, <2>2
<1>2. CASE reply' = Reply("append", 0, v, Nil) /\ UNCHANGED <<list, count>>
  <2>1. L!AddFails(v)
    BY <1>2 DEF L!AddFails, L!Reply, Reply
  <2> QED BY <2>1 DEF L!Next
<1> QED BY <1>1, <1>2, AppendShape

LEMMA RemoveRefines ==
    ASSUME Inv, NEW v \in Value, MethodRemove(v)
    PROVE  [L!Next]_<<Items, reply>>
<1>0. /\ count \in Nat /\ [ArrayNext]_avars /\ count <= Size /\ Size \in Nat
      /\ Items \in Seq(Value) /\ Len(Items) = count
      /\ \A p \in 1 .. count : Items[p] = list[p].value
  BY Numbers, ItemsSeq DEF ArrayNext
<1>1. ASSUME NEW j \in 1 .. count, IsFirst(j, v), list' = Moved(j), count' = count - 1,
             reply' = Reply("remove", 0, v, One)
      PROVE  [L!Next]_<<Items, reply>>
  <2> DEFINE cut == SubSeq(Items, 1, j - 1) \o SubSeq(Items, j + 1, Len(Items))
  <2>1. /\ cut \in Seq(Value) /\ Len(cut) = count - 1
        /\ \A p \in 1 .. count - 1 : cut[p] = Items[IF p < j THEN p ELSE p + 1]
    BY <1>0, CutSeq
  <2> HIDE DEF cut
  <2>2. \A p \in 1 .. count - 1 : list'[p] = list[IF p < j THEN p ELSE p + 1]
    BY <1>0, <1>1 DEF Moved
  <2>3. /\ Items' \in Seq(Value) /\ Len(Items') = count - 1
        /\ \A p \in 1 .. count - 1 : Items'[p] = list'[p].value
    BY <1>0, <1>1, NextItems
  <2>4. \A p \in 1 .. count - 1 : Items'[p] = cut[p]
    <3> SUFFICES ASSUME NEW p \in 1 .. count - 1 PROVE Items'[p] = cut[p]
      OBVIOUS
    <3>1. (IF p < j THEN p ELSE p + 1) \in 1 .. count
      BY <1>0
    <3> QED BY <1>0, <2>1, <2>2, <2>3, <3>1
  <2>5. Items' = cut
    BY <2>1, <2>3, <2>4, SameSeq
  <2>6. L!IsFirst(j, v)
    <3>1. <<v, Items[j]>> \in Equals /\ \A i \in 1 .. j - 1 : <<v, Items[i]>> \notin Equals
      BY <1>0, <1>1 DEF IsFirst
    <3> QED BY <3>1 DEF L!IsFirst, Items, ItemsOf
  <2>7. L!Remove(v)
    <3>1. j \in 1 .. Len(Items)
      BY <1>0
    <3> QED BY <1>1, <2>5, <2>6, <3>1 DEF L!Remove, L!Reply, Reply, Items, ItemsOf, cut
  <2> QED BY <2>7 DEF L!Next
<1>2. CASE /\ \A k \in 1 .. count : <<v, list[k].value>> \notin Equals
           /\ reply' = Reply("remove", 0, v, Nil) /\ UNCHANGED <<list, count>>
  <2>1. \A k \in 1 .. Len(Items) : <<v, Items[k]>> \notin Equals
    BY <1>0, <1>2
  <2>2. L!RemoveNone(v)
    BY <1>2, <2>1 DEF L!RemoveNone, L!Reply, Reply, Items, ItemsOf
  <2> QED BY <2>2 DEF L!Next
<1> QED BY <1>1, <1>2 DEF MethodRemove

LEMMA IndexRefines ==
    ASSUME Inv, NEW i \in Index
    PROVE  /\ GetIndex(i) => L!Get(i)
           /\ \A v \in Value : SetIndex(i, v) => L!Set(i, v)
<1>0. /\ count \in Nat /\ count <= Size /\ list \in Seq(Cell) /\ Size = Len(list)
      /\ Items \in Seq(Value) /\ Len(Items) = count
      /\ \A p \in 1 .. count : Items[p] = list[p].value
      /\ Items = <<>> <=> count = 0
  BY Numbers, ItemsSeq DEF Size
<1>1. ASSUME GetIndex(i) PROVE L!Get(i)
  <2>1. /\ reply' = Reply("get", i, Nil, IF count = 0 THEN Nil ELSE list[At(i) + 1].value)
        /\ UNCHANGED <<list, count>>
    BY <1>1 DEF GetIndex
  <2>2. count # 0 => Items[L!Element(i)] = list[At(i) + 1].value
    BY <1>0, ElementAt
  <2>3. reply' = Reply("get", i, Nil, IF Items = <<>> THEN Nil ELSE Items[L!Element(i)])
    BY <1>0, <2>1, <2>2
  <2> QED BY <2>1, <2>3 DEF L!Get, L!Reply, Reply, Items, ItemsOf
<1>2. ASSUME NEW v \in Value, SetIndex(i, v) PROVE L!Set(i, v)
  <2>1. CASE count = 0
    <3>1. Items = <<>> /\ reply' = Reply("set", i, v, Nil) /\ UNCHANGED <<list, count>>
      BY <1>0, <1>2, <2>1 DEF SetIndex
    <3> QED BY <3>1 DEF L!Set, L!Reply, Reply, Items, ItemsOf
  <2>2. CASE count # 0
    <3>1. /\ list' = [list EXCEPT ![At(i) + 1].value = v] /\ UNCHANGED count
          /\ reply' = Reply("set", i, v, v)
      BY <1>2, <2>2 DEF SetIndex
    <3>2. L!Element(i) = At(i) + 1 /\ At(i) + 1 \in 1 .. count
      BY <2>2, ElementAt
    <3> DEFINE e == At(i) + 1
    <3>3. e \in 1 .. count /\ L!Element(i) = e /\ list' = [list EXCEPT ![e].value = v]
      BY <3>1, <3>2
    <3> HIDE DEF e
    <3>4. /\ \A p \in 1 .. count : p # e => list'[p].value = list[p].value
          /\ list'[e].value = v
      <4>1. e \in DOMAIN list /\ list[e] \in Cell
        BY <1>0, <3>3
      <4> QED BY <1>0, <3>3, <4>1 DEF Cell
    <3>5. Items' = [p \in 1 .. count |-> list'[p].value]
      BY <3>1 DEF Items, ItemsOf
    <3>6. [Items EXCEPT ![e] = v] = [p \in 1 .. count |-> IF p = e THEN v ELSE list[p].value]
      BY <1>0 DEF Items, ItemsOf
    <3>7. Items' = [Items EXCEPT ![e] = v]
      BY <3>3, <3>4, <3>5, <3>6
    <3>8. Items # <<>>
      BY <1>0, <2>2
    <3> QED BY <3>1, <3>3, <3>7, <3>8 DEF L!Set, L!Reply, Reply, Items, ItemsOf
  <2> QED BY <2>1, <2>2
<1> QED BY <1>1, <1>2

LEMMA IteratorRefines ==
    ASSUME Inv, NEW k \in DOMAIN iters
    PROVE  /\ IterNext(k) => L!Iterate
           /\ MethodNext(k) => L!NextOf
<1>0. /\ count \in Nat /\ iters[k].index \in Nat
      /\ Len(Items) = count
      /\ \A p \in 1 .. count : Items[p] = list[p].value
  BY Numbers, ItemsSeq
<1>1. ASSUME IterNext(k) PROVE L!Iterate
  <2>1. UNCHANGED <<list, count>>
    BY <1>1 DEF IterNext
  <2>2. CASE IsSpent(k)
    BY <1>1, <2>1, <2>2 DEF IterNext, L!Iterate, L!Reply, Reply
  <2>3. CASE ~IsSpent(k)
    <3>1. iters[k].index + 1 \in 1 .. Len(Items)
      BY <1>0, <2>3 DEF IsSpent
    <3>2. reply' = Reply("iterate", 0, Nil, Items[iters[k].index + 1])
      BY <1>0, <1>1, <2>3, <3>1 DEF IterNext
    <3> QED BY <2>1, <3>1, <3>2 DEF L!Iterate, L!Reply, Reply, Items, ItemsOf
  <2> QED BY <2>2, <2>3
<1>2. ASSUME MethodNext(k) PROVE L!NextOf
  <2>1. UNCHANGED <<list, count>>
    BY <1>2 DEF MethodNext
  <2>2. ASSUME NEW to \in iters[k].index + 1 .. count, list[to].value # Nil,
               reply' = Reply("next", 0, Nil, list[to].value)
        PROVE  L!NextOf
    <3>1. to \in 1 .. Len(Items) /\ Items[to] = list[to].value
      BY <1>0
    <3>2. reply' = Reply("next", 0, Nil, Items[to]) /\ Items[to] # Nil
      BY <2>2, <3>1
    <3> QED BY <2>1, <3>1, <3>2 DEF L!NextOf, L!Reply, Reply, Items, ItemsOf
  <2>3. CASE reply' = Reply("next", 0, Nil, Nil)
    BY <2>1, <2>3 DEF L!NextOf, L!Reply, Reply
  <2> QED BY <1>2, <2>2, <2>3 DEF MethodNext
<1> QED BY <1>1, <1>2

LEMMA StepRefines == Inv /\ [ArrayNext]_avars => [L!Next]_<<Items, reply>>
<1> SUFFICES ASSUME Inv, [ArrayNext]_avars PROVE [L!Next]_<<Items, reply>>
  OBVIOUS
<1>1. ASSUME NEW v \in Value, MethodAppend(v) \/ MethodRemove(v)
      PROVE  [L!Next]_<<Items, reply>>
  BY <1>1, AppendRefines, RemoveRefines
<1>2. ASSUME NEW i \in Index, GetIndex(i) \/ \E v \in Value : SetIndex(i, v)
      PROVE  [L!Next]_<<Items, reply>>
  BY <1>2, IndexRefines DEF L!Next
<1>3. ASSUME NEW k \in DOMAIN iters, IterNext(k) \/ MethodNext(k)
      PROVE  [L!Next]_<<Items, reply>>
  BY <1>3, IteratorRefines DEF L!Next
<1>4. CASE MethodIter \/ SetArrayChunk \/ UNCHANGED avars
  <2>1. UNCHANGED <<list, count, reply>>
    BY <1>4 DEF MethodIter, SetArrayChunk, avars
  <2> QED BY <2>1 DEF Items
<1> QED BY <1>1, <1>2, <1>3, <1>4 DEF ArrayNext

(***************************************************************************)
(* An Array does what a list of values does, for every array_chunk and     *)
(* every sequence of operations, as long as nothing overran.               *)
(***************************************************************************)
THEOREM IsListThm == ArraySpec => IsList
<1>1. ArrayInit => L!Init
  <2> SUFFICES ASSUME ArrayInit PROVE L!Init
    OBVIOUS
  <2>1. Items \in Seq(Value)
    BY InitInv, ItemsSeq
  <2>2. reply = Reply("none", 0, Nil, Nil)
    BY DEF ArrayInit
  <2> QED BY <2>1, <2>2 DEF L!Init, L!Reply, Reply, Items, ItemsOf
<1>2. Inv /\ [ArrayNext]_avars => [L!Next]_<<[p \in 1 .. count |-> list[p].value], reply>>
  BY StepRefines DEF Items, ItemsOf
<1> QED BY <1>1, <1>2, AlwaysInv, PTL DEF ArraySpec, IsList, L!Spec
=============================================================================
