----------------------------- MODULE EvalProofs -----------------------------
(***************************************************************************)
(* The evaluator keeps its types, its activations nested, and the promises *)
(* of CallStack, for all code, functions, values, C functions and bounds.  *)
(*                                                                         *)
(* Its steps come in a few shapes, by what they do to the frame stack and  *)
(* to the activations.  The first half shows what each shape preserves and *)
(* which step of CallStack it is, the second that every step has one.      *)
(***************************************************************************)
EXTENDS Eval, SeqFacts, TLAPS

(***************************************************************************)
(* The inductive invariant.  A script frame has room for its variables,    *)
(* and an activation inside a C function remembers which.                  *)
(***************************************************************************)
ItemsOK ==
    \A k \in 1 .. Len(frames) :
       ~Func[frames[k].func].cfunc =>
          Len(frames[k].items) = Func[frames[k].func].varc

CFuncsOK ==
    \A i \in 1 .. Len(calls) :
       calls[i].pc = "cfunc" => /\ calls[i].value \in Function
                                /\ Func[calls[i].value].cfunc

Inv == TypeOK /\ ActsNested /\ ItemsOK /\ CFuncsOK

-----------------------------------------------------------------------------
(* Values *)

LEMMA HalfNat == Half \in Nat /\ Half > 14
  BY HalfAssumption DEF SXE_DIVZERO

(* Numbers wrap.                                                           *)
LEMMA CreateNumber == ASSUME NEW i \in Int PROVE Create(i) \in Number
<1>1. Half \in Nat /\ Half > 0
  BY HalfNat
<1>2. (i + Half) % (2 * Half) \in 0 .. 2 * Half - 1
  BY <1>1
<1> QED BY <1>1, <1>2 DEF Create, Number

(* Any value can be read as a number.                                      *)
LEMMA ToIntInt == ASSUME NEW v \in Value PROVE ToInt(v) \in Int
<1>1. Addr \in [Object -> Number \ {0}]
  BY ObjectAssumption
<1>2. Number \subseteq Int
  BY HalfNat DEF Number
<1>3. CASE v \in Object
  BY <1>1, <1>2, <1>3, ObjectAssumption DEF ToInt
<1>4. CASE v \in Number
  BY <1>2, <1>4, ObjectAssumption DEF ToInt
<1> QED BY <1>3, <1>4 DEF ToInt, Value

LEMMA QuotientInt ==
    ASSUME NEW a \in Int, NEW b \in Int, b # 0
    PROVE  Quotient(a, b) \in Int
<1>1. Magnitude(a) \in Nat /\ Magnitude(b) \in Nat \ {0}
  BY DEF Magnitude
<1>2. Magnitude(a) \div Magnitude(b) \in Int
  BY <1>1
<1> QED BY <1>2 DEF Quotient

LEMMA SmallNumbers ==
    /\ 0 \in Value /\ 1 \in Value /\ Error \subseteq Value /\ Nil \in Value
    /\ \A b \in BOOLEAN : Truth(b) \in Value
  BY HalfNat DEF Value, Number, Error, Truth, SXE_BADTYPE, SXE_UNDEFINED, SXE_NILCALL,
                 SXE_BADARGS, SXE_EXISTS, SXE_DIVZERO

LEMMA SomeObjects ==
    /\ Some(Array) \in Array /\ Some(String) \in String
    /\ Some(Iterator) \in Iterator /\ Some(Struct) \in Struct
  BY ObjectAssumption DEF Some

LEMMA Kinds ==
    /\ Function \subseteq Value /\ Array \subseteq Value /\ String \subseteq Value
    /\ Struct \subseteq Value /\ Iterator \subseteq Value /\ TypeValue \subseteq Value
    /\ Number \subseteq Value
  BY DEF Value, Object

LEMMA MethodFunction ==
    ASSUME NEW v \in Value, NEW m \in Name, MethodOf(v, m) # NoMethod
    PROVE  MethodOf(v, m) \in Function
<1>1. Method \in [Number \cup Object -> [Name -> Function \cup {NoMethod}]]
  BY MethodAssumption
<1>2. v # Nil /\ MethodOf(v, m) = Method[v][m]
  BY DEF MethodOf
<1>3. v \in Number \cup Object
  BY <1>2 DEF Value
<1> QED BY <1>1, <1>2, <1>3

LEMMA ComparisonInt ==
    ASSUME NEW a \in Value, NEW b \in Value, NEW c \in Comparison(a, b)
    PROVE  c \in Int
  BY DEF Comparison

-----------------------------------------------------------------------------
(* The frame stack between two instructions *)

(* fs is the frame stack with nothing changed but the top frame's position, *)
(* flag and variables.                                                     *)
Like(fs) ==
    /\ fs \in Seq(Frame)
    /\ Len(fs) = Len(frames)
    /\ \A k \in 1 .. Len(frames) :
         /\ fs[k].access = frames[k].access
         /\ fs[k].func = frames[k].func
         /\ Len(fs[k].items) = Len(frames[k].items)
    /\ \A k \in 1 .. Len(frames) - 1 : fs[k] = frames[k]

LEMMA LikeSelf == ASSUME TypeOK PROVE Like(frames)
  BY DEF TypeOK, Like

LEMMA LikeTop ==
    ASSUME TypeOK, frames # <<>>, NEW fs, Like(fs),
           NEW r \in Frame,
           r.access = fs[Len(frames)].access,
           r.func = fs[Len(frames)].func,
           Len(r.items) = Len(fs[Len(frames)].items)
    PROVE  Like([fs EXCEPT ![Len(frames)] = r])
<1>1. Len(frames) \in 1 .. Len(fs) /\ fs \in Seq(Frame) /\ Len(frames) \in Nat
  BY DEF TypeOK, Like
<1> DEFINE gs == [fs EXCEPT ![Len(frames)] = r]
<1>2. /\ gs \in Seq(Frame)
      /\ Len(gs) = Len(fs)
      /\ gs[Len(frames)] = r
      /\ \A k \in 1 .. Len(fs) : k # Len(frames) => gs[k] = fs[k]
  BY <1>1, UpdateSeq
<1> HIDE DEF gs
<1>3. Like(gs)
  BY <1>1, <1>2 DEF Like
<1> QED BY <1>3 DEF gs

LEMMA TopFrame ==
    ASSUME TypeOK, frames # <<>>
    PROVE  GetFrame \in Frame /\ Len(frames) \in 1 .. Len(frames)
  BY DEF TypeOK, GetFrame

LEMMA AdvancedLike ==
    ASSUME TypeOK, frames # <<>>
    PROVE  Like(Advanced)
<1> DEFINE r == [frames[Len(frames)] EXCEPT !.op_ptr = @ + 1]
<1>1. frames[Len(frames)] \in Frame
  BY TopFrame DEF GetFrame
<1>2. /\ r \in Frame
      /\ r.access = frames[Len(frames)].access
      /\ r.func = frames[Len(frames)].func
      /\ r.items = frames[Len(frames)].items
  BY <1>1 DEF Frame
<1>3. Like([frames EXCEPT ![Len(frames)] = r])
  <2> HIDE DEF r
  <2> QED BY <1>2, LikeSelf, LikeTop
<1> QED BY <1>3 DEF Advanced

LEMMA JumpedLike ==
    ASSUME TypeOK, frames # <<>>, NEW n \in Nat \ {0}
    PROVE  Like(Jumped(n))
<1> DEFINE r == [frames[Len(frames)] EXCEPT !.op_ptr = n]
<1>1. frames[Len(frames)] \in Frame
  BY TopFrame DEF GetFrame
<1>2. /\ r \in Frame
      /\ r.access = frames[Len(frames)].access
      /\ r.func = frames[Len(frames)].func
      /\ r.items = frames[Len(frames)].items
  BY <1>1 DEF Frame
<1>3. Like([frames EXCEPT ![Len(frames)] = r])
  <2> HIDE DEF r
  <2> QED BY <1>2, LikeSelf, LikeTop
<1> QED BY <1>3 DEF Jumped

LEMMA FlagLike ==
    ASSUME TypeOK, frames # <<>>, NEW fs, Like(fs), NEW b \in BOOLEAN
    PROVE  Like([fs EXCEPT ![Len(frames)].flag = b])
<1> DEFINE r == [fs[Len(frames)] EXCEPT !.flag = b]
<1>1. fs[Len(frames)] \in Frame
  BY DEF Like, TypeOK
<1>2. /\ r \in Frame
      /\ r.access = fs[Len(frames)].access
      /\ r.func = fs[Len(frames)].func
      /\ r.items = fs[Len(frames)].items
  BY <1>1 DEF Frame
<1>3. Like([fs EXCEPT ![Len(frames)] = r])
  <2> HIDE DEF r
  <2> QED BY <1>2, LikeTop
<1> QED BY <1>3

LEMMA FlaggedLike ==
    ASSUME TypeOK, frames # <<>>, NEW b \in BOOLEAN
    PROVE  Like(Flagged(b))
  BY AdvancedLike, FlagLike DEF Flagged

LEMMA AssignedLike ==
    ASSUME TypeOK, frames # <<>>, NEW n \in 1 .. Len(GetFrame.items), NEW v \in Value
    PROVE  Like(Assigned(n, v))
<1>1. Like(Advanced)
  BY AdvancedLike
<1> DEFINE fs == Advanced
           old == fs[Len(frames)].items
           new == [old EXCEPT ![n] = v]
           r == [fs[Len(frames)] EXCEPT !.items = new]
<1>2. fs[Len(frames)] \in Frame
  BY <1>1 DEF Like, TypeOK
<1>3. old \in Seq(Value) /\ n \in 1 .. Len(old)
  BY <1>1, <1>2, TopFrame DEF Like, Frame, GetFrame
<1>4. new \in Seq(Value) /\ Len(new) = Len(old)
  BY <1>3, UpdateSeq
<1>5. /\ r \in Frame
      /\ r.access = fs[Len(frames)].access
      /\ r.func = fs[Len(frames)].func
      /\ Len(r.items) = Len(old)
  <2> HIDE DEF new, fs
  <2> QED BY <1>2, <1>4 DEF Frame
<1>6. Like([fs EXCEPT ![Len(frames)] = r])
  <2> HIDE DEF r, fs
  <2> QED BY <1>1, <1>5, LikeTop DEF fs
<1> QED BY <1>6 DEF Assigned

-----------------------------------------------------------------------------
(* The steps, by what they do to the two stacks of control *)

(* cs is the activations with nothing changed but the place of the         *)
(* innermost.                                                              *)
Moved(cs) ==
    /\ cs \in Seq(Activation)
    /\ Len(cs) = Len(calls)
    /\ \A k \in 1 .. Len(calls) - 1 : cs[k] = calls[k]
    /\ calls # <<>> =>
         /\ cs[Len(calls)].ft = Act.ft
         /\ cs[Len(calls)].pc = "cfunc" => /\ cs[Len(calls)].value \in Function
                                           /\ Func[cs[Len(calls)].value].cfunc

(* The innermost activation has a frame under way.                         *)
Busy == Len(calls) > 0 /\ Len(frames) >= Act.ft

(* A frame that PushFrame may make.                                        *)
Pushable(r) ==
    /\ r \in Frame
    /\ ~Func[r.func].cfunc => Len(r.items) = Func[r.func].varc
    /\ r.access \subseteq Func[r.func].access
    /\ frames # <<>> => r.access \subseteq GetFrame.access

StillStep ==
    /\ Like(frames')
    /\ Moved(calls')
    /\ calls # <<>> => Busy

CallStep ==
    /\ Busy
    /\ \E fs, r : Like(fs) /\ Pushable(r) /\ frames' = Append(fs, r)
    /\ Moved(calls')

ReturnStep ==
    /\ Busy
    /\ frames' = SubSeq(frames, 1, Len(frames) - 1)
    /\ Moved(calls')
    /\ calls'[Len(calls)].pc = "loop"

BeginStep ==
    /\ \E fs, r : Like(fs) /\ Pushable(r) /\ frames' = Append(fs, r)
    /\ \E cs : /\ Moved(cs)
               /\ calls # <<>> => Busy /\ cs[Len(calls)].pc \notin {"loop", "exec"}
               /\ calls' = Append(cs, [pc |-> "loop", ft |-> Len(frames) + 1,
                                       value |-> Nil])

EndStep ==
    /\ Len(calls) > 0
    /\ \E fs, n : /\ Like(fs)
                  /\ Busy \/ fs = frames
                  /\ n \in 0 .. Len(frames)
                  /\ n >= Act.ft - 1
                  /\ frames' = SubSeq(fs, 1, n)
    /\ calls' = SubSeq(calls, 1, Len(calls) - 1)

Shape == \/ StillStep \/ CallStep \/ ReturnStep \/ BeginStep \/ EndStep
         \/ UNCHANGED <<frames, calls>>

(* The variables that have nothing but a type to keep.                     *)
DataOK ==
    /\ data_stack \in Seq(Value)
    /\ state \in {"READY", "RUNNING", "FAILED"}
    /\ result \in [err : Int, val : Value]
    /\ crashed \in {"no", "arity", "underflow", "empty"}
    /\ raised \in Error \cup {0, YIELDED}

-----------------------------------------------------------------------------
(* What a shape preserves *)

LEMMA ActType ==
    ASSUME Inv, Len(calls) > 0
    PROVE  /\ Act \in Activation /\ Act.ft \in Nat \ {0}
           /\ Len(calls) \in Nat /\ Len(calls) \in 1 .. Len(calls)
<1>1. calls \in Seq(Activation) /\ Len(calls) \in 1 .. Len(calls)
  BY DEF Inv, TypeOK
<1>2. Act \in Activation
  BY <1>1 DEF Act
<1> QED BY <1>1, <1>2 DEF Activation

(* A push on a stack like frames.                                          *)
LEMMA FramesNat == ASSUME Inv PROVE Len(frames) \in Nat
  BY DEF Inv, TypeOK

LEMMA PushedFrames ==
    ASSUME Inv, NEW fs, Like(fs), NEW r, Pushable(r), frames' = Append(fs, r)
    PROVE  /\ frames' \in Seq(Frame)
           /\ Len(frames') = Len(frames) + 1
           /\ \A k \in 1 .. Len(frames) : frames'[k] = fs[k]
           /\ frames'[Len(frames) + 1] = r
           /\ ItemsOK'
<1>1. /\ frames' \in Seq(Frame)
      /\ Len(frames') = Len(frames) + 1
      /\ \A k \in 1 .. Len(frames) : frames'[k] = fs[k]
      /\ frames'[Len(frames) + 1] = r
  BY AppendSeq DEF Like, Pushable
<1>2. Len(frames) \in Nat
  BY DEF Inv, TypeOK
<1>3. ASSUME NEW k \in 1 .. Len(frames'), ~Func[frames'[k].func].cfunc
      PROVE  Len(frames'[k].items) = Func[frames'[k].func].varc
  <2>1. CASE k \in 1 .. Len(frames)
    <3>1. /\ frames'[k].func = frames[k].func
          /\ Len(frames'[k].items) = Len(frames[k].items)
      BY <1>1, <2>1 DEF Like
    <3> QED BY <3>1, <1>3, <2>1 DEF Inv, ItemsOK
  <2>2. CASE k = Len(frames) + 1
    BY <1>1, <1>3, <2>2 DEF Pushable
  <2> QED BY <1>1, <1>2, <2>1, <2>2
<1> QED BY <1>1, <1>3 DEF ItemsOK

(* A cut of a stack like frames.                                           *)
LEMMA CutFrames ==
    ASSUME Inv, NEW fs, Like(fs), NEW n \in 0 .. Len(frames),
           frames' = SubSeq(fs, 1, n)
    PROVE  /\ frames' \in Seq(Frame)
           /\ Len(frames') = n
           /\ \A k \in 1 .. n : frames'[k] = fs[k]
           /\ ItemsOK'
<1>1. /\ frames' \in Seq(Frame)
      /\ Len(frames') = n
      /\ \A k \in 1 .. n : frames'[k] = fs[k]
  BY PrefixSeq DEF Like
<1>2. ASSUME NEW k \in 1 .. Len(frames'), ~Func[frames'[k].func].cfunc
      PROVE  Len(frames'[k].items) = Func[frames'[k].func].varc
  <2>1. k \in 1 .. Len(frames) /\ k \in 1 .. n
    BY <1>1 DEF Inv, TypeOK
  <2>2. /\ frames'[k].func = frames[k].func
        /\ Len(frames'[k].items) = Len(frames[k].items)
    BY <1>1, <2>1 DEF Like
  <2> QED BY <2>1, <2>2, <1>2 DEF Inv, ItemsOK
<1> QED BY <1>1, <1>2 DEF ItemsOK

(* Activations after the innermost has moved: those under it are as nested *)
(* and remember what they did.                                             *)
LEMMA MovedCalls ==
    ASSUME Inv, NEW cs, Moved(cs)
    PROVE  /\ cs \in Seq(Activation)
           /\ Len(cs) = Len(calls)
           /\ \A i \in 1 .. Len(cs) : cs[i].ft = calls[i].ft
           /\ \A i \in 1 .. Len(cs) - 1 : cs[i].pc \notin {"loop", "exec"}
           /\ \A i \in 1 .. Len(cs) :
                cs[i].pc = "cfunc" => /\ cs[i].value \in Function
                                      /\ Func[cs[i].value].cfunc
<1>1. Len(calls) \in Nat /\ cs \in Seq(Activation) /\ Len(cs) = Len(calls)
  BY DEF Inv, TypeOK, Moved
<1>2. ASSUME NEW i \in 1 .. Len(cs) - 1
      PROVE  cs[i] = calls[i] /\ i \in 1 .. Len(calls) /\ cs[i].pc \notin {"loop", "exec"}
  BY <1>1 DEF Inv, ActsNested, Moved
<1>3. ASSUME Len(cs) > 0
      PROVE  /\ cs[Len(cs)].ft = calls[Len(cs)].ft
             /\ cs[Len(cs)].pc = "cfunc" => /\ cs[Len(cs)].value \in Function
                                            /\ Func[cs[Len(cs)].value].cfunc
  <2>1. calls # <<>>
    BY <1>1, <1>3
  <2> QED BY <1>1, <2>1 DEF Moved, Act
<1>4. ASSUME NEW i \in 1 .. Len(cs)
      PROVE  /\ cs[i].ft = calls[i].ft
             /\ cs[i].pc = "cfunc" => /\ cs[i].value \in Function
                                      /\ Func[cs[i].value].cfunc
  <2>1. CASE i \in 1 .. Len(cs) - 1
    BY <1>2, <2>1 DEF Inv, CFuncsOK
  <2>2. CASE i = Len(cs)
    BY <1>1, <1>3, <2>2
  <2> QED BY <1>1, <2>1, <2>2
<1> QED BY <1>1, <1>2, <1>4

LEMMA StillInv ==
    ASSUME Inv, StillStep
    PROVE  /\ frames' \in Seq(Frame) /\ calls' \in Seq(Activation)
           /\ ActsNested' /\ ItemsOK' /\ CFuncsOK'
<1>1. Like(frames') /\ Moved(calls') /\ (calls # <<>> => Busy)
  BY DEF StillStep
<1>2. /\ calls' \in Seq(Activation)
      /\ Len(calls') = Len(calls)
      /\ \A i \in 1 .. Len(calls') : calls'[i].ft = calls[i].ft
      /\ \A i \in 1 .. Len(calls') - 1 : calls'[i].pc \notin {"loop", "exec"}
      /\ CFuncsOK'
  BY <1>1, MovedCalls DEF CFuncsOK
<1>3. frames' \in Seq(Frame) /\ Len(frames') = Len(frames) /\ Len(frames) \in Nat
  BY <1>1 DEF Like, Inv, TypeOK
<1>4. ItemsOK'
  BY <1>1, <1>3 DEF Like, Inv, ItemsOK
<1>5. \A i, j \in 1 .. Len(calls') : i < j => calls'[i].ft < calls'[j].ft
  BY <1>2 DEF Inv, ActsNested
<1>6. ASSUME calls' # <<>>
      PROVE  Len(frames') >= Act'.ft /\ Act'.ft \in Nat
  <2>1. Len(calls) > 0 /\ calls # <<>>
    BY <1>2, <1>6, EmptySeq DEF Inv, TypeOK
  <2>2. Act'.ft = Act.ft /\ Act.ft \in Nat
    BY <1>2, <2>1, ActType DEF Act
  <2> QED BY <1>1, <1>3, <2>1, <2>2 DEF Busy
<1> QED BY <1>2, <1>3, <1>4, <1>5, <1>6 DEF ActsNested

LEMMA CallInv ==
    ASSUME Inv, CallStep
    PROVE  /\ frames' \in Seq(Frame) /\ calls' \in Seq(Activation)
           /\ ActsNested' /\ ItemsOK' /\ CFuncsOK'
<1>1. PICK fs, r : Like(fs) /\ Pushable(r) /\ frames' = Append(fs, r)
  BY DEF CallStep
<1>2. /\ calls' \in Seq(Activation)
      /\ Len(calls') = Len(calls)
      /\ \A i \in 1 .. Len(calls') : calls'[i].ft = calls[i].ft
      /\ \A i \in 1 .. Len(calls') - 1 : calls'[i].pc \notin {"loop", "exec"}
      /\ CFuncsOK'
  BY MovedCalls DEF CFuncsOK, CallStep
<1>3. /\ frames' \in Seq(Frame) /\ Len(frames') = Len(frames) + 1 /\ Len(frames) \in Nat
      /\ ItemsOK'
  BY <1>1, PushedFrames, FramesNat
<1>5. \A i, j \in 1 .. Len(calls') : i < j => calls'[i].ft < calls'[j].ft
  BY <1>2 DEF Inv, ActsNested
<1>6. Len(frames') >= Act'.ft /\ Act'.ft \in Nat
  <2>1. Busy /\ Len(calls) > 0
    BY DEF CallStep, Busy
  <2>2. Act'.ft = Act.ft /\ Act.ft \in Nat
    BY <1>2, <2>1, ActType DEF Act
  <2> QED BY <1>3, <2>1, <2>2 DEF Busy
<1> QED BY <1>2, <1>3, <1>5, <1>6 DEF ActsNested

LEMMA ReturnInv ==
    ASSUME Inv, ReturnStep
    PROVE  /\ frames' \in Seq(Frame) /\ calls' \in Seq(Activation)
           /\ ActsNested' /\ ItemsOK' /\ CFuncsOK'
<1>0. Busy /\ Len(calls) > 0 /\ Len(frames) \in Nat
  BY DEF ReturnStep, Busy, Inv, TypeOK
<1>1. Act.ft \in Nat \ {0} /\ Len(calls) \in 1 .. Len(calls)
  BY <1>0, ActType
<1>2. /\ calls' \in Seq(Activation)
      /\ Len(calls') = Len(calls)
      /\ \A i \in 1 .. Len(calls') : calls'[i].ft = calls[i].ft
      /\ \A i \in 1 .. Len(calls') - 1 : calls'[i].pc \notin {"loop", "exec"}
      /\ CFuncsOK'
  BY MovedCalls DEF CFuncsOK, ReturnStep
<1>3. /\ frames' \in Seq(Frame) /\ Len(frames') = Len(frames) - 1 /\ ItemsOK'
  <2>1. Len(frames) - 1 \in 0 .. Len(frames)
    BY <1>0, <1>1 DEF Busy
  <2> QED BY <2>1, LikeSelf, CutFrames DEF Inv, ReturnStep
<1>5. \A i, j \in 1 .. Len(calls') : i < j => calls'[i].ft < calls'[j].ft
  BY <1>2 DEF Inv, ActsNested
<1>6. Len(frames') >= Act'.ft - 1 /\ Act'.pc = "loop"
  BY <1>0, <1>1, <1>2, <1>3 DEF Act, Busy, ReturnStep
<1> QED BY <1>2, <1>3, <1>5, <1>6 DEF ActsNested

LEMMA BeginInv ==
    ASSUME Inv, BeginStep
    PROVE  /\ frames' \in Seq(Frame) /\ calls' \in Seq(Activation)
           /\ ActsNested' /\ ItemsOK' /\ CFuncsOK'
<1> DEFINE a == [pc |-> "loop", ft |-> Len(frames) + 1, value |-> Nil]
<1>1. PICK fs, r : Like(fs) /\ Pushable(r) /\ frames' = Append(fs, r)
  BY DEF BeginStep
<1>2. PICK cs : /\ Moved(cs)
                /\ calls # <<>> => Busy /\ cs[Len(calls)].pc \notin {"loop", "exec"}
                /\ calls' = Append(cs, a)
  BY DEF BeginStep
<1>3. /\ cs \in Seq(Activation)
      /\ Len(cs) = Len(calls) /\ Len(cs) \in Nat
      /\ \A i \in 1 .. Len(cs) : cs[i].ft = calls[i].ft
      /\ \A i \in 1 .. Len(cs) - 1 : cs[i].pc \notin {"loop", "exec"}
      /\ \A i \in 1 .. Len(cs) :
           cs[i].pc = "cfunc" => /\ cs[i].value \in Function
                                 /\ Func[cs[i].value].cfunc
  BY <1>2, MovedCalls
<1>4. /\ frames' \in Seq(Frame) /\ Len(frames') = Len(frames) + 1 /\ Len(frames) \in Nat
      /\ ItemsOK'
  BY <1>1, PushedFrames, FramesNat
<1>5. a \in Activation
  BY <1>4, SmallNumbers DEF Activation, Location
<1>6. /\ calls' \in Seq(Activation)
      /\ Len(calls') = Len(cs) + 1
      /\ \A i \in 1 .. Len(cs) : calls'[i] = cs[i]
      /\ calls'[Len(cs) + 1] = a
  <2> HIDE DEF a
  <2> QED BY <1>2, <1>3, <1>5, AppendSeq
<1>7. ASSUME NEW i \in 1 .. Len(cs)
      PROVE  cs[i].ft <= Len(frames) /\ cs[i].pc \notin {"loop", "exec"} /\ cs[i].ft \in Nat
  <2>1. calls # <<>> /\ Len(calls) > 0 /\ i \in 1 .. Len(calls)
    BY <1>3, <1>7
  <2>2. Act.ft \in Nat /\ Act.ft <= Len(frames) /\ cs[Len(calls)].pc \notin {"loop", "exec"}
    BY <1>2, <1>4, <2>1, ActType DEF Busy
  <2>3. calls[i].ft \in Nat /\ calls[i].ft <= Act.ft
    <3>1. calls[i] \in Activation
      BY <2>1 DEF Inv, TypeOK
    <3>2. i < Len(calls) => calls[i].ft < Act.ft
      BY <1>3, <2>1 DEF Inv, ActsNested, Act
    <3>3. i = Len(calls) => calls[i].ft = Act.ft
      BY DEF Act
    <3> QED BY <1>3, <2>1, <2>2, <3>1, <3>2, <3>3 DEF Activation
  <2>4. cs[i].pc \notin {"loop", "exec"}
    BY <1>3, <2>1, <2>2
  <2> QED BY <1>3, <1>4, <2>2, <2>3, <2>4
<1>8. ASSUME NEW i \in 1 .. Len(calls'), NEW j \in 1 .. Len(calls'), i < j
      PROVE  calls'[i].ft < calls'[j].ft
  <2>1. i \in 1 .. Len(cs)
    BY <1>3, <1>6, <1>8
  <2>2. CASE j \in 1 .. Len(cs)
    BY <1>3, <1>6, <1>8, <2>1, <2>2 DEF Inv, ActsNested
  <2>3. CASE j = Len(cs) + 1
    BY <1>4, <1>6, <1>7, <2>1, <2>3
  <2> QED BY <1>3, <1>6, <2>2, <2>3
<1>9. ActsNested'
  <2>1. \A i \in 1 .. Len(calls') - 1 : calls'[i].pc \notin {"loop", "exec"}
    BY <1>3, <1>6, <1>7
  <2>2. Act' = a
    BY <1>6 DEF Act
  <2> QED BY <1>4, <1>8, <2>1, <2>2 DEF ActsNested
<1>10. CFuncsOK'
  <2>1. ASSUME NEW i \in 1 .. Len(calls'), calls'[i].pc = "cfunc"
        PROVE  calls'[i].value \in Function /\ Func[calls'[i].value].cfunc
    <3>1. i # Len(cs) + 1
      BY <1>6, <2>1
    <3> QED BY <1>3, <1>6, <2>1, <3>1
  <2> QED BY <2>1 DEF CFuncsOK
<1> QED BY <1>4, <1>6, <1>9, <1>10

LEMMA EndInv ==
    ASSUME Inv, EndStep
    PROVE  /\ frames' \in Seq(Frame) /\ calls' \in Seq(Activation)
           /\ ActsNested' /\ ItemsOK' /\ CFuncsOK'
<1>0. Len(calls) > 0 /\ Len(frames) \in Nat
  BY DEF EndStep, Inv, TypeOK
<1>1. Act.ft \in Nat \ {0} /\ Len(calls) \in 1 .. Len(calls) /\ Len(calls) \in Nat
  BY <1>0, ActType
<1>2. PICK fs, n : /\ Like(fs)
                   /\ n \in 0 .. Len(frames)
                   /\ n >= Act.ft - 1
                   /\ frames' = SubSeq(fs, 1, n)
  BY DEF EndStep
<1>3. frames' \in Seq(Frame) /\ Len(frames') = n /\ ItemsOK'
  BY <1>2, CutFrames
<1>4. /\ calls' \in Seq(Activation)
      /\ Len(calls') = Len(calls) - 1
      /\ \A i \in 1 .. Len(calls) - 1 : calls'[i] = calls[i]
  <2>1. /\ calls \in Seq(Activation)
        /\ Len(calls) - 1 \in 0 .. Len(calls)
        /\ calls' = SubSeq(calls, 1, Len(calls) - 1)
    BY <1>1 DEF EndStep, Inv, TypeOK
  <2> QED BY <2>1, PrefixSeq
<1>5. ASSUME NEW i \in 1 .. Len(calls'), NEW j \in 1 .. Len(calls'), i < j
      PROVE  calls'[i].ft < calls'[j].ft
  <2>1. i \in 1 .. Len(calls) /\ j \in 1 .. Len(calls)
    BY <1>1, <1>4, <1>5
  <2>2. calls[i].ft < calls[j].ft
    BY <1>5, <2>1 DEF Inv, ActsNested
  <2> QED BY <1>1, <1>4, <1>5, <2>2
<1>6. \A i \in 1 .. Len(calls') : calls'[i].pc \notin {"loop", "exec"}
  BY <1>1, <1>4 DEF Inv, ActsNested
<1>7. ASSUME calls' # <<>>
      PROVE  Len(frames') >= Act'.ft /\ Act'.pc \notin {"loop", "exec"}
  <2>1. Len(calls) - 1 \in 1 .. Len(calls) - 1
    BY <1>1, <1>4, <1>7, EmptySeq
  <2>2. Act' = calls[Len(calls) - 1]
    BY <1>4, <2>1 DEF Act
  <2>3. calls[Len(calls) - 1].ft < Act.ft /\ calls[Len(calls) - 1] \in Activation
    BY <1>1, <2>1 DEF Inv, ActsNested, Act, TypeOK
  <2>4. calls[Len(calls) - 1].ft \in Nat
    BY <2>3 DEF Activation
  <2> QED BY <1>1, <1>2, <1>3, <1>4, <1>6, <2>1, <2>2, <2>3, <2>4
<1>8. ActsNested'
  BY <1>4, <1>1, <1>5, <1>6, <1>7 DEF ActsNested
<1>9. CFuncsOK'
  BY <1>1, <1>4 DEF Inv, CFuncsOK
<1> QED BY <1>3, <1>4, <1>8, <1>9

(* A step of one of the shapes that types the data preserves the invariant. *)
LEMMA ShapeInv == ASSUME Inv, Shape, DataOK' PROVE Inv'
<1>1. CASE UNCHANGED <<frames, calls>>
  <2>1. frames' \in Seq(Frame) /\ calls' \in Seq(Activation)
    BY <1>1 DEF Inv, TypeOK
  <2>2. ActsNested' /\ ItemsOK' /\ CFuncsOK'
    BY <1>1 DEF Inv, ActsNested, Act, ItemsOK, CFuncsOK
  <2> QED BY <2>1, <2>2 DEF Inv, TypeOK, DataOK
<1>2. CASE StillStep
  BY <1>2, StillInv DEF Inv, TypeOK, DataOK
<1>3. CASE CallStep
  BY <1>3, CallInv DEF Inv, TypeOK, DataOK
<1>4. CASE ReturnStep
  BY <1>4, ReturnInv DEF Inv, TypeOK, DataOK
<1>5. CASE BeginStep
  BY <1>5, BeginInv DEF Inv, TypeOK, DataOK
<1>6. CASE EndStep
  BY <1>6, EndInv DEF Inv, TypeOK, DataOK
<1> QED BY <1>1, <1>2, <1>3, <1>4, <1>5, <1>6 DEF Shape

-----------------------------------------------------------------------------
(* What a shape means for CallStack *)

AccessStack == [k \in 1 .. Len(frames) |-> frames[k].access]
FrameTops   == [k \in 1 .. Len(calls) |-> calls[k].ft]

LEMMA RightsSeq ==
    ASSUME NEW fs \in Seq(Frame)
    PROVE  /\ [k \in 1 .. Len(fs) |-> fs[k].access] \in Seq(SUBSET Security)
           /\ Len([k \in 1 .. Len(fs) |-> fs[k].access]) = Len(fs)
<1>1. ASSUME NEW k \in 1 .. Len(fs) PROVE fs[k].access \in SUBSET Security
  <2>1. fs[k] \in Frame
    OBVIOUS
  <2> QED BY <2>1 DEF Frame
<1>2. [k \in 1 .. Len(fs) |-> fs[k].access] \in [1 .. Len(fs) -> SUBSET Security]
  BY <1>1
<1>3. Len(fs) \in Nat
  OBVIOUS
<1> QED BY <1>2, <1>3, MakeSeq

LEMMA TopsSeq ==
    ASSUME NEW cs \in Seq(Activation)
    PROVE  /\ [k \in 1 .. Len(cs) |-> cs[k].ft] \in Seq(Nat \ {0})
           /\ Len([k \in 1 .. Len(cs) |-> cs[k].ft]) = Len(cs)
<1>1. ASSUME NEW k \in 1 .. Len(cs) PROVE cs[k].ft \in Nat \ {0}
  <2>1. cs[k] \in Activation
    OBVIOUS
  <2> QED BY <2>1 DEF Activation
<1>2. [k \in 1 .. Len(cs) |-> cs[k].ft] \in [1 .. Len(cs) -> Nat \ {0}]
  BY <1>1
<1>3. Len(cs) \in Nat
  OBVIOUS
<1> QED BY <1>2, <1>3, MakeSeq

LEMMA Abstracted ==
    ASSUME Inv
    PROVE  /\ AccessStack \in Seq(SUBSET Security)
           /\ Len(AccessStack) = Len(frames)
           /\ FrameTops \in Seq(Nat \ {0})
           /\ Len(FrameTops) = Len(calls)
  BY RightsSeq, TopsSeq DEF Inv, TypeOK, AccessStack, FrameTops

(* A push is a push of rights that the caller grants.                      *)
LEMMA PushedRights ==
    ASSUME Inv, NEW fs, Like(fs), NEW r, Pushable(r), frames' = Append(fs, r)
    PROVE  /\ r.access \in SUBSET Security
           /\ AccessStack # <<>> => r.access \subseteq AccessStack[Len(AccessStack)]
           /\ AccessStack' = Append(AccessStack, r.access)
<1>1. /\ frames' \in Seq(Frame)
      /\ Len(frames') = Len(frames) + 1 /\ Len(frames) \in Nat
      /\ \A k \in 1 .. Len(frames) : frames'[k] = fs[k]
      /\ frames'[Len(frames) + 1] = r
  BY PushedFrames, FramesNat
<1>2. r.access \in SUBSET Security
  BY DEF Pushable, Frame
<1>3. ASSUME AccessStack # <<>> PROVE r.access \subseteq AccessStack[Len(AccessStack)]
  <2>1. Len(frames) > 0 /\ frames # <<>>
    BY <1>1, <1>3, Abstracted, EmptySeq
  <2> QED BY <1>1, <2>1, Abstracted DEF Pushable, GetFrame, AccessStack
<1>4. AccessStack' = Append(AccessStack, r.access)
  <2>1. /\ AccessStack' \in Seq(SUBSET Security)
        /\ Len(AccessStack') = Len(frames) + 1
    BY <1>1, RightsSeq DEF AccessStack
  <2>2. /\ Append(AccessStack, r.access) \in Seq(SUBSET Security)
        /\ Len(Append(AccessStack, r.access)) = Len(frames) + 1
        /\ \A k \in 1 .. Len(frames) : Append(AccessStack, r.access)[k] = AccessStack[k]
        /\ Append(AccessStack, r.access)[Len(frames) + 1] = r.access
    BY <1>2, Abstracted, AppendSeq
  <2>3. ASSUME NEW k \in 1 .. Len(frames) + 1
        PROVE  AccessStack'[k] = Append(AccessStack, r.access)[k]
    <3>1. CASE k \in 1 .. Len(frames)
      BY <1>1, <2>2, <3>1 DEF AccessStack, Like
    <3>2. CASE k = Len(frames) + 1
      <4>1. k \in 1 .. Len(frames') /\ frames'[k] = r
        BY <1>1, <3>2
      <4>2. AccessStack'[k] = r.access
        BY <4>1 DEF AccessStack
      <4> QED BY <2>2, <3>2, <4>2
    <3>3. k \in 1 .. Len(frames) \/ k = Len(frames) + 1
      BY <1>1
    <3> QED BY <3>1, <3>2, <3>3
  <2> QED BY <2>1, <2>2, <2>3, SameSeq
<1> QED BY <1>2, <1>3, <1>4

LEMMA CutRights ==
    ASSUME Inv, NEW fs, Like(fs), NEW n \in 0 .. Len(frames),
           frames' = SubSeq(fs, 1, n)
    PROVE  AccessStack' = SubSeq(AccessStack, 1, n)
<1>1. /\ frames' \in Seq(Frame)
      /\ Len(frames') = n
      /\ \A k \in 1 .. n : frames'[k] = fs[k]
  BY CutFrames
<1>2. Len(frames) \in Nat
  BY DEF Inv, TypeOK
<1>3. /\ AccessStack' \in Seq(SUBSET Security)
      /\ Len(AccessStack') = n
  BY <1>1, RightsSeq DEF AccessStack
<1>4. /\ SubSeq(AccessStack, 1, n) \in Seq(SUBSET Security)
      /\ Len(SubSeq(AccessStack, 1, n)) = n
      /\ \A k \in 1 .. n : SubSeq(AccessStack, 1, n)[k] = AccessStack[k]
  BY Abstracted, PrefixSeq
<1>5. ASSUME NEW k \in 1 .. n PROVE AccessStack'[k] = SubSeq(AccessStack, 1, n)[k]
  BY <1>1, <1>2, <1>4 DEF AccessStack, Like
<1> QED BY <1>3, <1>4, <1>5, SameSeq

LEMMA LikeRights ==
    ASSUME Inv, Like(frames')
    PROVE  AccessStack' = AccessStack
  BY DEF Like, AccessStack

LEMMA MovedTops ==
    ASSUME Inv, NEW cs, Moved(cs)
    PROVE  [k \in 1 .. Len(cs) |-> cs[k].ft] = FrameTops
  BY MovedCalls DEF FrameTops

(* Every step of the evaluator is a step of CallStack, or none.            *)
LEMMA ShapeRefines == ASSUME Inv, Shape PROVE CS!Next \/ UNCHANGED CS!vars
<1>0. /\ Len(AccessStack) = Len(frames) /\ Len(FrameTops) = Len(calls)
      /\ Len(frames) \in Nat /\ Len(calls) \in Nat
      /\ FrameTops = <<>> <=> Len(calls) = 0
  BY Abstracted, EmptySeq DEF Inv, TypeOK
<1>1. ASSUME Len(calls) > 0
      PROVE  FrameTops[Len(FrameTops)] = Act.ft
  BY <1>0, <1>1 DEF FrameTops, Act
<1>2. CASE UNCHANGED <<frames, calls>>
  BY <1>2 DEF CS!vars
<1>3. CASE StillStep
  BY <1>3, LikeRights, MovedTops DEF StillStep, CS!vars, AccessStack, FrameTops
<1>4. CASE CallStep
  <2>1. PICK fs, r : Like(fs) /\ Pushable(r) /\ frames' = Append(fs, r)
    BY <1>4 DEF CallStep
  <2>2. /\ r.access \in SUBSET Security
        /\ AccessStack # <<>> => r.access \subseteq AccessStack[Len(AccessStack)]
        /\ AccessStack' = Append(AccessStack, r.access)
    BY <2>1, PushedRights
  <2>3. FrameTops' = FrameTops
    BY <1>4, MovedTops DEF CallStep, FrameTops
  <2>4. FrameTops # <<>> /\ FrameTops[Len(FrameTops)] <= Len(AccessStack)
    BY <1>0, <1>1, <1>4 DEF CallStep, Busy, ActType
  <2>5. CS!Call
    BY <2>2, <2>3, <2>4 DEF CS!Call, CS!Granted, CS!Mark, CS!Height, AccessStack, FrameTops
  <2> QED BY <2>5 DEF CS!Next
<1>5. CASE ReturnStep
  <2>1. Busy /\ Act.ft \in Nat \ {0}
    BY <1>5, ActType DEF ReturnStep, Busy
  <2>2. AccessStack' = SubSeq(AccessStack, 1, Len(AccessStack) - 1)
    <3>1. Len(frames) - 1 \in 0 .. Len(frames)
      BY <1>0, <2>1 DEF Busy
    <3> QED BY <1>0, <1>5, <3>1, LikeSelf, CutRights DEF ReturnStep, Inv
  <2>3. FrameTops' = FrameTops
    BY <1>5, MovedTops DEF ReturnStep, FrameTops
  <2>4. FrameTops # <<>> /\ FrameTops[Len(FrameTops)] <= Len(AccessStack)
    BY <1>0, <1>1, <2>1 DEF Busy
  <2>5. CS!Return
    BY <2>2, <2>3, <2>4 DEF CS!Return, CS!Mark, CS!Height, AccessStack, FrameTops
  <2> QED BY <2>5 DEF CS!Next
<1>6. CASE BeginStep
  <2>1. PICK fs, r : Like(fs) /\ Pushable(r) /\ frames' = Append(fs, r)
    BY <1>6 DEF BeginStep
  <2>2. /\ r.access \in SUBSET Security
        /\ AccessStack # <<>> => r.access \subseteq AccessStack[Len(AccessStack)]
        /\ AccessStack' = Append(AccessStack, r.access)
    BY <2>1, PushedRights
  <2>3. FrameTops' = Append(FrameTops, Len(AccessStack) + 1)
    <3> DEFINE a == [pc |-> "loop", ft |-> Len(frames) + 1, value |-> Nil]
    <3>1. PICK cs : Moved(cs) /\ calls' = Append(cs, a)
      BY <1>6 DEF BeginStep
    <3>2. cs \in Seq(Activation) /\ Len(cs) = Len(calls)
          /\ \A k \in 1 .. Len(calls) : cs[k].ft = calls[k].ft
      BY <3>1, MovedCalls
    <3>3. a \in Activation
      BY <1>0, SmallNumbers DEF Activation, Location
    <3>4. /\ calls' \in Seq(Activation)
          /\ Len(calls') = Len(calls) + 1
          /\ \A k \in 1 .. Len(calls) : calls'[k] = cs[k]
          /\ calls'[Len(calls) + 1].ft = Len(frames) + 1
      BY <3>1, <3>2, <3>3, AppendSeq
    <3>5. /\ FrameTops' \in Seq(Nat \ {0})
          /\ Len(FrameTops') = Len(calls) + 1
      BY <3>4, TopsSeq DEF FrameTops
    <3>6. /\ Append(FrameTops, Len(frames) + 1) \in Seq(Nat \ {0})
          /\ Len(Append(FrameTops, Len(frames) + 1)) = Len(calls) + 1
          /\ \A k \in 1 .. Len(calls) : Append(FrameTops, Len(frames) + 1)[k] = FrameTops[k]
          /\ Append(FrameTops, Len(frames) + 1)[Len(calls) + 1] = Len(frames) + 1
      BY <1>0, Abstracted, AppendSeq
    <3>7. ASSUME NEW k \in 1 .. Len(calls) + 1
          PROVE  FrameTops'[k] = Append(FrameTops, Len(frames) + 1)[k]
      <4>1. CASE k \in 1 .. Len(calls)
        BY <1>0, <3>2, <3>4, <3>6, <4>1 DEF FrameTops
      <4>2. CASE k = Len(calls) + 1
        BY <1>0, <3>4, <3>6, <4>2 DEF FrameTops
      <4> QED BY <1>0, <4>1, <4>2
    <3> QED BY <1>0, <3>5, <3>6, <3>7, SameSeq
  <2>4. FrameTops # <<>> => FrameTops[Len(FrameTops)] <= Len(AccessStack)
    BY <1>0, <1>1, <1>6 DEF BeginStep, Busy
  <2>5. CS!Begin
    BY <2>2, <2>3, <2>4 DEF CS!Begin, CS!Granted, CS!Mark, CS!Height, AccessStack, FrameTops
  <2> QED BY <2>5 DEF CS!Next
<1>7. CASE EndStep
  <2>1. PICK fs, n : /\ Like(fs)
                     /\ n \in 0 .. Len(frames)
                     /\ n >= Act.ft - 1
                     /\ frames' = SubSeq(fs, 1, n)
    BY <1>7 DEF EndStep
  <2>2. AccessStack' = SubSeq(AccessStack, 1, n)
    BY <2>1, CutRights
  <2>3. FrameTops' = SubSeq(FrameTops, 1, Len(FrameTops) - 1)
    <3>1. /\ calls \in Seq(Activation) /\ Len(calls) - 1 \in 0 .. Len(calls)
          /\ calls' = SubSeq(calls, 1, Len(calls) - 1)
      BY <1>0, <1>7 DEF EndStep, Inv, TypeOK
    <3>2. /\ calls' \in Seq(Activation)
          /\ Len(calls') = Len(calls) - 1
          /\ \A k \in 1 .. Len(calls) - 1 : calls'[k] = calls[k]
      BY <3>1, PrefixSeq
    <3>3. /\ SubSeq(FrameTops, 1, Len(calls) - 1) \in Seq(Nat \ {0})
          /\ Len(SubSeq(FrameTops, 1, Len(calls) - 1)) = Len(calls) - 1
          /\ \A k \in 1 .. Len(calls) - 1 :
               SubSeq(FrameTops, 1, Len(calls) - 1)[k] = FrameTops[k]
      BY <1>0, <3>1, Abstracted, PrefixSeq
    <3>4. /\ FrameTops' \in Seq(Nat \ {0})
          /\ Len(FrameTops') = Len(calls) - 1
      BY <3>2, TopsSeq DEF FrameTops
    <3>5. ASSUME NEW k \in 1 .. Len(calls) - 1
          PROVE  FrameTops'[k] = SubSeq(FrameTops, 1, Len(calls) - 1)[k]
      BY <1>0, <3>2, <3>3 DEF FrameTops
    <3> QED BY <1>0, <3>3, <3>4, <3>5, SameSeq
  <2>4. FrameTops # <<>> /\ n \in 0 .. Len(AccessStack) /\ n >= FrameTops[Len(FrameTops)] - 1
    BY <1>0, <1>1, <1>7, <2>1 DEF EndStep
  <2>5. CS!End
    BY <2>2, <2>3, <2>4 DEF CS!End, CS!Mark, CS!Height, AccessStack, FrameTops
  <2> QED BY <2>5 DEF CS!Next
<1> QED BY <1>2, <1>3, <1>4, <1>5, <1>6, <1>7 DEF Shape

(* The frames under the innermost activation's first one stay.             *)
LEMMA ShapeKeeps ==
    ASSUME Inv, Shape, calls # <<>>
    PROVE  /\ Len(frames') >= Act.ft - 1
           /\ \A k \in 1 .. Act.ft - 1 : frames'[k] = frames[k]
<1>0. Len(calls) > 0 /\ Len(frames) \in Nat
  BY EmptySeq DEF Inv, TypeOK
<1>1. Act.ft \in Nat \ {0} /\ Len(frames) >= Act.ft - 1
  BY <1>0, ActType DEF Inv, ActsNested
<1>2. ASSUME NEW fs, Like(fs)
      PROVE  \A k \in 1 .. Act.ft - 1 : k \in 1 .. Len(frames) /\ (Busy => fs[k] = frames[k])
  BY <1>0, <1>1, <1>2 DEF Like, Busy
<1>3. CASE UNCHANGED <<frames, calls>>
  BY <1>1, <1>3
<1>4. CASE StillStep
  BY <1>0, <1>1, <1>2, <1>4 DEF StillStep, Like
<1>5. CASE \E fs, r : Busy /\ Like(fs) /\ Pushable(r) /\ frames' = Append(fs, r)
  <2>1. PICK fs, r : Busy /\ Like(fs) /\ Pushable(r) /\ frames' = Append(fs, r)
    BY <1>5
  <2>2. /\ Len(frames') = Len(frames) + 1
        /\ \A k \in 1 .. Len(frames) : frames'[k] = fs[k]
    BY <2>1, PushedFrames
  <2> QED BY <1>0, <1>1, <1>2, <2>1, <2>2
<1>6. CASE ReturnStep
  <2>1. Len(frames) - 1 \in 0 .. Len(frames) /\ Busy
    BY <1>0, <1>1, <1>6 DEF ReturnStep, Busy
  <2>2. Len(frames') = Len(frames) - 1 /\ \A k \in 1 .. Len(frames) - 1 : frames'[k] = frames[k]
    BY <1>6, <2>1, LikeSelf, CutFrames DEF ReturnStep, Inv
  <2> QED BY <1>0, <1>1, <2>1, <2>2 DEF Busy
<1>7. CASE EndStep
  <2>1. PICK fs, n : /\ Like(fs)
                     /\ Busy \/ fs = frames
                     /\ n \in 0 .. Len(frames)
                     /\ n >= Act.ft - 1
                     /\ frames' = SubSeq(fs, 1, n)
    BY <1>7 DEF EndStep
  <2>2. Len(frames') = n /\ \A k \in 1 .. n : frames'[k] = fs[k]
    BY <2>1, CutFrames
  <2>3. \A k \in 1 .. Act.ft - 1 : k \in 1 .. n
    BY <1>0, <1>1, <2>1
  <2> QED BY <1>0, <1>1, <1>2, <2>1, <2>2, <2>3
<1> QED BY <1>0, <1>3, <1>4, <1>5, <1>6, <1>7 DEF Shape, CallStep, BeginStep

(* Rights only narrow towards the top of the stack.                        *)
LEMMA ShapeNarrows ==
    ASSUME Inv, AccessNarrows, Shape
    PROVE  AccessNarrows'
<1>0. Len(frames) \in Nat /\ frames \in Seq(Frame)
  BY DEF Inv, TypeOK
<1>1. ASSUME NEW fs, Like(fs), NEW n \in 0 .. Len(frames), Len(frames') = n,
             \A k \in 1 .. n : frames'[k] = fs[k]
      PROVE  AccessNarrows'
  <2>1. \A k \in 1 .. n : /\ k \in 1 .. Len(frames)
                          /\ frames'[k].access = frames[k].access
                          /\ frames'[k].func = frames[k].func
    <3> SUFFICES ASSUME NEW k \in 1 .. n
                 PROVE  /\ k \in 1 .. Len(frames)
                        /\ frames'[k].access = frames[k].access
                        /\ frames'[k].func = frames[k].func
      OBVIOUS
    <3>1. k \in 1 .. Len(frames)
      BY <1>0
    <3>2. fs[k].access = frames[k].access /\ fs[k].func = frames[k].func
      BY <1>1, <3>1 DEF Like
    <3> QED BY <1>1, <3>1, <3>2
  <2>2. ASSUME NEW j \in 1 .. n, NEW i \in 1 .. j
        PROVE  /\ frames'[j].access \subseteq Func[frames'[j].func].access
               /\ frames'[j].access \subseteq frames'[i].access
    <3>1. i \in 1 .. n
      BY <1>0, <1>1, <2>2
    <3> QED BY <2>1, <2>2, <3>1 DEF AccessNarrows
  <2>3. \A j \in 1 .. n : j \in 1 .. j
    OBVIOUS
  <2> QED BY <1>1, <2>2, <2>3 DEF AccessNarrows
<1>2. ASSUME NEW fs, NEW r, Like(fs), Pushable(r), frames' = Append(fs, r)
      PROVE  AccessNarrows'
  <2>1. /\ Len(frames') = Len(frames) + 1
        /\ \A k \in 1 .. Len(frames) : frames'[k] = fs[k]
        /\ frames'[Len(frames) + 1] = r
    BY <1>2, PushedFrames
  <2>2. \A k \in 1 .. Len(frames) : /\ frames'[k].access = frames[k].access
                                    /\ frames'[k].func = frames[k].func
    BY <1>2, <2>1 DEF Like
  <2>3. r.access \subseteq Func[r.func].access
    BY <1>2 DEF Pushable
  <2>4. ASSUME NEW i \in 1 .. Len(frames) PROVE r.access \subseteq frames[i].access
    <3>1. frames # <<>> /\ Len(frames) \in 1 .. Len(frames) /\ i \in 1 .. Len(frames)
      BY <1>0, <2>4
    <3>2. r.access \subseteq frames[Len(frames)].access
      BY <1>2, <3>1 DEF Pushable, GetFrame
    <3>3. frames[Len(frames)].access \subseteq frames[i].access
      BY <3>1 DEF AccessNarrows
    <3> QED BY <3>2, <3>3
  <2>5. ASSUME NEW j \in 1 .. Len(frames) + 1, NEW i \in 1 .. j
        PROVE  /\ frames'[j].access \subseteq Func[frames'[j].func].access
               /\ frames'[j].access \subseteq frames'[i].access
    <3>1. CASE j \in 1 .. Len(frames)
      <4>1. i \in 1 .. Len(frames)
        BY <1>0, <2>5, <3>1
      <4> QED BY <2>2, <2>5, <3>1, <4>1 DEF AccessNarrows
    <3>2. CASE j = Len(frames) + 1
      <4>1. i \in 1 .. Len(frames) \/ i = Len(frames) + 1
        BY <1>0, <2>5, <3>2
      <4> QED BY <2>1, <2>2, <2>3, <2>4, <3>2, <4>1
    <3>3. j \in 1 .. Len(frames) \/ j = Len(frames) + 1
      BY <1>0
    <3> QED BY <3>1, <3>2, <3>3
  <2>6. \A j \in 1 .. Len(frames) + 1 : j \in 1 .. j
    BY <1>0
  <2> QED BY <2>1, <2>5, <2>6 DEF AccessNarrows
<1>3. Like(frames) /\ Len(frames) \in 0 .. Len(frames)
  BY <1>0, LikeSelf DEF Inv
<1>4. CASE UNCHANGED <<frames, calls>>
  BY <1>4 DEF AccessNarrows
<1>5. CASE StillStep
  BY <1>1, <1>3, <1>5 DEF StillStep, Like
<1>6. CASE ReturnStep
  <2>1. Len(frames) - 1 \in 0 .. Len(frames)
    BY <1>0, <1>6, ActType DEF ReturnStep, Busy
  <2>2. /\ Len(frames') = Len(frames) - 1
        /\ \A k \in 1 .. Len(frames) - 1 : frames'[k] = frames[k]
    BY <1>3, <1>6, <2>1, CutFrames DEF ReturnStep
  <2> QED BY <1>1, <1>3, <2>1, <2>2
<1>7. CASE EndStep
  <2>1. PICK fs, n : Like(fs) /\ n \in 0 .. Len(frames) /\ frames' = SubSeq(fs, 1, n)
    BY <1>7 DEF EndStep
  <2>2. Len(frames') = n /\ \A k \in 1 .. n : frames'[k] = fs[k]
    BY <2>1, CutFrames
  <2> QED BY <1>1, <2>1, <2>2
<1> QED BY <1>2, <1>4, <1>5, <1>6, <1>7 DEF Shape, CallStep, BeginStep

-----------------------------------------------------------------------------
(* The pieces the actions are made of *)

(* The data stack is cut and read within its height.                       *)
LEMMA DropPeek ==
    ASSUME Inv, NEW n \in Nat, n <= Len(data_stack)
    PROVE  /\ Drop(n) \in Seq(Value)
           /\ Len(Drop(n)) = Len(data_stack) - n
           /\ n > 0 => Peek(n) \in Value
<1>1. data_stack \in Seq(Value) /\ Len(data_stack) - n \in 0 .. Len(data_stack)
  BY DEF Inv, TypeOK
<1> QED BY <1>1, PrefixSeq DEF Drop, Peek

LEMMA TopValue == ASSUME Inv, Len(data_stack) >= 1 PROVE Top \in Value
  BY DropPeek DEF Top

(* One more value.                                                         *)
LEMMA OneMore ==
    ASSUME NEW s \in Seq(Value), NEW v \in Value
    PROVE  Append(s, v) \in Seq(Value)
  BY AppendSeq

(* What resize leaves is a stack.                                          *)
LEMMA ResizeSeq ==
    ASSUME NEW s \in Seq(Value), NEW n \in Nat
    PROVE  Resize(s, n) \in Seq(Value)
<1>1. ASSUME NEW k \in 1 .. n
      PROVE  (IF k <= Len(s) THEN s[k] ELSE Nil) \in Value
  BY SmallNumbers
<1>2. Resize(s, n) \in [1 .. n -> Value]
  BY <1>1 DEF Resize
<1> QED BY <1>2, MakeSeq

LEMMA UnwoundSeq ==
    ASSUME Inv, NEW s \in Seq(Value), NEW n \in Nat
    PROVE  Unwound(s, n) \in Seq(Value)
<1>1. CASE Len(frames) <= n
  BY <1>1 DEF Unwound
<1>2. CASE ~(Len(frames) <= n)
  <2> DEFINE top == frames[n + 1].top
             keep(k) == k <= Len(s) /\ \A j \in n + 1 .. Len(frames) : k <= frames[j].top
  <2>1. top \in Nat
    <3>1. frames[n + 1] \in Frame
      BY <1>2 DEF Inv, TypeOK
    <3> QED BY <3>1 DEF Frame
  <2>2. ASSUME NEW k \in 1 .. top PROVE (IF keep(k) THEN s[k] ELSE Nil) \in Value
    <3>1. CASE keep(k)
      BY <2>1, <3>1
    <3>2. CASE ~keep(k)
      BY <3>2, SmallNumbers
    <3> QED BY <3>1, <3>2
  <2>3. [k \in 1 .. top |-> IF keep(k) THEN s[k] ELSE Nil] \in [1 .. top -> Value]
    <3> HIDE DEF keep, top
    <3> QED BY <2>2
  <2>4. [k \in 1 .. top |-> IF keep(k) THEN s[k] ELSE Nil] \in Seq(Value)
    <3> HIDE DEF keep, top
    <3> QED BY <2>1, <2>3, MakeSeq
  <2> QED BY <1>2, <2>4 DEF Unwound
<1> QED BY <1>1, <1>2

(* The frame that PushFrame makes is one that it may make.                 *)
LEMMA NewFramePushable ==
    ASSUME Inv, NEW f \in Function, NEW args \in Seq(Value), NEW top \in Nat,
           Len(args) >= Func[f].argc
    PROVE  Pushable(NewFrame(f, args, top))
<1>1. Func[f] \in [argc : Nat, varc : Nat, varg : BOOLEAN, cfunc : BOOLEAN,
                   access : SUBSET Security]
  BY FuncAssumption
<1>2. /\ Items(f, args) \in Seq(Value)
      /\ ~Func[f].cfunc => Len(Items(f, args)) = Func[f].varc
  <2>1. CASE Func[f].cfunc
    BY <2>1 DEF Items
  <2>2. CASE ~Func[f].cfunc
    <3> DEFINE item(k) == IF k <= Func[f].argc THEN args[k]
                          ELSE IF Func[f].varg /\ k = Func[f].argc + 1 /\ Code[f] # <<>>
                               THEN Some(Array) ELSE Nil
    <3>1. ASSUME NEW k \in 1 .. Func[f].varc PROVE item(k) \in Value
      <4>1. CASE k <= Func[f].argc
        BY <1>1, <4>1
      <4>2. CASE ~(k <= Func[f].argc)
        BY <4>2, SomeObjects, SmallNumbers, Kinds
      <4> QED BY <4>1, <4>2
    <3>2. Items(f, args) = [k \in 1 .. Func[f].varc |-> item(k)]
      BY <2>2 DEF Items
    <3>3. Items(f, args) \in [1 .. Func[f].varc -> Value]
      <4> HIDE DEF item
      <4> QED BY <3>1, <3>2
    <3> QED BY <1>1, <3>3, MakeSeq
  <2> QED BY <2>1, <2>2
<1>3. frames # <<>> => GetFrame.access \subseteq Security
  BY TopFrame DEF Inv, Frame
<1>4. Len(args) \in Nat
  OBVIOUS
<1> HIDE DEF Items
<1> QED BY <1>1, <1>2, <1>3, <1>4 DEF Pushable, NewFrame, Frame

-----------------------------------------------------------------------------
(* Where the innermost activation goes *)

LEMMA MovedSelf == ASSUME Inv PROVE Moved(calls)
<1>1. calls \in Seq(Activation) /\ (calls # <<>> => Len(calls) \in 1 .. Len(calls))
  BY DEF Inv, TypeOK
<1> QED BY <1>1 DEF Moved, Act, Inv, CFuncsOK

LEMMA MovedGotoWith ==
    ASSUME Inv, calls # <<>>, NEW p \in Location, NEW v \in Value,
           p = "cfunc" => v \in Function /\ Func[v].cfunc
    PROVE  Moved(GotoWith(p, v)) /\ GotoWith(p, v)[Len(calls)].pc = p
<1> DEFINE a == [calls[Len(calls)] EXCEPT !.pc = p, !.value = v]
<1>1. calls \in Seq(Activation) /\ Len(calls) \in 1 .. Len(calls)
  BY DEF Inv, TypeOK
<1>2. calls[Len(calls)] \in Activation
  BY <1>1
<1>3. a \in Activation /\ a.pc = p /\ a.value = v /\ a.ft = Act.ft
  BY <1>2 DEF Activation, Act
<1>4. GotoWith(p, v) = [calls EXCEPT ![Len(calls)] = a]
  BY <1>1, <1>2 DEF GotoWith, Activation
<1> HIDE DEF a
<1>5. /\ GotoWith(p, v) \in Seq(Activation)
      /\ Len(GotoWith(p, v)) = Len(calls)
      /\ GotoWith(p, v)[Len(calls)] = a
      /\ \A k \in 1 .. Len(calls) : k # Len(calls) => GotoWith(p, v)[k] = calls[k]
  BY <1>1, <1>3, <1>4, UpdateSeq
<1> QED BY <1>1, <1>3, <1>5 DEF Moved

LEMMA MovedGoto ==
    ASSUME Inv, calls # <<>>, NEW p \in Location, p # "cfunc"
    PROVE  Moved(Goto(p)) /\ Goto(p)[Len(calls)].pc = p
<1> DEFINE a == [calls[Len(calls)] EXCEPT !.pc = p]
<1>1. calls \in Seq(Activation) /\ Len(calls) \in 1 .. Len(calls)
  BY DEF Inv, TypeOK
<1>2. calls[Len(calls)] \in Activation
  BY <1>1
<1>3. a \in Activation /\ a.pc = p /\ a.ft = Act.ft
  BY <1>2 DEF Activation, Act
<1>4. Goto(p) = [calls EXCEPT ![Len(calls)] = a]
  BY <1>1, <1>2 DEF Goto, Activation
<1> HIDE DEF a
<1>5. /\ Goto(p) \in Seq(Activation)
      /\ Len(Goto(p)) = Len(calls)
      /\ Goto(p)[Len(calls)] = a
      /\ \A k \in 1 .. Len(calls) : k # Len(calls) => Goto(p)[k] = calls[k]
  BY <1>1, <1>3, <1>4, UpdateSeq
<1> QED BY <1>1, <1>3, <1>5 DEF Moved

(* An activation past the head of its loop has a frame under way.          *)
LEMMA AtBusy ==
    ASSUME Inv, NEW p, At(p), p # "loop"
    PROVE  /\ calls # <<>> /\ Busy /\ frames # <<>>
           /\ GetFrame \in Frame /\ GetFrame.top \in Nat /\ GetFrame.op_ptr \in Nat \ {0}
<1>1. calls # <<>> /\ Act.pc # "loop" /\ Len(calls) > 0
  BY DEF At, Inv, TypeOK
<1>2. Act.ft \in Nat \ {0} /\ Len(frames) \in Nat
  BY <1>1, ActType DEF Inv, TypeOK
<1>3. Len(frames) >= Act.ft
  BY <1>1 DEF Inv, ActsNested
<1>4. frames # <<>>
  BY <1>2, <1>3
<1>5. GetFrame \in Frame
  BY <1>4, TopFrame DEF Inv
<1> QED BY <1>1, <1>3, <1>4, <1>5 DEF Busy, Frame

(* At the head of its loop its frame may just have been popped.            *)
LEMMA AtLoop ==
    ASSUME Inv, At("loop")
    PROVE  /\ calls # <<>> /\ Len(calls) > 0
           /\ Act.ft \in Nat \ {0} /\ Len(frames) \in Nat
           /\ Len(frames) >= Act.ft - 1
           /\ Len(frames) >= Act.ft => Busy /\ frames # <<>> /\ GetFrame \in Frame
<1>1. calls # <<>> /\ Len(calls) > 0
  BY DEF At, Inv, TypeOK
<1>2. Act.ft \in Nat \ {0} /\ Len(frames) \in Nat
  BY <1>1, ActType DEF Inv, TypeOK
<1>3. Len(frames) >= Act.ft - 1
  BY <1>1 DEF At, Inv, ActsNested
<1>4. ASSUME Len(frames) >= Act.ft PROVE Busy /\ frames # <<>> /\ GetFrame \in Frame
  BY <1>1, <1>2, <1>4, TopFrame DEF Busy, Inv
<1> QED BY <1>1, <1>2, <1>3, <1>4

(* The instruction to be executed is one of a well-formed script function. *)
LEMMA InstrOK ==
    ASSUME Inv, Ready
    PROVE  /\ calls # <<>> /\ Busy /\ frames # <<>> /\ TypeOK
           /\ GetFrame \in Frame
           /\ Instr \in Instruction
           /\ Instr.op = "PUSH" => Instr.arg \in Value
           /\ Instr.op = "METHOD" => Instr.arg \in Name
           /\ Instr.op \in {"LOOKUP", "ASSIGN", "ITER"} =>
                Instr.n \in 1 .. Len(GetFrame.items)
           /\ Instr.op = "COPY" => Instr.n > 0
           /\ Instr.op \in {"JUMP", "TJUMP", "FJUMP"} => Instr.n \in Nat \ {0}
<1>1. /\ calls # <<>> /\ Busy /\ frames # <<>> /\ GetFrame \in Frame
      /\ GetFrame.op_ptr \in Nat \ {0}
  BY AtBusy DEF Ready
<1> DEFINE f == GetFrame.func
           p == GetFrame.op_ptr
<1>2. f \in Function
  BY <1>1 DEF Frame
<1>3. Code[f] \in Seq(Instruction) /\ WellFormed(f)
  BY <1>2, CodeAssumption
<1>4. p \in 1 .. Len(Code[f]) /\ p \in DOMAIN Code[f]
  BY <1>1, <1>3 DEF Ready
<1>5. Instr = Code[f][p] /\ Instr \in Instruction
  BY <1>3, <1>4 DEF Instr
<1>6. ~Func[f].cfunc
  BY <1>3, <1>4 DEF WellFormed
<1>7. Len(GetFrame.items) = Func[f].varc
  BY <1>1, <1>6, TopFrame DEF Inv, ItemsOK, GetFrame
<1>8. /\ Instr.op = "PUSH" => Instr.arg \in Value
      /\ Instr.op = "METHOD" => Instr.arg \in Name
      /\ Instr.op \in {"LOOKUP", "ASSIGN", "ITER"} => Instr.n \in 1 .. Func[f].varc
      /\ Instr.op = "COPY" => Instr.n > 0
      /\ Target(Instr) \subseteq 1 .. Len(Code[f]) + 1
  <2> HIDE DEF f, p
  <2> QED BY <1>3, <1>4, <1>5 DEF WellFormed
<1>9. Instr.op \in {"JUMP", "TJUMP", "FJUMP"} => Instr.n \in Nat \ {0}
  BY <1>3, <1>8 DEF Target
<1> QED BY <1>1, <1>5, <1>7, <1>8, <1>9 DEF Inv

-----------------------------------------------------------------------------
(* What the helpers of the actions do has a shape and keeps the types *)

LEMMA DataSame == ASSUME Inv PROVE DataOK
  BY DEF Inv, TypeOK, DataOK

LEMMA CrashGood ==
    ASSUME Inv, NEW how \in {"arity", "underflow", "empty"}, Crash(how)
    PROVE  Shape /\ DataOK'
  BY DataSame DEF Crash, Shape, DataOK

LEMMA RaiseTyped ==
    ASSUME Inv, NEW s \in Seq(Value), NEW err \in Error, Raise(s, err)
    PROVE  /\ data_stack' \in Seq(Value)
           /\ state' \in {"READY", "RUNNING", "FAILED"}
           /\ raised' \in Error \cup {0, YIELDED}
  BY SmallNumbers, OneMore DEF Raise

(* An instruction that stays in its frame.                                 *)
LEMMA StillGood ==
    ASSUME Inv, calls # <<>>, Busy, Like(frames'), Moved(calls'), DataOK'
    PROVE  Shape /\ DataOK'
  BY DEF Shape, StillStep

LEMMA ReplaceGood ==
    ASSUME Inv, Ready, NEW n \in Nat, n <= Len(data_stack), NEW vs \in Seq(Value),
           Replace(n, vs)
    PROVE  Shape /\ DataOK'
<1>1. DataOK'
  BY DataSame, DropPeek, ConcatSeq DEF Replace, DataOK
<1>2. Like(frames')
  BY InstrOK, AdvancedLike DEF Replace
<1>3. Moved(calls')
  BY MovedSelf DEF Replace, Moved
<1> QED BY <1>1, <1>2, <1>3, InstrOK, StillGood

LEMMA ReplaceOneGood ==
    ASSUME Inv, Ready, NEW n \in Nat, n <= Len(data_stack), NEW v \in Value,
           Replace(n, <<v>>)
    PROVE  Shape /\ DataOK'
<1>1. <<v>> \in Seq(Value)
  OBVIOUS
<1> QED BY <1>1, ReplaceGood

LEMMA ReplaceNoneGood ==
    ASSUME Inv, Ready, NEW n \in Nat, n <= Len(data_stack), Replace(n, <<>>)
    PROVE  Shape /\ DataOK'
<1>1. <<>> \in Seq(Value)
  OBVIOUS
<1> QED BY <1>1, ReplaceGood

LEMMA FailGood ==
    ASSUME Inv, Ready, NEW n \in Nat, n <= Len(data_stack), NEW err \in Error,
           Fail(n, err)
    PROVE  Shape /\ DataOK'
<1>1. DataOK'
  BY DataSame, DropPeek, RaiseTyped DEF Fail, DataOK
<1>2. Like(frames')
  BY InstrOK, AdvancedLike DEF Fail
<1>3. Moved(calls')
  BY MovedSelf DEF Fail, Moved
<1> QED BY <1>1, <1>2, <1>3, InstrOK, StillGood

LEMMA ReframeGood ==
    ASSUME Inv, Ready, NEW fs, Like(fs), Reframe(fs)
    PROVE  Shape /\ DataOK'
<1>1. DataOK'
  BY DataSame DEF Reframe, DataOK
<1>2. Like(frames')
  BY DEF Reframe
<1>3. Moved(calls')
  BY MovedSelf DEF Reframe, Moved
<1> QED BY <1>1, <1>2, <1>3, InstrOK, StillGood

(* Invoke's prologue, on the caller's stacks as fs, s and cs.              *)
LEMMA EnterGood ==
    ASSUME Inv, NEW f \in Function, NEW args \in Seq(Value),
           NEW fs, Like(fs), NEW s \in Seq(Value), NEW cs, Moved(cs),
           calls # <<>> => Busy /\ cs[Len(calls)].pc \notin {"loop", "exec"},
           Enter(f, args, fs, s, cs)
    PROVE  Shape /\ DataOK'
<1>1. CASE /\ Len(args) >= Func[f].argc
           /\ frames' = Append(fs, NewFrame(f, args, Len(s)))
           /\ data_stack' = s
           /\ state' = "RUNNING"
           /\ calls' = Append(cs, [pc |-> "loop", ft |-> Len(fs) + 1, value |-> Nil])
           /\ result' = NoResult
           /\ UNCHANGED <<crashed, raised>>
  <2>1. Pushable(NewFrame(f, args, Len(s)))
    BY <1>1, NewFramePushable
  <2>2. Len(fs) = Len(frames)
    BY DEF Like
  <2>3. BeginStep
    BY <1>1, <2>1, <2>2 DEF BeginStep
  <2>4. NoResult \in [err : Int, val : Value]
    BY SmallNumbers DEF NoResult, SXE_OK
  <2>5. DataOK'
    BY <1>1, <2>4, DataSame DEF DataOK
  <2> QED BY <2>3, <2>5 DEF Shape
<1>2. CASE /\ frames' = fs
           /\ Raise(s, SXE_BADARGS)
           /\ calls' = cs
           /\ result' = [result EXCEPT !.err = STATE_FAILED]
           /\ UNCHANGED crashed
  <2>1. result' \in [err : Int, val : Value]
    BY <1>2 DEF Inv, TypeOK, STATE_FAILED
  <2>2. DataOK'
    BY <1>2, <2>1, RaiseTyped, DataSame DEF DataOK, Error
  <2>3. StillStep
    BY <1>2 DEF StillStep
  <2> QED BY <2>2, <2>3 DEF Shape
<1>3. CASE Crash("arity")
  BY <1>3, CrashGood
<1> QED BY <1>1, <1>2, <1>3 DEF Enter

LEMMA ConvertGood ==
    ASSUME Inv, NEW v \in Value, NEW T \in SUBSET Value, NEW m \in Name,
           NEW fs, Like(fs), NEW s \in Seq(Value), NEW cs, Moved(cs),
           calls # <<>>, Busy, cs[Len(calls)].pc \notin {"loop", "exec"},
           Convert(v, T, m, fs, s, cs)
    PROVE  Shape /\ DataOK'
<1>1. CASE /\ frames' = fs
           /\ data_stack' = s
           /\ calls' = cs
           /\ result' = IF v \in T THEN [err |-> SXE_OK, val |-> v]
                        ELSE [err |-> IF v = Nil THEN SXE_NILCALL ELSE SXE_UNDEFINED,
                              val |-> Nil]
           /\ UNCHANGED <<state, crashed, raised>>
  <2>1. result' \in [err : Int, val : Value]
    BY <1>1, SmallNumbers DEF SXE_OK, SXE_NILCALL, SXE_UNDEFINED
  <2>2. DataOK'
    BY <1>1, <2>1, DataSame DEF DataOK
  <2>3. StillStep
    BY <1>1 DEF StillStep
  <2> QED BY <2>2, <2>3 DEF Shape
<1>2. CASE /\ MethodOf(v, m) # NoMethod
           /\ Enter(MethodOf(v, m), <<v>>, fs, s, cs)
  <2>1. MethodOf(v, m) \in Function
    BY <1>2, MethodFunction
  <2>2. <<v>> \in Seq(Value)
    OBVIOUS
  <2> QED BY <1>2, <2>1, <2>2, EnterGood
<1> QED BY <1>1, <1>2 DEF Convert

LEMMA ConvertedValue ==
    ASSUME Inv, NEW T \in SUBSET Value
    PROVE  Converted(T) \in Value
  BY SmallNumbers DEF Converted

(* A call from the data stack.                                             *)
LEMMA CallOnStackGood ==
    ASSUME Inv, Ready, NEW f \in Function, NEW n \in Nat, NEW s \in Seq(Value),
           n <= Len(s), CallOnStack(f, n, s)
    PROVE  Shape /\ DataOK'
<1>1. Like(Advanced) /\ calls # <<>> /\ Busy
  BY InstrOK, AdvancedLike
<1>2. Moved(Goto("loop"))
  BY <1>1, MovedGoto DEF Location
<1>3. CASE /\ n >= Func[f].argc
           /\ frames' = Append(Advanced, NewFrame(f, SubSeq(s, Len(s) - n + 1, Len(s)),
                                                  Len(s) - n))
           /\ data_stack' = s
           /\ calls' = Goto("loop")
           /\ UNCHANGED <<state, result, crashed, raised>>
  <2> DEFINE args == SubSeq(s, Len(s) - n + 1, Len(s))
  <2>1. args \in Seq(Value) /\ Len(args) = n
    <3>1. n \in 0 .. Len(s)
      OBVIOUS
    <3> QED BY <3>1, SuffixSeq
  <2>2. Len(s) - n \in Nat
    OBVIOUS
  <2>3. Pushable(NewFrame(f, args, Len(s) - n))
    <3> HIDE DEF args
    <3> QED BY <1>3, <2>1, <2>2, NewFramePushable
  <2>4. CallStep
    BY <1>1, <1>2, <1>3, <2>3 DEF CallStep
  <2>5. DataOK'
    BY <1>3, DataSame DEF DataOK
  <2> QED BY <2>4, <2>5 DEF Shape
<1>4. CASE /\ frames' = Advanced
           /\ Raise(s, SXE_BADARGS)
           /\ calls' = Goto("loop")
           /\ UNCHANGED <<result, crashed>>
  <2>1. DataOK'
    BY <1>4, RaiseTyped, DataSame DEF DataOK, Error
  <2> QED BY <1>1, <1>2, <1>4, <2>1, StillGood
<1>5. CASE Crash("arity")
  BY <1>5, CrashGood
<1> QED BY <1>3, <1>4, <1>5 DEF CallOnStack

-----------------------------------------------------------------------------
(* Every action has a shape and keeps the types *)

LEMMA OpNeeds ==
    ASSUME Inv, NEW op, Op(op)
    PROVE  /\ Ready /\ Instr.op = op /\ Instr \in Instruction
           /\ Len(data_stack) \in Nat /\ Needs(Instr) <= Len(data_stack)
           /\ Instr.n \in Nat
  BY InstrOK DEF Op, Instruction, Inv, TypeOK

LEMMA UnaryReady ==
    ASSUME Inv, NEW op \in {"NEGATE", "NOT", "ASSIGN", "STRINGCAST", "INTCAST", "POP",
                            "TEST", "GET_MEMBER", "ITER", "NEW"}, Op(op)
    PROVE  Ready /\ Len(data_stack) \in Nat /\ 1 <= Len(data_stack) /\ Top \in Value
  BY OpNeeds, TopValue DEF Needs

LEMMA BinaryReady ==
    ASSUME Inv, NEW op \in Arithmetic \cup Relational \cup
                           {"DIVIDE", "CONCAT", "EQUAL", "NEQUAL", "INDEX", "TYPECAST",
                            "IN", "SET_MEMBER"}, Op(op)
    PROVE  /\ Ready /\ Len(data_stack) \in Nat /\ 2 <= Len(data_stack)
           /\ Top \in Value /\ Peek(2) \in Value
<1>1. Ready /\ Len(data_stack) \in Nat /\ 2 <= Len(data_stack)
  BY OpNeeds DEF Needs, Arithmetic, Relational
<1> QED BY <1>1, TopValue, DropPeek

LEMMA PushGood == ASSUME Inv, OpPush PROVE Shape /\ DataOK'
  BY OpNeeds, InstrOK, ReplaceOneGood DEF OpPush

LEMMA ArithmeticGood == ASSUME Inv, OpArithmetic PROVE Shape /\ DataOK'
<1>1. PICK op \in Arithmetic :
         /\ Op(op)
         /\ LET a == ToInt(Peek(2))
                b == ToInt(Top)
            IN  Replace(2, <<Create(CASE op = "ADD" -> a + b
                                      [] op = "SUBTRACT" -> a - b
                                      [] op = "MULTIPLY" -> a * b)>>)
  BY DEF OpArithmetic
<1> DEFINE a == ToInt(Peek(2))
           b == ToInt(Top)
           i == CASE op = "ADD" -> a + b
                  [] op = "SUBTRACT" -> a - b
                  [] op = "MULTIPLY" -> a * b
<1>2. a \in Int /\ b \in Int
  BY <1>1, BinaryReady, ToIntInt
<1>3. i \in Int
  <2> HIDE DEF a, b
  <2> QED BY <1>1, <1>2 DEF Arithmetic
<1>4. Create(i) \in Value
  <2> HIDE DEF i
  <2> QED BY <1>3, CreateNumber, Kinds
<1>5. Ready /\ 2 <= Len(data_stack)
  BY <1>1, BinaryReady
<1>6. Replace(2, <<Create(i)>>)
  BY <1>1
<1> HIDE DEF i
<1> QED BY <1>4, <1>5, <1>6, ReplaceOneGood

LEMMA DivideGood == ASSUME Inv, OpDivide PROVE Shape /\ DataOK'
<1>1. /\ Ready /\ Len(data_stack) \in Nat /\ 2 <= Len(data_stack)
      /\ Top \in Value /\ Peek(2) \in Value
  BY BinaryReady DEF OpDivide
<1>2. CASE Fail(2, SXE_DIVZERO)
  BY <1>1, <1>2, FailGood DEF Error
<1>3. CASE /\ ToInt(Top) # 0
           /\ Replace(2, <<Create(Quotient(ToInt(Peek(2)), ToInt(Top)))>>)
  <2>1. Create(Quotient(ToInt(Peek(2)), ToInt(Top))) \in Value
    BY <1>1, <1>3, ToIntInt, QuotientInt, CreateNumber, Kinds
  <2> QED BY <1>1, <1>3, <2>1, ReplaceOneGood
<1> QED BY <1>2, <1>3 DEF OpDivide

LEMMA NegateGood == ASSUME Inv, OpNegate PROVE Shape /\ DataOK'
<1>1. Ready /\ Len(data_stack) \in Nat /\ 1 <= Len(data_stack) /\ Top \in Value
  BY UnaryReady DEF OpNegate
<1>2. -ToInt(Top) \in Int
  BY <1>1, ToIntInt
<1>3. Create(-ToInt(Top)) \in Value
  BY <1>2, CreateNumber, Kinds
<1> QED BY <1>1, <1>3, ReplaceOneGood DEF OpNegate

LEMMA IsTrueBoolean == ASSUME NEW v, NEW b \in IsTrue(v) PROVE b \in BOOLEAN
  BY DEF IsTrue

LEMMA NotGood == ASSUME Inv, OpNot PROVE Shape /\ DataOK'
<1>1. Ready /\ Len(data_stack) \in Nat /\ 1 <= Len(data_stack)
  BY UnaryReady DEF OpNot
<1>2. PICK b \in IsTrue(Top) : Replace(1, <<Truth(~b)>>)
  BY DEF OpNot
<1>3. Truth(~b) \in Value
  BY SmallNumbers DEF Truth
<1> QED BY <1>1, <1>2, <1>3, ReplaceOneGood

LEMMA RelationalGood == ASSUME Inv, OpRelational PROVE Shape /\ DataOK'
<1>1. PICK op \in Relational :
         /\ Op(op)
         /\ \E c \in Comparison(Peek(2), Top) :
               Replace(2, <<Truth(CASE op = "GT"  -> c > 0
                                    [] op = "LT"  -> c < 0
                                    [] op = "GTE" -> c >= 0
                                    [] op = "LTE" -> c <= 0)>>)
  BY DEF OpRelational
<1>2. PICK c \in Comparison(Peek(2), Top) :
               Replace(2, <<Truth(CASE op = "GT"  -> c > 0
                                    [] op = "LT"  -> c < 0
                                    [] op = "GTE" -> c >= 0
                                    [] op = "LTE" -> c <= 0)>>)
  BY <1>1
<1> DEFINE v == Truth(CASE op = "GT"  -> c > 0
                        [] op = "LT"  -> c < 0
                        [] op = "GTE" -> c >= 0
                        [] op = "LTE" -> c <= 0)
<1>3. v \in Value
  BY SmallNumbers DEF Truth
<1>4. Ready /\ Len(data_stack) \in Nat /\ 2 <= Len(data_stack)
  BY <1>1, BinaryReady
<1>5. Replace(2, <<v>>)
  BY <1>2
<1> HIDE DEF v
<1> QED BY <1>3, <1>4, <1>5, ReplaceOneGood

LEMMA EqualGood == ASSUME Inv, OpEqual PROVE Shape /\ DataOK'
<1>1. PICK op \in {"EQUAL", "NEQUAL"} :
         /\ Op(op)
         /\ \E b \in AreEqual(Peek(2), Top) :
               Replace(2, <<Truth(IF op = "EQUAL" THEN b ELSE ~b)>>)
  BY DEF OpEqual
<1>2. PICK b \in AreEqual(Peek(2), Top) :
         Replace(2, <<Truth(IF op = "EQUAL" THEN b ELSE ~b)>>)
  BY <1>1
<1>3. Truth(IF op = "EQUAL" THEN b ELSE ~b) \in Value
  BY SmallNumbers DEF Truth
<1>4. Ready /\ Len(data_stack) \in Nat /\ 2 <= Len(data_stack)
  BY <1>1, BinaryReady
<1> QED BY <1>2, <1>3, <1>4, ReplaceOneGood

LEMMA LookupGood == ASSUME Inv, OpLookup PROVE Shape /\ DataOK'
<1>1. Ready /\ Instr.op = "LOOKUP" /\ Len(data_stack) \in Nat
      /\ Replace(0, <<GetFrame.items[Instr.n]>>)
  BY OpNeeds DEF OpLookup
<1>2. Instr.n \in 1 .. Len(GetFrame.items) /\ GetFrame \in Frame
  BY <1>1, InstrOK
<1>3. GetFrame.items[Instr.n] \in Value
  BY <1>2 DEF Frame
<1> QED BY <1>1, <1>3, ReplaceOneGood

LEMMA AssignGood == ASSUME Inv, OpAssign PROVE Shape /\ DataOK'
<1>1. Ready /\ Instr.op = "ASSIGN" /\ Top \in Value
  BY OpNeeds, UnaryReady DEF OpAssign
<1>2. Like(Assigned(Instr.n, Top))
  BY <1>1, InstrOK, AssignedLike
<1> QED BY <1>1, <1>2, ReframeGood DEF OpAssign

LEMMA PopGood == ASSUME Inv, OpPop PROVE Shape /\ DataOK'
  BY UnaryReady, ReplaceNoneGood DEF OpPop

LEMMA CopyGood == ASSUME Inv, OpCopy PROVE Shape /\ DataOK'
<1>1. /\ Ready /\ Instr.op = "COPY" /\ Instr.n \in Nat /\ Instr.n <= Len(data_stack)
      /\ Len(data_stack) \in Nat
  BY OpNeeds DEF OpCopy, Needs
<1>2. Peek(Instr.n) \in Value
  BY <1>1, InstrOK, DropPeek
<1> QED BY <1>1, <1>2, ReplaceOneGood DEF OpCopy

LEMMA TestGood == ASSUME Inv, OpTest PROVE Shape /\ DataOK'
<1>1. Ready
  BY UnaryReady DEF OpTest
<1>2. PICK b \in IsTrue(Top) : Reframe(Flagged(b))
  BY DEF OpTest
<1>3. Like(Flagged(b))
  BY <1>1, IsTrueBoolean, InstrOK, FlaggedLike
<1> QED BY <1>1, <1>2, <1>3, ReframeGood

LEMMA JumpGood == ASSUME Inv, OpJump PROVE Shape /\ DataOK'
<1>1. Ready /\ Instr.op \in {"JUMP", "TJUMP", "FJUMP"}
  BY OpNeeds DEF OpJump
<1>2. Like(Advanced) /\ Like(Jumped(Instr.n))
  BY <1>1, InstrOK, AdvancedLike, JumpedLike
<1>3. Reframe(Advanced) \/ Reframe(Jumped(Instr.n))
  BY DEF OpJump
<1> QED BY <1>1, <1>2, <1>3, ReframeGood

LEMMA NewArrayGood == ASSUME Inv, OpNewArray PROVE Shape /\ DataOK'
<1>1. /\ Ready /\ Instr.n \in Nat /\ Instr.n <= Len(data_stack)
      /\ Len(data_stack) \in Nat
  BY OpNeeds DEF OpNewArray, Needs
<1>2. Some(Array) \in Value
  BY SomeObjects, Kinds
<1> QED BY <1>1, <1>2, ReplaceOneGood DEF OpNewArray

LEMMA InGood == ASSUME Inv, OpIn PROVE Shape /\ DataOK'
<1>1. Ready /\ Len(data_stack) \in Nat /\ 2 <= Len(data_stack)
  BY BinaryReady DEF OpIn
<1>2. CASE \E found \in {1, Nil} : Replace(2, <<found>>)
  BY <1>1, <1>2, SmallNumbers, ReplaceOneGood
<1>3. CASE Fail(2, SXE_BADTYPE)
  BY <1>1, <1>3, FailGood DEF Error
<1> QED BY <1>2, <1>3 DEF OpIn

LEMMA GetMemberGood == ASSUME Inv, OpGetMember PROVE Shape /\ DataOK'
<1>1. Ready /\ Len(data_stack) \in Nat /\ 1 <= Len(data_stack)
  BY UnaryReady DEF OpGetMember
<1>2. CASE \E v \in Stored \cup {Nil} : Replace(1, <<v>>)
  BY <1>1, <1>2, SmallNumbers, HostAssumption, ReplaceOneGood
<1>3. CASE Fail(1, SXE_BADTYPE)
  BY <1>1, <1>3, FailGood DEF Error
<1> QED BY <1>2, <1>3 DEF OpGetMember

LEMMA SetMemberGood == ASSUME Inv, OpSetMember PROVE Shape /\ DataOK'
<1>1. Ready /\ Len(data_stack) \in Nat /\ 2 <= Len(data_stack)
  BY BinaryReady DEF OpSetMember
<1>2. CASE Replace(1, <<>>)
  BY <1>1, <1>2, ReplaceNoneGood
<1>3. CASE Fail(2, SXE_BADTYPE)
  BY <1>1, <1>3, FailGood DEF Error
<1> QED BY <1>2, <1>3 DEF OpSetMember

LEMMA NewGood == ASSUME Inv, OpNew PROVE Shape /\ DataOK'
<1>1. Ready /\ Len(data_stack) \in Nat /\ 1 <= Len(data_stack)
  BY UnaryReady DEF OpNew
<1>2. CASE \E v \in {Nil, Some(Struct)} : Replace(1, <<v>>)
  BY <1>1, <1>2, SmallNumbers, SomeObjects, Kinds, ReplaceOneGood
<1>3. CASE Fail(1, SXE_BADTYPE)
  BY <1>1, <1>3, FailGood DEF Error
<1> QED BY <1>2, <1>3 DEF OpNew

LEMMA TypeCastGood == ASSUME Inv, OpTypeCast PROVE Shape /\ DataOK'
<1>1. Ready /\ Len(data_stack) \in Nat /\ 2 <= Len(data_stack)
  BY BinaryReady DEF OpTypeCast
<1>2. CASE Replace(1, <<>>)
  BY <1>1, <1>2, ReplaceNoneGood
<1>3. CASE Replace(2, <<Nil>>)
  BY <1>1, <1>3, SmallNumbers, ReplaceOneGood
<1> QED BY <1>2, <1>3 DEF OpTypeCast

LEMMA IterGood == ASSUME Inv, OpIter PROVE Shape /\ DataOK'
<1>1. /\ Ready /\ Len(data_stack) \in Nat /\ 1 <= Len(data_stack) /\ Top \in Value
      /\ Instr.op = "ITER"
  BY UnaryReady, OpNeeds DEF OpIter
<1>2. calls # <<>> /\ Busy /\ frames # <<>> /\ TypeOK
      /\ Instr.n \in 1 .. Len(GetFrame.items)
  BY <1>1, InstrOK
<1>3. CASE Reframe(Flagged(FALSE))
  BY <1>1, <1>2, <1>3, FlaggedLike, ReframeGood
<1>4. CASE /\ data_stack' = Append(Drop(1),
                                   IF Top \in Array THEN Some(Iterator) ELSE Top)
           /\ \/ frames' = Flagged(FALSE)
              \/ \E v \in Stored :
                    frames' = [Assigned(Instr.n, v) EXCEPT ![Len(frames)].flag = TRUE]
           /\ UNCHANGED <<state, calls, result, crashed, raised>>
  <2>1. Like(frames')
    <3>1. CASE frames' = Flagged(FALSE)
      BY <1>2, <3>1, FlaggedLike
    <3>2. CASE \E v \in Stored :
                  frames' = [Assigned(Instr.n, v) EXCEPT ![Len(frames)].flag = TRUE]
      <4>1. PICK v \in Stored :
               frames' = [Assigned(Instr.n, v) EXCEPT ![Len(frames)].flag = TRUE]
        BY <3>2
      <4>2. Like(Assigned(Instr.n, v))
        BY <1>2, HostAssumption, AssignedLike
      <4> QED BY <1>2, <4>1, <4>2, FlagLike
    <3> QED BY <1>4, <3>1, <3>2
  <2>2. (IF Top \in Array THEN Some(Iterator) ELSE Top) \in Value
    BY <1>1, SomeObjects, Kinds
  <2>3. data_stack' \in Seq(Value)
    BY <1>1, <1>4, <2>2, DropPeek, OneMore
  <2>4. DataOK'
    BY <1>4, <2>3, DataSame DEF DataOK
  <2>5. Moved(calls')
    BY <1>4, MovedSelf
  <2> QED BY <1>2, <2>1, <2>4, <2>5, StillGood
<1>5. CASE Fail(1, SXE_BADTYPE)
  BY <1>1, <1>5, FailGood DEF Error
<1> QED BY <1>3, <1>4, <1>5 DEF OpIter

LEMMA SimpleGood == ASSUME Inv, Simple PROVE Shape /\ DataOK'
  BY PushGood, ArithmeticGood, DivideGood, NegateGood, NotGood, RelationalGood,
     EqualGood, LookupGood, AssignGood, PopGood, CopyGood, TestGood, JumpGood,
     NewArrayGood, InGood, GetMemberGood, SetMemberGood, NewGood, TypeCastGood,
     IterGood DEF Simple

LEMMA InvokeGood == ASSUME Inv, OpInvoke PROVE Shape /\ DataOK'
<1>1. /\ Ready /\ Len(data_stack) \in Nat /\ Instr.n \in Nat
      /\ Instr.n + 1 <= Len(data_stack)
  BY OpNeeds DEF OpInvoke, Needs
<1>2. CASE Top \in Function /\ CallOnStack(Top, Instr.n, Drop(1))
  <2>1. Drop(1) \in Seq(Value) /\ Instr.n <= Len(Drop(1))
    BY <1>1, DropPeek
  <2> QED BY <1>1, <1>2, <2>1, CallOnStackGood
<1>3. CASE Fail(Instr.n + 1, SXE_BADTYPE)
  BY <1>1, <1>3, FailGood DEF Error
<1> QED BY <1>2, <1>3 DEF OpInvoke

LEMMA MethodGood == ASSUME Inv, OpMethod PROVE Shape /\ DataOK'
<1>1. /\ Ready /\ Len(data_stack) \in Nat /\ Instr.n \in Nat /\ Instr.op = "METHOD"
      /\ Instr.n + 1 <= Len(data_stack)
  BY OpNeeds DEF OpMethod, Needs
<1> DEFINE self == Peek(Instr.n + 1)
<1>2. self \in Value
  BY <1>1, DropPeek
<1>3. CASE Fail(Instr.n + 1, SXE_NILCALL) \/ Fail(Instr.n + 1, SXE_UNDEFINED)
  BY <1>1, <1>3, FailGood DEF Error
<1>4. CASE /\ MethodOf(self, Instr.arg) # NoMethod
           /\ CallOnStack(MethodOf(self, Instr.arg), Instr.n + 1, data_stack)
  <2>1. Instr.arg \in Name
    BY <1>1, InstrOK
  <2>2. MethodOf(self, Instr.arg) \in Function
    <3> HIDE DEF self
    <3> QED BY <1>2, <1>4, <2>1, MethodFunction
  <2>3. data_stack \in Seq(Value)
    BY DEF Inv, TypeOK
  <2> QED BY <1>1, <1>4, <2>2, <2>3, CallOnStackGood
<1> QED BY <1>3, <1>4 DEF OpMethod

LEMMA YieldGood == ASSUME Inv, OpYield PROVE Shape /\ DataOK'
<1>1. calls # <<>> /\ Busy /\ frames # <<>> /\ TypeOK
  BY OpNeeds, InstrOK DEF OpYield
<1>2. Like(Advanced)
  BY <1>1, AdvancedLike
<1>3. /\ Len(frames) \in 0 .. Len(frames) /\ Len(frames) >= Act.ft - 1
      /\ Len(calls) > 0
  BY <1>1, ActType DEF Busy, TypeOK
<1>4. frames' = SubSeq(Advanced, 1, Len(frames))
  <2>1. /\ SubSeq(Advanced, 1, Len(frames)) \in Seq(Frame)
        /\ Len(SubSeq(Advanced, 1, Len(frames))) = Len(frames)
        /\ \A k \in 1 .. Len(frames) : SubSeq(Advanced, 1, Len(frames))[k] = Advanced[k]
    BY <1>2, <1>3, PrefixSeq DEF Like
  <2>2. Advanced \in Seq(Frame) /\ Len(Advanced) = Len(frames)
    BY <1>2 DEF Like
  <2>3. SubSeq(Advanced, 1, Len(frames)) = Advanced
    BY <2>1, <2>2, SameSeq
  <2> QED BY <2>3 DEF OpYield
<1>5. calls' = SubSeq(calls, 1, Len(calls) - 1)
  BY DEF OpYield, Front
<1>6. EndStep
  BY <1>1, <1>2, <1>3, <1>4, <1>5 DEF EndStep
<1>7. result' \in [err : Int, val : Value]
  BY DEF OpYield, Inv, TypeOK, STATE_FAILED, STATE_RUNNING
<1>8. DataOK'
  BY <1>7, DataSame DEF OpYield, DataOK
<1> QED BY <1>6, <1>8 DEF Shape

LEMMA CallingGood == ASSUME Inv, Calling PROVE Shape /\ DataOK'
  BY InvokeGood, MethodGood, YieldGood DEF Calling

LEMMA ConversionKinds ==
    /\ String \in SUBSET Value /\ Number \in SUBSET Value
    /\ toString \in Name /\ toInt \in Name
  BY Kinds, MethodAssumption

(* An instruction up to its conversion.                                    *)
LEMMA ConvertOpGood ==
    ASSUME Inv, Ready, NEW v \in Value, NEW T \in SUBSET Value, NEW m \in Name,
           NEW s \in Seq(Value), NEW cs, Moved(cs),
           cs[Len(calls)].pc \notin {"loop", "exec"},
           Convert(v, T, m, Advanced, s, cs)
    PROVE  Shape /\ DataOK'
<1>1. Like(Advanced) /\ calls # <<>> /\ Busy
  BY InstrOK, AdvancedLike
<1> QED BY <1>1, ConvertGood

LEMMA ConcatGood == ASSUME Inv, OpConcat PROVE Shape /\ DataOK'
<1>1. Ready /\ Peek(2) \in Value /\ calls # <<>> /\ data_stack \in Seq(Value)
  BY BinaryReady, InstrOK DEF OpConcat, TypeOK
<1>2. Moved(Goto("concat1")) /\ Goto("concat1")[Len(calls)].pc = "concat1"
  BY <1>1, MovedGoto DEF Location, Converting
<1> QED BY <1>1, <1>2, ConversionKinds, ConvertOpGood DEF OpConcat

(* Back in the instruction loop, with the outcome of the conversion.       *)
LEMMA BackGood ==
    ASSUME Inv, NEW p \in Converting, At(p), frames' = frames, calls' = Goto("exec"), DataOK'
    PROVE  Shape /\ DataOK'
<1>1. calls # <<>> /\ Busy
  BY AtBusy DEF Converting
<1>2. Moved(Goto("exec"))
  BY <1>1, MovedGoto DEF Location
<1>3. Like(frames)
  BY LikeSelf DEF Inv
<1> QED BY <1>1, <1>2, <1>3, StillGood

LEMMA ConcatSecondGood == ASSUME Inv, ConcatSecond PROVE Shape /\ DataOK'
<1>1. /\ At("concat1") /\ 2 <= Len(data_stack) /\ data_stack \in Seq(Value)
      /\ Len(data_stack) \in Nat
  BY DEF ConcatSecond, Inv, TypeOK
<1>2. calls # <<>> /\ Busy
  BY <1>1, AtBusy
<1>3. CASE /\ data_stack' = Append(Drop(2), Nil)
           /\ calls' = Goto("exec")
           /\ UNCHANGED <<frames, state, result, crashed, raised>>
  <2>1. data_stack' \in Seq(Value)
    BY <1>1, <1>3, SmallNumbers, DropPeek, OneMore
  <2>2. DataOK'
    BY <1>3, <2>1, DataSame DEF DataOK
  <2> QED BY <1>1, <1>3, <2>2, BackGood DEF Converting
<1>4. CASE Convert(Top, String, toString, frames, data_stack, Goto("concat2"))
  <2>1. Moved(Goto("concat2")) /\ Goto("concat2")[Len(calls)].pc = "concat2"
    BY <1>2, MovedGoto DEF Location, Converting
  <2>2. Top \in Value
    BY <1>1, TopValue
  <2>3. Like(frames)
    BY LikeSelf DEF Inv
  <2> QED BY <1>1, <1>2, <1>4, <2>1, <2>2, <2>3, ConversionKinds, ConvertGood
<1> QED BY <1>3, <1>4 DEF ConcatSecond

LEMMA ConcatEndGood == ASSUME Inv, ConcatEnd PROVE Shape /\ DataOK'
<1>1. At("concat2") /\ 2 <= Len(data_stack) /\ Len(data_stack) \in Nat
  BY DEF ConcatEnd, Inv, TypeOK
<1>2. (IF Converted(String) = Nil THEN Nil ELSE Some(String)) \in Value
  BY SmallNumbers, SomeObjects, Kinds
<1>3. data_stack' \in Seq(Value)
  BY <1>1, <1>2, DropPeek, OneMore DEF ConcatEnd
<1>4. DataOK'
  BY <1>3, DataSame DEF DataOK, ConcatEnd
<1> QED BY <1>1, <1>4, BackGood DEF ConcatEnd, Converting

LEMMA CastGood == ASSUME Inv, OpCast PROVE Shape /\ DataOK'
<1>1. CASE /\ Op("STRINGCAST")
           /\ Convert(Top, String, toString, Advanced, Drop(1), Goto("string"))
  <2>1. Ready /\ Top \in Value /\ Len(data_stack) \in Nat /\ 1 <= Len(data_stack)
    BY <1>1, UnaryReady
  <2>2. Drop(1) \in Seq(Value) /\ calls # <<>>
    BY <2>1, DropPeek, InstrOK
  <2>3. Moved(Goto("string")) /\ Goto("string")[Len(calls)].pc = "string"
    BY <2>2, MovedGoto DEF Location, Converting
  <2> QED BY <1>1, <2>1, <2>2, <2>3, ConversionKinds, ConvertOpGood
<1>2. CASE /\ Op("INTCAST")
           /\ Convert(Top, Number, toInt, Advanced, Drop(1), Goto("int"))
  <2>1. Ready /\ Top \in Value /\ Len(data_stack) \in Nat /\ 1 <= Len(data_stack)
    BY <1>2, UnaryReady
  <2>2. Drop(1) \in Seq(Value) /\ calls # <<>>
    BY <2>1, DropPeek, InstrOK
  <2>3. Moved(Goto("int")) /\ Goto("int")[Len(calls)].pc = "int"
    BY <2>2, MovedGoto DEF Location, Converting
  <2> QED BY <1>2, <2>1, <2>2, <2>3, ConversionKinds, ConvertOpGood
<1> QED BY <1>1, <1>2 DEF OpCast

LEMMA CastEndGood == ASSUME Inv, CastEnd PROVE Shape /\ DataOK'
<1>1. Converted(String) \in Value /\ Converted(Number) \in Value
  BY ConversionKinds, ConvertedValue
<1>2. data_stack' \in Seq(Value)
  BY <1>1, OneMore DEF CastEnd, Inv, TypeOK
<1>3. DataOK'
  BY <1>2, DataSame DEF DataOK, CastEnd
<1>4. PICK p \in {"string", "int"} : At(p)
  BY DEF CastEnd
<1> QED BY <1>3, <1>4, BackGood DEF CastEnd, Converting

LEMMA IndexGood == ASSUME Inv, OpIndex PROVE Shape /\ DataOK'
<1>0. data_stack \in Seq(Value)
  BY DEF Inv, TypeOK
<1>1. CASE /\ Op("INDEX")
           /\ Convert(Top, Number, toInt, Advanced, data_stack,
                      GotoWith("index", Peek(2)))
  <2>1. Ready /\ Top \in Value /\ Peek(2) \in Value /\ calls # <<>>
    BY <1>1, BinaryReady, InstrOK
  <2>2. /\ Moved(GotoWith("index", Peek(2)))
        /\ GotoWith("index", Peek(2))[Len(calls)].pc = "index"
    BY <2>1, MovedGotoWith DEF Location, Converting
  <2> QED BY <1>0, <1>1, <2>1, <2>2, ConversionKinds, ConvertOpGood
<1>2. CASE /\ Op("SETINDEX")
           /\ Convert(Peek(2), Number, toInt, Advanced, data_stack,
                      GotoWith("setindex", Peek(3)))
  <2>1. Ready /\ Len(data_stack) \in Nat /\ 3 <= Len(data_stack) /\ calls # <<>>
    BY <1>2, OpNeeds, InstrOK DEF Needs
  <2>2. Peek(2) \in Value /\ Peek(3) \in Value
    BY <2>1, DropPeek
  <2>3. /\ Moved(GotoWith("setindex", Peek(3)))
        /\ GotoWith("setindex", Peek(3))[Len(calls)].pc = "setindex"
    BY <2>1, <2>2, MovedGotoWith DEF Location, Converting
  <2> QED BY <1>0, <1>2, <2>1, <2>2, <2>3, ConversionKinds, ConvertOpGood
<1> QED BY <1>1, <1>2 DEF OpIndex

LEMMA IndexEndGood == ASSUME Inv, IndexEnd PROVE Shape /\ DataOK'
<1>1. PICK p \in {"index", "setindex"} :
       LET n == IF p = "index" THEN 2 ELSE 3
       IN  /\ At(p)
           /\ Len(data_stack) >= n
           /\ calls' = Goto("exec")
           /\ \/ /\ Act.value \in Array
                 /\ \E v \in IF p = "index" THEN Stored \cup {Nil} ELSE {Top, Nil} :
                       data_stack' = Append(Drop(n), v)
                 /\ UNCHANGED <<state, raised>>
              \/ /\ Act.value \notin Array
                 /\ Raise(Drop(n), SXE_BADTYPE)
           /\ UNCHANGED <<frames, result, crashed>>
  BY DEF IndexEnd
<1> DEFINE n == IF p = "index" THEN 2 ELSE 3
<1>2. /\ At(p) /\ n <= Len(data_stack) /\ n \in Nat /\ Len(data_stack) \in Nat
      /\ 1 <= Len(data_stack)
  BY <1>1 DEF Inv, TypeOK
<1>3. Drop(n) \in Seq(Value) /\ Top \in Value
  <2> HIDE DEF n
  <2> QED BY <1>2, DropPeek, TopValue
<1> HIDE DEF n
<1>4. ASSUME \E v \in IF p = "index" THEN Stored \cup {Nil} ELSE {Top, Nil} :
                data_stack' = Append(Drop(n), v),
             UNCHANGED <<state, raised>>
      PROVE  DataOK'
  <2>1. PICK v \in IF p = "index" THEN Stored \cup {Nil} ELSE {Top, Nil} :
           data_stack' = Append(Drop(n), v)
    BY <1>4
  <2>2. v \in Value
    BY <1>3, SmallNumbers, HostAssumption
  <2>3. data_stack' \in Seq(Value)
    BY <1>3, <2>1, <2>2, OneMore
  <2> QED BY <1>1, <1>4, <2>3, DataSame DEF DataOK
<1>5. ASSUME Raise(Drop(n), SXE_BADTYPE) PROVE DataOK'
  BY <1>1, <1>3, <1>5, RaiseTyped, DataSame DEF DataOK, Error
<1>6. DataOK'
  BY <1>1, <1>4, <1>5 DEF n
<1> QED BY <1>1, <1>2, <1>6, BackGood DEF Converting

LEMMA ConversionGood == ASSUME Inv, Conversion PROVE Shape /\ DataOK'
  BY ConcatGood, ConcatSecondGood, ConcatEndGood, CastGood, CastEndGood, IndexGood,
     IndexEndGood DEF Conversion

LEMMA RunGood == ASSUME Inv, RunScript \/ RunCFunction PROVE Shape /\ DataOK'
<1>1. At("loop") /\ Len(frames) >= Act.ft
  BY DEF RunScript, RunCFunction
<1>2. calls # <<>> /\ Busy /\ GetFrame \in Frame
  BY <1>1, AtLoop
<1>3. Moved(calls')
  <2>1. CASE RunScript
    <3>1. Moved(Goto("exec"))
      BY <1>2, MovedGoto DEF Location
    <3> QED BY <2>1, <3>1 DEF RunScript
  <2>2. CASE RunCFunction
    <3>1. GetFrame.func \in Function /\ GetFrame.func \in Value
      BY <1>2, Kinds DEF Frame
    <3>2. Moved(GotoWith("cfunc", GetFrame.func))
      BY <1>2, <2>2, <3>1, MovedGotoWith DEF Location, RunCFunction
    <3> QED BY <2>2, <3>2 DEF RunCFunction
  <2> QED BY <2>1, <2>2
<1>4. Like(frames')
  BY LikeSelf DEF Inv, RunScript, RunCFunction
<1>5. DataOK'
  BY DataSame DEF DataOK, RunScript, RunCFunction
<1> QED BY <1>2, <1>3, <1>4, <1>5, StillGood

(* PopFrame at the end of a function that leaves the value ret.            *)
LEMMA PopGoodFrame ==
    ASSUME Inv, NEW p, At(p), p # "loop", NEW ret \in Value,
           data_stack' = Append(Resize(data_stack, GetFrame.top), ret),
           frames' = Front(frames), calls' = Goto("loop"),
           UNCHANGED <<state, result, crashed, raised>>
    PROVE  Shape /\ DataOK'
<1>1. calls # <<>> /\ Busy /\ GetFrame.top \in Nat
  BY AtBusy
<1>2. Moved(Goto("loop")) /\ Goto("loop")[Len(calls)].pc = "loop"
  BY <1>1, MovedGoto DEF Location
<1>3. ReturnStep
  BY <1>1, <1>2 DEF ReturnStep, Front
<1>4. data_stack' \in Seq(Value)
  BY <1>1, ResizeSeq, OneMore DEF Inv, TypeOK
<1>5. DataOK'
  BY <1>4, DataSame DEF DataOK
<1> QED BY <1>3, <1>5 DEF Shape

LEMMA ReturnFrameGood == ASSUME Inv, ReturnFrame PROVE Shape /\ DataOK'
<1>1. PICK ret \in IF data_stack = <<>> THEN Garbage ELSE {Top} :
         data_stack' = Append(Resize(data_stack, GetFrame.top), ret)
  BY DEF ReturnFrame
<1>2. ret \in Value
  <2>1. CASE data_stack = <<>>
    BY <1>1, <2>1, HostAssumption
  <2>2. CASE data_stack # <<>>
    <3>1. Len(data_stack) >= 1
      BY <2>2 DEF Inv, TypeOK
    <3> QED BY <1>1, <2>2, <3>1, TopValue
  <2> QED BY <2>1, <2>2
<1> QED BY <1>1, <1>2, PopGoodFrame DEF ReturnFrame

LEMMA FinishGood == ASSUME Inv, Finish PROVE Shape /\ DataOK'
<1>1. At("loop") /\ Epilogue
  BY DEF Finish, LoopOver
<1>2. /\ Len(calls) > 0 /\ Act.ft \in Nat \ {0} /\ Len(frames) \in Nat
      /\ Len(frames) >= Act.ft - 1
  BY <1>1, AtLoop
<1>3. data_stack # <<>> /\ data_stack \in Seq(Value) /\ Len(data_stack) >= 1
  BY <1>1 DEF Epilogue, Inv, TypeOK
<1> DEFINE n == IF Len(frames) < Act.ft THEN Len(frames) ELSE Act.ft
           rest == Unwound(Drop(1), Act.ft)
<1>4. EndStep
  <2>1. n \in 0 .. Len(frames) /\ n >= Act.ft - 1
    BY <1>2
  <2>2. frames' = SubSeq(frames, 1, n) /\ calls' = SubSeq(calls, 1, Len(calls) - 1)
    BY <1>1 DEF Epilogue, Below, Front
  <2>3. Like(frames)
    BY LikeSelf DEF Inv
  <2> HIDE DEF n
  <2> QED BY <1>2, <2>1, <2>2, <2>3 DEF EndStep
<1>5. rest \in Seq(Value)
  BY <1>2, <1>3, DropPeek, UnwoundSeq
<1>6. /\ data_stack' = rest
      /\ \E top \in IF rest = <<>> THEN Garbage ELSE {Last(rest)} :
            result' = [err |-> IF state = "FAILED" THEN ToInt(top) ELSE SXE_OK,
                       val |-> Top]
      /\ UNCHANGED <<state, crashed, raised>>
  BY <1>1 DEF Epilogue
<1> HIDE DEF rest
<1>7. result' \in [err : Int, val : Value]
  <2>1. PICK top \in IF rest = <<>> THEN Garbage ELSE {Last(rest)} :
            result' = [err |-> IF state = "FAILED" THEN ToInt(top) ELSE SXE_OK,
                       val |-> Top]
    BY <1>6
  <2>2. top \in Value
    BY <1>5, HostAssumption DEF Last
  <2>3. ToInt(top) \in Int /\ Top \in Value
    BY <1>3, <2>2, ToIntInt, TopValue
  <2> QED BY <2>1, <2>3 DEF SXE_OK
<1>8. DataOK'
  BY <1>5, <1>6, <1>7, DataSame DEF DataOK
<1> QED BY <1>4, <1>8 DEF Shape

LEMMA ControlGood == ASSUME Inv, Control PROVE Shape /\ DataOK'
  BY RunGood, ReturnFrameGood, FinishGood, CrashGood
     DEF Control, FinishEmpty, Underflow, ConvertUnderflow

(* A C function is what an activation inside one remembers.                *)
LEMMA InsideCFunction ==
    ASSUME Inv, At("cfunc")
    PROVE  Act.value \in Function /\ Func[Act.value].cfunc
<1>1. calls # <<>> /\ Len(calls) \in 1 .. Len(calls)
  BY DEF At, Inv, TypeOK
<1> QED BY <1>1 DEF At, Act, Inv, CFuncsOK

LEMMA CRaiseGood == ASSUME Inv, CRaise PROVE Shape /\ DataOK'
<1>1. At("cfunc") /\ \E err \in CRaises[Act.value] : Raise(data_stack, err)
  BY DEF CRaise
<1>2. CRaises[Act.value] \subseteq Error
  BY <1>1, InsideCFunction, HostAssumption
<1>3. PICK err \in Error : Raise(data_stack, err)
  BY <1>1, <1>2
<1>4. data_stack \in Seq(Value)
  BY DEF Inv, TypeOK
<1>5. DataOK'
  BY <1>3, <1>4, RaiseTyped, DataSame DEF CRaise, DataOK
<1>6. calls # <<>> /\ Busy /\ Like(frames) /\ Moved(calls)
  BY <1>1, AtBusy, LikeSelf, MovedSelf DEF Inv
<1>7. Like(frames') /\ Moved(calls')
  BY <1>6 DEF CRaise
<1> QED BY <1>5, <1>6, <1>7, StillGood

LEMMA CInvokeGood == ASSUME Inv, CInvoke PROVE Shape /\ DataOK'
<1>1. At("cfunc")
  BY DEF CInvoke
<1>2. PICK h \in CInvokes[Act.value] :
         Enter(h.func, h.args, frames, data_stack, calls)
  BY DEF CInvoke
<1>3. h.func \in Function /\ h.args \in Seq(Value)
  BY <1>1, <1>2, InsideCFunction, HostAssumption
<1>4. /\ calls # <<>> /\ Busy /\ calls[Len(calls)].pc = "cfunc"
      /\ Like(frames) /\ Moved(calls) /\ data_stack \in Seq(Value)
  BY <1>1, AtBusy, LikeSelf, MovedSelf DEF Inv, TypeOK, At, Act
<1> QED BY <1>2, <1>3, <1>4, EnterGood

LEMMA CReturnGood == ASSUME Inv, CReturn PROVE Shape /\ DataOK'
<1>1. At("cfunc")
  BY DEF CReturn
<1>2. PICK ret \in CReturns[Act.value] :
         data_stack' = Append(Resize(data_stack, GetFrame.top), ret)
  BY DEF CReturn
<1>3. ret \in Value
  BY <1>1, <1>2, InsideCFunction, HostAssumption
<1> QED BY <1>1, <1>2, <1>3, PopGoodFrame DEF CReturn

LEMMA HostInvokeGood == ASSUME Inv, HostInvoke PROVE Shape /\ DataOK'
<1>1. PICK h \in HostCalls : Enter(h.func, h.args, frames, data_stack, calls)
  BY DEF HostInvoke
<1>2. h.func \in Function /\ h.args \in Seq(Value)
  BY <1>1, HostAssumption
<1>3. Like(frames) /\ Moved(calls) /\ data_stack \in Seq(Value) /\ calls = <<>>
  BY LikeSelf, MovedSelf DEF Inv, TypeOK, HostInvoke
<1> QED BY <1>1, <1>2, <1>3, EnterGood

LEMMA NextGood == ASSUME Inv, Next PROVE Shape /\ DataOK'
  BY HostInvokeGood, SimpleGood, CallingGood, ConversionGood, ControlGood,
     CRaiseGood, CInvokeGood, CReturnGood DEF Next, Step, CFunction

-----------------------------------------------------------------------------
(* The theorems *)

LEMMA InitInv == ASSUME Init PROVE Inv
<1>1. frames = <<>> /\ calls = <<>> /\ Len(frames) = 0 /\ Len(calls) = 0
  BY DEF Init
<1>2. TypeOK
  BY SmallNumbers DEF Init, TypeOK, NoResult, SXE_OK
<1> QED BY <1>1, <1>2 DEF Inv, ActsNested, ItemsOK, CFuncsOK

LEMMA StepInv == ASSUME Inv, [Next]_vars PROVE Inv'
<1>1. CASE Next
  BY <1>1, NextGood, ShapeInv
<1>2. CASE UNCHANGED vars
  <2>1. Shape /\ DataOK'
    BY <1>2, DataSame DEF vars, Shape, DataOK
  <2> QED BY <2>1, ShapeInv
<1> QED BY <1>1, <1>2

(***************************************************************************)
(* The inductive invariant holds: no sequence of calls, conversions,       *)
(* errors, yields and returns gives a variable a value outside its type,   *)
(* a script frame the wrong number of variables (PushFrame, eval.cpp:108-  *)
(* 129), or an activation a frame_top above the frame stack.               *)
(***************************************************************************)
THEOREM InvThm == Spec => []Inv
  BY InitInv, StepInv, PTL DEF Spec

(* Every variable of the evaluator keeps its type.                         *)
THEOREM TypeOKThm == Spec => []TypeOK
<1>1. Inv => TypeOK
  BY DEF Inv
<1> QED BY <1>1, InvThm, PTL

(***************************************************************************)
(* The activations of Invoke are nested: each has a higher frame_top than  *)
(* the one it interrupted, and its own first frame while it is under way.  *)
(***************************************************************************)
THEOREM ActsNestedThm == Spec => []ActsNested
<1>1. Inv => ActsNested
  BY DEF Inv
<1> QED BY <1>1, InvThm, PTL

(***************************************************************************)
(* A frame never has a right that its function or a frame under it lacks,  *)
(* through every nesting of activations and every leaked frame.            *)
(***************************************************************************)
THEOREM AccessNarrowsThm == Spec => []AccessNarrows
<1>1. Init => AccessNarrows
  BY DEF Init, AccessNarrows
<1>2. Inv /\ AccessNarrows /\ [Next]_vars => AccessNarrows'
  <2> SUFFICES ASSUME Inv, AccessNarrows, [Next]_vars PROVE AccessNarrows'
    OBVIOUS
  <2>1. CASE Next
    BY <2>1, NextGood, ShapeNarrows
  <2>2. CASE UNCHANGED vars
    BY <2>2 DEF vars, AccessNarrows
  <2> QED BY <2>1, <2>2
<1> QED BY <1>1, <1>2, InvThm, PTL DEF Spec

(***************************************************************************)
(* No step of an activation of Invoke, its epilogue included, touches the  *)
(* frames that were on the stack when it began (eval.cpp:561-566).         *)
(***************************************************************************)
THEOREM CallersKeptThm == Spec => CallersKept
<1>1. ASSUME Inv, [Next]_vars
      PROVE  [calls # <<>> =>
                /\ Len(frames') >= Act.ft - 1
                /\ \A k \in 1 .. Act.ft - 1 : frames'[k] = frames[k]]_vars
  BY <1>1, NextGood, ShapeKeeps
<1> QED BY <1>1, InvThm, PTL DEF Spec, CallersKept

(***************************************************************************)
(* The frame stack with its activations is an implementation of CallStack: *)
(* every step of the evaluator maps to a step of CallStack or a stutter.   *)
(***************************************************************************)
THEOREM FrameStackThm == Spec => FrameStack
<1>1. ASSUME Init PROVE CS!Init
  BY <1>1 DEF Init, CS!Init
<1>2. ASSUME Inv, [Next]_vars PROVE [CS!Next]_CS!vars
  <2>1. CASE Next
    BY <1>2, <2>1, NextGood, ShapeRefines
  <2>2. CASE UNCHANGED vars
    BY <2>2 DEF vars, CS!vars
  <2> QED BY <1>2, <2>1, <2>2
<1> QED BY <1>1, <1>2, InvThm, PTL DEF Spec, FrameStack, CS!Spec
=============================================================================
