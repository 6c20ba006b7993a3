------------------------------ MODULE SeqFacts ------------------------------
(***************************************************************************)
(* What the operations on sequences that the modules are built from do to  *)
(* them, and what sets of naturals have.                                   *)
(***************************************************************************)
EXTENDS Integers, Sequences, FiniteSetsExt, WellFoundedInduction, TLAPS

(* A prefix of a sequence is a sequence that agrees with it.               *)
LEMMA PrefixSeq ==
    ASSUME NEW S, NEW s \in Seq(S), NEW n \in 0 .. Len(s)
    PROVE  /\ SubSeq(s, 1, n) \in Seq(S)
           /\ Len(SubSeq(s, 1, n)) = n
           /\ \A k \in 1 .. n : SubSeq(s, 1, n)[k] = s[k]
  OBVIOUS

(* Appending leaves what was there and adds the new element on top.        *)
LEMMA AppendSeq ==
    ASSUME NEW S, NEW s \in Seq(S), NEW e \in S
    PROVE  /\ Append(s, e) \in Seq(S)
           /\ Len(Append(s, e)) = Len(s) + 1
           /\ \A k \in 1 .. Len(s) : Append(s, e)[k] = s[k]
           /\ Append(s, e)[Len(s) + 1] = e
  OBVIOUS

(* An update keeps the length and everything but the one element.          *)
LEMMA UpdateSeq ==
    ASSUME NEW S, NEW s \in Seq(S), NEW i \in 1 .. Len(s), NEW e \in S
    PROVE  /\ [s EXCEPT ![i] = e] \in Seq(S)
           /\ Len([s EXCEPT ![i] = e]) = Len(s)
           /\ [s EXCEPT ![i] = e][i] = e
           /\ \A k \in 1 .. Len(s) : k # i => [s EXCEPT ![i] = e][k] = s[k]
  OBVIOUS

(* Two sequences in a row.                                                 *)
LEMMA ConcatSeq ==
    ASSUME NEW S, NEW s \in Seq(S), NEW t \in Seq(S)
    PROVE  s \o t \in Seq(S)
  OBVIOUS

(* A function on the first n naturals is a sequence.                       *)
LEMMA MakeSeq ==
    ASSUME NEW S, NEW n \in Nat, NEW f \in [1 .. n -> S]
    PROVE  f \in Seq(S) /\ Len(f) = n
  OBVIOUS

(* A part of a sequence at its end.                                        *)
LEMMA SuffixSeq ==
    ASSUME NEW S, NEW s \in Seq(S), NEW n \in 0 .. Len(s)
    PROVE  /\ SubSeq(s, Len(s) - n + 1, Len(s)) \in Seq(S)
           /\ Len(SubSeq(s, Len(s) - n + 1, Len(s))) = n
  OBVIOUS

(* A part of a sequence.                                                   *)
LEMMA PartSeq ==
    ASSUME NEW S, NEW s \in Seq(S), NEW a \in Nat \ {0}, NEW b \in Nat, b <= Len(s)
    PROVE  /\ SubSeq(s, a, b) \in Seq(S)
           /\ Len(SubSeq(s, a, b)) = IF b < a THEN 0 ELSE b - a + 1
           /\ \A k \in 1 .. b - a + 1 : SubSeq(s, a, b)[k] = s[a + k - 1]
  OBVIOUS

(* Only the empty sequence has length 0.                                   *)
LEMMA EmptySeq ==
    ASSUME NEW S, NEW s \in Seq(S)
    PROVE  s = <<>> <=> Len(s) = 0
  OBVIOUS

(* Sequences of the same length with the same elements are the same.       *)
LEMMA SameSeq ==
    ASSUME NEW S, NEW s \in Seq(S), NEW t \in Seq(S), NEW n, Len(s) = n, Len(t) = n,
           \A k \in 1 .. n : s[k] = t[k]
    PROVE  s = t
  OBVIOUS

(* The elements of two sequences in a row.                                 *)
LEMMA JoinSeq ==
    ASSUME NEW S, NEW s \in Seq(S), NEW t \in Seq(S)
    PROVE  /\ s \o t \in Seq(S) /\ Len(s \o t) = Len(s) + Len(t)
           /\ \A p \in 1 .. Len(s) + Len(t) :
                 (s \o t)[p] = IF p <= Len(s) THEN s[p] ELSE t[p - Len(s)]
  OBVIOUS

(* Cutting one element out of a sequence.                                  *)
LEMMA CutSeq ==
    ASSUME NEW S, NEW s \in Seq(S), NEW k \in 1 .. Len(s)
    PROVE  LET t == SubSeq(s, 1, k - 1) \o SubSeq(s, k + 1, Len(s))
           IN  /\ t \in Seq(S) /\ Len(t) = Len(s) - 1
               /\ \A p \in 1 .. Len(s) - 1 : t[p] = s[IF p < k THEN p ELSE p + 1]
<1> DEFINE a == SubSeq(s, 1, k - 1)
           b == SubSeq(s, k + 1, Len(s))
<1>1. /\ a \in Seq(S) /\ Len(a) = k - 1
      /\ \A p \in 1 .. k - 1 : a[p] = s[p]
  OBVIOUS
<1>2. /\ b \in Seq(S) /\ Len(b) = Len(s) - k
      /\ \A p \in 1 .. Len(s) - k : b[p] = s[p + k]
  OBVIOUS
<1> HIDE DEF a, b
<1>3. /\ a \o b \in Seq(S) /\ Len(a \o b) = Len(s) - 1
      /\ \A p \in 1 .. Len(s) - 1 : (a \o b)[p] = IF p < k THEN a[p] ELSE b[p - k + 1]
  <2>1. k \in Nat /\ Len(s) \in Nat /\ k - 1 + (Len(s) - k) = Len(s) - 1
    OBVIOUS
  <2>2. a \o b \in Seq(S) /\ Len(a \o b) = Len(a) + Len(b)
    BY <1>1, <1>2, JoinSeq
  <2>3. \A p \in 1 .. Len(a) + Len(b) :
           (a \o b)[p] = IF p <= Len(a) THEN a[p] ELSE b[p - Len(a)]
    BY <1>1, <1>2, JoinSeq
  <2>4. ASSUME NEW p \in 1 .. Len(s) - 1
        PROVE  (a \o b)[p] = IF p < k THEN a[p] ELSE b[p - k + 1]
    <3>1. p \in 1 .. Len(a) + Len(b) /\ p - Len(a) = p - k + 1 /\ (p <= Len(a) <=> p < k)
      BY <1>1, <1>2, <2>1
    <3> QED BY <2>3, <3>1
  <2> QED BY <1>1, <1>2, <2>1, <2>2, <2>4
<1>4. \A p \in 1 .. Len(s) - 1 : (a \o b)[p] = s[IF p < k THEN p ELSE p + 1]
  <2> SUFFICES ASSUME NEW p \in 1 .. Len(s) - 1
               PROVE  (a \o b)[p] = s[IF p < k THEN p ELSE p + 1]
    OBVIOUS
  <2>1. CASE p < k
    <3>1. p \in 1 .. k - 1
      BY <2>1
    <3> QED BY <1>1, <1>3, <2>1, <3>1
  <2>2. CASE ~(p < k)
    <3>1. p - k + 1 \in 1 .. Len(s) - k /\ p - k + 1 + k = p + 1
      BY <2>2
    <3>2. b[p - k + 1] = s[p + 1]
      BY <1>2, <3>1
    <3> QED BY <1>3, <2>2, <3>2
  <2> QED BY <2>1, <2>2
<1> QED BY <1>3, <1>4 DEF a, b

(* A set of naturals has a least element.                                  *)
LEMMA LeastNat ==
    ASSUME NEW T, T \subseteq Nat, T # {}
    PROVE  \E x \in T : \A y \in T : x <= y
<1> DEFINE Less == {ss \in Nat \X Nat : ss[1] < ss[2]}
<1>1. IsWellFoundedOn(Less, Nat)
  BY NatLessThanWellFounded DEF OpToRel
<1>2. \A x, y \in Nat : y < x => <<y, x>> \in Less
  OBVIOUS
<1> HIDE DEF Less
<1>3. PICK x \in T : \A y \in T : <<y, x>> \notin Less
  BY <1>1, WFMin
<1>4. \A y \in T : x \in Nat /\ y \in Nat /\ ~(y < x)
  BY <1>2, <1>3
<1>5. \A y \in T : x <= y
  BY <1>4
<1> QED BY <1>5

LEMMA MinNat ==
    ASSUME NEW T, T \subseteq Nat, T # {}
    PROVE  Min(T) \in T /\ \A y \in T : Min(T) <= y
  BY LeastNat DEF Min

(* A set that has 0, and with each natural the next one, has them all.     *)
LEMMA NatSetInduction ==
    ASSUME NEW T, 0 \in T, \A n \in Nat : n \in T => n + 1 \in T
    PROVE  Nat \subseteq T
<1> DEFINE U == Nat \ T
<1> SUFFICES ASSUME U # {} PROVE FALSE
  OBVIOUS
<1>1. PICK x \in U : \A y \in U : x <= y
  <2>1. U \subseteq Nat
    OBVIOUS
  <2> HIDE DEF U
  <2> QED BY <2>1, LeastNat
<1>2. x # 0 /\ x \in Nat
  OBVIOUS
<1>3. x - 1 \in Nat /\ x - 1 \notin U
  BY <1>1, <1>2
<1>4. (x - 1) + 1 \in T
  BY <1>3
<1> QED BY <1>2, <1>4

(* A set that has 0, and with each natural below n the next one, has all   *)
(* up to n.                                                                *)
LEMMA UpToInduction ==
    ASSUME NEW n \in Nat, NEW T, 0 \in T, \A k \in 0 .. n - 1 : k \in T => k + 1 \in T
    PROVE  0 .. n \subseteq T
<1> DEFINE U == {k \in Nat : k <= n => k \in T}
<1>1. 0 \in U /\ \A k \in Nat : k \in U => k + 1 \in U
  OBVIOUS
<1>2. Nat \subseteq U
  <2> HIDE DEF U
  <2> QED BY <1>1, NatSetInduction
<1> QED BY <1>2

(* A set that has each natural once it has those below has them all.       *)
LEMMA StrongInduction ==
    ASSUME NEW T, \A n \in Nat : (\A k \in 0 .. n - 1 : k \in T) => n \in T
    PROVE  Nat \subseteq T
<1> DEFINE U == Nat \ T
<1> SUFFICES ASSUME U # {} PROVE FALSE
  OBVIOUS
<1>1. PICK x \in U : \A y \in U : x <= y
  <2>1. U \subseteq Nat
    OBVIOUS
  <2> HIDE DEF U
  <2> QED BY <2>1, LeastNat
<1>2. \A k \in 0 .. x - 1 : k \in T
  <2> SUFFICES ASSUME NEW k \in 0 .. x - 1, k \notin T PROVE FALSE
    OBVIOUS
  <2>1. k \in U /\ x \in Nat /\ k < x
    OBVIOUS
  <2> QED BY <1>1, <2>1
<1> QED BY <1>2

(* So has a bounded set of naturals a greatest element.                    *)
LEMMA MaxNat ==
    ASSUME NEW n \in Nat, NEW T, T \subseteq 0 .. n, T # {}
    PROVE  Max(T) \in T /\ \A y \in T : y <= Max(T)
<1> DEFINE U == {k \in Nat : \A y \in T : y <= k}
<1>1. n \in U /\ U \subseteq Nat
  OBVIOUS
<1>2. PICK u \in U : \A k \in U : u <= k
  <2> HIDE DEF U
  <2> QED BY <1>1, LeastNat
<1>3. u \in Nat /\ \A y \in T : y \in Nat /\ y <= u
  BY <1>2
<1>4. u \in T
  <2> SUFFICES ASSUME u \notin T PROVE FALSE
    OBVIOUS
  <2>1. \A y \in T : y <= u - 1
    BY <1>3
  <2>2. u - 1 \in Nat
    <3>1. PICK y \in T : TRUE
      OBVIOUS
    <3> QED BY <1>3, <2>1, <3>1
  <2>3. u - 1 \in U
    BY <2>1, <2>2
  <2> QED BY <1>2, <1>3, <2>3
<1>5. \E x \in T : \A y \in T : x >= y
  BY <1>3, <1>4
<1>6. Max(T) \in T /\ \A y \in T : Max(T) >= y
  BY <1>5 DEF Max
<1> QED BY <1>6, <1>3

(***************************************************************************)
(* A function defined by recursion on the naturals up to n exists: what a  *)
(* recursive definition chooses satisfies its equation.                    *)
(***************************************************************************)
Folding(g, n, base, F) ==
    g = [k \in 0 .. n |-> IF k = 0 THEN base ELSE F[<<k, g[k - 1]>>]]

LEMMA FoldExists ==
    ASSUME NEW n \in Nat, NEW S, NEW base \in S, NEW F \in [(1 .. n) \X S -> S]
    PROVE  \E g \in [0 .. n -> S] : Folding(g, n, base, F)
<1> DEFINE Fits(g, m) == /\ g \in [0 .. m -> S]
                         /\ g[0] = base
                         /\ \A k \in 1 .. m : g[k] = F[<<k, g[k - 1]>>]
           T == {m \in Nat : m <= n => \E g : Fits(g, m)}
<1>1. 0 \in T
  <2>1. Fits([k \in 0 .. 0 |-> base], 0)
    OBVIOUS
  <2> QED BY <2>1
<1>2. ASSUME NEW m \in Nat, m \in T, m + 1 <= n
      PROVE  \E g : Fits(g, m + 1)
  <2>1. PICK g : Fits(g, m)
    BY <1>2
  <2> DEFINE h == [k \in 0 .. m + 1 |-> IF k <= m THEN g[k] ELSE F[<<k, g[k - 1]>>]]
  <2>2. m + 1 \in 1 .. n /\ (m + 1) - 1 = m /\ g[m] \in S
    BY <1>2, <2>1
  <2>3. F[<<m + 1, g[m]>>] \in S
    BY <2>2
  <2>4. h \in [0 .. m + 1 -> S]
    <3> SUFFICES ASSUME NEW k \in 0 .. m + 1
                 PROVE  (IF k <= m THEN g[k] ELSE F[<<k, g[k - 1]>>]) \in S
      OBVIOUS
    <3>1. CASE k <= m
      BY <3>1, <2>1
    <3>2. CASE ~(k <= m)
      <4>1. k = m + 1
        BY <3>2
      <4> QED BY <3>2, <4>1, <2>2, <2>3
    <3> QED BY <3>1, <3>2
  <2>5. h[0] = base
    BY <2>1
  <2>6. ASSUME NEW k \in 1 .. m + 1
        PROVE  h[k] = F[<<k, h[k - 1]>>]
    <3>1. h[k - 1] = g[k - 1]
      OBVIOUS
    <3>2. CASE k <= m
      <4>1. h[k] = g[k] /\ k \in 1 .. m
        BY <3>2
      <4> QED BY <2>1, <3>1, <4>1
    <3>3. CASE ~(k <= m)
      BY <3>1, <3>3
    <3> QED BY <3>2, <3>3
  <2> QED BY <2>4, <2>5, <2>6
<1>3. \A m \in Nat : m \in T => m + 1 \in T
  <2> SUFFICES ASSUME NEW m \in Nat, m \in T PROVE m + 1 <= n => \E g : Fits(g, m + 1)
    OBVIOUS
  <2> QED BY <1>2
<1>4. n \in T
  <2> HIDE DEF T
  <2> QED BY <1>1, <1>3, NatSetInduction
<1>5. PICK g : Fits(g, n)
  BY <1>4
<1>6. g = [k \in 0 .. n |-> IF k = 0 THEN base ELSE F[<<k, g[k - 1]>>]]
  <2>1. ASSUME NEW k \in 0 .. n
        PROVE  g[k] = IF k = 0 THEN base ELSE F[<<k, g[k - 1]>>]
    BY <1>5
  <2> QED BY <1>5, <2>1
<1> QED BY <1>5, <1>6 DEF Folding

(* Its values are determined step by step.                                 *)
LEMMA FoldUnique ==
    ASSUME NEW n \in Nat, NEW F, NEW g, NEW h, g[0] = h[0],
           \A k \in 1 .. n : g[k] = F[<<k, g[k - 1]>>],
           \A k \in 1 .. n : h[k] = F[<<k, h[k - 1]>>]
    PROVE  \A k \in 0 .. n : g[k] = h[k]
<1> DEFINE T == {k \in 0 .. n : g[k] = h[k]}
<1>1. 0 \in T
  OBVIOUS
<1>2. ASSUME NEW k \in 0 .. n - 1, k \in T PROVE k + 1 \in T
  <2>1. k + 1 \in 1 .. n /\ (k + 1) - 1 = k
    OBVIOUS
  <2>2. g[k + 1] = F[<<k + 1, g[k]>>] /\ h[k + 1] = F[<<k + 1, h[k]>>]
    BY <2>1
  <2> QED BY <1>2, <2>1, <2>2
<1>3. 0 .. n \subseteq T
  <2> HIDE DEF T
  <2> QED BY <1>1, <1>2, UpToInduction
<1> QED BY <1>3
=============================================================================
