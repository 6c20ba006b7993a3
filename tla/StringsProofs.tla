---------------------------- MODULE StringsProofs ----------------------------
(***************************************************************************)
(* What is proved about Strings.                                           *)
(***************************************************************************)
EXTENDS Strings, SeqFacts, FiniteSetTheorems

Letter == Char \ {NUL}      \* the characters of a String
Place  == Nat \ {0}

-----------------------------------------------------------------------------
(* Parts of strings *)

(* What the trimming methods give is a part of the string.                 *)
LEMMA TrimmedPart ==
    ASSUME NEW s \in Seq(Letter), NEW t \in {Trim(s), Ltrim(s), Rtrim(s)}
    PROVE  t \in Seq(Letter) /\ Len(t) <= Len(s)
<1>1. CASE Solid(s) = {}
  <2>1. t = <<>>
    BY <1>1 DEF Trim, Ltrim, Rtrim
  <2> QED BY <2>1
<1>2. CASE Solid(s) # {}
  <2>1. /\ Solid(s) \subseteq Nat /\ Solid(s) \subseteq 0 .. Len(s) /\ Len(s) \in Nat
        /\ Solid(s) \subseteq 1 .. Len(s)
    BY DEF Solid
  <2>2. Min(Solid(s)) \in 1 .. Len(s)
    BY <1>2, <2>1, MinNat
  <2>3. Max(Solid(s)) \in 1 .. Len(s)
    BY <1>2, <2>1, MaxNat
  <2>4. ASSUME NEW a \in 1 .. Len(s), NEW b \in 1 .. Len(s)
        PROVE  SubSeq(s, a, b) \in Seq(Letter) /\ Len(SubSeq(s, a, b)) <= Len(s)
    <3>1. /\ SubSeq(s, a, b) \in Seq(Letter)
          /\ Len(SubSeq(s, a, b)) = IF b < a THEN 0 ELSE b - a + 1
      BY PartSeq
    <3> QED BY <2>1, <3>1
  <2>5. \E a, b \in 1 .. Len(s) : t = SubSeq(s, a, b)
    <3>1. 1 \in 1 .. Len(s) /\ Len(s) \in 1 .. Len(s)
      BY <2>2
    <3>2. \/ t = SubSeq(s, Min(Solid(s)), Max(Solid(s)))
          \/ t = SubSeq(s, Min(Solid(s)), Len(s))
          \/ t = SubSeq(s, 1, Max(Solid(s)))
      BY <1>2 DEF Trim, Ltrim, Rtrim
    <3> QED BY <2>2, <2>3, <3>1, <3>2
  <2> QED BY <2>4, <2>5
<1> QED BY <1>1, <1>2

(* toupper and tolower of all characters.                                  *)
LEMMA CasedString ==
    ASSUME NEW s \in Seq(Letter), NEW f \in {Upper, Lower}
    PROVE  LET t == [k \in DOMAIN s |-> f[s[k]]] IN t \in Seq(Letter) /\ Len(t) = Len(s)
<1>1. DOMAIN s = 1 .. Len(s) /\ Len(s) \in Nat /\ \A k \in 1 .. Len(s) : s[k] \in Letter
  OBVIOUS
<1>2. \A c \in Letter : f[c] \in Letter
  BY StringsAssumption DEF Letter
<1>3. [k \in DOMAIN s |-> f[s[k]]] \in [1 .. Len(s) -> Letter]
  BY <1>1, <1>2
<1> QED BY <1>1, <1>3, MakeSeq

-----------------------------------------------------------------------------
(* The search of split *)

AccType == [haystack : Place, pieces : Seq(Seq(Letter)), thrown : BOOLEAN]
Start   == [haystack |-> 1, pieces |-> <<>>, thrown |-> FALSE]

(* What a round at c makes of acc: it changes nothing, it ends the search, *)
(* or it finds a piece.                                                    *)
Round(after, text, needle, acc, c) ==
    \/ after = acc /\ (acc.thrown \/ ~Matches(text, c, needle))
    \/ /\ ~acc.thrown /\ Matches(text, c, needle) /\ c < acc.haystack
       /\ after.thrown /\ after.haystack = acc.haystack /\ after.pieces = acc.pieces
    \/ /\ ~acc.thrown /\ Matches(text, c, needle) /\ c >= acc.haystack
       /\ ~after.thrown /\ after.haystack = c + Len(needle)
       /\ after.pieces = Append(acc.pieces, SubSeq(text, acc.haystack, c - 1))

LEMMA PieceRound ==
    ASSUME NEW text \in Seq(Letter), NEW needle \in Seq(Letter), NEW acc \in AccType,
           NEW c \in 1 .. Len(text)
    PROVE  /\ Piece(text, needle, acc, c) \in AccType
           /\ Round(Piece(text, needle, acc, c), text, needle, acc, c)
<1>0. PICK after : after = Piece(text, needle, acc, c)
  OBVIOUS
<1>1. /\ acc.haystack \in Place /\ acc.pieces \in Seq(Seq(Letter)) /\ acc.thrown \in BOOLEAN
      /\ Len(text) \in Nat /\ Len(needle) \in Nat /\ c \in Nat
  BY DEF AccType
<1>2. CASE ~Matches(text, c, needle) \/ acc.thrown
  <2>1. after = acc
    BY <1>0, <1>2 DEF Piece
  <2> QED BY <1>0, <1>2, <2>1 DEF Round
<1>3. CASE Matches(text, c, needle) /\ ~acc.thrown /\ c < acc.haystack
  <2>1. after = [acc EXCEPT !.thrown = TRUE]
    BY <1>0, <1>3 DEF Piece
  <2>2. /\ after \in AccType /\ after.thrown /\ after.haystack = acc.haystack
        /\ after.pieces = acc.pieces
    BY <2>1 DEF AccType
  <2> QED BY <1>0, <1>3, <2>2 DEF Round
<1>4. CASE Matches(text, c, needle) /\ ~acc.thrown /\ ~(c < acc.haystack)
  <2>1. PICK piece : piece = SubSeq(text, acc.haystack, c - 1)
    OBVIOUS
  <2>2. piece \in Seq(Letter)
    <3>1. acc.haystack \in Nat \ {0} /\ c - 1 \in Nat /\ c - 1 <= Len(text)
      BY <1>1 DEF Place
    <3> QED BY <2>1, <3>1, PartSeq
  <2>3. Append(acc.pieces, piece) \in Seq(Seq(Letter))
    BY <1>1, <2>2, AppendSeq
  <2>4. c + Len(needle) \in Place
    BY <1>1 DEF Place
  <2>5. after = [acc EXCEPT !.haystack = c + Len(needle), !.pieces = Append(acc.pieces, piece)]
    BY <1>0, <1>4, <2>1 DEF Piece
  <2>6. /\ after \in AccType /\ after.haystack = c + Len(needle)
        /\ after.pieces = Append(acc.pieces, piece) /\ after.thrown = acc.thrown
    BY <2>3, <2>4, <2>5 DEF AccType
  <2>7. c >= acc.haystack
    BY <1>1, <1>4 DEF Place
  <2> QED BY <1>0, <1>4, <2>1, <2>6, <2>7 DEF Round
<1> QED BY <1>2, <1>3, <1>4

(* The search round by round.                                              *)
Rounds(found, text, needle) ==
    /\ found[0] = Start
    /\ \A c \in 0 .. Len(text) : found[c] \in AccType
    /\ \A c \in 1 .. Len(text) : found[c] = Piece(text, needle, found[c - 1], c)
    /\ Searched(text, needle) = found[Len(text)]

LEMMA SearchRounds ==
    ASSUME NEW text \in Seq(Letter), NEW needle \in Seq(Letter)
    PROVE  \E found : Rounds(found, text, needle)
<1>1. PICK n : n = Len(text)
  OBVIOUS
<1>2. n \in Nat
  BY <1>1
<1>3. PICK base : base = Start
  OBVIOUS
<1>4. base \in AccType
  BY <1>3, EmptySeq DEF Start, AccType, Place
<1>5. PICK F : /\ F \in [(1 .. n) \X AccType -> AccType]
               /\ \A c \in 1 .. n, acc \in AccType : F[<<c, acc>>] = Piece(text, needle, acc, c)
  <2> DEFINE G == [x \in (1 .. n) \X AccType |-> Piece(text, needle, x[2], x[1])]
  <2>1. \A c \in 1 .. n, acc \in AccType : Piece(text, needle, acc, c) \in AccType
    BY <1>1, PieceRound
  <2>2. G \in [(1 .. n) \X AccType -> AccType]
    BY <2>1
  <2>3. \A c \in 1 .. n, acc \in AccType : G[<<c, acc>>] = Piece(text, needle, acc, c)
    OBVIOUS
  <2> HIDE DEF G
  <2> QED BY <2>2, <2>3
<1>6. PICK f \in [0 .. n -> AccType] : Folding(f, n, base, F)
  <2>1. F \in [(1 .. n) \X AccType -> AccType] /\ n \in Nat /\ base \in AccType
    BY <1>2, <1>4, <1>5
  <2> QED BY <2>1, FoldExists
<1> DEFINE Steps(g) == g = [c \in 0 .. n |-> IF c = 0 THEN base
                                             ELSE Piece(text, needle, g[c - 1], c)]
           found == CHOOSE g : Steps(g)
<1>7. Steps(f)
  <2>1. \A c \in 0 .. n : f[c] = IF c = 0 THEN base ELSE Piece(text, needle, f[c - 1], c)
    <3> SUFFICES ASSUME NEW c \in 0 .. n
                 PROVE  f[c] = IF c = 0 THEN base ELSE Piece(text, needle, f[c - 1], c)
      OBVIOUS
    <3>1. CASE c = 0
      BY <1>2, <1>6, <3>1 DEF Folding
    <3>2. CASE c # 0
      <4>1. c \in 1 .. n /\ c - 1 \in 0 .. n
        BY <1>2, <3>2
      <4>2. f[c] = F[<<c, f[c - 1]>>] /\ f[c - 1] \in AccType
        BY <1>6, <3>2, <4>1 DEF Folding
      <4> QED BY <1>5, <3>2, <4>1, <4>2
    <3> QED BY <3>1, <3>2
  <2> QED BY <1>6, <2>1
<1>8. Steps(found)
  <2> HIDE DEF Steps
  <2> QED BY <1>7
<1>9. found[0] = base /\ \A c \in 1 .. n : found[c] = Piece(text, needle, found[c - 1], c)
  <2>1. PICK g : g = found /\ Steps(g)
    BY <1>8
  <2> HIDE DEF found
  <2>2. g[0] = base /\ \A c \in 1 .. n : g[c] = Piece(text, needle, g[c - 1], c)
    BY <1>2, <2>1
  <2> QED BY <2>1, <2>2
<1>10. Searched(text, needle) = found[n]
  BY <1>1, <1>3 DEF Searched, Start
<1> HIDE DEF found
<1>11. \A c \in 0 .. n : found[c] \in AccType
  <2> DEFINE T == {c \in 0 .. n : found[c] \in AccType}
  <2>1. 0 \in T
    BY <1>2, <1>4, <1>9
  <2>2. ASSUME NEW c \in 0 .. n - 1, c \in T PROVE c + 1 \in T
    <3>1. c + 1 \in 1 .. n /\ (c + 1) - 1 = c
      BY <1>2
    <3>2. found[c + 1] = Piece(text, needle, found[c], c + 1)
      BY <1>9, <3>1
    <3>3. found[c] \in AccType
      BY <2>2
    <3>4. found[c + 1] \in AccType
      BY <1>1, <3>1, <3>2, <3>3, PieceRound
    <3> QED BY <3>1, <3>4
  <2>3. 0 .. n \subseteq T
    <3> HIDE DEF T
    <3> QED BY <1>2, <2>1, <2>2, UpToInduction
  <2> QED BY <2>3
<1>12. Rounds(found, text, needle)
  BY <1>1, <1>3, <1>9, <1>10, <1>11 DEF Rounds
<1> QED BY <1>12

-----------------------------------------------------------------------------
(* Numbers as texts *)

LEMMA DigitLetters ==
    /\ \A d \in 0 .. 9 : Digits[d + 1] \in Letter
    /\ "-" \in Letter
<1>1. \A d \in 0 .. 9 : Digits[d + 1] \in Range(Digits)
  BY DEF Digits, Range
<1>2. \A d \in 0 .. 9 : Digits[d + 1] # NUL
  BY DEF Digits, NUL
<1>3. "-" # NUL
  BY DEF NUL
<1>4. Range(Digits) \subseteq Char /\ "-" \in Char
  BY StringsAssumption
<1> QED BY <1>1, <1>2, <1>3, <1>4 DEF Letter

LEMMA DivideByTen ==
    ASSUME NEW m \in Nat
    PROVE  /\ m \div 10 \in Nat /\ m % 10 \in 0 .. 9
           /\ m = 10 * (m \div 10) + (m % 10)
           /\ m >= 10 => m \div 10 < m
           /\ m < 10 => m \div 10 = 0 /\ m % 10 = m
  OBVIOUS

(* The digits of the naturals up to n, from those of a tenth.              *)
DigitsOf(text, n) ==
    /\ text \in [0 .. n -> Seq(Letter)]
    /\ \A m \in 0 .. n : text[m] = IF m < 10 THEN <<Digits[m + 1]>>
                                   ELSE Append(text[m \div 10], Digits[(m % 10) + 1])

LEMMA DigitsExist ==
    ASSUME NEW n \in Nat PROVE \E text : DigitsOf(text, n)
<1> DEFINE T == {m \in Nat : \E text : DigitsOf(text, m)}
<1>1. 0 \in T
  <2> DEFINE f == [m \in 0 .. 0 |-> <<Digits[m + 1]>>]
  <2>1. Digits[0 + 1] \in Letter
    <3>1. 0 \in 0 .. 9
      OBVIOUS
    <3> QED BY <3>1, DigitLetters
  <2>2. \A m \in 0 .. 0 : m = 0 /\ m < 10 /\ f[m] = <<Digits[m + 1]>>
    OBVIOUS
  <2>3. f \in [0 .. 0 -> Seq(Letter)]
    BY <2>1
  <2> HIDE DEF f
  <2>4. DigitsOf(f, 0)
    BY <2>2, <2>3 DEF DigitsOf
  <2> QED BY <2>4
<1>2. ASSUME NEW n0 \in Nat, n0 \in T PROVE n0 + 1 \in T
  <2>1. PICK g : DigitsOf(g, n0)
    BY <1>2
  <2> DEFINE last == IF n0 + 1 < 10 THEN <<Digits[(n0 + 1) + 1]>>
                     ELSE Append(g[(n0 + 1) \div 10], Digits[((n0 + 1) % 10) + 1])
             f    == [m \in 0 .. n0 + 1 |-> IF m <= n0 THEN g[m] ELSE last]
  <2>2. last \in Seq(Letter)
    <3>1. CASE n0 + 1 < 10
      <4>1. n0 + 1 \in 0 .. 9
        BY <3>1
      <4>2. Digits[(n0 + 1) + 1] \in Letter
        BY <4>1, DigitLetters
      <4> QED BY <3>1, <4>2
    <3>2. CASE ~(n0 + 1 < 10)
      <4>1. n0 + 1 \in Nat /\ n0 + 1 >= 10
        BY <3>2
      <4>2. (n0 + 1) \div 10 \in Nat /\ (n0 + 1) % 10 \in 0 .. 9 /\ (n0 + 1) \div 10 < n0 + 1
        BY <4>1, DivideByTen
      <4>3. (n0 + 1) \div 10 \in 0 .. n0
        BY <4>2
      <4>4. g[(n0 + 1) \div 10] \in Seq(Letter)
        BY <2>1, <4>3 DEF DigitsOf
      <4>5. Digits[((n0 + 1) % 10) + 1] \in Letter
        BY <4>2, DigitLetters
      <4>6. Append(g[(n0 + 1) \div 10], Digits[((n0 + 1) % 10) + 1]) \in Seq(Letter)
        BY <4>4, <4>5, AppendSeq
      <4> QED BY <3>2, <4>6
    <3> QED BY <3>1, <3>2
  <2>3. f \in [0 .. n0 + 1 -> Seq(Letter)]
    <3> HIDE DEF last
    <3>1. \A m \in 0 .. n0 : g[m] \in Seq(Letter)
      BY <2>1 DEF DigitsOf
    <3>2. \A m \in 0 .. n0 + 1 : (IF m <= n0 THEN g[m] ELSE last) \in Seq(Letter)
      BY <2>2, <3>1
    <3> QED BY <3>2
  <2>4. \A m \in 0 .. n0 : f[m] = g[m]
    <3> HIDE DEF last
    <3> QED OBVIOUS
  <2>5. f[n0 + 1] = last
    <3> HIDE DEF last
    <3> QED OBVIOUS
  <2> HIDE DEF f
  <2>6. ASSUME NEW m \in 0 .. n0 + 1
        PROVE  f[m] = IF m < 10 THEN <<Digits[m + 1]>>
                      ELSE Append(f[m \div 10], Digits[(m % 10) + 1])
    <3>1. m \in Nat /\ m \div 10 \in Nat /\ (m >= 10 => m \div 10 < m)
      BY DivideByTen
    <3>2. m >= 10 => m \div 10 \in 0 .. n0
      BY <3>1
    <3>3. m >= 10 => f[m \div 10] = g[m \div 10]
      BY <2>4, <3>2
    <3>4. CASE m <= n0
      <4>1. m \in 0 .. n0
        BY <3>4
      <4>2. f[m] = IF m < 10 THEN <<Digits[m + 1]>>
                   ELSE Append(g[m \div 10], Digits[(m % 10) + 1])
        BY <2>1, <2>4, <4>1 DEF DigitsOf
      <4>3. ~(m < 10) => m >= 10
        BY <3>1
      <4> QED BY <3>3, <4>2, <4>3
    <3>5. CASE ~(m <= n0)
      <4>1. m = n0 + 1 /\ (~(m < 10) => m >= 10)
        BY <3>5
      <4> QED BY <2>5, <3>3, <4>1
    <3> QED BY <3>4, <3>5
  <2>7. DigitsOf(f, n0 + 1)
    BY <2>3, <2>6 DEF DigitsOf
  <2> QED BY <2>7
<1>3. Nat \subseteq T
  <2> HIDE DEF T
  <2> QED BY <1>1, <1>2, NatSetInduction
<1> QED BY <1>3

(* What toString writes.                                                   *)
LEMMA DecimalDigits ==
    ASSUME NEW n \in Int
    PROVE  /\ Abs(n) \in Nat
           /\ \E text : /\ DigitsOf(text, Abs(n))
                        /\ Decimal(n) = (IF n < 0 THEN <<"-">> ELSE <<>>) \o text[Abs(n)]
<1>1. Abs(n) \in Nat
  BY DEF Abs
<1>2. PICK a : a = Abs(n) /\ a \in Nat
  BY <1>1
<1> DEFINE Steps(g) == g = [m \in 0 .. a |-> IF m < 10 THEN <<Digits[m + 1]>>
                                ELSE Append(g[m \div 10], Digits[(m % 10) + 1])]
           digits == CHOOSE g : Steps(g)
<1>3. \E f : Steps(f) /\ DigitsOf(f, a)
  <2>1. PICK f : DigitsOf(f, a)
    BY <1>2, DigitsExist
  <2>2. Steps(f)
    BY <2>1 DEF DigitsOf
  <2> QED BY <2>1, <2>2
<1>4. Steps(digits)
  <2> HIDE DEF Steps
  <2> QED BY <1>3
<1>5. Decimal(n) = (IF n < 0 THEN <<"-">> ELSE <<>>) \o digits[a]
  BY <1>2 DEF Decimal
<1>6. PICK g : g = digits /\ Steps(g)
  BY <1>4
<1> HIDE DEF digits
<1>7. /\ DOMAIN g = 0 .. a
      /\ \A m \in 0 .. a : g[m] = IF m < 10 THEN <<Digits[m + 1]>>
                                  ELSE Append(g[m \div 10], Digits[(m % 10) + 1])
  BY <1>6
<1>8. g = [m \in 0 .. a |-> g[m]]
  BY <1>6
<1> HIDE DEF Steps
<1>9. \A m \in 0 .. a : g[m] \in Seq(Letter)
  <2> DEFINE T == {m \in Nat : m <= a => g[m] \in Seq(Letter)}
  <2>1. ASSUME NEW m \in Nat, \A k \in 0 .. m - 1 : k \in T PROVE m \in T
    <3> SUFFICES ASSUME m <= a PROVE g[m] \in Seq(Letter)
      OBVIOUS
    <3>1. m \in 0 .. a
      BY <1>2
    <3>2. CASE m < 10
      <4>1. m \in 0 .. 9
        BY <3>2
      <4>2. Digits[m + 1] \in Letter
        BY <4>1, DigitLetters
      <4>3. g[m] = <<Digits[m + 1]>>
        BY <1>7, <3>1, <3>2
      <4> QED BY <4>2, <4>3
    <3>3. CASE ~(m < 10)
      <4>1. m >= 10
        BY <3>3
      <4>2. m \div 10 \in Nat /\ m % 10 \in 0 .. 9 /\ m \div 10 < m
        BY <4>1, DivideByTen
      <4>3. m \div 10 \in 0 .. m - 1 /\ m \div 10 <= a
        BY <1>2, <3>1, <4>2
      <4>4. g[m \div 10] \in Seq(Letter)
        BY <2>1, <4>3
      <4>5. Digits[(m % 10) + 1] \in Letter
        BY <4>2, DigitLetters
      <4>6. Append(g[m \div 10], Digits[(m % 10) + 1]) \in Seq(Letter)
        BY <4>4, <4>5, AppendSeq
      <4> QED BY <1>7, <3>1, <3>3, <4>6
    <3> QED BY <3>2, <3>3
  <2>2. Nat \subseteq T
    <3> HIDE DEF T
    <3> QED BY <2>1, StrongInduction
  <2> QED BY <1>2, <2>2
<1>10. DigitsOf(g, a)
  BY <1>7, <1>8, <1>9 DEF DigitsOf
<1> QED BY <1>1, <1>2, <1>5, <1>6, <1>10

LEMMA DecimalString ==
    ASSUME NEW n \in Int PROVE Decimal(n) \in Seq(Letter)
<1>1. PICK text : /\ DigitsOf(text, Abs(n))
                  /\ Decimal(n) = (IF n < 0 THEN <<"-">> ELSE <<>>) \o text[Abs(n)]
  BY DecimalDigits
<1>2. Abs(n) \in 0 .. Abs(n)
  <2>1. PICK a : a = Abs(n)
    OBVIOUS
  <2>2. a \in Nat
    BY <2>1, DecimalDigits
  <2> QED BY <2>1, <2>2
<1>3. text[Abs(n)] \in Seq(Letter)
  BY <1>1, <1>2 DEF DigitsOf
<1>4. (IF n < 0 THEN <<"-">> ELSE <<>>) \in Seq(Letter)
  BY DigitLetters
<1> QED BY <1>1, <1>3, <1>4, ConcatSeq

-----------------------------------------------------------------------------
(* Types *)

(* What the type invariant needs: what is still to scan has its type, no   *)
(* string is longer than the bound, and a program that has ended scans     *)
(* nothing.                                                                *)
StringsInv ==
    /\ StringsTypeOK
    /\ source \in Seq(Char) /\ Len(self) <= MaxLen
    /\ crashed => literal = <<>>

(* A method's step: all it gives is strings, and the last is not too long. *)
LEMMA MethodStep ==
    ASSUME StringsInv, NEW op, NEW arg, NEW value, Method(op, arg, value),
           value \in Seq(Seq(Letter)), \A k \in 1 .. Len(value) : Len(value[k]) <= MaxLen
    PROVE  StringsInv'
<1>1. PICK w : w = <<self>> \o value
  OBVIOUS
<1>2. self \in Seq(Letter) /\ Len(self) <= MaxLen
  BY DEF StringsInv, StringsTypeOK, Letter
<1>3. <<self>> \in Seq(Seq(Letter)) /\ Len(<<self>>) = 1 /\ <<self>>[1] = self
  BY <1>2
<1>4. PICK one : one = <<self>>
  OBVIOUS
<1>5. /\ w \in Seq(Seq(Letter)) /\ Len(w) = 1 + Len(value)
      /\ \A p \in 1 .. 1 + Len(value) : w[p] = IF p <= 1 THEN one[p] ELSE value[p - 1]
  <2>1. one \in Seq(Seq(Letter)) /\ Len(one) = 1
    BY <1>3, <1>4
  <2>2. /\ one \o value \in Seq(Seq(Letter)) /\ Len(one \o value) = Len(one) + Len(value)
        /\ \A p \in 1 .. Len(one) + Len(value) :
              (one \o value)[p] = IF p <= Len(one) THEN one[p] ELSE value[p - Len(one)]
    BY <2>1, JoinSeq
  <2> QED BY <1>1, <1>4, <2>1, <2>2
<1>6. PICK n : n = Len(value)
  OBVIOUS
<1>7. n \in Nat
  BY <1>6
<1>8. self' = w[1 + n]
  BY <1>1, <1>5, <1>6 DEF Method, Last
<1>9. w[1 + n] \in Seq(Letter)
  BY <1>5, <1>6, <1>7
<1>10. Len(w[1 + n]) <= MaxLen
  <2>1. CASE n = 0
    <3>1. w[1 + n] = one[1 + n] /\ 1 + n = 1
      BY <1>5, <1>6, <2>1
    <3> QED BY <1>2, <1>4, <3>1
  <2>2. CASE n # 0
    <3>1. n \in 1 .. n /\ ~(1 + n <= 1) /\ (1 + n) - 1 = n /\ 1 + n \in 1 .. 1 + n
      BY <1>7, <2>2
    <3>2. w[1 + n] = value[n]
      BY <1>5, <1>6, <3>1
    <3> QED BY <1>6, <3>1, <3>2
  <2> QED BY <2>1, <2>2
<1>11. self' \in Seq(Char \ {NUL}) /\ Len(self') <= MaxLen
  BY <1>8, <1>9, <1>10 DEF Letter
<1>12. calls' \in 0 .. MaxCalls
  <2>1. calls \in Nat /\ MaxCalls \in Nat /\ calls < MaxCalls /\ calls' = calls + 1
    BY StringsAssumption DEF Method, Running, StringsInv, StringsTypeOK
  <2> QED BY <2>1
<1> QED BY <1>11, <1>12 DEF Method, scanner, StringsInv, StringsTypeOK

LEMMA ThrowStep ==
    ASSUME StringsInv, NEW op, NEW arg, Throw(op, arg)
    PROVE  StringsInv'
<1>1. calls' \in 0 .. MaxCalls
  <2>1. calls \in Nat /\ MaxCalls \in Nat /\ calls < MaxCalls /\ calls' = calls + 1
    BY StringsAssumption DEF Throw, Running, StringsInv, StringsTypeOK
  <2> QED BY <2>1
<1> QED BY <1>1 DEF Throw, Running, Idle, scanner, StringsInv, StringsTypeOK

(* One string given.                                                       *)
LEMMA OneString ==
    ASSUME NEW s \in Seq(Letter), Len(s) <= MaxLen
    PROVE  /\ <<s>> \in Seq(Seq(Letter))
           /\ \A k \in 1 .. Len(<<s>>) : Len(<<s>>[k]) <= MaxLen
  OBVIOUS

(* Concat, the methods that trim or change case, and toString.             *)
LEMMA SimpleSteps ==
    ASSUME StringsInv,
           \/ \E other \in Arguments : Concat(other)
           \/ MethodUpper \/ MethodLower \/ MethodTrim \/ MethodLtrim \/ MethodRtrim
           \/ \E n \in Numbers : MethodToString(n)
    PROVE  StringsInv'
<1>1. self \in Seq(Letter) /\ Len(self) <= MaxLen /\ Len(self) \in Nat
  BY DEF StringsInv, StringsTypeOK, Letter
<1>2. ASSUME NEW op, NEW arg, NEW s, Method(op, arg, <<s>>), s \in Seq(Letter), Len(s) <= MaxLen
      PROVE  StringsInv'
  <2>1. PICK value : value = <<s>>
    OBVIOUS
  <2>2. value \in Seq(Seq(Letter)) /\ \A k \in 1 .. Len(value) : Len(value[k]) <= MaxLen
    BY <1>2, <2>1, OneString
  <2>3. Method(op, arg, value)
    BY <1>2, <2>1
  <2> QED BY <2>2, <2>3, MethodStep
<1>3. ASSUME NEW other \in Arguments, Concat(other) PROVE StringsInv'
  <2>1. other \in Seq(Letter)
    BY StringsAssumption DEF Letter
  <2>2. self \o other \in Seq(Letter)
    BY <1>1, <2>1, ConcatSeq
  <2> QED BY <1>2, <1>3, <2>2 DEF Concat
<1>4. CASE MethodUpper
  <2>1. PICK t : t = [k \in DOMAIN self |-> Upper[self[k]]]
    OBVIOUS
  <2>2. t \in Seq(Letter) /\ Len(t) = Len(self)
    BY <1>1, <2>1, CasedString
  <2>3. Method("upper", <<>>, <<t>>)
    BY <1>4, <2>1 DEF MethodUpper
  <2> QED BY <1>1, <1>2, <2>2, <2>3
<1>5. CASE MethodLower
  <2>1. PICK t : t = [k \in DOMAIN self |-> Lower[self[k]]]
    OBVIOUS
  <2>2. t \in Seq(Letter) /\ Len(t) = Len(self)
    BY <1>1, <2>1, CasedString
  <2>3. Method("lower", <<>>, <<t>>)
    BY <1>5, <2>1 DEF MethodLower
  <2> QED BY <1>1, <1>2, <2>2, <2>3
<1>6. ASSUME NEW t \in {Trim(self), Ltrim(self), Rtrim(self)}, NEW op, Method(op, <<>>, <<t>>)
      PROVE  StringsInv'
  <2>1. t \in Seq(Letter) /\ Len(t) <= Len(self)
    BY <1>1, TrimmedPart
  <2>2. PICK l : l = Len(t) /\ l \in Nat
    BY <2>1
  <2>3. MaxLen \in Nat
    BY StringsAssumption
  <2>4. Len(t) <= MaxLen
    BY <1>1, <2>1, <2>2, <2>3
  <2> QED BY <1>2, <1>6, <2>1, <2>4
<1>7. MethodTrim \/ MethodLtrim \/ MethodRtrim => StringsInv'
  BY <1>6 DEF MethodTrim, MethodLtrim, MethodRtrim
<1>8. ASSUME NEW n \in Numbers, MethodToString(n) PROVE StringsInv'
  <2>1. Decimal(n) \in Seq(Letter)
    BY StringsAssumption, DecimalString
  <2>2. Len(Decimal(n)) <= MaxLen
    BY NumbersAssumption
  <2> QED BY <1>2, <1>8, <2>1, <2>2 DEF MethodToString
<1> QED BY <1>3, <1>4, <1>5, <1>7, <1>8

(* substr.                                                                 *)
LEMMA SubstrStep ==
    ASSUME StringsInv, NEW vstart \in Numbers, NEW vlen \in Numbers, MethodSubstr(vstart, vlen)
    PROVE  StringsInv'
<1>1. self \in Seq(Letter) /\ Len(self) <= MaxLen /\ Len(self) \in Nat /\ MaxLen \in Nat
  BY StringsAssumption DEF StringsInv, StringsTypeOK, Letter
<1>2. PICK start, end : /\ start = Narrow(vstart)
                        /\ end = TrimmedEnd(start + Narrow(vlen), Len(self))
  OBVIOUS
<1>3. \/ Method("substr", <<vstart, vlen>>, <<>>)
      \/ /\ start \in 0 .. Len(self) - 1 /\ end >= start
         /\ Method("substr", <<vstart, vlen>>, <<SubSeq(self, start + 1, end)>>)
      \/ Throw("substr", <<vstart, vlen>>)
  BY <1>2 DEF MethodSubstr
<1>4. CASE Method("substr", <<vstart, vlen>>, <<>>)
  <2>1. PICK value : value = <<>>
    OBVIOUS
  <2>2. value \in Seq(Seq(Letter)) /\ Len(value) = 0
    BY <2>1
  <2>3. \A k \in 1 .. Len(value) : Len(value[k]) <= MaxLen
    BY <2>2
  <2>4. Method("substr", <<vstart, vlen>>, value)
    BY <1>4, <2>1
  <2> QED BY <2>2, <2>3, <2>4, MethodStep
<1>5. CASE /\ start \in 0 .. Len(self) - 1 /\ end >= start
           /\ Method("substr", <<vstart, vlen>>, <<SubSeq(self, start + 1, end)>>)
  <2>1. end \in Nat /\ end <= Len(self)
    <3>1. Narrow(vlen) \in Int
      BY StringsAssumption DEF Narrow
    <3>2. PICK n : n = start + Narrow(vlen) /\ n \in Int
      BY <1>5, <3>1
    <3>3. end = IF n < 0 \/ n > Len(self) THEN Len(self) ELSE n
      BY <1>2, <3>2 DEF TrimmedEnd
    <3> QED BY <1>1, <3>2, <3>3
  <2>2. PICK t : t = SubSeq(self, start + 1, end)
    OBVIOUS
  <2>3. start + 1 \in Nat \ {0}
    BY <1>5
  <2>4. /\ t \in Seq(Letter)
        /\ Len(t) = IF end < start + 1 THEN 0 ELSE end - (start + 1) + 1
    BY <1>1, <2>1, <2>2, <2>3, PartSeq
  <2>5. Len(t) <= MaxLen
    BY <1>1, <1>5, <2>1, <2>4
  <2>6. <<t>> \in Seq(Seq(Letter)) /\ \A k \in 1 .. Len(<<t>>) : Len(<<t>>[k]) <= MaxLen
    BY <2>4, <2>5, OneString
  <2>7. PICK value : value = <<t>>
    OBVIOUS
  <2>8. /\ Method("substr", <<vstart, vlen>>, value)
        /\ value \in Seq(Seq(Letter)) /\ \A k \in 1 .. Len(value) : Len(value[k]) <= MaxLen
    BY <1>5, <2>2, <2>6, <2>7
  <2> QED BY <2>8, MethodStep
<1>6. CASE Throw("substr", <<vstart, vlen>>)
  BY <1>6, ThrowStep
<1> QED BY <1>3, <1>4, <1>5, <1>6

-----------------------------------------------------------------------------
(* Matches *)

(* A prefix, element by element.                                           *)
LEMMA PrefixAt ==
    ASSUME NEW S, NEW s \in Seq(S), NEW t \in Seq(S)
    PROVE  IsPrefix(s, t) <=> /\ Len(s) <= Len(t)
                              /\ \A i \in 1 .. Len(s) : s[i] = t[i]
<1>1. Len(s) \in Nat /\ Len(t) \in Nat
  OBVIOUS
<1>2. ASSUME Len(s) <= Len(t)
      PROVE  SubSeq(s, 1, Len(s)) = SubSeq(t, 1, Len(s)) <=> \A i \in 1 .. Len(s) : s[i] = t[i]
  <2>1. PICK n : n = Len(s) /\ n \in Nat
    BY <1>1
  <2>2. PICK a, b : a = SubSeq(s, 1, n) /\ b = SubSeq(t, 1, n)
    OBVIOUS
  <2>3. n \in 0 .. Len(s) /\ n \in 0 .. Len(t)
    BY <1>1, <1>2, <2>1
  <2>4. a \in Seq(S) /\ Len(a) = n /\ \A k \in 1 .. n : a[k] = s[k]
    BY <2>2, <2>3, PrefixSeq
  <2>5. b \in Seq(S) /\ Len(b) = n /\ \A k \in 1 .. n : b[k] = t[k]
    BY <2>2, <2>3, PrefixSeq
  <2>6. (\A k \in 1 .. n : a[k] = b[k]) => a = b
    BY <2>4, <2>5, SameSeq
  <2>7. a = b <=> \A i \in 1 .. n : s[i] = t[i]
    BY <2>4, <2>5, <2>6
  <2> QED BY <2>1, <2>2, <2>7
<1> QED BY <1>2 DEF IsPrefix

LEMMA FoldedString ==
    ASSUME NEW s \in Seq(Letter)
    PROVE  /\ Folded(s) \in Seq(Letter) /\ Len(Folded(s)) = Len(s)
           /\ \A k \in 1 .. Len(s) : Folded(s)[k] = Lower[s[k]]
<1>1. DOMAIN s = 1 .. Len(s)
  OBVIOUS
<1>2. \A k \in 1 .. Len(s) : Folded(s)[k] = Lower[s[k]]
  BY <1>1 DEF Folded
<1> QED BY <1>2, CasedString DEF Folded

(* A match, character by character.                                        *)
LEMMA MatchesAt ==
    ASSUME NEW text \in Seq(Letter), NEW needle \in Seq(Letter), NEW c \in 1 .. Len(text)
    PROVE  Matches(text, c, needle) <=>
              /\ c + Len(needle) - 1 <= Len(text)
              /\ \A i \in 1 .. Len(needle) : Lower[needle[i]] = Lower[text[c + i - 1]]
<1>1. PICK n : n = Len(text)
  OBVIOUS
<1>2. PICK m : m = Len(needle)
  OBVIOUS
<1>3. n \in Nat /\ m \in Nat /\ c \in 1 .. n
  BY <1>1, <1>2
<1>4. PICK rest : rest = SubSeq(text, c, n)
  OBVIOUS
<1>5. /\ rest \in Seq(Letter) /\ Len(rest) = n - c + 1
      /\ \A k \in 1 .. n - c + 1 : rest[k] = text[c + k - 1]
  <2>1. c \in Nat \ {0} /\ n <= Len(text) /\ ~(n < c)
    BY <1>1, <1>3
  <2> QED BY <1>3, <1>4, <2>1, PartSeq
<1>6. PICK f : f = Folded(needle)
  OBVIOUS
<1>7. PICK g : g = Folded(rest)
  OBVIOUS
<1>8. f \in Seq(Letter) /\ Len(f) = m /\ \A k \in 1 .. m : f[k] = Lower[needle[k]]
  BY <1>2, <1>6, FoldedString
<1>9. /\ g \in Seq(Letter) /\ Len(g) = n - c + 1
      /\ \A k \in 1 .. n - c + 1 : g[k] = Lower[rest[k]]
  BY <1>5, <1>7, FoldedString
<1>10. IsPrefix(f, g) <=> Len(f) <= Len(g) /\ \A i \in 1 .. Len(f) : f[i] = g[i]
  <2>1. f \in Seq(Letter) /\ g \in Seq(Letter)
    BY <1>8, <1>9
  <2> QED BY <2>1, PrefixAt
<1>11. Len(f) <= Len(g) <=> c + m - 1 <= n
  BY <1>3, <1>8, <1>9
<1>12. ASSUME c + m - 1 <= n, NEW i \in 1 .. m
       PROVE  f[i] = g[i] <=> Lower[needle[i]] = Lower[text[c + i - 1]]
  <2>1. i \in 1 .. n - c + 1
    BY <1>3, <1>12
  <2> QED BY <1>5, <1>8, <1>9, <2>1
<1>13. Matches(text, c, needle) <=> IsPrefix(f, g)
  BY <1>1, <1>4, <1>6, <1>7 DEF Matches
<1> QED BY <1>1, <1>2, <1>8, <1>10, <1>11, <1>12, <1>13

(* A string overlaps itself if it matches at two places that are near.     *)
LEMMA TwoMatches ==
    ASSUME NEW text \in Seq(Letter), NEW needle \in Seq(Letter),
           NEW p \in 1 .. Len(text), NEW c \in 1 .. Len(text), p < c, c < p + Len(needle),
           Matches(text, p, needle), Matches(text, c, needle)
    PROVE  Overlaps(needle)
<1>1. PICK m : m = Len(needle)
  OBVIOUS
<1>2. PICK f : f = Folded(needle)
  OBVIOUS
<1>3. m \in Nat /\ f \in Seq(Letter) /\ Len(f) = m /\ \A k \in 1 .. m : f[k] = Lower[needle[k]]
  BY <1>1, <1>2, FoldedString
<1>4. PICK k : k = c - p
  OBVIOUS
<1>5. k \in 1 .. m - 1
  BY <1>1, <1>3, <1>4
<1>6. PICK g : g = SubSeq(f, k + 1, m)
  OBVIOUS
<1>7. g \in Seq(Letter) /\ Len(g) = m - k /\ \A i \in 1 .. m - k : g[i] = f[k + i]
  <2>1. k + 1 \in Nat \ {0} /\ m <= Len(f) /\ ~(m < k + 1) /\ m - (k + 1) + 1 = m - k
    BY <1>3, <1>5
  <2>2. /\ g \in Seq(Letter) /\ Len(g) = m - k
        /\ \A i \in 1 .. m - k : g[i] = f[k + 1 + i - 1]
    BY <1>3, <1>6, <2>1, PartSeq
  <2>3. \A i \in 1 .. m - k : k + 1 + i - 1 = k + i
    BY <1>5
  <2> QED BY <2>2, <2>3
<1>8. ASSUME NEW i \in 1 .. m - k PROVE g[i] = f[i]
  <2>1. i \in 1 .. m /\ k + i \in 1 .. m /\ p + (k + i) - 1 = c + i - 1
    BY <1>3, <1>4, <1>5
  <2>2. Lower[needle[k + i]] = Lower[text[p + (k + i) - 1]]
    BY <1>1, <2>1, MatchesAt
  <2>3. Lower[needle[i]] = Lower[text[c + i - 1]]
    BY <1>1, <2>1, MatchesAt
  <2> QED BY <1>3, <1>7, <2>1, <2>2, <2>3
<1>9. IsPrefix(g, f)
  <2>1. Len(g) <= Len(f)
    BY <1>3, <1>5, <1>7
  <2>2. \A i \in 1 .. Len(g) : g[i] = f[i]
    BY <1>7, <1>8
  <2> QED BY <1>3, <1>7, <2>1, <2>2, PrefixAt
<1>10. IsPrefix(SubSeq(Folded(needle), k + 1, Len(Folded(needle))), Folded(needle))
  BY <1>2, <1>3, <1>6, <1>9
<1>11. k \in 1 .. Len(Folded(needle)) - 1
  BY <1>2, <1>3, <1>5
<1> QED BY <1>10, <1>11 DEF Overlaps

-----------------------------------------------------------------------------
(* Pieces in a row *)

(* They are put together one by one.                                       *)
Rows(g, pieces, needle, n) ==
    /\ g \in [0 .. n -> Seq(Letter)] /\ g[0] = pieces[1]
    /\ \A k \in 1 .. n : g[k] = g[k - 1] \o needle \o pieces[k + 1]

LEMMA JoinedRows ==
    ASSUME NEW pieces \in Seq(Seq(Letter)), NEW needle \in Seq(Letter), NEW n \in Nat,
           Len(pieces) = n + 1
    PROVE  \E g : Rows(g, pieces, needle, n) /\ Joined(pieces, needle) = g[n]
<1>1. PICK base : base = pieces[1]
  OBVIOUS
<1>2. base \in Seq(Letter) /\ \A k \in 1 .. n : pieces[k + 1] \in Seq(Letter)
  BY <1>1
<1>3. ASSUME NEW k \in 1 .. n, NEW s \in Seq(Letter)
      PROVE  s \o needle \o pieces[k + 1] \in Seq(Letter)
  BY <1>2, ConcatSeq
<1>4. PICK F : /\ F \in [(1 .. n) \X Seq(Letter) -> Seq(Letter)]
               /\ \A k \in 1 .. n, s \in Seq(Letter) :
                     F[<<k, s>>] = s \o needle \o pieces[k + 1]
  <2> DEFINE G == [x \in (1 .. n) \X Seq(Letter) |-> x[2] \o needle \o pieces[x[1] + 1]]
  <2>1. G \in [(1 .. n) \X Seq(Letter) -> Seq(Letter)]
    <3>1. \A x \in (1 .. n) \X Seq(Letter) : x[2] \o needle \o pieces[x[1] + 1] \in Seq(Letter)
      BY <1>3
    <3> QED BY <3>1
  <2>2. \A k \in 1 .. n, s \in Seq(Letter) : G[<<k, s>>] = s \o needle \o pieces[k + 1]
    OBVIOUS
  <2> HIDE DEF G
  <2> QED BY <2>1, <2>2
<1>5. PICK f \in [0 .. n -> Seq(Letter)] : Folding(f, n, base, F)
  <2>1. F \in [(1 .. n) \X Seq(Letter) -> Seq(Letter)] /\ base \in Seq(Letter)
    BY <1>2, <1>4
  <2> QED BY <2>1, FoldExists
<1>6. f[0] = base /\ \A k \in 1 .. n : f[k] = F[<<k, f[k - 1]>>] /\ f[k - 1] \in Seq(Letter)
  BY <1>5 DEF Folding
<1>7. \A k \in 1 .. n : f[k] = f[k - 1] \o needle \o pieces[k + 1]
  BY <1>4, <1>6
<1> DEFINE Steps(g) == g = [k \in 0 .. n |-> IF k = 0 THEN pieces[1]
                                             ELSE g[k - 1] \o needle \o pieces[k + 1]]
           joined == CHOOSE g : Steps(g)
<1>8. Steps(f)
  <2>1. \A k \in 0 .. n : f[k] = IF k = 0 THEN pieces[1]
                                 ELSE f[k - 1] \o needle \o pieces[k + 1]
    <3> SUFFICES ASSUME NEW k \in 0 .. n
                 PROVE  f[k] = IF k = 0 THEN pieces[1]
                               ELSE f[k - 1] \o needle \o pieces[k + 1]
      OBVIOUS
    <3>1. k # 0 => k \in 1 .. n
      OBVIOUS
    <3> QED BY <1>1, <1>6, <1>7, <3>1
  <2> QED BY <1>5, <2>1
<1>9. Steps(joined)
  <2> HIDE DEF Steps
  <2> QED BY <1>8
<1>10. Joined(pieces, needle) = joined[n]
  <2>1. Len(pieces) - 1 = n
    OBVIOUS
  <2> QED BY <2>1 DEF Joined
<1>11. PICK g : g = joined /\ Steps(g)
  BY <1>9
<1> HIDE DEF joined
<1>12. /\ g[0] = pieces[1] /\ \A k \in 1 .. n : g[k] = g[k - 1] \o needle \o pieces[k + 1]
       /\ g = [k \in 0 .. n |-> g[k]]
  <2>1. g[0] = pieces[1]
    BY <1>11
  <2>2. ASSUME NEW k \in 1 .. n PROVE g[k] = g[k - 1] \o needle \o pieces[k + 1]
    <3>1. k \in 0 .. n /\ k # 0
      OBVIOUS
    <3> QED BY <1>11, <3>1
  <2>3. g = [k \in 0 .. n |-> g[k]]
    BY <1>11
  <2> QED BY <2>1, <2>2, <2>3
<1> HIDE DEF Steps
<1>13. 0 .. n \subseteq {k \in 0 .. n : g[k] \in Seq(Letter)}
  <2> DEFINE T == {k \in 0 .. n : g[k] \in Seq(Letter)}
  <2>1. 0 \in T
    BY <1>1, <1>2, <1>12
  <2>2. ASSUME NEW k \in 0 .. n - 1, k \in T PROVE k + 1 \in T
    <3>1. k + 1 \in 1 .. n /\ (k + 1) - 1 = k
      OBVIOUS
    <3>2. g[k + 1] = g[k] \o needle \o pieces[k + 1 + 1]
      BY <1>12, <3>1
    <3>3. g[k] \o needle \o pieces[k + 1 + 1] \in Seq(Letter)
      BY <1>3, <2>2, <3>1
    <3>4. g[k + 1] \in Seq(Letter) /\ k + 1 \in 0 .. n
      BY <3>1, <3>2, <3>3
    <3> QED BY <3>4
  <2> HIDE DEF T
  <2>3. 0 .. n \subseteq T
    BY <2>1, <2>2, UpToInduction
  <2> QED BY <2>3 DEF T
<1>14. Rows(g, pieces, needle, n)
  BY <1>12, <1>13 DEF Rows
<1> QED BY <1>10, <1>11, <1>14

LEMMA JoinedOne ==
    ASSUME NEW s \in Seq(Letter), NEW needle \in Seq(Letter)
    PROVE  Joined(<<s>>, needle) = s
<1>1. PICK pieces : pieces = <<s>>
  OBVIOUS
<1>2. PICK n : n = 0
  OBVIOUS
<1>3. pieces \in Seq(Seq(Letter)) /\ n \in Nat /\ Len(pieces) = n + 1 /\ pieces[1] = s
  BY <1>1, <1>2
<1>4. PICK g : Rows(g, pieces, needle, n) /\ Joined(pieces, needle) = g[n]
  BY <1>3, JoinedRows
<1> QED BY <1>1, <1>2, <1>3, <1>4 DEF Rows

LEMMA JoinedAppend ==
    ASSUME NEW pieces \in Seq(Seq(Letter)), NEW needle \in Seq(Letter), NEW s \in Seq(Letter),
           Len(pieces) >= 1
    PROVE  /\ Joined(pieces, needle) \in Seq(Letter)
           /\ Joined(Append(pieces, s), needle) = Joined(pieces, needle) \o needle \o s
<1>1. PICK n : n = Len(pieces) - 1
  OBVIOUS
<1>2. n \in Nat /\ Len(pieces) = n + 1
  BY <1>1
<1>3. PICK more : more = Append(pieces, s)
  OBVIOUS
<1>4. PICK m : m = n + 1
  OBVIOUS
<1>5. /\ more \in Seq(Seq(Letter)) /\ m \in Nat /\ Len(more) = m + 1
      /\ \A k \in 1 .. m : more[k] = pieces[k]
      /\ more[m + 1] = s
  BY <1>2, <1>3, <1>4, AppendSeq
<1>6. PICK g : Rows(g, pieces, needle, n) /\ Joined(pieces, needle) = g[n]
  BY <1>2, JoinedRows
<1>7. PICK h : Rows(h, more, needle, m) /\ Joined(more, needle) = h[m]
  BY <1>5, JoinedRows
<1> DEFINE T == {k \in 0 .. n : g[k] = h[k]}
<1>8. 0 \in T
  BY <1>2, <1>4, <1>5, <1>6, <1>7 DEF Rows
<1>9. ASSUME NEW k \in 0 .. n - 1, k \in T PROVE k + 1 \in T
  <2>1. /\ k + 1 \in 1 .. n /\ k + 1 \in 1 .. m /\ k + 1 + 1 \in 1 .. m /\ (k + 1) - 1 = k
        /\ k + 1 \in 0 .. n
    BY <1>2, <1>4
  <2>2. g[k + 1] = g[k] \o needle \o pieces[k + 1 + 1]
    BY <1>6, <2>1 DEF Rows
  <2>3. h[k + 1] = h[k] \o needle \o more[k + 1 + 1]
    BY <1>7, <2>1 DEF Rows
  <2> QED BY <1>5, <1>9, <2>1, <2>2, <2>3
<1>10. g[n] = h[n]
  <2> HIDE DEF T
  <2>1. 0 .. n \subseteq T
    BY <1>2, <1>8, <1>9, UpToInduction
  <2> QED BY <1>2, <2>1 DEF T
<1>11. h[m] = h[n] \o needle \o s
  <2>1. m \in 1 .. m /\ m - 1 = n
    BY <1>2, <1>4
  <2> QED BY <1>5, <1>7, <2>1 DEF Rows
<1>12. g[n] \in Seq(Letter)
  BY <1>2, <1>6 DEF Rows
<1> QED BY <1>3, <1>6, <1>7, <1>10, <1>11, <1>12

-----------------------------------------------------------------------------
(* Texts that are the same in any case *)

Alike(s, t) == Len(s) = Len(t) /\ \A k \in 1 .. Len(s) : Lower[s[k]] = Lower[t[k]]

LEMMA AlikeFolded ==
    ASSUME NEW s \in Seq(Letter), NEW t \in Seq(Letter)
    PROVE  Folded(s) = Folded(t) <=> Alike(s, t)
<1>1. PICK f : f = Folded(s)
  OBVIOUS
<1>2. PICK g : g = Folded(t)
  OBVIOUS
<1>3. f \in Seq(Letter) /\ Len(f) = Len(s) /\ \A k \in 1 .. Len(s) : f[k] = Lower[s[k]]
  BY <1>1, FoldedString
<1>4. g \in Seq(Letter) /\ Len(g) = Len(t) /\ \A k \in 1 .. Len(t) : g[k] = Lower[t[k]]
  BY <1>2, FoldedString
<1>5. ASSUME Alike(s, t) PROVE f = g
  <2>1. PICK n : n = Len(s)
    OBVIOUS
  <2>2. Len(f) = n /\ Len(g) = n /\ \A k \in 1 .. n : f[k] = g[k]
    BY <1>3, <1>4, <1>5, <2>1 DEF Alike
  <2> QED BY <1>3, <1>4, <2>2, SameSeq
<1>6. ASSUME f = g PROVE Alike(s, t)
  BY <1>3, <1>4, <1>6 DEF Alike
<1> QED BY <1>1, <1>2, <1>5, <1>6

LEMMA AlikeJoin ==
    ASSUME NEW s \in Seq(Letter), NEW t \in Seq(Letter), NEW u \in Seq(Letter),
           NEW v \in Seq(Letter), Alike(s, t), Alike(u, v)
    PROVE  Alike(s \o u, t \o v)
<1>1. PICK n : n = Len(s)
  OBVIOUS
<1>2. PICK m : m = Len(u)
  OBVIOUS
<1>3. n \in Nat /\ m \in Nat /\ Len(t) = n /\ Len(v) = m
  BY <1>1, <1>2 DEF Alike
<1>4. PICK a : a = s \o u
  OBVIOUS
<1>5. PICK b : b = t \o v
  OBVIOUS
<1>6. Len(a) = n + m /\ \A p \in 1 .. n + m : a[p] = IF p <= n THEN s[p] ELSE u[p - n]
  BY <1>1, <1>2, <1>4, JoinSeq
<1>7. Len(b) = n + m /\ \A p \in 1 .. n + m : b[p] = IF p <= n THEN t[p] ELSE v[p - n]
  <2>1. /\ Len(t \o v) = Len(t) + Len(v)
        /\ \A p \in 1 .. Len(t) + Len(v) :
              (t \o v)[p] = IF p <= Len(t) THEN t[p] ELSE v[p - Len(t)]
    BY JoinSeq
  <2> QED BY <1>3, <1>5, <2>1
<1>8. ASSUME NEW p \in 1 .. n + m PROVE Lower[a[p]] = Lower[b[p]]
  <2>1. CASE p <= n
    <3>1. p \in 1 .. n
      BY <2>1
    <3> QED BY <1>1, <1>6, <1>7, <2>1, <3>1 DEF Alike
  <2>2. CASE ~(p <= n)
    <3>1. p - n \in 1 .. m
      BY <1>3, <2>2
    <3>2. Lower[u[p - n]] = Lower[v[p - n]]
      BY <1>2, <3>1 DEF Alike
    <3> QED BY <1>6, <1>7, <2>2, <3>2
  <2> QED BY <2>1, <2>2
<1> QED BY <1>4, <1>5, <1>6, <1>7, <1>8 DEF Alike

LEMMA AlikeSame == ASSUME NEW s PROVE Alike(s, s)
  BY DEF Alike

(* A match and the text there.                                             *)
LEMMA AlikeMatch ==
    ASSUME NEW text \in Seq(Letter), NEW needle \in Seq(Letter), NEW c \in 1 .. Len(text),
           Matches(text, c, needle)
    PROVE  /\ c + Len(needle) - 1 \in Nat /\ c + Len(needle) - 1 <= Len(text)
           /\ SubSeq(text, c, c + Len(needle) - 1) \in Seq(Letter)
           /\ Alike(needle, SubSeq(text, c, c + Len(needle) - 1))
<1>1. PICK m : m = Len(needle) /\ m \in Nat
  OBVIOUS
<1>2. PICK b : b = c + m - 1
  OBVIOUS
<1>3. b \in Nat /\ b <= Len(text) /\ b - c + 1 = m
  BY <1>1, <1>2, MatchesAt
<1>4. PICK part : part = SubSeq(text, c, b)
  OBVIOUS
<1>5. c \in Nat \ {0}
  OBVIOUS
<1>6. /\ part \in Seq(Letter) /\ Len(part) = IF b < c THEN 0 ELSE b - c + 1
      /\ \A k \in 1 .. b - c + 1 : part[k] = text[c + k - 1]
  BY <1>3, <1>4, <1>5, PartSeq
<1>7. Len(part) = m
  BY <1>1, <1>2, <1>3, <1>5, <1>6
<1>8. \A k \in 1 .. m : Lower[needle[k]] = Lower[part[k]]
  <2>1. \A k \in 1 .. m : Lower[needle[k]] = Lower[text[c + k - 1]]
    BY <1>1, MatchesAt
  <2>2. \A k \in 1 .. m : part[k] = text[c + k - 1]
    BY <1>3, <1>6
  <2> QED BY <2>1, <2>2
<1> QED BY <1>1, <1>2, <1>3, <1>4, <1>6, <1>7, <1>8 DEF Alike

(* A text in two parts.                                                    *)
LEMMA TwoParts ==
    ASSUME NEW text \in Seq(Letter), NEW a \in Nat, NEW b \in Nat, a <= b, b <= Len(text)
    PROVE  /\ SubSeq(text, 1, a) \in Seq(Letter) /\ SubSeq(text, a + 1, b) \in Seq(Letter)
           /\ SubSeq(text, 1, b) = SubSeq(text, 1, a) \o SubSeq(text, a + 1, b)
<1>1. PICK s : s = SubSeq(text, 1, a)
  OBVIOUS
<1>2. PICK t : t = SubSeq(text, a + 1, b)
  OBVIOUS
<1>3. PICK u : u = SubSeq(text, 1, b)
  OBVIOUS
<1>4. Len(text) \in Nat /\ a \in 0 .. Len(text) /\ b \in 0 .. Len(text) /\ a + 1 \in Nat \ {0}
  OBVIOUS
<1>5. s \in Seq(Letter) /\ Len(s) = a /\ \A k \in 1 .. a : s[k] = text[k]
  BY <1>1, <1>4, PrefixSeq
<1>6. u \in Seq(Letter) /\ Len(u) = b /\ \A k \in 1 .. b : u[k] = text[k]
  BY <1>3, <1>4, PrefixSeq
<1>7. t \in Seq(Letter) /\ Len(t) = b - a /\ \A k \in 1 .. b - a : t[k] = text[a + k]
  <2>1. /\ t \in Seq(Letter) /\ Len(t) = IF b < a + 1 THEN 0 ELSE b - (a + 1) + 1
        /\ \A k \in 1 .. b - (a + 1) + 1 : t[k] = text[a + 1 + k - 1]
    BY <1>2, <1>4, PartSeq
  <2>2. b - (a + 1) + 1 = b - a /\ (IF b < a + 1 THEN 0 ELSE b - (a + 1) + 1) = b - a
    OBVIOUS
  <2>3. \A k \in 1 .. b - a : a + 1 + k - 1 = a + k
    OBVIOUS
  <2> QED BY <2>1, <2>2, <2>3
<1>8. /\ s \o t \in Seq(Letter) /\ Len(s \o t) = Len(s) + Len(t)
      /\ \A p \in 1 .. Len(s) + Len(t) : (s \o t)[p] = IF p <= Len(s) THEN s[p] ELSE t[p - Len(s)]
  BY <1>5, <1>7, JoinSeq
<1>9. Len(s) + Len(t) = b
  BY <1>5, <1>7
<1>10. ASSUME NEW p \in 1 .. b PROVE u[p] = (s \o t)[p]
  <2>1. CASE p <= a
    <3>1. p \in 1 .. a
      BY <2>1
    <3> QED BY <1>5, <1>6, <1>8, <1>9, <2>1, <3>1
  <2>2. CASE ~(p <= a)
    <3>1. p - a \in 1 .. b - a /\ a + (p - a) = p
      BY <2>2
    <3>2. t[p - a] = text[p]
      BY <1>7, <3>1
    <3> QED BY <1>5, <1>6, <1>8, <1>9, <2>2, <3>2
  <2> QED BY <2>1, <2>2
<1>11. u = s \o t
  <2>1. PICK v : v = s \o t
    OBVIOUS
  <2>2. v \in Seq(Letter) /\ Len(v) = b /\ \A k \in 1 .. b : u[k] = v[k]
    BY <1>8, <1>9, <1>10, <2>1
  <2> QED BY <1>6, <2>1, <2>2, SameSeq
<1> QED BY <1>1, <1>2, <1>3, <1>5, <1>7, <1>11

(* What matches inside a part of a text matches in the text.               *)
LEMMA MatchInPart ==
    ASSUME NEW text \in Seq(Letter), NEW needle \in Seq(Letter), NEW a \in Place,
           NEW b \in Nat, b <= Len(text), NEW d \in 1 .. Len(SubSeq(text, a, b)),
           Matches(SubSeq(text, a, b), d, needle)
    PROVE  /\ a + d - 1 \in a .. b /\ a + d - 1 \in 1 .. Len(text)
           /\ Matches(text, a + d - 1, needle)
<1>1. PICK part : part = SubSeq(text, a, b)
  OBVIOUS
<1>2. a \in Nat \ {0} /\ Len(text) \in Nat
  BY DEF Place
<1>3. /\ part \in Seq(Letter) /\ Len(part) = IF b < a THEN 0 ELSE b - a + 1
      /\ \A k \in 1 .. b - a + 1 : part[k] = text[a + k - 1]
  BY <1>1, <1>2, PartSeq
<1>4. d \in 1 .. Len(part) /\ Matches(part, d, needle)
  BY <1>1
<1>5. ~(b < a) /\ Len(part) = b - a + 1 /\ d \in 1 .. b - a + 1
  BY <1>2, <1>3, <1>4
<1>6. PICK c : c = a + d - 1
  OBVIOUS
<1>7. c \in a .. b /\ c \in 1 .. Len(text)
  BY <1>2, <1>5, <1>6
<1>8. PICK m : m = Len(needle) /\ m \in Nat
  OBVIOUS
<1>9. /\ d + m - 1 <= Len(part)
      /\ \A i \in 1 .. m : Lower[needle[i]] = Lower[part[d + i - 1]]
  BY <1>3, <1>4, <1>8, MatchesAt
<1>10. c + m - 1 <= Len(text)
  BY <1>2, <1>5, <1>6, <1>8, <1>9
<1>11. ASSUME NEW i \in 1 .. m PROVE Lower[needle[i]] = Lower[text[c + i - 1]]
  <2>1. d + i - 1 \in 1 .. b - a + 1 /\ a + (d + i - 1) - 1 = c + i - 1
    BY <1>2, <1>5, <1>6, <1>8, <1>9
  <2>2. part[d + i - 1] = text[c + i - 1]
    BY <1>3, <2>1
  <2> QED BY <1>9, <2>2
<1>12. Matches(text, c, needle)
  BY <1>7, <1>8, <1>10, <1>11, MatchesAt
<1> QED BY <1>6, <1>7, <1>12

-----------------------------------------------------------------------------
(* What split finds *)

(* Up to place c: the next piece begins at the start, or where the last    *)
(* match ends, and the search has ended only if the separator overlaps.    *)
Placed(acc, text, needle, c) ==
    /\ acc.haystack <= Len(text) + 1
    /\ \A k \in 1 .. Len(acc.pieces) : Len(acc.pieces[k]) <= Len(text)
    /\ \/ acc.haystack = 1
       \/ \E p \in 1 .. c : Matches(text, p, needle) /\ acc.haystack = p + Len(needle)
    /\ acc.thrown => Overlaps(needle)

(* There is no match behind the last one, and none in a piece, and the     *)
(* pieces with a separator after each are the text until there.            *)
Covered(acc, text, needle, c) ==
    ~acc.thrown =>
       /\ \A d \in acc.haystack .. c : ~Matches(text, d, needle)
       /\ \A k \in 1 .. Len(acc.pieces) : \A d \in 1 .. Len(acc.pieces[k]) :
             ~Matches(acc.pieces[k], d, needle)
       /\ \/ acc.pieces = <<>> /\ acc.haystack = 1
          \/ /\ Len(acc.pieces) >= 1
             /\ Alike(Joined(acc.pieces, needle) \o needle, SubSeq(text, 1, acc.haystack - 1))

LEMMA PlacedRound ==
    ASSUME NEW text \in Seq(Letter), NEW needle \in Seq(Letter), NEW acc \in AccType,
           NEW c \in 1 .. Len(text), NEW after \in AccType, Round(after, text, needle, acc, c),
           Placed(acc, text, needle, c - 1)
    PROVE  Placed(after, text, needle, c)
<1>1. /\ acc.haystack \in Nat \ {0} /\ acc.pieces \in Seq(Seq(Letter)) /\ acc.thrown \in BOOLEAN
      /\ Len(text) \in Nat /\ Len(needle) \in Nat /\ c \in Nat
  BY DEF AccType, Place
<1>2. CASE after = acc /\ (acc.thrown \/ ~Matches(text, c, needle))
  <2>1. \A p \in 1 .. c - 1 : p \in 1 .. c
    OBVIOUS
  <2> QED BY <1>2, <2>1 DEF Placed
<1>3. CASE /\ ~acc.thrown /\ Matches(text, c, needle) /\ c < acc.haystack
           /\ after.thrown /\ after.haystack = acc.haystack /\ after.pieces = acc.pieces
  <2>1. PICK p \in 1 .. c - 1 : Matches(text, p, needle) /\ acc.haystack = p + Len(needle)
    <3>1. acc.haystack # 1
      BY <1>1, <1>3
    <3> QED BY <3>1 DEF Placed
  <2>2. p \in 1 .. Len(text) /\ p < c /\ c < p + Len(needle)
    BY <1>1, <1>3, <2>1
  <2>3. Overlaps(needle)
    BY <1>3, <2>1, <2>2, TwoMatches
  <2>4. p \in 1 .. c
    OBVIOUS
  <2> QED BY <1>3, <2>1, <2>3, <2>4 DEF Placed
<1>4. CASE /\ ~acc.thrown /\ Matches(text, c, needle) /\ c >= acc.haystack
           /\ ~after.thrown /\ after.haystack = c + Len(needle)
           /\ after.pieces = Append(acc.pieces, SubSeq(text, acc.haystack, c - 1))
  <2>1. c + Len(needle) - 1 <= Len(text)
    BY <1>4, AlikeMatch
  <2>2. PICK piece : piece = SubSeq(text, acc.haystack, c - 1)
    OBVIOUS
  <2>3. c - 1 \in Nat /\ c - 1 <= Len(text)
    BY <1>1
  <2>4. /\ piece \in Seq(Letter)
        /\ Len(piece) = IF c - 1 < acc.haystack THEN 0 ELSE c - 1 - acc.haystack + 1
    BY <1>1, <2>2, <2>3, PartSeq
  <2>5. Len(piece) <= Len(text)
    BY <1>1, <2>3, <2>4
  <2>6. after.pieces = Append(acc.pieces, piece)
    BY <1>4, <2>2
  <2>7. PICK n : n = Len(acc.pieces) /\ n \in Nat
    <3>1. Len(acc.pieces) \in Nat
      BY <1>1
    <3> QED BY <3>1
  <2>8. /\ Len(after.pieces) = n + 1 /\ after.pieces[n + 1] = piece
        /\ \A k \in 1 .. n : after.pieces[k] = acc.pieces[k]
    BY <1>1, <2>4, <2>6, <2>7, AppendSeq
  <2>9. \A k \in 1 .. n : Len(acc.pieces[k]) <= Len(text)
    BY <2>7 DEF Placed
  <2>10. ASSUME NEW k \in 1 .. Len(after.pieces) PROVE Len(after.pieces[k]) <= Len(text)
    <3>1. k \in 1 .. n \/ k = n + 1
      BY <2>7, <2>8
    <3> QED BY <2>5, <2>8, <2>9, <3>1
  <2>11. after.haystack <= Len(text) + 1
    BY <1>1, <1>4, <2>1
  <2>12. c \in 1 .. c
    BY <1>1
  <2> QED BY <1>4, <2>10, <2>11, <2>12 DEF Placed
<1> QED BY <1>2, <1>3, <1>4 DEF Round

(* What is joined after a new piece.                                       *)
LEMMA JoinedCovers ==
    ASSUME NEW text \in Seq(Letter), NEW needle \in Seq(Letter), NEW pieces \in Seq(Seq(Letter)),
           NEW h \in Place, NEW c \in 1 .. Len(text), Matches(text, c, needle), h <= c,
           \/ pieces = <<>> /\ h = 1
           \/ /\ Len(pieces) >= 1
              /\ Alike(Joined(pieces, needle) \o needle, SubSeq(text, 1, h - 1)),
           NEW piece, piece = SubSeq(text, h, c - 1)
    PROVE  Alike(Joined(Append(pieces, piece), needle) \o needle,
                 SubSeq(text, 1, c + Len(needle) - 1))
<1>1. PICK m : m = c + Len(needle) - 1
  OBVIOUS
<1>2. /\ m \in Nat /\ m <= Len(text) /\ SubSeq(text, c, m) \in Seq(Letter)
      /\ Alike(needle, SubSeq(text, c, m))
  BY <1>1, AlikeMatch
<1>3. /\ h \in Nat /\ h - 1 \in Nat /\ c - 1 \in Nat /\ h - 1 <= c - 1 /\ c - 1 <= Len(text)
      /\ c - 1 <= m /\ (h - 1) + 1 = h /\ (c - 1) + 1 = c /\ Len(text) \in Nat
  BY <1>1 DEF Place
<1>4. /\ SubSeq(text, 1, h - 1) \in Seq(Letter) /\ piece \in Seq(Letter)
      /\ SubSeq(text, 1, c - 1) = SubSeq(text, 1, h - 1) \o piece
  <2>1. /\ SubSeq(text, 1, h - 1) \in Seq(Letter)
        /\ SubSeq(text, (h - 1) + 1, c - 1) \in Seq(Letter)
        /\ SubSeq(text, 1, c - 1) = SubSeq(text, 1, h - 1) \o SubSeq(text, (h - 1) + 1, c - 1)
    BY <1>3, TwoParts
  <2> QED BY <1>3, <2>1
<1>5. /\ SubSeq(text, 1, c - 1) \in Seq(Letter)
      /\ SubSeq(text, 1, m) = SubSeq(text, 1, c - 1) \o SubSeq(text, c, m)
  <2>1. /\ SubSeq(text, 1, c - 1) \in Seq(Letter)
        /\ SubSeq(text, 1, m) = SubSeq(text, 1, c - 1) \o SubSeq(text, (c - 1) + 1, m)
    BY <1>2, <1>3, TwoParts
  <2> QED BY <1>3, <2>1
<1>6. PICK j : j = Joined(Append(pieces, piece), needle)
  OBVIOUS
<1>7. j \in Seq(Letter) /\ Alike(j, SubSeq(text, 1, c - 1))
  <2>1. CASE pieces = <<>> /\ h = 1
    <3>1. Append(pieces, piece) = <<piece>>
      BY <2>1
    <3>2. j = piece
      BY <1>4, <1>6, <3>1, JoinedOne
    <3> QED BY <1>4, <2>1, <3>2, AlikeSame
  <2>2. CASE /\ Len(pieces) >= 1
             /\ Alike(Joined(pieces, needle) \o needle, SubSeq(text, 1, h - 1))
    <3>1. PICK i : i = Joined(pieces, needle)
      OBVIOUS
    <3>2. i \in Seq(Letter) /\ j = i \o needle \o piece
      BY <1>4, <1>6, <2>2, <3>1, JoinedAppend
    <3>3. i \o needle \in Seq(Letter)
      BY <3>2, ConcatSeq
    <3>4. j \in Seq(Letter)
      BY <1>4, <3>2, <3>3, ConcatSeq
    <3>5. Alike((i \o needle) \o piece, SubSeq(text, 1, h - 1) \o piece)
      BY <1>4, <2>2, <3>1, <3>3, AlikeJoin, AlikeSame
    <3> QED BY <1>4, <3>2, <3>4, <3>5
  <2> QED BY <2>1, <2>2
<1>8. Alike(j \o needle, SubSeq(text, 1, c - 1) \o SubSeq(text, c, m))
  BY <1>2, <1>5, <1>7, AlikeJoin
<1> QED BY <1>1, <1>5, <1>6, <1>8

LEMMA CoveredRound ==
    ASSUME NEW text \in Seq(Letter), NEW needle \in Seq(Letter), needle # <<>>,
           NEW acc \in AccType, NEW c \in 1 .. Len(text), NEW after \in AccType,
           Round(after, text, needle, acc, c), Covered(acc, text, needle, c - 1)
    PROVE  Covered(after, text, needle, c)
<1>1. /\ acc.haystack \in Place /\ acc.pieces \in Seq(Seq(Letter)) /\ acc.thrown \in BOOLEAN
      /\ Len(acc.pieces) \in Nat /\ Len(text) \in Nat /\ c \in Nat
      /\ acc.haystack \in Nat \ {0}
  BY DEF AccType, Place
<1>2. CASE after.thrown
  BY <1>2 DEF Covered
<1>3. CASE after = acc /\ ~Matches(text, c, needle) /\ ~after.thrown
  <2>1. ASSUME NEW d \in acc.haystack .. c PROVE ~Matches(text, d, needle)
    <3>1. d = c \/ d \in acc.haystack .. c - 1
      BY <1>1
    <3> QED BY <1>3, <3>1 DEF Covered
  <2> QED BY <1>3, <2>1 DEF Covered
<1>4. CASE /\ ~acc.thrown /\ Matches(text, c, needle) /\ c >= acc.haystack
           /\ ~after.thrown /\ after.haystack = c + Len(needle)
           /\ after.pieces = Append(acc.pieces, SubSeq(text, acc.haystack, c - 1))
  <2>1. PICK piece : piece = SubSeq(text, acc.haystack, c - 1)
    OBVIOUS
  <2>2. c - 1 \in Nat /\ c - 1 <= Len(text)
    BY <1>1
  <2>3. piece \in Seq(Letter)
    BY <1>1, <2>1, <2>2, PartSeq
  <2>4. after.pieces = Append(acc.pieces, piece)
    BY <1>4, <2>1
  <2>5. PICK n : n = Len(acc.pieces) /\ n \in Nat
    BY <1>1
  <2>6. /\ Len(after.pieces) = n + 1 /\ after.pieces[n + 1] = piece
        /\ \A k \in 1 .. n : after.pieces[k] = acc.pieces[k]
    BY <1>1, <2>3, <2>4, <2>5, AppendSeq
  <2>7. Len(needle) \in Nat \ {0}
    BY EmptySeq
  <2>8. \A d \in after.haystack .. c : ~Matches(text, d, needle)
    BY <1>1, <1>4, <2>7
  <2>9. ASSUME NEW d \in 1 .. Len(piece) PROVE ~Matches(piece, d, needle)
    <3> SUFFICES ASSUME Matches(piece, d, needle) PROVE FALSE
      OBVIOUS
    <3>1. d \in 1 .. Len(SubSeq(text, acc.haystack, c - 1))
      BY <2>1
    <3>2. Matches(SubSeq(text, acc.haystack, c - 1), d, needle)
      BY <2>1
    <3>3. PICK b : b = c - 1
      OBVIOUS
    <3>4. /\ acc.haystack + d - 1 \in acc.haystack .. b
          /\ Matches(text, acc.haystack + d - 1, needle)
      BY <1>1, <2>2, <3>1, <3>2, <3>3, MatchInPart
    <3> QED BY <1>4, <3>3, <3>4 DEF Covered
  <2>10. \A k \in 1 .. n : \A d \in 1 .. Len(acc.pieces[k]) :
            ~Matches(acc.pieces[k], d, needle)
    BY <1>4, <2>5 DEF Covered
  <2>11. ASSUME NEW k \in 1 .. Len(after.pieces), NEW d \in 1 .. Len(after.pieces[k])
         PROVE  ~Matches(after.pieces[k], d, needle)
    <3>1. k \in 1 .. n \/ k = n + 1
      BY <2>5, <2>6
    <3>2. CASE k \in 1 .. n
      BY <2>6, <2>10, <3>2
    <3>3. CASE k = n + 1
      BY <2>6, <2>9, <3>3
    <3> QED BY <3>1, <3>2, <3>3
  <2>12. \/ acc.pieces = <<>> /\ acc.haystack = 1
         \/ /\ Len(acc.pieces) >= 1
            /\ Alike(Joined(acc.pieces, needle) \o needle,
                     SubSeq(text, 1, acc.haystack - 1))
    BY <1>4 DEF Covered
  <2>13. PICK h \in Place : h = acc.haystack
    BY <1>1
  <2>14. PICK pieces \in Seq(Seq(Letter)) : pieces = acc.pieces
    BY <1>1
  <2>15. /\ h <= c /\ Matches(text, c, needle)
         /\ \/ pieces = <<>> /\ h = 1
            \/ /\ Len(pieces) >= 1
               /\ Alike(Joined(pieces, needle) \o needle, SubSeq(text, 1, h - 1))
         /\ piece = SubSeq(text, h, c - 1)
    BY <1>1, <1>4, <2>1, <2>12, <2>13, <2>14
  <2>16. Alike(Joined(Append(pieces, piece), needle) \o needle,
               SubSeq(text, 1, c + Len(needle) - 1))
    BY <2>15, JoinedCovers
  <2>17. Alike(Joined(after.pieces, needle) \o needle,
               SubSeq(text, 1, after.haystack - 1))
    <3>1. after.pieces = Append(pieces, piece)
      BY <2>4, <2>14
    <3>2. after.haystack - 1 = c + Len(needle) - 1
      BY <1>4
    <3> QED BY <2>16, <3>1, <3>2
  <2>18. Len(after.pieces) >= 1
    BY <2>5, <2>6
  <2> QED BY <2>8, <2>11, <2>17, <2>18 DEF Covered
<1> QED BY <1>2, <1>3, <1>4 DEF Round

(* What the search leaves.                                                 *)
LEMMA SearchEnd ==
    ASSUME NEW text \in Seq(Letter), NEW needle \in Seq(Letter), needle # <<>>
    PROVE  /\ Searched(text, needle) \in AccType
           /\ Placed(Searched(text, needle), text, needle, Len(text))
           /\ Covered(Searched(text, needle), text, needle, Len(text))
<1>1. PICK found : Rounds(found, text, needle)
  BY SearchRounds
<1>2. PICK n : n = Len(text) /\ n \in Nat
  OBVIOUS
<1> DEFINE T == {c \in 0 .. n : /\ Placed(found[c], text, needle, c)
                                /\ Covered(found[c], text, needle, c)}
<1>3. 0 \in T
  <2>1. PICK acc : acc = found[0]
    OBVIOUS
  <2>2. acc.haystack = 1 /\ acc.pieces = <<>> /\ ~acc.thrown
    BY <1>1, <2>1 DEF Rounds, Start
  <2>3. Placed(acc, text, needle, 0)
    BY <1>2, <2>2 DEF Placed
  <2>4. Covered(acc, text, needle, 0)
    BY <2>2 DEF Covered
  <2> QED BY <1>2, <2>1, <2>3, <2>4
<1>4. ASSUME NEW k \in 0 .. n - 1, k \in T PROVE k + 1 \in T
  <2>1. PICK c : c = k + 1
    OBVIOUS
  <2>2. c \in 1 .. Len(text) /\ c - 1 = k /\ c \in 0 .. n /\ k \in 0 .. n
    BY <1>2, <2>1
  <2>3. PICK acc \in AccType : acc = found[k]
    BY <1>1, <1>2, <2>2 DEF Rounds
  <2>4. PICK after \in AccType : after = found[c]
    BY <1>1, <1>2, <2>2 DEF Rounds
  <2>5. after = Piece(text, needle, acc, c)
    BY <1>1, <2>2, <2>3, <2>4 DEF Rounds
  <2>6. Round(after, text, needle, acc, c)
    BY <2>2, <2>5, PieceRound
  <2>7. Placed(acc, text, needle, c - 1) /\ Covered(acc, text, needle, c - 1)
    BY <1>4, <2>2, <2>3
  <2>8. Placed(after, text, needle, c)
    BY <2>2, <2>6, <2>7, PlacedRound
  <2>9. Covered(after, text, needle, c)
    BY <2>2, <2>6, <2>7, CoveredRound
  <2> QED BY <2>1, <2>2, <2>4, <2>8, <2>9
<1>5. 0 .. n \subseteq T
  <2> HIDE DEF T
  <2> QED BY <1>2, <1>3, <1>4, UpToInduction
<1>6. n \in 0 .. n
  BY <1>2
<1> QED BY <1>1, <1>2, <1>5, <1>6 DEF Rounds

(* What split gives when the search has not ended.                         *)
Given(text, needle) ==
    LET found == Searched(text, needle)
        rest  == SubSeq(text, found.haystack, Len(text))
    IN  IF rest = <<>> THEN found.pieces ELSE Append(found.pieces, rest)

(* PiecesOfText of a text and what is given for it.                        *)
PiecesOf(text, needle, value) ==
    IF value = <<>> THEN text = <<>>
    ELSE LET joined == Joined(value, needle)
         IN  /\ Folded(text) \in {Folded(joined), Folded(joined \o needle)}
             /\ \A piece \in Range(value) :
                   \A c \in DOMAIN piece : ~Matches(piece, c, needle)

(* The whole of a text.                                                    *)
LEMMA WholeText ==
    ASSUME NEW text \in Seq(Letter) PROVE SubSeq(text, 1, Len(text)) = text
<1>1. PICK n : n = Len(text) /\ n \in 0 .. Len(text) /\ n \in Nat
  OBVIOUS
<1>2. PICK s : s = SubSeq(text, 1, n)
  OBVIOUS
<1>3. s \in Seq(Letter) /\ Len(s) = n /\ \A k \in 1 .. n : s[k] = text[k]
  BY <1>1, <1>2, PrefixSeq
<1>4. s = text
  BY <1>1, <1>3, SameSeq
<1> QED BY <1>1, <1>2, <1>4

LEMMA GivenPieces ==
    ASSUME NEW text \in Seq(Letter), NEW needle \in Seq(Letter), needle # <<>>
    PROVE  /\ Given(text, needle) \in Seq(Seq(Letter))
           /\ \A k \in 1 .. Len(Given(text, needle)) : Len(Given(text, needle)[k]) <= Len(text)
           /\ ~Searched(text, needle).thrown => PiecesOf(text, needle, Given(text, needle))
<1>1. PICK acc : acc = Searched(text, needle)
  OBVIOUS
<1>2. acc \in AccType /\ Placed(acc, text, needle, Len(text)) /\ Covered(acc, text, needle, Len(text))
  BY <1>1, SearchEnd
<1>3. PICK n : n = Len(text) /\ n \in Nat
  OBVIOUS
<1>4. PICK h : h = acc.haystack
  OBVIOUS
<1>5. PICK pieces : pieces = acc.pieces
  OBVIOUS
<1>6. h \in Nat \ {0} /\ h \in Place /\ h <= n + 1 /\ pieces \in Seq(Seq(Letter))
  BY <1>2, <1>3, <1>4, <1>5 DEF AccType, Place, Placed
<1>7. PICK m : m = Len(pieces) /\ m \in Nat
  BY <1>6
<1>8. \A k \in 1 .. m : pieces[k] \in Seq(Letter) /\ Len(pieces[k]) <= n
  BY <1>2, <1>3, <1>5, <1>6, <1>7 DEF Placed
<1>9. PICK rest : rest = SubSeq(text, h, n)
  OBVIOUS
<1>10. rest \in Seq(Letter) /\ Len(rest) = IF n < h THEN 0 ELSE n - h + 1
  BY <1>3, <1>6, <1>9, PartSeq
<1>11. PICK value : value = IF rest = <<>> THEN pieces ELSE Append(pieces, rest)
  OBVIOUS
<1>12. value = Given(text, needle)
  BY <1>1, <1>3, <1>4, <1>5, <1>9, <1>11 DEF Given
<1>13. rest = <<>> <=> h = n + 1
  <2>1. rest = <<>> <=> Len(rest) = 0
    BY <1>10, EmptySeq
  <2> QED BY <1>3, <1>6, <1>10, <2>1
<1>14. /\ value \in Seq(Seq(Letter))
       /\ Len(value) = IF rest = <<>> THEN m ELSE m + 1
       /\ \A k \in 1 .. m : value[k] = pieces[k]
       /\ rest # <<>> => value[m + 1] = rest
  <2>1. CASE rest = <<>>
    BY <1>6, <1>7, <1>11, <2>1
  <2>2. CASE rest # <<>>
    <3>1. value = Append(pieces, rest)
      BY <1>11, <2>2
    <3> QED BY <1>6, <1>7, <1>10, <2>2, <3>1, AppendSeq
  <2> QED BY <2>1, <2>2
<1>15. Len(rest) <= n
  BY <1>3, <1>6, <1>10
<1>16. ASSUME NEW k \in 1 .. Len(value)
       PROVE  /\ Len(value[k]) <= n /\ value[k] \in Seq(Letter)
              /\ value[k] = rest \/ (k \in 1 .. m /\ value[k] = pieces[k])
  <2>1. CASE k \in 1 .. m
    BY <1>8, <1>14, <2>1
  <2>2. CASE k \notin 1 .. m
    <3>1. rest # <<>> /\ k = m + 1
      BY <1>7, <1>14, <2>2
    <3> QED BY <1>10, <1>14, <1>15, <3>1
  <2> QED BY <2>1, <2>2
<1>17. ASSUME ~acc.thrown PROVE PiecesOf(text, needle, value)
  <2>1. /\ \A d \in h .. n : ~Matches(text, d, needle)
        /\ \A k \in 1 .. m : \A d \in 1 .. Len(pieces[k]) : ~Matches(pieces[k], d, needle)
    BY <1>2, <1>3, <1>4, <1>5, <1>7, <1>17 DEF Covered
  <2>2. \/ pieces = <<>> /\ h = 1
        \/ m >= 1 /\ Alike(Joined(pieces, needle) \o needle, SubSeq(text, 1, h - 1))
    BY <1>2, <1>4, <1>5, <1>7, <1>17 DEF Covered
  <2>3. pieces = <<>> <=> m = 0
    BY <1>6, <1>7, EmptySeq
  <2>4. SubSeq(text, 1, n) = text
    BY <1>3, WholeText
  <2>5. \A piece \in Range(value) : \A c \in DOMAIN piece : ~Matches(piece, c, needle)
    <3>1. ASSUME NEW d \in 1 .. Len(rest) PROVE ~Matches(rest, d, needle)
      <4> SUFFICES ASSUME Matches(rest, d, needle) PROVE FALSE
        OBVIOUS
      <4>1. d \in 1 .. Len(SubSeq(text, h, n)) /\ Matches(SubSeq(text, h, n), d, needle)
        BY <1>9
      <4>2. h + d - 1 \in h .. n /\ Matches(text, h + d - 1, needle)
        BY <1>3, <1>6, <4>1, MatchInPart
      <4> QED BY <2>1, <4>2
    <3>2. ASSUME NEW k \in 1 .. Len(value), NEW d \in 1 .. Len(value[k])
          PROVE  ~Matches(value[k], d, needle)
      BY <1>16, <2>1, <3>1
    <3>3. ASSUME NEW piece \in Range(value), NEW c \in DOMAIN piece
          PROVE  ~Matches(piece, c, needle)
      <4>1. PICK k \in 1 .. Len(value) : piece = value[k]
        BY <1>14 DEF Range
      <4>2. piece \in Seq(Letter)
        BY <1>16, <4>1
      <4>3. c \in 1 .. Len(piece)
        BY <4>2
      <4> QED BY <3>2, <4>1, <4>3
    <3> QED BY <3>3
  <2>6. PICK j : j = Joined(value, needle)
    OBVIOUS
  <2>7. CASE value = <<>>
    <3>1. Len(value) = 0
      BY <2>7
    <3>2. m = 0 /\ rest = <<>>
      <4>1. m \in Nat /\ 0 = IF rest = <<>> THEN m ELSE m + 1
        BY <1>7, <1>14, <3>1
      <4> QED BY <4>1
    <3>3. n = 0
      BY <1>3, <1>13, <2>2, <2>3, <3>2
    <3>4. text = <<>>
      BY <1>3, <3>3, EmptySeq
    <3> QED BY <2>7, <3>4 DEF PiecesOf
  <2>8. CASE value # <<>> /\ rest = <<>>
    <3>1. value = pieces /\ h - 1 = n
      BY <1>3, <1>6, <1>11, <1>13, <2>8
    <3>2. m >= 1 /\ Alike(j \o needle, text)
      BY <2>2, <2>4, <2>6, <2>8, <3>1
    <3>3. j \in Seq(Letter)
      BY <1>6, <1>7, <2>6, <3>1, <3>2, JoinedAppend, <1>10
    <3>4. j \o needle \in Seq(Letter)
      BY <3>3, ConcatSeq
    <3>5. Folded(text) = Folded(j \o needle)
      BY <3>2, <3>4, AlikeFolded
    <3> QED BY <2>5, <2>6, <2>8, <3>5 DEF PiecesOf
  <2>9. CASE rest # <<>>
    <3>1. value = Append(pieces, rest)
      BY <1>11, <2>9
    <3>2. j \in Seq(Letter) /\ Alike(j, text)
      <4>1. CASE pieces = <<>> /\ h = 1
        <5>1. value = <<rest>>
          BY <3>1, <4>1
        <5>2. j = rest
          BY <1>10, <2>6, <5>1, JoinedOne
        <5>3. rest = text
          BY <1>9, <2>4, <4>1
        <5> QED BY <5>2, <5>3, AlikeSame
      <4>2. CASE m >= 1 /\ Alike(Joined(pieces, needle) \o needle, SubSeq(text, 1, h - 1))
        <5>1. PICK i : i = Joined(pieces, needle)
          OBVIOUS
        <5>2. i \in Seq(Letter) /\ j = i \o needle \o rest
          BY <1>6, <1>7, <1>10, <2>6, <3>1, <4>2, <5>1, JoinedAppend
        <5>3. i \o needle \in Seq(Letter)
          BY <5>2, ConcatSeq
        <5>4. j \in Seq(Letter)
          BY <1>10, <5>2, <5>3, ConcatSeq
        <5>5. h - 1 \in Nat /\ h - 1 <= n /\ (h - 1) + 1 = h /\ n <= Len(text) /\ n \in Nat
          BY <1>3, <1>6
        <5>6. /\ SubSeq(text, 1, h - 1) \in Seq(Letter)
              /\ SubSeq(text, 1, n) = SubSeq(text, 1, h - 1) \o SubSeq(text, (h - 1) + 1, n)
          BY <5>5, TwoParts
        <5>7. text = SubSeq(text, 1, h - 1) \o rest
          BY <1>9, <2>4, <5>5, <5>6
        <5>8. Alike((i \o needle) \o rest, SubSeq(text, 1, h - 1) \o rest)
          BY <1>10, <4>2, <5>1, <5>3, <5>6, AlikeJoin, AlikeSame
        <5> QED BY <5>2, <5>4, <5>7, <5>8
      <4> QED BY <2>2, <4>1, <4>2
    <3>3. Folded(text) = Folded(j)
      BY <3>2, AlikeFolded
    <3>4. value # <<>>
      <4>1. Len(value) = m + 1
        BY <1>14, <2>9
      <4> QED BY <1>7, <4>1
    <3> QED BY <2>5, <2>6, <3>3, <3>4 DEF PiecesOf
  <2> QED BY <2>7, <2>8, <2>9
<1> QED BY <1>1, <1>3, <1>12, <1>14, <1>16, <1>17

-----------------------------------------------------------------------------
(* The scanner *)

LEMMA EscapedChar ==
    ASSUME NEW c \in Char PROVE Escaped(c) \in Char
<1>1. {"newline", "return", "tab", "backspace", NUL} \subseteq Char
  BY StringsAssumption DEF Blank
<1>2. CASE c = "n"
  BY <1>1, <1>2 DEF Escaped
<1>3. CASE c = "r"
  BY <1>1, <1>3 DEF Escaped
<1>4. CASE c = "t"
  BY <1>1, <1>4 DEF Escaped
<1>5. CASE c = "b"
  BY <1>1, <1>5 DEF Escaped
<1>6. CASE c = "0"
  BY <1>1, <1>6 DEF Escaped
<1>7. CASE c \notin {"n", "r", "t", "b", "0"}
  BY <1>7 DEF Escaped
<1> QED BY <1>2, <1>3, <1>4, <1>5, <1>6, <1>7

(* A character in the buffer, and where it goes on.                        *)
LEMMA PushParts ==
    ASSUME StringsTypeOK, NEW c \in Char, Push(c)
    PROVE  /\ sx_lex_str' \in [0 .. StrMax -> Char] /\ sx_lex_str_i' \in 0 .. StrMax
           /\ sx_lex_str'[sx_lex_str_i] = c
           /\ \A k \in 0 .. StrMax : k # sx_lex_str_i => sx_lex_str'[k] = sx_lex_str[k]
<1>1. StrMax \in Nat
  BY StringsAssumption
<1>2. sx_lex_str \in [0 .. StrMax -> Char] /\ sx_lex_str_i \in 0 .. StrMax
  BY DEF StringsTypeOK
<1>3. sx_lex_str' = [sx_lex_str EXCEPT ![sx_lex_str_i] = c]
  BY DEF Push
<1>4. sx_lex_str_i' \in 0 .. StrMax
  BY <1>1, <1>2 DEF Push
<1> QED BY <1>2, <1>3, <1>4

(* What a C string is.                                                     *)
LEMMA CStringParts ==
    ASSUME NEW buffer \in [0 .. StrMax -> Char], NEW i \in 0 .. StrMax, buffer[i] = NUL
    PROVE  \E n \in 0 .. i :
              /\ buffer[n] = NUL /\ \A k \in 0 .. n - 1 : buffer[k] # NUL
              /\ CString(buffer) = [k \in 1 .. n |-> buffer[k - 1]]
              /\ CString(buffer) \in Seq(Letter) /\ Len(CString(buffer)) = n
<1>1. StrMax \in Nat
  BY StringsAssumption
<1>2. PICK T : T = {k \in DOMAIN buffer : buffer[k] = NUL}
  OBVIOUS
<1>3. T \subseteq Nat /\ i \in T
  BY <1>1, <1>2
<1>4. PICK n : n = Min(T)
  OBVIOUS
<1>5. n \in T /\ \A y \in T : n <= y
  BY <1>3, <1>4, MinNat
<1>6. n \in 0 .. i /\ buffer[n] = NUL
  BY <1>1, <1>2, <1>3, <1>5
<1>7. ASSUME NEW k \in 0 .. n - 1 PROVE buffer[k] # NUL
  <2>1. k \in DOMAIN buffer /\ ~(n <= k)
    BY <1>1, <1>6
  <2> QED BY <1>2, <1>5, <2>1
<1>8. PICK s : s = [k \in 1 .. n |-> buffer[k - 1]]
  OBVIOUS
<1>9. \A k \in 1 .. n : buffer[k - 1] \in Letter
  <2> SUFFICES ASSUME NEW k \in 1 .. n PROVE buffer[k - 1] \in Letter
    OBVIOUS
  <2>1. k - 1 \in 0 .. n - 1 /\ k - 1 \in 0 .. StrMax
    BY <1>1, <1>6
  <2> QED BY <1>7, <2>1 DEF Letter
<1>10. s \in [1 .. n -> Letter]
  BY <1>8, <1>9
<1>11. s \in Seq(Letter) /\ Len(s) = n
  BY <1>6, <1>10, MakeSeq
<1>12. CString(buffer) = s
  BY <1>2, <1>4, <1>8 DEF CString
<1> QED BY <1>6, <1>7, <1>8, <1>11, <1>12

LEMMA ScanSteps ==
    ASSUME StringsInv, (\E s \in Sources : OpenQuote(s)) \/ ScanEscape \/ ScanCharacter
    PROVE  StringsInv'
<1>1. StringsTypeOK /\ source \in Seq(Char)
  BY DEF StringsInv
<1>2. ASSUME NEW s \in Sources, OpenQuote(s) PROVE StringsInv'
  <2>1. s \in Seq(Char) /\ StrMax \in Nat
    BY StringsAssumption
  <2>2. <<s>> # <<>>
    OBVIOUS
  <2>3. sx_lex_str_i' \in 0 .. StrMax
    BY <1>2, <2>1 DEF OpenQuote
  <2>4. /\ literal' # <<>> /\ source' \in Seq(Char) /\ ~crashed'
    BY <1>2, <2>1, <2>2 DEF OpenQuote, Idle, StringsInv, StringsTypeOK
  <2> QED BY <1>2, <2>3, <2>4 DEF OpenQuote, StringsInv, StringsTypeOK
<1>3. ASSUME NEW c \in Char, Push(c), literal # <<>>, source' \in Seq(Char),
             UNCHANGED <<literal, self, reply, calls, crashed>>
      PROVE  StringsInv'
  <2>1. sx_lex_str' \in [0 .. StrMax -> Char] /\ sx_lex_str_i' \in 0 .. StrMax
    BY <1>1, <1>3, PushParts
  <2> QED BY <1>3, <2>1 DEF StringsInv, StringsTypeOK
<1>4. CASE ScanEscape
  <2>1. Len(source) > 1
    BY <1>4 DEF ScanEscape, IsEscape
  <2>2. source[2] \in Char /\ SubSeq(source, 3, Len(source)) \in Seq(Char)
    BY <1>1, <2>1
  <2>3. PICK c : c = Escaped(source[2])
    OBVIOUS
  <2>4. c \in Char
    BY <2>2, <2>3, EscapedChar
  <2>5. /\ Push(c) /\ literal # <<>> /\ source' \in Seq(Char)
        /\ UNCHANGED <<literal, self, reply, calls, crashed>>
    BY <1>4, <2>2, <2>3 DEF ScanEscape
  <2> QED BY <1>3, <2>4, <2>5
<1>5. CASE ScanCharacter
  <2>1. source # <<>>
    BY <1>5 DEF ScanCharacter
  <2>2. Head(source) \in Char /\ Tail(source) \in Seq(Char)
    BY <1>1, <2>1
  <2>3. /\ Push(Head(source)) /\ literal # <<>> /\ source' \in Seq(Char)
        /\ UNCHANGED <<literal, self, reply, calls, crashed>>
    BY <1>5, <2>2 DEF ScanCharacter
  <2> QED BY <1>3, <2>2, <2>3
<1> QED BY <1>2, <1>4, <1>5

LEMMA CloseStep ==
    ASSUME StringsInv, CloseQuote PROVE StringsInv'
<1>1. StrMax \in Nat /\ MaxLen \in Nat /\ StrMax <= MaxLen /\ NUL \in Char
  BY StringsAssumption
<1>2. sx_lex_str \in [0 .. StrMax -> Char] /\ sx_lex_str_i \in 0 .. StrMax
  BY DEF StringsInv, StringsTypeOK
<1>3. PICK buffer : buffer = sx_lex_str'
  OBVIOUS
<1>4. buffer = [sx_lex_str EXCEPT ![sx_lex_str_i] = NUL]
  BY <1>3 DEF CloseQuote
<1>5. buffer \in [0 .. StrMax -> Char] /\ buffer[sx_lex_str_i] = NUL
  BY <1>1, <1>2, <1>4
<1>6. PICK n \in 0 .. sx_lex_str_i :
         CString(buffer) \in Seq(Letter) /\ Len(CString(buffer)) = n
  BY <1>2, <1>5, CStringParts
<1>7. self' = CString(buffer)
  BY <1>3 DEF CloseQuote
<1>8. self' \in Seq(Char \ {NUL}) /\ Len(self') <= MaxLen
  <2>1. n <= MaxLen
    BY <1>1, <1>2
  <2> QED BY <1>6, <1>7, <2>1 DEF Letter
<1>9. /\ source' = <<>> /\ source' \in Seq(Char) /\ literal' = <<>>
      /\ sx_lex_str_i' = sx_lex_str_i /\ calls' = calls /\ crashed' = crashed
  BY DEF CloseQuote
<1> QED BY <1>2, <1>3, <1>5, <1>8, <1>9 DEF StringsInv, StringsTypeOK

LEMMA SplitStep ==
    ASSUME StringsInv, NEW needle \in Arguments, MethodSplit(needle)
    PROVE  StringsInv'
<1>1. /\ self \in Seq(Letter) /\ Len(self) <= MaxLen /\ Len(self) \in Nat /\ MaxLen \in Nat
      /\ needle \in Seq(Letter)
  BY StringsAssumption DEF StringsInv, StringsTypeOK, Letter
<1>2. \/ needle = <<>> /\ Method("split", <<needle>>, <<self>>)
      \/ needle # <<>> /\ Method("split", <<needle>>, Given(self, needle))
      \/ Throw("split", <<needle>>)
  BY DEF MethodSplit, Given
<1>3. CASE Method("split", <<needle>>, <<self>>)
  <2>1. PICK value : value = <<self>>
    OBVIOUS
  <2>2. /\ value \in Seq(Seq(Letter)) /\ \A k \in 1 .. Len(value) : Len(value[k]) <= MaxLen
        /\ Method("split", <<needle>>, value)
    BY <1>1, <1>3, <2>1, OneString
  <2> QED BY <2>2, MethodStep
<1>4. CASE needle # <<>> /\ Method("split", <<needle>>, Given(self, needle))
  <2>1. PICK value : value = Given(self, needle)
    OBVIOUS
  <2>2. value \in Seq(Seq(Letter)) /\ \A k \in 1 .. Len(value) : Len(value[k]) <= Len(self)
    BY <1>1, <1>4, <2>1, GivenPieces
  <2>3. ASSUME NEW k \in 1 .. Len(value) PROVE Len(value[k]) <= MaxLen
    <3>1. value[k] \in Seq(Letter)
      BY <2>2
    <3>2. Len(value[k]) \in Nat /\ Len(value[k]) <= Len(self)
      BY <2>2, <3>1
    <3> QED BY <1>1, <3>2
  <2>4. Method("split", <<needle>>, value)
    BY <1>4, <2>1
  <2> QED BY <2>2, <2>3, <2>4, MethodStep
<1>5. CASE Throw("split", <<needle>>)
  BY <1>5, ThrowStep
<1> QED BY <1>2, <1>3, <1>4, <1>5

LEMMA ToIntStep ==
    ASSUME StringsInv, MethodToInt PROVE StringsInv'
<1>1. calls' \in 0 .. MaxCalls
  <2>1. calls \in Nat /\ MaxCalls \in Nat /\ calls < MaxCalls /\ calls' = calls + 1
    BY StringsAssumption DEF MethodToInt, Running, StringsInv, StringsTypeOK
  <2> QED BY <2>1
<1> QED BY <1>1 DEF MethodToInt, scanner, StringsInv, StringsTypeOK

LEMMA StringsInvInit == Init => StringsInv
<1> SUFFICES ASSUME Init PROVE StringsInv
  OBVIOUS
<1>1. StrMax \in Nat /\ MaxLen \in Nat /\ MaxCalls \in Nat /\ NUL \in Char
  BY StringsAssumption
<1>2. sx_lex_str \in [0 .. StrMax -> Char] /\ sx_lex_str_i \in 0 .. StrMax
  BY <1>1 DEF Init
<1>3. self = <<>> /\ source = <<>> /\ <<>> \in Seq(Char \ {NUL}) /\ <<>> \in Seq(Char) /\ Len(<<>>) = 0
  BY DEF Init
<1>4. calls \in 0 .. MaxCalls /\ crashed \in BOOLEAN /\ ~crashed
  BY <1>1 DEF Init
<1> QED BY <1>1, <1>2, <1>3, <1>4 DEF StringsInv, StringsTypeOK

LEMMA StringsInvStep == StringsInv /\ [Next]_svars => StringsInv'
<1> SUFFICES ASSUME StringsInv, [Next]_svars PROVE StringsInv'
  OBVIOUS
<1>1. CASE UNCHANGED svars
  BY <1>1 DEF svars, scanner, StringsInv, StringsTypeOK
<1>2. CASE (\E s \in Sources : OpenQuote(s)) \/ ScanEscape \/ ScanCharacter
  BY <1>2, ScanSteps
<1>3. CASE CloseQuote
  BY <1>3, CloseStep
<1>4. CASE \/ \E other \in Arguments : Concat(other)
           \/ MethodUpper \/ MethodLower \/ MethodTrim \/ MethodLtrim \/ MethodRtrim
           \/ \E n \in Numbers : MethodToString(n)
  BY <1>4, SimpleSteps
<1>5. CASE \E other \in Arguments : MethodSplit(other)
  BY <1>5, SplitStep
<1>6. CASE \E start, len \in Numbers : MethodSubstr(start, len)
  BY <1>6, SubstrStep
<1>7. CASE MethodToInt
  BY <1>7, ToIntStep
<1> QED BY <1>1, <1>2, <1>3, <1>4, <1>5, <1>6, <1>7 DEF Next

(***************************************************************************)
(* Every variable has its type, whatever is scanned and called: in         *)
(* particular the scanner stays inside its buffer.                         *)
(***************************************************************************)
THEOREM StringsTypeOKThm == Spec => []StringsTypeOK
<1>1. StringsInv => StringsTypeOK
  BY DEF StringsInv
<1> QED BY <1>1, StringsInvInit, StringsInvStep, PTL DEF Spec

-----------------------------------------------------------------------------
(* What operations reply *)

Others == {"concat", "upper", "lower", "trim", "ltrim", "rtrim", "toString"}

(* What a method that is called leaves as its reply.                       *)
LEMMA Answered ==
    ASSUME NEW op, NEW arg, NEW value, Method(op, arg, value) \/ Throw(op, arg)
    PROVE  /\ ~crashed /\ reply'.op = op /\ reply'.arg = arg /\ reply'.self = self
           /\ Method(op, arg, value) => ~crashed' /\ reply'.value = value
           /\ Throw(op, arg) => crashed'
<1>1. ASSUME NEW v, Replies(op, arg, v)
      PROVE  /\ reply'.op = op /\ reply'.arg = arg /\ reply'.self = self /\ reply'.value = v
  BY <1>1 DEF Replies
<1>2. CASE Method(op, arg, value)
  BY <1>1, <1>2 DEF Method, Throw, Running, Idle
<1>3. CASE Throw(op, arg)
  BY <1>1, <1>3 DEF Method, Throw, Running, Idle
<1> QED BY <1>2, <1>3

(* Which steps leave a reply that a property speaks of.                    *)
LEMMA ReplySteps ==
    ASSUME StringsInv, [Next]_svars
    PROVE  \/ reply' = reply /\ crashed' = crashed
           \/ reply'.op \in Others /\ ~crashed'
           \/ CloseQuote /\ ~crashed' /\ reply'.op = "literal"
           \/ \E needle \in Arguments : MethodSplit(needle)
           \/ \E start, len \in Numbers : MethodSubstr(start, len)
           \/ MethodToInt /\ ~crashed' /\ reply'.op = "toInt"
<1>1. CASE UNCHANGED svars
  BY <1>1 DEF svars
<1>2. CASE (\E s \in Sources : OpenQuote(s)) \/ ScanEscape \/ ScanCharacter
  BY <1>2 DEF OpenQuote, ScanEscape, ScanCharacter
<1>3. CASE CloseQuote
  <2>1. ~crashed' /\ reply'.op = "literal"
    BY <1>3 DEF CloseQuote, Replies, StringsInv
  <2> QED BY <1>3, <2>1
<1>4. CASE \/ \E other \in Arguments : Concat(other)
           \/ MethodUpper \/ MethodLower \/ MethodTrim \/ MethodLtrim \/ MethodRtrim
           \/ \E n \in Numbers : MethodToString(n)
  <2>1. \E op \in Others : \E arg, value : Method(op, arg, value)
    BY <1>4 DEF Others, Concat, MethodUpper, MethodLower, MethodTrim, MethodLtrim, MethodRtrim,
                MethodToString
  <2> QED BY <2>1, Answered
<1>5. CASE MethodToInt
  <2>1. ~crashed' /\ reply'.op = "toInt"
    BY <1>5 DEF MethodToInt, Running, Idle, Replies
  <2> QED BY <1>5, <2>1
<1> QED BY <1>1, <1>2, <1>3, <1>4, <1>5 DEF Next

(* Which ways split takes.                                                 *)
LEMMA SplitWays ==
    ASSUME StringsInv, NEW needle \in Arguments, MethodSplit(needle)
    PROVE  /\ self \in Seq(Letter) /\ needle \in Seq(Letter)
           /\ reply'.op = "split" /\ reply'.arg = <<needle>> /\ reply'.self = self
           /\ \/ needle = <<>> /\ ~crashed'
              \/ /\ needle # <<>> /\ ~Searched(self, needle).thrown /\ ~crashed'
                 /\ reply'.value = Given(self, needle)
              \/ needle # <<>> /\ Searched(self, needle).thrown /\ crashed'
<1>1. self \in Seq(Letter) /\ needle \in Seq(Letter)
  BY StringsAssumption DEF StringsInv, StringsTypeOK, Letter
<1>2. PICK arg : arg = <<needle>>
  OBVIOUS
<1>3. \/ needle = <<>> /\ \E value : Method("split", arg, value)
      \/ /\ needle # <<>> /\ ~Searched(self, needle).thrown
         /\ Method("split", arg, Given(self, needle))
      \/ needle # <<>> /\ Searched(self, needle).thrown /\ Throw("split", arg)
  BY <1>2 DEF MethodSplit, Given
<1>4. CASE needle = <<>> /\ \E value : Method("split", arg, value)
  <2>1. PICK value : Method("split", arg, value)
    BY <1>4
  <2> QED BY <1>1, <1>2, <1>4, <2>1, Answered
<1>5. CASE needle # <<>> /\ ~Searched(self, needle).thrown /\ Method("split", arg, Given(self, needle))
  <2>1. PICK value : value = Given(self, needle)
    OBVIOUS
  <2>2. Method("split", arg, value)
    BY <1>5, <2>1
  <2> QED BY <1>1, <1>2, <1>5, <2>1, <2>2, Answered
<1>6. CASE needle # <<>> /\ Searched(self, needle).thrown /\ Throw("split", arg)
  BY <1>1, <1>2, <1>6, Answered
<1> QED BY <1>3, <1>4, <1>5, <1>6

(* Which ways substr takes.                                                *)
LEMMA SubstrWays ==
    ASSUME StringsInv, NEW vstart \in Numbers, NEW vlen \in Numbers, MethodSubstr(vstart, vlen),
           NEW start, NEW end, start = Narrow(vstart),
           end = TrimmedEnd(start + Narrow(vlen), Len(self))
    PROVE  /\ self \in Seq(Letter) /\ vstart \in Int /\ vlen \in Int
           /\ reply'.op = "substr" /\ reply'.arg = <<vstart, vlen>> /\ reply'.self = self
           /\ \/ start \notin 0 .. Len(self) - 1 /\ ~crashed'
              \/ /\ start \in 0 .. Len(self) - 1 /\ end >= start /\ ~crashed'
                 /\ reply'.value = <<SubSeq(self, start + 1, end)>>
              \/ start \in 0 .. Len(self) - 1 /\ end < start /\ crashed'
<1>1. self \in Seq(Letter) /\ vstart \in Int /\ vlen \in Int
  BY StringsAssumption DEF StringsInv, StringsTypeOK, Letter
<1>2. PICK arg : arg = <<vstart, vlen>>
  OBVIOUS
<1>3. PICK s : s = SubSeq(self, start + 1, end)
  OBVIOUS
<1>4. \/ start \notin 0 .. Len(self) - 1 /\ Method("substr", arg, <<>>)
      \/ /\ start \in 0 .. Len(self) - 1 /\ end >= start
         /\ Method("substr", arg, <<s>>)
      \/ start \in 0 .. Len(self) - 1 /\ end < start /\ Throw("substr", arg)
  BY <1>2, <1>3 DEF MethodSubstr
<1>5. \/ start \notin 0 .. Len(self) - 1 /\ \E v : Method("substr", arg, v)
      \/ /\ start \in 0 .. Len(self) - 1 /\ end >= start
         /\ \E v : v = <<s>> /\ Method("substr", arg, v)
      \/ start \in 0 .. Len(self) - 1 /\ end < start /\ Throw("substr", arg)
  BY <1>4
<1>6. CASE start \notin 0 .. Len(self) - 1 /\ \E v : Method("substr", arg, v)
  <2>1. PICK v : Method("substr", arg, v)
    BY <1>6
  <2> QED BY <1>1, <1>2, <1>6, <2>1, Answered
<1>7. CASE start \in 0 .. Len(self) - 1 /\ end >= start /\ \E v : v = <<s>> /\ Method("substr", arg, v)
  <2>1. PICK v : v = <<s>> /\ Method("substr", arg, v)
    BY <1>7
  <2> QED BY <1>1, <1>2, <1>3, <1>7, <2>1, Answered
<1>8. CASE start \in 0 .. Len(self) - 1 /\ end < start /\ Throw("substr", arg)
  BY <1>1, <1>2, <1>8, Answered
<1> QED BY <1>5, <1>6, <1>7, <1>8

LEMMA PiecesStep == StringsInv /\ PiecesOfText /\ [Next]_svars => PiecesOfText'
<1> SUFFICES ASSUME StringsInv, PiecesOfText, [Next]_svars PROVE PiecesOfText'
  OBVIOUS
<1>1. PiecesOfText <=> ((reply.op = "split" /\ ~crashed /\ reply.arg[1] # <<>>) =>
                           PiecesOf(reply.self, reply.arg[1], reply.value))
  BY DEF PiecesOfText, PiecesOf
<1>2. PiecesOfText' <=> ((reply'.op = "split" /\ ~crashed' /\ reply'.arg[1] # <<>>) =>
                            PiecesOf(reply'.self, reply'.arg[1], reply'.value))
  BY DEF PiecesOfText, PiecesOf
<1>3. CASE reply' = reply /\ crashed' = crashed
  BY <1>1, <1>2, <1>3
<1>4. CASE \E needle \in Arguments : MethodSplit(needle)
  <2>1. PICK needle \in Arguments : MethodSplit(needle)
    BY <1>4
  <2>2. CASE needle = <<>> \/ crashed'
    BY <1>2, <2>1, <2>2, SplitWays
  <2>3. CASE needle # <<>> /\ ~crashed'
    <3>1. /\ self \in Seq(Letter) /\ needle \in Seq(Letter) /\ reply'.arg = <<needle>>
          /\ reply'.self = self /\ ~Searched(self, needle).thrown
          /\ reply'.value = Given(self, needle)
      BY <2>1, <2>3, SplitWays
    <3>2. PiecesOf(self, needle, Given(self, needle))
      BY <2>3, <3>1, GivenPieces
    <3> QED BY <1>2, <3>1, <3>2
  <2> QED BY <2>2, <2>3
<1>5. CASE \E start, len \in Numbers : MethodSubstr(start, len)
  <2>1. reply'.op = "substr"
    BY <1>5, SubstrWays
  <2> QED BY <1>2, <2>1
<1>6. CASE reply'.op \in Others \cup {"literal", "toInt"}
  BY <1>2, <1>6 DEF Others
<1> QED BY <1>3, <1>4, <1>5, <1>6, ReplySteps

(***************************************************************************)
(* For every text and every separator, in any case: with the separator     *)
(* between them the pieces split gives are the text, up to a last          *)
(* separator, and none has a separator inside.                             *)
(***************************************************************************)
THEOREM PiecesOfTextThm == Spec => []PiecesOfText
<1>1. Init => PiecesOfText
  BY DEF Init, PiecesOfText
<1> QED BY <1>1, StringsInvInit, StringsInvStep, PiecesStep, PTL DEF Spec

LEMMA CrashStep == StringsInv /\ CrashOnlyByOverlap /\ [Next]_svars => CrashOnlyByOverlap'
<1> SUFFICES ASSUME StringsInv, CrashOnlyByOverlap, [Next]_svars PROVE CrashOnlyByOverlap'
  OBVIOUS
<1>1. CrashOnlyByOverlap' <=>
         (crashed' => \/ reply'.op = "split" /\ Overlaps(reply'.arg[1])
                      \/ reply'.op = "substr" /\ Narrow(reply'.arg[2]) < 0)
  BY DEF CrashOnlyByOverlap
<1>2. CASE reply' = reply /\ crashed' = crashed
  BY <1>1, <1>2 DEF CrashOnlyByOverlap
<1>3. CASE \E needle \in Arguments : MethodSplit(needle)
  <2>1. PICK needle \in Arguments : MethodSplit(needle)
    BY <1>3
  <2>2. SUFFICES ASSUME crashed' PROVE reply'.op = "split" /\ Overlaps(reply'.arg[1])
    BY <1>1
  <2>3. /\ self \in Seq(Letter) /\ needle \in Seq(Letter) /\ needle # <<>>
        /\ reply'.op = "split" /\ reply'.arg = <<needle>> /\ Searched(self, needle).thrown
    BY <2>1, <2>2, SplitWays
  <2>4. Overlaps(needle)
    BY <2>3, SearchEnd DEF Placed
  <2> QED BY <2>3, <2>4
<1>4. CASE \E start, len \in Numbers : MethodSubstr(start, len)
  <2>1. PICK vstart \in Numbers, vlen \in Numbers : MethodSubstr(vstart, vlen)
    BY <1>4
  <2>2. SUFFICES ASSUME crashed' PROVE reply'.op = "substr" /\ Narrow(reply'.arg[2]) < 0
    BY <1>1
  <2>3. PICK start, n, end : /\ start = Narrow(vstart) /\ n = start + Narrow(vlen)
                             /\ end = TrimmedEnd(n, Len(self))
    OBVIOUS
  <2>4. end = TrimmedEnd(start + Narrow(vlen), Len(self))
    BY <2>3
  <2>5. /\ self \in Seq(Letter) /\ vstart \in Int /\ vlen \in Int
        /\ reply'.op = "substr" /\ reply'.arg = <<vstart, vlen>>
        /\ start \in 0 .. Len(self) - 1 /\ end < start
    BY <2>1, <2>2, <2>3, <2>4, SubstrWays
  <2>6. Narrow(vlen) \in Int
    BY <2>5, StringsAssumption DEF Narrow
  <2>7. PICK d \in Int : d = Narrow(vlen)
    BY <2>6
  <2>8. PICK l \in Nat : l = Len(self)
    BY <2>5
  <2>9. end = IF n < 0 \/ n > l THEN l ELSE n
    BY <2>3, <2>8 DEF TrimmedEnd
  <2>10. n = start + d /\ start \in 0 .. l - 1 /\ end < start
    BY <2>3, <2>5, <2>7, <2>8
  <2>11. d < 0
    BY <2>9, <2>10
  <2> QED BY <2>5, <2>7, <2>11
<1>5. CASE ~crashed'
  BY <1>1, <1>5
<1> QED BY <1>2, <1>3, <1>4, <1>5, ReplySteps

(***************************************************************************)
(* For every text and every argument: what ends the program is a separator *)
(* of split that can overlap itself, or a length of substr that is         *)
(* negative as an int.                                                     *)
(***************************************************************************)
THEOREM CrashOnlyByOverlapThm == Spec => []CrashOnlyByOverlap
<1>1. Init => CrashOnlyByOverlap
  BY DEF Init, CrashOnlyByOverlap
<1> QED BY <1>1, StringsInvInit, StringsInvStep, CrashStep, PTL DEF Spec

LEMMA SubstrReplyStep == StringsInv /\ SubstrAsAsked /\ [Next]_svars => SubstrAsAsked'
<1> SUFFICES ASSUME StringsInv, SubstrAsAsked, [Next]_svars PROVE SubstrAsAsked'
  OBVIOUS
<1>1. CASE reply' = reply
  BY <1>1 DEF SubstrAsAsked
<1>2. CASE \E start, len \in Numbers : MethodSubstr(start, len)
  <2>1. PICK vstart \in Numbers, vlen \in Numbers : MethodSubstr(vstart, vlen)
    BY <1>2
  <2>2. PICK start, n, end : /\ start = Narrow(vstart) /\ n = start + Narrow(vlen)
                             /\ end = TrimmedEnd(n, Len(self))
    OBVIOUS
  <2>3. end = TrimmedEnd(start + Narrow(vlen), Len(self))
    BY <2>2
  <2>4. /\ self \in Seq(Letter) /\ vstart \in Int /\ vlen \in Int
        /\ reply'.op = "substr" /\ reply'.arg = <<vstart, vlen>> /\ reply'.self = self
        /\ \/ start \notin 0 .. Len(self) - 1
           \/ /\ start \in 0 .. Len(self) - 1 /\ end >= start
              /\ reply'.value = <<SubSeq(self, start + 1, end)>>
           \/ start \in 0 .. Len(self) - 1 /\ end < start
    BY <2>1, <2>2, <2>3, SubstrWays
  <2>5. SUFFICES ASSUME vstart \in 0 .. Len(self) - 1, vlen \in 0 .. IntHalf - 1
                 PROVE  reply'.value = <<SubSeq(self, vstart + 1, Min({vstart + vlen, Len(self)}))>>
    <3>1. SubstrAsAsked' <=>
             (reply'.op = "substr" =>
                ((/\ reply'.arg[1] \in 0 .. Len(reply'.self) - 1
                  /\ reply'.arg[2] \in 0 .. IntHalf - 1) =>
                 reply'.value = <<SubSeq(reply'.self, reply'.arg[1] + 1,
                                  Min({reply'.arg[1] + reply'.arg[2], Len(reply'.self)}))>>))
      BY DEF SubstrAsAsked
    <3>2. reply'.arg[1] = vstart /\ reply'.arg[2] = vlen /\ reply'.self = self
      BY <2>4
    <3> QED BY <3>1, <3>2
  <2>6. PICK l \in Nat : l = Len(self)
    BY <2>4
  <2>7. PICK h \in Nat : h = IntHalf
    BY StringsAssumption
  <2>8. l < h
    BY <2>6, <2>7, StringsAssumption DEF StringsInv
  <2>9. ASSUME NEW k \in 0 .. h - 1 PROVE Narrow(k) = k
    <3>1. k + h \in Nat /\ 2 * h \in Nat /\ k + h < 2 * h
      BY <2>7
    <3>2. (k + h) % (2 * h) = k + h
      BY <3>1
    <3> QED BY <2>7, <3>2 DEF Narrow
  <2>10. vstart \in 0 .. l - 1 /\ vlen \in 0 .. h - 1 /\ vstart \in 0 .. h - 1
    BY <2>5, <2>6, <2>7, <2>8
  <2>11. start = vstart /\ n = vstart + vlen
    BY <2>2, <2>9, <2>10
  <2>12. end = IF n < 0 \/ n > l THEN l ELSE n
    BY <2>2, <2>6 DEF TrimmedEnd
  <2>13. n \in Nat
    BY <2>10, <2>11
  <2>14. PICK T : T = {vstart + vlen, Len(self)}
    OBVIOUS
  <2>15. T = {n, l} /\ T \subseteq Nat /\ T # {}
    BY <2>6, <2>11, <2>13, <2>14
  <2>16. PICK m : m = Min(T)
    OBVIOUS
  <2>17. m \in T /\ \A y \in T : m <= y
    BY <2>15, <2>16, MinNat
  <2>18. end = m /\ end >= vstart
    BY <2>10, <2>11, <2>12, <2>13, <2>15, <2>17
  <2>19. start \in 0 .. Len(self) - 1 /\ ~(end < start)
    BY <2>6, <2>10, <2>11, <2>12, <2>13
  <2>20. reply'.value = <<SubSeq(self, start + 1, end)>>
    BY <2>4, <2>19
  <2> QED BY <2>11, <2>14, <2>16, <2>18, <2>20
<1>3. CASE reply'.op # "substr"
  BY <1>3 DEF SubstrAsAsked
<1>4. (\E needle \in Arguments : MethodSplit(needle)) => reply'.op # "substr"
  BY SplitWays
<1> QED BY <1>1, <1>2, <1>3, <1>4, ReplySteps DEF Others

(***************************************************************************)
(* For every string, place and length: substr gives as many characters     *)
(* from the place as were asked for and are there.                         *)
(***************************************************************************)
THEOREM SubstrAsAskedThm == Spec => []SubstrAsAsked
<1>1. Init => SubstrAsAsked
  BY DEF Init, SubstrAsAsked
<1> QED BY <1>1, StringsInvInit, StringsInvStep, SubstrReplyStep, PTL DEF Spec

-----------------------------------------------------------------------------
(* Texts as numbers *)

(* Strings of digits.                                                      *)
DigitString == {s \in Seq(Letter) : \A k \in 1 .. Len(s) : \E d \in 0 .. 9 : s[k] = Digits[d + 1]}
DigitAt(c)  == CHOOSE d \in 0 .. 9 : Digits[d + 1] = c

LEMMA DigitChars ==
    /\ \A d \in 0 .. 9 : DigitAt(Digits[d + 1]) = d
    /\ \A d \in 0 .. 9 : IsDigit(Digits[d + 1])
    /\ \A d \in 0 .. 9 : Digits[d + 1] \notin Blank \cup {"return", "-"}
<1>1. /\ Digits[1] = "0" /\ Digits[2] = "1" /\ Digits[3] = "2" /\ Digits[4] = "3"
      /\ Digits[5] = "4" /\ Digits[6] = "5" /\ Digits[7] = "6" /\ Digits[8] = "7"
      /\ Digits[9] = "8" /\ Digits[10] = "9"
  BY DEF Digits
<1>2. \A d, e \in 0 .. 9 : Digits[d + 1] = Digits[e + 1] => d = e
  <2> SUFFICES ASSUME NEW d \in 0 .. 9, NEW e \in 0 .. 9, Digits[d + 1] = Digits[e + 1]
               PROVE  d = e
    OBVIOUS
  <2>1. PICK x, y : x = Digits[d + 1] /\ y = Digits[e + 1] /\ x = y
    OBVIOUS
  <2>2. \/ (d = 0 /\ x = "0") \/ (d = 1 /\ x = "1") \/ (d = 2 /\ x = "2") \/ (d = 3 /\ x = "3")
        \/ (d = 4 /\ x = "4") \/ (d = 5 /\ x = "5") \/ (d = 6 /\ x = "6") \/ (d = 7 /\ x = "7")
        \/ (d = 8 /\ x = "8") \/ (d = 9 /\ x = "9")
    BY <1>1, <2>1
  <2>3. \/ (e = 0 /\ y = "0") \/ (e = 1 /\ y = "1") \/ (e = 2 /\ y = "2") \/ (e = 3 /\ y = "3")
        \/ (e = 4 /\ y = "4") \/ (e = 5 /\ y = "5") \/ (e = 6 /\ y = "6") \/ (e = 7 /\ y = "7")
        \/ (e = 8 /\ y = "8") \/ (e = 9 /\ y = "9")
    BY <1>1, <2>1
  <2> QED BY <2>1, <2>2, <2>3
<1>3. ASSUME NEW d \in 0 .. 9 PROVE DigitAt(Digits[d + 1]) = d
  BY <1>2 DEF DigitAt
<1>4. ASSUME NEW d \in 0 .. 9 PROVE IsDigit(Digits[d + 1])
  BY DEF IsDigit, Range, Digits
<1>5. ASSUME NEW d \in 0 .. 9 PROVE Digits[d + 1] \notin Blank \cup {"return", "-"}
  <2>1. PICK x : x = Digits[d + 1]
    OBVIOUS
  <2>2. x \in {"0", "1", "2", "3", "4", "5", "6", "7", "8", "9"}
    BY <1>1, <2>1
  <2> QED BY <2>1, <2>2 DEF Blank
<1> QED BY <1>3, <1>4, <1>5

(* A text of digits is read digit by digit.                                *)
Values(value, s) ==
    /\ value[0] = 0
    /\ \A k \in 0 .. Len(s) : value[k] \in Nat
    /\ \A k \in 1 .. Len(s) : value[k] = 10 * value[k - 1] + DigitAt(s[k])
    /\ NumberOf(s) = value[Len(s)]

LEMMA ValuesExist ==
    ASSUME NEW s \in DigitString PROVE \E value : Values(value, s)
<1>1. PICK n : n = Len(s)
  OBVIOUS
<1>2. n \in Nat /\ \A k \in 1 .. n : \E d \in 0 .. 9 : s[k] = Digits[d + 1]
  BY <1>1 DEF DigitString
<1>3. \A k \in 1 .. n : DigitAt(s[k]) \in Nat
  BY <1>2, DigitChars
<1>4. PICK F : /\ F \in [(1 .. n) \X Nat -> Nat]
               /\ \A k \in 1 .. n, x \in Nat : F[<<k, x>>] = 10 * x + DigitAt(s[k])
  <2> DEFINE G == [p \in (1 .. n) \X Nat |-> 10 * p[2] + DigitAt(s[p[1]])]
  <2>1. \A k \in 1 .. n, x \in Nat : 10 * x + DigitAt(s[k]) \in Nat
    BY <1>3
  <2>2. G \in [(1 .. n) \X Nat -> Nat]
    BY <2>1
  <2>3. \A k \in 1 .. n, x \in Nat : G[<<k, x>>] = 10 * x + DigitAt(s[k])
    OBVIOUS
  <2> HIDE DEF G
  <2> QED BY <2>2, <2>3
<1>5. PICK base : base = 0
  OBVIOUS
<1>6. PICK f \in [0 .. n -> Nat] : Folding(f, n, base, F)
  <2>1. F \in [(1 .. n) \X Nat -> Nat] /\ n \in Nat /\ base \in Nat
    BY <1>2, <1>4, <1>5
  <2> QED BY <2>1, FoldExists
<1> DEFINE Steps(g) == g = [k \in 0 .. n |-> IF k = 0 THEN 0 ELSE 10 * g[k - 1] + DigitAt(s[k])]
           value == CHOOSE g : Steps(g)
<1>7. Steps(f)
  <2>1. \A k \in 0 .. n : f[k] = IF k = 0 THEN 0 ELSE 10 * f[k - 1] + DigitAt(s[k])
    <3> SUFFICES ASSUME NEW k \in 0 .. n
                 PROVE  f[k] = IF k = 0 THEN 0 ELSE 10 * f[k - 1] + DigitAt(s[k])
      OBVIOUS
    <3>1. CASE k = 0
      BY <1>2, <1>5, <1>6, <3>1 DEF Folding
    <3>2. CASE k # 0
      <4>1. k \in 1 .. n /\ k - 1 \in 0 .. n
        BY <1>2, <3>2
      <4>2. f[k] = F[<<k, f[k - 1]>>] /\ f[k - 1] \in Nat
        BY <1>6, <3>2, <4>1 DEF Folding
      <4> QED BY <1>4, <3>2, <4>1, <4>2
    <3> QED BY <3>1, <3>2
  <2> QED BY <1>6, <2>1
<1>8. Steps(value)
  <2> HIDE DEF Steps
  <2> QED BY <1>7
<1>9. NumberOf(s) = value[n]
  BY <1>1 DEF NumberOf, DigitAt
<1>10. value[0] = 0 /\ \A k \in 1 .. n : value[k] = 10 * value[k - 1] + DigitAt(s[k])
  <2>1. PICK g : g = value /\ Steps(g)
    BY <1>8
  <2> HIDE DEF value
  <2>2. g[0] = 0 /\ \A k \in 1 .. n : g[k] = 10 * g[k - 1] + DigitAt(s[k])
    BY <1>2, <2>1
  <2> QED BY <2>1, <2>2
<1> HIDE DEF value
<1>11. \A k \in 0 .. n : value[k] \in Nat
  <2> DEFINE T == {k \in 0 .. n : value[k] \in Nat}
  <2>1. 0 \in T
    BY <1>2, <1>10
  <2>2. ASSUME NEW k \in 0 .. n - 1, k \in T PROVE k + 1 \in T
    <3>1. k + 1 \in 1 .. n /\ (k + 1) - 1 = k /\ k + 1 \in 0 .. n
      BY <1>2
    <3>2. value[k + 1] = 10 * value[k] + DigitAt(s[k + 1]) /\ DigitAt(s[k + 1]) \in Nat
      BY <1>3, <1>10, <3>1
    <3>3. value[k] \in Nat
      BY <2>2
    <3> QED BY <3>1, <3>2, <3>3
  <2>3. 0 .. n \subseteq T
    <3> HIDE DEF T
    <3> QED BY <1>2, <2>1, <2>2, UpToInduction
  <2> QED BY <2>3
<1>12. Values(value, s)
  BY <1>1, <1>9, <1>10, <1>11 DEF Values
<1> QED BY <1>12

(* One digit more.                                                         *)
LEMMA OneMoreDigit ==
    ASSUME NEW s \in DigitString, NEW d \in 0 .. 9, NEW t, t = Append(s, Digits[d + 1])
    PROVE  t \in DigitString /\ NumberOf(t) = 10 * NumberOf(s) + d /\ NumberOf(s) \in Nat
<1>1. PICK n : n = Len(s)
  OBVIOUS
<1>2. s \in Seq(Letter) /\ n \in Nat /\ Digits[d + 1] \in Letter
  BY <1>1, DigitLetters DEF DigitString
<1>3. /\ t \in Seq(Letter) /\ Len(t) = n + 1 /\ t[n + 1] = Digits[d + 1]
      /\ \A k \in 1 .. n : t[k] = s[k]
  BY <1>1, <1>2, AppendSeq
<1>4. \A k \in 1 .. n + 1 : \E e \in 0 .. 9 : t[k] = Digits[e + 1]
  <2> SUFFICES ASSUME NEW k \in 1 .. n + 1 PROVE \E e \in 0 .. 9 : t[k] = Digits[e + 1]
    OBVIOUS
  <2>1. CASE k = n + 1
    BY <1>3, <2>1
  <2>2. CASE k # n + 1
    <3>1. k \in 1 .. n
      BY <1>2, <2>2
    <3> QED BY <1>1, <1>3, <3>1 DEF DigitString
  <2> QED BY <2>1, <2>2
<1>5. t \in DigitString
  BY <1>3, <1>4 DEF DigitString
<1>6. PICK v : Values(v, s)
  BY ValuesExist
<1>7. PICK w : Values(w, t)
  BY <1>5, ValuesExist
<1>8. \A k \in 0 .. n : w[k] = v[k]
  <2> DEFINE T == {k \in 0 .. n : w[k] = v[k]}
  <2>1. 0 \in T
    BY <1>2, <1>6, <1>7 DEF Values
  <2>2. ASSUME NEW k \in 0 .. n - 1, k \in T PROVE k + 1 \in T
    <3>1. k + 1 \in 1 .. n /\ (k + 1) - 1 = k /\ k + 1 \in 0 .. n /\ k + 1 \in 1 .. n + 1
      BY <1>2
    <3>2. w[k + 1] = 10 * w[k] + DigitAt(t[k + 1])
      BY <1>3, <1>7, <3>1 DEF Values
    <3>3. v[k + 1] = 10 * v[k] + DigitAt(s[k + 1])
      BY <1>1, <1>6, <3>1 DEF Values
    <3>4. w[k] = v[k] /\ t[k + 1] = s[k + 1]
      BY <1>3, <2>2, <3>1
    <3> QED BY <3>1, <3>2, <3>3, <3>4
  <2>3. 0 .. n \subseteq T
    <3> HIDE DEF T
    <3> QED BY <1>2, <2>1, <2>2, UpToInduction
  <2> QED BY <2>3
<1>9. n \in 0 .. n /\ n + 1 \in 1 .. n + 1 /\ (n + 1) - 1 = n
  BY <1>2
<1>10. NumberOf(t) = w[n + 1] /\ w[n + 1] = 10 * w[n] + DigitAt(t[n + 1])
  BY <1>3, <1>7, <1>9 DEF Values
<1>11. NumberOf(s) = v[n] /\ v[n] \in Nat
  BY <1>1, <1>6, <1>9 DEF Values
<1>12. DigitAt(t[n + 1]) = d
  BY <1>3, DigitChars
<1> QED BY <1>5, <1>8, <1>9, <1>10, <1>11, <1>12

(* The digits of a natural say that natural.                               *)
LEMMA DigitsSay ==
    ASSUME NEW n \in Nat, NEW text, DigitsOf(text, n)
    PROVE  \A m \in 0 .. n : text[m] \in DigitString /\ text[m] # <<>> /\ NumberOf(text[m]) = m
<1> DEFINE T == {m \in Nat : m <= n =>
                    text[m] \in DigitString /\ text[m] # <<>> /\ NumberOf(text[m]) = m}
<1>1. PICK none : none = <<>>
  OBVIOUS
<1>2. none \in DigitString /\ NumberOf(none) = 0
  <2>1. Len(none) = 0 /\ none \in Seq(Letter)
    BY <1>1
  <2>2. none \in DigitString
    BY <2>1 DEF DigitString
  <2>3. PICK v : Values(v, none)
    BY <2>2, ValuesExist
  <2> QED BY <2>1, <2>2, <2>3 DEF Values
<1>3. ASSUME NEW m \in Nat, \A k \in 0 .. m - 1 : k \in T PROVE m \in T
  <2> SUFFICES ASSUME m <= n
               PROVE  text[m] \in DigitString /\ text[m] # <<>> /\ NumberOf(text[m]) = m
    OBVIOUS
  <2>1. m \in 0 .. n
    OBVIOUS
  <2>2. PICK t : t = text[m]
    OBVIOUS
  <2>3. \E s \in DigitString, d \in 0 .. 9 :
           t = Append(s, Digits[d + 1]) /\ m = 10 * NumberOf(s) + d
    <3>1. CASE m < 10
      <4>1. t = <<Digits[m + 1]>>
        BY <2>1, <2>2, <3>1 DEF DigitsOf
      <4>2. t = Append(none, Digits[m + 1])
        BY <1>1, <4>1
      <4>3. m \in 0 .. 9 /\ m = 10 * 0 + m
        BY <3>1
      <4> QED BY <1>2, <4>2, <4>3
    <3>2. CASE ~(m < 10)
      <4>1. m >= 10
        BY <3>2
      <4>2. PICK q, r : q = m \div 10 /\ r = m % 10
        OBVIOUS
      <4>3. q \in Nat /\ r \in 0 .. 9 /\ m = 10 * q + r /\ q < m
        BY <4>1, <4>2, DivideByTen
      <4>4. q \in 0 .. m - 1 /\ q <= n
        BY <4>3
      <4>5. text[q] \in DigitString /\ NumberOf(text[q]) = q
        BY <1>3, <4>4
      <4>6. t = Append(text[q], Digits[r + 1])
        BY <2>1, <2>2, <3>2, <4>2 DEF DigitsOf
      <4> QED BY <4>3, <4>5, <4>6
    <3> QED BY <3>1, <3>2
  <2>4. PICK s \in DigitString, d \in 0 .. 9 :
           t = Append(s, Digits[d + 1]) /\ m = 10 * NumberOf(s) + d
    BY <2>3
  <2>5. t \in DigitString /\ NumberOf(t) = 10 * NumberOf(s) + d
    BY <2>4, OneMoreDigit
  <2>6. t # <<>>
    <3>1. s \in Seq(Letter) /\ Digits[d + 1] \in Letter
      BY DigitLetters DEF DigitString
    <3> QED BY <2>4, <3>1
  <2> QED BY <2>2, <2>4, <2>5, <2>6
<1>4. Nat \subseteq T
  <2> HIDE DEF T
  <2> QED BY <1>3, StrongInduction
<1> QED BY <1>4

(* All of a text of digits is read.                                        *)
LEMMA AllDigits ==
    ASSUME NEW s \in DigitString PROVE LongestDigits(s) = s
<1>1. PICK n : n = Len(s)
  OBVIOUS
<1>2. n \in Nat /\ s \in Seq(Letter) /\ DOMAIN s = 1 .. n
  BY <1>1 DEF DigitString
<1>3. \A j \in 1 .. n : IsDigit(s[j])
  BY <1>1, DigitChars DEF DigitString
<1>4. \A k \in 1 .. n : \A j \in 1 .. k : IsDigit(s[j])
  <2> SUFFICES ASSUME NEW k \in 1 .. n, NEW j \in 1 .. k PROVE IsDigit(s[j])
    OBVIOUS
  <2>1. j \in 1 .. n
    BY <1>2
  <2> QED BY <1>3, <2>1
<1>5. {k \in DOMAIN s : \A j \in 1 .. k : IsDigit(s[j])} = 1 .. n
  BY <1>2, <1>4
<1>6. Cardinality(1 .. n) = n
  BY <1>2, FS_Interval
<1>7. LongestDigits(s) = SubSeq(s, 1, n)
  BY <1>5, <1>6 DEF LongestDigits
<1> QED BY <1>1, <1>2, <1>7, WholeText

(* A text that begins with no space is read from its start.                *)
LEMMA AtoiSolid ==
    ASSUME NEW s \in Seq(Letter), s # <<>>, s[1] \notin Blank \cup {"return"}
    PROVE  Atoi(s) = IF s[1] = "-" THEN -NumberOf(LongestDigits(Tail(s)))
                     ELSE NumberOf(LongestDigits(s))
<1>1. PICK spaces : spaces = {k \in DOMAIN s : \A j \in 1 .. k : s[j] \in Blank \cup {"return"}}
  OBVIOUS
<1>2. spaces = {}
  <2> SUFFICES ASSUME NEW k \in spaces PROVE FALSE
    OBVIOUS
  <2>1. k \in 1 .. Len(s) /\ \A j \in 1 .. k : s[j] \in Blank \cup {"return"}
    BY <1>1
  <2>2. 1 \in 1 .. k
    BY <2>1
  <2> QED BY <2>1, <2>2
<1>3. Cardinality(spaces) = 0
  BY <1>2, FS_EmptySet
<1>4. PICK t : t = SubSeq(s, Cardinality(spaces) + 1, Len(s))
  OBVIOUS
<1>5. t = s
  BY <1>3, <1>4, WholeText
<1>6. Atoi(s) = IF t # <<>> /\ t[1] = "-" THEN -NumberOf(LongestDigits(Tail(t)))
                ELSE NumberOf(LongestDigits(t))
  BY <1>1, <1>4 DEF Atoi
<1> QED BY <1>5, <1>6

(* atoi reads what toString writes.                                        *)
LEMMA AtoiDecimal ==
    ASSUME NEW n \in Int PROVE Atoi(Decimal(n)) = n
<1>1. PICK text : /\ DigitsOf(text, Abs(n))
                  /\ Decimal(n) = (IF n < 0 THEN <<"-">> ELSE <<>>) \o text[Abs(n)]
  BY DecimalDigits
<1>2. PICK a : a = Abs(n) /\ a \in Nat
  BY DecimalDigits
<1>3. a = IF n < 0 THEN -n ELSE n
  BY <1>2 DEF Abs
<1>4. a \in 0 .. a
  BY <1>2
<1>5. PICK d : d = text[a]
  OBVIOUS
<1>6. d \in DigitString /\ d # <<>> /\ NumberOf(d) = a
  BY <1>1, <1>2, <1>4, <1>5, DigitsSay
<1>7. d \in Seq(Letter) /\ Len(d) \in Nat /\ Len(d) >= 1
  BY <1>6 DEF DigitString
<1>8. LongestDigits(d) = d
  BY <1>6, AllDigits
<1>9. CASE n < 0
  <2>1. PICK sign : sign = <<"-">>
    OBVIOUS
  <2>2. sign \in Seq(Letter) /\ Len(sign) = 1 /\ sign[1] = "-"
    BY <2>1, DigitLetters
  <2>3. PICK s : s = sign \o d
    OBVIOUS
  <2>4. /\ s \in Seq(Letter) /\ Len(s) = 1 + Len(d)
        /\ \A p \in 1 .. 1 + Len(d) : s[p] = IF p <= 1 THEN sign[p] ELSE d[p - 1]
    <3>1. /\ sign \o d \in Seq(Letter) /\ Len(sign \o d) = Len(sign) + Len(d)
          /\ \A p \in 1 .. Len(sign) + Len(d) :
                (sign \o d)[p] = IF p <= Len(sign) THEN sign[p] ELSE d[p - Len(sign)]
      BY <1>7, <2>2, JoinSeq
    <3> QED BY <2>2, <2>3, <3>1
  <2>5. s[1] = "-" /\ s # <<>>
    <3>1. 1 \in 1 .. 1 + Len(d)
      BY <1>7
    <3> QED BY <1>7, <2>2, <2>4, <3>1
  <2>6. Tail(s) = d
    <3>1. PICK u : u = Tail(s)
      OBVIOUS
    <3>2. /\ u \in Seq(Letter) /\ Len(u) = Len(d)
          /\ \A p \in 1 .. Len(d) : u[p] = s[p + 1]
      BY <1>7, <2>4, <2>5, <3>1
    <3>3. \A p \in 1 .. Len(d) : u[p] = d[p]
      <4> SUFFICES ASSUME NEW p \in 1 .. Len(d) PROVE u[p] = d[p]
        OBVIOUS
      <4>1. p + 1 \in 1 .. 1 + Len(d) /\ ~(p + 1 <= 1) /\ (p + 1) - 1 = p
        BY <1>7
      <4> QED BY <2>4, <3>2, <4>1
    <3>4. u = d
      BY <1>7, <3>2, <3>3, SameSeq
    <3> QED BY <3>1, <3>4
  <2>7. "-" \notin Blank \cup {"return"}
    BY DEF Blank
  <2>8. Atoi(s) = -NumberOf(d)
    BY <1>8, <2>4, <2>5, <2>6, <2>7, AtoiSolid
  <2>9. Decimal(n) = s
    BY <1>1, <1>2, <1>5, <1>9, <2>1, <2>3
  <2> QED BY <1>3, <1>6, <1>9, <2>8, <2>9
<1>10. CASE ~(n < 0)
  <2>1. Decimal(n) = d
    <3>1. <<>> \o d = d
      BY <1>7
    <3> QED BY <1>1, <1>2, <1>5, <1>10, <3>1
  <2>2. d[1] \notin Blank \cup {"return", "-"}
    <3>1. 1 \in 1 .. Len(d)
      BY <1>7
    <3>2. \E e \in 0 .. 9 : d[1] = Digits[e + 1]
      BY <1>6, <3>1 DEF DigitString
    <3> QED BY <3>2, DigitChars
  <2>3. Atoi(d) = NumberOf(d)
    BY <1>6, <1>7, <1>8, <2>2, AtoiSolid
  <2> QED BY <1>3, <1>6, <1>10, <2>1, <2>3
<1> QED BY <1>9, <1>10

LEMMA RoundTripStep == StringsInv /\ RoundTrip /\ [Next]_svars => RoundTrip'
<1> SUFFICES ASSUME StringsInv, RoundTrip, [Next]_svars PROVE RoundTrip'
  OBVIOUS
<1>1. RoundTrip' <=> (reply'.op = "toInt" =>
                        \A n \in Numbers \cap CInt : reply'.self = Decimal(n) => reply'.value = <<n>>)
  BY DEF RoundTrip
<1>2. CASE reply' = reply
  BY <1>1, <1>2 DEF RoundTrip
<1>3. CASE MethodToInt
  <2>1. SUFFICES ASSUME NEW n \in Numbers \cap CInt, reply'.self = Decimal(n)
                 PROVE  reply'.value = <<n>>
    BY <1>1
  <2>2. PICK m \in (IF Atoi(self) \in CInt THEN {Atoi(self)} ELSE CInt) :
           reply'.self = self /\ reply'.value = <<m>>
    <3>1. ASSUME NEW v, Replies("toInt", <<>>, v) PROVE reply'.self = self /\ reply'.value = v
      BY <3>1 DEF Replies
    <3>2. PICK m \in (IF Atoi(self) \in CInt THEN {Atoi(self)} ELSE CInt) :
             Replies("toInt", <<>>, <<m>>)
      BY <1>3 DEF MethodToInt
    <3> QED BY <3>1, <3>2
  <2>3. n \in Int
    BY StringsAssumption
  <2>4. Atoi(self) = n
    BY <2>1, <2>2, <2>3, AtoiDecimal
  <2> QED BY <2>2, <2>4
<1>4. CASE reply'.op # "toInt"
  BY <1>1, <1>4
<1>5. (\E needle \in Arguments : MethodSplit(needle)) => reply'.op # "toInt"
  BY SplitWays
<1>6. (\E start, len \in Numbers : MethodSubstr(start, len)) => reply'.op # "toInt"
  BY SubstrWays
<1> QED BY <1>2, <1>3, <1>4, <1>5, <1>6, ReplySteps DEF Others

(***************************************************************************)
(* For every Int that fits in an int: converted to a String and back it is *)
(* itself.  toInt, that is atoi, reads what toString writes, sign and all. *)
(***************************************************************************)
THEOREM RoundTripThm == Spec => []RoundTrip
<1>1. Init => RoundTrip
  BY DEF Init, RoundTrip
<1> QED BY <1>1, StringsInvInit, StringsInvStep, RoundTripStep, PTL DEF Spec

-----------------------------------------------------------------------------
(* What a literal means *)

(* How a literal's meaning grows with the character at p.                  *)
Grown(s, p, meaning) ==
    IF p \in Escapes(s) THEN meaning
    ELSE Append(meaning, IF p - 1 \in Escapes(s) THEN Escaped(s[p]) ELSE s[p])

Meaning(meant, s) ==
    /\ meant[0] = <<>>
    /\ \A p \in 0 .. Len(s) : meant[p] \in Seq(Char)
    /\ \A p \in 1 .. Len(s) : meant[p] = Grown(s, p, meant[p - 1])
    /\ Meant(s) = meant[Len(s)]

LEMMA GrownSeq ==
    ASSUME NEW s \in Seq(Char), NEW p \in 1 .. Len(s), NEW x \in Seq(Char)
    PROVE  Grown(s, p, x) \in Seq(Char)
<1>1. s[p] \in Char
  OBVIOUS
<1>2. Escaped(s[p]) \in Char
  BY <1>1, EscapedChar
<1>3. PICK c : c = IF p - 1 \in Escapes(s) THEN Escaped(s[p]) ELSE s[p]
  OBVIOUS
<1>4. c \in Char
  BY <1>1, <1>2, <1>3
<1>5. Append(x, c) \in Seq(Char)
  BY <1>4, AppendSeq
<1> QED BY <1>3, <1>5 DEF Grown

LEMMA MeaningExists ==
    ASSUME NEW s \in Seq(Char) PROVE \E meant : Meaning(meant, s)
<1>1. PICK n : n = Len(s)
  OBVIOUS
<1>2. n \in Nat
  BY <1>1
<1>3. PICK S : S = Seq(Char)
  OBVIOUS
<1>4. \A p \in 1 .. n, x \in S : Grown(s, p, x) \in S
  BY <1>1, <1>3, GrownSeq
<1>5. PICK F : /\ F \in [(1 .. n) \X S -> S]
               /\ \A p \in 1 .. n, x \in S : F[<<p, x>>] = Grown(s, p, x)
  <2> DEFINE G == [q \in (1 .. n) \X S |-> Grown(s, q[1], q[2])]
  <2>1. G \in [(1 .. n) \X S -> S]
    BY <1>4
  <2>2. \A p \in 1 .. n, x \in S : G[<<p, x>>] = Grown(s, p, x)
    OBVIOUS
  <2> HIDE DEF G
  <2> QED BY <2>1, <2>2
<1>6. PICK base : base = <<>>
  OBVIOUS
<1>7. base \in S
  BY <1>3, <1>6
<1>8. PICK f \in [0 .. n -> S] : Folding(f, n, base, F)
  BY <1>2, <1>5, <1>7, FoldExists
<1> DEFINE Steps(g) == g = [p \in 0 .. n |-> IF p = 0 THEN <<>>
                                             ELSE IF p \in Escapes(s) THEN g[p - 1]
                                             ELSE Append(g[p - 1], IF p - 1 \in Escapes(s)
                                                                   THEN Escaped(s[p]) ELSE s[p])]
           meant == CHOOSE g : Steps(g)
<1>9. \A g : Steps(g) <=> g = [p \in 0 .. n |-> IF p = 0 THEN base ELSE Grown(s, p, g[p - 1])]
  BY <1>6 DEF Grown
<1>10. Steps(f)
  <2>1. \A p \in 0 .. n : f[p] = IF p = 0 THEN base ELSE Grown(s, p, f[p - 1])
    <3> SUFFICES ASSUME NEW p \in 0 .. n
                 PROVE  f[p] = IF p = 0 THEN base ELSE Grown(s, p, f[p - 1])
      OBVIOUS
    <3>1. CASE p = 0
      BY <1>2, <1>8, <3>1 DEF Folding
    <3>2. CASE p # 0
      <4>1. p \in 1 .. n /\ p - 1 \in 0 .. n
        BY <1>2, <3>2
      <4>2. f[p] = F[<<p, f[p - 1]>>] /\ f[p - 1] \in S
        BY <1>8, <3>2, <4>1 DEF Folding
      <4> QED BY <1>5, <3>2, <4>1, <4>2
    <3> QED BY <3>1, <3>2
  <2>2. f = [p \in 0 .. n |-> IF p = 0 THEN base ELSE Grown(s, p, f[p - 1])]
    BY <1>8, <2>1
  <2> HIDE DEF Steps
  <2> QED BY <1>9, <2>2
<1>11. Meant(s) = meant[n]
  BY <1>1 DEF Meant
<1>12. Steps(meant)
  <2> HIDE DEF Steps
  <2> QED BY <1>10
<1> HIDE DEF Steps, meant
<1>13. meant[0] = base /\ \A p \in 1 .. n : meant[p] = Grown(s, p, meant[p - 1])
  <2>1. PICK g : g = meant /\ g = [p \in 0 .. n |-> IF p = 0 THEN base ELSE Grown(s, p, g[p - 1])]
    BY <1>9, <1>12
  <2>2. g[0] = base /\ \A p \in 1 .. n : g[p] = Grown(s, p, g[p - 1])
    BY <1>2, <2>1
  <2> QED BY <2>1, <2>2
<1>14. \A p \in 0 .. n : meant[p] \in S
  <2> DEFINE T == {p \in 0 .. n : meant[p] \in S}
  <2>1. 0 \in T
    BY <1>2, <1>7, <1>13
  <2>2. ASSUME NEW p \in 0 .. n - 1, p \in T PROVE p + 1 \in T
    <3>1. p + 1 \in 1 .. n /\ (p + 1) - 1 = p /\ p + 1 \in 0 .. n
      BY <1>2
    <3>2. meant[p + 1] = Grown(s, p + 1, meant[p])
      BY <1>13, <3>1
    <3>3. meant[p] \in S
      BY <2>2
    <3>4. Grown(s, p + 1, meant[p]) \in S
      BY <1>4, <3>1, <3>3
    <3> QED BY <3>1, <3>2, <3>4
  <2>3. 0 .. n \subseteq T
    <3> HIDE DEF T
    <3> QED BY <1>2, <2>1, <2>2, UpToInduction
  <2> QED BY <2>3
<1>15. Meaning(meant, s)
  BY <1>1, <1>3, <1>6, <1>11, <1>13, <1>14 DEF Meaning
<1> QED BY <1>15

(* How many backslashes in a row end at p.                                 *)
Run(s, p) == p - Max({0} \cup {q \in 1 .. p : s[q] # "\\"})

LEMMA RunSteps ==
    ASSUME NEW s \in Seq(Char), NEW p \in 0 .. Len(s)
    PROVE  /\ Run(s, p) \in Nat
           /\ p = 0 \/ s[p] # "\\" => Run(s, p) = 0
           /\ p < Len(s) /\ s[p + 1] = "\\" => Run(s, p + 1) = Run(s, p) + 1
<1>1. PICK T : T = {0} \cup {q \in 1 .. p : s[q] # "\\"}
  OBVIOUS
<1>2. p \in Nat /\ T \subseteq 0 .. p /\ T # {}
  BY <1>1
<1>3. PICK m : m = Max(T)
  OBVIOUS
<1>4. m \in T /\ \A y \in T : y <= m
  BY <1>2, <1>3, MaxNat
<1>5. Run(s, p) = p - m
  BY <1>1, <1>3 DEF Run
<1>6. m \in Nat /\ m <= p
  BY <1>2, <1>4
<1>7. p = 0 \/ s[p] # "\\" => p \in T
  BY <1>1, <1>2
<1>8. p \in T => m = p
  BY <1>2, <1>4, <1>6
<1>9. ASSUME p < Len(s), s[p + 1] = "\\" PROVE Run(s, p + 1) = (p + 1) - m
  <2>1. {q \in 1 .. p + 1 : s[q] # "\\"} = {q \in 1 .. p : s[q] # "\\"}
    <3>1. ASSUME NEW q \in 1 .. p + 1, s[q] # "\\" PROVE q \in 1 .. p
      BY <1>2, <1>9, <3>1
    <3>2. 1 .. p \subseteq 1 .. p + 1
      BY <1>2
    <3> QED BY <3>1, <3>2
  <2> QED BY <1>1, <1>3, <2>1 DEF Run
<1>10. Run(s, p) \in Nat
  BY <1>2, <1>5, <1>6
<1>11. p = 0 \/ s[p] # "\\" => Run(s, p) = 0
  BY <1>2, <1>5, <1>7, <1>8
<1>12. p < Len(s) /\ s[p + 1] = "\\" => Run(s, p + 1) = Run(s, p) + 1
  BY <1>2, <1>5, <1>6, <1>9
<1> QED BY <1>10, <1>11, <1>12

(* A backslash behind a place where no escape begins begins one, and the   *)
(* character behind it does not.                                           *)
LEMMA EscapeBegins ==
    ASSUME NEW s \in Seq(Char), NEW p \in 0 .. Len(s) - 2, p \notin Escapes(s),
           s[p + 1] = "\\", s[p + 2] # "newline"
    PROVE  p + 1 \in Escapes(s) /\ p + 2 \notin Escapes(s)
<1>1. PICK n : n = Len(s) /\ n \in Nat
  OBVIOUS
<1>2. p \in 0 .. n - 2 /\ p \in 0 .. n /\ p + 1 \in 0 .. n /\ p + 2 \in 0 .. n
  BY <1>1
<1>3. \A q \in 1 .. n - 1 : q \in Escapes(s) <=>
            (s[q] = "\\" /\ s[q + 1] # "newline" /\ Run(s, q) % 2 = 1)
  BY <1>1 DEF Escapes, Run
<1>4. Escapes(s) \subseteq 1 .. n - 1
  BY <1>1 DEF Escapes
<1>5. PICK r \in Nat : r = Run(s, p)
  BY <1>1, <1>2, RunSteps
<1>6. r % 2 # 1
  <2>1. CASE p = 0 \/ s[p] # "\\"
    <3>1. r = 0
      BY <1>1, <1>2, <1>5, <2>1, RunSteps
    <3> QED BY <3>1
  <2>2. CASE p # 0 /\ s[p] = "\\"
    <3>1. p \in 1 .. n - 1
      BY <1>1, <1>2, <2>2
    <3>2. s[p + 1] # "newline"
      OBVIOUS
    <3> QED BY <1>3, <1>5, <2>2, <3>1, <3>2
  <2> QED BY <2>1, <2>2
<1>7. Run(s, p + 1) = r + 1
  <2>1. p < Len(s)
    BY <1>1, <1>2
  <2> QED BY <1>1, <1>2, <1>5, <2>1, RunSteps
<1>8. (r + 1) % 2 = 1 /\ (r + 2) % 2 # 1
  BY <1>6
<1>9. p + 1 \in Escapes(s)
  <2>1. p + 1 \in 1 .. n - 1 /\ (p + 1) + 1 = p + 2
    BY <1>1, <1>2
  <2> QED BY <1>3, <1>7, <1>8, <2>1
<1>10. p + 2 \notin Escapes(s)
  <2> SUFFICES ASSUME p + 2 \in Escapes(s) PROVE FALSE
    OBVIOUS
  <2>1. PICK q : q = p + 1
    OBVIOUS
  <2>2. q + 1 = p + 2 /\ q \in 0 .. Len(s) /\ q < Len(s) /\ q + 1 \in 1 .. n - 1
    BY <1>1, <1>2, <1>4, <2>1
  <2>3. s[q + 1] = "\\" /\ Run(s, q + 1) % 2 = 1
    BY <1>3, <2>2
  <2>4. Run(s, q + 1) = Run(s, q) + 1
    BY <2>2, <2>3, RunSteps
  <2>5. Run(s, q + 1) = r + 2
    BY <1>7, <2>1, <2>4
  <2> QED BY <1>8, <2>3, <2>5
<1> QED BY <1>9, <1>10

-----------------------------------------------------------------------------
(* A literal in the buffer *)

(* The buffer has as much of a text as there is room for.                  *)
Fills(buffer, i, text) ==
    /\ i = IF Len(text) < StrMax THEN Len(text) ELSE StrMax
    /\ \A k \in 1 .. i : buffer[k - 1] = text[k]

(* What is scanned of a literal, up to p, which is never inside an escape, *)
(* is in the buffer with its meaning.                                      *)
Scanned(s, meant, p) ==
    /\ literal = <<s>> /\ s \in Sources /\ Meaning(meant, s)
    /\ p \in 0 .. Len(s) /\ p \notin Escapes(s) /\ source = SubSeq(s, p + 1, Len(s))
    /\ Fills(sx_lex_str, sx_lex_str_i, meant[p])
LiteralInv ==
    /\ LiteralAsWritten
    /\ literal # <<>> => \E s, meant, p : Scanned(s, meant, p)

LEMMA PushFills ==
    ASSUME StringsTypeOK, NEW text \in Seq(Char), Fills(sx_lex_str, sx_lex_str_i, text),
           NEW c \in Char, Push(c)
    PROVE  Fills(sx_lex_str', sx_lex_str_i', Append(text, c))
<1>1. PICK i, b, j, b2 : i = sx_lex_str_i /\ b = sx_lex_str /\ j = sx_lex_str_i' /\ b2 = sx_lex_str'
  OBVIOUS
<1>2. PICK m : m = StrMax /\ m \in Nat
  BY StringsAssumption
<1>3. /\ b2[i] = c /\ \A k \in 0 .. m : k # i => b2[k] = b[k]
  BY <1>1, <1>2, PushParts
<1>4. j = IF i < m THEN i + 1 ELSE i
  BY <1>1, <1>2 DEF Push
<1>5. PICK l : l = Len(text) /\ l \in Nat
  OBVIOUS
<1>6. i = (IF l < m THEN l ELSE m) /\ \A k \in 1 .. i : b[k - 1] = text[k]
  BY <1>1, <1>2, <1>5 DEF Fills
<1>7. PICK t : t = Append(text, c)
  OBVIOUS
<1>8. Len(t) = l + 1 /\ t[l + 1] = c /\ \A k \in 1 .. l : t[k] = text[k]
  BY <1>5, <1>7, AppendSeq
<1>9. j = IF l + 1 < m THEN l + 1 ELSE m
  BY <1>2, <1>4, <1>5, <1>6
<1>10. ASSUME NEW k \in 1 .. j PROVE b2[k - 1] = t[k]
  <2>1. CASE k <= i
    <3>1. k \in 1 .. i /\ k - 1 \in 0 .. m /\ k - 1 # i /\ k \in 1 .. l
      BY <1>2, <1>5, <1>6, <2>1
    <3>2. b2[k - 1] = b[k - 1] /\ b[k - 1] = text[k] /\ t[k] = text[k]
      BY <1>3, <1>6, <1>8, <3>1
    <3> QED BY <3>2
  <2>2. CASE ~(k <= i)
    <3>1. k - 1 = i /\ i = l /\ k = l + 1
      BY <1>2, <1>4, <1>5, <1>6, <2>2
    <3> QED BY <1>3, <1>8, <3>1
  <2> QED BY <2>1, <2>2
<1> QED BY <1>1, <1>2, <1>7, <1>8, <1>9, <1>10 DEF Fills

(* What is left of a literal behind p.                                     *)
Rest(t, s, p) ==
    /\ t \in Seq(Char) /\ Len(t) = Len(s) - p
    /\ \A k \in 1 .. Len(s) - p : t[k] = s[p + k]
    /\ Len(t) >= 1 => t # <<>> /\ Head(t) = s[p + 1] /\ Tail(t) = SubSeq(s, p + 2, Len(s))
    /\ Len(t) >= 2 => SubSeq(t, 3, Len(t)) = SubSeq(s, p + 3, Len(s))

LEMMA RestOf ==
    ASSUME NEW s \in Seq(Char), NEW p \in 0 .. Len(s)
    PROVE  Rest(SubSeq(s, p + 1, Len(s)), s, p)
<1>0. PICK t : t = SubSeq(s, p + 1, Len(s))
  OBVIOUS
<1>1. PICK n : n = Len(s) /\ n \in Nat
  OBVIOUS
<1>2. p + 1 \in Nat \ {0} /\ n - (p + 1) + 1 = n - p /\ (n < p + 1 => n - p = 0)
  BY <1>1
<1>3. /\ t \in Seq(Char) /\ Len(t) = n - p
      /\ \A k \in 1 .. n - (p + 1) + 1 : t[k] = s[(p + 1) + k - 1]
  BY <1>0, <1>1, <1>2, PartSeq
<1>4. \A k \in 1 .. n - p : t[k] = s[p + k]
  <2> SUFFICES ASSUME NEW k \in 1 .. n - p PROVE t[k] = s[p + k]
    OBVIOUS
  <2>1. (p + 1) + k - 1 = p + k
    BY <1>1
  <2> QED BY <1>2, <1>3, <2>1
<1>5. ASSUME Len(t) >= 1 PROVE t # <<>> /\ Head(t) = s[p + 1] /\ Tail(t) = SubSeq(s, p + 2, Len(s))
  <2>1. 1 \in 1 .. n - p /\ p + 2 \in Nat \ {0} /\ n - p \in Nat /\ n - p >= 1
    BY <1>1, <1>3, <1>5
  <2>2. t # <<>> /\ Head(t) = t[1]
    <3>1. Len(t) # 0
      BY <1>3, <2>1
    <3>2. t # <<>>
      BY <1>3, <3>1, EmptySeq
    <3> QED BY <3>2
  <2>3. PICK u, v : u = Tail(t) /\ v = SubSeq(s, p + 2, Len(s))
    OBVIOUS
  <2>4. u \in Seq(Char) /\ Len(u) = n - p - 1 /\ \A k \in 1 .. n - p - 1 : u[k] = t[k + 1]
    BY <1>3, <2>1, <2>2, <2>3
  <2>5. /\ v \in Seq(Char) /\ Len(v) = n - p - 1
        /\ \A k \in 1 .. n - p - 1 : v[k] = s[p + 1 + k]
    <3>1. /\ v \in Seq(Char) /\ Len(v) = (IF n < p + 2 THEN 0 ELSE n - (p + 2) + 1)
          /\ \A k \in 1 .. n - (p + 2) + 1 : v[k] = s[(p + 2) + k - 1]
      BY <1>1, <2>1, <2>3, PartSeq
    <3>2. Len(v) = n - p - 1
      BY <1>1, <2>1, <3>1
    <3>3. ASSUME NEW k \in 1 .. n - p - 1 PROVE v[k] = s[p + 1 + k]
      <4>1. k \in 1 .. n - (p + 2) + 1 /\ (p + 2) + k - 1 = p + 1 + k
        BY <1>1
      <4> QED BY <3>1, <4>1
    <3> QED BY <3>1, <3>2, <3>3
  <2>6. \A k \in 1 .. n - p - 1 : u[k] = v[k]
    <3> SUFFICES ASSUME NEW k \in 1 .. n - p - 1 PROVE u[k] = v[k]
      OBVIOUS
    <3>1. k + 1 \in 1 .. n - p /\ p + (k + 1) = p + 1 + k
      BY <1>1
    <3> QED BY <1>4, <2>4, <2>5, <3>1
  <2>7. u = v
    BY <2>4, <2>5, <2>6, SameSeq
  <2>8. Head(t) = s[p + 1]
    BY <1>4, <2>1, <2>2
  <2> QED BY <2>2, <2>3, <2>7, <2>8
<1>6. ASSUME Len(t) >= 2 PROVE SubSeq(t, 3, Len(t)) = SubSeq(s, p + 3, Len(s))
  <2>1. PICK l : l = n - p /\ l \in Nat /\ l >= 2
    BY <1>1, <1>3, <1>6
  <2>2. PICK u, v : u = SubSeq(t, 3, Len(t)) /\ v = SubSeq(s, p + 3, Len(s))
    OBVIOUS
  <2>3. /\ u \in Seq(Char) /\ Len(u) = l - 2 /\ \A k \in 1 .. l - 2 : u[k] = s[p + 2 + k]
    <3>1. /\ u \in Seq(Char) /\ Len(u) = (IF l < 3 THEN 0 ELSE l - 3 + 1)
          /\ \A k \in 1 .. l - 3 + 1 : u[k] = t[3 + k - 1]
      BY <1>3, <2>1, <2>2, PartSeq
    <3>2. Len(u) = l - 2
      BY <2>1, <3>1
    <3>3. ASSUME NEW k \in 1 .. l - 2 PROVE u[k] = s[p + 2 + k]
      <4>1. k \in 1 .. l - 3 + 1 /\ 3 + k - 1 \in 1 .. n - p /\ p + (3 + k - 1) = p + 2 + k
        BY <1>1, <2>1
      <4> QED BY <1>4, <3>1, <4>1
    <3> QED BY <3>1, <3>2, <3>3
  <2>4. /\ v \in Seq(Char) /\ Len(v) = l - 2 /\ \A k \in 1 .. l - 2 : v[k] = s[p + 2 + k]
    <3>1. p + 3 \in Nat \ {0}
      BY <1>1
    <3>2. /\ v \in Seq(Char) /\ Len(v) = (IF n < p + 3 THEN 0 ELSE n - (p + 3) + 1)
          /\ \A k \in 1 .. n - (p + 3) + 1 : v[k] = s[(p + 3) + k - 1]
      BY <1>1, <2>2, <3>1, PartSeq
    <3>3. Len(v) = l - 2
      BY <1>1, <2>1, <3>2
    <3>4. ASSUME NEW k \in 1 .. l - 2 PROVE v[k] = s[p + 2 + k]
      <4>1. k \in 1 .. n - (p + 3) + 1 /\ (p + 3) + k - 1 = p + 2 + k
        BY <1>1, <2>1
      <4> QED BY <3>2, <4>1
    <3> QED BY <3>2, <3>3, <3>4
  <2>5. u = v
    <3>1. \A k \in 1 .. l - 2 : u[k] = v[k]
      BY <2>3, <2>4
    <3> QED BY <2>3, <2>4, <3>1, SameSeq
  <2> QED BY <2>2, <2>5
<1>7. Rest(t, s, p)
  BY <1>1, <1>3, <1>4, <1>5, <1>6 DEF Rest
<1> QED BY <1>0, <1>7

(* The C string in a buffer that is filled with a text and ended.          *)
Ends(text) ==
    {StrMax, Len(text)} \cup {k - 1 : k \in {j \in DOMAIN text : text[j] = NUL}}

LEMMA CStringOf ==
    ASSUME NEW buffer \in [0 .. StrMax -> Char], NEW i \in 0 .. StrMax, buffer[i] = NUL,
           NEW text \in Seq(Char), Fills(buffer, i, text)
    PROVE  CString(buffer) = SubSeq(text, 1, Min(Ends(text)))
<1>1. PICK m : m = StrMax /\ m \in Nat
  BY StringsAssumption
<1>2. PICK l : l = Len(text) /\ l \in Nat
  OBVIOUS
<1>3. i = (IF l < m THEN l ELSE m) /\ \A k \in 1 .. i : buffer[k - 1] = text[k]
  BY <1>1, <1>2 DEF Fills
<1>4. PICK n \in 0 .. i :
         /\ buffer[n] = NUL /\ \A k \in 0 .. n - 1 : buffer[k] # NUL
         /\ CString(buffer) = [k \in 1 .. n |-> buffer[k - 1]]
         /\ CString(buffer) \in Seq(Letter) /\ Len(CString(buffer)) = n
  BY CStringParts
<1>5. n \in Nat /\ n <= i /\ i <= l /\ i <= m
  BY <1>1, <1>2, <1>3
<1>6. PICK E : E = Ends(text)
  OBVIOUS
<1>7. \A y : y \in E <=> (y = m \/ y = l \/ \E k \in 1 .. l : text[k] = NUL /\ y = k - 1)
  BY <1>1, <1>2, <1>6 DEF Ends
<1>8. n \in E
  <2>1. CASE n = i
    BY <1>3, <1>7, <2>1
  <2>2. CASE n # i
    <3>1. n + 1 \in 1 .. i /\ n + 1 \in 1 .. l /\ (n + 1) - 1 = n
      <4>1. i \in Nat /\ n < i
        BY <1>1, <1>2, <1>3, <1>5, <2>2
      <4> QED BY <1>2, <1>5, <4>1
    <3>2. text[n + 1] = NUL
      BY <1>3, <1>4, <3>1
    <3> QED BY <1>7, <3>1, <3>2
  <2> QED BY <2>1, <2>2
<1>9. ASSUME NEW y \in E PROVE y \in Nat /\ n <= y
  <2>1. CASE y = m \/ y = l
    BY <1>1, <1>2, <1>5, <2>1
  <2>2. CASE \E k \in 1 .. l : text[k] = NUL /\ y = k - 1
    <3>1. PICK k \in 1 .. l : text[k] = NUL /\ y = k - 1
      BY <2>2
    <3>2. y \in Nat
      BY <1>2, <3>1
    <3>3. ASSUME y < n PROVE FALSE
      <4>1. y \in 0 .. n - 1 /\ k \in 1 .. i
        BY <1>5, <3>1, <3>2, <3>3
      <4>2. buffer[y] = text[k]
        BY <1>3, <3>1, <4>1
      <4> QED BY <1>4, <3>1, <4>1, <4>2
    <3> QED BY <1>5, <3>2, <3>3
  <2> QED BY <1>7, <2>1, <2>2
<1>10. PICK e : e = Min(E)
  OBVIOUS
<1>11. e \in E /\ \A y \in E : e <= y
  <2>1. E \subseteq Nat /\ E # {}
    BY <1>8, <1>9
  <2> QED BY <1>10, <2>1, MinNat
<1>12. e = n
  <2>1. e \in Nat /\ n <= e /\ e <= n
    BY <1>8, <1>9, <1>11
  <2> QED BY <1>5, <2>1
<1>13. PICK u, v : u = CString(buffer) /\ v = SubSeq(text, 1, n)
  OBVIOUS
<1>14. /\ v \in Seq(Char) /\ Len(v) = n /\ \A k \in 1 .. n : v[k] = text[k]
  <2>1. n \in 0 .. Len(text)
    BY <1>2, <1>5
  <2> QED BY <1>13, <2>1, PrefixSeq
<1>15. u \in Seq(Char) /\ Len(u) = n /\ \A k \in 1 .. n : u[k] = v[k]
  <2>1. u \in Seq(Letter) /\ Len(u) = n /\ \A k \in 1 .. n : u[k] = buffer[k - 1]
    BY <1>4, <1>13
  <2>2. u \in Seq(Char)
    BY <2>1 DEF Letter
  <2>3. \A k \in 1 .. n : k \in 1 .. i
    BY <1>5
  <2> QED BY <1>3, <1>14, <2>1, <2>2, <2>3
<1>16. u = v
  BY <1>14, <1>15, SameSeq
<1> QED BY <1>6, <1>10, <1>12, <1>13, <1>16

(* The last string scanned is what its literal means.                      *)
LEMMA WrittenBody ==
    LiteralAsWritten <=>
       (reply.op = "literal" =>
          reply.value = <<SubSeq(Meant(reply.arg[1]), 1, Min(Ends(Meant(reply.arg[1]))))>>)
  BY DEF LiteralAsWritten, Ends

LEMMA WrittenBodyNext ==
    LiteralAsWritten' <=>
       (reply'.op = "literal" =>
          reply'.value = <<SubSeq(Meant(reply'.arg[1]), 1, Min(Ends(Meant(reply'.arg[1]))))>>)
  BY DEF LiteralAsWritten, Ends

LEMMA OpenLiteral ==
    ASSUME StringsInv, LiteralInv, NEW s \in Sources, OpenQuote(s)
    PROVE  LiteralInv'
<1>1. s \in Seq(Char) /\ StrMax \in Nat
  BY StringsAssumption
<1>2. PICK meant : Meaning(meant, s)
  BY <1>1, MeaningExists
<1>3. literal' = <<s>> /\ source' = s /\ sx_lex_str_i' = 0 /\ reply' = reply
  BY DEF OpenQuote
<1>4. PICK p : p = 0
  OBVIOUS
<1>5. p \in 0 .. Len(s) /\ p \notin Escapes(s)
  BY <1>1, <1>4 DEF Escapes
<1>6. source' = SubSeq(s, p + 1, Len(s))
  <2>1. p + 1 = 1
    BY <1>4
  <2>2. SubSeq(s, 1, Len(s)) = s
    <3>1. PICK n : n = Len(s) /\ n \in 0 .. Len(s) /\ n \in Nat
      BY <1>1
    <3>2. PICK t : t = SubSeq(s, 1, n)
      OBVIOUS
    <3>3. t \in Seq(Char) /\ Len(t) = n /\ \A k \in 1 .. n : t[k] = s[k]
      BY <1>1, <3>1, <3>2, PrefixSeq
    <3>4. t = s
      BY <1>1, <3>1, <3>3, SameSeq
    <3> QED BY <3>1, <3>2, <3>4
  <2> QED BY <1>3, <2>1, <2>2
<1>7. Fills(sx_lex_str', sx_lex_str_i', meant[p])
  <2>1. meant[p] = <<>>
    BY <1>2, <1>4 DEF Meaning
  <2>2. PICK x : x = meant[p] /\ Len(x) = 0
    BY <2>1
  <2>3. Fills(sx_lex_str', 0, x)
    BY <1>1, <2>2 DEF Fills
  <2> QED BY <1>3, <2>2, <2>3
<1>8. Scanned(s, meant, p)'
  BY <1>2, <1>3, <1>5, <1>6, <1>7 DEF Scanned
<1>9. LiteralAsWritten'
  BY <1>3, WrittenBody, WrittenBodyNext DEF LiteralInv
<1> QED BY <1>8, <1>9 DEF LiteralInv

LEMMA ScanLiteral ==
    ASSUME StringsInv, LiteralInv, ScanEscape \/ ScanCharacter
    PROVE  LiteralInv'
<1>1. PICK s, meant, p : Scanned(s, meant, p)
  BY DEF LiteralInv, ScanEscape, ScanCharacter
<1>2. PICK n : n = Len(s)
  OBVIOUS
<1>3. /\ s \in Seq(Char) /\ s \in Sources /\ n \in Nat /\ p \in 0 .. n
      /\ literal = <<s>> /\ Meaning(meant, s) /\ p \notin Escapes(s)
      /\ source = SubSeq(s, p + 1, n) /\ Fills(sx_lex_str, sx_lex_str_i, meant[p])
  BY <1>1, <1>2, StringsAssumption DEF Scanned
<1>4. PICK t : t = source
  OBVIOUS
<1>5. /\ t \in Seq(Char) /\ Len(t) = n - p /\ \A k \in 1 .. n - p : t[k] = s[p + k]
      /\ Len(t) >= 1 => t # <<>> /\ Head(t) = s[p + 1] /\ Tail(t) = SubSeq(s, p + 2, n)
      /\ Len(t) >= 2 => SubSeq(t, 3, Len(t)) = SubSeq(s, p + 3, n)
  <2>1. s \in Seq(Char) /\ p \in 0 .. Len(s) /\ t = SubSeq(s, p + 1, Len(s))
    BY <1>2, <1>3, <1>4
  <2>2. Rest(t, s, p)
    BY <2>1, RestOf
  <2> QED BY <1>2, <2>2 DEF Rest
<1>6. /\ \A q \in 0 .. n : meant[q] \in Seq(Char)
      /\ \A q \in 1 .. n : meant[q] = Grown(s, q, meant[q - 1])
  BY <1>2, <1>3 DEF Meaning
<1>7. meant[p] \in Seq(Char)
  BY <1>3, <1>6
<1>8. literal' = literal /\ reply' = reply
  BY DEF ScanEscape, ScanCharacter
<1>9. LiteralAsWritten'
  BY <1>8, WrittenBody, WrittenBodyNext DEF LiteralInv
<1>10. ASSUME NEW c \in Char, Push(c), NEW q \in 0 .. n, q \notin Escapes(s),
              meant[q] = Append(meant[p], c), source' = SubSeq(s, q + 1, n)
       PROVE  LiteralInv'
  <2>1. Fills(sx_lex_str', sx_lex_str_i', Append(meant[p], c))
    BY <1>3, <1>7, <1>10, PushFills DEF StringsInv
  <2>2. Scanned(s, meant, q)'
    BY <1>2, <1>3, <1>8, <1>10, <2>1 DEF Scanned
  <2> QED BY <1>9, <2>2 DEF LiteralInv
<1>11. CASE ScanEscape
  <2>1. Len(t) > 1 /\ t[1] = "\\" /\ t[2] # "newline"
    BY <1>4, <1>11 DEF ScanEscape, IsEscape
  <2>2. Push(Escaped(t[2])) /\ source' = SubSeq(t, 3, Len(t))
    BY <1>4, <1>11 DEF ScanEscape
  <2>3. /\ 1 \in 1 .. n - p /\ 2 \in 1 .. n - p /\ Len(t) >= 2 /\ p \in 0 .. n - 2
        /\ p + 1 \in 1 .. n /\ p + 2 \in 1 .. n /\ p + 2 \in 0 .. n
        /\ (p + 2) - 1 = p + 1 /\ (p + 1) - 1 = p /\ (p + 2) + 1 = p + 3
    BY <1>3, <1>5, <2>1
  <2>4. t[1] = s[p + 1] /\ t[2] = s[p + 2]
    BY <1>5, <2>3
  <2>5. s[p + 1] = "\\" /\ s[p + 2] # "newline" /\ s[p + 2] \in Char
    BY <1>2, <1>3, <2>1, <2>3, <2>4
  <2>6. p + 1 \in Escapes(s) /\ p + 2 \notin Escapes(s)
    BY <1>2, <1>3, <2>3, <2>5, EscapeBegins
  <2>7. meant[p + 1] = meant[p]
    BY <1>6, <2>3, <2>6 DEF Grown
  <2>8. meant[p + 2] = Append(meant[p + 1], Escaped(s[p + 2]))
    BY <1>6, <2>3, <2>6 DEF Grown
  <2>9. PICK c : c = Escaped(s[p + 2])
    OBVIOUS
  <2>10. c \in Char
    BY <2>5, <2>9, EscapedChar
  <2>11. Push(c) /\ meant[p + 2] = Append(meant[p], c)
    BY <2>2, <2>4, <2>7, <2>8, <2>9
  <2>12. source' = SubSeq(s, (p + 2) + 1, n)
    BY <1>5, <2>2, <2>3
  <2> QED BY <1>10, <2>3, <2>6, <2>10, <2>11, <2>12
<1>12. CASE ScanCharacter
  <2>1. t # <<>> /\ ~IsEscape(t) /\ Push(Head(t)) /\ source' = Tail(t)
    BY <1>4, <1>12 DEF ScanCharacter
  <2>2. Len(t) >= 1
    <3>1. Len(t) # 0 /\ Len(t) \in Nat
      BY <1>5, <2>1, EmptySeq
    <3> QED BY <3>1
  <2>3. /\ 1 \in 1 .. n - p /\ p + 1 \in 1 .. n /\ p + 1 \in 0 .. n
        /\ (p + 1) - 1 = p /\ (p + 1) + 1 = p + 2
    BY <1>3, <1>5, <2>2
  <2>4. p + 1 \notin Escapes(s)
    <3> SUFFICES ASSUME p + 1 \in Escapes(s) PROVE FALSE
      OBVIOUS
    <3>1. p + 1 \in 1 .. n - 1 /\ s[p + 1] = "\\" /\ s[(p + 1) + 1] # "newline"
      BY <1>2 DEF Escapes
    <3>2. 2 \in 1 .. n - p /\ Len(t) > 1
      BY <1>3, <1>5, <3>1
    <3>3. t[1] = s[p + 1] /\ t[2] = s[p + 2]
      BY <1>5, <2>3, <3>2
    <3> QED BY <2>1, <2>3, <3>1, <3>2, <3>3 DEF IsEscape
  <2>5. PICK c : c = s[p + 1]
    OBVIOUS
  <2>6. c \in Char /\ Push(c)
    BY <1>2, <1>3, <1>5, <2>1, <2>2, <2>3, <2>5
  <2>7. meant[p + 1] = Append(meant[p], c)
    BY <1>3, <1>6, <2>3, <2>4, <2>5 DEF Grown
  <2>8. source' = SubSeq(s, (p + 1) + 1, n)
    BY <1>5, <2>1, <2>2, <2>3
  <2> QED BY <1>10, <2>3, <2>4, <2>6, <2>7, <2>8
<1> QED BY <1>11, <1>12

LEMMA CloseLiteral ==
    ASSUME StringsInv, LiteralInv, CloseQuote PROVE LiteralInv'
<1>1. PICK s, meant, p : Scanned(s, meant, p)
  BY DEF LiteralInv, CloseQuote
<1>2. PICK n : n = Len(s)
  OBVIOUS
<1>3. /\ s \in Seq(Char) /\ n \in Nat /\ p \in 0 .. n
      /\ literal = <<s>> /\ Meaning(meant, s)
      /\ source = SubSeq(s, p + 1, n) /\ Fills(sx_lex_str, sx_lex_str_i, meant[p])
  BY <1>1, <1>2, StringsAssumption DEF Scanned
<1>4. p = n
  <2>1. PICK t : t = source /\ t = <<>>
    BY DEF CloseQuote
  <2>2. s \in Seq(Char) /\ p \in 0 .. Len(s) /\ t = SubSeq(s, p + 1, Len(s))
    BY <1>2, <1>3, <2>1
  <2>3. Rest(t, s, p)
    BY <2>2, RestOf
  <2>4. Len(t) = n - p /\ Len(t) = 0
    BY <1>2, <2>1, <2>3 DEF Rest
  <2> QED BY <1>3, <2>4
<1>5. PICK text : text = Meant(s)
  OBVIOUS
<1>6. text \in Seq(Char) /\ Fills(sx_lex_str, sx_lex_str_i, text)
  <2>1. n \in 0 .. n
    BY <1>3
  <2> QED BY <1>2, <1>3, <1>4, <1>5, <2>1 DEF Meaning
<1>7. PICK i : i = sx_lex_str_i
  OBVIOUS
<1>8. PICK buffer : buffer = sx_lex_str'
  OBVIOUS
<1>9. sx_lex_str \in [0 .. StrMax -> Char] /\ i \in 0 .. StrMax /\ NUL \in Char /\ StrMax \in Nat
  BY <1>7, StringsAssumption DEF StringsInv, StringsTypeOK
<1>10. buffer = [sx_lex_str EXCEPT ![i] = NUL]
  BY <1>7, <1>8 DEF CloseQuote
<1>11. buffer \in [0 .. StrMax -> Char] /\ buffer[i] = NUL
  BY <1>9, <1>10
<1>12. Fills(buffer, i, text)
  <2>1. \A k \in 1 .. i : buffer[k - 1] = sx_lex_str[k - 1]
    <3> SUFFICES ASSUME NEW k \in 1 .. i PROVE buffer[k - 1] = sx_lex_str[k - 1]
      OBVIOUS
    <3>1. k - 1 \in 0 .. StrMax /\ k - 1 # i
      BY <1>9
    <3> QED BY <1>9, <1>10, <3>1
  <2> QED BY <1>6, <1>7, <2>1 DEF Fills
<1>13. CString(buffer) = SubSeq(text, 1, Min(Ends(text)))
  BY <1>6, <1>9, <1>11, <1>12, CStringOf
<1>14. reply'.op = "literal" /\ reply'.arg = <<s>> /\ reply'.value = <<CString(buffer)>>
  <2>1. self' = CString(buffer) /\ Replies("literal", literal, <<self'>>)
    BY <1>8 DEF CloseQuote
  <2>2. reply' = [op |-> "literal", self |-> self, arg |-> literal, value |-> <<CString(buffer)>>]
    BY <2>1 DEF Replies
  <2> QED BY <1>3, <2>2
<1>15. LiteralAsWritten'
  <2>1. reply'.arg[1] = s
    BY <1>14
  <2>2. reply'.value = <<SubSeq(Meant(reply'.arg[1]), 1, Min(Ends(Meant(reply'.arg[1]))))>>
    BY <1>5, <1>13, <1>14, <2>1
  <2> QED BY <2>2, WrittenBodyNext
<1>16. literal' = <<>>
  BY DEF CloseQuote
<1> QED BY <1>15, <1>16 DEF LiteralInv

LEMMA LiteralInvInit == Init => LiteralInv
<1> SUFFICES ASSUME Init PROVE LiteralInv
  OBVIOUS
<1>1. PICK s : s = <<>>
  OBVIOUS
<1>2. s \in Seq(Char) /\ Len(s) = 0 /\ StrMax \in Nat
  BY <1>1, StringsAssumption
<1>3. PICK meant : Meaning(meant, s)
  BY <1>2, MeaningExists
<1>4. PICK text : text = Meant(s)
  OBVIOUS
<1>5. text = <<>> /\ Len(text) = 0 /\ text \in Seq(Char)
  <2>1. text = <<>>
    BY <1>2, <1>3, <1>4 DEF Meaning
  <2> QED BY <2>1
<1>6. Ends(text) = {StrMax, 0}
  BY <1>5 DEF Ends
<1>7. PICK e : e = Min(Ends(text))
  OBVIOUS
<1>8. e = 0
  <2>1. PICK E : E = Ends(text) /\ E = {StrMax, 0} /\ E \subseteq Nat /\ E # {}
    BY <1>2, <1>6
  <2>2. e \in E /\ \A y \in E : e <= y
    BY <1>7, <2>1, MinNat
  <2> QED BY <1>2, <2>1, <2>2
<1>9. SubSeq(text, 1, e) = <<>>
  <2>1. PICK u : u = SubSeq(text, 1, e)
    OBVIOUS
  <2>2. e \in 0 .. Len(text)
    BY <1>5, <1>8
  <2>3. u \in Seq(Char) /\ Len(u) = e
    BY <1>5, <2>1, <2>2, PrefixSeq
  <2> QED BY <1>8, <2>1, <2>3, EmptySeq
<1>10. reply.arg = <<s>> /\ reply.value = << <<>> >>
  BY <1>1 DEF Init
<1>11. LiteralAsWritten
  <2>1. reply.arg[1] = s
    BY <1>10
  <2>2. reply.value = <<SubSeq(Meant(reply.arg[1]), 1, Min(Ends(Meant(reply.arg[1]))))>>
    BY <1>4, <1>7, <1>9, <1>10, <2>1
  <2> QED BY <2>2, WrittenBody
<1>12. literal = <<>>
  BY DEF Init
<1> QED BY <1>11, <1>12 DEF LiteralInv

LEMMA LiteralInvStep == StringsInv /\ LiteralInv /\ [Next]_svars => LiteralInv'
<1> SUFFICES ASSUME StringsInv, LiteralInv, [Next]_svars PROVE LiteralInv'
  OBVIOUS
<1>1. CASE \E s \in Sources : OpenQuote(s)
  BY <1>1, OpenLiteral
<1>2. CASE ScanEscape \/ ScanCharacter
  BY <1>2, ScanLiteral
<1>3. CASE CloseQuote
  BY <1>3, CloseLiteral
<1>4. CASE UNCHANGED svars
  <2>1. UNCHANGED <<source, sx_lex_str, sx_lex_str_i, literal, reply>>
    BY <1>4 DEF svars, scanner
  <2>2. LiteralAsWritten'
    BY <2>1, WrittenBody, WrittenBodyNext DEF LiteralInv
  <2>3. ASSUME NEW s, NEW meant, NEW p, Scanned(s, meant, p) PROVE Scanned(s, meant, p)'
    BY <2>1, <2>3 DEF Scanned
  <2> QED BY <2>1, <2>2, <2>3 DEF LiteralInv
<1>5. ASSUME literal = <<>>, literal' = literal, reply'.op # "literal" PROVE LiteralInv'
  <2>1. LiteralAsWritten'
    BY <1>5, WrittenBodyNext
  <2> QED BY <1>5, <2>1 DEF LiteralInv
<1>6. ASSUME NEW op, NEW arg, NEW value, Method(op, arg, value) \/ Throw(op, arg), op # "literal"
      PROVE  LiteralInv'
  <2>1. reply'.op = op
    BY <1>6, Answered
  <2>2. literal = <<>> /\ literal' = literal
    BY <1>6 DEF Method, Throw, Running, Idle, scanner
  <2> QED BY <1>5, <1>6, <2>1, <2>2
<1>7. CASE \/ \E other \in Arguments : Concat(other)
           \/ MethodUpper \/ MethodLower \/ MethodTrim \/ MethodLtrim \/ MethodRtrim
           \/ \E n \in Numbers : MethodToString(n)
  BY <1>6, <1>7 DEF Concat, MethodUpper, MethodLower, MethodTrim, MethodLtrim, MethodRtrim,
                    MethodToString
<1>8. ASSUME NEW needle \in Arguments, MethodSplit(needle) PROVE LiteralInv'
  <2>1. (\E arg, value : Method("split", arg, value)) \/ \E arg : Throw("split", arg)
    BY <1>8 DEF MethodSplit
  <2> QED BY <1>6, <2>1
<1>9. ASSUME NEW start \in Numbers, NEW len \in Numbers, MethodSubstr(start, len) PROVE LiteralInv'
  <2>1. (\E arg, value : Method("substr", arg, value)) \/ \E arg : Throw("substr", arg)
    BY <1>9 DEF MethodSubstr
  <2> QED BY <1>6, <2>1
<1>10. CASE MethodToInt
  <2>1. reply'.op = "toInt" /\ literal = <<>> /\ literal' = literal
    BY <1>10 DEF MethodToInt, Replies, Running, Idle, scanner
  <2> QED BY <1>5, <2>1
<1> QED BY <1>1, <1>2, <1>3, <1>4, <1>7, <1>8, <1>9, <1>10 DEF Next

(***************************************************************************)
(* For every literal and every size of the buffer: its string is what is   *)
(* written, escapes and all, up to a character 0 or a full buffer; nothing *)
(* of a longer literal before it is left.                                  *)
(***************************************************************************)
THEOREM LiteralAsWrittenThm == Spec => []LiteralAsWritten
<1>1. LiteralInv => LiteralAsWritten
  BY DEF LiteralInv
<1> QED BY <1>1, StringsInvInit, StringsInvStep, LiteralInvInit, LiteralInvStep, PTL DEF Spec
=============================================================================
