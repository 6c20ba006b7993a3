------------------------------- MODULE Strings -------------------------------
(***************************************************************************)
(* Strings: a script writes a literal, which the scanner puts together in  *)
(* its one buffer character by character, and goes on with what the        *)
(* methods make of it.  A character is a TLA+ string, a String a sequence. *)
(***************************************************************************)
EXTENDS Integers, Sequences, FiniteSetsExt, Functions, SequencesExt

CONSTANTS
    Lower, Upper,           \* tolower and toupper
    Sources,                \* literals, as written between their quotes
    Arguments,              \* strings given to methods
    Numbers,                \* values of the type Int
    IntHalf,                \* an int of C++ is in -IntHalf .. IntHalf - 1
    StrMax,                 \* SX_LEX_STR_MAX
    MaxLen,                 \* bound: literals, concatenations and numbers are no longer
    MaxCalls                \* bound: methods called on a literal and what it becomes

VARIABLES
    source,                 \* what is still to scan of the literal
    sx_lex_str,             \* the scanner's buffer
    sx_lex_str_i,           \* where it goes on
    literal,                \* the literal being scanned, in a sequence, or none
    self,                   \* the string the script has come to
    reply,                  \* history: the last operation, what it was called
                            \* on and with, and the strings or number it gave
    calls,                  \* how many methods the script has called
    crashed                 \* an exception nobody catches has ended the program

scanner == <<source, sx_lex_str, sx_lex_str_i, literal>>
svars   == <<scanner, self, reply, calls, crashed>>

Char   == DOMAIN Lower
NUL    == "nul"             \* the character 0, never in a String
Blank  == {" ", "tab", "newline"}
Digits == <<"0", "1", "2", "3", "4", "5", "6", "7", "8", "9">>
CInt   == -IntHalf .. IntHalf - 1

ASSUME StringsAssumption ==
    /\ Lower \in [Char -> Char] /\ Upper \in [Char -> Char]
    /\ NUL \in Char
    /\ Range(Digits) \cup Blank \cup {"-", "\\", "return", "backspace"} \subseteq Char
    /\ \A c \in Char \ {NUL} : Lower[c] # NUL /\ Upper[c] # NUL
    /\ Sources \subseteq Seq(Char)
    /\ Arguments \subseteq Seq(Char \ {NUL}) /\ Numbers \subseteq Int
    /\ {StrMax, MaxLen, IntHalf, MaxCalls} \subseteq Nat
    /\ StrMax <= MaxLen /\ MaxLen < IntHalf

Replies(op, arg, value) == reply' = [op |-> op, self |-> self, arg |-> arg, value |-> value]
Idle == literal = <<>> /\ ~crashed
Running == Idle /\ calls < MaxCalls /\ calls' = calls + 1

-----------------------------------------------------------------------------
(* A literal is scanned *)

(* The quote: the buffer is written from its start again.  A file is       *)
(* scanned before it runs.                                                 *)
OpenQuote(s) ==
    /\ Idle /\ calls = 0
    /\ literal' = <<s>> /\ source' = s /\ sx_lex_str_i' = 0
    /\ UNCHANGED <<sx_lex_str, self, reply, calls, crashed>>

(* Mutant: a full buffer is not noticed.                                   *)
PushUnbounded(c) ==
    /\ sx_lex_str' = [sx_lex_str EXCEPT ![sx_lex_str_i] = c]
    /\ sx_lex_str_i' = sx_lex_str_i + 1

(* sx_lex_str_push: in a full buffer the place of the end is overwritten.  *)
Push(c) ==
    /\ sx_lex_str' = [sx_lex_str EXCEPT ![sx_lex_str_i] = c]
    /\ sx_lex_str_i' = IF sx_lex_str_i < StrMax THEN sx_lex_str_i + 1 ELSE sx_lex_str_i

(* sx_lex_str_escape.                                                      *)
Escaped(c) == CASE c = "n" -> "newline" [] c = "r" -> "return" [] c = "t" -> "tab"
                [] c = "b" -> "backspace" [] c = "0" -> NUL [] OTHER -> c

(* Mutant: a backslash at the end of a line is left out.                   *)
IsEscapeAny(s) == Len(s) > 1 /\ s[1] = "\\"

(* In a pattern "." is no newline.                                         *)
IsEscape(s) == Len(s) > 1 /\ s[1] = "\\" /\ s[2] # "newline"

ScanEscape ==
    /\ literal # <<>> /\ IsEscape(source)
    /\ Push(Escaped(source[2]))
    /\ source' = SubSeq(source, 3, Len(source))
    /\ UNCHANGED <<literal, self, reply, calls, crashed>>
ScanCharacter ==
    /\ literal # <<>> /\ source # <<>> /\ ~IsEscape(source)
    /\ Push(Head(source))
    /\ source' = Tail(source)
    /\ UNCHANGED <<literal, self, reply, calls, crashed>>

(* A C string: up to the first character 0.                                *)
CString(buffer) ==
    LET n == Min({ k \in DOMAIN buffer : buffer[k] = NUL })
    IN  [k \in 1 .. n |-> buffer[k - 1]]

CloseQuote ==
    /\ literal # <<>> /\ source = <<>>
    /\ literal' = <<>> /\ sx_lex_str' = [sx_lex_str EXCEPT ![sx_lex_str_i] = NUL]
    /\ self' = CString(sx_lex_str')
    /\ Replies("literal", literal, <<self'>>)
    /\ UNCHANGED <<source, sx_lex_str_i, calls, crashed>>

-----------------------------------------------------------------------------
(* Methods.  The script goes on with the last string of what it is given.  *)

Method(op, arg, value) ==
    /\ Running
    /\ Replies(op, arg, value) /\ self' = Last(<<self>> \o value)
    /\ UNCHANGED <<scanner, crashed>>
Throw(op, arg) ==           \* std::length_error
    /\ Running
    /\ Replies(op, arg, <<>>) /\ crashed' = TRUE
    /\ UNCHANGED <<scanner, self>>

Concat(other) == Len(self \o other) <= MaxLen /\ Method("concat", <<other>>, <<self \o other>>)

MethodUpper == Method("upper", <<>>, << [k \in DOMAIN self |-> Upper[self[k]]] >>)
MethodLower == Method("lower", <<>>, << [k \in DOMAIN self |-> Lower[self[k]]] >>)

Solid(s) == {k \in DOMAIN s : s[k] \notin Blank}
Ltrim(s) == IF Solid(s) = {} THEN <<>> ELSE SubSeq(s, Min(Solid(s)), Len(s))
Rtrim(s) == IF Solid(s) = {} THEN <<>> ELSE SubSeq(s, 1, Max(Solid(s)))
Trim(s)  == IF Solid(s) = {} THEN <<>> ELSE SubSeq(s, Min(Solid(s)), Max(Solid(s)))
MethodTrim  == Method("trim", <<>>, <<Trim(self)>>)
MethodLtrim == Method("ltrim", <<>>, <<Ltrim(self)>>)
MethodRtrim == Method("rtrim", <<>>, <<Rtrim(self)>>)

(* An Int kept in an int.                                                  *)
Narrow(n) == ((n + IntHalf) % (2 * IntHalf)) - IntHalf

(* Mutant: a substring up to the end loses its last character.             *)
TrimmedEndShort(end, size) == IF end < 0 \/ end >= size THEN size - 1 ELSE end

(* "trim len": the end, as a size_t, must not be past the string's.        *)
TrimmedEnd(end, size) == IF end < 0 \/ end > size THEN size ELSE end

(* A negative length that is not trimmed is too long for the constructor.  *)
MethodSubstr(vstart, vlen) ==
    LET start == Narrow(vstart)
        end   == TrimmedEnd(start + Narrow(vlen), Len(self))
    IN  \/ /\ start \notin 0 .. Len(self) - 1
           /\ Method("substr", <<vstart, vlen>>, <<>>)
        \/ /\ start \in 0 .. Len(self) - 1 /\ end >= start
           /\ Method("substr", <<vstart, vlen>>, <<SubSeq(self, start + 1, end)>>)
        \/ /\ start \in 0 .. Len(self) - 1 /\ end < start
           /\ Throw("substr", <<vstart, vlen>>)

Folded(s) == [k \in DOMAIN s |-> Lower[s[k]]]

(* strncasecmp of the needle and the text at c.                            *)
Matches(text, c, needle) == IsPrefix(Folded(needle), Folded(SubSeq(text, c, Len(text))))

(* Mutant: the next piece begins behind the match's first character.       *)
PieceByOne(text, needle, acc, c) ==
    IF ~Matches(text, c, needle) \/ acc.thrown THEN acc
    ELSE IF c < acc.haystack THEN [acc EXCEPT !.thrown = TRUE]
    ELSE [acc EXCEPT !.haystack = c + 1,
                     !.pieces = Append(@, SubSeq(text, acc.haystack, c - 1))]

(* Mutant: the next piece begins one character late.                       *)
PieceLate(text, needle, acc, c) ==
    IF ~Matches(text, c, needle) \/ acc.thrown THEN acc
    ELSE IF c < acc.haystack THEN [acc EXCEPT !.thrown = TRUE]
    ELSE [acc EXCEPT !.haystack = c + Len(needle) + 1,
                     !.pieces = Append(@, SubSeq(text, acc.haystack, c - 1))]

(* One round of the search: it looks at every place, those inside the last *)
(* match too, and what is before a match there has a negative length.      *)
Piece(text, needle, acc, c) ==
    IF ~Matches(text, c, needle) \/ acc.thrown THEN acc
    ELSE IF c < acc.haystack THEN [acc EXCEPT !.thrown = TRUE]
    ELSE [acc EXCEPT !.haystack = c + Len(needle),
                     !.pieces = Append(@, SubSeq(text, acc.haystack, c - 1))]

Searched(text, needle) ==
    LET found[c \in 0 .. Len(text)] ==
            IF c = 0 THEN [haystack |-> 1, pieces |-> <<>>, thrown |-> FALSE]
            ELSE Piece(text, needle, found[c - 1], c)
    IN  found[Len(text)]

MethodSplit(needle) ==
    LET found == Searched(self, needle)
        rest  == SubSeq(self, found.haystack, Len(self))
    IN  \/ needle = <<>> /\ Method("split", <<needle>>, <<self>>)
        \/ /\ needle # <<>> /\ ~found.thrown
           /\ Method("split", <<needle>>,
                     IF rest = <<>> THEN found.pieces ELSE Append(found.pieces, rest))
        \/ needle # <<>> /\ found.thrown /\ Throw("split", <<needle>>)

-----------------------------------------------------------------------------
(* Numbers *)

IsDigit(c) == c \in Range(Digits)
NumberOf(s) ==
    LET value[k \in 0 .. Len(s)] ==
            IF k = 0 THEN 0
            ELSE 10 * value[k - 1] + (CHOOSE d \in 0 .. 9 : Digits[d + 1] = s[k])
    IN  value[Len(s)]

LongestDigits(s) == SubSeq(s, 1, Cardinality({k \in DOMAIN s : \A j \in 1 .. k : IsDigit(s[j])}))
Abs(n) == IF n < 0 THEN -n ELSE n

(* MethodToString of Int, "%ld".                                           *)
Decimal(n) ==
    LET digits[m \in 0 .. Abs(n)] ==
            IF m < 10 THEN <<Digits[m + 1]>>
            ELSE Append(digits[m \div 10], Digits[(m % 10) + 1])
    IN  (IF n < 0 THEN <<"-">> ELSE <<>>) \o digits[Abs(n)]

ASSUME NumbersAssumption == \A n \in Numbers : Len(Decimal(n)) <= MaxLen

MethodToString(n) == Method("toString", <<n>>, <<Decimal(n)>>)

(* Mutant: no sign is read.                                                *)
AtoiUnsigned(s) ==
    LET spaces == {k \in DOMAIN s : \A j \in 1 .. k : s[j] \in Blank \cup {"return"}}
        t      == SubSeq(s, Cardinality(spaces) + 1, Len(s))
    IN  NumberOf(LongestDigits(t))

(* atoi: spaces, a sign, and all the digits there are.                     *)
Atoi(s) ==
    LET spaces == {k \in DOMAIN s : \A j \in 1 .. k : s[j] \in Blank \cup {"return"}}
        t      == SubSeq(s, Cardinality(spaces) + 1, Len(s))
    IN  IF t # <<>> /\ t[1] = "-" THEN -NumberOf(LongestDigits(Tail(t)))
        ELSE NumberOf(LongestDigits(t))

(* What is no int is undefined.                                            *)
MethodToInt ==
    /\ Running
    /\ \E n \in (IF Atoi(self) \in CInt THEN {Atoi(self)} ELSE CInt) :
          Replies("toInt", <<>>, <<n>>)
    /\ UNCHANGED <<scanner, self, crashed>>

-----------------------------------------------------------------------------
Init ==
    /\ sx_lex_str = [k \in 0 .. StrMax |-> NUL] /\ sx_lex_str_i = 0
    /\ source = <<>> /\ literal = <<>> /\ self = <<>> /\ calls = 0 /\ crashed = FALSE
    /\ reply = [op |-> "literal", self |-> <<>>, arg |-> << <<>> >>, value |-> << <<>> >>]

Next ==
    \/ \E s \in Sources : OpenQuote(s)
    \/ ScanEscape \/ ScanCharacter \/ CloseQuote
    \/ MethodUpper \/ MethodLower \/ MethodTrim \/ MethodLtrim \/ MethodRtrim
    \/ \E other \in Arguments : Concat(other) \/ MethodSplit(other)
    \/ \E start, len \in Numbers : MethodSubstr(start, len)
    \/ MethodToInt \/ \E n \in Numbers : MethodToString(n)

Spec == Init /\ [][Next]_svars
-----------------------------------------------------------------------------
(* Properties *)

(* Every variable has its type, and the scanner's index stays inside its   *)
(* buffer (sx_lex_str_push), which has an end whenever it is read.         *)
StringsTypeOK ==
    /\ sx_lex_str \in [0 .. StrMax -> Char] /\ sx_lex_str_i \in 0 .. StrMax
    /\ literal # <<>> \/ source = <<>>
    /\ self \in Seq(Char \ {NUL})
    /\ calls \in 0 .. MaxCalls /\ crashed \in BOOLEAN

(* The backslashes of a literal that begin an escape, and what it says.    *)
Escapes(s) ==
    { p \in 1 .. Len(s) - 1 :
        /\ s[p] = "\\" /\ s[p + 1] # "newline"
        /\ (p - Max({0} \cup {q \in 1 .. p : s[q] # "\\"})) % 2 = 1 }
Meant(s) ==
    LET meant[p \in 0 .. Len(s)] ==
            IF p = 0 THEN <<>>
            ELSE IF p \in Escapes(s) THEN meant[p - 1]
            ELSE Append(meant[p - 1], IF p - 1 \in Escapes(s) THEN Escaped(s[p]) ELSE s[p])
    IN  meant[Len(s)]

(***************************************************************************)
(* A literal means what is written: its characters and escapes in order,   *)
(* whatever a longer literal before it has left in the buffer, cut only at *)
(* a character 0 and where the buffer is full, and there silently.         *)
(***************************************************************************)
LiteralAsWritten ==
    reply.op = "literal" =>
       LET meant == Meant(reply.arg[1])
           ends  == {StrMax, Len(meant)} \cup {k - 1 : k \in {j \in DOMAIN meant : meant[j] = NUL}}
       IN  reply.value = <<SubSeq(meant, 1, Min(ends))>>

(* Pieces in a row with a separator between them.                          *)
Joined(pieces, needle) ==
    LET joined[k \in 0 .. Len(pieces) - 1] ==
            IF k = 0 THEN pieces[1] ELSE joined[k - 1] \o needle \o pieces[k + 1]
    IN  joined[Len(pieces) - 1]

(***************************************************************************)
(* split: with the separator between them the pieces are the text again,   *)
(* up to a last separator, and no piece has one inside, in any case.       *)
(***************************************************************************)
PiecesOfText ==
    (reply.op = "split" /\ ~crashed /\ reply.arg[1] # <<>>) =>
       IF reply.value = <<>> THEN reply.self = <<>> ELSE
       LET needle == reply.arg[1]
           joined == Joined(reply.value, needle)
       IN  /\ Folded(reply.self) \in {Folded(joined), Folded(joined \o needle)}
           /\ \A piece \in Range(reply.value) :
                 \A c \in DOMAIN piece : ~Matches(piece, c, needle)

(***************************************************************************)
(* substr: for a place in the string and a length that is none too small   *)
(* it gives as many characters from there as there are.                    *)
(***************************************************************************)
SubstrAsAsked ==
    reply.op = "substr" =>
       LET start == reply.arg[1]
           len   == reply.arg[2]
       IN  start \in 0 .. Len(reply.self) - 1 /\ len \in 0 .. IntHalf - 1 =>
             reply.value = <<SubSeq(reply.self, start + 1, Min({start + len, Len(reply.self)}))>>

(* A string overlaps itself: its end is its beginning again, in any case.  *)
Overlaps(s) ==
    LET needle == Folded(s)
    IN  \E k \in 1 .. Len(needle) - 1 : IsPrefix(SubSeq(needle, k + 1, Len(needle)), needle)

(***************************************************************************)
(* The program is ended only by split with a separator that can overlap    *)
(* itself, and by substr with a length that is negative as an int.         *)
(***************************************************************************)
CrashOnlyByOverlap ==
    crashed =>
       \/ reply.op = "split" /\ Overlaps(reply.arg[1])
       \/ reply.op = "substr" /\ Narrow(reply.arg[2]) < 0

(***************************************************************************)
(* An Int that fits in an int, converted to a String and back, is itself;  *)
(* toString writes a long and toInt reads an int.                          *)
(***************************************************************************)
RoundTrip ==
    reply.op = "toInt" =>
       \A n \in Numbers \cap CInt : reply.self = Decimal(n) => reply.value = <<n>>
=============================================================================
