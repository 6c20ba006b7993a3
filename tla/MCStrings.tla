------------------------------ MODULE MCStrings ------------------------------
(***************************************************************************)
(* Literals with every escape, longer than the buffer, with a character 0  *)
(* and with backslashes before backslashes and newlines; separators that   *)
(* overlap themselves and that do not; numbers at the ends of an int.      *)
(***************************************************************************)
EXTENDS Strings

Plain    == {"nul", "newline", "return", "tab", "backspace", " ", "\\", "-", ",", "0", "1",
             "2", "3", "4", "5", "6", "7", "8", "9"}
Letters  == [a |-> "A", n |-> "N", r |-> "R", t |-> "T", b |-> "B"]
Capitals == AntiFunction(Letters)
MC_Upper == [c \in Plain |-> c] @@ Letters @@ [c \in Range(Letters) |-> c]
MC_Lower == [c \in Plain |-> c] @@ [c \in DOMAIN Letters |-> c] @@ Capitals

MC_Sources == { <<"a", "A", "a", ",">>, <<",", "a", "a", ",", "a", "-">>, <<>>,
                <<"\\", "n", " ", "a", "\\", "t", " ">>, <<"\\", "r", "\\", "b", "\\", "a">>,
                <<"a", "\\", "0", "a">>, <<"\\", "\\", "newline">>, <<"a", "\\", "newline", "n">>,
                <<"\\", "\\", "\\", "n", "\\", "\\">>, <<" ", "-", "1", "2", "a">> }
MC_Arguments == { <<>>, <<",">>, <<"a", "a">>, <<"a">>, <<"-", "1", "3">> }
MC_Numbers == {-20, -9, -8, -1, 0, 1, 2, 7, 8, 15}
=============================================================================
