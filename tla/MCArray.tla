------------------------------ MODULE MCArray -------------------------------
(* A few values for an array of a few elements; indexes on both sides of   *)
(* what it can hold.                                                       *)
EXTENDS ArrayList

CONSTANT s

MC_Value  == {Nil, One, s}
MC_Equals == {<<v, v>> : v \in MC_Value}
MC_Index  == {-4, -2, 0, 3}
=============================================================================
