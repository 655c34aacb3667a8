------------------------------- MODULE MCWide -------------------------------
(***************************************************************************)
(* Words of four bits, pairs of eight: the variables and the literals of   *)
(* the program are at the limits of the two, the values computed are any.  *)
(***************************************************************************)
EXTENDS Wide

SomeLiterals == {0, 1, -1, 9, -8, 40, 200}
Limits == {0, 1, 7, 8, 15}
LongLimits == {0, 1, 15, 16, 127, 128, 255}
=============================================================================
