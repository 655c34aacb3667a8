----------------------------- MODULE MCCodegen ------------------------------
(***************************************************************************)
(* Instances of Codegen for TLC: a pool of R0 and R8 and the argument      *)
(* registers R4 and R8. As in the full set of registers, R0 carries the    *)
(* result of a call and the last argument register belongs to the pool.    *)
(***************************************************************************)
EXTENDS Codegen

TwoRegs == <<0, 8>>
TwoArgs == <<4, 8>>
=============================================================================
