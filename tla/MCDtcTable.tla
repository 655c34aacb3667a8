----------------------------- MODULE MCDtcTable -----------------------------
(***************************************************************************)
(* Entries of dtc_sirius32_table that differ in what the code looks at:    *)
(* 0 has step 0, 1 has a step of 85, 2 of 64, 10 neither status nor        *)
(* counter.                                                                *)
(***************************************************************************)
EXTENDS DtcTable, TLC

SomeEntries ==
    0  :> [hasStatus |-> TRUE,  slot |-> 0,   step |-> 0,  ages |-> TRUE] @@
    1  :> [hasStatus |-> TRUE,  slot |-> 1,   step |-> 85, ages |-> TRUE] @@
    2  :> [hasStatus |-> TRUE,  slot |-> 2,   step |-> 64, ages |-> TRUE] @@
    10 :> [hasStatus |-> FALSE, slot |-> 254, step |-> 0,  ages |-> FALSE]
=============================================================================
