----------------------------- MODULE MCFirmware -----------------------------
(***************************************************************************)
(* The trouble codes 0 and 2 of dtc_sirius32_table: the first has step 0   *)
(* and only a clear un-confirms it, the second loses 64 with every tick.   *)
(***************************************************************************)
EXTENDS Firmware, TLC

TwoEntries ==
    0 :> [hasStatus |-> TRUE, slot |-> 0, step |-> 0,  ages |-> TRUE] @@
    2 :> [hasStatus |-> TRUE, slot |-> 1, step |-> 64, ages |-> TRUE]

ClearRequests == { <<\h29>>, <<\h14, \h20>>, <<\h14, \h6F>>, <<\h23, \h6B>> }
=============================================================================
