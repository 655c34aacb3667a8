------------------------------- MODULE MCDiag -------------------------------
(***************************************************************************)
(* Requests that reach every handler, each also cut short of the bytes     *)
(* that it reads. Channel 1 is armed and advanced but never checked.       *)
(***************************************************************************)
EXTENDS Diag, TLC

OneEntry == 0 :> [hasStatus |-> TRUE, slot |-> 0, step |-> 0, ages |-> TRUE]

Sent ==
    { <<\h01, \h00>>, <<\h01>>, <<\h29>>, <<\h99>>, <<\h2A>>,
      <<\h27>>, <<\h27, \h64>>, <<\h27, \h68>>, <<\h27, \h69>>,
      <<\h27, \h68, 0>>, <<\h27, \h69, 0>>, <<\h27, \h6A, 0>>, <<\h27, \h68, 1>>,
      <<\h27, \h69, 1>>, <<\h27, \h69, 2>>, <<\h27, \h64, 0>>,
      <<\h14>>, <<\h14, \h20>>, <<\h14, \h6F>>, <<\h14, \h03>>, <<\h14, \h03, \h64>>,
      <<\h23>>, <<\h23, \h6B>>, <<\h23, \h6C>> }
=============================================================================
