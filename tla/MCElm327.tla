------------------------------ MODULE MCElm327 ------------------------------
(***************************************************************************)
(* Requests of one and of sixteen bytes, the shortest and the longest that *)
(* the firmware takes, one of 64 that no frame takes, a command and a      *)
(* blank line. Three lines: two can be in the buffer when the reply to the *)
(* first is given up while the third is still to arrive.                   *)
(***************************************************************************)
EXTENDS Elm327

Text(p) == [i \in 1 .. 2 * Len(p) |-> IF i % 2 = 1 THEN p[(i + 1) \div 2] \div 16 ELSE p[i \div 2] % 16]

Longest == [i \in 1 .. CodecMax |-> \h55]
Unframed == [i \in 1 .. FrameMax + 1 |-> 0]
Fitting == { <<\h29>>, Longest }
AllLines ==
    { Text(p) : p \in Fitting \cup {Unframed} }
        \cup { <<BLANK, 10, LETTER_T>>, <<BLANK>> }
=============================================================================
