---------------------------- MODULE MCFrameLink ----------------------------
(***************************************************************************)
(* One request of seventeen bytes, one more than the firmware takes, among *)
(* requests of two.                                                        *)
(***************************************************************************)
EXTENDS FrameLink

TooLong == [i \in 1 .. CodecMax + 1 |-> 0]
OneTooLong == { <<\h01, \h00>>, TooLong }
=============================================================================
