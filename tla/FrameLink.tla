----------------------------- MODULE FrameLink -----------------------------
(***************************************************************************)
(* The K-line link, byte by byte: the bridge frames a request              *)
(* (KLineTransport of simulador/firmware_min/bridge_min.py) and the        *)
(* firmware reassembles it (F_FRAME_RX of src/01_frame_codec.asm). The     *)
(* bridge hands over one byte at a time and lets the firmware run until it *)
(* polls again, so a byte is sent and received in one step.                *)
(***************************************************************************)
EXTENDS Integers, Sequences, Functions

CONSTANTS
    Payloads,   \* requests of the tester
    Flips,      \* what noise adds to a byte
    MaxLong     \* bound on the requests longer than the firmware takes

Byte == 0 .. 255
CodecMax == 16      \* longest payload of the firmware
FrameMax == 63      \* longest payload that the bridge frames
Slots == 0 .. 19    \* RX_BUF has 16 slots, the last four belong to TX_BUF: an answer
                    \* overwrites them, and the next long frame does before it reads them

ASSUME LinkAssumption ==
    /\ \A p \in Payloads : p \in Seq(Byte) /\ Len(p) \in 1 .. FrameMax
    /\ Flips \subseteq 1 .. 255
    /\ MaxLong \in Nat

VARIABLES
    frame,      \* the frame that the bridge is sending, <<>> between requests
    pos,        \* bytes of it that have been sent
    flipped,    \* history: noise has changed a byte of it
    buf,        \* RX_BUF and what follows it
    count,      \* RX_COUNT
    len,        \* RX_LEN
    accepted,   \* payloads that reached S_DISPATCH during this request
    long        \* history: long requests so far

receiver == <<buf, count, len>>
vars == <<frame, pos, flipped, receiver, accepted, long>>

Init ==
    /\ frame = <<>> /\ pos = 0 /\ flipped = FALSE
    /\ buf = [i \in Slots |-> 0] /\ count = 0 /\ len = 0
    /\ accepted = <<>>
    /\ long = 0

Frame(p) ==
    LET body == <<\h80 + Len(p), \h7A, \hF1>> \o p
    IN  Append(body, SumFunction(body) % 256)

(* The bridge waits for the answer before it takes the next request.       *)
Request(p) ==
    /\ frame = <<>>
    /\ Len(p) > CodecMax => long < MaxLong
    /\ long' = IF Len(p) > CodecMax THEN long + 1 ELSE long
    /\ frame' = Frame(p)
    /\ pos' = 0 /\ flipped' = FALSE
    /\ accepted' = <<>>
    /\ UNCHANGED receiver

(* Fault: the length is one short.                                         *)
LengthIncludesSid(fmt) ==
    LET low == fmt % 64 IN IF low <= 1 THEN 1 ELSE IF low > CodecMax THEN CodecMax ELSE low - 1

(* The length that FMT declares, limited to 1 .. 16.                       *)
Length(fmt) == LET low == fmt % 64 IN IF low = 0 THEN 1 ELSE IF low > CodecMax THEN CodecMax ELSE low

(* Fault: the checksum is not compared.                                    *)
MatchesAlways(b, total) == TRUE

(* F_CHECKSUM_RXBUF over all bytes but the last, compared with the last.   *)
Matches(b, total) == SumFunctionOnSet(b, 0 .. total - 2) % 256 = b[total - 1]

(* Fault: the count goes on after a complete frame.                        *)
ReceiveWithoutRestart(b) ==
    LET size == IF count = 0 THEN Length(b) ELSE len
        filled == [buf EXCEPT ![count] = b]
    IN  /\ buf' = filled
        /\ len' = size
        /\ count' = count + 1
        /\ accepted' = IF count + 1 = size + 4 /\ Matches(filled, size + 4)
                       THEN Append(accepted, [i \in 1 .. size |-> filled[i + 2]])
                       ELSE accepted

(* One turn of F_FRAME_RX with byte b; the frame that it completes is      *)
(* dispatched or dropped, and the next byte is the first of a frame.       *)
Receive(b) ==
    LET size == IF count = 0 THEN Length(b) ELSE len
        total == size + 4
        filled == [buf EXCEPT ![count] = b]
    IN  /\ buf' = filled
        /\ len' = size
        /\ count' = IF count + 1 = total THEN 0 ELSE count + 1
        /\ accepted' = IF count + 1 = total /\ Matches(filled, total)
                       THEN Append(accepted, [i \in 1 .. size |-> filled[i + 2]])
                       ELSE accepted

Send ==
    /\ pos < Len(frame)
    /\ Receive(frame[pos + 1])
    /\ pos' = pos + 1
    /\ UNCHANGED <<frame, flipped, long>>

(* Noise changes one byte of the frame after FMT.                          *)
SendFlipped(d) ==
    /\ 0 < pos /\ pos < Len(frame) /\ ~flipped
    /\ Receive((frame[pos + 1] + d) % 256)
    /\ pos' = pos + 1
    /\ flipped' = TRUE
    /\ UNCHANGED <<frame, long>>

(* The budget of the answer is used up, or the answer has come.            *)
Finish ==
    /\ frame # <<>> /\ pos = Len(frame)
    /\ frame' = <<>> /\ pos' = 0
    /\ UNCHANGED <<flipped, receiver, accepted, long>>

Next ==
    \/ \E p \in Payloads : Request(p)
    \/ Send
    \/ \E d \in Flips : SendFlipped(d)
    \/ Finish

Spec == Init /\ [][Next]_vars /\ WF_vars(Next)

-----------------------------------------------------------------------------
TypeOK ==
    /\ frame \in Seq(Byte) /\ pos \in 0 .. FrameMax + 4 /\ flipped \in BOOLEAN
    /\ buf \in [Slots -> Byte] /\ count \in Slots /\ len \in 0 .. CodecMax
    /\ long \in 0 .. MaxLong
    /\ \A i \in DOMAIN accepted : Len(accepted[i]) \in 1 .. CodecMax

Sent == SubSeq(frame, 4, Len(frame) - 1)
Sending == frame # <<>>

(* Without long requests: what reaches the dispatcher is the request as it *)
(* was sent, once and only when the frame is complete; noise in any byte   *)
(* after FMT turns it into nothing.                                        *)
NothingElseAccepted ==
    long = 0 /\ Sending =>
        /\ accepted # <<>> => accepted = <<Sent>> /\ pos = Len(frame) /\ ~flipped
        /\ pos = Len(frame) /\ ~flipped => accepted = <<Sent>>

(* Without long requests every frame begins at RX_COUNT = 0, whatever      *)
(* lengths went before ("each frame delimits itself and resynchronises on  *)
(* its own even after a frame of another size", bridge_min.py lines 22 to  *)
(* 24), noise or not.                                                      *)
Aligned == long = 0 /\ (~Sending \/ pos = 0) => count = 0

(* The firmware "guarantees a deterministic realignment of the next frame" *)
(* after a declared length above 16 (01_frame_codec.asm lines 7 to 9): a   *)
(* tester that goes on sending meets an aligned firmware again.            *)
Realigns == []<>(~Sending /\ count = 0)
=============================================================================
