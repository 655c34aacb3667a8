-------------------------------- MODULE Diag --------------------------------
(***************************************************************************)
(* The diagnostic sessions of the K-line firmware, one request at a time:  *)
(* S_DISPATCH and the handlers of simulador/firmware_min/src/02_session    *)
(* to 07_kline_legacy. A request has been received into RX_BUF (its slots  *)
(* 3, 4, 5 hold service, subfunction and parameter), the handler answers   *)
(* through F_FRAME_TX, and the main loop goes on to the scheduler.         *)
(*                                                                         *)
(* RX_BUF is not cleaned between frames: what a short request leaves       *)
(* unwritten is its own checksum, then the bytes of earlier frames.        *)
(***************************************************************************)
EXTENDS Dtc, Sequences, Functions

CONSTANTS
    Requests,   \* payloads that a tester sends
    Noise,      \* checksum bytes that a damaged frame ends with
    GateStep    \* what one ADVANCE adds to a gate (16)

Byte == 0 .. 255

ASSUME DiagAssumption ==
    /\ Requests \subseteq Seq(Byte) \ {<<>>}
    /\ Noise \subseteq Byte
    /\ GateStep \in Byte \ {0}

VARIABLES
    pc,         \* "receive" (F_FRAME_RX), "dispatch" (S_DISPATCH), "schedule" (SCH_STEP)
    rx,         \* slots 3 to 5 of RX_BUF
    rxLen,      \* RX_LEN
    tx,         \* the answer on the line, <<>> before there is one
    session,    \* SESSION
    handshake,  \* HANDSHAKE20_STATE
    basic,      \* GATE27_BASIC
    ext,        \* GATE27_EXT0, GATE27_EXT1
    sub3,       \* GATE14_SUB3
    dtc,        \* g_dtc_state
    advances,   \* history: ADVANCEs of a channel from its arming to its opening
    erased      \* history: flips with every clear of the trouble codes

frame == <<rx, rxLen>>
locks == <<basic, ext, sub3, advances>>
codes == <<dtc, erased>>
security == <<session, handshake, locks, codes>>
vars == <<pc, frame, tx, security>>

CLOSED == \h00
BASIC == \h10
EXTENDED == \h20
OPEN == \hFF
Channels == {0, 1}

Init ==
    /\ pc = "receive"
    /\ rx = [i \in 3 .. 5 |-> 0] /\ rxLen = 0
    /\ tx = <<>>
    /\ session = CLOSED /\ handshake = 0
    /\ basic = 0 /\ ext = [c \in Channels |-> 0] /\ sub3 = 0
    /\ dtc = StateInit
    /\ advances = [c \in Channels |-> 0] /\ erased = FALSE

Sid == rx[3]
Sub == rx[4]
Par == rx[5]

-----------------------------------------------------------------------------
(* The line                                                                *)

(* FMT, the addresses and the payload, as the tester of bridge_min.py and  *)
(* F_CHECKSUM_RXBUF both add them up.                                      *)
Checksum(p) == (\h80 + Len(p) + \h7A + \hF1 + SumFunction(p)) % 256

(* Fault: the last byte is compared but not stored.                        *)
SlotAfterWithoutChecksum(p, c, i) == IF i - 2 <= Len(p) THEN p[i - 2] ELSE rx[i]

(* What a frame with payload p and last byte c leaves in slot i.           *)
SlotAfter(p, c, i) ==
    CASE i - 2 <= Len(p) -> p[i - 2]
      [] i - 2 = Len(p) + 1 -> c
      [] OTHER -> rx[i]

Fill(p, c) ==
    /\ pc = "receive"
    /\ rx' = [i \in 3 .. 5 |-> SlotAfter(p, c, i)]
    /\ rxLen' = Len(p)
    /\ tx' = <<>>
    /\ UNCHANGED security

(* F_FRAME_RX with a frame whose checksum matches.                         *)
Receive(p) == Fill(p, Checksum(p)) /\ pc' = "dispatch"

(* A frame damaged in its last byte: the buffer is filled all the same,    *)
(* and the main loop goes back to listening (99_footer.asm lines 17-18).   *)
Discard(p, c) == c # Checksum(p) /\ Fill(p, c) /\ UNCHANGED pc

(* F_FRAME_TX, then RET to the main loop.                                  *)
Send(answer) ==
    /\ tx' = answer
    /\ pc' = "schedule"
    /\ UNCHANGED frame

(* Fault: the code comes before the service.                               *)
NrcSwapped(sid, nrc) == Send(<<\h7F, nrc, sid>>) /\ UNCHANGED security

S_SEND_NRC(sid, nrc) == Send(<<\h7F, sid, nrc>>) /\ UNCHANGED security

-----------------------------------------------------------------------------
(* 02_session.asm                                                          *)

(* The guards that S_DISPATCH and the SID comparisons put before a handler *)
(* of session s.                                                           *)
Service(s, sid) == pc = "dispatch" /\ session = s /\ Sid = sid

(* Mode 01 is served in every session, before the session is looked at.    *)
S_OBD_LEGISLADO ==
    /\ pc = "dispatch" /\ Sid = \h01
    /\ \/ rxLen = 2 /\ Sub = 0 /\ Send(<<\h41, 0, \hBE, \h3E, \h80, \h10>>) /\ UNCHANGED security
       \/ ~(rxLen = 2 /\ Sub = 0) /\ S_SEND_NRC(\h01, \h12)

S_SESS_CLOSED ==
    /\ Service(CLOSED, \h29)
    /\ session' = BASIC
    /\ Send(<<\h69>>)
    /\ UNCHANGED <<handshake, locks, codes>>

SessionServices == {\h27, \h14, \h23, \h2A}

S_NRC_UNKNOWN_SID ==
    /\ pc = "dispatch" /\ Sid # \h01
    /\ \/ session = CLOSED /\ Sid # \h29
       \/ session \in {BASIC, EXTENDED} /\ Sid \notin SessionServices
    /\ S_SEND_NRC(Sid, \h11)

-----------------------------------------------------------------------------
(* 03_sid_27.asm                                                           *)

D27_BASIC ==
    /\ Service(BASIC, \h27) /\ Sub = \h64
    /\ basic' = OPEN
    /\ Send(<<\h67, \h64>>)
    /\ UNCHANGED <<session, handshake, ext, sub3, advances, codes>>

Channel(c) == Service(EXTENDED, \h27) /\ Par = c

D27_EXT_ARM(c) ==
    /\ Channel(c) /\ Sub = \h68
    /\ ext' = [ext EXCEPT ![c] = 1]
    /\ advances' = [advances EXCEPT ![c] = 0]
    /\ Send(<<\h67, \h68>>)
    /\ UNCHANGED <<session, handshake, basic, sub3, codes>>

(* Fault: the sum is stored in channel 0 whatever the channel.             *)
AdvancedFirst(c) ==
    [ext EXCEPT ![0] = IF ext[c] + GateStep > OPEN THEN OPEN ELSE ext[c] + GateStep]

Advanced(c) == [ext EXCEPT ![c] = IF @ + GateStep > OPEN THEN OPEN ELSE @ + GateStep]

D27_EXT_ADVANCE(c) ==
    /\ Channel(c) /\ Sub = \h69 /\ ext[c] # 0
    /\ ext' = Advanced(c)
    /\ advances' = [advances EXCEPT ![c] = IF ext[c] = OPEN THEN @ ELSE @ + 1]
    /\ Send(<<\h67, \h69>>)
    /\ UNCHANGED <<session, handshake, basic, sub3, codes>>

D27_EXT_CHECK(c) ==
    /\ Channel(c) /\ Sub = \h6A /\ ext[c] = OPEN
    /\ Send(<<\h67, \h6A>>)
    /\ UNCHANGED security

D27_NRC ==
    \/ Service(BASIC, \h27) /\ Sub # \h64 /\ S_SEND_NRC(\h27, \h12)
    \/ Service(EXTENDED, \h27) /\ Par \notin Channels /\ S_SEND_NRC(\h27, \h31)
    \/ \E c \in Channels : Channel(c) /\ Sub \notin {\h68, \h69, \h6A} /\ S_SEND_NRC(\h27, \h12)

D27_LOCKED ==
    \E c \in Channels :
        /\ Channel(c)
        /\ \/ Sub = \h69 /\ ext[c] = 0
           \/ Sub = \h6A /\ ext[c] # OPEN
        /\ S_SEND_NRC(\h27, \h22)

-----------------------------------------------------------------------------
(* 04_sid_14.asm                                                           *)

D14_ARM_HANDSHAKE ==
    /\ Service(BASIC, \h14) /\ Sub = \h20
    /\ handshake' = 1
    /\ Send(<<\h54, \h20>>)
    /\ UNCHANGED <<session, locks, codes>>

(* Fault: the handshake survives the clear.                                *)
ConfirmKeepsHandshake ==
    /\ Service(BASIC, \h14) /\ Sub = \h6F /\ handshake = 1
    /\ dtc' = Cleared(dtc, SELECTIVE_2)
    /\ erased' = ~erased
    /\ Send(<<\h54, \h6F>>)
    /\ UNCHANGED <<session, handshake, locks>>

D14_CONFIRM_HANDSHAKE ==
    /\ Service(BASIC, \h14) /\ Sub = \h6F /\ handshake = 1
    /\ handshake' = 0
    /\ dtc' = Cleared(dtc, SELECTIVE_2)
    /\ erased' = ~erased
    /\ Send(<<\h54, \h6F>>)
    /\ UNCHANGED <<session, locks>>

D14_NRC ==
    \/ /\ Service(BASIC, \h14)
       /\ \/ Sub \notin {\h20, \h6F} /\ S_SEND_NRC(\h14, \h12)
          \/ Sub = \h6F /\ handshake # 1 /\ S_SEND_NRC(\h14, \h22)
    \/ /\ Service(EXTENDED, \h14)
       /\ \/ Sub = \h00 /\ S_SEND_NRC(\h14, \h11)
          \/ (Sub \notin {\h00, \h03} \/ (Sub = \h03 /\ Par # \h64)) /\ S_SEND_NRC(\h14, \h12)

D14_SUB3_GATE ==
    /\ Service(EXTENDED, \h14) /\ Sub = \h03 /\ Par = \h64
    /\ sub3' = OPEN
    /\ Send(<<\h54, \h03>>)
    /\ UNCHANGED <<session, handshake, basic, ext, advances, codes>>

-----------------------------------------------------------------------------
(* 05_sid_23.asm and 06_sid_2a.asm                                         *)

InSession(sid) == Service(BASIC, sid) \/ Service(EXTENDED, sid)

D23_OPEN_EXT ==
    /\ InSession(\h23) /\ Sub = \h6B
    /\ session' = EXTENDED
    /\ Send(<<\h63, \h6B>>)
    /\ UNCHANGED <<handshake, locks, codes>>

(* Fault: the gate of the second channel is forgotten.                     *)
CloseKeepsChannel1 ==
    /\ InSession(\h23) /\ Sub = \h6C
    /\ session' = BASIC
    /\ handshake' = 0
    /\ basic' = 0 /\ ext' = [ext EXCEPT ![0] = 0] /\ sub3' = 0
    /\ Send(<<\h63, \h6C>>)
    /\ UNCHANGED <<advances, codes>>

D23_CLOSE_EXT ==
    /\ InSession(\h23) /\ Sub = \h6C
    /\ session' = BASIC
    /\ handshake' = 0
    /\ basic' = 0 /\ ext' = [c \in Channels |-> 0] /\ sub3' = 0
    /\ advances' = [c \in Channels |-> 0]
    /\ Send(<<\h63, \h6C>>)
    /\ UNCHANGED codes

D23_NRC == InSession(\h23) /\ Sub \notin {\h6B, \h6C} /\ S_SEND_NRC(\h23, \h11)

(* The legacy dispatcher is called with code 0x1C, a stub without effect.  *)
D2A_HANDLE == InSession(\h2A) /\ S_SEND_NRC(\h2A, \h11)

-----------------------------------------------------------------------------
Handle ==
    \/ S_OBD_LEGISLADO \/ S_SESS_CLOSED \/ S_NRC_UNKNOWN_SID
    \/ D27_BASIC \/ D27_NRC \/ D27_LOCKED
    \/ \E c \in Channels : D27_EXT_ARM(c) \/ D27_EXT_ADVANCE(c) \/ D27_EXT_CHECK(c)
    \/ D14_ARM_HANDSHAKE \/ D14_CONFIRM_HANDSHAKE \/ D14_NRC \/ D14_SUB3_GATE
    \/ D23_OPEN_EXT \/ D23_CLOSE_EXT \/ D23_NRC \/ D2A_HANDLE

Line == \E p \in Requests : Receive(p) \/ \E c \in Noise : Discard(p, c)

(* The main loop between two requests; Firmware has the scheduler here.    *)
Listen == pc = "schedule" /\ pc' = "receive" /\ UNCHANGED <<frame, tx, security>>

Next == Line \/ Handle \/ Listen

Spec == Init /\ [][Next]_vars

-----------------------------------------------------------------------------
(* A gate of the extended session is set only inside it, and before the    *)
(* first session nothing is: no handler leaves the session, or forgets a   *)
(* gate on leaving it, behind another one's back (D23_CLOSE_EXT).          *)
GatesBelongToSession ==
    /\ session # EXTENDED => ext = [c \in Channels |-> 0] /\ sub3 = 0
    /\ session = CLOSED => basic = 0 /\ handshake = 0

(* A channel of SecurityAccess is open only after as many ADVANCEs, on the *)
(* same channel and since its arming, as carry 1 up to the limit.          *)
OpenTakesAllAdvances ==
    \A c \in Channels : ext[c] = OPEN => 1 + GateStep * advances[c] >= OPEN

(* Bytes of the request that its handler may read before it acts.          *)
Reads ==
    CASE Sid = \h29 -> 1
      [] Sid = \h27 /\ session = EXTENDED -> 3
      [] Sid = \h14 /\ session = EXTENDED -> 3
      [] OTHER -> 2

(* A request that is shorter than what its handler reads changes nothing,  *)
(* though the handler reads on into the checksum and into bytes of earlier *)
(* frames (no handler but S_OBD_LEGISLADO looks at RX_LEN).                *)
ShortRequestsAreInert ==
    [][pc = "dispatch" /\ rxLen < Reads => UNCHANGED security]_vars

(* The answer belongs to the request: its service, and with a positive one *)
(* its subfunction, or a negative answer that names the service.           *)
AnswerNamesRequest ==
    pc = "schedule" =>
        \/ tx[1] = Sid + \h40 /\ (Len(tx) >= 2 => tx[2] = Sub)
        \/ tx[1] = \h7F /\ tx[2] = Sid /\ Len(tx) = 3

(* What Access promises, seen in the firmware's variables.                 *)
Locks == {"global", "channel0", "channel1", "erasure"}
IsOpen(l) ==
    \/ l = "global" /\ basic = OPEN
    \/ l = "channel0" /\ ext[0] = OPEN
    \/ l = "channel1" /\ ext[1] = OPEN
    \/ l = "erasure" /\ sub3 = OPEN
Unlocked == { l \in Locks : IsOpen(l) }
Level == IF session = CLOSED THEN "closed" ELSE IF session = BASIC THEN "basic" ELSE "extended"

Promise == INSTANCE Access WITH
    BasicLocks <- {"global"}, ExtLocks <- Locks \ {"global"},
    level <- Level, unlocked <- Unlocked, armed <- (handshake = 1), erased <- erased

(* The sessions keep the promises of Access: in particular the trouble     *)
(* codes are cleared once per arming, and only in the basic session.       *)
KeepsPromises == Promise!Spec
=============================================================================
