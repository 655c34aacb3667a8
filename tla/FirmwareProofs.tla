--------------------------- MODULE FirmwareProofs ---------------------------
(***************************************************************************)
(* The firmware, for every table, step and limit and whatever requests     *)
(* come: the diagnostic sessions, the scheduler, the trouble-code table,   *)
(* and the main loop that composes them.                                   *)
(*                                                                         *)
(* Sessions: the gates belong to their session, a channel opens only by    *)
(* all of its steps, an answer names its request, a short request changes  *)
(* nothing, and Diag implements Access. Scheduler: the watchdog is served  *)
(* in time. Table: under every order of marks, ticks and clears, a glitch  *)
(* does not survive a tick. Loop: the scheduler runs in it as it does      *)
(* alone, and what a clear condemns falls with the next tick.              *)
(***************************************************************************)
EXTENDS Firmware, DtcTable, MathLemmas, TLAPS

-----------------------------------------------------------------------------
(* The diagnostic sessions.                                                *)

SecurityOK ==
    /\ session \in {CLOSED, BASIC, EXTENDED} /\ handshake \in {0, 1}
    /\ basic \in {0, OPEN} /\ sub3 \in {0, OPEN}
    /\ ext \in [Channels -> 0 .. OPEN]
    /\ advances \in [Channels -> Nat]

(* A gate between armed and open counts its steps exactly.                 *)
GateCountsSteps ==
    \A c \in Channels : ext[c] \in 1 .. OPEN - 1 => ext[c] = 1 + GateStep * advances[c]

IInv ==
    /\ SecurityOK
    /\ GatesBelongToSession
    /\ OpenTakesAllAdvances
    /\ GateCountsSteps

(* Most handlers leave the security state alone, or a part of it.          *)
LEMMA NothingChanged == IInv /\ UNCHANGED security => IInv'
  BY DEF IInv, SecurityOK, GatesBelongToSession, OpenTakesAllAdvances, GateCountsSteps,
         security, locks, codes

LEMMA LocksUnchanged ==
    ASSUME IInv, UNCHANGED locks, session' \in {BASIC, EXTENDED}, handshake' \in {0, 1},
           session' = session \/ session # EXTENDED \/ session' = EXTENDED
    PROVE  IInv'
  BY DEF IInv, SecurityOK, GatesBelongToSession, OpenTakesAllAdvances, GateCountsSteps,
         locks, CLOSED, BASIC, EXTENDED

(* One ADVANCE of an armed channel.                                        *)
LEMMA AdvanceKeepsCount ==
    ASSUME IInv, NEW c \in Channels, D27_EXT_ADVANCE(c)
    PROVE  IInv'
<1> USE DEF IInv, SecurityOK
<1>1. session = EXTENDED /\ session' = EXTENDED /\ UNCHANGED <<handshake, basic, sub3>>
  BY DEF D27_EXT_ADVANCE, Channel, Service
<1>2. GateStep \in Nat \ {0}
  BY DiagAssumption DEF Byte
<1>3. ext[c] \in 1 .. OPEN
  BY DEF D27_EXT_ADVANCE, OPEN
<1>4. \A d \in Channels \ {c} : ext'[d] = ext[d] /\ advances'[d] = advances[d]
  BY DEF D27_EXT_ADVANCE, Advanced
<1>5. /\ ext'[c] = IF ext[c] + GateStep > OPEN THEN OPEN ELSE ext[c] + GateStep
      /\ advances'[c] = IF ext[c] = OPEN THEN advances[c] ELSE advances[c] + 1
  BY DEF D27_EXT_ADVANCE, Advanced
<1>6. ext' \in [Channels -> 0 .. OPEN] /\ advances' \in [Channels -> Nat]
  <2>1. ext'[c] \in 0 .. OPEN
    <3>1. ext[c] + GateStep \in Nat
      BY <1>2, <1>3 DEF OPEN
    <3>2. QED
      BY <1>5, <3>1 DEF OPEN
  <2>2. advances'[c] \in Nat
    BY <1>5
  <2>3. ext' = [ext EXCEPT ![c] = ext'[c]] /\ advances' = [advances EXCEPT ![c] = advances'[c]]
    BY DEF D27_EXT_ADVANCE, Advanced
  <2>4. QED
    BY <2>1, <2>2, <2>3
<1>7. GateStep * (advances[c] + 1) = GateStep * advances[c] + GateStep
  BY <1>2
<1>8. GateStep * advances[c] \in Nat
  BY <1>2
<1>9. CASE ext[c] = OPEN
  <2>1. ext'[c] = OPEN /\ advances'[c] = advances[c]
    BY <1>2, <1>5, <1>9 DEF OPEN
  <2>2. QED
    BY <1>1, <1>4, <1>6, <1>9, <2>1
       DEF GatesBelongToSession, OpenTakesAllAdvances, GateCountsSteps, CLOSED, EXTENDED
<1>10. CASE ext[c] # OPEN
  <2>1. ext[c] = 1 + GateStep * advances[c]
    BY <1>3, <1>10 DEF GateCountsSteps, OPEN
  <2>2. ext[c] + GateStep = 1 + GateStep * advances'[c]
    BY <1>2, <1>5, <1>7, <1>8, <1>10, <2>1
  <2>3. ext'[c] = OPEN => 1 + GateStep * advances'[c] >= OPEN
    BY <1>2, <1>3, <1>5, <2>2 DEF OPEN
  <2>4. ext'[c] \in 1 .. OPEN - 1 => ext'[c] = 1 + GateStep * advances'[c]
    BY <1>2, <1>3, <1>5, <2>2 DEF OPEN
  <2>5. QED
    BY <1>1, <1>4, <1>6, <2>3, <2>4
       DEF GatesBelongToSession, OpenTakesAllAdvances, GateCountsSteps, CLOSED, EXTENDED
<1>11. QED
  BY <1>9, <1>10

(* The steps that touch nothing of the security state: the line, the       *)
(* refusals, and the answers that only report.                             *)
Quietly ==
    \/ Line \/ Listen \/ S_OBD_LEGISLADO \/ S_NRC_UNKNOWN_SID
    \/ D27_NRC \/ D27_LOCKED \/ D14_NRC \/ D23_NRC \/ D2A_HANDLE
    \/ \E c \in Channels : D27_EXT_CHECK(c)

LEMMA QuietSteps == Quietly => UNCHANGED security
<1>1. Line \/ Listen => UNCHANGED security
  BY DEF Line, Receive, Discard, Fill, Listen
<1>2. S_OBD_LEGISLADO \/ S_NRC_UNKNOWN_SID => UNCHANGED security
  BY DEF S_OBD_LEGISLADO, S_NRC_UNKNOWN_SID, S_SEND_NRC
<1>3. D27_NRC \/ D27_LOCKED => UNCHANGED security
  BY DEF D27_NRC, D27_LOCKED, S_SEND_NRC
<1>4. D14_NRC \/ D23_NRC \/ D2A_HANDLE => UNCHANGED security
  BY DEF D14_NRC, D23_NRC, D2A_HANDLE, S_SEND_NRC
<1>5. (\E c \in Channels : D27_EXT_CHECK(c)) => UNCHANGED security
  BY DEF D27_EXT_CHECK
<1>6. QED
  BY <1>1, <1>2, <1>3, <1>4, <1>5 DEF Quietly

(* The other steps, by what they change.                                   *)
LEMMA StepCases ==
    ASSUME [Next]_vars
    PROVE  \/ UNCHANGED security
           \/ S_SESS_CLOSED \/ D27_BASIC
           \/ \E c \in Channels : D27_EXT_ARM(c) \/ D27_EXT_ADVANCE(c)
           \/ D14_ARM_HANDSHAKE \/ D14_CONFIRM_HANDSHAKE \/ D14_SUB3_GATE
           \/ D23_OPEN_EXT \/ D23_CLOSE_EXT
<1>1. CASE UNCHANGED vars
  BY <1>1 DEF vars
<1>2. CASE Next
  <2>1. \/ Quietly
        \/ S_SESS_CLOSED \/ D27_BASIC
        \/ \E c \in Channels : D27_EXT_ARM(c) \/ D27_EXT_ADVANCE(c)
        \/ D14_ARM_HANDSHAKE \/ D14_CONFIRM_HANDSHAKE \/ D14_SUB3_GATE
        \/ D23_OPEN_EXT \/ D23_CLOSE_EXT
    BY <1>2 DEF Next, Handle, Quietly
  <2>2. QED
    BY <2>1, QuietSteps
<1>3. QED
  BY <1>1, <1>2

LEMMA InductiveStep == ASSUME IInv, [Next]_vars PROVE IInv'
<1> USE DEF CLOSED, BASIC, EXTENDED, OPEN
<1>1. CASE UNCHANGED security
  BY <1>1, NothingChanged
<1>2. CASE S_SESS_CLOSED
  BY <1>2, LocksUnchanged DEF S_SESS_CLOSED, Service, IInv, SecurityOK
<1>3. CASE D27_BASIC
  BY <1>3 DEF D27_BASIC, Service, IInv, SecurityOK, GatesBelongToSession, OpenTakesAllAdvances,
              GateCountsSteps
<1>4. ASSUME NEW c \in Channels, D27_EXT_ARM(c) PROVE IInv'
  <2>1. session = EXTENDED /\ UNCHANGED <<session, handshake, basic, sub3>>
    BY <1>4 DEF D27_EXT_ARM, Channel, Service
  <2>2. ext' = [ext EXCEPT ![c] = 1] /\ advances' = [advances EXCEPT ![c] = 0]
    BY <1>4 DEF D27_EXT_ARM
  <2>3. GateStep * 0 = 0
    BY DiagAssumption DEF Byte
  <2>4. QED
    BY <2>1, <2>2, <2>3 DEF IInv, SecurityOK, GatesBelongToSession, OpenTakesAllAdvances,
                            GateCountsSteps
<1>5. ASSUME NEW c \in Channels, D27_EXT_ADVANCE(c) PROVE IInv'
  BY <1>5, AdvanceKeepsCount
<1>6. CASE D14_ARM_HANDSHAKE
  BY <1>6, LocksUnchanged DEF D14_ARM_HANDSHAKE, Service, IInv, SecurityOK
<1>7. CASE D14_CONFIRM_HANDSHAKE
  BY <1>7, LocksUnchanged DEF D14_CONFIRM_HANDSHAKE, Service, IInv, SecurityOK
<1>8. CASE D14_SUB3_GATE
  BY <1>8 DEF D14_SUB3_GATE, Service, IInv, SecurityOK, GatesBelongToSession,
              OpenTakesAllAdvances, GateCountsSteps
<1>9. CASE D23_OPEN_EXT
  BY <1>9, LocksUnchanged DEF D23_OPEN_EXT, InSession, Service, IInv, SecurityOK
<1>10. CASE D23_CLOSE_EXT
  BY <1>10 DEF D23_CLOSE_EXT, IInv, SecurityOK, GatesBelongToSession, OpenTakesAllAdvances,
               GateCountsSteps
<1>11. QED
  BY StepCases, <1>1, <1>2, <1>3, <1>4, <1>5, <1>6, <1>7, <1>8, <1>9, <1>10

LEMMA InvariantHolds == Spec => []IInv
<1>1. Init => IInv
  BY DEF Init, IInv, SecurityOK, GatesBelongToSession, OpenTakesAllAdvances, GateCountsSteps,
         CLOSED, BASIC, EXTENDED, OPEN
<1>2. IInv /\ [Next]_vars => IInv'
  BY InductiveStep
<1>3. QED
  BY <1>1, <1>2, PTL DEF Spec

(* The gates of the extended session are set only inside it: leaving it    *)
(* resets every one (D23_CLOSE_EXT), for every sequence of requests.       *)
THEOREM GatesFallWithSession == Spec => []GatesBelongToSession
<1>1. IInv => GatesBelongToSession
  BY DEF IInv
<1>2. QED
  BY <1>1, InvariantHolds, PTL

(* A channel of SecurityAccess is never opened by fewer ADVANCEs than its  *)
(* step demands, for every step.                                           *)
THEOREM AccessTakesAllAdvances == Spec => []OpenTakesAllAdvances
<1>1. IInv => OpenTakesAllAdvances
  BY DEF IInv
<1>2. QED
  BY <1>1, InvariantHolds, PTL

-----------------------------------------------------------------------------
(* Diag implements Access                                                  *)

Lock(c) == IF c = 0 THEN "channel0" ELSE "channel1"

LEMMA SameView ==
    ASSUME UNCHANGED <<session, handshake, basic, ext, sub3, erased>>
    PROVE  UNCHANGED Promise!vars
  BY DEF Promise!vars, Level, Unlocked, IsOpen

(* A step of a channel moves its lock and no other.                        *)
LEMMA ChannelView ==
    ASSUME IInv, NEW c \in Channels, session = EXTENDED, NEW v \in 0 .. OPEN,
           ext' = [ext EXCEPT ![c] = v],
           UNCHANGED <<session, handshake, basic, sub3, erased>>
    PROVE  Promise!Next
<1> USE DEF CLOSED, BASIC, EXTENDED, OPEN, Channels
<1>1. Level = "extended" /\ UNCHANGED <<Level, (handshake = 1), erased>>
  BY DEF Level
<1>2. Lock(c) \in Locks \ {"global"}
  BY DEF Lock, Locks
<1>3. ext'[c] = v /\ \A d \in Channels \ {c} : ext'[d] = ext[d]
  BY DEF IInv, SecurityOK
<1>4. CASE v = OPEN
  <2>1. Unlocked' = Unlocked \cup {Lock(c)}
    BY <1>3, <1>4 DEF Unlocked, IsOpen, Lock, Locks
  <2>2. Promise!Unlock(Lock(c))
    BY <1>1, <1>2, <2>1 DEF Promise!Unlock
  <2>3. QED
    BY <1>2, <2>2 DEF Promise!Next
<1>5. CASE v # OPEN
  <2>1. Unlocked' = Unlocked \ {Lock(c)}
    BY <1>3, <1>5 DEF Unlocked, IsOpen, Lock, Locks
  <2>2. Promise!Relock(Lock(c))
    BY <1>1, <1>2, <2>1 DEF Promise!Relock
  <2>3. QED
    BY <1>2, <2>2 DEF Promise!Next
<1>6. QED
  BY <1>4, <1>5

LEMMA SessionSteps ==
    ASSUME IInv, S_SESS_CLOSED \/ D23_OPEN_EXT \/ D23_CLOSE_EXT
    PROVE  Promise!Next
<1> USE DEF CLOSED, BASIC, EXTENDED, OPEN, Channels
<1>1. CASE S_SESS_CLOSED
  <2>1. Level = "closed" /\ Level' = "basic"
    BY <1>1 DEF S_SESS_CLOSED, Service, Level
  <2>2. UNCHANGED <<Unlocked, (handshake = 1), erased>>
    BY <1>1 DEF S_SESS_CLOSED, Unlocked, IsOpen, locks, codes
  <2>3. QED
    BY <2>1, <2>2 DEF Promise!Next, Promise!Enter
<1>2. CASE D23_OPEN_EXT
  <2>1. Level # "closed" /\ Level' = "extended"
    BY <1>2 DEF D23_OPEN_EXT, InSession, Service, Level
  <2>2. UNCHANGED <<Unlocked, (handshake = 1), erased>>
    BY <1>2 DEF D23_OPEN_EXT, Unlocked, IsOpen, locks, codes
  <2>3. QED
    BY <2>1, <2>2 DEF Promise!Next, Promise!Extend
<1>3. CASE D23_CLOSE_EXT
  <2>1. Level # "closed" /\ Level' = "basic"
    BY <1>3 DEF D23_CLOSE_EXT, InSession, Service, Level
  <2>2. Unlocked' = {} /\ ~(handshake' = 1) /\ erased' = erased
    BY <1>3 DEF D23_CLOSE_EXT, Unlocked, IsOpen, codes
  <2>3. (handshake = 1)' = FALSE
    BY <2>2
  <2>4. QED
    BY <2>1, <2>2, <2>3 DEF Promise!Next, Promise!Leave
<1>4. QED
  BY <1>1, <1>2, <1>3

LEMMA BasicSteps ==
    ASSUME IInv, D27_BASIC \/ D14_ARM_HANDSHAKE \/ D14_CONFIRM_HANDSHAKE \/ D14_SUB3_GATE
    PROVE  Promise!Next
<1> USE DEF CLOSED, BASIC, EXTENDED, OPEN, Channels
<1>1. CASE D27_BASIC
  <2>1. Level = "basic" /\ Level' = Level
    BY <1>1 DEF D27_BASIC, Service, Level
  <2>2. Unlocked' = Unlocked \cup {"global"}
    BY <1>1 DEF D27_BASIC, Unlocked, IsOpen, Locks
  <2>3. UNCHANGED <<(handshake = 1), erased>>
    BY <1>1 DEF D27_BASIC, codes
  <2>4. Promise!Unlock("global")
    BY <2>1, <2>2, <2>3 DEF Promise!Unlock
  <2>5. QED
    BY <2>4 DEF Promise!Next
<1>2. CASE D14_ARM_HANDSHAKE
  <2>1. Level = "basic" /\ Level' = Level
    BY <1>2 DEF D14_ARM_HANDSHAKE, Service, Level
  <2>2. UNCHANGED <<Unlocked, erased>>
    BY <1>2 DEF D14_ARM_HANDSHAKE, Unlocked, IsOpen, locks, codes
  <2>3. (handshake = 1)' = TRUE
    BY <1>2 DEF D14_ARM_HANDSHAKE
  <2>4. QED
    BY <2>1, <2>2, <2>3 DEF Promise!Next, Promise!Arm
<1>3. CASE D14_CONFIRM_HANDSHAKE
  <2>1. Level = "basic" /\ Level' = Level /\ (handshake = 1)
    BY <1>3 DEF D14_CONFIRM_HANDSHAKE, Service, Level
  <2>2. UNCHANGED Unlocked
    BY <1>3 DEF D14_CONFIRM_HANDSHAKE, Unlocked, IsOpen, locks
  <2>3. (handshake = 1)' = FALSE /\ erased' = ~erased
    BY <1>3 DEF D14_CONFIRM_HANDSHAKE
  <2>4. QED
    BY <2>1, <2>2, <2>3 DEF Promise!Next, Promise!Erase
<1>4. CASE D14_SUB3_GATE
  <2>1. Level = "extended" /\ Level' = Level
    BY <1>4 DEF D14_SUB3_GATE, Service, Level
  <2>2. Unlocked' = Unlocked \cup {"erasure"} /\ "erasure" \in Locks \ {"global"}
    BY <1>4 DEF D14_SUB3_GATE, Unlocked, IsOpen, Locks
  <2>3. UNCHANGED <<(handshake = 1), erased>>
    BY <1>4 DEF D14_SUB3_GATE, codes
  <2>4. Promise!Unlock("erasure")
    BY <2>1, <2>2, <2>3 DEF Promise!Unlock
  <2>5. QED
    BY <2>2, <2>4 DEF Promise!Next
<1>5. QED
  BY <1>1, <1>2, <1>3, <1>4

LEMMA ChannelSteps ==
    ASSUME IInv, NEW c \in Channels, D27_EXT_ARM(c) \/ D27_EXT_ADVANCE(c)
    PROVE  Promise!Next
<1>1. /\ session = EXTENDED
      /\ UNCHANGED <<session, handshake, basic, sub3, erased>>
  BY DEF D27_EXT_ARM, D27_EXT_ADVANCE, Channel, Service, codes
<1>2. CASE D27_EXT_ARM(c)
  <2>1. ext' = [ext EXCEPT ![c] = 1] /\ 1 \in 0 .. OPEN
    BY <1>2 DEF D27_EXT_ARM, OPEN
  <2>2. QED
    BY <1>1, <2>1, ChannelView
<1>3. CASE D27_EXT_ADVANCE(c)
  <2>1. ext' = [ext EXCEPT ![c] = ext'[c]]
    BY <1>3 DEF D27_EXT_ADVANCE, Advanced, IInv, SecurityOK
  <2>2. ext'[c] \in 0 .. OPEN
    BY <1>3, AdvanceKeepsCount DEF IInv, SecurityOK
  <2>3. QED
    BY <1>1, <2>1, <2>2, ChannelView
<1>4. QED
  BY <1>2, <1>3

(* The handlers of 02_session to 06_sid_2a keep the promises of Access for *)
(* every sequence of requests, whole, short or damaged.                    *)
THEOREM SessionsImplementAccess == Spec => KeepsPromises
<1>1. Init => Promise!Init
  BY DEF Init, Promise!Init, Level, Unlocked, IsOpen, Channels, CLOSED, OPEN
<1>2. IInv /\ [Next]_vars => [Promise!Next]_(Promise!vars)
  <2> SUFFICES ASSUME IInv, [Next]_vars PROVE Promise!Next \/ UNCHANGED Promise!vars
    OBVIOUS
  <2>1. UNCHANGED security => UNCHANGED Promise!vars
    BY SameView DEF security, locks, codes
  <2>2. QED
    BY StepCases, SessionSteps, BasicSteps, ChannelSteps, <2>1
<1>3. QED
  BY <1>1, <1>2, InvariantHolds, PTL DEF Spec, KeepsPromises, Promise!Spec

-----------------------------------------------------------------------------
(* Answers                                                                 *)

LEMMA AnswersInit == Init => AnswerNamesRequest
  BY DEF Init, AnswerNamesRequest

LEMMA RefusalNames ==
    ASSUME S_SEND_NRC(Sid, \h11) \/ S_SEND_NRC(Sid, \h12) \/ S_SEND_NRC(Sid, \h22) \/ S_SEND_NRC(Sid, \h31)
    PROVE  AnswerNamesRequest'
  BY DEF S_SEND_NRC, Send, frame, AnswerNamesRequest, Sid, Sub

LEMMA RefusalsName ==
    ASSUME S_NRC_UNKNOWN_SID \/ D27_NRC \/ D27_LOCKED \/ D14_NRC \/ D23_NRC \/ D2A_HANDLE
    PROVE  AnswerNamesRequest'
<1>1. CASE S_NRC_UNKNOWN_SID
  BY <1>1, RefusalNames DEF S_NRC_UNKNOWN_SID
<1>2. CASE D27_NRC
  BY <1>2, RefusalNames DEF D27_NRC, Service, Channel
<1>3. CASE D27_LOCKED
  BY <1>3, RefusalNames DEF D27_LOCKED, Service, Channel
<1>4. CASE D14_NRC
  BY <1>4, RefusalNames DEF D14_NRC, Service
<1>5. CASE D23_NRC
  BY <1>5, RefusalNames DEF D23_NRC, InSession, Service
<1>6. CASE D2A_HANDLE
  BY <1>6, RefusalNames DEF D2A_HANDLE, InSession, Service
<1>7. QED
  BY <1>1, <1>2, <1>3, <1>4, <1>5, <1>6

LEMMA PositiveNames ==
    ASSUME NEW answer, Send(answer), answer[1] = Sid + \h40, Len(answer) >= 2 => answer[2] = Sub
    PROVE  AnswerNamesRequest'
  BY DEF Send, frame, AnswerNamesRequest, Sid, Sub

LEMMA AnswersName == ASSUME Handle PROVE AnswerNamesRequest'
<1>1. CASE S_OBD_LEGISLADO
  BY <1>1, PositiveNames, RefusalNames DEF S_OBD_LEGISLADO
<1>2. CASE S_SESS_CLOSED
  BY <1>2, PositiveNames DEF S_SESS_CLOSED, Service
<1>3. CASE D27_BASIC
  BY <1>3, PositiveNames DEF D27_BASIC, Service
<1>4. ASSUME NEW c \in Channels, D27_EXT_ARM(c) \/ D27_EXT_ADVANCE(c) \/ D27_EXT_CHECK(c)
      PROVE  AnswerNamesRequest'
  BY <1>4, PositiveNames DEF D27_EXT_ARM, D27_EXT_ADVANCE, D27_EXT_CHECK, Channel, Service
<1>5. CASE D14_ARM_HANDSHAKE \/ D14_CONFIRM_HANDSHAKE \/ D14_SUB3_GATE
  BY <1>5, PositiveNames DEF D14_ARM_HANDSHAKE, D14_CONFIRM_HANDSHAKE, D14_SUB3_GATE, Service
<1>6. CASE D23_OPEN_EXT \/ D23_CLOSE_EXT
  BY <1>6, PositiveNames DEF D23_OPEN_EXT, D23_CLOSE_EXT, InSession, Service
<1>7. QED
  BY <1>1, <1>2, <1>3, <1>4, <1>5, <1>6, RefusalsName DEF Handle

(* Every answer names its request, whatever was received before: nothing   *)
(* between the handler's answer and the next request touches either.       *)
THEOREM AnswersNameRequests == Spec => []AnswerNamesRequest
<1>1. AnswerNamesRequest /\ [Next]_vars => AnswerNamesRequest'
  <2> SUFFICES ASSUME AnswerNamesRequest, [Next]_vars PROVE AnswerNamesRequest'
    OBVIOUS
  <2>1. CASE Line
    BY <2>1 DEF Line, Receive, Discard, Fill, AnswerNamesRequest
  <2>2. CASE Listen
    BY <2>2 DEF Listen, AnswerNamesRequest
  <2>3. CASE UNCHANGED vars
    BY <2>3 DEF vars, frame, AnswerNamesRequest, Sid, Sub
  <2>4. QED
    BY <2>1, <2>2, <2>3, AnswersName DEF Next
<1>2. QED
  BY <1>1, AnswersInit, PTL DEF Spec

-----------------------------------------------------------------------------
(* Short requests                                                          *)

(* What is in the buffer when a handler runs: the request as far as it     *)
(* reaches, and its checksum behind it.                                    *)
RequestInBuffer ==
    pc = "dispatch" =>
        \E p \in Requests :
            /\ rxLen = Len(p)
            /\ \A i \in 3 .. 5 : /\ i - 2 <= Len(p) => rx[i] = p[i - 2]
                                 /\ i - 2 = Len(p) + 1 => rx[i] = Checksum(p)

LEMMA RequestStays == Spec => []RequestInBuffer
<1>1. Init => RequestInBuffer
  BY DEF Init, RequestInBuffer
<1>2. RequestInBuffer /\ [Next]_vars => RequestInBuffer'
  <2> SUFFICES ASSUME RequestInBuffer, [Next]_vars, pc' = "dispatch" PROVE RequestInBuffer'
    BY DEF RequestInBuffer
  <2>1. ASSUME NEW p \in Requests, Receive(p) PROVE RequestInBuffer'
    <3>1. Len(p) \in Nat
      BY DiagAssumption
    <3>2. rxLen' = Len(p) /\ \A i \in 3 .. 5 : rx'[i] = SlotAfter(p, Checksum(p), i)
      BY <2>1 DEF Receive, Fill
    <3>3. QED
      BY <3>1, <3>2 DEF RequestInBuffer, SlotAfter
  <2>2. CASE UNCHANGED vars
    BY <2>2 DEF vars, frame, RequestInBuffer
  <2>3. ~Listen /\ ~(\E p \in Requests, c \in Noise : Discard(p, c))
    BY DEF Listen, Discard, Fill
  <2>4. ~Handle
    <3>1. ASSUME NEW a, Send(a) PROVE FALSE
      BY <3>1 DEF Send
    <3>2. QED
      BY <3>1 DEF Handle, S_OBD_LEGISLADO, S_SESS_CLOSED, S_NRC_UNKNOWN_SID, D27_BASIC, D27_NRC,
             D27_LOCKED, D27_EXT_ARM, D27_EXT_ADVANCE, D27_EXT_CHECK, D14_ARM_HANDSHAKE,
             D14_CONFIRM_HANDSHAKE, D14_NRC, D14_SUB3_GATE, D23_OPEN_EXT, D23_CLOSE_EXT, D23_NRC,
             D2A_HANDLE, S_SEND_NRC
  <2>5. QED
    BY <2>1, <2>2, <2>3, <2>4 DEF Next, Line
<1>3. QED
  BY <1>1, <1>2, PTL DEF Spec

LEMMA ShortChecksum ==
    ASSUME NEW p \in Seq(Byte), Len(p) \in {1, 2}
    PROVE  SumFunction(p) = p[1] + (IF Len(p) = 2 THEN p[2] ELSE 0)
<1>1. DOMAIN p = 1 .. Len(p)
  OBVIOUS
<1>2. \A i \in 1 .. Len(p) : p[i] \in Byte
  OBVIOUS
<1>3. \A i \in 1 .. Len(p) : p[i] \in Int
  <2>1. Byte \subseteq Int
    BY DEF Byte
  <2>2. QED
    BY <1>2, <2>1
<1>4. SumFunction(p) = SumFunctionOnSet(p, 1 .. Len(p))
  BY <1>1 DEF SumFunction
<1>5. SumFunctionOnSet(p, 1 .. 0) = 0
  BY SumOfNone, 1 .. 0 = {}
<1>6. \A n \in 1 .. Len(p) :
          SumFunctionOnSet(p, 1 .. n) = p[n] + SumFunctionOnSet(p, 1 .. n - 1)
  <2> SUFFICES ASSUME NEW n \in 1 .. Len(p)
               PROVE  SumFunctionOnSet(p, 1 .. n) = p[n] + SumFunctionOnSet(p, 1 .. n - 1)
    OBVIOUS
  <2>1. n \in Int /\ 1 <= n /\ \A i \in 1 .. n : p[i] \in Int
    BY <1>3
  <2>2. QED
    BY <2>1, SumUpTo
<1>7. SumFunctionOnSet(p, 1 .. 1) = p[1]
  <2>1. 1 \in 1 .. Len(p) /\ 1 - 1 = 0
    OBVIOUS
  <2>2. p[1] + 0 = p[1]
    BY <1>3, <2>1
  <2>3. QED
    BY <1>5, <1>6, <2>1, <2>2
<1>8. CASE Len(p) = 1
  BY <1>3, <1>4, <1>7, <1>8
<1>9. CASE Len(p) = 2
  <2>1. SumFunctionOnSet(p, 1 .. 2) = p[2] + SumFunctionOnSet(p, 1 .. 2 - 1)
    BY <1>6, <1>9
  <2>2. QED
    BY <1>3, <1>4, <1>7, <1>9, <2>1, 2 - 1 = 1
<1>10. QED
  BY <1>8, <1>9

(* With the few bytes of a short request, its checksum is none of the      *)
(* values for which a handler acts.                                        *)
LEMMA ShortBuffer ==
    ASSUME RequestInBuffer, pc = "dispatch", rxLen < Reads
    PROVE  /\ Sid # \h29
           /\ rxLen = 1 => Sub = (\hEC + Sid) % 256
           /\ rxLen = 2 => Reads = 3 /\ Par = (\hED + Sid + Sub) % 256
           /\ rxLen \in {1, 2} /\ Sid \in Byte /\ (rxLen = 2 => Sub \in Byte)
<1>1. PICK p \in Requests :
          /\ rxLen = Len(p)
          /\ \A i \in 3 .. 5 : /\ i - 2 <= Len(p) => rx[i] = p[i - 2]
                               /\ i - 2 = Len(p) + 1 => rx[i] = Checksum(p)
  BY DEF RequestInBuffer
<1>2. p \in Seq(Byte) /\ p # <<>> /\ Len(p) \in Nat \ {0}
  BY DiagAssumption
<1>3. Reads \in {1, 2, 3} /\ (Reads = 1 <=> Sid = \h29)
  BY DEF Reads
<1>4. Len(p) \in {1, 2} /\ Sid # \h29
  BY <1>1, <1>2, <1>3
<1>5. Sid = p[1] /\ p[1] \in Byte
  BY <1>1, <1>2 DEF Sid
<1>6. CASE Len(p) = 1
  <2>1. Sub = Checksum(p)
    BY <1>1, <1>6 DEF Sub
  <2>2. SumFunction(p) = Sid + 0
    BY <1>2, <1>5, <1>6, ShortChecksum
  <2>3. QED
    BY <1>1, <1>4, <1>5, <1>6, <2>1, <2>2 DEF Checksum, Byte
<1>7. CASE Len(p) = 2
  <2>1. Par = Checksum(p) /\ Sub = p[2] /\ p[2] \in Byte
    BY SMTT(30), <1>1, <1>2, <1>7 DEF Par, Sub
  <2>2. SumFunction(p) = Sid + Sub
    BY <1>2, <1>5, <1>7, <2>1, ShortChecksum
  <2>3. Par = (\hED + Sid + Sub) % 256
    <3>1. Sid \in Int /\ Sub \in Int
      BY <1>5, <2>1 DEF Byte
    <3>2. \h80 + 2 + \h7A + \hF1 + (Sid + Sub) = \hED + Sid + Sub + 256
      BY <3>1
    <3>3. QED
      BY <1>7, <2>1, <2>2, <3>1, <3>2 DEF Checksum
  <2>4. rxLen = 2 /\ Reads = 3
    BY <1>1, <1>3, <1>4, <1>7
  <2>5. QED
    BY <1>4, <1>5, <2>1, <2>3, <2>4
<1>8. QED
  BY <1>4, <1>6, <1>7

(* A request shorter than what its handler reads changes nothing of the    *)
(* security state, for every request: by the value of each checksum that   *)
(* the handler takes for a subfunction or a parameter, not by a check.     *)
THEOREM ShortRequestsChangeNothing == Spec => ShortRequestsAreInert
<1>1. RequestInBuffer /\ [Next]_vars => (pc = "dispatch" /\ rxLen < Reads => UNCHANGED security)
  <2> SUFFICES ASSUME RequestInBuffer, [Next]_vars, pc = "dispatch", rxLen < Reads
               PROVE  UNCHANGED security
    OBVIOUS
  <2> USE DEF CLOSED, BASIC, EXTENDED, OPEN
  <2>1. ~S_SESS_CLOSED
    BY ShortBuffer DEF S_SESS_CLOSED, Service
  <2>2. ~D27_BASIC /\ ~D14_ARM_HANDSHAKE /\ ~D14_CONFIRM_HANDSHAKE
    <3>1. session = BASIC => rxLen = 1
      BY ShortBuffer DEF Reads
    <3>2. QED
      BY <3>1, ShortBuffer DEF D27_BASIC, D14_ARM_HANDSHAKE, D14_CONFIRM_HANDSHAKE, Service
  <2>3. ASSUME NEW c \in Channels, D27_EXT_ARM(c) \/ D27_EXT_ADVANCE(c) PROVE FALSE
    BY <2>3, ShortBuffer DEF D27_EXT_ARM, D27_EXT_ADVANCE, Channel, Service, Channels
  <2>4. ~D14_SUB3_GATE
    BY ShortBuffer DEF D14_SUB3_GATE, Service
  <2>5. ~D23_OPEN_EXT /\ ~D23_CLOSE_EXT
    <3>1. Sid = \h23 => Reads = 2
      BY DEF Reads
    <3>2. QED
      BY <3>1, ShortBuffer DEF D23_OPEN_EXT, D23_CLOSE_EXT, InSession, Service
  <2>6. QED
    BY StepCases, <2>1, <2>2, <2>3, <2>4, <2>5
<1>2. QED
  BY <1>1, RequestStays, PTL DEF Spec, ShortRequestsAreInert

-----------------------------------------------------------------------------
(* The scheduler.                                                          *)

(* The history gap is the tick counter, one behind it after a service: the *)
(* ninth tick resets the counter to zero where the eighth had reset gap.   *)
Cadence ==
    /\ SchedulerTypeOK
    /\ ~served => gap = ticks
    /\ served => gap = IF ticks = ServeAt THEN 0 ELSE ticks + 1
    /\ ticks = ServeAt => served

LEMMA CadenceHolds == SchedulerSpec => []Cadence
<1> USE SchedulerAssumption
<1>1. SchedulerInit => Cadence
  <2> SUFFICES ASSUME SchedulerInit PROVE Cadence
    OBVIOUS
  <2>1. ~served /\ served \in BOOLEAN
    BY Zenon DEF SchedulerInit
  <2>2. t1 = 0 /\ ticks = 0 /\ gap = 0
    BY DEF SchedulerInit
  <2>3. QED
    BY <2>1, <2>2 DEF Cadence, SchedulerTypeOK, ServeAt
<1>2. Cadence /\ [SchedulerNext]_clock => Cadence'
  <2> SUFFICES ASSUME Cadence, [SchedulerNext]_clock PROVE Cadence'
    OBVIOUS
  <2> USE DEF Cadence, SchedulerTypeOK, ServeAt
  <2>1. CASE UNCHANGED clock
    BY <2>1 DEF clock
  <2>2. ASSUME NEW delta \in Deltas, Accumulate(delta) PROVE Cadence'
    <3>1. Accumulated(delta) \in Nat
      BY DEF Accumulated, ClockMod
    <3>2. t1' \in 0 .. T1Limit
      BY <2>2, <3>1 DEF Accumulate, CompletesTick
    <3>4. QED
      BY <2>2, <3>2 DEF Accumulate
  <2>3. ASSUME NEW delta \in Deltas, Tick(delta) PROVE Cadence'
    <3>1. t1' \in 0 .. T1Limit
      BY <2>3 DEF Tick
    <3>a. served' = (served \/ ticks + 1 = ServeAt)
      BY <2>3, Zenon DEF Tick
    <3>b. served' \in BOOLEAN
      BY <3>a, Zenon
    <3>c. /\ ticks' = (IF ticks + 1 > 8 THEN 0 ELSE ticks + 1)
          /\ gap' = (IF ticks + 1 = 8 THEN 0 ELSE gap + 1)
      BY <2>3 DEF Tick
    <3>2. CASE ticks + 1 = ServeAt
      <4>1. served'
        BY <3>2, <3>a, Zenon
      <4>2. QED
        BY <3>1, <3>b, <3>c, <3>2, <4>1
    <3>3. CASE ticks + 1 # ServeAt
      <4>1. served' = served
        BY <3>3, <3>a, Zenon
      <4>2. QED
        BY <3>1, <3>b, <3>c, <3>3, <4>1
    <3>5. QED
      BY <3>2, <3>3
  <2>4. QED
    BY <2>1, <2>2, <2>3 DEF SchedulerNext, SCH_STEP
<1>3. QED
  BY <1>1, <1>2, PTL DEF SchedulerSpec

(* The counters of the scheduler keep their ranges for every step length.  *)
THEOREM TypeCorrect == SchedulerSpec => []SchedulerTypeOK
<1>1. Cadence => SchedulerTypeOK
  BY DEF Cadence
<1>2. QED
  BY <1>1, CadenceHolds, PTL

(* The watchdog is served within nine ticks of its last service, however   *)
(* long the steps are.                                                     *)
THEOREM WatchdogIsServed == SchedulerSpec => []WatchdogGapBounded
<1>1. Cadence => WatchdogGapBounded
  BY DEF Cadence, SchedulerTypeOK, WatchdogGapBounded, ServeAt
<1>2. QED
  BY <1>1, CadenceHolds, PTL

-----------------------------------------------------------------------------
(* The main loop.                                                          *)

(* What a step does to the codes and the sessions' history of them: only   *)
(* the confirmed clear touches them.                                       *)
LEMMA HandleCases == Handle => UNCHANGED codes \/ D14_CONFIRM_HANDSHAKE
<1> SUFFICES ASSUME Handle PROVE UNCHANGED codes \/ D14_CONFIRM_HANDSHAKE
  OBVIOUS
<1>1. [Next]_vars
  BY DEF Next
<1>2. CASE UNCHANGED security
  BY <1>2 DEF security, codes
<1>3. CASE S_SESS_CLOSED \/ D27_BASIC \/ D14_ARM_HANDSHAKE \/ D14_SUB3_GATE
  BY <1>3 DEF S_SESS_CLOSED, D27_BASIC, D14_ARM_HANDSHAKE, D14_SUB3_GATE, codes
<1>4. CASE \E c \in Channels : D27_EXT_ARM(c) \/ D27_EXT_ADVANCE(c)
  BY <1>4 DEF D27_EXT_ARM, D27_EXT_ADVANCE, codes
<1>5. CASE D23_OPEN_EXT \/ D23_CLOSE_EXT
  BY <1>5 DEF D23_OPEN_EXT, D23_CLOSE_EXT, codes
<1> QED
  BY <1>1, <1>2, <1>3, <1>4, <1>5, StepCases

-----------------------------------------------------------------------------
(* A step of the loop is a step of the scheduler or leaves its clock alone.*)
THEOREM LoopRunsScheduler == FirmwareSpec => SchedulerSpec
<1>1. FirmwareInit => SchedulerInit
  BY DEF FirmwareInit
<1>2. [FirmwareNext]_all => [SchedulerNext]_clock
  <2> SUFFICES ASSUME [FirmwareNext]_all PROVE [SchedulerNext]_clock
    OBVIOUS
  <2>1. LoopDelta \in Deltas
    BY FirmwareAssumption
  <2>2. CASE ScheduleTick \/ ScheduleNoTick
    BY <2>1, <2>2 DEF ScheduleTick, ScheduleNoTick, SchedulerNext, SCH_STEP
  <2>3. CASE (Line /\ UNCHANGED <<clock, overdue>>) \/ Dispatch \/ \E e \in Entry : Poke(e)
    BY <2>3 DEF Dispatch, Poke
  <2>4. CASE UNCHANGED all
    BY <2>4 DEF all
  <2> QED
    BY <2>2, <2>3, <2>4 DEF FirmwareNext
<1> QED
  BY <1>1, <1>2, PTL DEF FirmwareSpec, SchedulerSpec

(* The watchdog is served within nine ticks, whatever requests come.       *)
THEOREM LoopServesWatchdog == FirmwareSpec => []WatchdogGapBounded
  BY LoopRunsScheduler, WatchdogIsServed, PTL

-----------------------------------------------------------------------------
(* What the operations of the trouble-code table do to its state.          *)

LEMMA EntryFacts ==
    ASSUME NEW e \in Entry
    PROVE  /\ Table[e].hasStatus \in BOOLEAN /\ Table[e].ages \in BOOLEAN
           /\ Table[e].step \in 0 .. ByteMax /\ Table[e].slot \in 0 .. ByteMax
  BY TableAssumption DEF Entry

LEMMA StateFacts ==
    ASSUME NEW st \in State
    PROVE  /\ st.status \in SUBSET Entry /\ st.confirmed \in SUBSET Entry
           /\ st.aging \in [Slot -> 0 .. ByteMax] /\ st.qualify \in BOOLEAN
  BY DEF State

LEMMA CounterFacts ==
    ASSUME NEW st \in State, NEW s \in Slot
    PROVE  st.aging[s] \in Nat
<1>1. st.aging \in [Slot -> 0 .. ByteMax]
  BY StateFacts
<1>2. st.aging[s] \in 0 .. ByteMax
  BY <1>1
<1> QED
  BY <1>2 DEF ByteMax

LEMMA SlotsAreOwn ==
    ASSUME NEW d \in Entry, NEW e \in Entry, Table[d].slot = Table[e].slot, HasCounter(d)
    PROVE  d = e
  BY TableAssumption DEF HasCounter

(* A mark raises its own counter only, by at most its step.                *)
LEMMA MarkedFacts ==
    ASSUME NEW st \in State, NEW i
    PROVE  LET d == Marked(st, i)
           IN  /\ d \in State /\ d.qualify = st.qualify
               /\ \A e \in d.confirmed \ st.confirmed : Table[e].hasStatus
               /\ \A s \in Slot : d.aging[s] >= st.aging[s]
               /\ \A e \in Entry : Ages(e) =>
                    /\ d.aging[Table[e].slot] <= st.aging[Table[e].slot] + Table[e].step
                    /\ e # i => d.aging[Table[e].slot] = st.aging[Table[e].slot]
<1> DEFINE d == Marked(st, i)
<1>0. /\ st.status \in SUBSET Entry /\ st.confirmed \in SUBSET Entry
      /\ st.aging \in [Slot -> 0 .. ByteMax] /\ st.qualify \in BOOLEAN
  BY StateFacts
<1>1. CASE ~Known(i)
  <2>1. d = st
    BY <1>1 DEF Marked
  <2>2. \A s \in Slot : st.aging[s] \in Nat
    BY <1>0 DEF ByteMax
  <2>3. \A e \in Entry : Ages(e) => Table[e].slot \in Slot /\ Table[e].step \in Nat
    BY EntryFacts DEF Ages, HasCounter, ByteMax
  <2> QED
    BY <2>1, <2>2, <2>3
<1>2. CASE Known(i)
  <2>0. i \in Entry /\ Table[i].hasStatus \in BOOLEAN /\ Table[i].step \in 0 .. ByteMax
    BY <1>2, EntryFacts DEF Known
  <2> DEFINE b == Bump(st, i)
  <2>1. /\ b \in [Slot -> 0 .. ByteMax]
        /\ \A s \in Slot : b[s] >= st.aging[s]
        /\ \A s \in Slot : b[s] <= st.aging[s] + Table[i].step
        /\ \A s \in Slot : Ages(i) /\ s # Table[i].slot => b[s] = st.aging[s]
        /\ ~Ages(i) => b = st.aging
    <3>1. CASE st.qualify /\ Ages(i)
      <4> DEFINE t == Table[i].slot
                 sum == st.aging[t] + Table[i].step
                 v == IF sum > ByteMax THEN ByteMax ELSE sum
      <4>1. t \in Slot /\ st.aging[t] \in 0 .. ByteMax
        BY <1>0, <3>1 DEF Ages, HasCounter
      <4>2. v \in 0 .. ByteMax /\ v >= st.aging[t] /\ v <= st.aging[t] + Table[i].step
        <5>1. \A x, y \in 0 .. 255 : LET w == IF x + y > 255 THEN 255 ELSE x + y
                                     IN  w \in 0 .. 255 /\ w >= x /\ w <= x + y
          OBVIOUS
        <5> HIDE DEF t
        <5> QED
          BY <2>0, <4>1, <5>1 DEF ByteMax
      <4>3. b = [st.aging EXCEPT ![t] = v]
        BY <3>1 DEF Bump
      <4> HIDE DEF v, t, b
      <4>4. /\ b \in [Slot -> 0 .. ByteMax] /\ b[t] = v
            /\ \A s \in Slot : s # t => b[s] = st.aging[s]
        BY <1>0, <4>1, <4>2, <4>3
      <4>5. \A s \in Slot : st.aging[s] \in Nat /\ Table[i].step \in Nat
        BY <1>0, <2>0 DEF ByteMax
      <4> QED
        BY <3>1, <4>1, <4>2, <4>4, <4>5 DEF t
    <3>2. CASE ~(st.qualify /\ Ages(i))
      <4>1. b = st.aging
        BY <3>2 DEF Bump
      <4>2. \A s \in Slot : st.aging[s] \in Nat /\ Table[i].step \in Nat
        BY <1>0, <2>0 DEF ByteMax
      <4> QED
        BY <1>0, <4>1, <4>2
    <3> QED
      BY <3>1, <3>2
  <2> HIDE DEF b
  <2>2. d = [st EXCEPT !.status = IF Table[i].hasStatus THEN st.status \cup {i} ELSE st.status,
                       !.aging = b,
                       !.confirmed = IF st.qualify /\ Table[i].hasStatus
                                     THEN st.confirmed \cup {i} ELSE st.confirmed]
    BY <1>2 DEF Marked, b
  <2>3. /\ d \in State /\ d.aging = b /\ d.qualify = st.qualify
        /\ d.confirmed = IF st.qualify /\ Table[i].hasStatus
                         THEN st.confirmed \cup {i} ELSE st.confirmed
    <3>1. \A u, c \in SUBSET Entry :
            LET n == [st EXCEPT !.status = u, !.aging = b, !.confirmed = c]
            IN  n \in State /\ n.aging = b /\ n.qualify = st.qualify /\ n.confirmed = c
      BY <2>1 DEF State
    <3> DEFINE u0 == IF Table[i].hasStatus THEN st.status \cup {i} ELSE st.status
               c0 == IF st.qualify /\ Table[i].hasStatus THEN st.confirmed \cup {i} ELSE st.confirmed
    <3>2. u0 \in SUBSET Entry /\ c0 \in SUBSET Entry
      BY <1>0, <2>0
    <3>3. d = [st EXCEPT !.status = u0, !.aging = b, !.confirmed = c0]
      BY <2>2
    <3> HIDE DEF u0, c0, d
    <3>5. d \in State /\ d.aging = b /\ d.qualify = st.qualify /\ d.confirmed = c0
      BY <3>1, <3>2, <3>3
    <3> QED
      BY <3>5 DEF c0
  <2> HIDE DEF d
  <2>4. \A e \in d.confirmed \ st.confirmed : Table[e].hasStatus
    BY <2>3
  <2>5. ASSUME NEW e \in Entry, Ages(e)
        PROVE  /\ d.aging[Table[e].slot] <= st.aging[Table[e].slot] + Table[e].step
               /\ e # i => d.aging[Table[e].slot] = st.aging[Table[e].slot]
    <3>1. Table[e].slot \in Slot /\ Table[e].step \in Nat
      BY <2>5, EntryFacts DEF Ages, HasCounter, ByteMax
    <3>2. CASE e = i
      BY <2>1, <2>3, <3>1, <3>2
    <3>3. CASE e # i
      <4>1. Ages(i) => Table[e].slot # Table[i].slot
        BY <2>0, <2>5, <3>3, SlotsAreOwn DEF Ages
      <4>2. b[Table[e].slot] = st.aging[Table[e].slot]
        BY <2>1, <3>1, <4>1
      <4>3. st.aging[Table[e].slot] \in Nat
        BY <1>0, <3>1 DEF ByteMax
      <4> QED
        BY <2>3, <3>1, <4>2, <4>3
    <3> QED
      BY <3>2, <3>3
  <2> QED
    BY <2>1, <2>3, <2>4, <2>5 DEF d
<1> QED
  BY <1>1, <1>2

(* Each counter that ages loses its own step, down to zero.                *)
LEMMA DecayedFacts ==
    ASSUME NEW st \in State
    PROVE  LET d == Decayed(st)
           IN  /\ d \in State /\ d.qualify = st.qualify /\ d.confirmed \subseteq st.confirmed
               /\ \A s \in Slot : d.aging[s] <= st.aging[s]
               /\ \A e \in Entry : Ages(e) => d.aging[Table[e].slot] = Left(st, e)
               /\ \A e \in d.confirmed : Ages(e) /\ Table[e].hasStatus => Left(st, e) >= ConfirmAt
<1> DEFINE d == Decayed(st)
           a == DecayedCounters(st)
<1>0. /\ st.status \in SUBSET Entry /\ st.confirmed \in SUBSET Entry
      /\ st.aging \in [Slot -> 0 .. ByteMax] /\ st.qualify \in BOOLEAN
  BY StateFacts
<1>1. ASSUME NEW e \in Entry, Ages(e)
      PROVE  /\ Table[e].slot \in Slot
             /\ Left(st, e) \in 0 .. ByteMax /\ Left(st, e) <= st.aging[Table[e].slot]
  <2>1. Table[e].slot \in Slot /\ Table[e].step \in 0 .. ByteMax
    BY <1>1, EntryFacts DEF Ages, HasCounter
  <2>2. st.aging[Table[e].slot] \in 0 .. ByteMax
    BY <1>0, <2>1
  <2>3. \A x, y \in 0 .. 255 : LET w == IF x < y THEN 0 ELSE x - y
                              IN  w \in 0 .. 255 /\ w <= x
    OBVIOUS
  <2> QED
    BY <2>1, <2>2, <2>3 DEF Left, ByteMax
<1>2. ASSUME NEW e \in Entry, Ages(e)
      PROVE  a[Table[e].slot] = Left(st, e)
  <2>1. Table[e].slot \in Slot
    BY <1>1, <1>2
  <2>2. e = CHOOSE x \in Entry : Ages(x) /\ Table[x].slot = Table[e].slot
    <3> DEFINE c == CHOOSE x \in Entry : Ages(x) /\ Table[x].slot = Table[e].slot
    <3>1. c \in Entry /\ Ages(c) /\ Table[c].slot = Table[e].slot
      BY <1>2
    <3> HIDE DEF c
    <3>2. c = e
      BY <3>1, SlotsAreOwn DEF Ages
    <3> QED
      BY <3>2 DEF c
  <2>3. a[Table[e].slot] = Left(st, CHOOSE x \in Entry : Ages(x) /\ Table[x].slot = Table[e].slot)
    BY <1>2, <2>1 DEF DecayedCounters
  <2> QED
    BY <2>2, <2>3
<1>3. ASSUME NEW s \in Slot
      PROVE  a[s] \in 0 .. ByteMax /\ a[s] <= st.aging[s]
  <2>1. CASE \E e \in Entry : Ages(e) /\ Table[e].slot = s
    BY <1>1, <1>2, <2>1
  <2>2. CASE ~\E e \in Entry : Ages(e) /\ Table[e].slot = s
    <3>1. a[s] = st.aging[s]
      BY <2>2 DEF DecayedCounters
    <3> QED
      BY <1>0, <3>1 DEF ByteMax
  <2> QED
    BY <2>1, <2>2
<1>4. a \in [Slot -> 0 .. ByteMax]
  <2>1. a = [s \in Slot |-> a[s]]
    BY DEF DecayedCounters
  <2> HIDE DEF a
  <2> QED
    BY <1>3, <2>1
<1> DEFINE f == { e \in st.confirmed : ~(Ages(e) /\ Table[e].hasStatus /\ Left(st, e) < ConfirmAt) }
<1>5. d = [st EXCEPT !.aging = a, !.confirmed = f]
  BY DEF Decayed
<1>6. f \in SUBSET Entry /\ f \subseteq st.confirmed
  BY <1>0
<1> HIDE DEF a, f
<1>7. /\ d \in State /\ d.aging = a /\ d.confirmed = f /\ d.qualify = st.qualify
  BY <1>4, <1>5, <1>6 DEF State
<1> HIDE DEF d
<1>8. \A e \in f : Ages(e) /\ Table[e].hasStatus => Left(st, e) >= ConfirmAt
  BY <1>0, <1>1 DEF f, ByteMax, ConfirmAt
<1> QED
  BY <1>2, <1>3, <1>6, <1>7, <1>8 DEF d

(* A clear touches counters only, and only to zero them; the selective one *)
(* zeroes those of the confirmed entries.                                  *)
LEMMA ClearedFacts ==
    ASSUME NEW st \in State, NEW mode
    PROVE  LET d == Cleared(st, mode)
           IN  /\ d \in State /\ d.qualify = st.qualify /\ d.confirmed = st.confirmed
               /\ \A s \in Slot : d.aging[s] \in {0, st.aging[s]} /\ d.aging[s] <= st.aging[s]
               /\ \A e \in st.confirmed : Ages(e) /\ Table[e].hasStatus => d.aging[Table[e].slot] = 0
<1> DEFINE d == Cleared(st, mode)
           a == [s \in Slot |-> IF mode # SELECTIVE_2
                                   \/ \E e \in Entry : Table[e].hasStatus /\ Table[e].slot = s
                                                       /\ e \in st.confirmed
                                THEN 0 ELSE st.aging[s]]
<1>0. /\ st.confirmed \in SUBSET Entry /\ st.aging \in [Slot -> 0 .. ByteMax]
  BY StateFacts
<1>1. a \in [Slot -> 0 .. ByteMax]
  BY <1>0 DEF ByteMax
<1>2. \A s \in Slot : a[s] \in {0, st.aging[s]} /\ a[s] <= st.aging[s]
  BY <1>0 DEF ByteMax
<1>3. \A e \in st.confirmed : Ages(e) /\ Table[e].hasStatus => a[Table[e].slot] = 0
  BY <1>0 DEF Ages, HasCounter
<1>4. d = [st EXCEPT !.aging = a]
  <2>1. DOMAIN st.aging = Slot
    BY <1>0
  <2> QED
    BY DEF Cleared
<1> HIDE DEF a
<1>5. d \in State /\ d.aging = a /\ d.qualify = st.qualify /\ d.confirmed = st.confirmed
  BY <1>1, <1>4 DEF State
<1> QED
  BY <1>2, <1>3, <1>5

-----------------------------------------------------------------------------
(* The trouble-code table by itself.                                       *)

(* The entries that have a status are the only ones to be confirmed.       *)
ConfirmedHaveStatus == \A e \in faults.confirmed : Table[e].hasStatus

(* What a counter holds it has got from the marks since it was last zero:  *)
(* nothing without one, and at most its step with one.                     *)
MarksAccount ==
    \A e \in Entry : Ages(e) =>
        /\ marks[e] = 0 => faults.aging[Table[e].slot] = 0
        /\ marks[e] = 1 => faults.aging[Table[e].slot] <= Table[e].step

TableInv == TableTypeOK /\ ConfirmedHaveStatus /\ MarksAccount

-----------------------------------------------------------------------------
LEMMA TableInvInit == TableInit => TableInv
<1> SUFFICES ASSUME TableInit PROVE TableInv
  OBVIOUS
<1>1. faults \in State
  BY DEF TableInit, StateInit, State, ByteMax
<1>2. MarksAccount
  <2>1. \A e \in Entry : Ages(e) => faults.aging[Table[e].slot] = 0
    BY DEF TableInit, StateInit, Ages, HasCounter
  <2> QED
    BY <2>1 DEF TableInit, MarksAccount
<1>3. ConfirmedHaveStatus
  BY DEF TableInit, StateInit, ConfirmedHaveStatus
<1>4. marks \in [Entry -> 0 .. 2]
  <2>1. 0 \in 0 .. 2
    OBVIOUS
  <2> QED
    BY <2>1 DEF TableInit
<1>5. TableTypeOK
  BY <1>1, <1>4 DEF TableInit, TableTypeOK
<1> QED
  BY <1>2, <1>3, <1>5 DEF TableInv

(* The history forgets the marks of a counter that is zero, and a counter  *)
(* that has grown by no more than its step since the last mark keeps the   *)
(* account.                                                                *)
LEMMA TrackFacts ==
    ASSUME NEW e \in Entry, NEW m \in 0 .. 3
    PROVE  /\ Track(e, m) \in 0 .. 2
           /\ Ages(e) /\ faults'.aging[Table[e].slot] = 0 => Track(e, m) = 0
           /\ Ages(e) /\ faults'.aging[Table[e].slot] # 0 => Track(e, m) = IF m > 2 THEN 2 ELSE m
  BY DEF Track, Ages

LEMMA TableInvStep == TableInv /\ [TableNext]_tableVars => TableInv'
<1> SUFFICES ASSUME TableInv, [TableNext]_tableVars PROVE TableInv'
  OBVIOUS
<1> USE DEF TableInv, TableTypeOK
<1>0. /\ faults \in State /\ marks \in [Entry -> 0 .. 2]
      /\ \A e \in Entry : Ages(e) => /\ Table[e].slot \in Slot /\ Table[e].step \in Nat
                                     /\ faults.aging[Table[e].slot] \in Nat
  <2>1. faults.aging \in [Slot -> 0 .. ByteMax]
    BY StateFacts
  <2>2. ASSUME NEW e \in Entry, Ages(e)
        PROVE  /\ Table[e].slot \in Slot /\ Table[e].step \in Nat
               /\ faults.aging[Table[e].slot] \in Nat
    <3>1. Table[e].slot \in Slot
      BY <2>2 DEF Ages, HasCounter
    <3>2. Table[e].step \in Nat
      BY EntryFacts DEF ByteMax
    <3> QED
      BY SMTT(30), <2>1, <3>1, <3>2 DEF ByteMax
  <2> QED
    BY <2>2
<1>1. ASSUME NEW i \in Index, Mark(i)
      PROVE  TableInv'
  <2>1. /\ faults' \in State
        /\ \A e \in faults'.confirmed \ faults.confirmed : Table[e].hasStatus
        /\ \A e \in Entry : Ages(e) =>
             /\ faults'.aging[Table[e].slot] <= faults.aging[Table[e].slot] + Table[e].step
             /\ e # i => faults'.aging[Table[e].slot] = faults.aging[Table[e].slot]
    BY <1>0, <1>1, MarkedFacts DEF Mark
  <2>2. ConfirmedHaveStatus'
    BY <2>1 DEF ConfirmedHaveStatus
  <2>3. ASSUME NEW e \in Entry
        PROVE  /\ marks'[e] = Track(e, IF e = i THEN marks[e] + 1 ELSE marks[e])
               /\ (IF e = i THEN marks[e] + 1 ELSE marks[e]) \in 0 .. 3
    BY <1>0, <1>1 DEF Mark
  <2>4. marks' \in [Entry -> 0 .. 2]
    <3>1. \A e \in Entry : marks'[e] \in 0 .. 2
      BY <2>3, TrackFacts
    <3>2. marks' = [e \in Entry |-> marks'[e]]
      BY <1>1 DEF Mark
    <3> QED
      BY <3>1, <3>2
  <2>5. ASSUME NEW e \in Entry, Ages(e)
        PROVE  /\ marks'[e] = 0 => faults'.aging[Table[e].slot] = 0
               /\ marks'[e] = 1 => faults'.aging[Table[e].slot] <= Table[e].step
    <3> DEFINE x == faults'.aging[Table[e].slot]
               y == faults.aging[Table[e].slot]
    <3>1. /\ marks[e] \in 0 .. 2 /\ Table[e].step \in Nat /\ y \in Nat /\ x \in Nat
      <4>1. faults'.aging \in [Slot -> 0 .. ByteMax]
        BY <2>1, StateFacts
      <4> QED
        BY SMTT(30), <1>0, <2>5, <4>1 DEF ByteMax
    <3>2. (marks[e] = 0 => y = 0) /\ (marks[e] = 1 => y <= Table[e].step)
      BY <2>5 DEF MarksAccount
    <3>3. x <= y + Table[e].step /\ (e # i => x = y)
      BY <2>1, <2>5
    <3>4. CASE x = 0
      BY <2>3, <2>5, <3>1, <3>4, TrackFacts
    <3>5. CASE x # 0
      <4>1. marks'[e] = IF (IF e = i THEN marks[e] + 1 ELSE marks[e]) > 2
                        THEN 2 ELSE IF e = i THEN marks[e] + 1 ELSE marks[e]
        BY <2>3, <2>5, <3>5, TrackFacts
      <4> HIDE DEF x, y
      <4>2. (marks'[e] = 0 => x = 0) /\ (marks'[e] = 1 => x <= Table[e].step)
        BY <3>1, <3>2, <3>3, <3>5, <4>1
      <4> QED
        BY <4>2 DEF x
    <3> QED
      BY <3>4, <3>5
  <2> QED
    BY <1>1, <2>1, <2>2, <2>4, <2>5 DEF Mark, MarksAccount
<1>2. ASSUME /\ faults' \in State /\ faults'.confirmed \subseteq faults.confirmed
             /\ \A s \in Slot : faults'.aging[s] <= faults.aging[s]
             /\ marks' = [e \in Entry |-> Track(e, marks[e])]
             /\ quiet' = quiet
      PROVE  TableInv'
  <2>1. ConfirmedHaveStatus'
    BY <1>2 DEF ConfirmedHaveStatus
  <2>2. marks' \in [Entry -> 0 .. 2]
    <3>1. \A e \in Entry : Track(e, marks[e]) \in 0 .. 2
      BY <1>0, TrackFacts
    <3> QED
      BY <1>2, <3>1
  <2>3. ASSUME NEW e \in Entry, Ages(e)
        PROVE  /\ marks'[e] = 0 => faults'.aging[Table[e].slot] = 0
               /\ marks'[e] = 1 => faults'.aging[Table[e].slot] <= Table[e].step
    <3>1. faults'.aging \in [Slot -> 0 .. ByteMax]
      BY <1>2, StateFacts
    <3>2. /\ faults'.aging[Table[e].slot] \in Nat /\ faults.aging[Table[e].slot] \in Nat
          /\ Table[e].step \in Nat /\ marks[e] \in 0 .. 2
          /\ faults'.aging[Table[e].slot] <= faults.aging[Table[e].slot]
      <4>1. Table[e].slot \in Slot /\ Table[e].step \in Nat /\ faults.aging[Table[e].slot] \in Nat
        BY <1>0, <2>3
      <4>2. faults'.aging[Table[e].slot] \in Nat
        BY <3>1, <4>1, SMTT(30) DEF ByteMax
      <4>3. marks[e] \in 0 .. 2
        BY <1>0
      <4> QED
        BY <1>2, <4>1, <4>2, <4>3
    <3>3. CASE faults'.aging[Table[e].slot] = 0
      BY <3>2, <3>3
    <3>4. CASE faults'.aging[Table[e].slot] # 0
      <4>1. marks'[e] = marks[e]
        BY <1>2, <2>3, <3>2, <3>4, TrackFacts
      <4> QED
        BY <2>3, <3>2, <3>4, <4>1 DEF MarksAccount
    <3> QED
      BY <3>3, <3>4
  <2> QED
    BY <1>2, <2>1, <2>2, <2>3 DEF MarksAccount
<1>3. ASSUME DecayTick
      PROVE  TableInv'
  BY <1>0, <1>2, <1>3, DecayedFacts DEF DecayTick
<1>4. ASSUME NEW mode \in {0, SELECTIVE_2}, Clear(mode)
      PROVE  TableInv'
  BY <1>0, <1>2, <1>4, ClearedFacts DEF Clear
<1>5. ASSUME faults' \in State, faults'.confirmed = faults.confirmed, faults'.aging = faults.aging,
             marks' = marks, quiet' \in BOOLEAN
      PROVE  TableInv'
  BY <1>5 DEF ConfirmedHaveStatus, MarksAccount
<1>6. ASSUME NEW i \in Index, Unmark(i)
      PROVE  TableInv'
  <2>1. CASE faults' = faults
    BY <1>0, <1>5, <1>6, <2>1 DEF Unmark
  <2>2. CASE faults' = [faults EXCEPT !.status = @ \ {i}]
    <3>1. faults' \in State /\ faults'.confirmed = faults.confirmed /\ faults'.aging = faults.aging
      BY <1>0, <2>2 DEF State
    <3> QED
      BY <1>5, <1>6, <3>1 DEF Unmark
  <2> QED
    BY <1>6, <2>1, <2>2 DEF Unmark, Unmarked
<1>7. ASSUME NEW b \in BOOLEAN, SetQualify(b)
      PROVE  TableInv'
  <2>1. faults' \in State /\ faults'.confirmed = faults.confirmed /\ faults'.aging = faults.aging
    BY <1>0, <1>7 DEF SetQualify, State
  <2> QED
    BY <1>5, <1>7, <2>1 DEF SetQualify
<1>8. CASE FaultsStop
  BY <1>0, <1>5, <1>8 DEF FaultsStop
<1>9. CASE UNCHANGED tableVars
  BY <1>0, <1>5, <1>9 DEF tableVars
<1> QED
  BY <1>1, <1>3, <1>4, <1>6, <1>7, <1>8, <1>9 DEF TableNext

(* The invariant holds for every table and every order of the calls.       *)
THEOREM TableInvariant == TableSpec => []TableInv
<1>1. TableInit => TableInv
  BY TableInvInit
<1>2. TableInv /\ [TableNext]_tableVars => TableInv'
  BY TableInvStep
<1> QED
  BY <1>1, <1>2, PTL DEF TableSpec

(* The counters stay bytes.                                                *)
THEOREM TableTypeCorrect == TableSpec => []TableTypeOK
<1>1. TableInv => TableTypeOK
  BY DEF TableInv
<1> QED
  BY <1>1, TableInvariant, PTL

(* A mark never lowers a counter, a tick or a clear never raises one.      *)
THEOREM CountersKeepDirection == TableSpec => CountersMoveOneWay
<1>1. TableInv /\ [TableNext]_tableVars =>
        [/\ (\E i \in Index : Mark(i)) => \A s \in Slot : faults'.aging[s] >= faults.aging[s]
         /\ (DecayTick \/ Clear(0) \/ Clear(SELECTIVE_2)) =>
                \A s \in Slot : faults'.aging[s] <= faults.aging[s]]_tableVars
  <2> SUFFICES ASSUME TableInv
               PROVE  /\ \A i \in Index : Mark(i) =>
                            \A s \in Slot : faults'.aging[s] >= faults.aging[s]
                      /\ (DecayTick \/ Clear(0) \/ Clear(SELECTIVE_2)) =>
                            \A s \in Slot : faults'.aging[s] <= faults.aging[s]
    OBVIOUS
  <2>1. faults \in State
    BY DEF TableInv, TableTypeOK
  <2>2. ASSUME NEW i \in Index, Mark(i)
        PROVE  \A s \in Slot : faults'.aging[s] >= faults.aging[s]
    <3>1. faults' = Marked(faults, i)
      BY <2>2 DEF Mark
    <3>2. \A s \in Slot : Marked(faults, i).aging[s] >= faults.aging[s]
      BY <2>1, MarkedFacts
    <3> QED
      BY <3>1, <3>2
  <2>4. ASSUME NEW mode, Clear(mode)
        PROVE  \A s \in Slot : faults'.aging[s] <= faults.aging[s]
    BY <2>1, <2>4, ClearedFacts DEF Clear
  <2>5. DecayTick => \A s \in Slot : faults'.aging[s] <= faults.aging[s]
    BY <2>1, DecayedFacts DEF DecayTick
  <2> QED
    BY <2>2, <2>4, <2>5
<1> QED
  BY <1>1, TableInvariant, PTL DEF TableSpec, CountersMoveOneWay

(* A single glitch never survives a tick.                                  *)
THEOREM GlitchesFall == TableSpec => TickDebounces
<1>1. TableInv /\ [TableNext]_tableVars =>
        [DecayTick => \A e \in faults'.confirmed :
                    Ages(e) => /\ faults'.aging[Table[e].slot] >= ConfirmAt
                               /\ Table[e].step < ConfirmAt => marks'[e] = 2]_tableVars
  <2> SUFFICES ASSUME TableInv, DecayTick, NEW e \in faults'.confirmed, Ages(e)
               PROVE  /\ faults'.aging[Table[e].slot] >= ConfirmAt
                      /\ Table[e].step < ConfirmAt => marks'[e] = 2
    OBVIOUS
  <2>1. faults \in State /\ marks \in [Entry -> 0 .. 2]
    BY DEF TableInv, TableTypeOK
  <2>2. /\ faults' \in State /\ faults'.confirmed \subseteq faults.confirmed
        /\ \A s \in Slot : faults'.aging[s] <= faults.aging[s]
        /\ \A d \in Entry : Ages(d) => faults'.aging[Table[d].slot] = Left(faults, d)
        /\ \A d \in faults'.confirmed : Ages(d) /\ Table[d].hasStatus => Left(faults, d) >= ConfirmAt
    BY <2>1, DecayedFacts DEF DecayTick
  <2>3. e \in Entry /\ Table[e].hasStatus
    BY <2>1, <2>2, StateFacts DEF TableInv, ConfirmedHaveStatus
  <2>4. faults'.aging[Table[e].slot] >= ConfirmAt
    BY <2>2, <2>3
  <2>5. Table[e].slot \in Slot /\ Table[e].step \in Nat /\ marks[e] \in 0 .. 2
    BY <2>1, <2>3, EntryFacts DEF Ages, HasCounter, ByteMax
  <2>6. faults.aging[Table[e].slot] \in Nat /\ faults'.aging[Table[e].slot] \in Nat
    BY <2>1, <2>2, <2>5, CounterFacts
  <2>7. marks'[e] = marks[e]
    <3>1. marks'[e] = Track(e, marks[e]) /\ marks[e] \in 0 .. 3
      BY <2>1, <2>3, <2>5 DEF DecayTick
    <3>2. faults'.aging[Table[e].slot] # 0
      BY <2>4, <2>6 DEF ConfirmAt
    <3> QED
      BY <2>3, <2>5, <3>1, <3>2, TrackFacts
  <2>8. ASSUME Table[e].step < ConfirmAt
        PROVE  marks[e] = 2
    <3>1. faults.aging[Table[e].slot] >= ConfirmAt
      BY <2>2, <2>4, <2>5, <2>6 DEF ConfirmAt
    <3>2. marks[e] # 0 /\ marks[e] # 1
      BY <2>3, <2>5, <2>6, <2>8, <3>1 DEF TableInv, MarksAccount, ConfirmAt
    <3> QED
      BY <2>5, <3>2
  <2> QED
    BY <2>4, <2>7, <2>8
<1> QED
  BY <1>1, TableInvariant, PTL DEF TableSpec, TickDebounces

(* A selective clear condemns every confirmed code whose counter ages.     *)
THEOREM ClearCondemns == TableSpec => SelectiveClearCondemns
<1>1. TableInv /\ [TableNext]_tableVars =>
        [Clear(SELECTIVE_2) =>
            \A e \in faults'.confirmed : Ages(e) => e \notin Decayed(faults').confirmed]_tableVars
  <2> SUFFICES ASSUME TableInv, Clear(SELECTIVE_2), NEW e \in faults'.confirmed, Ages(e)
               PROVE  e \notin Decayed(faults').confirmed
    OBVIOUS
  <2>1. faults \in State
    BY DEF TableInv, TableTypeOK
  <2>2. /\ faults' \in State /\ faults'.confirmed = faults.confirmed
        /\ \A d \in faults.confirmed : Ages(d) /\ Table[d].hasStatus => faults'.aging[Table[d].slot] = 0
    BY <2>1, ClearedFacts DEF Clear
  <2>3. e \in Entry /\ Table[e].hasStatus
    BY <2>1, <2>2, StateFacts DEF TableInv, ConfirmedHaveStatus
  <2>4. Left(faults', e) = 0
    <3>1. faults'.aging[Table[e].slot] = 0 /\ Table[e].step \in 0 .. 255
      BY <2>2, <2>3, EntryFacts DEF ByteMax
    <3> QED
      BY <3>1 DEF Left
  <2>5. e \in Decayed(faults').confirmed => Left(faults', e) >= ConfirmAt
    BY <2>2, <2>3, DecayedFacts
  <2> QED
    BY <2>4, <2>5 DEF ConfirmAt
<1> QED
  BY <1>1, TableInvariant, PTL DEF TableSpec, SelectiveClearCondemns

-----------------------------------------------------------------------------
(* The clear in the loop.                                                  *)

(* A condemned code that is still confirmed has a counter of zero, and the *)
(* scheduler's accumulator has grown at every step that it has outlived.   *)
CondemnedCounts ==
    \A e \in Entry : overdue[e] > 0 =>
        /\ Ages(e) /\ Table[e].hasStatus
        /\ dtc.aging[Table[e].slot] = 0
        /\ (overdue[e] - 1) * LoopDelta <= t1

ClearInv ==
    /\ dtc \in State
    /\ overdue \in [Entry -> Nat]
    /\ t1 \in 0 .. T1Limit
    /\ CondemnedCounts

LEMMA ClearInit == FirmwareInit => ClearInv
<1> SUFFICES ASSUME FirmwareInit PROVE ClearInv
  OBVIOUS
<1>1. dtc \in State
  BY DEF FirmwareInit, Init, StateInit, State, ByteMax
<1>2. t1 \in 0 .. T1Limit
  BY SchedulerAssumption DEF FirmwareInit, SchedulerInit
<1>3. overdue \in [Entry -> Nat] /\ CondemnedCounts
  BY DEF FirmwareInit, CondemnedCounts
<1> QED
  BY <1>1, <1>2, <1>3 DEF ClearInv

LEMMA DispatchKeepsClear == ClearInv /\ Dispatch => ClearInv'
<1> SUFFICES ASSUME ClearInv, Dispatch PROVE ClearInv'
  OBVIOUS
<1>1. t1' = t1
  BY DEF Dispatch, clock
<1>2. CASE UNCHANGED codes
  <2>1. dtc' = dtc /\ overdue' = overdue
    BY <1>2 DEF codes, Dispatch
  <2> QED
    BY <1>1, <2>1 DEF ClearInv, CondemnedCounts
<1>3. CASE D14_CONFIRM_HANDSHAKE
  <2>1. dtc' = Cleared(dtc, SELECTIVE_2)
    BY <1>3 DEF D14_CONFIRM_HANDSHAKE
  <2>2. /\ dtc' \in State /\ dtc'.confirmed = dtc.confirmed
        /\ \A s \in Slot : dtc'.aging[s] \in {0, dtc.aging[s]}
        /\ \A e \in dtc.confirmed : Ages(e) /\ Table[e].hasStatus => dtc'.aging[Table[e].slot] = 0
    BY <2>1, ClearedFacts DEF ClearInv
  <2>3. overdue' \in {overdue, [e \in Entry |-> IF overdue[e] = 0 /\ e \in Condemned(dtc)
                                                THEN 1 ELSE overdue[e]]}
    BY DEF Dispatch
  <2>4. overdue' \in [Entry -> Nat]
    BY <2>3 DEF ClearInv
  <2>5. ASSUME NEW e \in Entry, overdue'[e] > 0
        PROVE  /\ Ages(e) /\ Table[e].hasStatus
               /\ dtc'.aging[Table[e].slot] = 0
               /\ (overdue'[e] - 1) * LoopDelta <= t1'
    <3>1. CASE overdue'[e] = overdue[e]
      <4>1. /\ Ages(e) /\ Table[e].hasStatus /\ dtc.aging[Table[e].slot] = 0
            /\ (overdue[e] - 1) * LoopDelta <= t1
        BY <2>5, <3>1 DEF ClearInv, CondemnedCounts
      <4>2. Table[e].slot \in Slot
        BY <4>1 DEF Ages, HasCounter
      <4> QED
        BY <1>1, <2>2, <3>1, <4>1, <4>2
    <3>2. CASE overdue'[e] # overdue[e]
      <4>1. overdue'[e] = 1 /\ e \in Condemned(dtc)
        BY <2>3, <3>2
      <4>2. e \in dtc.confirmed /\ Ages(e) /\ Table[e].hasStatus
        BY <4>1 DEF Condemned
      <4>3. (overdue'[e] - 1) * LoopDelta = 0
        BY <4>1, FirmwareAssumption
      <4> QED
        BY <1>1, <2>2, <4>2, <4>3 DEF ClearInv
    <3> QED
      BY <3>1, <3>2
  <2> QED
    BY <1>1, <2>2, <2>4, <2>5 DEF ClearInv, CondemnedCounts
<1> QED
  BY <1>2, <1>3, HandleCases DEF Dispatch

(* The tick un-confirms every condemned code, since its counter is zero.   *)
LEMMA TickClears == ClearInv /\ ScheduleTick => ClearInv'
<1> SUFFICES ASSUME ClearInv, ScheduleTick PROVE ClearInv'
  OBVIOUS
<1>1. /\ dtc' = Decayed(dtc) /\ t1' = 0
      /\ overdue' = [e \in Entry |-> IF overdue[e] # 0 /\ e \in dtc'.confirmed
                                     THEN overdue[e] + 1 ELSE 0]
  BY DEF ScheduleTick, Tick
<1>2. /\ dtc' \in State
      /\ \A e \in dtc'.confirmed : Ages(e) /\ Table[e].hasStatus => Left(dtc, e) >= ConfirmAt
  BY <1>1, DecayedFacts DEF ClearInv
<1>3. ASSUME NEW e \in Entry, overdue[e] # 0
      PROVE  e \notin dtc'.confirmed
  <2>1. Ages(e) /\ Table[e].hasStatus /\ dtc.aging[Table[e].slot] = 0
    BY <1>3 DEF ClearInv, CondemnedCounts
  <2>2. Left(dtc, e) = 0
    <3>1. Table[e].step \in 0 .. 255
      BY EntryFacts DEF ByteMax
    <3> QED
      BY <2>1, <3>1 DEF Left
  <2> QED
    BY <1>2, <2>1, <2>2 DEF ConfirmAt
<1>4. overdue' = [e \in Entry |-> 0]
  BY <1>1, <1>3
<1>5. overdue' \in [Entry -> Nat] /\ CondemnedCounts'
  BY <1>4 DEF CondemnedCounts
<1> QED
  BY <1>1, <1>2, <1>5, SchedulerAssumption DEF ClearInv

LEMMA NoTickCounts == ClearInv /\ ScheduleNoTick => ClearInv'
<1> SUFFICES ASSUME ClearInv, ScheduleNoTick PROVE ClearInv'
  OBVIOUS
<1>1. /\ dtc' = dtc
      /\ overdue' = [e \in Entry |-> IF overdue[e] # 0 /\ e \in dtc.confirmed
                                     THEN overdue[e] + 1 ELSE 0]
  BY DEF ScheduleNoTick, security, codes
<1>2. t1' = t1 + LoopDelta /\ t1' <= T1Limit /\ LoopDelta \in Nat /\ t1 \in Nat
  <2>1. t1' = (t1 + LoopDelta) % ClockMod /\ ~(t1' > T1Limit)
    BY DEF ScheduleNoTick, Accumulate, CompletesTick, Accumulated
  <2>2. t1 \in 0 .. T1Limit /\ LoopDelta \in Nat /\ T1Limit \in Nat /\ LoopDelta + T1Limit < 65536
    BY FirmwareAssumption, SchedulerAssumption DEF ClearInv, ClockMod
  <2>3. (t1 + LoopDelta) % 65536 = t1 + LoopDelta
    BY <2>2
  <2> QED
    BY <2>1, <2>2, <2>3 DEF ClockMod
<1>3. overdue' \in [Entry -> Nat]
  BY <1>1 DEF ClearInv
<1>4. ASSUME NEW e \in Entry, overdue'[e] > 0
      PROVE  /\ Ages(e) /\ Table[e].hasStatus
             /\ dtc'.aging[Table[e].slot] = 0
             /\ (overdue'[e] - 1) * LoopDelta <= t1'
  <2>1. overdue[e] \in Nat /\ overdue[e] # 0 /\ overdue'[e] = overdue[e] + 1
    BY <1>1, <1>4 DEF ClearInv
  <2>2. /\ Ages(e) /\ Table[e].hasStatus /\ dtc.aging[Table[e].slot] = 0
        /\ (overdue[e] - 1) * LoopDelta <= t1
    BY <2>1 DEF ClearInv, CondemnedCounts
  <2>3. (overdue'[e] - 1) * LoopDelta = (overdue[e] - 1) * LoopDelta + LoopDelta
    <3>1. \A k, d \in Int : k * d = (k - 1) * d + d
      OBVIOUS
    <3>2. overdue'[e] - 1 = overdue[e]
      BY <2>1
    <3> QED
      BY <1>2, <2>1, <3>1, <3>2
  <2>4. (overdue[e] - 1) * LoopDelta \in Int
    BY <1>2, <2>1
  <2> QED
    BY <1>1, <1>2, <2>2, <2>3, <2>4
<1> QED
  BY <1>1, <1>2, <1>3, <1>4 DEF ClearInv, CondemnedCounts

LEMMA PokeKeepsClear ==
    ASSUME ClearInv, NEW e \in Entry, Poke(e)
    PROVE  ClearInv'
<1>1. /\ dtc' = [dtc EXCEPT !.confirmed = @ \cup {e}, !.aging = [@ EXCEPT ![Table[e].slot] = Poked]]
      /\ overdue' = [overdue EXCEPT ![e] = 0] /\ t1' = t1 /\ HasCounter(e)
  BY DEF Poke, clock
<1>2. dtc.confirmed \in SUBSET Entry /\ dtc.aging \in [Slot -> 0 .. ByteMax] /\ Table[e].slot \in Slot
  BY <1>1, StateFacts DEF ClearInv, HasCounter
<1> DEFINE a == [dtc.aging EXCEPT ![Table[e].slot] = Poked]
           f == dtc.confirmed \cup {e}
<1>3. a \in [Slot -> 0 .. ByteMax] /\ \A s \in Slot : s # Table[e].slot => a[s] = dtc.aging[s]
  BY <1>2 DEF Poked, ByteMax
<1>4. f \in SUBSET Entry
  BY <1>2
<1>5. dtc' = [dtc EXCEPT !.confirmed = f, !.aging = a]
  BY <1>1
<1> HIDE DEF a, f
<1>6. dtc' \in State /\ dtc'.aging = a
  BY <1>3, <1>4, <1>5 DEF ClearInv, State
<1>7. overdue' \in [Entry -> Nat] /\ overdue'[e] = 0 /\ \A d \in Entry \ {e} : overdue'[d] = overdue[d]
  BY <1>1 DEF ClearInv
<1>8. ASSUME NEW d \in Entry, overdue'[d] > 0
      PROVE  /\ Ages(d) /\ Table[d].hasStatus
             /\ dtc'.aging[Table[d].slot] = 0
             /\ (overdue'[d] - 1) * LoopDelta <= t1'
  <2>1. d # e /\ overdue'[d] = overdue[d]
    BY <1>7, <1>8
  <2>2. /\ Ages(d) /\ Table[d].hasStatus /\ dtc.aging[Table[d].slot] = 0
        /\ (overdue[d] - 1) * LoopDelta <= t1
    BY <1>8, <2>1 DEF ClearInv, CondemnedCounts
  <2>3. Table[d].slot \in Slot /\ Table[d].slot # Table[e].slot
    BY <1>1, <2>1, <2>2, SlotsAreOwn DEF Ages, HasCounter
  <2> QED
    BY <1>1, <1>3, <1>6, <2>1, <2>2, <2>3
<1> QED
  BY <1>1, <1>6, <1>7, <1>8 DEF ClearInv, CondemnedCounts

LEMMA ClearStep == ClearInv /\ [FirmwareNext]_all => ClearInv'
<1> SUFFICES ASSUME ClearInv, [FirmwareNext]_all PROVE ClearInv'
  OBVIOUS
<1>1. ASSUME dtc' = dtc, t1' = t1, overdue' = overdue
      PROVE  ClearInv'
  BY <1>1 DEF ClearInv, CondemnedCounts
<1>2. CASE Line /\ UNCHANGED <<clock, overdue>>
  <2>1. UNCHANGED security
    BY <1>2, QuietSteps DEF Quietly
  <2> QED
    BY <1>1, <1>2, <2>1 DEF security, codes, clock
<1>3. CASE UNCHANGED all
  BY <1>1, <1>3 DEF all, vars, security, codes, clock
<1> QED
  BY <1>2, <1>3, DispatchKeepsClear, TickClears, NoTickCounts, PokeKeepsClear DEF FirmwareNext

(* A clear takes effect within the steps that one tick takes at most.      *)
THEOREM ClearsTakeEffect == FirmwareSpec => []ClearTakesEffect
<1>1. ClearInv => ClearTakesEffect
  <2> SUFFICES ASSUME ClearInv, NEW e \in Entry
               PROVE  overdue[e] <= T1Limit \div LoopDelta + 1
    BY DEF ClearTakesEffect
  <2> DEFINE q == T1Limit \div LoopDelta
             k == overdue[e] - 1
  <2>1. LoopDelta \in Nat \ {0} /\ T1Limit \in Nat
    BY FirmwareAssumption, SchedulerAssumption
  <2>2. q \in Nat /\ T1Limit < (q + 1) * LoopDelta
    BY <2>1
  <2>3. overdue[e] \in Nat /\ t1 \in 0 .. T1Limit /\ (overdue[e] > 0 => k * LoopDelta <= t1)
    BY DEF ClearInv, CondemnedCounts
  <2>4. k \in Int
    BY <2>3
  <2> HIDE DEF q, k
  <2>5. ASSUME overdue[e] > 0
        PROVE  k < q + 1
    <3>1. k * LoopDelta < (q + 1) * LoopDelta
      BY <2>1, <2>2, <2>3, <2>4, <2>5
    <3>2. \A x, y \in Int, d \in Nat \ {0} : x * d < y * d => x < y
      OBVIOUS
    <3> QED
      BY <2>1, <2>2, <2>4, <3>1, <3>2
  <2> QED
    BY <2>1, <2>2, <2>3, <2>5 DEF q, k
<1>2. FirmwareInit => ClearInv
  BY ClearInit
<1>3. ClearInv /\ [FirmwareNext]_all => ClearInv'
  BY ClearStep
<1> QED
  BY <1>1, <1>2, <1>3, PTL DEF FirmwareSpec

=============================================================================
