---------------------------- MODULE Elm327Proofs ----------------------------
(***************************************************************************)
(* The bridge, proved for all lines, all cuts and all noise. The link: the *)
(* types, the alignment of every frame, and that nothing but the request   *)
(* as it was sent is accepted. The text in front of it: the replies come   *)
(* in the order of the lines, each for its own.                            *)
(*                                                                         *)
(* Three facts carry the proofs. As long as no request was too long the    *)
(* receiver has taken exactly what was sent of the frame under way         *)
(* (InStep); a byte changed by noise changes the sum by something other    *)
(* than a multiple of 256, so the comparison of the checksums fails; and   *)
(* what lies in the buffer and on its way is the lines that the server has *)
(* not taken yet, one after the other (Waiting).                           *)
(***************************************************************************)
EXTENDS Elm327, MathLemmas

LEMMA Bytes ==
    /\ Byte \subseteq Int
    /\ \A n \in Int : n % 256 \in Byte
    /\ \A n \in 1 .. FrameMax : \h80 + n \in Byte /\ n + 4 \in 0 .. FrameMax + 4
    /\ \A n \in 1 .. FrameMax : n <= CodecMax => n \in 1 .. CodecMax
  BY DEF Byte, FrameMax, CodecMax

Body(p) == <<\h80 + Len(p), \h7A, \hF1>> \o p

LEMMA BodyFacts ==
    ASSUME NEW p \in Seq(Byte), Len(p) \in 1 .. FrameMax
    PROVE  /\ Body(p) \in Seq(Byte)
           /\ Len(Body(p)) = Len(p) + 3
           /\ Body(p)[1] = \h80 + Len(p)
           /\ \A i \in 1 .. Len(p) : Body(p)[i + 3] = p[i]
           /\ SumFunction(Body(p)) = SumFunctionOnSet(Body(p), 1 .. Len(p) + 3)
           /\ SumFunctionOnSet(Body(p), 1 .. Len(p) + 3) \in Int
<1> DEFINE b == Body(p)
           head == <<\h80 + Len(p), \h7A, \hF1>>
<1>1. head \in Seq(Byte) /\ Len(head) = 3
  <2>1. \h80 + Len(p) \in Byte /\ \h7A \in Byte /\ \hF1 \in Byte
    <3>1. \h7A \in Byte /\ \hF1 \in Byte
      BY DEF Byte
    <3>2. QED
      BY <3>1, Bytes
  <2>2. QED
    BY <2>1
<1>2. b \in Seq(Byte) /\ Len(b) = Len(p) + 3
  BY <1>1 DEF Body
<1>3. b[1] = \h80 + Len(p) /\ \A i \in 1 .. Len(p) : b[i + 3] = p[i]
  BY DEF Body
<1> HIDE DEF b
<1>4. DOMAIN b = 1 .. Len(p) + 3
  BY <1>2
<1>5. \A i \in 1 .. Len(p) + 3 : b[i] \in Int
  <2>1. \A i \in 1 .. Len(p) + 3 : b[i] \in Byte
    BY <1>2
  <2>2. QED
    BY <2>1, Bytes
<1>6. SumFunctionOnSet(b, 1 .. Len(p) + 3) \in Int
  <2>1. Len(p) + 3 \in Int /\ 1 <= Len(p) + 3
    OBVIOUS
  <2>2. QED
    BY <1>5, <2>1, SumUpTo
<1>7. QED
  BY <1>2, <1>3, <1>4, <1>6 DEF SumFunction, b

(* A frame is its body and the body's sum.                                 *)
LEMMA FrameFacts ==
    ASSUME NEW p \in Seq(Byte), Len(p) \in 1 .. FrameMax
    PROVE  /\ Frame(p) \in Seq(Byte)
           /\ Len(Frame(p)) = Len(p) + 4
           /\ Frame(p)[1] = \h80 + Len(p)
           /\ \A i \in 1 .. Len(p) : Frame(p)[i + 3] = p[i]
           /\ Frame(p)[Len(p) + 4] = SumFunctionOnSet(Frame(p), 1 .. Len(p) + 3) % 256
           /\ SumFunctionOnSet(Frame(p), 1 .. Len(p) + 3) \in Int
<1> DEFINE b == Body(p)
           s == SumFunction(b)
           n == Len(p) + 3
<1>1. /\ b \in Seq(Byte) /\ Len(b) = n /\ b[1] = \h80 + Len(p)
      /\ \A i \in 1 .. Len(p) : b[i + 3] = p[i]
      /\ s = SumFunctionOnSet(b, 1 .. n) /\ s \in Int
  BY BodyFacts
<1>2. Frame(p) = Append(b, s % 256)
  BY DEF Frame, Body
<1> HIDE DEF b, s
<1>3. s % 256 \in Byte
  BY <1>1, Bytes
<1>4. Frame(p) \in Seq(Byte) /\ Len(Frame(p)) = n + 1 /\ Frame(p)[n + 1] = s % 256
  BY <1>1, <1>2, <1>3
<1>5. \A i \in 1 .. n : Frame(p)[i] = b[i]
  BY <1>1, <1>2
<1>6. SumFunctionOnSet(Frame(p), 1 .. n) = s
  <2>1. IsFiniteSet(1 .. n)
    BY FS_Interval
  <2>2. \A i \in 1 .. n : Frame(p)[i] \in Int
    <3>1. \A i \in 1 .. n : b[i] \in Byte
      BY <1>1
    <3>2. QED
      BY <1>5, <3>1, Bytes
  <2>3. QED
    BY SMTT(30), <1>1, <1>5, <2>1, <2>2, SumSame
<1>7. QED
  BY <1>1, <1>4, <1>5, <1>6

LEMMA SentIsPayload ==
    ASSUME NEW p \in Seq(Byte), Len(p) \in 1 .. FrameMax, frame = Frame(p)
    PROVE  Sent = p
<1>1. frame \in Seq(Byte) /\ Len(frame) = Len(p) + 4 /\ \A i \in 1 .. Len(p) : frame[i + 3] = p[i]
  BY FrameFacts
<1>2. Sent \in Seq(Byte) /\ Len(Sent) = Len(p) /\ \A i \in 1 .. Len(p) : Sent[i] = frame[i + 3]
  BY <1>1 DEF Sent
<1>3. QED
  BY <1>1, <1>2

-----------------------------------------------------------------------------
(* The receiver's place in a frame stays inside what its length promises,  *)
(* so that the next byte has a slot.                                       *)
LinkTypes ==
    /\ frame = <<>> \/ \E p \in Payloads : frame = Frame(p)
    /\ pos \in 0 .. Len(frame) /\ flipped \in BOOLEAN
    /\ buf \in [Slots -> Byte] /\ len \in 0 .. CodecMax
    /\ count \in Slots /\ (count # 0 => len # 0 /\ count < len + 4)
    /\ accepted \in Seq(Seq(Byte)) /\ \A i \in 1 .. Len(accepted) : Len(accepted[i]) \in 1 .. CodecMax
    /\ long \in 0 .. MaxLong

(* Without long requests the receiver is at the byte that the bridge sends *)
(* next, has what was sent, and at most one byte of it was changed.        *)
InStep(p) ==
    /\ frame = Frame(p) /\ Len(p) <= CodecMax
    /\ count = IF pos = Len(frame) THEN 0 ELSE pos
    /\ pos # 0 => len = Len(p)
    /\ pos = 0 => ~flipped
    /\ ~flipped => \A i \in 1 .. pos : buf[i - 1] = frame[i]
    /\ flipped => \E j \in 2 .. pos : /\ buf[j - 1] # frame[j]
                                      /\ \A i \in 1 .. pos : i # j => buf[i - 1] = frame[i]
    /\ accepted = IF pos = Len(frame) /\ ~flipped THEN <<p>> ELSE <<>>

Synchronised ==
    long = 0 => IF Sending THEN \E p \in Payloads : InStep(p) ELSE count = 0 /\ pos = 0

Inv == LinkTypes /\ Synchronised

LEMMA PayloadFrames ==
    ASSUME NEW p \in Payloads
    PROVE  /\ p \in Seq(Byte) /\ Len(p) \in 1 .. FrameMax
           /\ Frame(p) \in Seq(Byte) /\ Len(Frame(p)) = Len(p) + 4
           /\ Frame(p)[1] = \h80 + Len(p)
  BY LinkAssumption, FrameFacts

LEMMA FrameBytes ==
    ASSUME LinkTypes
    PROVE  frame \in Seq(Byte) /\ Len(frame) \in 0 .. FrameMax + 4
<1>1. CASE frame = <<>>
  BY <1>1 DEF FrameMax
<1>2. ASSUME NEW p \in Payloads, frame = Frame(p) PROVE frame \in Seq(Byte) /\ Len(frame) \in 0 .. FrameMax + 4
  <2>1. frame \in Seq(Byte) /\ Len(frame) = Len(p) + 4 /\ Len(p) \in 1 .. FrameMax
    BY <1>2, PayloadFrames
  <2>2. QED
    BY <2>1, Bytes
<1>3. QED
  BY <1>1, <1>2 DEF LinkTypes

(* The length that a byte declares, of any byte and of an FMT byte.        *)
LEMMA Lengths ==
    /\ \A b \in Byte : Length(b) \in 1 .. CodecMax
    /\ \A n \in 1 .. CodecMax : Length(\h80 + n) = n
  BY DEF Byte, Length, CodecMax

(* One byte, whatever it is.                                               *)
LEMMA ReceiveTypes ==
    ASSUME LinkTypes, NEW b \in Byte, Receive(b)
    PROVE  /\ buf' \in [Slots -> Byte] /\ len' \in 0 .. CodecMax
           /\ count' \in Slots /\ (count' # 0 => len' # 0 /\ count' < len' + 4)
           /\ accepted' \in Seq(Seq(Byte))
           /\ \A i \in 1 .. Len(accepted') : Len(accepted'[i]) \in 1 .. CodecMax
<1> DEFINE size == IF count = 0 THEN Length(b) ELSE len
           filled == [buf EXCEPT ![count] = b]
           taken == [i \in 1 .. size |-> filled[i + 2]]
<1>1. size \in 1 .. CodecMax /\ count < size + 4 /\ count \in Slots
  <2>1. Length(b) \in 1 .. CodecMax
    BY Lengths
  <2>2. QED
    BY SMTT(30), <2>1 DEF LinkTypes, CodecMax, Slots
<1>2. filled \in [Slots -> Byte]
  BY DEF LinkTypes
<1>3. buf' = filled /\ len' = size
  BY DEF Receive
<1>4. count' = IF count + 1 = size + 4 THEN 0 ELSE count + 1
  BY DEF Receive
<1>5. accepted' \in {accepted, Append(accepted, taken)}
  BY DEF Receive
<1> HIDE DEF size, filled
<1>6. taken \in Seq(Byte) /\ Len(taken) = size
  <2>1. \A i \in 1 .. size : i + 2 \in Slots
    BY <1>1 DEF Slots, CodecMax
  <2>2. \A i \in 1 .. size : filled[i + 2] \in Byte
    BY <1>2, <2>1
  <2>3. QED
    BY <1>1, <2>2
<1> HIDE DEF taken
<1>7. count' \in Slots /\ (count' # 0 => len' # 0 /\ count' < len' + 4)
  BY <1>1, <1>3, <1>4 DEF Slots, CodecMax
<1>8. accepted \in Seq(Seq(Byte)) /\ \A i \in 1 .. Len(accepted) : Len(accepted[i]) \in 1 .. CodecMax
  BY DEF LinkTypes
<1>9. CASE accepted' = Append(accepted, taken)
  <2>1. accepted' \in Seq(Seq(Byte)) /\ Len(accepted') = Len(accepted) + 1
    BY <1>6, <1>8, <1>9
  <2>2. \A i \in 1 .. Len(accepted') : accepted'[i] = IF i <= Len(accepted) THEN accepted[i] ELSE taken
    BY <1>6, <1>8, <1>9
  <2>3. \A i \in 1 .. Len(accepted') : Len(accepted'[i]) \in 1 .. CodecMax
    <3> SUFFICES ASSUME NEW i \in 1 .. Len(accepted') PROVE Len(accepted'[i]) \in 1 .. CodecMax
      OBVIOUS
    <3>1. CASE i <= Len(accepted)
      BY <1>8, <2>2, <3>1
    <3>2. CASE ~(i <= Len(accepted))
      BY <1>1, <1>6, <2>2, <3>2
    <3>3. QED
      BY <3>1, <3>2
  <2>4. QED
    BY <1>1, <1>2, <1>3, <1>7, <2>1, <2>3
<1>10. CASE accepted' = accepted
  BY <1>1, <1>2, <1>3, <1>7, <1>8, <1>10
<1>11. QED
  BY <1>5, <1>9, <1>10

LEMMA TypesStep == ASSUME LinkTypes, [Next]_vars PROVE LinkTypes'
<1>1. ASSUME NEW p \in Payloads, Request(p) PROVE LinkTypes'
  <2>1. frame' = Frame(p) /\ pos' = 0 /\ flipped' = FALSE /\ accepted' = <<>> /\ UNCHANGED receiver
    BY <1>1 DEF Request
  <2>2. long' \in 0 .. MaxLong
    BY <1>1, LinkAssumption DEF Request, LinkTypes
  <2>3. Len(frame') \in Nat
    BY <2>1, PayloadFrames
  <2>4. accepted' \in Seq(Seq(Byte)) /\ Len(accepted') = 0
    BY <2>1
  <2>5. pos' \in 0 .. Len(frame') /\ flipped' \in BOOLEAN
    <3>1. \A n \in Nat : 0 \in 0 .. n
      OBVIOUS
    <3>2. QED
      BY <2>1, <2>3, <3>1
  <2>6. QED
    BY <2>1, <2>2, <2>4, <2>5 DEF LinkTypes, receiver
<1>2. ASSUME NEW b \in Byte, Receive(b), pos < Len(frame), pos' = pos + 1,
             flipped' \in BOOLEAN, UNCHANGED <<frame, long>>
      PROVE  LinkTypes'
  <2>1. Len(frame) \in Nat
    BY FrameBytes
  <2>2. pos' \in 0 .. Len(frame')
    BY <1>2, <2>1 DEF LinkTypes
  <2>3. QED
    BY <1>2, <2>2, ReceiveTypes DEF LinkTypes
<1>3. CASE Send
  <2>1. frame[pos + 1] \in Byte
    BY <1>3, FrameBytes DEF Send, LinkTypes
  <2>2. QED
    BY <1>2, <1>3, <2>1 DEF Send, LinkTypes
<1>4. ASSUME NEW d \in Flips, SendFlipped(d) PROVE LinkTypes'
  <2>1. frame[pos + 1] \in Byte /\ d \in Int
    <3>1. Flips \subseteq Int
      BY LinkAssumption
    <3>2. QED
      BY <1>4, <3>1, FrameBytes DEF SendFlipped, LinkTypes
  <2>2. (frame[pos + 1] + d) % 256 \in Byte
    <3>1. \A x \in Byte : x \in Int
      BY Bytes
    <3>2. frame[pos + 1] + d \in Int
      BY <2>1, <3>1
    <3>3. QED
      BY <3>2, Bytes
  <2>3. QED
    BY <1>2, <1>4, <2>2 DEF SendFlipped
<1>5. CASE Finish
  BY <1>5 DEF Finish, LinkTypes, receiver
<1>6. CASE UNCHANGED vars
  BY <1>6 DEF vars, LinkTypes, receiver
<1>7. QED
  BY <1>1, <1>3, <1>4, <1>5, <1>6 DEF Next

-----------------------------------------------------------------------------
(* The checksum over a frame as it was sent, and with one byte changed.    *)
LEMMA WholeMatches ==
    ASSUME NEW p \in Payloads, NEW b, \A i \in 1 .. Len(p) + 4 : b[i - 1] = Frame(p)[i]
    PROVE  Matches(b, Len(p) + 4)
<1> DEFINE f == Frame(p)
           m == Len(p) + 3
           s == SumFunctionOnSet(f, 1 .. m)
<1>1. /\ m \in Nat /\ f \in Seq(Byte) /\ Len(f) = m + 1
      /\ f[m + 1] = s % 256
  BY LinkAssumption, FrameFacts
<1>2. SumFunctionOnSet(b, 0 .. m - 1) = s
  <2>1. \A i \in 1 .. m : f[i] \in Byte /\ b[i - 1] = f[i]
    BY <1>1
  <2>2. \A i \in 1 .. m : f[i] \in Int /\ b[i - 1] = f[i]
    BY <2>1, Bytes
  <2> HIDE DEF f, m
  <2>3. QED
    BY ZenonT(30), <1>1, <2>2, SumShifted
<1>3. b[m] = f[m + 1]
  BY <1>1, (m + 1) - 1 = m
<1> HIDE DEF f, s
<1>4. m + 1 - 2 = m - 1 /\ m + 1 - 1 = m /\ Len(p) + 4 = m + 1
  BY LinkAssumption
<1>5. Matches(b, m + 1)
  BY <1>1, <1>2, <1>3, <1>4 DEF Matches
<1>6. QED
  BY <1>4, <1>5

LEMMA OtherRemainder ==
    \A s \in Int : \A x, y \in Byte : x # y => (x + (s - y)) % 256 # s % 256
  BY SMTT(30) DEF Byte

LEMMA OneByteChangesSum ==
    ASSUME NEW f, NEW b, NEW S, IsFiniteSet(S), NEW k \in S,
           \A i \in S : f[i] \in Byte /\ b[i] \in Byte,
           \A i \in S \ {k} : b[i] = f[i]
    PROVE  SumFunctionOnSet(b, S) = b[k] + (SumFunctionOnSet(f, S) - f[k])
<1> DEFINE T == S \ {k}
           r == SumFunctionOnSet(b, T)
           s == SumFunctionOnSet(f, S)
<1>1. \A i \in S : f[i] \in Int /\ b[i] \in Int
  BY Bytes
<1>2. SumFunctionOnSet(b, S) = b[k] + r
  BY <1>1, SumByOne
<1>3. s = f[k] + SumFunctionOnSet(f, T) /\ s \in Int
  BY <1>1, SumByOne
<1>4. IsFiniteSet(T) /\ \A i \in T : i \in S
  BY FS_RemoveElement
<1> HIDE DEF T
<1>5. r \in Int
  BY <1>1, <1>4, SumByOne
<1>6. r = SumFunctionOnSet(f, T)
  BY <1>1, <1>4, SumSame DEF T
<1> HIDE DEF r, s
<1>7. r = s - f[k]
  BY <1>1, <1>3, <1>5, <1>6
<1>8. QED
  BY <1>2, <1>7 DEF s

LEMMA NoiseNeverMatches ==
    ASSUME NEW p \in Payloads, NEW b, NEW j \in 2 .. Len(p) + 4,
           \A i \in 1 .. Len(p) + 4 : b[i - 1] \in Byte,
           b[j - 1] # Frame(p)[j],
           \A i \in 1 .. Len(p) + 4 : i # j => b[i - 1] = Frame(p)[i]
    PROVE  ~Matches(b, Len(p) + 4)
<1>1. PICK m \in Nat : m = Len(p) + 3
  BY LinkAssumption
<1>2. PICK f : f = Frame(p)
  OBVIOUS
<1>3. PICK s \in Int : s = SumFunctionOnSet(f, 1 .. m)
  BY <1>1, <1>2, LinkAssumption, FrameFacts
<1>4. f[m + 1] = s % 256 /\ f \in Seq(Byte) /\ Len(f) = m + 1
  <2>1. p \in Seq(Byte) /\ Len(p) \in 1 .. FrameMax /\ Len(p) + 4 = m + 1
    BY <1>1, LinkAssumption
  <2>2. QED
    BY <1>1, <1>2, <1>3, <2>1, FrameFacts
<1> DEFINE g == [i \in 0 .. m |-> f[i + 1]]
           S == 0 .. m - 1
<1>5. \A i \in 0 .. m : b[i] \in Byte /\ g[i] \in Byte /\ (i # j - 1 => b[i] = g[i])
  <2> SUFFICES ASSUME NEW i \in 0 .. m
               PROVE  b[i] \in Byte /\ g[i] \in Byte /\ (i # j - 1 => b[i] = g[i])
    OBVIOUS
  <2>1. i + 1 \in 1 .. Len(p) + 4 /\ i + 1 \in 1 .. Len(f) /\ (i + 1) - 1 = i
    BY <1>1, <1>4, LinkAssumption
  <2>2. i # j - 1 => i + 1 # j
    BY <2>1
  <2>3. QED
    BY <1>2, <1>4, <2>1, <2>2
<1>6. PICK k : k \in 0 .. m /\ k = j - 1 /\ b[k] # g[k]
  <2>1. j - 1 \in 0 .. m /\ (j - 1) + 1 = j
    BY <1>1, LinkAssumption
  <2>2. QED
    BY <1>2, <2>1
<1>7. SumFunctionOnSet(g, S) = s
  <2>1. \A i \in 1 .. m : i - 1 \in 0 .. m /\ i \in 1 .. m + 1 /\ (i - 1) + 1 = i
    BY <1>1
  <2>2. \A i \in 1 .. m : f[i] \in Byte
    BY <1>4, <2>1
  <2>3. \A i \in 1 .. m : f[i] \in Int /\ g[i - 1] = f[i]
    BY <2>1, <2>2, Bytes
  <2> HIDE DEF g
  <2>4. QED
    BY <1>3, <2>3, SumShifted
<1>8. Matches(b, Len(p) + 4) <=> SumFunctionOnSet(b, S) % 256 = b[m]
  <2>1. Len(p) + 4 - 2 = m - 1 /\ Len(p) + 4 - 1 = m
    BY <1>1, LinkAssumption
  <2>2. QED
    BY <2>1 DEF Matches
<1>9. IsFiniteSet(S) /\ S \subseteq 0 .. m
  <2>1. m - 1 \in Int /\ 0 \in Int
    OBVIOUS
  <2>2. IsFiniteSet(S)
    BY <2>1, FS_Interval
  <2>3. QED
    BY <2>2
<1>10. g[m] = s % 256
  BY <1>4
<1> HIDE DEF g
<1>11. CASE k = m
  <2>1. \A i \in S : b[i] \in Int /\ b[i] = g[i]
    <3>1. \A i \in S : i # m
      OBVIOUS
    <3>2. QED
      BY <1>5, <1>6, <1>9, <1>11, <3>1, Bytes
  <2>2. SumFunctionOnSet(b, S) = s
    BY <1>7, <1>9, <2>1, SumSame
  <2>3. QED
    BY <1>6, <1>8, <1>10, <1>11, <2>2
<1>12. CASE k # m
  <2>1. k \in S /\ m \in 0 .. m
    BY <1>6, <1>12
  <2> HIDE DEF S
  <2>2. SumFunctionOnSet(b, S) % 256 # s % 256
    <3>1. \A i \in S : g[i] \in Byte /\ b[i] \in Byte
      BY <1>5, <1>9
    <3>2. \A i \in S \ {k} : b[i] = g[i]
      BY <1>5, <1>6, <1>9
    <3>3. IsFiniteSet(S) /\ k \in S /\ b[k] # g[k]
      BY <1>6, <1>9, <2>1
    <3>4. SumFunctionOnSet(b, S) = b[k] + (SumFunctionOnSet(g, S) - g[k])
      BY <3>1, <3>2, <3>3, OneByteChangesSum
    <3>5. PICK x \in Byte, y \in Byte : x = b[k] /\ y = g[k]
      BY <3>1, <3>3
    <3>6. x # y
      BY <3>3, <3>5
    <3>7. (x + (s - y)) % 256 # s % 256
      BY ZenonT(30), <3>6, OtherRemainder
    <3>8. QED
      BY <1>7, <3>4, <3>5, <3>7
  <2>3. b[m] = s % 256
    BY <1>5, <1>6, <1>10, <1>12, <2>1
  <2>4. QED
    BY <1>8, <2>2, <2>3
<1>13. QED
  BY <1>11, <1>12

-----------------------------------------------------------------------------
(* One byte of a request: as it was sent, or changed by the noise.         *)
AsSent(b) == b = frame[pos + 1] /\ flipped' = flipped
Changed(b) == 0 < pos /\ ~flipped /\ b # frame[pos + 1] /\ flipped' = TRUE

LEMMA ByteInStep ==
    ASSUME LinkTypes, NEW p \in Payloads, InStep(p), NEW b \in Byte, Receive(b),
           pos < Len(frame), pos' = pos + 1, UNCHANGED frame, AsSent(b) \/ Changed(b)
    PROVE  InStep(p)'
<1>0. PICK L \in 1 .. CodecMax : L = Len(p)
  BY LinkAssumption, Bytes DEF InStep
<1> DEFINE filled == [buf EXCEPT ![pos] = b]
           taken == [i \in 1 .. L |-> filled[i + 2]]
<1>1. /\ p \in Seq(Byte)
      /\ frame = Frame(p) /\ frame \in Seq(Byte) /\ Len(frame) = L + 4
      /\ frame[1] = \h80 + L /\ \A i \in 1 .. L : frame[i + 3] = p[i]
  BY SMTT(30), <1>0, LinkAssumption, FrameFacts DEF InStep
<1>2. pos \in 0 .. L + 3 /\ pos \in Slots /\ count = pos
  <2>1. pos \in 0 .. Len(frame) /\ count = IF pos = Len(frame) THEN 0 ELSE pos
    BY DEF LinkTypes, InStep
  <2>2. pos \in 0 .. L + 3 /\ count = pos
    BY <1>1, <2>1
  <2>3. QED
    BY <2>2 DEF CodecMax, Slots
<1>3. buf \in [Slots -> Byte] /\ flipped \in BOOLEAN
  BY DEF LinkTypes
<1>4. (IF count = 0 THEN Length(b) ELSE len) = L
  <2>1. CASE pos = 0
    <3>1. b = \h80 + L
      BY <1>1, <2>1 DEF AsSent, Changed
    <3>2. QED
      BY <1>1, <1>2, <2>1, <3>1, Lengths
  <2>2. CASE pos # 0
    BY <1>0, <1>2, <2>2 DEF InStep
  <2>3. QED
    BY <2>1, <2>2
<1>5. /\ buf' = filled /\ len' = L
      /\ count' = IF pos + 1 = L + 4 THEN 0 ELSE pos + 1
      /\ accepted' = IF pos + 1 = L + 4 /\ Matches(filled, L + 4)
                     THEN Append(accepted, taken) ELSE accepted
  <2> DEFINE size == IF count = 0 THEN Length(b) ELSE len
             full == [buf EXCEPT ![count] = b]
  <2>1. /\ buf' = full /\ len' = size
        /\ count' = IF count + 1 = size + 4 THEN 0 ELSE count + 1
        /\ accepted' = IF count + 1 = size + 4 /\ Matches(full, size + 4)
                       THEN Append(accepted, [i \in 1 .. size |-> full[i + 2]]) ELSE accepted
    BY DEF Receive
  <2>2. size = L /\ full = filled
    BY <1>2, <1>4
  <2> HIDE DEF size, full, filled
  <2>3. QED
    BY <1>2, <2>1, <2>2
<1>6. accepted = <<>>
  BY <1>1, <1>2 DEF InStep
<1> HIDE DEF taken
<1>7. filled \in [Slots -> Byte] /\ filled[pos] = b
      /\ \A i \in Slots : i # pos => filled[i] = buf[i]
  BY <1>2, <1>3
<1> HIDE DEF filled
<1>8. \A i \in 1 .. pos : i - 1 \in Slots /\ i - 1 # pos /\ filled[i - 1] = buf[i - 1]
  <2>1. \A i \in 1 .. pos : i - 1 \in Slots /\ i - 1 # pos
    BY <1>2 DEF Slots
  <2>2. QED
    BY <1>7, <2>1
<1>9. \A i \in 1 .. pos + 1 : i = pos + 1 \/ i \in 1 .. pos
  BY <1>2
<1>10. (pos + 1) - 1 = pos /\ pos + 1 \in 1 .. L + 4
  BY <1>1, <1>2
<1>11. ~flipped' => \A i \in 1 .. pos + 1 : filled[i - 1] = frame[i]
  BY <1>7, <1>8, <1>9, <1>10 DEF InStep, AsSent, Changed
<1>12. flipped' => \E j \in 2 .. pos + 1 :
                       /\ filled[j - 1] # frame[j]
                       /\ \A i \in 1 .. pos + 1 : i # j => filled[i - 1] = frame[i]
  <2>1. CASE AsSent(b) /\ flipped
    <3>1. PICK j \in 2 .. pos : /\ buf[j - 1] # frame[j]
                                /\ \A i \in 1 .. pos : i # j => buf[i - 1] = frame[i]
      BY <2>1 DEF InStep
    <3>2. j \in 2 .. pos + 1 /\ j \in 1 .. pos
      BY <1>2
    <3>3. filled[j - 1] # frame[j]
      BY <1>8, <3>1, <3>2
    <3>4. \A i \in 1 .. pos + 1 : i # j => filled[i - 1] = frame[i]
      <4>1. \A i \in 1 .. pos : i # j => filled[i - 1] = frame[i]
        BY <1>8, <3>1
      <4>2. filled[(pos + 1) - 1] = frame[pos + 1]
        BY <1>7, <1>10, <2>1 DEF AsSent
      <4>3. QED
        BY <1>9, <4>1, <4>2
    <3>5. QED
      BY <3>2, <3>3, <3>4
  <2>2. CASE Changed(b)
    <3>1. pos + 1 \in 2 .. pos + 1
      BY <1>2, <2>2 DEF Changed
    <3>2. \A i \in 1 .. pos : filled[i - 1] = frame[i]
      BY <1>8, <2>2 DEF InStep, Changed
    <3>3. filled[(pos + 1) - 1] # frame[pos + 1]
      BY <1>7, <1>10, <2>2 DEF Changed
    <3>4. QED
      BY <1>9, <3>1, <3>2, <3>3
  <2>3. QED
    BY <2>1, <2>2 DEF AsSent
<1>13. flipped' \in BOOLEAN
  BY <1>3 DEF AsSent, Changed
<1>14. accepted' = IF pos + 1 = L + 4 /\ ~flipped' THEN <<p>> ELSE <<>>
  <2>1. CASE pos + 1 # L + 4
    BY <1>5, <1>6, <2>1
  <2>2. CASE pos + 1 = L + 4 /\ ~flipped'
    <3>1. \A i \in 1 .. L + 4 : filled[i - 1] = Frame(p)[i]
      BY <1>1, <1>11, <2>2
    <3>2. Matches(filled, L + 4)
      BY <3>1, <1>0, WholeMatches
    <3>3. taken = p
      <4>1. \A i \in 1 .. L : i + 3 \in 1 .. L + 4 /\ (i + 3) - 1 = i + 2
        BY <1>1
      <4>2. \A i \in 1 .. L : filled[i + 2] = p[i]
        BY SMTT(30), <1>1, <3>1, <4>1
      <4>3. p = [i \in 1 .. L |-> p[i]]
        BY <1>0, <1>1
      <4>4. QED
        BY <4>2, <4>3 DEF taken
    <3>4. QED
      BY <1>5, <1>6, <2>2, <3>2, <3>3
  <2>3. CASE pos + 1 = L + 4 /\ flipped'
    <3>1. PICK j \in 2 .. L + 4 : /\ filled[j - 1] # Frame(p)[j]
                                  /\ \A i \in 1 .. L + 4 : i # j => filled[i - 1] = Frame(p)[i]
      BY <1>1, <1>12, <2>3
    <3>2. \A i \in 1 .. L + 4 : filled[i - 1] \in Byte
      <4>1. \A i \in 1 .. L + 4 : i - 1 \in Slots
        BY <1>1 DEF Slots, CodecMax
      <4>2. QED
        BY <1>7, <4>1
    <3>3. ~Matches(filled, L + 4)
      BY <3>1, <3>2, <1>0, NoiseNeverMatches
    <3>4. QED
      BY <1>5, <1>6, <2>3, <3>3
  <2>4. QED
    BY <1>13, <2>1, <2>2, <2>3
<1>15. /\ frame' = Frame(p) /\ Len(p) <= CodecMax /\ Len(frame') = L + 4
       /\ pos' # 0 /\ buf' = filled /\ len' = Len(p) /\ pos' = pos + 1
  BY <1>0, <1>1, <1>2, <1>5 DEF InStep
<1> HIDE DEF filled
<1>16. QED
  BY ZenonT(30), <1>5, <1>11, <1>12, <1>14, <1>15 DEF InStep

LEMMA NoiseChanges ==
    \A x \in Byte : \A d \in Flips : (x + d) % 256 \in Byte /\ (x + d) % 256 # x
<1>1. \A x \in 0 .. 255 : \A d \in 1 .. 255 : (x + d) % 256 \in 0 .. 255 /\ (x + d) % 256 # x
  <2> SUFFICES ASSUME NEW x \in 0 .. 255, NEW d \in 1 .. 255
               PROVE  (x + d) % 256 \in 0 .. 255 /\ (x + d) % 256 # x
    OBVIOUS
  <2>1. (x + d) % 256 = IF x + d < 256 THEN x + d ELSE x + d - 256
    OBVIOUS
  <2>2. QED
    BY <2>1
<1>2. QED
  BY ZenonT(30), <1>1, LinkAssumption DEF Byte

LEMMA SynchronisedStep == ASSUME LinkTypes, Synchronised, [Next]_vars PROVE Synchronised'
<1> SUFFICES ASSUME long' = 0
             PROVE  IF Sending' THEN \E p \in Payloads : InStep(p)' ELSE count' = 0 /\ pos' = 0
  BY DEF Synchronised
<1>1. ASSUME NEW p \in Payloads, Request(p) PROVE Sending' /\ InStep(p)'
  <2>1. Len(p) <= CodecMax /\ long = 0
    <3>1. Len(p) \in Int /\ long \in Nat
      BY LinkAssumption DEF LinkTypes
    <3>2. QED
      BY <1>1, <3>1 DEF Request, CodecMax
  <2>2. count = 0
    BY <1>1, <2>1 DEF Request, Synchronised, Sending
  <2>3. /\ frame' = Frame(p) /\ pos' = 0 /\ ~flipped' /\ accepted' = <<>>
        /\ count' = 0
    BY <1>1, <2>2 DEF Request, receiver
  <2>4. Len(frame') # 0
    <3>1. Len(p) \in 1 .. FrameMax /\ Len(Frame(p)) = Len(p) + 4
      BY PayloadFrames
    <3>2. QED
      BY <2>3, <3>1
  <2>5. frame' # <<>>
    BY <2>4
  <2>6. QED
    BY <2>1, <2>3, <2>4, <2>5 DEF InStep, Sending
<1>2. ASSUME NEW b \in Byte, Receive(b), pos < Len(frame), pos' = pos + 1,
             UNCHANGED <<frame, long>>, AsSent(b) \/ Changed(b)
      PROVE  Sending' /\ \E p \in Payloads : InStep(p)'
  <2>1. Sending
    BY <1>2 DEF Sending, LinkTypes
  <2>2. PICK p \in Payloads : InStep(p)
    BY <1>2, <2>1 DEF Synchronised
  <2>3. InStep(p)'
    BY <1>2, <2>2, ByteInStep
  <2>4. QED
    BY <1>2, <2>1, <2>3 DEF Sending
<1>3. CASE Send
  <2>1. frame[pos + 1] \in Byte
    BY <1>3, FrameBytes DEF Send, LinkTypes
  <2>2. QED
    BY <1>2, <1>3, <2>1 DEF Send, AsSent
<1>4. ASSUME NEW d \in Flips, SendFlipped(d) PROVE Sending' /\ \E p \in Payloads : InStep(p)'
  <2>1. frame[pos + 1] \in Byte
    BY <1>4, FrameBytes DEF SendFlipped, LinkTypes
  <2>2. \A x \in Byte : (x + d) % 256 \in Byte /\ (x + d) % 256 # x
    BY NoiseChanges
  <2>3. (frame[pos + 1] + d) % 256 \in Byte /\ Changed((frame[pos + 1] + d) % 256)
    BY <1>4, <2>1, <2>2 DEF SendFlipped, Changed
  <2>4. QED
    BY <1>2, <1>4, <2>3 DEF SendFlipped
<1>5. CASE Finish
  <2>1. count = 0 /\ pos' = 0 /\ ~Sending' /\ count' = count
    BY <1>5 DEF Finish, Synchronised, Sending, InStep, receiver
  <2>2. QED
    BY <2>1
<1>6. CASE UNCHANGED vars
  BY <1>6 DEF vars, receiver, Synchronised, Sending, InStep
<1>7. QED
  BY <1>1, <1>3, <1>4, <1>5, <1>6 DEF Next

LEMMA LinkInductive == (Init => Inv) /\ (Inv /\ [Next]_vars => Inv')
<1>1. Init => Inv
  <2> SUFFICES ASSUME Init PROVE Inv
    OBVIOUS
  <2>1. LinkTypes
    <3>1. accepted \in Seq(Seq(Byte)) /\ Len(accepted) = 0
      BY DEF Init
    <3>2. 0 \in Slots /\ 0 \in Byte /\ 0 \in 0 .. CodecMax /\ 0 \in 0 .. MaxLong /\ 0 \in 0 .. Len(<<>>)
      BY LinkAssumption DEF Slots, Byte, CodecMax
    <3>3. buf \in [Slots -> Byte]
      BY <3>2 DEF Init
    <3>4. QED
      BY <3>1, <3>2, <3>3 DEF Init, LinkTypes
  <2>2. Synchronised
    BY DEF Init, Synchronised, Sending
  <2>3. QED
    BY <2>1, <2>2 DEF Inv
<1>2. Inv /\ [Next]_vars => Inv'
  BY TypesStep, SynchronisedStep DEF Inv
<1>3. QED
  BY <1>1, <1>2

LEMMA InvariantHolds == Spec => []Inv
  BY LinkInductive, PTL DEF Spec

LEMMA InvTypeOK == Inv => TypeOK
<1> SUFFICES ASSUME LinkTypes PROVE TypeOK
  BY DEF Inv
<1>1. frame \in Seq(Byte) /\ pos \in 0 .. FrameMax + 4
  <2>1. frame \in Seq(Byte) /\ Len(frame) \in 0 .. FrameMax + 4 /\ pos \in 0 .. Len(frame)
    BY FrameBytes DEF LinkTypes
  <2>2. \A n \in 0 .. FrameMax + 4 : 0 .. n \subseteq 0 .. FrameMax + 4
    BY DEF FrameMax
  <2>3. QED
    BY <2>1, <2>2
<1>2. \A i \in DOMAIN accepted : Len(accepted[i]) \in 1 .. CodecMax
  BY DEF LinkTypes
<1>3. QED
  BY <1>1, <1>2 DEF LinkTypes, TypeOK

LEMMA InvAligned == Inv => Aligned
<1> SUFFICES ASSUME Inv, long = 0, ~Sending \/ pos = 0 PROVE count = 0
  BY DEF Aligned
<1>1. CASE ~Sending
  BY <1>1 DEF Inv, Synchronised
<1>2. CASE Sending /\ pos = 0
  BY <1>2 DEF Inv, Synchronised, InStep
<1>3. QED
  BY <1>1, <1>2

LEMMA InvAccepted == Inv => NothingElseAccepted
<1> SUFFICES ASSUME Inv, long = 0, Sending
             PROVE  /\ accepted # <<>> => accepted = <<Sent>> /\ pos = Len(frame) /\ ~flipped
                    /\ pos = Len(frame) /\ ~flipped => accepted = <<Sent>>
  BY DEF NothingElseAccepted
<1>1. PICK p \in Payloads : InStep(p)
  BY DEF Inv, Synchronised
<1>2. Sent = p
  BY <1>1, LinkAssumption, SentIsPayload DEF InStep
<1>3. QED
  BY <1>1, <1>2 DEF InStep

(* The receiver's buffer, count and length stay in range for every byte,   *)
(* that of a frame longer than it takes included (01_frame_codec.asm,      *)
(* F_FRAME_RX).                                                            *)
THEOREM LinkTypeCorrect == Spec => []TypeOK
  BY InvTypeOK, InvariantHolds, PTL

(* While no request is too long, every frame begins at RX_COUNT = 0,       *)
(* whatever lengths and whatever noise there was before                    *)
(* (01_frame_codec.asm, F_FRAME_RX, against _frame of bridge_min.py).      *)
THEOREM FramesAligned == Spec => []Aligned
  BY InvAligned, InvariantHolds, PTL

(* While no request is too long, the dispatcher gets each request as it    *)
(* was sent, and a frame with a byte changed by noise never                *)
(* (01_frame_codec.asm, the comparison of the checksums).                  *)
THEOREM OnlyTheRequestAccepted == Spec => []NothingElseAccepted
  BY InvAccepted, InvariantHolds, PTL

-----------------------------------------------------------------------------
(* Counting the members of a set up to a number: a line's turn.            *)
CountTo(D, i) == Cardinality({ j \in D : j <= i })

LEMMA CountFacts ==
    ASSUME NEW n \in Nat, NEW D \in SUBSET (1 .. n)
    PROVE  /\ \A i \in Nat : /\ CountTo(D, i) \in Nat
                            /\ CountTo(D, i + 1) = CountTo(D, i) + (IF i + 1 \in D THEN 1 ELSE 0)
           /\ CountTo(D, 0) = 0
           /\ CountTo(D, n) = Cardinality(D)
           /\ \A i, j \in Nat : i <= j => CountTo(D, i) <= CountTo(D, j)
<1> DEFINE S(i) == { j \in D : j <= i }
<1>1. IsFiniteSet(D) /\ \A j \in D : j \in Nat
  <2>1. IsFiniteSet(1 .. n)
    BY FS_Interval
  <2>2. D \subseteq 1 .. n
    OBVIOUS
  <2>3. IsFiniteSet(D)
    BY <2>1, <2>2, FS_Subset
  <2>4. QED
    BY <2>2, <2>3
<1>2. \A i \in Nat : IsFiniteSet(S(i)) /\ Cardinality(S(i)) \in Nat
  <2> SUFFICES ASSUME NEW i \in Nat PROVE IsFiniteSet(S(i)) /\ Cardinality(S(i)) \in Nat
    OBVIOUS
  <2>1. S(i) \subseteq D
    OBVIOUS
  <2> HIDE DEF S
  <2>2. QED
    BY <1>1, <2>1, FS_Subset, FS_CardinalityType
<1>3. ASSUME NEW i \in Nat
      PROVE  Cardinality(S(i + 1)) = Cardinality(S(i)) + (IF i + 1 \in D THEN 1 ELSE 0)
  <2>1. CASE i + 1 \in D
    <3>1. S(i + 1) = S(i) \cup {i + 1} /\ i + 1 \notin S(i)
      <4>1. \A j \in D : (j <= i + 1 <=> j <= i \/ j = i + 1) /\ ~(i + 1 <= i)
        BY <1>1
      <4>2. QED
        BY <2>1, <4>1
    <3> HIDE DEF S
    <3>2. QED
      BY <1>2, <2>1, <3>1, FS_AddElement
  <2>2. CASE i + 1 \notin D
    <3>1. S(i + 1) = S(i)
      <4>1. \A j \in D : j <= i + 1 <=> j <= i \/ j = i + 1
        BY <1>1
      <4>2. QED
        BY <2>2, <4>1
    <3>2. Cardinality(S(i)) \in Nat
      BY <1>2
    <3> HIDE DEF S
    <3>3. QED
      BY <2>2, <3>1, <3>2
  <2>3. QED
    BY <2>1, <2>2
<1>4. S(0) = {} /\ S(n) = D
  <2>1. \A j \in D : j <= n /\ ~(j <= 0)
    OBVIOUS
  <2>2. QED
    BY <2>1
<1>5. ASSUME NEW i \in Nat, NEW j \in Nat, i <= j PROVE Cardinality(S(i)) <= Cardinality(S(j))
  <2>1. S(i) \subseteq S(j)
    <3>1. \A m \in D : m <= i => m <= j
      BY <1>1, <1>5
    <3>2. QED
      BY <3>1
  <2>2. IsFiniteSet(S(j))
    BY <1>2
  <2> HIDE DEF S
  <2>3. QED
    BY <2>1, <2>2, FS_Subset
<1>6. Cardinality(S(0)) = 0
  BY <1>4, FS_EmptySet
<1> HIDE DEF S
<1>7. \A i : CountTo(D, i) = Cardinality(S(i))
  BY DEF CountTo, S
<1>8. QED
  BY <1>2, <1>3, <1>4, <1>5, <1>6, <1>7

(* A member counts more than everything before it.                         *)
LEMMA CountRises ==
    ASSUME NEW n \in Nat, NEW D \in SUBSET (1 .. n), NEW i \in Nat, NEW j \in D, i < j
    PROVE  CountTo(D, i) + 1 <= CountTo(D, j)
<1>1. PICK m \in Nat : m = j - 1 /\ m + 1 = j /\ i <= m
  <2>1. j \in Int /\ 0 < j
    OBVIOUS
  <2>2. j - 1 \in Nat /\ (j - 1) + 1 = j /\ i <= j - 1
    BY <2>1
  <2>3. QED
    BY <2>2
<1>2. /\ CountTo(D, i) <= CountTo(D, m) /\ CountTo(D, m + 1) = CountTo(D, m) + (IF m + 1 \in D THEN 1 ELSE 0)
      /\ CountTo(D, i) \in Nat /\ CountTo(D, m) \in Nat
  BY <1>1, CountFacts
<1>3. m + 1 \in D
  BY <1>1
<1>4. CountTo(D, m + 1) = CountTo(D, m) + 1
  BY <1>2, <1>3
<1>5. QED
  BY <1>1, <1>2, <1>4

LEMMA CountSame ==
    ASSUME NEW D, NEW E, NEW i \in Nat, \A j \in D \cup E : j <= i => (j \in D <=> j \in E)
    PROVE  CountTo(D, i) = CountTo(E, i)
<1>1. { j \in D : j <= i } = { j \in E : j <= i }
  OBVIOUS
<1>2. QED
  BY <1>1 DEF CountTo

-----------------------------------------------------------------------------
(* Joining and cutting sequences.                                          *)
LEMMA Joined ==
    ASSUME NEW S, NEW s \in Seq(S), NEW t \in Seq(S), NEW m \in Nat, NEW n \in Nat,
           m = Len(s), n = Len(t)
    PROVE  /\ s \o t \in Seq(S) /\ Len(s \o t) = m + n
           /\ \A i \in 1 .. m : (s \o t)[i] = s[i]
           /\ \A i \in 1 .. n : (s \o t)[m + i] = t[i]
<1>1. s \o t \in Seq(S) /\ Len(s \o t) = m + n
  OBVIOUS
<1>2. ASSUME NEW i \in 1 .. m PROVE (s \o t)[i] = s[i]
  OBVIOUS
<1>3. ASSUME NEW i \in 1 .. n PROVE (s \o t)[m + i] = t[i]
  OBVIOUS
<1>4. QED
  BY <1>1, <1>2, <1>3

LEMMA CutBehind ==
    ASSUME NEW S, NEW s \in Seq(S), NEW m \in Nat, m = Len(s), NEW h \in 1 .. m
    PROVE  /\ SubSeq(s, h + 1, m) \in Seq(S) /\ Len(SubSeq(s, h + 1, m)) = m - h
           /\ \A i \in 1 .. m - h : SubSeq(s, h + 1, m)[i] = s[h + i]
<1>1. SubSeq(s, h + 1, m) = [i \in 1 .. m - h |-> s[h + i]]
  <2>1. m - (h + 1) + 1 = m - h /\ \A i \in 1 .. m - h : i + (h + 1) - 1 = h + i
    OBVIOUS
  <2>2. SubSeq(s, h + 1, m) = [i \in 1 .. m - (h + 1) + 1 |-> s[i + (h + 1) - 1]]
    OBVIOUS
  <2>3. QED
    BY <2>1, <2>2
<1>2. m - h \in Nat /\ \A i \in 1 .. m - h : s[h + i] \in S
  <2>1. m - h \in Nat /\ \A i \in 1 .. m - h : h + i \in 1 .. m
    OBVIOUS
  <2>2. QED
    BY <2>1
<1>3. QED
  BY <1>1, <1>2

-----------------------------------------------------------------------------
(* Lines, and the first one in the buffer.                                 *)
LEMMA LineFacts ==
    /\ CR \in Character
    /\ \A l \in Lines : /\ l \in Seq(Character) /\ Len(l) \in Nat
                        /\ \A j \in 1 .. Len(l) : l[j] \in Character /\ l[j] # CR
<1>1. CR \in Character
  BY DEF CR, Character
<1>2. ASSUME NEW l \in Lines
      PROVE  /\ l \in Seq(Character) /\ Len(l) \in Nat
             /\ \A j \in 1 .. Len(l) : l[j] \in Character /\ l[j] # CR
  <2>1. l \in Seq(Character \ {CR})
    BY ElmAssumption
  <2> DEFINE C == Character \ {CR}
  <2>2. Len(l) \in Nat /\ l \in [1 .. Len(l) -> C]
    BY <2>1
  <2>3. \A j \in 1 .. Len(l) : l[j] \in C
    BY <2>2
  <2>4. \A j \in 1 .. Len(l) : l[j] \in Character /\ l[j] # CR
    BY <2>3
  <2>5. l \in Seq(Character)
    BY <2>2, <2>4
  <2>6. QED
    BY <2>2, <2>4, <2>5
<1>3. QED
  BY <1>1, <1>2

LEMMA FirstCR ==
    ASSUME text \in Seq(Character)
    PROVE  /\ HasLine # 0 => /\ HasLine \in 1 .. Len(text) /\ text[HasLine] = CR
                             /\ \A i \in 1 .. HasLine - 1 : text[i] # CR
           /\ HasLine = 0 => \A i \in 1 .. Len(text) : text[i] # CR
<1> DEFINE I == { i \in 1 .. Len(text) : text[i] = CR }
<1>1. HasLine = IF I # {} THEN Min(I) ELSE 0
  BY DEF HasLine, SelectInSeq
<1>2. CASE I = {}
  BY <1>1, <1>2
<1>3. CASE I # {}
  <2>1. I \in SUBSET Nat
    OBVIOUS
  <2>2. PICK p \in I : \A q \in I : p <= q
    BY <1>3, <2>1, LeastElement
  <2>3. Min(I) \in I /\ \A q \in I : Min(I) <= q
    <3> HIDE DEF I
    <3> QED BY <2>2 DEF Min
  <2>4. PICK h \in I : h = HasLine /\ \A q \in I : h <= q
    BY <1>1, <1>3, <2>3
  <2>5. h \in 1 .. Len(text) /\ text[h] = CR
    OBVIOUS
  <2>6. \A i \in 1 .. h - 1 : text[i] # CR
    <3> SUFFICES ASSUME NEW i \in 1 .. h - 1, text[i] = CR PROVE FALSE
      OBVIOUS
    <3>1. i \in I
      BY <2>5
    <3>2. h <= i
      BY <2>4, <3>1
    <3>3. QED
      BY <2>5, <3>2
  <2>7. h # 0
    BY <2>5
  <2>8. QED
    BY <2>4, <2>5, <2>6, <2>7
<1>4. QED
  BY <1>2, <1>3

-----------------------------------------------------------------------------
AnyReply == [kind : {"data", "NO DATA", "?", "OK", "cut"}, data : Seq(Byte)]

TextTypes ==
    /\ open \in BOOLEAN /\ alive \in BOOLEAN /\ stalled \in BOOLEAN
    /\ net \in Seq(Character) /\ text \in Seq(Character)
    /\ asked \in Seq(Lines) /\ replies \in Seq(AnyReply)

(* The characters c are the lines of a behind the k-th, of which the i-th  *)
(* ends at e[i].                                                           *)
Waiting(a, k, e, c) ==
    /\ e \in [0 .. Len(a) -> Int] /\ e[k] = 0 /\ e[Len(a)] = Len(c)
    /\ \A i, j \in k .. Len(a) : i <= j => e[i] <= e[j]
    /\ \A i \in k + 1 .. Len(a) :
           /\ e[i] = e[i - 1] + Len(a[i]) + 1
           /\ c[e[i]] = CR
           /\ \A j \in 1 .. Len(a[i]) : c[e[i - 1] + j] = a[i][j]

(* The server has taken k lines and has answered them, but for the request *)
(* that it is sending, if it is.                                           *)
Answering(k) ==
    /\ Turn(k) = Len(replies) + (IF Sending THEN 1 ELSE 0)
    /\ Sending => /\ k \in Due /\ IsRequest(asked[k]) /\ Len(Payload(asked[k])) <= FrameMax
                  /\ frame = Frame(Payload(asked[k]))
    /\ \A i \in Due : Turn(i) <= Len(replies) => Fits(replies[Turn(i)], asked[i])

InOrder(k) == Answering(k) /\ \E e : Waiting(asked, k, e, text \o net)

(* The server waits for more text with lines in hand only after a reply    *)
(* that it gave up.                                                        *)
GivenUp == stalled => ~Sending /\ Len(replies) # 0 /\ replies[Len(replies)] = Cut

TextInv == TextTypes /\ GivenUp /\ \E k \in 0 .. Len(asked) : InOrder(k)

LEMMA DueFacts ==
    ASSUME TextTypes
    PROVE  /\ Len(asked) \in Nat /\ Len(replies) \in Nat
           /\ Due \in SUBSET (1 .. Len(asked))
           /\ \A i : Turn(i) = CountTo(Due, i)
<1>1. DOMAIN asked = 1 .. Len(asked) /\ Len(asked) \in Nat /\ Len(replies) \in Nat
  BY DEF TextTypes
<1>2. QED
  BY <1>1 DEF Due, Turn, CountTo

(* The first line of the buffer is the next one that was asked.            *)
LEMMA FirstLine ==
    ASSUME TextTypes, NEW k \in 0 .. Len(asked), NEW e, Waiting(asked, k, e, text \o net), HasLine # 0
    PROVE  /\ k + 1 \in 1 .. Len(asked) /\ asked[k + 1] \in Lines
           /\ HasLine = e[k + 1] /\ HasLine \in 1 .. Len(text)
           /\ SubSeq(text, 1, HasLine - 1) = asked[k + 1]
<1> DEFINE c == text \o net
<1>1. PICK h : h = HasLine
  OBVIOUS
<1>2. h \in 1 .. Len(text) /\ text[h] = CR /\ \A i \in 1 .. h - 1 : text[i] # CR
  BY <1>1, FirstCR DEF TextTypes
<1>3. PICK n \in Nat : n = Len(asked)
  BY DEF TextTypes
<1>4. PICK m \in Nat : m = Len(text)
  BY DEF TextTypes
<1>5. c \in Seq(Character) /\ Len(c) \in Nat /\ m <= Len(c) /\ \A i \in 1 .. m : c[i] = text[i]
  BY <1>4 DEF TextTypes
<1>6. /\ e[k] = 0 /\ e[n] = Len(c) /\ k \in 0 .. n
      /\ \A i \in k + 1 .. n :
           /\ e[i] = e[i - 1] + Len(asked[i]) + 1
           /\ c[e[i]] = CR
           /\ \A j \in 1 .. Len(asked[i]) : c[e[i - 1] + j] = asked[i][j]
  BY <1>3 DEF Waiting
<1> HIDE DEF c
<1>7. k + 1 \in k + 1 .. n /\ k + 1 \in 1 .. n /\ (k + 1) - 1 = k
  <2>1. k # n
    BY <1>2, <1>4, <1>5, <1>6
  <2>2. QED
    BY <1>6, <2>1
<1>8. PICK l \in Lines : l = asked[k + 1]
  BY <1>3, <1>7 DEF TextTypes
<1>9. Len(l) \in Nat /\ l \in Seq(Character) /\ \A j \in 1 .. Len(l) : l[j] # CR
  BY LineFacts
<1>10. e[k + 1] = Len(l) + 1 /\ c[Len(l) + 1] = CR /\ \A j \in 1 .. Len(l) : c[j] = l[j]
  <2>1. /\ e[k + 1] = e[(k + 1) - 1] + Len(l) + 1
        /\ c[e[k + 1]] = CR
        /\ \A j \in 1 .. Len(l) : c[e[(k + 1) - 1] + j] = l[j]
    BY <1>6, <1>7, <1>8
  <2>2. /\ e[k + 1] = 0 + Len(l) + 1
        /\ \A j \in 1 .. Len(l) : c[0 + j] = l[j]
    BY <1>6, <1>7, <2>1
  <2>3. QED
    BY <1>9, <2>1, <2>2
<1>11. h = Len(l) + 1
  <2>1. ~(h <= Len(l))
    <3> SUFFICES ASSUME h <= Len(l) PROVE FALSE
      OBVIOUS
    <3>1. h \in 1 .. Len(l) /\ h \in 1 .. m
      BY <1>2, <1>4, <1>9
    <3>2. c[h] = l[h] /\ c[h] = CR
      BY <1>2, <1>5, <1>10, <3>1
    <3>3. QED
      BY <1>9, <3>1, <3>2
  <2>2. ~(Len(l) + 1 < h)
    <3> SUFFICES ASSUME Len(l) + 1 < h PROVE FALSE
      OBVIOUS
    <3>1. Len(l) + 1 \in 1 .. h - 1 /\ Len(l) + 1 \in 1 .. m
      BY <1>2, <1>4, <1>9
    <3>2. QED
      BY <1>2, <1>5, <1>10, <3>1
  <2>3. QED
    BY <1>2, <1>9, <2>1, <2>2
<1>12. SubSeq(text, 1, h - 1) = l
  <2> DEFINE s == SubSeq(text, 1, h - 1)
  <2>1. h - 1 = Len(l) /\ \A i \in 1 .. Len(l) : i \in 1 .. m
    BY <1>2, <1>4, <1>9, <1>11
  <2>2. s \in Seq(Character) /\ Len(s) = Len(l) /\ \A i \in 1 .. Len(l) : s[i] = text[i]
    BY <1>4, <1>9, <2>1 DEF TextTypes
  <2>3. \A i \in 1 .. Len(l) : s[i] = l[i]
    BY <1>5, <1>10, <2>1, <2>2
  <2> HIDE DEF s
  <2>4. QED
    BY <1>9, <2>2, <2>3 DEF s
<1>13. QED
  BY <1>1, <1>2, <1>3, <1>7, <1>8, <1>10, <1>11, <1>12

(* The line taken, the others wait.                                        *)
LEMMA Take ==
    ASSUME TextTypes, NEW k \in 0 .. Len(asked), NEW e, Waiting(asked, k, e, text \o net), HasLine # 0
    PROVE  LET rest == SubSeq(text, HasLine + 1, Len(text))
           IN  rest \in Seq(Character) /\ \E f : Waiting(asked, k + 1, f, rest \o net)
<1>2. PICK m \in Nat : m = Len(text)
  BY DEF TextTypes
<1>1. PICK h \in 1 .. m : h = HasLine /\ h = e[k + 1] /\ k + 1 \in 1 .. Len(asked)
  BY <1>2, FirstLine
<1>3. PICK n \in Nat : n = Len(asked)
  BY DEF TextTypes
<1>4. h \in 1 .. m /\ h = e[k + 1] /\ k \in 0 .. n /\ k + 1 \in 1 .. n
  BY <1>1, <1>2, <1>3
<1> DEFINE rest == SubSeq(text, h + 1, m)
           c == text \o net
           d == rest \o net
           f == [i \in 0 .. n |-> e[i] - h]
<1>5. PICK N \in Nat : N = Len(net)
  BY DEF TextTypes
<1>6. text \in Seq(Character) /\ net \in Seq(Character)
  BY DEF TextTypes
<1>7. rest \in Seq(Character) /\ Len(rest) = m - h /\ \A i \in 1 .. m - h : rest[i] = text[h + i]
  BY SMTT(30), <1>2, <1>4, <1>6, CutBehind
<1> HIDE DEF rest
<1>8. /\ Len(c) = m + N /\ Len(d) = m + N - h
      /\ \A i \in 1 .. m + N - h : d[i] = c[h + i]
  <2>1. PICK r \in Nat : r = m - h /\ r + N = m + N - h
    BY <1>4
  <2>2. /\ Len(c) = m + N /\ \A i \in 1 .. m : c[i] = text[i]
        /\ \A i \in 1 .. N : c[m + i] = net[i]
    BY <1>2, <1>5, <1>6, Joined
  <2>3. /\ Len(d) = r + N /\ \A i \in 1 .. r : d[i] = rest[i]
        /\ \A i \in 1 .. N : d[r + i] = net[i]
    <3>1. rest \in Seq(Character) /\ r = Len(rest)
      BY <1>7, <2>1
    <3>2. QED
      BY <1>5, <1>6, <3>1, Joined
  <2> HIDE DEF c, d
  <2>4. ASSUME NEW i \in 1 .. m + N - h PROVE d[i] = c[h + i]
    <3>1. CASE i <= r
      <4>1. i \in 1 .. r /\ h + i \in 1 .. m
        BY <2>1, <3>1
      <4>2. QED
        BY <1>7, <2>1, <2>2, <2>3, <4>1
    <3>2. CASE ~(i <= r)
      <4>1. i - r \in 1 .. N /\ r + (i - r) = i /\ m + (i - r) = h + i
        BY <2>1, <3>2
      <4>2. QED
        BY <2>2, <2>3, <4>1
    <3>3. QED
      BY <3>1, <3>2
  <2>5. QED
    BY <2>1, <2>2, <2>3, <2>4
<1>9. /\ e \in [0 .. n -> Int] /\ e[n] = Len(c)
      /\ \A i, j \in k .. n : i <= j => e[i] <= e[j]
      /\ \A i \in k + 1 .. n :
           /\ e[i] = e[i - 1] + Len(asked[i]) + 1
           /\ c[e[i]] = CR
           /\ \A j \in 1 .. Len(asked[i]) : c[e[i - 1] + j] = asked[i][j]
  BY <1>3 DEF Waiting
<1> HIDE DEF c, d
<1>10. f \in [0 .. n -> Int] /\ \A i \in 0 .. n : f[i] = e[i] - h
  BY <1>4, <1>9
<1> HIDE DEF f
<1>11. f[k + 1] = 0 /\ f[n] = Len(d)
  <2>1. k + 1 \in 0 .. n /\ n \in 0 .. n
    BY <1>4
  <2>2. QED
    BY <1>4, <1>8, <1>9, <1>10, <2>1
<1>12. \A i, j \in k + 1 .. n : i <= j => f[i] <= f[j]
  <2> SUFFICES ASSUME NEW i \in k + 1 .. n, NEW j \in k + 1 .. n, i <= j PROVE f[i] <= f[j]
    OBVIOUS
  <2>1. i \in k .. n /\ j \in k .. n /\ i \in 0 .. n /\ j \in 0 .. n
    BY <1>4
  <2>2. e[i] <= e[j] /\ e[i] \in Int /\ e[j] \in Int /\ f[i] = e[i] - h /\ f[j] = e[j] - h
    BY <1>9, <1>10, <2>1
  <2>3. QED
    BY <1>4, <2>2
<1>13. ASSUME NEW i \in k + 1 + 1 .. n
       PROVE  /\ f[i] = f[i - 1] + Len(asked[i]) + 1
              /\ d[f[i]] = CR
              /\ \A j \in 1 .. Len(asked[i]) : d[f[i - 1] + j] = asked[i][j]
  <2>1. i \in k + 1 .. n /\ i - 1 \in k + 1 .. n /\ i \in 0 .. n /\ i - 1 \in 0 .. n
        /\ k + 1 \in k .. n /\ i - 1 \in k .. n /\ i \in k .. n /\ n \in k .. n /\ i \in 1 .. n
    BY <1>4
  <2>2. PICK L \in Nat : L = Len(asked[i])
    BY <1>3, <2>1, LineFacts DEF TextTypes
  <2>3. PICK x \in Int, y \in Int : x = e[i - 1] /\ y = e[i]
    BY <1>9, <2>1
  <2>4. f[i] = y - h /\ f[i - 1] = x - h
    BY <1>10, <2>1, <2>3
  <2>5. y = x + L + 1 /\ c[y] = CR /\ \A j \in 1 .. L : c[x + j] = asked[i][j]
    BY <1>9, <2>1, <2>2, <2>3
  <2>6. h <= x /\ y <= Len(c)
    <3>1. e[k + 1] <= e[i - 1] /\ e[i] <= e[n]
      BY <1>4, <1>9, <2>1
    <3>2. QED
      BY <1>4, <1>9, <2>3, <3>1
  <2>7. Len(c) \in Nat /\ Len(c) = m + N
    BY <1>8
  <2>8. \A v \in h + 1 .. Len(c) : d[v - h] = c[v]
    <3> SUFFICES ASSUME NEW v \in h + 1 .. Len(c) PROVE d[v - h] = c[v]
      OBVIOUS
    <3>1. v - h \in 1 .. Len(c) - h /\ h + (v - h) = v
      BY <1>4, <2>7
    <3>2. QED
      BY <1>8, <3>1
  <2>9. y \in h + 1 .. Len(c) /\ \A j \in 1 .. L : x + j \in h + 1 .. Len(c) /\ (x - h) + j = (x + j) - h
    BY <1>4, <2>5, <2>6, <2>7
  <2>10. d[y - h] = CR /\ \A j \in 1 .. L : d[(x - h) + j] = asked[i][j]
    BY <2>5, <2>8, <2>9
  <2>11. y - h = (x - h) + L + 1
    BY <1>4, <2>5
  <2>12. QED
    BY <2>2, <2>4, <2>10, <2>11
<1>14. Waiting(asked, k + 1, f, d)
  BY <1>3, <1>10, <1>11, <1>12, <1>13 DEF Waiting
<1>15. rest = SubSeq(text, HasLine + 1, Len(text)) /\ d = rest \o net
  BY <1>1, <1>2 DEF rest, d
<1>16. QED
  BY <1>7, <1>14, <1>15

(* A line more at the end of what waits.                                   *)
LEMMA Asked ==
    ASSUME TextTypes, NEW k \in 0 .. Len(asked), NEW e, Waiting(asked, k, e, text \o net),
           NEW l \in Lines
    PROVE  \E f : Waiting(Append(asked, l), k, f, text \o (net \o Append(l, CR)))
<1>1. PICK n \in Nat : n = Len(asked)
  BY DEF TextTypes
<1>2. PICK m \in Nat : m = Len(text \o net)
  BY DEF TextTypes
<1>3. PICK L \in Nat : L = Len(l) /\ l \in Seq(Character) /\ CR \in Character
  BY LineFacts
<1> DEFINE c == text \o net
           w == Append(l, CR)
           d == text \o (net \o w)
           a == Append(asked, l)
           f == [i \in 0 .. n + 1 |-> IF i <= n THEN e[i] ELSE m + L + 1]
<1>4. w \in Seq(Character) /\ Len(w) = L + 1 /\ w[L + 1] = CR /\ \A j \in 1 .. L : w[j] = l[j]
  BY <1>3
<1> HIDE DEF w
<1>5. d = c \o w
  BY SMTT(30), <1>4 DEF TextTypes
<1>6. c \in Seq(Character) /\ Len(c) = m
  BY <1>2 DEF TextTypes
<1> HIDE DEF c, d
<1>7. /\ Len(d) = m + L + 1
      /\ \A i \in 1 .. m : d[i] = c[i]
      /\ \A i \in 1 .. L + 1 : d[m + i] = w[i]
  <2>1. L + 1 \in Nat /\ m + (L + 1) = m + L + 1
    OBVIOUS
  <2>2. QED
    BY SMTT(30), <1>4, <1>5, <1>6, <2>1, Joined
<1>8. Len(a) = n + 1 /\ a[n + 1] = l /\ \A i \in 1 .. n : a[i] = asked[i]
  BY <1>1 DEF TextTypes
<1>9. /\ e \in [0 .. n -> Int] /\ e[k] = 0 /\ e[n] = m
      /\ \A i, j \in k .. n : i <= j => e[i] <= e[j]
      /\ \A i \in k + 1 .. n :
           /\ e[i] = e[i - 1] + Len(asked[i]) + 1
           /\ c[e[i]] = CR
           /\ \A j \in 1 .. Len(asked[i]) : c[e[i - 1] + j] = asked[i][j]
  BY <1>1, <1>2 DEF Waiting, c
<1>10. k \in 0 .. n
  BY <1>1
<1> HIDE DEF a
<1>11. f \in [0 .. n + 1 -> Int] /\ f[n + 1] = m + L + 1 /\ \A i \in 0 .. n : f[i] = e[i]
  BY <1>9
<1> HIDE DEF f
<1>12. f[k] = 0 /\ f[n + 1] = Len(d)
  BY <1>7, <1>9, <1>10, <1>11
<1>13. \A i, j \in k .. n + 1 : i <= j => f[i] <= f[j]
  <2> SUFFICES ASSUME NEW i \in k .. n + 1, NEW j \in k .. n + 1, i <= j PROVE f[i] <= f[j]
    OBVIOUS
  <2>1. CASE j <= n
    <3>1. i \in k .. n /\ j \in k .. n /\ i \in 0 .. n /\ j \in 0 .. n
      BY <1>10, <2>1
    <3>2. QED
      BY <1>9, <1>11, <3>1
  <2>2. CASE j = n + 1 /\ i <= n
    <3>1. i \in k .. n /\ n \in k .. n /\ i \in 0 .. n
      BY <1>10, <2>2
    <3>2. e[i] <= m /\ f[i] = e[i] /\ e[i] \in Int
      BY <1>9, <1>11, <3>1
    <3>3. QED
      BY <1>11, <2>2, <3>2
  <2>3. CASE j = n + 1 /\ i = n + 1
    BY <1>11, <2>3
  <2>4. QED
    BY <1>10, <2>1, <2>2, <2>3
<1>14. ASSUME NEW i \in k + 1 .. n + 1
       PROVE  /\ f[i] = f[i - 1] + Len(a[i]) + 1
              /\ d[f[i]] = CR
              /\ \A j \in 1 .. Len(a[i]) : d[f[i - 1] + j] = a[i][j]
  <2>1. CASE i = n + 1
    <3>1. f[i - 1] = m
      <4>1. i - 1 = n /\ n \in 0 .. n
        BY <2>1
      <4>2. QED
        BY <1>9, <1>11, <4>1
    <3>2. f[i] = m + (L + 1) /\ L + 1 \in 1 .. L + 1
      BY <1>11, <2>1
    <3>3. d[f[i]] = CR
      BY <1>4, <1>7, <3>2
    <3>4. \A j \in 1 .. L : j \in 1 .. L + 1
      OBVIOUS
    <3>5. \A j \in 1 .. L : d[m + j] = l[j]
      BY <1>4, <1>7, <3>4
    <3>6. QED
      BY <1>3, <1>8, <2>1, <3>1, <3>2, <3>3, <3>5
  <2>2. CASE i # n + 1
    <3>1. i \in k + 1 .. n /\ i \in 0 .. n /\ i - 1 \in 0 .. n /\ i \in 1 .. n
          /\ i - 1 \in k .. n /\ k \in k .. n /\ i \in k .. n /\ n \in k .. n /\ k <= i - 1 /\ i <= n
      BY <1>10, <2>2
    <3>2. f[i] = e[i] /\ f[i - 1] = e[i - 1] /\ a[i] = asked[i]
      BY <1>8, <1>11, <3>1
    <3>3. PICK x \in Int, y \in Int : x = e[i - 1] /\ y = e[i]
      BY <1>9, <3>1
    <3>4. 0 <= x /\ y <= m
      BY <1>9, <3>1, <3>3
    <3>5. PICK M \in Nat : M = Len(asked[i])
      BY <1>1, <3>1, LineFacts DEF TextTypes
    <3>6. y = x + M + 1 /\ c[y] = CR /\ \A j \in 1 .. M : c[x + j] = asked[i][j]
      BY <1>9, <3>1, <3>3, <3>5
    <3>7. y \in 1 .. m /\ \A j \in 1 .. M : x + j \in 1 .. m
      BY <3>4, <3>6
    <3>8. d[y] = CR /\ \A j \in 1 .. M : d[x + j] = asked[i][j]
      BY <1>7, <3>6, <3>7
    <3>9. QED
      BY <3>2, <3>3, <3>5, <3>6, <3>8
  <2>3. QED
    BY <2>1, <2>2
<1>15. Waiting(a, k, f, d)
  BY <1>8, <1>11, <1>12, <1>13, <1>14 DEF Waiting
<1>16. QED
  BY <1>15 DEF a, d, w

-----------------------------------------------------------------------------
(* Turns: those of the lines that ask for a reply are 1, 2 and so on.      *)
LEMMA Turns ==
    ASSUME TextTypes
    PROVE  /\ \A i \in Nat : /\ Turn(i) \in Nat
                            /\ Turn(i + 1) = Turn(i) + (IF i + 1 \in Due THEN 1 ELSE 0)
           /\ Turn(0) = 0 /\ Turn(Len(asked)) = Cardinality(Due)
           /\ \A i, j \in Nat : i <= j => Turn(i) <= Turn(j)
           /\ \A i \in Nat : \A j \in Due : i < j => Turn(i) + 1 <= Turn(j)
           /\ \A j \in Due : j \in Nat /\ 1 <= j /\ 1 <= Turn(j)
<1>1. PICK n \in Nat : n = Len(asked)
  BY DEF TextTypes
<1>2. PICK D \in SUBSET (1 .. n) : D = Due
  BY <1>1, DueFacts
<1>3. \A i : Turn(i) = CountTo(D, i)
  BY <1>2, DueFacts
<1>4. \A j \in D : j \in Nat /\ 1 <= j /\ 0 < j
  OBVIOUS
<1>5. /\ \A i \in Nat : /\ CountTo(D, i) \in Nat
                       /\ CountTo(D, i + 1) = CountTo(D, i) + (IF i + 1 \in D THEN 1 ELSE 0)
      /\ CountTo(D, 0) = 0 /\ CountTo(D, n) = Cardinality(D)
      /\ \A i, j \in Nat : i <= j => CountTo(D, i) <= CountTo(D, j)
  BY CountFacts
<1>6. \A i \in Nat : \A j \in D : i < j => CountTo(D, i) + 1 <= CountTo(D, j)
  BY CountRises
<1>7. \A j \in D : 1 <= CountTo(D, j)
  <2> SUFFICES ASSUME NEW j \in D PROVE 1 <= CountTo(D, j)
    OBVIOUS
  <2>1. CountTo(D, 0) + 1 <= CountTo(D, j)
    BY <1>4, <1>6
  <2>2. QED
    BY <1>5, <2>1
<1>8. QED
  BY <1>1, <1>2, <1>3, <1>4, <1>5, <1>6, <1>7

(* The reply to the line whose turn it is.                                 *)
LEMMA Replied ==
    ASSUME TextTypes, NEW k \in Due, Turn(k) = Len(replies) + 1,
           \A i \in Due : Turn(i) <= Len(replies) => Fits(replies[Turn(i)], asked[i]),
           NEW r \in AnyReply, Fits(r, asked[k])
    PROVE  /\ Append(replies, r) \in Seq(AnyReply) /\ Len(Append(replies, r)) = Turn(k)
           /\ \A i \in Due : Turn(i) <= Turn(k) => Fits(Append(replies, r)[Turn(i)], asked[i])
<1>1. PICK m \in Nat : m = Len(replies)
  BY DEF TextTypes
<1>2. /\ Append(replies, r) \in Seq(AnyReply) /\ Len(Append(replies, r)) = m + 1
      /\ Append(replies, r)[m + 1] = r
      /\ \A i \in 1 .. m : Append(replies, r)[i] = replies[i]
  BY <1>1 DEF TextTypes
<1>3. ASSUME NEW i \in Due, Turn(i) <= Turn(k)
      PROVE  Fits(Append(replies, r)[Turn(i)], asked[i])
  <2>1. /\ i \in Nat /\ k \in Nat /\ Turn(i) \in Nat /\ 1 <= Turn(i)
        /\ (i < k => Turn(i) + 1 <= Turn(k)) /\ (k < i => Turn(k) + 1 <= Turn(i))
        /\ Turn(k) = m + 1
    BY <1>1, Turns
  <2>2. CASE i = k
    BY <1>2, <2>1, <2>2
  <2>3. CASE i # k
    <3>1. Turn(i) <= m /\ Turn(i) \in 1 .. m
      BY <1>3, <2>1, <2>3
    <3>2. QED
      BY <1>1, <1>2, <3>1
  <2>4. QED
    BY <2>2, <2>3
<1>4. QED
  BY <1>1, <1>2, <1>3

-----------------------------------------------------------------------------
(* The beginning of a connection.                                          *)
Fresh == net = <<>> /\ text = <<>> /\ asked = <<>> /\ replies = <<>> /\ stalled = FALSE /\ ~Sending

LEMMA NothingWaits ==
    ASSUME NEW a, Len(a) = 0 PROVE Waiting(a, 0, [i \in 0 .. 0 |-> 0], <<>>)
<1> DEFINE e == [i \in 0 .. 0 |-> 0]
<1>1. e \in [0 .. 0 -> Int] /\ e[0] = 0 /\ Len(<<>>) = 0
  OBVIOUS
<1>2. \A i \in 0 + 1 .. 0 : FALSE
  OBVIOUS
<1>3. \A i, j \in 0 .. 0 : e[i] <= e[j]
  BY <1>1
<1> HIDE DEF e
<1>4. QED
  BY <1>1, <1>2, <1>3 DEF Waiting, e

LEMMA FreshInOrder == ASSUME Fresh, open \in BOOLEAN, alive \in BOOLEAN PROVE TextInv
<1>1. TextTypes
  <2>1. \A S : <<>> \in Seq(S)
    OBVIOUS
  <2>2. QED
    BY <2>1 DEF Fresh, TextTypes
<1>2. Due = {}
  BY DEF Fresh, Due
<1>3. Turn(0) = 0
  BY <1>1, Turns
<1>4. Len(replies) = 0 /\ Len(asked) = 0 /\ text \o net = <<>>
  BY DEF Fresh
<1>5. Answering(0)
  BY <1>2, <1>3, <1>4 DEF Answering, Fresh
<1>6. InOrder(0) /\ 0 \in 0 .. Len(asked)
  BY <1>4, <1>5, NothingWaits DEF InOrder
<1>7. QED
  BY <1>1, <1>6 DEF TextInv, GivenUp, Fresh

-----------------------------------------------------------------------------
(* What a frame is of, and what an answer to it is.                        *)
LEMMA RequestLines ==
    ASSUME NEW l \in Lines, IsRequest(l), Len(Payload(l)) <= FrameMax
    PROVE  /\ Payload(l) \in Payloads /\ Payload(l) \in Seq(Byte)
           /\ Len(Payload(l)) \in 1 .. FrameMax
           /\ Frame(Payload(l)) # <<>>
<1>1. Payload(l) \in Payloads
  BY PayloadAssumption
<1>2. Len(Frame(Payload(l))) = Len(Payload(l)) + 4 /\ Len(Payload(l)) \in 1 .. FrameMax
      /\ Payload(l) \in Seq(Byte)
  BY <1>1, PayloadFrames
<1>3. Len(Frame(Payload(l))) # 0
  BY <1>2
<1>4. QED
  BY <1>1, <1>2, <1>3

LEMMA AnswerFits ==
    ASSUME Inv, NEW l \in Lines, IsRequest(l), Len(Payload(l)) <= FrameMax, frame = Frame(Payload(l))
    PROVE  Answered \in AnyReply /\ Fits(Answered, l)
<1>1. CASE accepted = <<>>
  <2>1. Answered = Reply("NO DATA", <<>>) /\ <<>> \in Seq(Byte)
    BY <1>1 DEF Answered
  <2>2. QED
    BY <2>1 DEF Reply, Fits, AnyReply
<1>2. CASE accepted # <<>>
  <2>1. Head(accepted) \in Seq(Byte)
    <3>1. accepted \in Seq(Seq(Byte))
      BY DEF Inv, LinkTypes
    <3>2. QED
      BY <1>2, <3>1
  <2>2. Answered = Reply("data", Head(accepted))
    BY <1>2 DEF Answered
  <2>3. long = 0 => Head(accepted) = Payload(l)
    <3> SUFFICES ASSUME long = 0 PROVE Head(accepted) = Payload(l)
      OBVIOUS
    <3>1. Sending
      BY RequestLines DEF Sending
    <3>2. accepted = <<Sent>>
      BY <1>2, <3>1, InvAccepted DEF NothingElseAccepted
    <3>3. Sent = Payload(l)
      BY RequestLines, SentIsPayload
    <3>4. QED
      BY <3>2, <3>3
  <2>4. QED
    BY <2>1, <2>2, <2>3 DEF Reply, Fits, AnyReply
<1>3. QED
  BY <1>1, <1>2

LEMMA OtherReplies ==
    ASSUME NEW l \in Lines, ~IsRequest(l)
    PROVE  LET r == IF IsCommand(l) THEN Obeyed ELSE Refused IN r \in AnyReply /\ Fits(r, l)
<1>1. <<>> \in Seq(Byte)
  OBVIOUS
<1>2. Obeyed \in AnyReply /\ Refused \in AnyReply
  BY <1>1 DEF Obeyed, Refused, Reply, AnyReply
<1>3. QED
  BY <1>2 DEF Fits

(* A step that sends no reply and takes no line keeps the answers; noise   *)
(* and length of requests only make fewer claims.                          *)
LEMMA SameAnswers ==
    ASSUME NEW k, Answering(k), UNCHANGED <<frame, asked, replies>>, long' = 0 => long = 0
    PROVE  Answering(k)'
<1>1. Due' = Due /\ \A i : Turn(i)' = Turn(i)
  BY DEF Due, Turn
<1>2. \A r, l : Fits(r, l) => Fits(r, l)'
  BY DEF Fits
<1>3. Sending' = Sending
  BY DEF Sending
<1>4. QED
  BY <1>1, <1>2, <1>3 DEF Answering

LEMMA AskStep ==
    ASSUME TextInv, NEW l \in Lines, Ask(l)
    PROVE  TextInv'
<1>1. /\ TextTypes /\ ~Sending
      /\ net' = net \o Append(l, CR) /\ asked' = Append(asked, l)
      /\ UNCHANGED <<vars, open, text, replies, stalled, alive>>
  BY DEF Ask, TextInv
<1>2. PICK n \in Nat : n = Len(asked)
  BY <1>1 DEF TextTypes
<1>3. PICK k \in 0 .. n : InOrder(k)
  BY <1>2 DEF TextInv
<1>4. TextTypes'
  <2>1. l \in Seq(Character) /\ CR \in Character
    BY LineFacts
  <2>2. Append(l, CR) \in Seq(Character)
    BY <2>1
  <2>3. net' \in Seq(Character)
    BY <1>1, <2>2 DEF TextTypes
  <2>4. asked' \in Seq(Lines)
    BY <1>1 DEF TextTypes
  <2>5. QED
    BY <1>1, <2>3, <2>4 DEF TextTypes
<1>5. Len(asked') = n + 1 /\ asked'[n + 1] = l /\ \A i \in 1 .. n : asked'[i] = asked[i]
      /\ DOMAIN asked = 1 .. n /\ DOMAIN asked' = 1 .. n + 1
  BY <1>1, <1>2 DEF TextTypes
<1>6. \A i \in 1 .. n : i \in Due' <=> i \in Due
  BY <1>2, <1>5 DEF Due
<1>7. \A i \in 0 .. n : Turn(i)' = Turn(i)
  <2> SUFFICES ASSUME NEW i \in 0 .. n PROVE Turn(i)' = Turn(i)
    OBVIOUS
  <2>1. { j \in Due' : j <= i } = { j \in Due : j <= i }
    <3>1. Due \subseteq 1 .. n /\ Due' \subseteq 1 .. n + 1
      BY <1>2, <1>5 DEF Due
    <3>2. \A j \in 1 .. n + 1 : j <= i => j \in 1 .. n
      OBVIOUS
    <3>3. QED
      BY <1>6, <3>1, <3>2
  <2>2. QED
    BY <2>1 DEF Turn
<1>8. Answering(k)'
  <2>0. n + 1 \in Nat /\ Due' \in SUBSET (1 .. n + 1) /\ \A i : Turn(i)' = CountTo(Due', i)
    BY <1>5 DEF Due, Turn, CountTo
  <2>1. PICK m \in Nat : m = Len(replies)
    BY <1>1 DEF TextTypes
  <2>2. Turn(k) = m /\ \A i \in Due : Turn(i) <= m => Fits(replies[Turn(i)], asked[i])
    BY <1>1, <1>3, <2>1 DEF InOrder, Answering
  <2>3. Sending' = FALSE /\ replies' = replies
    BY <1>1 DEF Sending, vars
  <2>4. \A r, x : Fits(r, x)' = Fits(r, x)
    BY <1>1 DEF Fits, vars
  <2>5. ASSUME NEW i \in Due', Turn(i)' <= m PROVE Fits(replies[Turn(i)'], asked'[i])
    <3>1. i \in 1 .. n + 1
      BY <1>5 DEF Due
    <3>2. CASE i \in 1 .. n
      <4>1. i \in 0 .. n
        BY <3>2
      <4>2. QED
        BY <1>5, <1>6, <1>7, <2>2, <2>5, <3>2, <4>1
    <3>3. CASE i = n + 1
      <4>1. Turn(k)' = m
        BY <1>7, <2>2
      <4>2. k \in Nat /\ k < i
        BY <3>3
      <4>3. Turn(k)' + 1 <= Turn(i)'
        <5>1. CountTo(Due', k) + 1 <= CountTo(Due', i)
          BY <2>0, <4>2, CountRises
        <5>2. QED
          BY <2>0, <5>1
      <4>4. Turn(i)' \in Nat
        <5>1. CountTo(Due', i) \in Nat
          BY <2>0, <3>3, CountFacts
        <5>2. QED
          BY <2>0, <5>1
      <4>5. QED
        BY <2>5, <4>1, <4>3, <4>4
    <3>4. QED
      BY <3>1, <3>2, <3>3
  <2>6. Turn(k)' = m /\ Len(replies') = m
    BY <1>7, <2>1, <2>2, <2>3
  <2>7. \A i \in Due' : Turn(i)' <= Len(replies') => Fits(replies[Turn(i)], asked[i])'
    BY <2>3, <2>4, <2>5, <2>6
  <2>8. QED
    BY <2>3, <2>6, <2>7 DEF Answering
<1>9. \E e : Waiting(asked', k, e, text' \o net')
  <2>1. PICK e : Waiting(asked, k, e, text \o net)
    BY <1>3 DEF InOrder
  <2>2. k \in 0 .. Len(asked)
    BY <1>2
  <2>3. \E f : Waiting(Append(asked, l), k, f, text \o (net \o Append(l, CR)))
    BY <1>1, <2>1, <2>2, Asked
  <2>4. QED
    BY <1>1, <2>3
<1>10. k \in 0 .. Len(asked')
  BY <1>5
<1>11. GivenUp'
  BY <1>1 DEF TextInv, GivenUp, Sending, vars
<1>12. QED
  BY <1>4, <1>8, <1>9, <1>10, <1>11 DEF TextInv, InOrder

LEMMA RecvStep == ASSUME TextInv, Recv PROVE TextInv'
<1>1. PICK m \in Nat : m = Len(net)
  BY DEF TextInv, TextTypes
<1>2. PICK n \in 1 .. m : /\ text' = text \o SubSeq(net, 1, n)
                          /\ net' = SubSeq(net, n + 1, m)
  BY <1>1 DEF Recv
<1>3. net \in Seq(Character) /\ text \in Seq(Character)
  BY DEF TextInv, TextTypes
<1>4. SubSeq(net, 1, n) \in Seq(Character) /\ Len(SubSeq(net, 1, n)) = n
      /\ \A i \in 1 .. n : SubSeq(net, 1, n)[i] = net[i]
  BY <1>1, <1>3
<1>5. SubSeq(net, n + 1, m) \in Seq(Character) /\ Len(SubSeq(net, n + 1, m)) = m - n
      /\ \A i \in 1 .. m - n : SubSeq(net, n + 1, m)[i] = net[n + i]
  BY <1>1, <1>3, CutBehind
<1> DEFINE s == SubSeq(net, 1, n)
           t == SubSeq(net, n + 1, m)
<1> HIDE DEF s, t
<1>6. s \o t = net
  <2>1. PICK r \in Nat : r = m - n /\ n + r = m
    OBVIOUS
  <2>2. /\ s \in Seq(Character) /\ Len(s) = n /\ \A i \in 1 .. n : s[i] = net[i]
        /\ t \in Seq(Character) /\ Len(t) = r /\ \A i \in 1 .. r : t[i] = net[n + i]
    BY <1>4, <1>5, <2>1 DEF s, t
  <2>3. /\ s \o t \in Seq(Character) /\ Len(s \o t) = n + r
        /\ \A i \in 1 .. n : (s \o t)[i] = s[i]
        /\ \A i \in 1 .. r : (s \o t)[n + i] = t[i]
    <3>1. n \in Nat
      OBVIOUS
    <3>2. r \in Nat /\ s \in Seq(Character) /\ t \in Seq(Character) /\ n = Len(s) /\ r = Len(t)
      BY <2>2
    <3>3. QED
      BY SMTT(30), <3>1, <3>2, Joined
  <2>4. ASSUME NEW i \in 1 .. m PROVE (s \o t)[i] = net[i]
    <3>1. CASE i <= n
      <4>1. i \in 1 .. n
        BY <3>1
      <4>2. s[i] = net[i]
        BY <2>2, <4>1
      <4>3. (s \o t)[i] = s[i]
        BY <2>3, <4>1
      <4>4. QED
        BY <4>2, <4>3
    <3>2. CASE ~(i <= n)
      <4>1. i - n \in 1 .. r /\ n + (i - n) = i
        BY <2>1, <3>2
      <4>2. PICK j \in 1 .. r : n + j = i
        BY <4>1
      <4>3. t[j] = net[n + j]
        BY <2>2
      <4>4. (s \o t)[n + j] = t[j]
        BY <2>3
      <4>5. QED
        BY <4>2, <4>3, <4>4
    <3>3. QED
      BY <3>1, <3>2
  <2> DEFINE st == s \o t
  <2>5. st \in Seq(Character) /\ Len(st) = m /\ \A i \in 1 .. m : st[i] = net[i]
    BY <2>1, <2>3, <2>4
  <2> HIDE DEF st
  <2>6. st = net
    BY <1>1, <1>3, <2>5
  <2>7. QED
    BY <2>6 DEF st
<1>7. text' \o net' = text \o net
  <2>1. s \in Seq(Character) /\ t \in Seq(Character)
    BY <1>4, <1>5 DEF s, t
  <2>2. (text \o s) \o t = text \o (s \o t)
    BY <1>3, <2>1
  <2>3. QED
    BY <1>2, <1>6, <2>2 DEF s, t
<1>8. text' \in Seq(Character) /\ net' \in Seq(Character)
  BY <1>2, <1>3, <1>4, <1>5
<1>9. UNCHANGED <<vars, open, asked, replies, alive>> /\ stalled' = FALSE
  BY DEF Recv
<1>10. TextTypes'
  BY <1>8, <1>9 DEF TextInv, TextTypes
<1>11. PICK k \in 0 .. Len(asked) : InOrder(k)
  BY DEF TextInv
<1>12. Answering(k)'
  BY <1>9, <1>11, SameAnswers DEF InOrder, vars
<1>13. InOrder(k)'
  BY <1>7, <1>9, <1>11, <1>12 DEF InOrder
<1>14. QED
  BY <1>9, <1>10, <1>11, <1>13 DEF TextInv, GivenUp

(* A connection that breaks takes its lines and replies with it.           *)
LEMMA EndStep ==
    ASSUME EndSession, ~Sending', alive' \in BOOLEAN
    PROVE  TextInv'
<1>1. Fresh' /\ open' \in BOOLEAN
  BY DEF EndSession, Fresh
<1>2. TextTypes'
  <2>1. \A S : <<>> \in Seq(S)
    OBVIOUS
  <2>2. QED
    BY <1>1, <2>1 DEF Fresh, TextTypes
<1>3. Due' = {}
  BY <1>1 DEF Fresh, Due
<1>4. Len(replies') = 0 /\ Len(asked') = 0 /\ text' \o net' = <<>>
  BY <1>1 DEF Fresh
<1>5. Turn(0)' = 0
  <2>1. { j \in Due' : j <= 0 } = {}
    BY <1>3
  <2>2. QED
    BY <2>1, FS_EmptySet DEF Turn
<1>6. Answering(0)'
  BY <1>1, <1>3, <1>4, <1>5 DEF Answering, Fresh
<1>7. Waiting(asked', 0, [i \in 0 .. 0 |-> 0], <<>>)
  BY <1>4, NothingWaits
<1>8. 0 \in 0 .. Len(asked')
  BY <1>4
<1>9. InOrder(0)'
  BY <1>4, <1>6, <1>7 DEF InOrder
<1>10. QED
  BY <1>1, <1>2, <1>8, <1>9 DEF TextInv, GivenUp, Fresh

(* The line that is handled next, and what is left of the buffer.          *)
LEMMA NextLine ==
    ASSUME TextInv, ~Sending, HasLine # 0
    PROVE  \E k \in 0 .. Len(asked) :
               /\ InOrder(k) /\ k + 1 \in 1 .. Len(asked) /\ asked[k + 1] \in Lines
               /\ SubSeq(text, 1, HasLine - 1) = asked[k + 1]
               /\ SubSeq(text, HasLine + 1, Len(text)) \in Seq(Character)
               /\ \E e : Waiting(asked, k + 1, e, SubSeq(text, HasLine + 1, Len(text)) \o net)
               /\ k + 1 \in Due <=> ~IsBlank(asked[k + 1])
               /\ Turn(k) = Len(replies)
               /\ Turn(k + 1) = Len(replies) + (IF k + 1 \in Due THEN 1 ELSE 0)
<1>1. TextTypes
  BY DEF TextInv
<1>2. PICK k \in 0 .. Len(asked) : InOrder(k)
  BY DEF TextInv
<1>3. PICK e : Waiting(asked, k, e, text \o net)
  BY <1>2 DEF InOrder
<1>4. /\ k + 1 \in 1 .. Len(asked) /\ asked[k + 1] \in Lines
      /\ SubSeq(text, 1, HasLine - 1) = asked[k + 1]
  BY <1>1, <1>3, FirstLine
<1>5. /\ SubSeq(text, HasLine + 1, Len(text)) \in Seq(Character)
      /\ \E f : Waiting(asked, k + 1, f, SubSeq(text, HasLine + 1, Len(text)) \o net)
  BY <1>1, <1>3, Take
<1>6. k + 1 \in Due <=> ~IsBlank(asked[k + 1])
  BY <1>1, <1>4 DEF Due, TextTypes
<1>7. Turn(k) = Len(replies)
  <2>1. Len(replies) \in Nat
    BY <1>1 DEF TextTypes
  <2>2. QED
    BY <1>2, <2>1 DEF InOrder, Answering
<1>8. k \in Nat
  BY <1>1 DEF TextTypes
<1>9. Turn(k + 1) = Len(replies) + (IF k + 1 \in Due THEN 1 ELSE 0)
  BY <1>1, <1>7, <1>8, Turns
<1>10. QED
  BY <1>2, <1>4, <1>5, <1>6, <1>7, <1>9

LEMMA InvReplies == ASSUME TextInv PROVE RepliesInOrder
<1>1. TextTypes /\ \E k \in 0 .. Len(asked) : InOrder(k)
  BY DEF TextInv
<1>2. PICK n \in Nat : n = Len(asked)
  BY <1>1 DEF TextTypes
<1>3. PICK m \in Nat : m = Len(replies)
  BY <1>1 DEF TextTypes
<1>4. PICK k \in 0 .. n : InOrder(k)
  BY <1>1, <1>2
<1>5. /\ Turn(k) = m + (IF Sending THEN 1 ELSE 0)
      /\ \A i \in Due : Turn(i) <= m => Fits(replies[Turn(i)], asked[i])
  BY <1>3, <1>4 DEF InOrder, Answering
<1>6. Turn(k) <= Turn(n) /\ Turn(n) = Cardinality(Due) /\ Turn(n) \in Nat
  <2>1. k \in Nat /\ k <= n
    OBVIOUS
  <2>2. QED
    BY <1>1, <1>2, <2>1, Turns
<1>7. m <= Cardinality(Due)
  BY <1>5, <1>6
<1>8. ASSUME AtRecv, HasLine = 0, open, net = <<>> PROVE m = Cardinality(Due)
  <2>1. ~Sending /\ HasLine = 0
    BY <1>8 DEF AtRecv
  <2>2. PICK L \in Nat : L = Len(text)
    BY <1>1 DEF TextTypes
  <2>3. text \o net = text
    BY <1>1, <1>8 DEF TextTypes
  <2>4. PICK e : Waiting(asked, k, e, text)
    BY <1>4, <2>3 DEF InOrder
  <2>5. k = n
    <3> SUFFICES ASSUME k # n PROVE FALSE
      OBVIOUS
    <3>1. /\ k + 1 \in k + 1 .. n /\ k + 1 \in 1 .. n /\ (k + 1) - 1 = k
          /\ k + 1 \in k .. n /\ n \in k .. n /\ k + 1 <= n
      OBVIOUS
    <3>2. PICK M \in Nat : M = Len(asked[k + 1])
      BY <1>1, <1>2, <3>1, LineFacts DEF TextTypes
    <3>3. /\ e[k + 1] = e[(k + 1) - 1] + M + 1 /\ e[k] = 0 /\ text[e[k + 1]] = CR
          /\ e[k + 1] <= e[n] /\ e[n] = L
      BY <1>2, <2>2, <2>4, <3>1, <3>2 DEF Waiting
    <3>4. e[k + 1] = 0 + M + 1
      BY <3>1, <3>3
    <3>5. e[k + 1] \in 1 .. L
      BY <3>3, <3>4
    <3>6. QED
      BY <1>1, <2>1, <2>2, <3>3, <3>5, FirstCR DEF TextTypes
  <2>6. QED
    BY <1>5, <1>6, <2>1, <2>5
<1>9. ASSUME AtRecv, HasLine # 0 PROVE stalled /\ replies[Len(replies)] = Cut
  BY <1>9 DEF AtRecv, TextInv, GivenUp
<1>10. ASSUME ~Sending, HasLine # 0 PROVE NextWaits
  <2>1. PICK j \in 0 .. Len(asked) :
            /\ j + 1 \in 1 .. Len(asked) /\ Turn(j) = Len(replies)
            /\ SubSeq(text, 1, HasLine - 1) = asked[j + 1]
    BY <1>10, NextLine
  <2>2. PICK i \in 1 .. n : i = j + 1 /\ i - 1 = j
    BY <1>2, <2>1
  <2>3. i \in DOMAIN asked
    BY <1>1, <1>2, <2>2 DEF TextTypes
  <2>4. Turn(i - 1) = Len(replies) /\ SubSeq(text, 1, HasLine - 1) = asked[i]
    BY <2>1, <2>2
  <2>5. QED
    BY <2>3, <2>4 DEF NextWaits
<1>11. QED
  BY <1>3, <1>5, <1>7, <1>8, <1>9, <1>10 DEF RepliesInOrder

(* The k-th line has been answered, and the link is idle.                  *)
LEMMA ReplyStep ==
    ASSUME TextTypes, NEW k \in Due, Turn(k) = Len(replies) + 1,
           \A i \in Due : Turn(i) <= Len(replies) => Fits(replies[Turn(i)], asked[i]),
           NEW r \in AnyReply, Fits(r, asked[k]), NEW rest \in Seq(Character),
           \E e : Waiting(asked, k, e, rest \o net),
           SendReply(r, rest), ~stalled, ~Sending', UNCHANGED <<long, alive>>
    PROVE  TextInv'
<1>0. Cut \in AnyReply /\ Fits(Cut, asked[k])
  <2>1. <<>> \in Seq(Byte)
    OBVIOUS
  <2>2. QED
    BY <2>1 DEF Cut, Reply, AnyReply, Fits
<1>1. CASE EndSession
  BY <1>1, EndStep DEF TextTypes
<1>2. ASSUME NEW x \in {r, Cut}, replies' = Append(replies, x), text' = rest,
             UNCHANGED <<open, net, asked>>, stalled' \in BOOLEAN, stalled' => x = Cut
      PROVE  TextInv'
  <2>0. x \in AnyReply /\ Fits(x, asked[k])
    BY <1>0
  <2>1. /\ replies' \in Seq(AnyReply) /\ Len(replies') = Turn(k)
        /\ \A i \in Due : Turn(i) <= Turn(k) => Fits(replies'[Turn(i)], asked[i])
    BY <1>2, <2>0, Replied
  <2>2. TextTypes'
    BY <1>2, <2>1 DEF TextTypes
  <2>3. Due' = Due /\ \A i : Turn(i)' = Turn(i)
    BY <1>2 DEF Due, Turn
  <2>4. \A y, l : Fits(y, l)' = Fits(y, l)
    BY DEF Fits
  <2>5. Turn(k) \in Nat
    <3>1. Len(replies) \in Nat
      BY DEF TextTypes
    <3>2. QED
      BY <3>1
  <2>6. Answering(k)'
    <3>1. Turn(k)' = Len(replies') + (IF Sending' THEN 1 ELSE 0)
      BY <2>1, <2>3, <2>5
    <3>2. \A i \in Due' : Turn(i)' <= Len(replies') => Fits(replies[Turn(i)], asked[i])'
      BY <1>2, <2>1, <2>3, <2>4
    <3>3. QED
      BY <3>1, <3>2 DEF Answering
  <2>7. InOrder(k)'
    BY <1>2, <2>6 DEF InOrder
  <2>8. k \in 0 .. Len(asked')
    <3>1. DOMAIN asked = 1 .. Len(asked) /\ Len(asked) \in Nat
      BY DEF TextTypes
    <3>2. k \in 1 .. Len(asked)
      BY <3>1 DEF Due
    <3>3. QED
      BY <1>2, <3>1, <3>2
  <2>9. GivenUp'
    <3>1. replies'[Len(replies')] = x /\ Len(replies') # 0
      BY <1>2, <2>0 DEF TextTypes
    <3>2. QED
      BY <1>2, <3>1 DEF GivenUp
  <2>10. QED
    BY <2>2, <2>7, <2>8, <2>9 DEF TextInv
<1>3. stalled \in BOOLEAN
  BY DEF TextTypes
<1>4. \/ replies' = Append(replies, r) /\ text' = rest /\ UNCHANGED <<open, net, asked, stalled>>
      \/ /\ replies' = Append(replies, Cut) /\ text' = rest /\ stalled' = TRUE
         /\ UNCHANGED <<open, net, asked>>
      \/ EndSession
  BY DEF SendReply
<1>5. CASE replies' = Append(replies, r) /\ text' = rest /\ UNCHANGED <<open, net, asked, stalled>>
  <2>1. r \in {r, Cut} /\ stalled' \in BOOLEAN /\ ~stalled'
    BY <1>3, <1>5
  <2>2. QED
    BY <1>2, <1>5, <2>1
<1>6. CASE /\ replies' = Append(replies, Cut) /\ text' = rest /\ stalled' = TRUE
           /\ UNCHANGED <<open, net, asked>>
  <2>1. Cut \in {r, Cut} /\ stalled' \in BOOLEAN
    BY <1>6
  <2>2. QED
    BY <1>2, <1>6, <2>1
<1>7. QED
  BY <1>1, <1>4, <1>5, <1>6

LEMMA HandleStep ==
    ASSUME Inv, TextInv, HandleLine
    PROVE  /\ TextInv'
           /\ (\E p \in Payloads : Request(p)) \/ UNCHANGED vars
<1> DEFINE line == SubSeq(text, 1, HasLine - 1)
           rest == SubSeq(text, HasLine + 1, Len(text))
<1>1. ~Sending /\ HasLine # 0 /\ alive /\ ~stalled
  BY DEF HandleLine
<1>2. PICK k \in 0 .. Len(asked) :
          /\ InOrder(k) /\ k + 1 \in 1 .. Len(asked) /\ asked[k + 1] \in Lines
          /\ line = asked[k + 1]
          /\ rest \in Seq(Character)
          /\ \E e : Waiting(asked, k + 1, e, rest \o net)
          /\ k + 1 \in Due <=> ~IsBlank(asked[k + 1])
          /\ Turn(k) = Len(replies)
          /\ Turn(k + 1) = Len(replies) + (IF k + 1 \in Due THEN 1 ELSE 0)
  BY <1>1, NextLine
<1>3. \/ /\ IsBlank(line)
         /\ text' = rest
         /\ UNCHANGED <<vars, open, net, asked, replies, stalled, alive>>
      \/ /\ ~IsBlank(line) /\ ~IsRequest(line)
         /\ SendReply(IF IsCommand(line) THEN Obeyed ELSE Refused, rest)
         /\ UNCHANGED <<vars, alive>>
      \/ /\ IsRequest(line) /\ Len(Payload(line)) > FrameMax
         /\ alive' = FALSE
         /\ UNCHANGED <<vars, connection>>
      \/ /\ IsRequest(line) /\ Len(Payload(line)) <= FrameMax
         /\ Request(Payload(line))
         /\ text' = rest
         /\ UNCHANGED <<open, net, asked, replies, stalled, alive>>
  BY DEF HandleLine
<1> HIDE DEF line, rest
<1>4. TextTypes /\ Len(replies) \in Nat
  BY DEF TextInv, TextTypes
<1>5. \A i \in Due : Turn(i) <= Len(replies) => Fits(replies[Turn(i)], asked[i])
  BY <1>2 DEF InOrder, Answering
<1>6. CASE /\ IsBlank(line)
           /\ text' = rest
           /\ UNCHANGED <<vars, open, net, asked, replies, stalled, alive>>
  <2>1. TextTypes'
    BY <1>2, <1>4, <1>6 DEF TextTypes
  <2>2. Turn(k + 1) = Len(replies)
    BY <1>2, <1>4, <1>6
  <2>3. Answering(k + 1)
    BY <1>1, <1>4, <1>5, <2>2 DEF Answering
  <2>4. Answering(k + 1)'
    BY <1>6, <2>3, SameAnswers DEF vars
  <2>5. InOrder(k + 1)'
    BY <1>2, <1>6, <2>4 DEF InOrder
  <2>6. k + 1 \in 0 .. Len(asked')
    BY <1>2, <1>6
  <2>7. QED
    BY <1>1, <1>6, <2>1, <2>5, <2>6 DEF TextInv, GivenUp
<1>7. CASE /\ ~IsBlank(line) /\ ~IsRequest(line)
           /\ SendReply(IF IsCommand(line) THEN Obeyed ELSE Refused, rest)
           /\ UNCHANGED <<vars, alive>>
  <2> DEFINE r == IF IsCommand(line) THEN Obeyed ELSE Refused
  <2>1. r \in AnyReply /\ Fits(r, line)
    BY <1>2, <1>7, OtherReplies
  <2>2. k + 1 \in Due /\ Turn(k + 1) = Len(replies) + 1
    BY <1>2, <1>7
  <2>3. ~Sending' /\ UNCHANGED <<long, alive>> /\ SendReply(r, rest)
    BY <1>1, <1>7 DEF Sending, vars
  <2> HIDE DEF r
  <2>4. TextInv'
    BY <1>1, <1>2, <1>4, <1>5, <2>1, <2>2, <2>3, ReplyStep
  <2>5. QED
    BY <1>7, <2>4
<1>8. CASE /\ IsRequest(line) /\ Len(Payload(line)) > FrameMax
           /\ alive' = FALSE
           /\ UNCHANGED <<vars, connection>>
  <2>1. TextTypes'
    BY <1>4, <1>8 DEF TextTypes, connection
  <2>2. Answering(k)'
    BY <1>2, <1>8, SameAnswers DEF InOrder, vars, connection
  <2>3. InOrder(k)'
    BY <1>2, <1>8, <2>2 DEF InOrder, connection
  <2>4. k \in 0 .. Len(asked')
    BY <1>8 DEF connection
  <2>5. QED
    BY <1>1, <1>8, <2>1, <2>3, <2>4 DEF TextInv, GivenUp, connection
<1>9. CASE /\ IsRequest(line) /\ Len(Payload(line)) <= FrameMax
           /\ Request(Payload(line))
           /\ text' = rest
           /\ UNCHANGED <<open, net, asked, replies, stalled, alive>>
  <2>1. TextTypes'
    BY <1>2, <1>4, <1>9 DEF TextTypes
  <2>2. Payload(line) \in Payloads /\ frame' = Frame(Payload(line)) /\ Sending'
    BY <1>2, <1>9, RequestLines DEF Request, Sending
  <2>3. k + 1 \in Due /\ Turn(k + 1) = Len(replies) + 1
    BY <1>2, <1>9 DEF IsRequest
  <2>4. Due' = Due /\ \A i : Turn(i)' = Turn(i)
    BY <1>9 DEF Due, Turn
  <2>5. \A r, l : Fits(r, l) => Fits(r, l)'
    <3>1. long' = 0 => long = 0
      <4>1. long \in Nat
        BY LinkAssumption DEF Inv, LinkTypes
      <4>2. QED
        BY <1>9, <4>1 DEF Request
    <3>2. QED
      BY <3>1 DEF Fits
  <2>6. Answering(k + 1)'
    BY <1>2, <1>5, <1>9, <2>2, <2>3, <2>4, <2>5 DEF Answering
  <2>7. InOrder(k + 1)'
    BY <1>2, <1>9, <2>6 DEF InOrder
  <2>8. k + 1 \in 0 .. Len(asked')
    BY <1>2, <1>9
  <2>9. QED
    BY <1>1, <1>9, <2>1, <2>2, <2>7, <2>8 DEF TextInv, GivenUp
<1>10. QED
  BY <1>3, <1>6, <1>7, <1>8, <1>9

LEMMA FinishStep ==
    ASSUME Inv, TextInv, FinishRequest
    PROVE  TextInv'
<1>1. TextTypes
  BY DEF TextInv
<1>2. Sending /\ ~Sending' /\ UNCHANGED <<long, alive>> /\ SendReply(Answered, text)
  BY DEF FinishRequest, Finish, Sending
<1>3. PICK k \in 0 .. Len(asked) : InOrder(k)
  BY DEF TextInv
<1>4. /\ k \in Due /\ IsRequest(asked[k]) /\ Len(Payload(asked[k])) <= FrameMax
      /\ frame = Frame(Payload(asked[k]))
      /\ Turn(k) = Len(replies) + 1
      /\ \A i \in Due : Turn(i) <= Len(replies) => Fits(replies[Turn(i)], asked[i])
  BY <1>2, <1>3 DEF InOrder, Answering
<1>5. asked[k] \in Lines
  BY <1>1, <1>4, DueFacts DEF TextTypes
<1>6. Answered \in AnyReply /\ Fits(Answered, asked[k])
  BY <1>4, <1>5, AnswerFits
<1>7. text \in Seq(Character) /\ \E e : Waiting(asked, k, e, text \o net)
  BY <1>1, <1>3 DEF InOrder, TextTypes
<1>8. ~stalled
  BY <1>2 DEF TextInv, GivenUp
<1>9. QED
  BY <1>1, <1>2, <1>4, <1>6, <1>7, <1>8, ReplyStep

LEMMA ElmStep ==
    ASSUME Inv, TextInv, [ElmNext]_elmVars
    PROVE  [Next]_vars /\ TextInv'
<1>1. ASSUME UNCHANGED <<frame, long, connection, alive>> PROVE TextInv'
  <2>1. PICK k \in 0 .. Len(asked) : InOrder(k)
    BY DEF TextInv
  <2>2. Answering(k)'
    BY <1>1, <2>1, SameAnswers DEF InOrder, connection
  <2>3. InOrder(k)'
    BY <1>1, <2>1, <2>2 DEF InOrder, connection
  <2>4. TextTypes'
    BY <1>1 DEF TextInv, TextTypes, connection
  <2>5. GivenUp'
    BY <1>1 DEF TextInv, GivenUp, Sending, connection
  <2>6. QED
    BY <1>1, <2>1, <2>3, <2>4, <2>5 DEF TextInv, connection
<1>2. CASE \E l \in Lines : Ask(l)
  BY <1>2, AskStep DEF Ask
<1>3. CASE Hangup
  <2>1. PICK k \in 0 .. Len(asked) : InOrder(k)
    BY DEF TextInv
  <2>2. UNCHANGED <<vars, net, text, asked, replies, stalled, alive>> /\ open' \in BOOLEAN
    BY <1>3 DEF Hangup
  <2>3. Answering(k)'
    BY <2>1, <2>2, SameAnswers DEF InOrder, vars
  <2>4. InOrder(k)'
    BY <2>1, <2>2, <2>3 DEF InOrder
  <2>5. TextTypes'
    BY <2>2 DEF TextInv, TextTypes
  <2>6. GivenUp'
    BY <2>2 DEF TextInv, GivenUp, Sending, vars
  <2>7. QED
    BY <2>1, <2>2, <2>4, <2>5, <2>6 DEF TextInv
<1>4. CASE Recv
  BY <1>4, RecvStep DEF Recv
<1>5. CASE RecvEnd
  <2>1. EndSession /\ UNCHANGED <<vars, alive>> /\ ~Sending
    BY <1>5 DEF RecvEnd, AtRecv
  <2>2. ~Sending' /\ alive' \in BOOLEAN
    BY <2>1 DEF Sending, vars, TextInv, TextTypes
  <2>3. QED
    BY <2>1, <2>2, EndStep
<1>6. CASE HandleLine
  BY <1>6, HandleStep DEF Next
<1>7. CASE Exchange
  <2>1. Send \/ \E d \in Flips : SendFlipped(d)
    BY <1>7 DEF Exchange
  <2>2. UNCHANGED <<frame, long, connection, alive>>
    BY <1>7, <2>1 DEF Exchange, Send, SendFlipped
  <2>3. QED
    BY <1>1, <2>1, <2>2 DEF Next
<1>8. CASE FinishRequest
  BY <1>8, FinishStep DEF FinishRequest, Next
<1>9. CASE UNCHANGED elmVars
  BY <1>1, <1>9 DEF elmVars, vars
<1>10. QED
  BY <1>2, <1>3, <1>4, <1>5, <1>6, <1>7, <1>8, <1>9 DEF ElmNext

LEMMA ElmInvariant == ElmSpec => [](Inv /\ TextInv)
<1>1. ElmInit => Inv /\ TextInv
  <2> SUFFICES ASSUME ElmInit PROVE Inv /\ TextInv
    OBVIOUS
  <2>1. Inv
    BY LinkInductive DEF ElmInit
  <2>2. Fresh /\ open \in BOOLEAN /\ alive \in BOOLEAN
    BY DEF ElmInit, Init, Fresh, Sending
  <2>3. QED
    BY <2>1, <2>2, FreshInOrder
<1>2. Inv /\ TextInv /\ [ElmNext]_elmVars => (Inv /\ TextInv)'
  BY ElmStep, LinkInductive
<1>3. QED
  BY <1>1, <1>2, PTL DEF ElmSpec

(* The text layer uses the link as the link is meant to be used: requests  *)
(* that fit, one at a time (serve and handle_line against KLineTransport   *)
(* of bridge_min.py).                                                      *)
THEOREM TextKeepsToLink == ElmSpec => Init /\ [][Next]_vars
<1>1. ElmInit => Init
  BY DEF ElmInit
<1>2. Inv /\ TextInv /\ [ElmNext]_elmVars => [Next]_vars
  BY ElmStep
<1>3. QED
  BY <1>1, <1>2, ElmInvariant, PTL DEF ElmSpec

(* What holds of the link holds of it behind the text layer.               *)
THEOREM LinkBehindText == ElmSpec => [](TypeOK /\ Aligned /\ NothingElseAccepted)
  BY ElmInvariant, InvTypeOK, InvAligned, InvAccepted, PTL

(* Each line gets its own reply or what a timeout of sendall has left of   *)
(* it, in the order of the lines, wherever TCP cuts the text and whatever  *)
(* earlier connections, broken in the middle of a line or of a request,    *)
(* have left behind; a reply that was given up takes no other line with it *)
(* (serve and handle_line of bridge_min.py).                               *)
THEOREM RepliesMatchLines == ElmSpec => []RepliesInOrder
  BY ElmInvariant, InvReplies, PTL
=============================================================================
