------------------------------- MODULE Elm327 -------------------------------
(***************************************************************************)
(* The bridge in front of the K-line link: serve() and ELM327Session of    *)
(* simulador/firmware_min/bridge_min.py (obd2_bridge.py has the same). A   *)
(* client sends lines of text over TCP, which cuts them anywhere, and may  *)
(* close the connection at any time or leave replies unread; the server    *)
(* takes what has arrived, answers line by line and, for a request, waits  *)
(* for the firmware. Its socket gives up any call after 0.05 seconds.      *)
(***************************************************************************)
EXTENDS FrameLink, SequencesExt

CONSTANTS
    Lines,      \* what the client may write on a line
    MaxLines,   \* bound on the lines of one connection
    Cuts        \* bound on the parts in which a text arrives: so many characters, or all

(* Characters: 0 .. 15 are the hexadecimal digits, of which 10 is "A".     *)
CR == 16
BLANK == 17
LETTER_T == 18
Character == 0 .. 18

ASSUME ElmAssumption ==
    /\ \A l \in Lines : l \in Seq(Character \ {CR})
    /\ MaxLines \in Nat
    /\ Cuts \subseteq Nat \ {0}

VARIABLES
    open,       \* the client has the connection open
    net,        \* text on its way to the server
    text,       \* buf of serve()
    asked,      \* history: lines that the client has sent on this connection
    replies,    \* replies on this connection
    stalled,    \* a reply was given up: what is left in text waits for the next recv
    alive       \* the server runs

connection == <<open, net, text, asked, replies, stalled>>
elmVars == <<vars, connection, alive>>

ElmInit ==
    /\ Init
    /\ open = TRUE /\ net = <<>> /\ text = <<>> /\ asked = <<>> /\ replies = <<>>
    /\ stalled = FALSE /\ alive = TRUE

-----------------------------------------------------------------------------
(* What handle_line makes of a line                                        *)

Stripped(l) ==
    LET first == SelectInSeq(l, LAMBDA c : c # BLANK)
    IN  IF first = 0 THEN <<>> ELSE SubSeq(l, first, Len(l))

IsBlank(l) == \A i \in DOMAIN l : l[i] = BLANK
IsCommand(l) == IsPrefix(<<10, LETTER_T>>, Stripped(l))

Digits(l) == SelectSeq(l, LAMBDA c : c \in 0 .. 15)
IsRequest(l) == ~IsBlank(l) /\ ~IsCommand(l) /\ Len(Digits(l)) % 2 = 0 /\ Digits(l) # <<>>
Payload(l) == [i \in 1 .. Len(Digits(l)) \div 2 |-> 16 * Digits(l)[2 * i - 1] + Digits(l)[2 * i]]

(* The payloads of the link are those that the lines make.                 *)
ASSUME PayloadAssumption ==
    \A l \in Lines : IsRequest(l) /\ Len(Payload(l)) <= FrameMax => Payload(l) \in Payloads

Reply(kind, data) == [kind |-> kind, data |-> data]
Refused == Reply("?", <<>>)
Obeyed == Reply("OK", <<>>)
Cut == Reply("cut", <<>>)       \* a beginning of the reply, without its prompt, or nothing

(* The firmware's answer names the request that reached it.                *)
Answered == IF accepted = <<>> THEN Reply("NO DATA", <<>>) ELSE Reply("data", Head(accepted))

-----------------------------------------------------------------------------
(* The client                                                              *)

(* What is sent during a request waits in net as if it were sent after it. *)
Ask(l) ==
    /\ open /\ ~Sending /\ Len(asked) < MaxLines
    /\ net' = net \o Append(l, CR)
    /\ asked' = Append(asked, l)
    /\ UNCHANGED <<vars, open, text, replies, stalled, alive>>

(* The connection is closed; what is on its way may not arrive.            *)
Hangup ==
    /\ open
    /\ open' = FALSE
    /\ UNCHANGED <<vars, net, text, asked, replies, stalled, alive>>

-----------------------------------------------------------------------------
(* The server                                                              *)

HasLine == SelectInSeq(text, LAMBDA c : c = CR)
AtRecv == alive /\ ~Sending /\ (HasLine = 0 \/ stalled)

(* recv(4096) returns any part of what is on its way. While nothing is, it *)
(* times out and is called again.                                          *)
Recv ==
    /\ AtRecv
    /\ \E n \in { k \in Cuts \cup {Len(net)} : k \in 1 .. Len(net) } :
        /\ text' = text \o SubSeq(net, 1, n)
        /\ net' = SubSeq(net, n + 1, Len(net))
    /\ stalled' = FALSE
    /\ UNCHANGED <<vars, open, asked, replies, alive>>

(* Fault: the text of the last connection is kept.                         *)
EndSessionKeepsText ==
    /\ open' = TRUE /\ net' = <<>> /\ UNCHANGED text /\ asked' = <<>> /\ replies' = <<>>
    /\ stalled' = FALSE

(* The connection is closed, and the next one is accepted with an empty    *)
(* buffer; the transport and the firmware go on.                           *)
EndSession ==
    /\ open' = TRUE /\ net' = <<>> /\ text' = <<>> /\ asked' = <<>> /\ replies' = <<>>
    /\ stalled' = FALSE

(* recv returns nothing, or fails, after the client has closed.            *)
RecvEnd ==
    /\ AtRecv /\ ~open
    /\ EndSession
    /\ UNCHANGED <<vars, alive>>

(* sendall sends the reply; or it times out, because the client does not   *)
(* read, and socket.timeout leaves the loop over the lines for the next    *)
(* recv; or it fails, which it may do when the client has closed.          *)
SendReply(r, rest) ==
    \/ /\ replies' = Append(replies, r) /\ text' = rest
       /\ UNCHANGED <<open, net, asked, stalled>>
    \/ /\ replies' = Append(replies, Cut) /\ text' = rest
       /\ stalled' = TRUE
       /\ UNCHANGED <<open, net, asked>>
    \/ ~open /\ EndSession

(* The next line of the buffer is no request, or one too long for a frame, *)
(* whose ValueError nobody catches, or it is framed and sent.              *)
HandleLine ==
    /\ alive /\ ~Sending /\ HasLine # 0 /\ ~stalled
    /\ LET line == SubSeq(text, 1, HasLine - 1)
           rest == SubSeq(text, HasLine + 1, Len(text))
       IN  \/ /\ IsBlank(line)
              /\ text' = rest
              /\ UNCHANGED <<vars, open, net, asked, replies, stalled, alive>>
           \/ /\ ~IsBlank(line) /\ ~IsRequest(line)
              /\ SendReply(IF IsCommand(line) THEN Obeyed ELSE Refused, rest)
              /\ UNCHANGED <<vars, alive>>
           \/ /\ IsRequest(line) /\ Len(Payload(line)) > FrameMax
              /\ alive' = FALSE
              /\ UNCHANGED <<vars, connection>>
           \/ /\ IsRequest(line) /\ Len(Payload(line)) <= FrameMax
              /\ Request(Payload(line))
              /\ text' = rest
              /\ UNCHANGED <<open, net, asked, replies, stalled, alive>>

(* The byte-by-byte exchange with the firmware                             *)
Exchange ==
    /\ Send \/ \E d \in Flips : SendFlipped(d)
    /\ UNCHANGED <<connection, alive>>

FinishRequest ==
    /\ Finish
    /\ SendReply(Answered, text)
    /\ UNCHANGED alive

ElmNext ==
    \/ \E l \in Lines : Ask(l)
    \/ Hangup
    \/ Recv \/ RecvEnd \/ HandleLine \/ Exchange \/ FinishRequest

ElmSpec == ElmInit /\ [][ElmNext]_elmVars

-----------------------------------------------------------------------------
Fits(r, l) ==
    \/ r = Cut
    \/ IF IsRequest(l)
       THEN \/ r = Reply("NO DATA", <<>>)
            \/ r.kind = "data" /\ (long = 0 => r.data = Payload(l))
       ELSE r = IF IsCommand(l) THEN Obeyed ELSE Refused

(* The lines that ask for a reply, and the place of one among them.        *)
Due == { i \in DOMAIN asked : ~IsBlank(asked[i]) }
Turn(i) == Cardinality({ j \in Due : j <= i })

(* The first line of the buffer is the one whose turn is next.             *)
NextWaits ==
    \E k \in DOMAIN asked :
        Turn(k - 1) = Len(replies) /\ SubSeq(text, 1, HasLine - 1) = asked[k]

(* Each line that is not blank gets one reply, in the order of the lines,  *)
(* and it is its own or what a timeout has left of it: whatever TCP makes  *)
(* of the lines, whatever noise there is on the K-line and whatever        *)
(* earlier connections left behind. A line is neither lost nor handled     *)
(* again because the reply before it was given up. When everything that    *)
(* was sent has arrived, all lines have been answered, unless the last     *)
(* reply was given up; then the other lines wait in the buffer until the   *)
(* client writes again. What the firmware got is known without long        *)
(* requests only.                                                          *)
RepliesInOrder ==
    /\ Len(replies) <= Cardinality(Due)
    /\ \A i \in Due : Turn(i) <= Len(replies) => Fits(replies[Turn(i)], asked[i])
    /\ ~Sending /\ HasLine # 0 => NextWaits
    /\ AtRecv /\ open /\ net = <<>> =>
          \/ Len(replies) = Cardinality(Due)
          \/ stalled /\ HasLine # 0 /\ replies[Len(replies)] = Cut
=============================================================================
