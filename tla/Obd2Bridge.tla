----------------------------- MODULE Obd2Bridge -----------------------------
(***************************************************************************)
(* The bridge to the full image (KLineTransport of simulador/              *)
(* obd2_bridge.py) over the simulated CPU of SimInterrupts: it hands over  *)
(* the frame byte by byte, waits for each byte to be consumed, collects    *)
(* the answer in chunks of steps, and sends the frame again when the       *)
(* watchdog has reset the CPU. Each turn of the bridge is one step() of    *)
(* the CPU, whose program is any that reads the byte in its receive        *)
(* handler, or polls.                                                      *)
(***************************************************************************)
EXTENDS SimInterrupts

CONSTANTS
    FrameBytes,     \* bytes of a frame
    StepsPerByte,   \* STEPS_PER_BYTE (2,000): ceiling of the wait for one byte
    ChunkSteps,     \* chunk (2,000)
    Chunks,         \* STEPS_WAIT_RESPONSE in chunks (200)
    MaxQuiet,       \* chunks without a byte that an answer in progress survives (20)
    MaxRetries      \* MAX_RESET_RETRIES (6)

ASSUME BridgeAssumption ==
    /\ {FrameBytes, StepsPerByte, ChunkSteps, Chunks} \subseteq Nat \ {0}
    /\ {MaxQuiet, MaxRetries} \subseteq Nat

VARIABLES
    phase,      \* "idle", "send", "wait" for a byte, "collect"
    left,       \* bytes of the frame still to be sent
    steps,      \* steps left of the wait or the chunk
    saw,        \* saw_pending
    collected,  \* bytes in collected
    chunks,     \* budget, in chunks
    retries,    \* retries_left
    wasReset,   \* wdt_reset_count differs from last_reset_count
    quiet,      \* idle_ticks_without_data
    tx,         \* bytes in uart_tx_queue
    unread      \* history: the byte in S0RBUF is "read", "due" to be read by the receive
                \* handler, or "excused": the wait timed out, a reset or a poll came between

bridge == <<phase, left, steps, saw, collected, chunks, retries, wasReset, quiet>>
bridgeVars == <<vars, bridge, tx, unread>>

BridgeInit ==
    /\ Init
    /\ phase = "idle" /\ left = 0 /\ steps = 0 /\ saw = FALSE /\ collected = FALSE
    /\ chunks = 0 /\ retries = 0 /\ wasReset = FALSE /\ quiet = 0
    /\ tx = FALSE /\ unread = "read"

-----------------------------------------------------------------------------
(* The image                                                               *)

ReceiveInFlight == \E k \in DOMAIN cpu.stack : cpu.stack[k] = "receive"

(* Fault: the byte is taken for consumed when its flag is down.            *)
PendingFlagOnly == cpu'.rir

(* What the last step leaves pending: the flag or a handler in flight.     *)
Pending == cpu'.rir \/ cpu'.mark # NONE

(* saw_pending, and no longer pending                                      *)
Consumed == saw /\ ~Pending

(* What excuses a byte from being read by the handler.                     *)
Excuse(i) ==
    \/ i = "taken" /\ ~ReceiveInFlight
    \/ entered' = "reset"
    \/ phase = "wait" /\ steps = 1 /\ ~Consumed

(* One step() of the image: an instruction, which may read S0RBUF ("read") *)
(* or write S0TBUF ("transmit"). The receive handler has read the byte     *)
(* when it returns.                                                        *)
Image ==
    \E i \in Instructions \cup {"read", "transmit"} :
        /\ Step(IF i \in Instructions THEN i ELSE "plain")
        /\ i = "reti" /\ Top(cpu) = "receive" => unread # "due"
        /\ unread' = IF i = "read" THEN "read"
                     ELSE IF unread = "due" /\ Excuse(i) THEN "excused" ELSE unread
        /\ tx' = (tx \/ i = "transmit")

(* idle_tick, between requests                                             *)
Idle ==
    /\ phase = "idle"
    /\ Image
    /\ UNCHANGED bridge

-----------------------------------------------------------------------------
(* request()                                                               *)

Request ==
    /\ phase = "idle"
    /\ phase' = "send" /\ left' = FrameBytes
    /\ collected' = FALSE
    /\ chunks' = Chunks /\ retries' = MaxRetries /\ quiet' = 0
    /\ UNCHANGED <<vars, steps, saw, wasReset, tx, unread>>

(* _send_frame: uart_inject_rx_byte and then _wait_byte_consumed           *)
SendByte ==
    /\ phase = "send"
    /\ Inject
    /\ phase' = "wait" /\ left' = left - 1 /\ steps' = StepsPerByte /\ saw' = FALSE
    /\ unread' = "due"
    /\ UNCHANGED <<collected, chunks, retries, wasReset, quiet, tx>>

(* The wait ends with the byte consumed or at its ceiling. The resets that *)
(* the first attempt meets while it sends go unnoticed, since              *)
(* last_reset_count is read behind it; those of a resend do not.           *)
WaitByte ==
    /\ phase = "wait"
    /\ Image
    /\ LET over == Consumed \/ steps = 1
           sent == over /\ left = 0
       IN  /\ phase' = IF sent THEN "collect" ELSE IF over THEN "send" ELSE "wait"
           /\ steps' = IF sent THEN ChunkSteps ELSE IF over THEN 0 ELSE steps - 1
           /\ saw' = (~over /\ (saw \/ Pending))
    /\ wasReset' = (retries < MaxRetries /\ (wasReset \/ entered' = "reset"))
    /\ UNCHANGED <<left, collected, chunks, retries, quiet>>

Collect ==
    /\ phase = "collect" /\ steps > 0
    /\ Image
    /\ steps' = steps - 1
    /\ wasReset' = (wasReset \/ entered' = "reset")
    /\ UNCHANGED <<phase, left, saw, collected, chunks, retries, quiet>>

(* The locals of request() end with it.                                    *)
Return ==
    /\ phase' = "idle" /\ left' = 0 /\ steps' = 0 /\ saw' = FALSE /\ collected' = FALSE
    /\ chunks' = 0 /\ retries' = 0 /\ wasReset' = FALSE /\ quiet' = 0

(* Fault: a retry is not counted.                                          *)
RetryUncounted ==
    /\ phase = "collect" /\ steps = 0 /\ wasReset
    /\ IF retries = 0 \/ collected
       THEN Return
       ELSE /\ phase' = "send" /\ left' = FrameBytes
            /\ chunks' = Chunks /\ quiet' = 0 /\ wasReset' = FALSE
            /\ UNCHANGED <<steps, saw, collected, retries>>
    /\ UNCHANGED <<vars, tx, unread>>

(* At the end of a chunk in which the CPU was reset the frame is sent      *)
(* again, with the whole budget, unless something has been collected.      *)
Retry ==
    /\ phase = "collect" /\ steps = 0 /\ wasReset
    /\ IF retries = 0 \/ collected
       THEN Return
       ELSE /\ phase' = "send" /\ left' = FrameBytes /\ retries' = retries - 1
            /\ chunks' = Chunks /\ quiet' = 0 /\ wasReset' = FALSE
            /\ UNCHANGED <<steps, saw, collected>>
    /\ UNCHANGED <<vars, tx, unread>>

(* At the end of any other chunk the bytes of the answer are taken; the    *)
(* answer is over when it has been quiet for long enough, or the budget    *)
(* is used up.                                                             *)
TakeAnswer ==
    /\ phase = "collect" /\ steps = 0 /\ ~wasReset
    /\ tx' = FALSE
    /\ LET silent == IF tx THEN 0 ELSE IF collected THEN quiet + 1 ELSE quiet
       IN  IF silent > MaxQuiet \/ chunks = 1
           THEN Return
           ELSE /\ collected' = (collected \/ tx) /\ quiet' = silent
                /\ chunks' = chunks - 1 /\ steps' = ChunkSteps
                /\ UNCHANGED <<phase, left, saw, retries, wasReset>>
    /\ UNCHANGED <<vars, unread>>

BridgeStep == SendByte \/ WaitByte \/ Collect \/ Retry \/ TakeAnswer

BridgeNext == Idle \/ Request \/ BridgeStep

BridgeSpec == BridgeInit /\ [][BridgeNext]_bridgeVars

-----------------------------------------------------------------------------
(* No byte is written over one that the receive handler of the image still *)
(* has to read, unless the wait for that one has reached its ceiling or    *)
(* the CPU was reset (_wait_byte_consumed waits for the handler's RETI     *)
(* because the flag falls long before the handler reads S0RBUF).           *)
NoByteOverwritten == [][phase = "send" /\ phase' = "wait" => unread # "due"]_bridgeVars

(* Where request() is: bytes still to be sent and waited for.              *)
Stage == IF phase = "send" THEN 2 * left + 1 ELSE IF phase = "wait" THEN 2 * left + 2 ELSE 0

(* request() returns however often the watchdog resets the CPU: a reset    *)
(* renews the budget of steps, but every turn of the bridge brings the     *)
(* request nearer to its end, by the attempts, the chunks, the bytes or    *)
(* the steps that are left to it.                                          *)
RequestEnds ==
    [][phase # "idle" =>
        \/ phase' = "idle"
        \/ retries' < retries
        \/ retries' = retries /\ chunks' < chunks
        \/ retries' = retries /\ chunks' = chunks /\ Stage' < Stage
        \/ retries' = retries /\ chunks' = chunks /\ Stage' = Stage /\ steps' < steps]_bridgeVars
=============================================================================
