--------------------------- MODULE SimInterrupts ---------------------------
(***************************************************************************)
(* Traps, interrupts and the watchdog of the simulated CPU                 *)
(* (simulador/c166sim.py): what one step() does around an instruction, for *)
(* every program that pops what it pushes and returns from the frames it   *)
(* entered. The stack is a sequence of its items; the stack pointer that   *)
(* the code keeps as a watermark is the length of it.                      *)
(***************************************************************************)
EXTENDS Integers, Sequences, FiniteSets

CONSTANTS
    TimerMod,       \* values of the synthetic timer and of CC26 (2^16)
    PendingDelay,   \* PENDING_OP_DELAY (50)
    ReceiveDelay,   \* ASC0_RX_ISR_DELAY (20)
    WdtLimit,       \* the watchdog overflows here (2^16)
    WdtEnabled,     \* _wdt_enabled
    MaxStack,       \* bound on the items of the stack
    Instructions    \* the instructions that the program may use

ASSUME InterruptsAssumption ==
    /\ TimerMod \in Nat \ {0} /\ WdtLimit \in Nat \ {0} /\ MaxStack \in Nat
    /\ PendingDelay \in Nat \ {0, 1} /\ ReceiveDelay \in Nat \ {0, 1}
    /\ WdtEnabled \in BOOLEAN
    /\ Instructions \subseteq {"plain", "window", "push", "pop", "trap", "reti", "compare",
                               "request", "clear", "taken", "srvwdt"}

VARIABLES
    cpu,        \* the state that step() works on, see Machine
    entered,    \* history: the handler that the last step entered, "none", or "reset"
    late,       \* history: the delay of a byte has run out and its flag is still set
    inner       \* history: hardware frames on the stack when the window was opened

vars == <<cpu, entered, late, inner>>

NONE == -1
Hardware == {"cc26", "pending", "receive"}
Frames == Hardware \cup {"trap"}

Machine ==
    [stack : Seq(Frames \cup {"data"}),
     mark : {NONE} \cup Nat,                    \* _hw_irq_sp_watermark
     window : Nat,                              \* instructions left of ext_active
     timer : Int, compare : Int,                \* _hw_timer, CC26
     pending : BOOLEAN,                         \* the bit at PENDING_OP_BIT_ADDR
     pendingIn : Int,                           \* _pending_op_deadline - _cycle, or NONE
     rir : BOOLEAN,                             \* S0RIC.S0RIR
     receiveIn : Int,                           \* _asc0_rx_deadline - _cycle, or NONE
     wdt : Int, half : Int]                     \* _wdt, _wdt_tick_accum

Init ==
    /\ cpu = [stack |-> <<>>, mark |-> NONE, window |-> 0, timer |-> 0, compare |-> 0,
              pending |-> FALSE, pendingIn |-> NONE, rir |-> FALSE, receiveIn |-> NONE,
              wdt |-> 0, half |-> 0]
    /\ entered = "none" /\ late = FALSE /\ inner = 0

Top(c) == c.stack[Len(c.stack)]
Pushed(c, item) == [c EXCEPT !.stack = Append(@, item)]
Popped(c) == [c EXCEPT !.stack = SubSeq(@, 1, Len(@) - 1)]

-----------------------------------------------------------------------------
(* The instructions                                                        *)

(* Fault: every RETI ends the interrupt.                                   *)
ReturnedAlways(c) == [Popped(c) EXCEPT !.mark = NONE]

(* RETI: the interrupt in flight ends when the stack is back where it was  *)
(* before its frame.                                                       *)
Returned(c) ==
    LET d == Popped(c)
    IN  IF Len(d.stack) <= d.mark THEN [d EXCEPT !.mark = NONE] ELSE d

(* What an instruction may make of the state. The windows of EXTP, EXTS,   *)
(* EXTR and ATOMIC differ in what they do to addresses and not here.       *)
Executed(c, i) ==
    CASE i = "plain" -> {c}
      [] i = "window" -> { [c EXCEPT !.window = n] : n \in 1 .. 2 }
      [] i = "push" -> { d \in {Pushed(c, "data")} : Len(c.stack) < MaxStack }
      [] i = "pop" -> { d \in {Popped(c)} : c.stack # <<>> /\ Top(c) = "data" }
      [] i = "trap" -> { d \in {Pushed(c, "trap")} : Len(c.stack) < MaxStack }
      [] i = "reti" -> { d \in {Returned(c)} : c.stack # <<>> /\ Top(c) \in Frames }
      [] i = "compare" -> { [c EXCEPT !.compare = v] : v \in 0 .. TimerMod - 1 }
      [] i = "request" -> {[c EXCEPT !.pending = TRUE]}
      [] i = "clear" -> {[c EXCEPT !.pending = FALSE]}
      [] i = "taken" -> {[c EXCEPT !.rir = FALSE]}
      [] i = "srvwdt" -> {[c EXCEPT !.wdt = 0]}

-----------------------------------------------------------------------------
(* What step() does after the instruction, in its order                    *)

(* One watchdog tick for two instructions.                                 *)
Watched(c) ==
    IF ~WdtEnabled THEN c
    ELSE [c EXCEPT !.half = 1 - @, !.wdt = IF c.half = 1 THEN @ + 1 ELSE @]

(* Fault: the reset forgets the interrupt in flight.                       *)
ResetKeepsMark(c) ==
    [c EXCEPT !.stack = <<>>, !.window = 0, !.timer = 0, !.pendingIn = NONE,
              !.receiveIn = NONE, !.wdt = 0, !.half = 0]

(* _watchdog_reset: registers and synthetic peripherals restart, memory    *)
(* (CC26, the pending bit, S0RIR) does not.                                *)
Reset(c) ==
    [c EXCEPT !.stack = <<>>, !.mark = NONE, !.window = 0, !.timer = 0, !.pendingIn = NONE,
              !.receiveIn = NONE, !.wdt = 0, !.half = 0]

(* The window that was open before the instruction loses one, unless the   *)
(* instruction has opened another.                                         *)
Narrowed(c, before, i) ==
    IF before > 0 /\ i # "window" THEN [c EXCEPT !.window = before - 1] ELSE c

Busy(c) == c.mark # NONE \/ c.window > 0

Entry(c, handler) == [Pushed(c, handler) EXCEPT !.mark = Len(c.stack)]

(* Fault: the match interrupts a window.                                    *)
TimedInWindow(c) ==
    LET d == [c EXCEPT !.timer = (@ + 1) % TimerMod]
    IN  IF d.mark = NONE /\ d.compare # 0 /\ d.timer = d.compare THEN Entry(d, "cc26") ELSE d

(* _check_hw_timer_interrupt: a match while the CPU is busy is lost.       *)
Timed(c) ==
    LET d == [c EXCEPT !.timer = (@ + 1) % TimerMod]
    IN  IF ~Busy(d) /\ d.compare # 0 /\ d.timer = d.compare THEN Entry(d, "cc26") ELSE d

(* _check_pending_op_isr                                                   *)
Requested(c) ==
    CASE c.pendingIn > 1 -> [c EXCEPT !.pendingIn = @ - 1]
      [] c.pendingIn \in {0, 1} ->
            LET d == [c EXCEPT !.pendingIn = NONE] IN IF Busy(c) THEN d ELSE Entry(d, "pending")
      [] OTHER -> IF c.pending THEN [c EXCEPT !.pendingIn = PendingDelay] ELSE c

(* Faults: the flag is not looked at again when the delay has run out, or  *)
(* a busy CPU costs the whole delay again.                                 *)
ReceivedUnchecked(c) ==
    CASE c.receiveIn > 1 -> [c EXCEPT !.receiveIn = @ - 1]
      [] c.receiveIn \in {0, 1} ->
            IF Busy(c) THEN [c EXCEPT !.receiveIn = 1]
            ELSE Entry([c EXCEPT !.receiveIn = NONE], "receive")
      [] OTHER -> IF c.rir THEN [c EXCEPT !.receiveIn = ReceiveDelay] ELSE c
ReceivedRetryLater(c) ==
    CASE c.receiveIn > 1 -> [c EXCEPT !.receiveIn = @ - 1]
      [] c.receiveIn \in {0, 1} ->
            IF ~c.rir THEN [c EXCEPT !.receiveIn = NONE]
            ELSE IF Busy(c) THEN [c EXCEPT !.receiveIn = ReceiveDelay]
            ELSE Entry([c EXCEPT !.receiveIn = NONE], "receive")
      [] OTHER -> IF c.rir THEN [c EXCEPT !.receiveIn = ReceiveDelay] ELSE c

(* _check_asc0_rx_isr                                                      *)
Received(c) ==
    CASE c.receiveIn > 1 -> [c EXCEPT !.receiveIn = @ - 1]
      [] c.receiveIn \in {0, 1} ->
            IF ~c.rir THEN [c EXCEPT !.receiveIn = NONE]
            ELSE IF Busy(c) THEN [c EXCEPT !.receiveIn = 1]
            ELSE Entry([c EXCEPT !.receiveIn = NONE], "receive")
      [] OTHER -> IF c.rir THEN [c EXCEPT !.receiveIn = ReceiveDelay] ELSE c

HardwareFrames(c) == { k \in DOMAIN c.stack : c.stack[k] \in Hardware }

(* step(): instruction, watchdog, window, timer, pending operation, byte.  *)
Step(i) ==
    \E d \in Executed(cpu, i) :
        LET w == Watched(d)
            n == Narrowed(w, cpu.window, i)
            c == Received(Requested(Timed(n)))
        IN  IF w.wdt >= WdtLimit
            THEN /\ cpu' = Reset(w)
                 /\ entered' = "reset" /\ late' = FALSE /\ inner' = 0
            ELSE /\ Len(c.stack) <= MaxStack
                 /\ cpu' = c
                 /\ entered' = IF c.mark # n.mark THEN Top(c) ELSE "none"
                 /\ late' = ((late \/ cpu.receiveIn \in {0, 1}) /\ entered' # "receive" /\ c.rir)
                 /\ inner' = IF i = "window" THEN Cardinality(HardwareFrames(d)) ELSE inner

(* uart_inject_rx_byte, called between two steps.                          *)
Inject ==
    /\ cpu' = [cpu EXCEPT !.rir = TRUE]
    /\ entered' = "none"
    /\ UNCHANGED <<late, inner>>

Next == Inject \/ \E i \in Instructions : Step(i)

Spec == Init /\ [][Next]_vars

-----------------------------------------------------------------------------
(* The guard against nesting: there is a watermark exactly while a         *)
(* hardware handler is in flight, it is the place of that handler's frame, *)
(* and there is never a second one, whatever traps the handler takes and   *)
(* whenever the watchdog resets the CPU.                                   *)
OneHandlerInFlight ==
    HardwareFrames(cpu) = IF cpu.mark = NONE THEN {} ELSE {cpu.mark + 1}

(* No hardware handler is entered in a window of the code it interrupts:   *)
(* the window is not saved with the frame, so the handler would use it up. *)
WindowsAreNotInterrupted ==
    cpu.window > 0 => Cardinality(HardwareFrames(cpu)) <= inner

(* The receive handler is entered for a byte that nobody has taken, though *)
(* the program may also poll and the delay may outlive the flag.           *)
HandlerFindsByte == entered = "receive" => cpu.rir

(* A byte whose delay has run out waits only while the CPU is busy.        *)
ReceiveWaitsOnlyWhileBusy == late => Busy(cpu)
=============================================================================
