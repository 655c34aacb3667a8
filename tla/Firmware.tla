------------------------------ MODULE Firmware ------------------------------
(***************************************************************************)
(* The whole main loop of the firmware (simulador/firmware_min/src,        *)
(* 99_footer.asm): a request is received and answered (Diag), then the     *)
(* scheduler runs one step (Scheduler), and its tick lets the trouble      *)
(* codes decay (Dtc). The loop turns only when a frame arrives.            *)
(***************************************************************************)
EXTENDS Diag, Scheduler

CONSTANT LoopDelta  \* time units that an iteration stands for (50)

(* The accumulator never wraps: 50 + 250.                                  *)
ASSUME FirmwareAssumption ==
    LoopDelta \in Nat \ {0} /\ Deltas = {LoopDelta} /\ LoopDelta + T1Limit < ClockMod

VARIABLE overdue    \* history: scheduler steps, from 1, that a condemned code has outlived

all == <<vars, clock, overdue>>

FirmwareInit ==
    /\ Init
    /\ SchedulerInit
    /\ overdue = [e \in Entry |-> 0]

(* The codes that a selective clear of the state st condemns.              *)
Condemned(st) == { e \in st.confirmed : Table[e].hasStatus /\ Ages(e) }

Dispatch ==
    /\ Handle
    /\ UNCHANGED clock
    /\ overdue' = IF erased' # erased
                  THEN [e \in Entry |-> IF overdue[e] = 0 /\ e \in Condemned(dtc)
                                        THEN 1 ELSE overdue[e]]
                  ELSE overdue

(* Fault: the tick leaves the codes alone.                                 *)
TickWithoutDecay ==
    /\ pc = "schedule" /\ pc' = "receive"
    /\ Tick(LoopDelta)
    /\ overdue' = [e \in Entry |-> IF overdue[e] # 0 /\ e \in dtc.confirmed
                                   THEN overdue[e] + 1 ELSE 0]
    /\ UNCHANGED <<frame, tx, security>>

(* SCH_STEP: with a tick of the scheduler the trouble codes decay.         *)
ScheduleTick ==
    /\ pc = "schedule" /\ pc' = "receive"
    /\ Tick(LoopDelta)
    /\ dtc' = Decayed(dtc)
    /\ overdue' = [e \in Entry |-> IF overdue[e] # 0 /\ e \in dtc'.confirmed
                                   THEN overdue[e] + 1 ELSE 0]
    /\ UNCHANGED <<frame, tx, session, handshake, locks, erased>>

ScheduleNoTick ==
    /\ pc = "schedule" /\ pc' = "receive"
    /\ Accumulate(LoopDelta)
    /\ overdue' = [e \in Entry |-> IF overdue[e] # 0 /\ e \in dtc.confirmed
                                   THEN overdue[e] + 1 ELSE 0]
    /\ UNCHANGED <<frame, tx, security>>

(* The counter value that functional_test.py writes with a confirmed code. *)
Poked == \h90

(* functional_test.py makes a code confirmed between two requests by       *)
(* writing to the memory of the simulated CPU; no request does.            *)
Poke(e) ==
    /\ pc = "receive" /\ Table[e].hasStatus /\ HasCounter(e)
    /\ dtc' = [dtc EXCEPT !.confirmed = @ \cup {e}, !.aging = [@ EXCEPT ![Table[e].slot] = Poked]]
    /\ overdue' = [overdue EXCEPT ![e] = 0]
    /\ UNCHANGED <<pc, frame, tx, session, handshake, locks, erased, clock>>

FirmwareNext ==
    \/ Line /\ UNCHANGED <<clock, overdue>>
    \/ Dispatch
    \/ ScheduleTick
    \/ ScheduleNoTick
    \/ \E e \in Entry : Poke(e)

FirmwareSpec == FirmwareInit /\ [][FirmwareNext]_all

-----------------------------------------------------------------------------
(* A code that SID 0x14 6F clears is no longer confirmed after the         *)
(* iterations that one tick takes at most: the clear zeroes the counter    *)
(* only, and the code falls with the next decay, whatever requests come.   *)
ClearTakesEffect == \A e \in Entry : overdue[e] <= T1Limit \div LoopDelta + 1
=============================================================================
