----------------------------- MODULE Scheduler -----------------------------
(***************************************************************************)
(* The cadence of the firmware, SCH_STEP in                                *)
(* simulador/firmware_min/src/09_scheduler.asm: an accumulator of time     *)
(* units, a tick counter, and the service of the watchdog.                 *)
(***************************************************************************)
EXTENDS Integers

CONSTANTS
    Deltas,     \* time units that a call may add: the main loop passes 50
    T1Limit     \* units that are not a tick yet (250)

ASSUME SchedulerAssumption ==
    /\ Deltas \subseteq Nat
    /\ T1Limit \in Nat

VARIABLES
    t1,         \* T1_ACC
    ticks,      \* ADC_TICK_COUNT
    gap,        \* history: ticks since the last SRVWDT (since the start before it)
    served      \* history: SRVWDT has been executed at least once

clock == <<t1, ticks, gap, served>>

ClockMod == 65536
ServeAt == 8

SchedulerInit == t1 = 0 /\ ticks = 0 /\ gap = 0 /\ served = FALSE

Accumulated(delta) == (t1 + delta) % ClockMod
CompletesTick(delta) == Accumulated(delta) > T1Limit

(* Lines 20-25: not a tick yet.                                            *)
Accumulate(delta) ==
    /\ ~CompletesTick(delta)
    /\ t1' = Accumulated(delta)
    /\ UNCHANGED <<ticks, gap, served>>

(* Fault: the counter is reset before it is compared, and never reads 8.   *)
TickResetFirst(delta) ==
    /\ CompletesTick(delta)
    /\ t1' = 0
    /\ ticks' = IF ticks + 1 >= ServeAt THEN 0 ELSE ticks + 1
    /\ gap' = gap + 1
    /\ UNCHANGED served

(* Lines 27-54: the accumulator starts again from zero, the counter        *)
(* advances, the watchdog is served when it reads 8, and past 8 it is      *)
(* reset.                                                                  *)
Tick(delta) ==
    /\ CompletesTick(delta)
    /\ t1' = 0
    /\ ticks' = IF ticks + 1 > ServeAt THEN 0 ELSE ticks + 1
    /\ gap' = IF ticks + 1 = ServeAt THEN 0 ELSE gap + 1
    /\ served' = (served \/ ticks + 1 = ServeAt)

SCH_STEP(delta) == Accumulate(delta) \/ Tick(delta)

SchedulerNext == \E delta \in Deltas : SCH_STEP(delta)

SchedulerSpec == SchedulerInit /\ [][SchedulerNext]_clock

-----------------------------------------------------------------------------
SchedulerTypeOK ==
    /\ t1 \in 0 .. T1Limit
    /\ ticks \in 0 .. ServeAt
    /\ gap \in 0 .. ServeAt
    /\ served \in BOOLEAN

(* Whatever the deltas, the watchdog is served at the eighth tick after    *)
(* the start and then never less often than every ninth: between two       *)
(* services at most eight ticks pass without one.                          *)
WatchdogGapBounded == gap <= ServeAt /\ (~served => gap = ticks)
=============================================================================
