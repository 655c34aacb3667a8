------------------------------ MODULE DtcTable ------------------------------
(***************************************************************************)
(* The trouble-code table in use: its owner marks and unmarks codes, lets  *)
(* the counters decay and clears them (dtc_sirius32_mark, _decay_tick and  *)
(* _clear of simulador/firmware_min/src/08_dtc_table.asm, in any order).   *)
(* The qualification flag of the state is a field its owner writes.        *)
(***************************************************************************)
EXTENDS Dtc

VARIABLES
    faults,     \* g_dtc_state
    quiet,      \* the faults have stopped: no further mark
    marks       \* history: marks of an entry since its counter was last zero, up to 2

tableVars == <<faults, quiet, marks>>

TableInit ==
    /\ faults = StateInit
    /\ quiet = FALSE
    /\ marks = [e \in Entry |-> 0]

(* The history follows the counters: a counter that is zero again forgets  *)
(* the marks of its entry.                                                 *)
Track(e, m) == IF HasCounter(e) /\ faults'.aging[Table[e].slot] = 0 THEN 0
               ELSE IF m > 2 THEN 2 ELSE m

Mark(i) ==
    /\ ~quiet
    /\ faults' = Marked(faults, i)
    /\ marks' = [e \in Entry |-> Track(e, IF e = i THEN marks[e] + 1 ELSE marks[e])]
    /\ UNCHANGED quiet

Unmark(i) ==
    /\ faults' = Unmarked(faults, i)
    /\ UNCHANGED <<quiet, marks>>

DecayTick ==
    /\ faults' = Decayed(faults)
    /\ marks' = [e \in Entry |-> Track(e, marks[e])]
    /\ UNCHANGED quiet

Clear(mode) ==
    /\ faults' = Cleared(faults, mode)
    /\ marks' = [e \in Entry |-> Track(e, marks[e])]
    /\ UNCHANGED quiet

SetQualify(b) ==
    /\ faults' = [faults EXCEPT !.qualify = b]
    /\ UNCHANGED <<quiet, marks>>

FaultsStop ==
    /\ ~quiet
    /\ quiet' = TRUE
    /\ UNCHANGED <<faults, marks>>

Index == Entry \cup {NEntries}

TableNext ==
    \/ \E i \in Index : Mark(i) \/ Unmark(i)
    \/ DecayTick
    \/ \E mode \in {0, SELECTIVE_2} : Clear(mode)
    \/ \E b \in BOOLEAN : SetQualify(b)
    \/ FaultsStop

(* The scheduler calls decay_tick again and again (09_scheduler.asm line   *)
(* 34); nothing obliges anybody to mark or to clear.                       *)
TableSpec == TableInit /\ [][TableNext]_tableVars /\ WF_tableVars(DecayTick)

-----------------------------------------------------------------------------
TableTypeOK ==
    /\ faults \in State
    /\ quiet \in BOOLEAN
    /\ marks \in [Entry -> 0 .. 2]

(* What a tick leaves confirmed is backed by a counter at or above the     *)
(* threshold, and, for a code whose step is below the threshold, by at     *)
(* least two marks since its counter was last zero: one glitch never       *)
(* survives a tick.                                                        *)
TickDebounces ==
    [][DecayTick => \A e \in faults'.confirmed :
                  Ages(e) => /\ faults'.aging[Table[e].slot] >= ConfirmAt
                             /\ Table[e].step < ConfirmAt => marks'[e] = 2]_tableVars

(* A counter moves in the direction of the operation and never wraps:      *)
(* marking does not lower it, a tick and a clear do not raise it.          *)
CountersMoveOneWay ==
    [][/\ (\E i \in Index : Mark(i)) => \A s \in Slot : faults'.aging[s] >= faults.aging[s]
       /\ (DecayTick \/ Clear(0) \/ Clear(SELECTIVE_2)) =>
              \A s \in Slot : faults'.aging[s] <= faults.aging[s]]_tableVars

(* Once the faults have stopped, no code stays confirmed for ever, except  *)
(* one whose counter does not age.                                         *)
ConfirmedAgesOut ==
    quiet ~> \A e \in faults.confirmed : ~Ages(e)

(* A selective clear condemns every confirmed code: the next tick          *)
(* un-confirms it unless it is marked again in between.                    *)
SelectiveClearCondemns ==
    [][Clear(SELECTIVE_2) =>
         \A e \in faults'.confirmed : Ages(e) => e \notin Decayed(faults').confirmed]_tableVars
=============================================================================
