-------------------------------- MODULE Dtc --------------------------------
(***************************************************************************)
(* The trouble-code table of the firmware, dtc_sirius32_* in               *)
(* simulador/firmware_min/src/08_dtc_table.asm, as functions on its state  *)
(* (struct g_dtc_state).                                                   *)
(*                                                                         *)
(* Every entry of dtc_sirius32_table has its own mask in a status word, so *)
(* the arrays of status and confirmed words are sets of entries. The aging *)
(* counters are bytes, indexed by the aging slot of the entry; no two      *)
(* entries of the table with a counter share one.                          *)
(***************************************************************************)
EXTENDS Integers, FiniteSets

CONSTANTS
    Table,      \* [entry -> [hasStatus, slot, step, ages]], a part of dtc_sirius32_table
    AgingSlots, \* number of aging counters (46)
    NEntries    \* dtc_sirius32_get refuses an index from here on (60)

Entry == DOMAIN Table
Slot == 0 .. AgingSlots - 1
ByteMax == 255
ConfirmAt == 128

ASSUME AgingSlotsAssumption == AgingSlots \in Nat \ {0} /\ NEntries \in Nat
ASSUME TableAssumption ==
    /\ Entry \subseteq 0 .. NEntries - 1
    /\ Table \in [Entry -> [hasStatus : BOOLEAN, slot : 0 .. ByteMax,
                            step : 0 .. ByteMax, ages : BOOLEAN]]
    /\ \A d, e \in Entry :
          Table[d].slot \in Slot /\ Table[d].slot = Table[e].slot => d = e

State == [status : SUBSET Entry, confirmed : SUBSET Entry, aging : [Slot -> 0 .. ByteMax],
          qualify : BOOLEAN]

(* Slots 254 and 255 of the table, and every other one outside the array,  *)
(* mean that the entry has no counter (lines 662-697, 389-449, 935-976).   *)
HasCounter(e) == Table[e].slot \in Slot
Ages(e) == HasCounter(e) /\ Table[e].ages

StateInit == [status |-> {}, confirmed |-> {}, aging |-> [s \in Slot |-> 0], qualify |-> FALSE]

(* An index that dtc_sirius32_get refuses leaves the state alone.          *)
Known(i) == i < NEntries /\ i \in Entry

(* mark with set = 0 takes the pending bit away, never the confirmed one.  *)
Unmarked(st, i) ==
    IF Known(i) /\ Table[i].hasStatus THEN [st EXCEPT !.status = @ \ {i}] ELSE st

(* mark with set = 1: the pending bit, and, while the state is qualified,  *)
(* the counter (saturating at 255) and the confirmed bit.                  *)
Bump(st, i) ==
    IF st.qualify /\ Ages(i)
    THEN LET sum == st.aging[Table[i].slot] + Table[i].step
         IN  [st.aging EXCEPT ![Table[i].slot] = IF sum > ByteMax THEN ByteMax ELSE sum]
    ELSE st.aging

Marked(st, i) ==
    IF ~Known(i) THEN st
    ELSE [st EXCEPT !.status = IF Table[i].hasStatus THEN @ \cup {i} ELSE @,
                    !.aging = Bump(st, i),
                    !.confirmed = IF st.qualify /\ Table[i].hasStatus THEN @ \cup {i} ELSE @]

(* Fault: the subtraction without the clamp of lines 757-780.              *)
LeftWrapping(st, e) == (st.aging[Table[e].slot] - Table[e].step) % (ByteMax + 1)

(* What is left of the counter of e after one step of decay.               *)
Left(st, e) == IF st.aging[Table[e].slot] < Table[e].step THEN 0
               ELSE st.aging[Table[e].slot] - Table[e].step

DecayedCounters(st) ==
    [s \in Slot |-> IF \E e \in Entry : Ages(e) /\ Table[e].slot = s
                    THEN Left(st, CHOOSE e \in Entry : Ages(e) /\ Table[e].slot = s)
                    ELSE st.aging[s]]

(* Faults: the confirmed bits are left alone, or fall by the counter as it *)
(* was before the step.                                                    *)
DecayedKeepsConfirmed(st) == [st EXCEPT !.aging = DecayedCounters(st)]
DecayedTestsOldCounter(st) ==
    [st EXCEPT
        !.aging = DecayedCounters(st),
        !.confirmed = { e \in @ : ~(Ages(e) /\ Table[e].hasStatus
                                    /\ st.aging[Table[e].slot] < ConfirmAt) }]

(* decay_tick: every counter that ages loses its step; below the threshold *)
(* the entry is no longer confirmed.                                       *)
Decayed(st) ==
    [st EXCEPT
        !.aging = DecayedCounters(st),
        !.confirmed = { e \in @ : ~(Ages(e) /\ Table[e].hasStatus /\ Left(st, e) < ConfirmAt) }]

SELECTIVE_2 == 2

(* Fault: the selective clear skips the entries that are confirmed.        *)
ClearedUnconfirmed(st, mode) ==
    [st EXCEPT !.aging =
        [s \in Slot |-> IF mode # SELECTIVE_2
                           \/ \E e \in Entry : Table[e].hasStatus /\ Table[e].slot = s
                                               /\ e \notin st.confirmed
                        THEN 0 ELSE @[s]]]

(* clear touches counters only: in mode SELECTIVE_2 those of the confirmed *)
(* entries, otherwise all of them. The confirmed bits fall at the next     *)
(* decay_tick.                                                             *)
Cleared(st, mode) ==
    [st EXCEPT !.aging =
        [s \in Slot |-> IF mode # SELECTIVE_2
                           \/ \E e \in Entry : Table[e].hasStatus /\ Table[e].slot = s
                                               /\ e \in st.confirmed
                        THEN 0 ELSE @[s]]]

IsPending(st, i) == Known(i) /\ Table[i].hasStatus /\ i \in st.status
IsConfirmed(st, i) == Known(i) /\ Table[i].hasStatus /\ i \in st.confirmed
=============================================================================
