------------------------------ MODULE RegAlloc ------------------------------
(***************************************************************************)
(* The linear-scan register allocator of the back end, regalloc_run in     *)
(* src/target/c167/registers/regalloc.c.                                   *)
(*                                                                         *)
(* One pass over the instructions records the first and the last position  *)
(* that touches each virtual register, and the positions of the calls; the *)
(* live virtual registers are then placed one by one, by increasing start. *)
(* Every register of the pool is destroyed by a call, so an interval that  *)
(* strictly contains a call goes to the stack; another one takes a free    *)
(* pool register, or evicts the active interval that ends last, or goes to *)
(* the stack itself.                                                       *)
(***************************************************************************)
EXTENDS Integers, FiniteSets

CONSTANTS
    NVRegs,     \* number of virtual registers of the function (fn->nvregs + 1)
    MaxInsts,   \* bound: instructions of the function
    Pool,       \* c167_temp_pool: [1..PoolSize -> register], in allocation order
    PoolSize,   \* c167_temp_pool_count
    Base        \* base_spill_offset: first frame byte after parameters and locals

None == -1
VReg == 0 .. NVRegs - 1
PoolRegs == { Pool[p] : p \in 1 .. PoolSize }

ASSUME NVRegsAssumption == NVRegs \in Nat
ASSUME MaxInstsAssumption == MaxInsts \in Nat
ASSUME PoolAssumption ==
    /\ PoolSize \in Nat \ {0}
    /\ Pool \in [1 .. PoolSize -> Nat]
    /\ \A p, q \in 1 .. PoolSize : Pool[p] = Pool[q] => p = q
ASSUME BaseAssumption == Base \in Nat

VARIABLES
    pc,         \* "scan", "alloc" or "done"
    ninsts,     \* instructions scanned so far: idx of the scanning loop
    first,      \* first[v]: first position that touches v, None before it
    last,       \* last[v]: last position that touches v
    calls,      \* positions of the IR_CALL instructions (call_idx)
    todo,       \* live virtual registers that the main loop has not reached
    active,     \* virtual registers that hold a pool register (active[].vreg)
    reg,        \* RegAllocResult.reg
    spilled,    \* RegAllocResult.spilled
    slot,       \* RegAllocResult.spill_offset
    cursor      \* spill_cursor

scanVars  == <<ninsts, first, last, calls>>
allocVars == <<todo, active, reg, spilled, slot, cursor>>
vars == <<pc, scanVars, allocVars>>

Init ==
    /\ pc = "scan"
    /\ ninsts = 0
    /\ first = [v \in VReg |-> None]
    /\ last = [v \in VReg |-> None]
    /\ calls = {}
    /\ todo = {}
    /\ active = {}
    /\ reg = [v \in VReg |-> None]
    /\ spilled = [v \in VReg |-> FALSE]
    /\ slot = [v \in VReg |-> 0]
    /\ cursor = Base

-----------------------------------------------------------------------------
(* One instruction of the scanning loop: dst, a, b and the arguments of    *)
(* the instruction are the set of virtual registers it touches. Besides    *)
(* dst, a and b a call has any number of arguments and IR_CMP32 has two.   *)
ScanInst(touched, isCall) ==
    /\ pc = "scan" /\ ninsts < MaxInsts
    /\ isCall \/ Cardinality(touched) <= 5
    /\ first' = [v \in VReg |-> IF v \in touched /\ first[v] = None
                                THEN ninsts ELSE first[v]]
    /\ last' = [v \in VReg |-> IF v \in touched THEN ninsts ELSE last[v]]
    /\ calls' = IF isCall THEN calls \cup {ninsts} ELSE calls
    /\ ninsts' = ninsts + 1
    /\ UNCHANGED <<pc, allocVars>>

(* The end of the instruction list: the live registers are sorted.         *)
EndScan ==
    /\ pc = "scan"
    /\ pc' = "alloc"
    /\ todo' = { v \in VReg : first[v] # None }
    /\ UNCHANGED <<scanVars, active, reg, spilled, slot, cursor>>

CrossesCall(v) == \E c \in calls : first[v] < c /\ c < last[v]

(* The insertion sort is stable over increasing ids, so the next interval  *)
(* is the least one by start, then by id.                                  *)
IsNext(v) ==
    /\ pc = "alloc" /\ v \in todo
    /\ \A u \in todo : first[v] < first[u] \/ (first[v] = first[u] /\ v <= u)

(* Faults: the expiry of lines 84-90 forgets an interval one position too  *)
(* early, or never.                                                        *)
UnexpiredTooShort(v) == { u \in active : last[u] > first[v] }
UnexpiredAll(v) == active

Unexpired(v) == { u \in active : last[u] >= first[v] }

FirstFree(act) ==
    LET used == { reg[u] : u \in act }
        free == { p \in 1 .. PoolSize : Pool[p] \notin used }
    IN  IF free = {} THEN None
        ELSE Pool[CHOOSE p \in free : \A q \in free : p <= q]

(* Fault: the cursor is not advanced.                                      *)
SpillSameSlot(v) ==
    /\ spilled' = [spilled EXCEPT ![v] = TRUE]
    /\ slot' = [slot EXCEPT ![v] = cursor]
    /\ UNCHANGED cursor

Spill(v) ==
    /\ spilled' = [spilled EXCEPT ![v] = TRUE]
    /\ slot' = [slot EXCEPT ![v] = cursor]
    /\ cursor' = cursor + 2

PlaceCrossing(v) ==
    /\ IsNext(v) /\ CrossesCall(v)
    /\ todo' = todo \ {v}
    /\ active' = Unexpired(v)
    /\ Spill(v)
    /\ UNCHANGED <<pc, scanVars, reg>>

(* Fault: the interval that crosses a call is not set apart (the error     *)
(* that the comment of lines 26-41 reports).                               *)
PlaceFreeAcrossCall(v) ==
    /\ IsNext(v)
    /\ Cardinality(Unexpired(v)) < PoolSize
    /\ todo' = todo \ {v}
    /\ active' = Unexpired(v) \cup {v}
    /\ reg' = [reg EXCEPT ![v] = FirstFree(Unexpired(v))]
    /\ UNCHANGED <<pc, scanVars, spilled, slot, cursor>>

PlaceFree(v) ==
    /\ IsNext(v) /\ ~CrossesCall(v)
    /\ Cardinality(Unexpired(v)) < PoolSize
    /\ todo' = todo \ {v}
    /\ active' = Unexpired(v) \cup {v}
    /\ reg' = [reg EXCEPT ![v] = FirstFree(Unexpired(v))]
    /\ UNCHANGED <<pc, scanVars, spilled, slot, cursor>>

(* Among intervals that end together the code takes the one that is first  *)
(* in active[]; here any of them may be the victim.                        *)
IsVictim(u, v) ==
    /\ u \in Unexpired(v)
    /\ last[u] > last[v]
    /\ \A w \in Unexpired(v) : last[w] <= last[u]

(* Fault: the victim keeps its entry in active[].                          *)
PlaceEvictingKeepsVictim(v, u) ==
    /\ IsNext(v) /\ ~CrossesCall(v)
    /\ Cardinality(Unexpired(v)) >= PoolSize
    /\ IsVictim(u, v)
    /\ todo' = todo \ {v}
    /\ active' = Unexpired(v) \cup {v}
    /\ reg' = [reg EXCEPT ![v] = reg[u]]
    /\ Spill(u)
    /\ UNCHANGED <<pc, scanVars>>

PlaceEvicting(v, u) ==
    /\ IsNext(v) /\ ~CrossesCall(v)
    /\ Cardinality(Unexpired(v)) >= PoolSize
    /\ IsVictim(u, v)
    /\ todo' = todo \ {v}
    /\ active' = (Unexpired(v) \ {u}) \cup {v}
    /\ reg' = [reg EXCEPT ![v] = reg[u]]
    /\ Spill(u)
    /\ UNCHANGED <<pc, scanVars>>

PlaceSpilled(v) ==
    /\ IsNext(v) /\ ~CrossesCall(v)
    /\ Cardinality(Unexpired(v)) >= PoolSize
    /\ \A u \in Unexpired(v) : last[u] <= last[v]
    /\ todo' = todo \ {v}
    /\ active' = Unexpired(v)
    /\ Spill(v)
    /\ UNCHANGED <<pc, scanVars, reg>>

Finish ==
    /\ pc = "alloc" /\ todo = {}
    /\ pc' = "done"
    /\ UNCHANGED <<scanVars, allocVars>>

Place(v) ==
    \/ PlaceCrossing(v)
    \/ PlaceFree(v)
    \/ \E u \in VReg : PlaceEvicting(v, u)
    \/ PlaceSpilled(v)

Scan == \E touched \in SUBSET VReg, isCall \in BOOLEAN : ScanInst(touched, isCall)

Next == Scan \/ EndScan \/ (\E v \in VReg : Place(v)) \/ Finish

Spec == Init /\ [][Next]_vars

-----------------------------------------------------------------------------
Placed == { v \in VReg : first[v] # None /\ pc # "scan" /\ v \notin todo }
InRegister == { v \in Placed : ~spilled[v] }
OnStack == { v \in VReg : spilled[v] }
Overlap(u, v) == first[u] <= last[v] /\ first[v] <= last[u]

TypeOK ==
    /\ pc \in {"scan", "alloc", "done"}
    /\ ninsts \in 0 .. MaxInsts
    /\ first \in [VReg -> Int] /\ last \in [VReg -> Int]
    /\ calls \subseteq 0 .. MaxInsts
    /\ todo \subseteq VReg
    /\ active \subseteq VReg
    /\ reg \in [VReg -> PoolRegs \cup {None}]
    /\ spilled \in [VReg -> BOOLEAN]
    /\ slot \in [VReg -> Nat]
    /\ cursor \in Nat

(* Two virtual registers that are live at the same position never share a  *)
(* pool register: the code generator reads and writes reg[] blindly.       *)
NoInterference ==
    \A u, v \in InRegister : u # v /\ Overlap(u, v) => reg[u] # reg[v]

(* A value that must survive a call is not left in the pool, which the     *)
(* called function uses for its own temporaries (lines 26-41).             *)
NoPoolAcrossCall == \A v \in InRegister : ~CrossesCall(v)

(* No two spilled virtual registers share a frame word, and all of them    *)
(* lie inside the spill area that the prologue reserves.                   *)
SlotsDisjoint ==
    /\ \A v \in OnStack : Base <= slot[v] /\ slot[v] + 2 <= cursor
    /\ \A u, v \in OnStack : u # v => slot[u] + 2 <= slot[v] \/ slot[v] + 2 <= slot[u]

(* The stack is used only where the pool cannot serve: a spilled interval  *)
(* contains a call, or a position at which more intervals compete for the  *)
(* pool than it has registers. An interval that is not expired in time     *)
(* (lines 84-90) would break this.                                         *)
Competing(p) ==
    { u \in VReg : first[u] # None /\ ~CrossesCall(u) /\ first[u] <= p /\ p <= last[u] }

NoNeedlessSpill ==
    \A v \in OnStack :
        \/ CrossesCall(v)
        \/ \E p \in 0 .. MaxInsts : v \in Competing(p) /\ Cardinality(Competing(p)) > PoolSize

(* A spill is for the whole interval and final: a virtual register that    *)
(* has gone to the stack is never taken back into a register, and its slot *)
(* is never moved.                                                         *)
SpillIsFinal ==
    [][\A v \in VReg : spilled[v] => spilled'[v] /\ slot'[v] = slot[v]]_vars
=============================================================================
