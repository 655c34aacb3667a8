--------------------------- MODULE CodegenProofs ---------------------------
(***************************************************************************)
(* Proofs about the linear-scan allocator of RegAlloc and the code that    *)
(* Codegen generates with it, for every number of virtual registers and    *)
(* instructions, every pool and every argument registers.                  *)
(*                                                                         *)
(* The allocator. Its invariants are not inductive by themselves. What     *)
(* makes them so is the discipline of the scan: the interval to place      *)
(* starts no earlier than any placed one (ScanOrder), a placed interval    *)
(* that left active[] ended before any interval still to be placed         *)
(* (ExpiredIsPast), and the intervals in active[] hold pairwise different  *)
(* registers of the pool (ActiveHoldsPool).                                *)
(*                                                                         *)
(* The generator. That values stay in their homes follows from what holds  *)
(* of the allocator once two things are added: that first[], last[] and    *)
(* calls are those of the code that is generated (CodeScanned, kept while  *)
(* the code is put together), and what the halves of a 32-bit operation    *)
(* leave for each other outside any home (LeftBehind, with Pairs: the      *)
(* carry of the low half, the high word of a product). A template is then  *)
(* proved by following the machine through its instructions: SameHomes,    *)
(* Moved, Loaded and Passed say what it has become after a part of one.    *)
(***************************************************************************)
EXTENDS Codegen, MathLemmas, FiniteSetTheorems, TLAPS

(* Before the main loop nothing is placed; after it nothing is left.       *)
Phases ==
    /\ pc = "scan" => todo = {} /\ active = {} /\ OnStack = {} /\ cursor = Base
    /\ pc = "done" => todo = {}

Intervals ==
    \A v \in VReg :
        first[v] # None => 0 <= first[v] /\ first[v] <= last[v] /\ last[v] < ninsts

SpillArea == Base <= cursor

LiveIsTouched ==
    /\ \A v \in todo : first[v] # None
    /\ OnStack \subseteq Placed

(* The placed intervals start no later than the ones still to be placed.   *)
ScanOrder == \A u \in Placed, w \in todo : first[u] <= first[w]

ActiveHoldsPool ==
    /\ active \subseteq InRegister
    /\ \A u, v \in active : u # v => reg[u] # reg[v]

(* An interval whose register may be given away ended before the scan      *)
(* position.                                                               *)
ExpiredIsPast == \A u \in InRegister \ active, w \in todo : last[u] < first[w]

(* The search for a free register never leaves chosen = -1 in reg[].       *)
EveryPlacedHasHome == \A v \in InRegister : reg[v] \in PoolRegs

IInv ==
    /\ TypeOK
    /\ Phases
    /\ Intervals
    /\ SpillArea
    /\ LiveIsTouched
    /\ ScanOrder
    /\ ActiveHoldsPool
    /\ ExpiredIsPast
    /\ NoInterference
    /\ NoPoolAcrossCall
    /\ EveryPlacedHasHome
    /\ SlotsDisjoint
    /\ NoNeedlessSpill

-----------------------------------------------------------------------------
(* The search of lines 104-108 finds a register as long as fewer intervals *)
(* are active than the pool has registers, and none of them holds it.      *)
LEMMA FirstFreeIsFree ==
    ASSUME NEW A \in SUBSET VReg, Cardinality(A) < PoolSize
    PROVE  /\ FirstFree(A) \in PoolRegs
           /\ \A u \in A : reg[u] # FirstFree(A)
<1> DEFINE used == { reg[u] : u \in A }
           free == { p \in 1 .. PoolSize : Pool[p] \notin used }
<1>1. IsFiniteSet(A) /\ Cardinality(A) \in Nat
    <2>1. IsFiniteSet(VReg)
        BY FS_Interval, NVRegsAssumption DEF VReg
    <2>2. QED
        BY <2>1, FS_Subset, FS_CardinalityType
<1>2. free # {}
    <2> SUFFICES ASSUME \A p \in 1 .. PoolSize : Pool[p] \in used
                 PROVE  FALSE
        OBVIOUS
    <2> DEFINE holder == [p \in 1 .. PoolSize |-> CHOOSE u \in A : reg[u] = Pool[p]]
    <2>1. \A p \in 1 .. PoolSize : holder[p] \in A /\ reg[holder[p]] = Pool[p]
        OBVIOUS
    <2>2. holder \in [1 .. PoolSize -> A]
        BY <2>1
    <2>3. IsFiniteSet(1 .. PoolSize) /\ Cardinality(1 .. PoolSize) = PoolSize
        BY FS_Interval, PoolAssumption
    <2>4. \E p, q \in 1 .. PoolSize : p # q /\ holder[p] = holder[q]
        <3> HIDE DEF holder
        <3> QED
            BY <1>1, <2>2, <2>3, FS_PigeonHole
    <2>5. QED
        BY <2>1, <2>4, PoolAssumption
<1>3. \E p \in free : \A q \in free : p <= q
    <2>1. free \in SUBSET Nat
        OBVIOUS
    <2> HIDE DEF free
    <2>2. QED
        BY <1>2, <2>1, LeastElement
<1>4. FirstFree(A) \in { Pool[p] : p \in free }
    BY <1>2, <1>3 DEF FirstFree
<1>5. QED
    BY <1>4 DEF PoolRegs

-----------------------------------------------------------------------------
LEMMA InitIInv == Init => IInv
BY NVRegsAssumption, MaxInstsAssumption, BaseAssumption
   DEF Init, IInv, TypeOK, Phases, Intervals, SpillArea, LiveIsTouched, ScanOrder,
       ActiveHoldsPool, ExpiredIsPast, NoInterference, NoPoolAcrossCall, EveryPlacedHasHome,
       SlotsDisjoint, NoNeedlessSpill, Placed, InRegister, OnStack, None

(***************************************************************************)
(* The scanning loop places nothing: only TypeOK and Phases say something. *)
(***************************************************************************)
LEMMA ScanIInv ==
    ASSUME IInv, NEW touched \in SUBSET VReg, NEW isCall \in BOOLEAN,
           ScanInst(touched, isCall)
    PROVE  IInv'
<1>1. pc = "scan" /\ pc' = "scan" /\ UNCHANGED allocVars
    BY DEF ScanInst
<1>2. TypeOK'
    BY NVRegsAssumption, MaxInstsAssumption DEF IInv, TypeOK, ScanInst, allocVars
<1>3. Placed' = {} /\ InRegister' = {} /\ OnStack' = {}
    BY <1>1 DEF IInv, Phases, Placed, InRegister, OnStack, allocVars
<1>4. todo' = {} /\ active' = {} /\ cursor' = Base
    BY <1>1 DEF IInv, Phases, allocVars
<1>5. Intervals'
    BY DEF IInv, TypeOK, Intervals, ScanInst, None
<1>6. QED
    BY <1>1, <1>2, <1>3, <1>4, <1>5, BaseAssumption
       DEF IInv, Phases, SpillArea, LiveIsTouched, ScanOrder, ActiveHoldsPool, ExpiredIsPast,
           NoInterference, NoPoolAcrossCall, EveryPlacedHasHome, SlotsDisjoint,
           NoNeedlessSpill

LEMMA EndScanIInv == IInv /\ EndScan => IInv'
<1> SUFFICES ASSUME IInv, EndScan
             PROVE  IInv'
    OBVIOUS
<1>1. TypeOK'
    BY DEF IInv, TypeOK, EndScan, scanVars
<1>2. Placed' = {} /\ InRegister' = {} /\ OnStack' = {}
    BY DEF IInv, TypeOK, Phases, EndScan, scanVars, Placed, InRegister, OnStack
<1>3. active' = {} /\ cursor' = Base /\ pc' = "alloc"
      /\ (\A v \in todo' : first'[v] # None)
    BY DEF IInv, Phases, EndScan, scanVars
<1>4. Intervals'
    BY DEF IInv, Intervals, EndScan, scanVars
<1>5. QED
    BY <1>1, <1>2, <1>3, <1>4, BaseAssumption
       DEF IInv, Phases, SpillArea, LiveIsTouched, ScanOrder, ActiveHoldsPool, ExpiredIsPast,
           NoInterference, NoPoolAcrossCall, EveryPlacedHasHome, SlotsDisjoint,
           NoNeedlessSpill

LEMMA FinishIInv == IInv /\ Finish => IInv'
<1> SUFFICES ASSUME IInv, Finish
             PROVE  IInv'
    OBVIOUS
<1> USE DEF Finish, scanVars, allocVars
<1>1. TypeOK' /\ Phases' /\ Intervals' /\ SpillArea'
    BY DEF IInv, TypeOK, Phases, Intervals, SpillArea, OnStack
<1>2. Placed' = Placed
    BY DEF Placed
<1>3. InRegister' = InRegister /\ OnStack' = OnStack
    BY <1>2 DEF InRegister, OnStack
<1>4. LiveIsTouched' /\ ScanOrder' /\ ActiveHoldsPool' /\ ExpiredIsPast'
    BY <1>2, <1>3 DEF IInv, LiveIsTouched, ScanOrder, ActiveHoldsPool, ExpiredIsPast
<1>5. NoInterference' /\ NoPoolAcrossCall' /\ EveryPlacedHasHome' /\ SlotsDisjoint'
    BY <1>3 DEF IInv, NoInterference, Overlap, NoPoolAcrossCall, CrossesCall,
                EveryPlacedHasHome, SlotsDisjoint
<1>6. NoNeedlessSpill'
    BY <1>3 DEF IInv, NoNeedlessSpill, Competing, CrossesCall
<1>7. QED
    BY <1>1, <1>4, <1>5, <1>6 DEF IInv

-----------------------------------------------------------------------------
(***************************************************************************)
(* Facts shared by the four ways of placing the next interval v.           *)
(***************************************************************************)

(* An interval in a register that overlaps the next one is still active    *)
(* after the expiry of lines 84-90, and starts no later.                   *)
LEMMA NextInterval ==
    ASSUME IInv, NEW v \in VReg, IsNext(v)
    PROVE  /\ first[v] # None /\ v \notin Placed /\ v \notin active /\ ~spilled[v]
           /\ \A w \in todo : first[v] <= first[w]
           /\ \A u \in Placed : first[u] <= first[v]
           /\ \A u \in InRegister : last[u] >= first[v] => u \in Unexpired(v)
           /\ Unexpired(v) \subseteq InRegister
<1> USE DEF IInv, TypeOK, IsNext, Placed, InRegister, OnStack, LiveIsTouched
<1>1. first[v] # None /\ v \notin Placed /\ v \notin active /\ ~spilled[v]
    BY DEF ActiveHoldsPool
<1>2. \A w \in todo : first[v] <= first[w]
    OBVIOUS
<1>3. \A u \in Placed : first[u] <= first[v]
    BY DEF ScanOrder
<1>4. \A u \in InRegister : last[u] >= first[v] => u \in Unexpired(v)
    <2> SUFFICES ASSUME NEW u \in InRegister, last[u] >= first[v], u \notin active
                 PROVE  FALSE
        BY DEF Unexpired
    <2>1. last[u] < first[v]
        BY DEF ExpiredIsPast
    <2>2. QED
        BY <2>1
<1>5. Unexpired(v) \subseteq InRegister
    BY DEF ActiveHoldsPool, Unexpired
<1>6. QED
    BY <1>1, <1>2, <1>3, <1>4, <1>5

(* The scan discipline survives any step that removes v from todo, keeps   *)
(* the unexpired intervals that stay in registers in active[] and places   *)
(* nothing else.                                                           *)
LEMMA ScanDiscipline ==
    ASSUME IInv, TypeOK', NEW v \in VReg, IsNext(v),
           UNCHANGED <<pc, scanVars>>, todo' = todo \ {v},
           InRegister' \subseteq InRegister \cup {v},
           \A u \in Unexpired(v) \cup {v} : u \in InRegister' => u \in active',
           OnStack' \subseteq OnStack \cup {v} \cup Unexpired(v)
    PROVE  /\ Phases' /\ Intervals' /\ LiveIsTouched' /\ ScanOrder' /\ ExpiredIsPast'
           /\ Placed' = Placed \cup {v}
<1> USE DEF scanVars
<1>1. pc = "alloc" /\ pc' = "alloc" /\ v \in todo
    BY DEF IsNext
<1>2. Placed' = Placed \cup {v}
    BY <1>1, NextInterval DEF Placed
<1>3. Phases' /\ Intervals'
    BY <1>1 DEF Phases, IInv, Intervals
<1>4. LiveIsTouched'
    <2>1. OnStack' \subseteq Placed'
        BY <1>2, NextInterval DEF IInv, LiveIsTouched, InRegister
    <2>2. \A w \in todo' : first'[w] # None
        BY DEF IInv, LiveIsTouched
    <2>3. QED
        BY <2>1, <2>2 DEF LiveIsTouched
<1>5. ScanOrder'
    BY <1>2, NextInterval DEF IInv, ScanOrder
<1>6. ExpiredIsPast'
    <2> SUFFICES ASSUME NEW u \in InRegister' \ active', NEW w \in todo'
                 PROVE  last[u] < first[w]
        BY DEF ExpiredIsPast
    <2>1. u \in InRegister /\ u \notin Unexpired(v)
        OBVIOUS
    <2>2. last[u] < first[v]
        BY <2>1, NextInterval DEF IInv, TypeOK, InRegister, Placed
    <2>3. first[v] <= first[w] /\ w \in VReg /\ u \in VReg
        BY <2>1, NextInterval DEF IInv, TypeOK, InRegister, Placed
    <2>4. QED
        BY <2>2, <2>3 DEF IInv, TypeOK
<1>7. QED
    BY <1>2, <1>3, <1>4, <1>5, <1>6

(* A new spill slot starts where the spill area ended.                     *)
LEMMA SpillKeepsSlots ==
    ASSUME IInv, NEW u \in VReg, ~spilled[u], Spill(u)
    PROVE  /\ OnStack' = OnStack \cup {u}
           /\ SlotsDisjoint' /\ SpillArea'
<1>1. OnStack' = OnStack \cup {u}
    BY DEF IInv, TypeOK, OnStack, Spill
<1>2. slot'[u] = cursor /\ (\A w \in OnStack : slot'[w] = slot[w]) /\ cursor' = cursor + 2
    BY DEF IInv, TypeOK, OnStack, Spill
<1>3. Base <= cursor /\ cursor \in Nat /\ (\A w \in OnStack : slot[w] \in Nat)
    <2>1. \A w \in OnStack : Base <= slot[w] /\ slot[w] + 2 <= cursor
        BY DEF IInv, SlotsDisjoint
    <2>2. QED
        BY <2>1 DEF IInv, TypeOK, OnStack, SpillArea
<1>4. QED
    BY <1>1, <1>2, <1>3, BaseAssumption DEF IInv, SlotsDisjoint, SpillArea

(* A step that leaves the scanned program alone leaves the pressure alone. *)
LEMMA SameProgram ==
    ASSUME UNCHANGED scanVars
    PROVE  /\ \A u, v \in VReg : Overlap(u, v)' = Overlap(u, v)
           /\ \A v \in VReg : CrossesCall(v)' = CrossesCall(v)
           /\ \A p : Competing(p)' = Competing(p)
<1>1. \A u, v \in VReg : Overlap(u, v)' = Overlap(u, v)
    BY DEF Overlap, scanVars
<1>2. \A v \in VReg : CrossesCall(v)' = CrossesCall(v)
    BY DEF CrossesCall, scanVars
<1>3. \A p : Competing(p)' = Competing(p)
    BY <1>2 DEF Competing, scanVars
<1>4. QED
    BY <1>1, <1>2, <1>3

(* When the pool is full, the next interval and the unexpired ones compete *)
(* for it at the start of the next interval, and they are too many.        *)
LEMMA PoolIsFull ==
    ASSUME IInv, NEW v \in VReg, IsNext(v), ~CrossesCall(v),
           Cardinality(Unexpired(v)) >= PoolSize
    PROVE  /\ first[v] \in 0 .. MaxInsts
           /\ Unexpired(v) \cup {v} \subseteq Competing(first[v])
           /\ Cardinality(Competing(first[v])) > PoolSize
<1>1. first[v] \in 0 .. MaxInsts /\ first[v] <= last[v]
    BY NextInterval, MaxInstsAssumption DEF IInv, TypeOK, Intervals
<1>2. Unexpired(v) \cup {v} \subseteq Competing(first[v])
    <2>1. v \in Competing(first[v])
        BY <1>1, NextInterval DEF Competing
    <2>2. ASSUME NEW u \in Unexpired(v)
          PROVE  u \in Competing(first[v])
        <3>1. u \in VReg /\ first[u] # None /\ first[v] <= last[u]
            BY NextInterval DEF Unexpired, InRegister, Placed, IInv, TypeOK
        <3>2. first[u] <= first[v]
            BY NextInterval DEF InRegister
        <3>3. ~CrossesCall(u)
            BY NextInterval DEF IInv, NoPoolAcrossCall
        <3>4. QED
            BY <3>1, <3>2, <3>3 DEF Competing
    <2>3. QED
        BY <2>1, <2>2
<1>3. Cardinality(Competing(first[v])) > PoolSize
    <2>1. IsFiniteSet(VReg) /\ Competing(first[v]) \subseteq VReg
        BY FS_Interval, NVRegsAssumption DEF VReg, Competing
    <2>2. IsFiniteSet(Competing(first[v])) /\ IsFiniteSet(Unexpired(v))
        BY <1>2, <2>1, FS_Subset
    <2>3. v \notin Unexpired(v)
        BY NextInterval DEF Unexpired
    <2>4. Cardinality(Unexpired(v) \cup {v}) = Cardinality(Unexpired(v)) + 1
        BY <2>2, <2>3, FS_AddElement
    <2>5. Cardinality(Unexpired(v) \cup {v}) <= Cardinality(Competing(first[v]))
        BY <1>2, <2>2, FS_Subset
    <2>6. /\ Cardinality(Unexpired(v)) \in Nat
          /\ Cardinality(Competing(first[v])) \in Nat
        BY <2>2, FS_CardinalityType
    <2>7. QED
        BY <2>4, <2>5, <2>6, PoolAssumption
<1>4. QED
    BY <1>1, <1>2, <1>3

(* The spill of u preserves NoNeedlessSpill when u crosses a call or the   *)
(* pool is full at a position where u competes for it.                     *)
LEMMA JustifiedSpill ==
    ASSUME IInv, NEW u \in VReg, UNCHANGED scanVars, OnStack' = OnStack \cup {u},
           \/ CrossesCall(u)
           \/ \E p \in 0 .. MaxInsts : u \in Competing(p) /\ Cardinality(Competing(p)) > PoolSize
    PROVE  NoNeedlessSpill'
<1>1. \A w \in OnStack \cup {u} :
          \/ CrossesCall(w)
          \/ \E p \in 0 .. MaxInsts : w \in Competing(p) /\ Cardinality(Competing(p)) > PoolSize
    BY DEF IInv, NoNeedlessSpill
<1>2. OnStack \cup {u} \subseteq VReg
    BY DEF OnStack
<1>3. QED
    BY <1>1, <1>2, SameProgram DEF NoNeedlessSpill

-----------------------------------------------------------------------------
LEMMA PlaceCrossingIInv ==
    ASSUME IInv, NEW v \in VReg, PlaceCrossing(v)
    PROVE  IInv'
<1> USE DEF PlaceCrossing
<1>1. TypeOK'
    BY DEF IInv, TypeOK, Unexpired, Spill, scanVars
<1>2. OnStack' = OnStack \cup {v} /\ SlotsDisjoint' /\ SpillArea'
    BY SpillKeepsSlots, NextInterval
<1>3. InRegister' = InRegister
    BY NextInterval DEF InRegister, Placed, IInv, TypeOK, Spill, scanVars, IsNext
<1>4. Phases' /\ Intervals' /\ LiveIsTouched' /\ ScanOrder' /\ ExpiredIsPast'
    BY <1>1, <1>2, <1>3, ScanDiscipline, NextInterval DEF InRegister
<1>5. ActiveHoldsPool'
    BY <1>3, NextInterval DEF IInv, ActiveHoldsPool, Unexpired
<1>6. NoInterference' /\ NoPoolAcrossCall' /\ EveryPlacedHasHome'
    BY <1>3, SameProgram
       DEF IInv, NoInterference, NoPoolAcrossCall, EveryPlacedHasHome, InRegister, Placed
<1>7. NoNeedlessSpill'
    BY <1>2, JustifiedSpill
<1>8. QED
    BY <1>1, <1>2, <1>4, <1>5, <1>6, <1>7 DEF IInv

LEMMA PlaceFreeIInv ==
    ASSUME IInv, NEW v \in VReg, PlaceFree(v)
    PROVE  IInv'
<1> USE DEF PlaceFree
<1> DEFINE r == FirstFree(Unexpired(v))
<1>1. r \in PoolRegs /\ (\A u \in Unexpired(v) : reg[u] # r)
    BY FirstFreeIsFree DEF Unexpired, IInv, TypeOK
<1>2. TypeOK'
    BY <1>1 DEF IInv, TypeOK, Unexpired, scanVars
<1>3. OnStack' = OnStack
    BY DEF OnStack
<1>4. InRegister' = InRegister \cup {v} /\ v \notin InRegister
    BY NextInterval DEF InRegister, Placed, IInv, TypeOK, scanVars, IsNext
<1>5. reg'[v] = r /\ (\A u \in InRegister : reg'[u] = reg[u]) /\ InRegister \subseteq VReg
    BY <1>4 DEF IInv, TypeOK, InRegister, Placed
<1>6. Phases' /\ Intervals' /\ LiveIsTouched' /\ ScanOrder' /\ ExpiredIsPast'
    BY <1>2, <1>3, <1>4, ScanDiscipline
<1>7. ActiveHoldsPool'
    BY <1>1, <1>4, <1>5, NextInterval DEF IInv, ActiveHoldsPool, Unexpired
<1>8. NoInterference'
    <2>1. ASSUME NEW u \in InRegister, Overlap(u, v)
          PROVE  reg[u] # r
        BY <1>1, <2>1, NextInterval DEF Overlap, IInv, TypeOK, InRegister, Placed
    <2>2. \A u, w \in VReg : Overlap(u, w) => Overlap(w, u)
        BY DEF Overlap
    <2>3. QED
        BY <1>4, <1>5, <2>1, <2>2, SameProgram DEF IInv, NoInterference
<1>9. NoPoolAcrossCall' /\ EveryPlacedHasHome'
    BY <1>1, <1>4, <1>5, SameProgram DEF IInv, NoPoolAcrossCall, EveryPlacedHasHome
<1>10. SlotsDisjoint' /\ SpillArea'
    BY <1>3 DEF IInv, SlotsDisjoint, SpillArea
<1>11. NoNeedlessSpill'
    <2>1. OnStack \subseteq VReg
        BY DEF OnStack
    <2>2. QED
        BY <1>3, <2>1, SameProgram DEF IInv, NoNeedlessSpill
<1>12. QED
    BY <1>2, <1>6, <1>7, <1>8, <1>9, <1>10, <1>11 DEF IInv

LEMMA PlaceEvictingIInv ==
    ASSUME IInv, NEW v \in VReg, NEW u \in VReg, PlaceEvicting(v, u)
    PROVE  IInv'
<1> USE DEF PlaceEvicting
<1>1. u \in Unexpired(v) /\ u # v /\ u \in InRegister /\ ~spilled[u]
    BY NextInterval DEF IsVictim, InRegister, Unexpired
<1>2. TypeOK'
    BY DEF IInv, TypeOK, Unexpired, Spill, scanVars
<1>3. OnStack' = OnStack \cup {u} /\ SlotsDisjoint' /\ SpillArea'
    BY <1>1, SpillKeepsSlots
<1>4. InRegister' = (InRegister \ {u}) \cup {v} /\ v \notin InRegister
    BY <1>1, NextInterval
       DEF InRegister, Placed, IInv, TypeOK, scanVars, IsNext, Spill
<1>5. /\ reg'[v] = reg[u]
      /\ \A w \in InRegister : reg'[w] = reg[w]
      /\ InRegister \subseteq VReg
    BY <1>4 DEF IInv, TypeOK, InRegister, Placed
<1>6. Phases' /\ Intervals' /\ LiveIsTouched' /\ ScanOrder' /\ ExpiredIsPast'
    BY <1>1, <1>2, <1>3, <1>4, ScanDiscipline
<1>7. ActiveHoldsPool'
    BY <1>1, <1>4, <1>5, NextInterval DEF IInv, ActiveHoldsPool, Unexpired
<1>8. NoInterference'
    <2>1. ASSUME NEW w \in InRegister \ {u}, Overlap(w, v)
          PROVE  reg[w] # reg[u]
        <3>1. w \in Unexpired(v)
            BY <2>1, NextInterval DEF Overlap, IInv, TypeOK, InRegister, Placed
        <3>2. QED
            BY <1>1, <3>1 DEF IInv, ActiveHoldsPool, Unexpired
    <2>2. \A x, w \in VReg : Overlap(x, w) => Overlap(w, x)
        BY DEF Overlap
    <2>3. QED
        BY <1>4, <1>5, <2>1, <2>2, SameProgram DEF IInv, NoInterference
<1>9. NoPoolAcrossCall' /\ EveryPlacedHasHome'
    BY <1>1, <1>4, <1>5, SameProgram DEF IInv, NoPoolAcrossCall, EveryPlacedHasHome
<1>10. NoNeedlessSpill'
    BY <1>1, <1>3, PoolIsFull, JustifiedSpill
<1>11. QED
    BY <1>2, <1>3, <1>6, <1>7, <1>8, <1>9, <1>10 DEF IInv

LEMMA PlaceSpilledIInv ==
    ASSUME IInv, NEW v \in VReg, PlaceSpilled(v)
    PROVE  IInv'
<1> USE DEF PlaceSpilled
<1>1. TypeOK'
    BY DEF IInv, TypeOK, Unexpired, Spill, scanVars
<1>2. OnStack' = OnStack \cup {v} /\ SlotsDisjoint' /\ SpillArea'
    BY SpillKeepsSlots, NextInterval
<1>3. InRegister' = InRegister
    BY NextInterval DEF InRegister, Placed, IInv, TypeOK, Spill, scanVars, IsNext
<1>4. Phases' /\ Intervals' /\ LiveIsTouched' /\ ScanOrder' /\ ExpiredIsPast'
    BY <1>1, <1>2, <1>3, ScanDiscipline, NextInterval DEF InRegister
<1>5. ActiveHoldsPool'
    BY <1>3, NextInterval DEF IInv, ActiveHoldsPool, Unexpired
<1>6. NoInterference' /\ NoPoolAcrossCall' /\ EveryPlacedHasHome'
    BY <1>3, SameProgram
       DEF IInv, NoInterference, NoPoolAcrossCall, EveryPlacedHasHome, InRegister, Placed
<1>7. NoNeedlessSpill'
    BY <1>2, PoolIsFull, JustifiedSpill
<1>8. QED
    BY <1>1, <1>2, <1>4, <1>5, <1>6, <1>7 DEF IInv

LEMMA NextIInv == IInv /\ [Next]_vars => IInv'
<1> SUFFICES ASSUME IInv, [Next]_vars
             PROVE  IInv'
    OBVIOUS
<1>1. CASE Scan
    BY <1>1, ScanIInv DEF Scan
<1>2. CASE EndScan
    BY <1>2, EndScanIInv
<1>3. ASSUME NEW v \in VReg, Place(v)
      PROVE  IInv'
    BY <1>3, PlaceCrossingIInv, PlaceFreeIInv, PlaceEvictingIInv, PlaceSpilledIInv DEF Place
<1>4. CASE Finish
    BY <1>4, FinishIInv
<1>5. CASE UNCHANGED vars
    BY SMTT(30), <1>5 DEF vars, scanVars, allocVars, IInv, TypeOK, Phases, Intervals, SpillArea,
                LiveIsTouched, ScanOrder, ActiveHoldsPool, ExpiredIsPast, NoInterference,
                NoPoolAcrossCall, EveryPlacedHasHome, SlotsDisjoint, NoNeedlessSpill,
                Placed, InRegister, OnStack, Overlap, CrossesCall, Competing
<1>6. QED
    BY <1>1, <1>2, <1>3, <1>4, <1>5 DEF Next

-----------------------------------------------------------------------------
(* The strengthened invariant holds of every behaviour of the allocator.   *)
THEOREM AllocatorInvariant == Spec => []IInv
BY InitIInv, NextIInv, PTL DEF Spec

(* The allocator keeps its types: in particular reg[] only ever holds pool *)
(* registers (regalloc.c lines 104-109 and 121).                           *)
THEOREM TypeCorrect == Spec => []TypeOK
<1>1. IInv => TypeOK
    BY DEF IInv
<1>2. QED
    BY <1>1, AllocatorInvariant, PTL

(* Simultaneously live virtual registers never share a pool register,      *)
(* whatever the program and the pool (regalloc.c lines 82-129).            *)
THEOREM AllocationIsSound == Spec => []NoInterference
<1>1. IInv => NoInterference
    BY DEF IInv
<1>2. QED
    BY <1>1, AllocatorInvariant, PTL

(* A value that lives across a call is never in the caller-clobbered pool, *)
(* and what is in the pool is in a real register of it (regalloc.c lines   *)
(* 26-66, 92-110).                                                         *)
THEOREM CallsPreserveValues == Spec => [](NoPoolAcrossCall /\ EveryPlacedHasHome)
<1>1. IInv => NoPoolAcrossCall /\ EveryPlacedHasHome
    BY DEF IInv
<1>2. QED
    BY <1>1, AllocatorInvariant, PTL

(* Spill slots never overlap and lie inside the reserved spill area        *)
(* (regalloc.c lines 95-96, 119-126, 131).                                 *)
THEOREM SlotsNeverOverlap == Spec => []SlotsDisjoint
<1>1. IInv => SlotsDisjoint
    BY DEF IInv
<1>2. QED
    BY <1>1, AllocatorInvariant, PTL

(* Nothing is spilled unless it crosses a call or the pool is              *)
(* over-subscribed during its life (regalloc.c lines 84-90, 100, 111-127). *)
THEOREM SpillsAreNeeded == Spec => []NoNeedlessSpill
<1>1. IInv => NoNeedlessSpill
    BY DEF IInv
<1>2. QED
    BY <1>1, AllocatorInvariant, PTL

(* Once on the stack, always on the stack and in the same slot: no step of *)
(* the main loop revisits an earlier spill (regalloc.c lines 82-129).      *)
THEOREM SpillsAreFinal == Spec => SpillIsFinal
<1> DEFINE Kept == \A v \in VReg : spilled[v] => spilled'[v] /\ slot'[v] = slot[v]
<1>1. ASSUME IInv, [Next]_vars
      PROVE  [Kept]_vars
    <2>1. ASSUME NEW u \in VReg, ~spilled[u], Spill(u)
          PROVE  Kept
        BY <2>1 DEF Spill, IInv, TypeOK
    <2>2. CASE Scan \/ EndScan \/ Finish
        BY <2>2 DEF Scan, ScanInst, EndScan, Finish, allocVars
    <2>3. ASSUME NEW v \in VReg, Place(v)
          PROVE  Kept
        <3>1. CASE PlaceFree(v)
            BY <3>1 DEF PlaceFree
        <3>2. ASSUME NEW u \in VReg, PlaceEvicting(v, u)
              PROVE  Kept
            BY <1>1, <2>1, <3>2, NextInterval
               DEF PlaceEvicting, IsVictim, InRegister
        <3>3. CASE PlaceCrossing(v) \/ PlaceSpilled(v)
            BY <1>1, <2>1, <3>3, NextInterval DEF PlaceCrossing, PlaceSpilled
        <3>4. QED
            BY <2>3, <3>1, <3>2, <3>3 DEF Place
    <2>4. QED
        BY <1>1, <2>2, <2>3 DEF Next
<1>2. QED
    BY <1>1, AllocatorInvariant, PTL DEF Spec, SpillIsFinal

-----------------------------------------------------------------------------
(* The generator. The machine is a record of these fields; of a value only *)
(* its place matters, so nothing is said of what the fields hold.          *)
Fields == {"r", "slot", "lo", "hi", "mdl", "mdh", "flags", "carry", "override", "effect"}

IsMachine(m) ==
    /\ m = [f \in Fields |-> m[f]]
    /\ m.r = [x \in Regs |-> m.r[x]]
    /\ m.slot = [v \in VReg |-> m.slot[v]]

Instruction ==
    [kind : DOMAIN Arity \cup {"call"}, dst : VReg \cup {None},
     use : Seq(VReg), target : VReg \cup {None}]

(* What an instruction reads, and how each kind is made up.                *)
Reads(i) == { i.use[k] : k \in 1 .. Len(i.use) } \cup ({i.target} \ {None})

(* The number and the kind of the operands.                                *)
WellFormed(i) ==
    /\ IF i.kind = "call" THEN Len(i.use) <= Len(ArgRegs)
       ELSE /\ Len(i.use) = Arity[i.kind]
            /\ i.target = None
            /\ i.dst = None <=> ~Writes(i.kind)

(* first, last and calls describe the code: a register is first touched by *)
(* the one instruction that writes it, and last by the last to read it.    *)
CodeScanned ==
    /\ Len(code) = ninsts
    /\ \A p \in 1 .. Len(code) :
        /\ code[p].kind = "call" => p - 1 \in calls
        /\ code[p].dst # None => first[code[p].dst] = p - 1
        /\ \A v \in Reads(code[p]) : first[v] # None /\ first[v] < p - 1 /\ p - 1 <= last[v]
    /\ \A v \in Defined : first[v] + 1 \in 1 .. Len(code) /\ code[first[v] + 1].dst = v

(* What MayFollow says of every place of the code.                         *)
Pairs ==
    \A p \in 1 .. Len(code) :
        /\ code[p].kind = "withCarry" => p - 1 \in 1 .. Len(code) /\ code[p - 1].kind = "binary"
        /\ code[p].kind = "productHigh" => p - 1 \in 1 .. Len(code) /\ code[p - 1].kind = "multiply"
        /\ code[p].kind = "return" => p = Len(code)

(* The registers are numbered in the order in which they are defined.      *)
Numbered == \E n \in 0 .. NVRegs : Defined = 0 .. n - 1

CodeOK ==
    /\ code \in Seq(Instruction)
    /\ \A p \in 1 .. Len(code) : WellFormed(code[p])
    /\ CodeScanned /\ Pairs /\ Numbered

(* Code runs only when the allocation is done, from the prologue on; until *)
(* then nothing has touched the first argument register.                   *)
StageOK ==
    /\ ip \in 0 .. Len(code)
    /\ stage \in {"before", "body", "failed"}
    /\ stage # "before" => pc = "done"
    /\ stage = "before" =>
        ip = 0 /\ machine.override = Junk /\ machine.r[ArgRegs[1]] = Incoming(1)

MachineOK ==
    /\ IsMachine(machine)
    /\ value = [v \in VReg |-> value[v]]

(* What an IR_CARRYOP or IR_MDH finds of the instruction before it.        *)
LeftBehind ==
    Run /\ ip > 0 =>
        /\ code[ip].kind = "binary" => machine.carry = <<"carry", <<value[code[ip].dst]>>>>
        /\ code[ip].kind = "multiply" => machine.mdh = <<"high", value[code[ip].dst][2]>>

CInv ==
    /\ IInv
    /\ CodeOK /\ StageOK /\ MachineOK /\ LeftBehind
    /\ HomesHold /\ EffectsAsMeant /\ WideSymbolAsMeant

-----------------------------------------------------------------------------
LEMMA InitCInv == CodegenInit => CInv
<1> SUFFICES ASSUME CodegenInit PROVE CInv
  OBVIOUS
<1>1. IInv
  BY InitIInv DEF CodegenInit
<1>2. Defined = {} /\ ninsts = 0
  BY DEF CodegenInit, Init, Defined
<1>3. Numbered
  <2>1. 0 \in 0 .. NVRegs /\ 0 .. 0 - 1 = {}
    BY NVRegsAssumption
  <2>2. QED
    BY <1>2, <2>1 DEF Numbered
<1>4. CodeOK
  BY <1>2, <1>3 DEF CodegenInit, CodeOK, CodeScanned, Pairs
<1>5. ArgRegs[1] \in Regs
  BY ArgumentsAssumption, RegistersAssumption DEF Regs
<1>6. StageOK
  BY <1>5 DEF CodegenInit, StageOK
<1>7. MachineOK
  BY DEF CodegenInit, MachineOK, IsMachine, Fields
<1>8. ~Run
  BY DEF CodegenInit, Run
<1>9. QED
  BY <1>1, <1>4, <1>6, <1>7, <1>8 DEF CInv, LeftBehind, HomesHold, EffectsAsMeant, WideSymbolAsMeant

(* As long as the function is being put together nothing runs.             *)
LEMMA NothingRunsYet ==
    ASSUME CInv, IInv', CodeOK', pc # "done", UNCHANGED <<ip, stage, machine, value, wide, meant>>
    PROVE  CInv'
<1>1. stage = "before" /\ ip = 0
  BY DEF CInv, StageOK
<1>2. StageOK'
  BY <1>1 DEF CInv, StageOK, CodeOK
<1>3. MachineOK'
  BY DEF CInv, MachineOK, IsMachine, Fields
<1>4. ~Run'
  BY <1>1 DEF Run
<1>5. QED
  BY <1>2, <1>3, <1>4 DEF CInv, LeftBehind, HomesHold, EffectsAsMeant, WideSymbolAsMeant

LEMMA FreshIsNext ==
    ASSUME CInv, NEW d \in Fresh
    PROVE  d \in VReg /\ d \notin Defined /\ \E n \in 0 .. NVRegs : Defined \cup {d} = 0 .. n - 1
<1>1. PICK n \in 0 .. NVRegs : Defined = 0 .. n - 1
  BY DEF CInv, CodeOK, Numbered
<1>2. Cardinality(0 .. n - 1) = n
  BY FS_Interval, NVRegsAssumption
<1>3. d = n /\ n < NVRegs
  BY <1>1, <1>2 DEF Fresh
<1>4. n + 1 \in 0 .. NVRegs /\ Defined \cup {d} = 0 .. (n + 1) - 1
  BY <1>1, <1>3, NVRegsAssumption
<1>5. d \in VReg /\ d \notin Defined
  BY <1>1, <1>3, NVRegsAssumption DEF VReg
<1>6. \E k \in 0 .. NVRegs : Defined \cup {d} = 0 .. k - 1
  BY <1>4
<1>7. QED
  BY <1>5, <1>6

LEMMA EmitCInv ==
    ASSUME CInv, NEW i \in Instruction, WellFormed(i), Reads(i) \subseteq Defined,
           i.dst \in Fresh \cup {None}, MayEmit(i.kind), Emit(i)
    PROVE  CInv'
<1> DEFINE touched == ({i.dst, i.target} \cup { i.use[k] : k \in DOMAIN i.use }) \ {None}
<1>1. touched = Reads(i) \cup ({i.dst} \ {None}) /\ touched \subseteq VReg
  <2>1. DOMAIN i.use = 1 .. Len(i.use) /\ \A k \in DOMAIN i.use : i.use[k] \in VReg
    BY DEF Instruction
  <2>2. None \notin VReg
    BY NVRegsAssumption DEF None, VReg
  <2>3. i.dst \in VReg \cup {None} /\ i.target \in VReg \cup {None}
    BY DEF Instruction
  <2>4. QED
    BY <2>1, <2>2, <2>3 DEF Reads
<1>2. ScanInst(touched, i.kind = "call") /\ code' = Append(code, i)
      /\ UNCHANGED <<ip, stage, machine, value, wide, meant>>
  BY DEF Emit
<1> HIDE DEF touched
<1>3. IInv'
  <2>1. (i.kind = "call") \in BOOLEAN
    OBVIOUS
  <2>2. QED
    BY <1>1, <1>2, <2>1, ScanIInv DEF CInv
<1>4. /\ pc = "scan" /\ ninsts' = ninsts + 1 /\ ninsts \in Nat
      /\ first \in [VReg -> Int] /\ last \in [VReg -> Int]
      /\ code \in Seq(Instruction) /\ Len(code) = ninsts
  BY <1>2, MaxInstsAssumption DEF ScanInst, CInv, IInv, TypeOK, CodeOK, CodeScanned
<1>5. /\ code' \in Seq(Instruction) /\ Len(code') = Len(code) + 1
      /\ code'[Len(code) + 1] = i
      /\ \A p \in 1 .. Len(code) : code'[p] = code[p]
  BY <1>2, <1>4
<1>6. /\ \A v \in VReg : first[v] # None => first'[v] = first[v]
      /\ \A v \in touched : first[v] = None => first'[v] = ninsts
      /\ \A v \in VReg \ touched : first'[v] = first[v] /\ last'[v] = last[v]
      /\ \A v \in touched : last'[v] = ninsts
      /\ calls \subseteq calls'
      /\ i.kind = "call" => ninsts \in calls'
  BY <1>1, <1>2 DEF ScanInst
<1>7. \A v \in Defined : v \in VReg /\ first[v] # None /\ first[v] < ninsts /\ last[v] < ninsts
  BY <1>4 DEF CInv, IInv, Intervals, Defined
<1>8. Defined' = Defined \cup ({i.dst} \ {None})
  <2>1. \A v \in VReg : first'[v] # None <=> first[v] # None \/ v \in touched
    BY <1>4, <1>6 DEF None
  <2>2. QED
    BY <1>1, <2>1 DEF Defined
<1>9. i.dst # None => i.dst \in VReg /\ i.dst \notin Defined /\ first[i.dst] = None
  BY FreshIsNext DEF Defined
<1>10. Numbered'
  BY <1>8, FreshIsNext DEF CInv, CodeOK, Numbered
<1>11. CodeScanned'
  <2>1. Len(code') = ninsts'
    BY <1>4, <1>5
  <2>2. ASSUME NEW p \in 1 .. Len(code')
        PROVE  /\ code'[p].kind = "call" => p - 1 \in calls'
               /\ code'[p].dst # None => first'[code'[p].dst] = p - 1
               /\ \A v \in Reads(code'[p]) : first'[v] # None /\ first'[v] < p - 1 /\ p - 1 <= last'[v]
    <3>1. CASE p = Len(code) + 1
      <4>1. code'[p] = i /\ p - 1 = ninsts
        BY <1>4, <1>5, <3>1
      <4>2. i.dst # None => first'[i.dst] = p - 1
        BY <1>1, <1>6, <1>9, <4>1
      <4>3. \A v \in Reads(i) : first'[v] # None /\ first'[v] < p - 1 /\ p - 1 <= last'[v]
        BY <1>1, <1>4, <1>6, <1>7, <4>1
      <4>4. QED
        BY <1>6, <4>1, <4>2, <4>3
    <3>2. CASE p # Len(code) + 1
      <4>1. p \in 1 .. Len(code) /\ code'[p] = code[p]
        BY <1>4, <1>5, <3>2
      <4>2. /\ code[p].kind = "call" => p - 1 \in calls
            /\ code[p].dst # None => first[code[p].dst] = p - 1
            /\ \A v \in Reads(code[p]) : first[v] # None /\ first[v] < p - 1 /\ p - 1 <= last[v]
        BY <4>1 DEF CInv, CodeOK, CodeScanned
      <4>3. code[p] \in Instruction
        BY <1>4, <4>1
      <4>4. Reads(code[p]) \subseteq VReg /\ (code[p].dst # None => code[p].dst \in VReg)
        BY <4>3 DEF Reads, Instruction
      <4>5. \A v \in VReg : first[v] # None => last'[v] >= last[v]
        BY <1>4, <1>6, <1>7 DEF Defined
      <4>6. code[p].dst # None => first'[code[p].dst] = p - 1
        BY <1>6, <4>1, <4>2, <4>4 DEF None
      <4>7. ASSUME NEW v \in Reads(code[p])
            PROVE  first'[v] # None /\ first'[v] < p - 1 /\ p - 1 <= last'[v]
        <5>1. v \in VReg /\ first[v] # None /\ first[v] < p - 1 /\ p - 1 <= last[v]
          BY <4>2, <4>4
        <5>2. first'[v] = first[v] /\ last'[v] >= last[v] /\ last[v] \in Int /\ last'[v] \in Int
          BY <1>3, <1>6, <4>5, <5>1, <1>4 DEF IInv, TypeOK
        <5>3. QED
          BY <5>1, <5>2
      <4>8. QED
        BY <1>6, <4>1, <4>2, <4>6, <4>7
    <3>3. QED
      BY <3>1, <3>2
  <2>3. ASSUME NEW v \in Defined'
        PROVE  first'[v] + 1 \in 1 .. Len(code') /\ code'[first'[v] + 1].dst = v
    <3>1. CASE v \in Defined
      <4>1. first'[v] = first[v] /\ first[v] + 1 \in 1 .. Len(code) /\ code[first[v] + 1].dst = v
        BY <1>6, <1>7, <3>1 DEF CInv, CodeOK, CodeScanned
      <4>2. QED
        BY <1>4, <1>5, <4>1
    <3>2. CASE v \notin Defined
      <4>1. v = i.dst /\ v # None /\ first'[v] = ninsts
        BY <1>1, <1>6, <1>8, <1>9, <3>2
      <4>2. QED
        BY <1>4, <1>5, <4>1
    <3>3. QED
      BY <3>1, <3>2
  <2>4. QED
    BY <2>1, <2>2, <2>3 DEF CodeScanned
<1>12. Pairs'
  <2>1. /\ i.kind = "withCarry" => LastKind = "binary"
        /\ i.kind = "productHigh" => LastKind = "multiply"
        /\ LastKind # "return"
    BY DEF MayEmit, MayFollow
  <2>2. code # <<>> => Len(code) > 0 /\ LastKind = code[Len(code)].kind
    <3>1. code # <<>> => LastKind = code[Len(code)].kind
      BY DEF LastKind, Last
    <3>2. code # <<>> => Len(code) > 0
      BY <1>4
    <3>3. QED
      BY <3>1, <3>2
  <2>3. code = <<>> => LastKind = ""
    BY DEF LastKind
  <2>4. ASSUME NEW p \in 1 .. Len(code')
        PROVE  /\ code'[p].kind = "withCarry" => p - 1 \in 1 .. Len(code') /\ code'[p - 1].kind = "binary"
               /\ code'[p].kind = "productHigh" => p - 1 \in 1 .. Len(code') /\ code'[p - 1].kind = "multiply"
               /\ code'[p].kind = "return" => p = Len(code')
    <3>1. CASE p = Len(code) + 1
      <4>1. code'[p] = i /\ p - 1 = Len(code) /\ p = Len(code')
        BY <1>4, <1>5, <3>1
      <4>2. LastKind \in {"binary", "multiply"} => Len(code) > 0 /\ code[Len(code)].kind = LastKind
        BY <2>2, <2>3
      <4>3. QED
        BY SMTT(30), <1>4, <1>5, <2>1, <4>1, <4>2
    <3>2. CASE p # Len(code) + 1
      <4>1. p \in 1 .. Len(code) /\ code'[p] = code[p]
        BY <1>4, <1>5, <3>2
      <4>2. /\ code[p].kind = "withCarry" => p - 1 \in 1 .. Len(code) /\ code[p - 1].kind = "binary"
            /\ code[p].kind = "productHigh" => p - 1 \in 1 .. Len(code) /\ code[p - 1].kind = "multiply"
            /\ code[p].kind = "return" => p = Len(code)
        BY <4>1 DEF CInv, CodeOK, Pairs
      <4>3. code # <<>>
        BY <1>4, <4>1
      <4>4. code[p].kind # "return"
        BY <2>1, <2>2, <4>2, <4>3
      <4>5. QED
        BY <1>4, <1>5, <4>1, <4>2, <4>4
    <3>3. QED
      BY <3>1, <3>2
  <2>5. QED
    BY <2>4 DEF Pairs
<1>13. CodeOK'
  <2>1. \A p \in 1 .. Len(code') : WellFormed(code'[p])
    BY <1>4, <1>5 DEF CInv, CodeOK
  <2>2. QED
    BY <1>5, <1>10, <1>11, <1>12, <2>1 DEF CodeOK
<1>14. QED
  BY <1>2, <1>3, <1>4, <1>13, NothingRunsYet

(* EmitPlain and EmitCall append an instruction of this kind.              *)
Emits ==
    \E i \in Instruction :
        /\ WellFormed(i) /\ Reads(i) \subseteq Defined
        /\ i.dst \in Fresh \cup {None} /\ MayEmit(i.kind) /\ Emit(i)

LEMMA EmitPlainEmits == CInv /\ EmitPlain => Emits
<1> SUFFICES ASSUME CInv, EmitPlain PROVE Emits
  OBVIOUS
<1>1. PICK kind \in DOMAIN Arity :
          /\ MayEmit(kind)
          /\ \E use \in [1 .. Arity[kind] -> Defined] :
              \E dst \in (IF Writes(kind) THEN Fresh ELSE {None}) :
                  Emit([kind |-> kind, dst |-> dst, use |-> use, target |-> None])
  BY DEF EmitPlain
<1>2. PICK use \in [1 .. Arity[kind] -> Defined],
           dst \in (IF Writes(kind) THEN Fresh ELSE {None}) :
              Emit([kind |-> kind, dst |-> dst, use |-> use, target |-> None])
  BY <1>1
<1> DEFINE i == [kind |-> kind, dst |-> dst, use |-> use, target |-> None]
<1>3. Arity[kind] \in Nat /\ kind # "call"
  BY DEF Arity
<1>4. use \in Seq(Defined) /\ Len(use) = Arity[kind]
  BY <1>3
<1>5. Defined \subseteq VReg /\ None \notin VReg
  BY NVRegsAssumption DEF Defined, VReg, None
<1>6. use \in Seq(VReg)
  BY <1>4, <1>5
<1>7. dst \in Fresh \cup {None} /\ dst \in VReg \cup {None} /\ (dst = None <=> ~Writes(kind))
  BY <1>5, FreshIsNext
<1>8. i \in Instruction
  BY <1>6, <1>7 DEF Instruction
<1>9. WellFormed(i) /\ Reads(i) \subseteq Defined
  BY <1>3, <1>4, <1>7 DEF WellFormed, Reads
<1>10. QED
  BY <1>1, <1>2, <1>7, <1>8, <1>9 DEF Emits

LEMMA EmitCallEmits == CInv /\ EmitCall => Emits
<1> SUFFICES ASSUME CInv, EmitCall PROVE Emits
  OBVIOUS
<1>1. PICK n \in 0 .. Len(ArgRegs) : \E use \in [1 .. n -> Defined] :
        \E dst \in Fresh \cup {None}, target \in Defined \cup {None} :
            Emit([kind |-> "call", dst |-> dst, use |-> use, target |-> target])
  BY DEF EmitCall
<1>2. PICK use \in [1 .. n -> Defined], dst \in Fresh \cup {None}, target \in Defined \cup {None} :
            Emit([kind |-> "call", dst |-> dst, use |-> use, target |-> target])
  BY <1>1
<1> DEFINE i == [kind |-> "call", dst |-> dst, use |-> use, target |-> target]
<1>3. n \in Nat /\ n <= Len(ArgRegs) /\ MayEmit("call")
  BY RegistersAssumption DEF EmitCall
<1>4. use \in Seq(Defined) /\ Len(use) = n
  BY <1>3
<1>5. Defined \subseteq VReg /\ None \notin VReg
  BY NVRegsAssumption DEF Defined, VReg, None
<1>6. use \in Seq(VReg)
  BY <1>4, <1>5
<1>7. dst \in VReg \cup {None} /\ target \in VReg \cup {None}
  BY <1>5, FreshIsNext
<1>8. i \in Instruction
  BY <1>6, <1>7 DEF Instruction
<1>9. WellFormed(i) /\ Reads(i) \subseteq Defined
  BY <1>3, <1>4 DEF WellFormed, Reads
<1>10. QED
  BY <1>2, <1>3, <1>8, <1>9 DEF Emits

(* To the allocator it is one more instruction scanned.                    *)
LEMMA EmitsScans == CInv /\ Emits => Scan
<1> SUFFICES ASSUME CInv, Emits PROVE Scan
  OBVIOUS
<1>1. PICK i \in Instruction : i.dst \in Fresh \cup {None} /\ Emit(i)
  BY DEF Emits
<1>2. ({i.dst, i.target} \cup { i.use[k] : k \in DOMAIN i.use }) \ {None} \in SUBSET VReg
  <2>1. DOMAIN i.use = 1 .. Len(i.use) /\ \A k \in DOMAIN i.use : i.use[k] \in VReg
    BY DEF Instruction
  <2>2. i.dst \in VReg \cup {None} /\ i.target \in VReg \cup {None}
    BY DEF Instruction
  <2>3. QED
    BY <2>1, <2>2
<1>3. (i.kind = "call") \in BOOLEAN
  OBVIOUS
<1>4. QED
  BY <1>1, <1>2, <1>3 DEF Emit, Scan

(* The allocator leaves the code and what was scanned of it alone.         *)
LEMMA AllocateCInv == CInv /\ Allocate => CInv'
<1> SUFFICES ASSUME CInv, Allocate PROVE CInv'
  OBVIOUS
<1>1. EndScan \/ (\E v \in VReg : Place(v)) \/ Finish
  BY DEF Allocate
<1>2. IInv'
  <2>1. [Next]_vars
    BY <1>1 DEF Next
  <2>2. QED
    BY <2>1, NextIInv DEF CInv
<1>3. pc # "done" /\ UNCHANGED scanVars
  BY <1>1 DEF EndScan, Finish, Place, PlaceCrossing, PlaceFree, PlaceEvicting, PlaceSpilled, IsNext
<1>4. UNCHANGED cgVars
  BY DEF Allocate
<1>5. Defined' = Defined
  BY <1>3 DEF Defined, scanVars
<1>6. CodeOK'
  BY <1>3, <1>4, <1>5 DEF CInv, CodeOK, CodeScanned, Pairs, Numbered, scanVars, cgVars
<1>7. QED
  BY <1>2, <1>3, <1>4, <1>6, NothingRunsYet DEF cgVars

-----------------------------------------------------------------------------
LEMMA Registers ==
    /\ PoolRegs \subseteq Regs /\ R0 \in Regs
    /\ Scratch1 \in Regs /\ Scratch2 \in Regs /\ Scratch1 # Scratch2
    /\ Scratch1 \notin PoolRegs /\ Scratch2 \notin PoolRegs
    /\ \A k \in 1 .. Len(ArgRegs) :
        /\ ArgRegs[k] \in Regs /\ ArgRegs[k] # Scratch1 /\ ArgRegs[k] # Scratch2
        /\ k < Len(ArgRegs) => ArgRegs[k] \notin PoolRegs
        /\ \A j \in 1 .. Len(ArgRegs) : ArgRegs[j] = ArgRegs[k] => j = k
<1>1. DOMAIN ArgRegs = 1 .. Len(ArgRegs) /\ Len(ArgRegs) \in Nat
  BY RegistersAssumption
<1>2. \A k \in 1 .. Len(ArgRegs) : ArgRegs[k] # Scratch1 /\ ArgRegs[k] # Scratch2
  BY RegistersAssumption
<1>3. \A k \in 1 .. Len(ArgRegs) : k < Len(ArgRegs) => ArgRegs[k] \notin PoolRegs
  BY <1>1, ArgumentsAssumption
<1>4. \A k, j \in 1 .. Len(ArgRegs) : ArgRegs[j] = ArgRegs[k] => j = k
  BY <1>1, ArgumentsAssumption DEF IsInjective
<1>5. QED
  BY <1>2, <1>3, <1>4, RegistersAssumption DEF Regs

(* The registers and the slots are as they were before the instruction,    *)
(* but for the register of its result and those no home is in.             *)
SameHomes(m) ==
    /\ IsMachine(m)
    /\ m.slot = machine.slot
    /\ \A x \in PoolRegs : (Inst.dst # None => x # Dst) => m.r[x] = machine.r[x]

(* An operand is at home, and its register is not that of the result.      *)
Operand(v) ==
    /\ v \in VReg
    /\ Home(v) = value[v]
    /\ ~spilled[v] => reg[v] \in PoolRegs /\ (Inst.dst # None => reg[v] # Dst)

(* The registers that the rest of the code reads, with the one that the    *)
(* instruction at ip writes.                                               *)
LiveAfter ==
    { v \in VReg : \E p \in 1 .. ip + 1 : code[p].dst = v /\ (p = ip + 1 \/ last[v] >= ip + 1) }

(* An instruction stands at ip.                                            *)
Ready == CInv /\ Run /\ ip < Len(code)

LEMMA ReadyFacts ==
    ASSUME Ready
    PROVE  /\ pc = "done" /\ ip \in Nat /\ ip + 1 \in 1 .. Len(code)
           /\ Inst \in Instruction /\ WellFormed(Inst)
           /\ IInv /\ IsMachine(machine) /\ machine.override = Junk
           /\ code \in Seq(Instruction) /\ Len(code) \in Nat
           /\ first \in [VReg -> Int] /\ last \in [VReg -> Int]
<1>1. pc = "done" /\ ip \in 0 .. Len(code)
  BY DEF Ready, Run, CInv, StageOK
<1>2. code \in Seq(Instruction) /\ Len(code) \in Nat
  BY DEF Ready, CInv, CodeOK
<1>3. ip \in Nat /\ ip + 1 \in 1 .. Len(code)
  BY <1>1, <1>2 DEF Ready
<1>4. Inst \in Instruction /\ WellFormed(Inst)
  BY <1>2, <1>3 DEF Ready, CInv, CodeOK, Inst
<1>5. QED
  BY <1>1, <1>2, <1>3, <1>4 DEF Ready, CInv, MachineOK, HomesHold, IInv, TypeOK

(* What stands before the instruction, and whether anything follows it.    *)
LEMMA Neighbours ==
    ASSUME Ready
    PROVE  /\ Inst.kind = "withCarry" => ip > 0 /\ code[ip].kind = "binary"
           /\ Inst.kind = "productHigh" => ip > 0 /\ code[ip].kind = "multiply"
           /\ Inst.kind = "return" => ip + 1 = Len(code)
<1>1. Pairs /\ ip \in Nat /\ ip + 1 \in 1 .. Len(code) /\ Len(code) \in Nat
  BY ReadyFacts DEF Ready, CInv, CodeOK
<1> DEFINE p == ip + 1
<1>2. p - 1 = ip /\ p \in 1 .. Len(code) /\ Inst = code[p] /\ (ip \in 1 .. Len(code) => ip > 0)
  BY <1>1 DEF Inst
<1> HIDE DEF p
<1>3. QED
  BY <1>1, <1>2 DEF Pairs, p
(* Two registers touched by the instruction, or that live across it, have  *)
(* intervals that meet there, hence different pool registers.              *)
LEMMA Apart ==
    ASSUME Ready, NEW v \in Defined, NEW d \in Defined, v # d,
           first[v] <= ip, ip <= last[v], first[d] = ip, ~spilled[v]
    PROVE  reg[v] \in PoolRegs /\ reg[v] # DstTarget(d)
<1>1. v \in InRegister /\ v \in VReg /\ d \in VReg
  BY ReadyFacts DEF Defined, InRegister, Placed, IInv, Phases
<1>2. reg[v] \in PoolRegs
  BY <1>1, ReadyFacts DEF IInv, EveryPlacedHasHome
<1>3. CASE spilled[d]
  BY <1>2, <1>3, Registers DEF DstTarget, At
<1>4. CASE ~spilled[d]
  <2>1. d \in InRegister
    BY <1>1, <1>4, ReadyFacts DEF Defined, InRegister, Placed, IInv, Phases
  <2>2. first[d] <= last[d]
    BY ReadyFacts DEF Defined, IInv, Intervals
  <2>3. Overlap(v, d)
    BY <1>1, <2>2, ReadyFacts DEF Overlap
  <2>4. reg[v] # reg[d]
    BY <1>1, <2>1, <2>3, ReadyFacts DEF IInv, NoInterference
  <2>5. QED
    BY <1>2, <1>4, <2>4 DEF DstTarget, At
<1>5. QED
  BY <1>3, <1>4

LEMMA DstIsNew ==
    ASSUME Ready, Inst.dst # None
    PROVE  /\ Inst.dst \in Defined /\ Inst.dst \in VReg /\ first[Inst.dst] = ip
           /\ Dst \in Regs
           /\ spilled[Inst.dst] => Dst = Scratch1
           /\ ~spilled[Inst.dst] => Dst = reg[Inst.dst] /\ Dst \in PoolRegs
<1>1. first[Inst.dst] = ip /\ Inst.dst \in VReg
  <2>1. first[Inst.dst] = ip + 1 - 1
    BY ReadyFacts DEF Ready, CInv, CodeOK, CodeScanned, Inst
  <2>2. QED
    BY <2>1, ReadyFacts DEF Instruction
<1>2. Inst.dst \in Defined
  BY <1>1, ReadyFacts DEF Defined, None
<1>3. ~spilled[Inst.dst] => reg[Inst.dst] \in PoolRegs
  BY <1>2, ReadyFacts DEF Defined, InRegister, Placed, IInv, Phases, EveryPlacedHasHome
<1>4. QED
  BY <1>1, <1>2, <1>3, Registers DEF DstTarget, Dst, At

LEMMA OperandsAtHome ==
    ASSUME Ready
    PROVE  \A v \in Reads(Inst) : Operand(v)
<1> SUFFICES ASSUME NEW v \in Reads(Inst) PROVE Operand(v)
  OBVIOUS
<1>1. v \in VReg
  BY SMTT(30), ReadyFacts DEF Reads, Instruction
<1>2. first[v] # None /\ first[v] < ip /\ ip <= last[v]
  <2>1. first[v] # None /\ first[v] < ip + 1 - 1 /\ ip + 1 - 1 <= last[v]
    BY ReadyFacts DEF Ready, CInv, CodeOK, CodeScanned, Inst
  <2>2. QED
    BY <1>1, <2>1, ReadyFacts
<1>3. v \in Defined /\ first[v] + 1 \in 1 .. Len(code) /\ code[first[v] + 1].dst = v
  BY <1>1, <1>2, ReadyFacts DEF Defined, Ready, CInv, CodeOK, CodeScanned
<1>4. v \in Live
  <2>1. first[v] + 1 \in 1 .. ip
    BY <1>1, <1>2, <1>3, ReadyFacts
  <2>2. QED
    BY <1>1, <1>2, <1>3, <2>1 DEF Live
<1>5. Home(v) = value[v]
  BY <1>4 DEF Ready, CInv, HomesHold
<1>6. ASSUME ~spilled[v]
      PROVE  reg[v] \in PoolRegs /\ (Inst.dst # None => reg[v] # Dst)
  <2>1. v \in InRegister
    BY <1>1, <1>2, <1>6, ReadyFacts DEF InRegister, Placed, IInv, Phases
  <2>2. reg[v] \in PoolRegs
    BY <2>1, ReadyFacts DEF IInv, EveryPlacedHasHome
  <2>3. ASSUME Inst.dst # None PROVE reg[v] # Dst
    BY <1>1, <1>2, <1>3, <1>6, <2>3, ReadyFacts, DstIsNew, Apart DEF Dst
  <2>4. QED
    BY <2>2, <2>3
<1>7. QED
  BY <1>1, <1>5, <1>6 DEF Operand

(* A register that lives on past the instruction is at home before it, and *)
(* the instruction does not overwrite its home. Past a call it is on the   *)
(* stack.                                                                  *)
LEMMA Survivors ==
    ASSUME Ready, NEW v \in LiveAfter, v # Inst.dst
    PROVE  Operand(v) /\ (Inst.kind = "call" => spilled[v])
<1>1. PICK p \in 1 .. ip + 1 : code[p].dst = v /\ (p = ip + 1 \/ last[v] >= ip + 1)
  BY DEF LiveAfter
<1>2. v \in VReg /\ p \in 1 .. ip /\ last[v] >= ip + 1
  BY <1>1, ReadyFacts DEF LiveAfter, Inst
<1>3. first[v] = p - 1 /\ p \in 1 .. Len(code)
  <2>1. p \in 1 .. Len(code)
    BY <1>2, ReadyFacts
  <2>2. v # None
    BY <1>2, NVRegsAssumption DEF VReg, None
  <2>3. QED
    BY <1>1, <2>1, <2>2 DEF Ready, CInv, CodeOK, CodeScanned
<1>4. v \in Defined /\ first[v] < ip /\ last[v] \in Int
  BY <1>2, <1>3, ReadyFacts DEF Defined, None
<1>5. v \in Live
  BY <1>1, <1>2, <1>4, ReadyFacts DEF Live
<1>6. Home(v) = value[v]
  BY <1>5 DEF Ready, CInv, HomesHold
<1>7. ASSUME ~spilled[v]
      PROVE  reg[v] \in PoolRegs /\ (Inst.dst # None => reg[v] # Dst)
  <2>1. v \in InRegister
    BY <1>2, <1>4, <1>7, ReadyFacts DEF Defined, InRegister, Placed, IInv, Phases
  <2>2. reg[v] \in PoolRegs
    BY <2>1, ReadyFacts DEF IInv, EveryPlacedHasHome
  <2>3. ASSUME Inst.dst # None PROVE reg[v] # Dst
    BY <1>2, <1>4, <1>7, <2>3, ReadyFacts, DstIsNew, Apart DEF Dst
  <2>4. QED
    BY <2>2, <2>3
<1>8. ASSUME Inst.kind = "call", ~spilled[v] PROVE FALSE
  <2>1. ip + 1 - 1 \in calls
    BY <1>8, ReadyFacts DEF Ready, CInv, CodeOK, CodeScanned, Inst
  <2>2. ip \in calls
    BY <2>1, ReadyFacts
  <2>3. CrossesCall(v)
    BY <1>2, <1>4, <2>2, ReadyFacts DEF CrossesCall
  <2>4. v \in InRegister
    BY <1>2, <1>4, <1>8, ReadyFacts DEF Defined, InRegister, Placed, IInv, Phases
  <2>5. QED
    BY <2>3, <2>4, ReadyFacts DEF IInv, NoPoolAcrossCall
<1>9. QED
  BY <1>2, <1>6, <1>7, <1>8 DEF Operand

-----------------------------------------------------------------------------
(* What the processor instructions do. X is the set of registers that may  *)
(* differ between two states of the machine.                               *)
But(n, m, X) ==
    /\ IsMachine(n)
    /\ \A x \in Regs \ X : n.r[x] = m.r[x]
    /\ n.slot = m.slot /\ n.lo = m.lo /\ n.hi = m.hi

LEMMA MovDoes ==
    ASSUME NEW m, IsMachine(m), NEW x \in Regs, NEW t
    PROVE  LET n == Mov(m, x, t)
           IN  /\ But(n, m, {x}) /\ n.r[x] = t
               /\ n.mdl = m.mdl /\ n.mdh = m.mdh /\ n.carry = m.carry
               /\ n.flags = t /\ n.override = Junk /\ n.effect = m.effect
BY DEF Mov, IsMachine, But, Fields

LEMMA MovRegDoes ==
    ASSUME NEW m, IsMachine(m), NEW x \in Regs, NEW y \in Regs
    PROVE  LET n == MovReg(m, x, y)
           IN  /\ But(n, m, {x}) /\ n.r[x] = m.r[y]
               /\ n.mdl = m.mdl /\ n.mdh = m.mdh /\ n.carry = m.carry
               /\ (m.override = Junk => n.override = Junk) /\ n.effect = m.effect
BY DEF MovReg, Mov, IsMachine, But, Fields

LEMMA AluDoes ==
    ASSUME NEW m, IsMachine(m), NEW x \in Regs, NEW t
    PROVE  LET n == Alu(m, x, t)
           IN  /\ But(n, m, {x}) /\ n.r[x] = t
               /\ n.mdl = m.mdl /\ n.mdh = m.mdh /\ n.carry = <<"carry", <<t>>>>
               /\ n.flags = t /\ n.override = Junk /\ n.effect = m.effect
BY DEF Alu, Mov, IsMachine, But, Fields

LEMMA FlagsDoes ==
    ASSUME NEW m, IsMachine(m), NEW t
    PROVE  LET n == Flags(m, t)
           IN  /\ But(n, m, {})
               /\ n.mdl = m.mdl /\ n.mdh = m.mdh /\ n.carry = <<"carry", <<t>>>>
               /\ n.flags = t /\ n.override = Junk /\ n.effect = m.effect
BY DEF Flags, IsMachine, But, Fields

LEMMA MulDoes ==
    ASSUME NEW m, IsMachine(m), NEW x, NEW y
    PROVE  LET n == Mul(m, x, y)
               t == <<"MUL", <<m.r[x], m.r[y]>>>>
           IN  /\ But(n, m, {})
               /\ n.mdl = <<"low", <<t>>>> /\ n.mdh = <<"high", <<t>>>>
               /\ n.override = Junk /\ n.effect = m.effect
BY DEF Mul, Flags, IsMachine, But, Fields

LEMMA QuotientDoes ==
    ASSUME NEW m, IsMachine(m), NEW t
    PROVE  LET n == Quotient(m, t)
           IN  /\ But(n, m, {})
               /\ n.mdl = <<"quotient", <<t>>>> /\ n.mdh = <<"rest", <<t>>>>
               /\ n.override = Junk /\ n.effect = m.effect
BY DEF Quotient, Flags, IsMachine, But, Fields

LEMMA MdlDoes ==
    ASSUME NEW m, IsMachine(m), NEW t, NEW n, n = [m EXCEPT !.mdl = t]
    PROVE  /\ But(n, m, {}) /\ n.mdl = t /\ n.mdh = m.mdh /\ n.override = m.override
BY DEF IsMachine, But, Fields

LEMMA MdhDoes ==
    ASSUME NEW m, IsMachine(m), NEW t, NEW n, n = [m EXCEPT !.mdh = t]
    PROVE  /\ But(n, m, {}) /\ n.mdh = t /\ n.mdl = m.mdl /\ n.override = m.override
BY DEF IsMachine, But, Fields

LEMMA OverrideDoes ==
    ASSUME NEW m, IsMachine(m), NEW t, NEW n, n = [m EXCEPT !.override = t]
    PROVE  /\ But(n, m, {}) /\ n.override = t
BY DEF IsMachine, But, Fields

(* n is m with an operand loaded, if need be, into the scratch register s. *)
Loaded(n, m, v, s) ==
    /\ SameHomes(n) /\ But(n, m, {s})
    /\ At(v, s) \in Regs
    /\ At(v, s) # s => At(v, s) \in PoolRegs /\ (Inst.dst # None => At(v, s) # Dst)
    /\ n.r[At(v, s)] = value[v]
    /\ n.mdl = m.mdl /\ n.mdh = m.mdh /\ n.carry = m.carry
    /\ (m.override = Junk => n.override = Junk) /\ n.effect = m.effect

LEMMA LoadDoes ==
    ASSUME NEW m, SameHomes(m), NEW v, Operand(v), NEW s, s \in {Scratch1, Scratch2}
    PROVE  Loaded(LoadOperand(m, v, s), m, v, s)
<1> USE DEF Loaded
<1> DEFINE n == LoadOperand(m, v, s)
<1>1. s \in Regs /\ s \notin PoolRegs
  BY Registers
<1>2. CASE spilled[v]
  <2>1. n = Mov(m, s, m.slot[v]) /\ At(v, s) = s
    BY <1>2 DEF LoadOperand, At
  <2>2. m.slot[v] = value[v]
    BY <1>2 DEF Operand, Home, SameHomes
  <2>3. IsMachine(m)
    BY DEF SameHomes
  <2>4. LET k == Mov(m, s, m.slot[v])
        IN  /\ But(k, m, {s}) /\ k.r[s] = m.slot[v]
            /\ k.mdl = m.mdl /\ k.mdh = m.mdh /\ k.carry = m.carry
            /\ k.flags = m.slot[v] /\ k.override = Junk /\ k.effect = m.effect
    BY <1>1, <2>3, MovDoes
  <2>5. SameHomes(n)
    BY <1>1, <2>1, <2>4, Registers DEF SameHomes, But
  <2>6. QED
    BY <1>1, <2>1, <2>2, <2>4, <2>5
<1>3. CASE ~spilled[v]
  <2>1. n = m /\ At(v, s) = reg[v]
    BY <1>3 DEF LoadOperand, At
  <2>2. reg[v] \in PoolRegs /\ (Inst.dst # None => reg[v] # Dst)
    BY <1>3 DEF Operand
  <2>3. machine.r[reg[v]] = value[v]
    BY <1>3 DEF Operand, Home
  <2>4. QED
    BY <2>1, <2>2, <2>3, Registers DEF SameHomes, But
<1>4. QED
  BY <1>2, <1>3

-----------------------------------------------------------------------------
(* What is left to show of a step of the generated code.                   *)
LEMMA StepDone ==
    ASSUME Ready, Advance, IsMachine(machine'), machine'.override = Junk,
           value' = [v \in VReg |-> value'[v]],
           \A v \in LiveAfter : Home(v)' = value'[v],
           EffectsAsMeant', WideSymbolAsMeant', LeftBehind'
    PROVE  CInv'
<1>1. UNCHANGED <<vars, code, stage>> /\ ip' = ip + 1
  BY DEF Advance
<1>2. IInv'
  <2>1. [Next]_vars
    BY <1>1
  <2>2. QED
    BY <2>1, NextIInv DEF Ready, CInv
<1>3. CodeOK' /\ Defined' = Defined
  BY <1>1 DEF Ready, CInv, CodeOK, CodeScanned, Pairs, Numbered, Defined, vars, scanVars
<1>4. StageOK'
  BY <1>1, ReadyFacts DEF Ready, Run, StageOK, vars
<1>5. MachineOK'
  BY DEF MachineOK
<1>6. HomesHold'
  <2>1. Live' \subseteq LiveAfter
    BY <1>1 DEF Live, LiveAfter, vars, scanVars
  <2>2. QED
    BY <2>1 DEF HomesHold
<1>7. QED
  BY <1>2, <1>3, <1>4, <1>5, <1>6 DEF CInv

LEMMA YieldsRight ==
    ASSUME Ready, Inst.dst # None, Inst.kind # "call", NEW m, SameHomes(m),
           m.lo = machine.lo, m.hi = machine.hi, m.override = Junk,
           NEW t, m.r[Dst] = t, Yields(m, t),
           Inst.kind = "binary" => m.carry = <<"carry", <<t>>>>,
           Inst.kind = "multiply" => m.mdh = <<"high", t[2]>>
    PROVE  CInv'
<1> DEFINE d == Inst.dst
           n == FinishDst(m, d)
<1>1. /\ machine' = [n EXCEPT !.effect = Quiet]
      /\ value' = [value EXCEPT ![d] = t]
      /\ meant' = Quiet /\ wide' = wide
      /\ Advance
  BY DEF Yields
<1>2. UNCHANGED <<vars, code, stage>> /\ ip' = ip + 1
  BY <1>1 DEF Advance
<1>3. d \in VReg /\ value = [v \in VReg |-> value[v]]
  BY DstIsNew DEF Ready, CInv, MachineOK
<1>4. /\ value' = [v \in VReg |-> value'[v]]
      /\ value'[d] = t
      /\ \A v \in VReg : v # d => value'[v] = value[v]
  BY <1>1, <1>3
<1>5. /\ IsMachine(n) /\ n.r = m.r /\ n.lo = m.lo /\ n.hi = m.hi
      /\ n.override = Junk /\ n.carry = m.carry /\ n.mdh = m.mdh
      /\ \A v \in VReg : v # d => n.slot[v] = m.slot[v]
      /\ spilled[d] => n.slot[d] = m.r[Scratch1]
  BY <1>3 DEF FinishDst, SameHomes, IsMachine, Fields
<1>6. /\ IsMachine(machine') /\ machine'.r = m.r /\ machine'.slot = n.slot
      /\ machine'.lo = m.lo /\ machine'.hi = m.hi /\ machine'.override = Junk
      /\ machine'.carry = m.carry /\ machine'.mdh = m.mdh /\ machine'.effect = Quiet
  <2> HIDE DEF n
  <2> QED BY <1>1, <1>5 DEF IsMachine, Fields
<1> HIDE DEF n
<1>7. ASSUME NEW v \in LiveAfter PROVE Home(v)' = value'[v]
  <2>1. spilled' = spilled /\ reg' = reg
    BY <1>2 DEF vars, allocVars
  <2>2. CASE v = d
    <3>1. Home(v)' = IF spilled[d] THEN n.slot[d] ELSE m.r[reg[d]]
      BY <1>6, <2>1, <2>2 DEF Home
    <3>2. QED
      BY <1>4, <1>5, <2>2, <3>1, DstIsNew
  <2>3. CASE v # d
    <3>1. Operand(v)
      BY <2>3, Survivors
    <3>2. Home(v)' = IF spilled[v] THEN m.slot[v] ELSE m.r[reg[v]]
      BY <1>5, <1>6, <2>1, <2>3, <3>1 DEF Home, Operand
    <3>3. Home(v)' = Home(v)
      BY <3>1, <3>2 DEF Operand, SameHomes, Home
    <3>4. QED
      BY <1>4, <2>3, <3>1, <3>3 DEF Operand
  <2>4. QED
    BY <2>2, <2>3
<1>8. EffectsAsMeant'
  BY <1>1, <1>6 DEF EffectsAsMeant, Quiet
<1>9. WideSymbolAsMeant'
  BY <1>1, <1>2, <1>6 DEF WideSymbolAsMeant, Ready, CInv
<1>10. LeftBehind'
  <2>1. code'[ip'] = Inst
    BY <1>2 DEF Inst
  <2>2. QED
    BY <1>4, <1>6, <2>1 DEF LeftBehind
<1>11. QED
  BY <1>1, <1>4, <1>6, <1>7, <1>8, <1>9, <1>10, StepDone

(* An instruction without a result leaves every home alone.                *)
LEMMA HomesStay ==
    ASSUME Ready, Inst.dst = None, Advance, value' = value,
           machine'.slot = machine.slot,
           \A x \in PoolRegs : machine'.r[x] = machine.r[x]
    PROVE  \A v \in LiveAfter : Home(v)' = value'[v]
<1> SUFFICES ASSUME NEW v \in LiveAfter PROVE Home(v)' = value'[v]
  OBVIOUS
<1>1. v # Inst.dst
  BY NVRegsAssumption DEF LiveAfter, VReg, None
<1>2. Operand(v)
  BY <1>1, Survivors
<1>3. spilled' = spilled /\ reg' = reg
  BY DEF Advance, vars, allocVars
<1>4. QED
  BY <1>2, <1>3 DEF Operand, Home

LEMMA StoresRight ==
    ASSUME Ready, Inst.dst = None, NEW m, SameHomes(m), m.override = Junk,
           NEW low, NEW high, m.lo = low, m.hi = high, Stores(m, low, high)
    PROVE  CInv'
<1>1. /\ machine' = [m EXCEPT !.effect = Quiet]
      /\ value' = value /\ meant' = Quiet /\ wide' = [lo |-> low, hi |-> high]
      /\ Advance
  BY DEF Stores
<1>2. UNCHANGED <<vars, code, stage>> /\ ip' = ip + 1
  BY <1>1 DEF Advance
<1>3. /\ IsMachine(machine') /\ machine'.r = m.r /\ machine'.slot = m.slot
      /\ machine'.lo = m.lo /\ machine'.hi = m.hi /\ machine'.override = Junk
      /\ machine'.effect = Quiet
  BY <1>1 DEF SameHomes, IsMachine, Fields
<1>4. \A v \in LiveAfter : Home(v)' = value'[v]
  BY <1>1, <1>3, HomesStay DEF SameHomes
<1>5. value' = [v \in VReg |-> value'[v]]
  BY <1>1 DEF Ready, CInv, MachineOK
<1>6. EffectsAsMeant'
  BY <1>1, <1>3 DEF EffectsAsMeant, Quiet
<1>7. WideSymbolAsMeant'
  BY <1>1, <1>3 DEF WideSymbolAsMeant
<1>8. LeftBehind'
  <2>1. code'[ip'] = Inst
    BY <1>2 DEF Inst
  <2>2. Inst.kind \notin {"binary", "multiply"}
    BY ReadyFacts DEF WellFormed, Writes
  <2>3. QED
    BY <2>1, <2>2 DEF LeftBehind
<1>9. QED
  BY <1>1, <1>3, <1>4, <1>5, <1>6, <1>7, <1>8, StepDone

LEMMA DoesRight ==
    ASSUME Ready, Inst.dst = None, Inst.kind # "call", NEW m, SameHomes(m), m.override = Junk,
           m.lo = machine.lo, m.hi = machine.hi,
           NEW what, NEW on, what # "call", m.effect = [what |-> what, on |-> on],
           Does(m, what, on)
    PROVE  CInv'
<1>1. /\ machine' = m /\ value' = value /\ meant' = [what |-> what, on |-> on]
      /\ wide' = wide /\ Advance
  BY DEF Does
<1>2. UNCHANGED <<vars, code, stage>> /\ ip' = ip + 1
  BY <1>1 DEF Advance
<1>3. IsMachine(machine') /\ machine'.override = Junk
  BY <1>1 DEF SameHomes
<1>4. \A v \in LiveAfter : Home(v)' = value'[v]
  BY <1>1, HomesStay DEF SameHomes
<1>5. value' = [v \in VReg |-> value'[v]]
  BY <1>1 DEF Ready, CInv, MachineOK
<1>6. EffectsAsMeant'
  BY <1>1 DEF EffectsAsMeant
<1>7. WideSymbolAsMeant'
  BY <1>1, <1>2 DEF WideSymbolAsMeant, Ready, CInv
<1>8. LeftBehind'
  <2>1. code'[ip'] = Inst
    BY <1>2 DEF Inst
  <2>2. Inst.kind \notin {"binary", "multiply"}
    BY ReadyFacts DEF WellFormed, Writes
  <2>3. QED
    BY <2>1, <2>2 DEF LeftBehind
<1>9. QED
  BY <1>1, <1>3, <1>4, <1>5, <1>6, <1>7, <1>8, StepDone

-----------------------------------------------------------------------------
(* An instruction about to be generated, with its operands.                *)
LEMMA Start ==
    ASSUME CInv, NEW kind, Generating(kind)
    PROVE  /\ Ready /\ Inst.kind = kind
           /\ \A k \in 1 .. Len(Inst.use) : Operand(Use(k))
           /\ Inst.target # None => Operand(Inst.target)
           /\ SameHomes(machine) /\ machine.override = Junk
           /\ wide.lo = machine.lo /\ wide.hi = machine.hi
           /\ kind # "call" => Len(Inst.use) = Arity[kind] /\ (Inst.dst # None <=> Writes(kind))
<1>1. Ready /\ Inst.kind = kind
  BY DEF Generating, Ready, Run
<1>2. \A k \in 1 .. Len(Inst.use) : Operand(Use(k))
  BY <1>1, OperandsAtHome DEF Reads, Use
<1>3. Inst.target # None => Operand(Inst.target)
  BY <1>1, OperandsAtHome DEF Reads
<1>4. SameHomes(machine) /\ machine.override = Junk
  BY <1>1, ReadyFacts DEF SameHomes
<1>5. wide.lo = machine.lo /\ wide.hi = machine.hi
  BY <1>1 DEF Ready, CInv, WideSymbolAsMeant
<1>6. kind # "call" => (Inst.dst # None <=> Writes(kind)) /\ Len(Inst.use) = Arity[kind]
  BY <1>1, ReadyFacts DEF WellFormed
<1>7. QED
  BY <1>1, <1>2, <1>3, <1>4, <1>5, <1>6

LEMMA Arities ==
    /\ \A kind \in {"copy", "unary", "loadMem", "divideSym", "storeLow", "storeHigh",
                    "branch", "return"} : Arity[kind] = 1
    /\ \A kind \in {"binary", "withCarry", "compare", "multiply", "divide", "farRead",
                    "storeMem", "multiplyStore", "compose"} : Arity[kind] = 2
    /\ \A kind \in {"divide32", "divideProduct", "farWrite"} : Arity[kind] = 3
    /\ \A kind \in {"equal32", "less32"} : Arity[kind] = 4
<1>1. /\ Arity["copy"] = 1 /\ Arity["unary"] = 1 /\ Arity["loadMem"] = 1
      /\ Arity["divideSym"] = 1 /\ Arity["storeLow"] = 1 /\ Arity["storeHigh"] = 1
      /\ Arity["branch"] = 1 /\ Arity["return"] = 1
  BY DEF Arity
<1>2. /\ Arity["binary"] = 2 /\ Arity["withCarry"] = 2 /\ Arity["compare"] = 2
      /\ Arity["multiply"] = 2 /\ Arity["divide"] = 2 /\ Arity["farRead"] = 2
      /\ Arity["storeMem"] = 2 /\ Arity["multiplyStore"] = 2 /\ Arity["compose"] = 2
  BY DEF Arity
<1>3. /\ Arity["divide32"] = 3 /\ Arity["divideProduct"] = 3 /\ Arity["farWrite"] = 3
      /\ Arity["equal32"] = 4 /\ Arity["less32"] = 4
  BY DEF Arity
<1>4. QED
  BY <1>1, <1>2, <1>3

(* The operands of each kind of instruction are at home.                   *)
LEMMA Operands ==
    ASSUME CInv, NEW kind, Generating(kind)
    PROVE  /\ kind \in {"copy", "unary", "loadMem", "divideSym", "storeLow", "storeHigh",
                        "branch", "return"} => Operand(Use(1))
           /\ kind \in {"binary", "withCarry", "compare", "multiply", "divide", "farRead",
                        "storeMem", "multiplyStore", "compose"} =>
                Operand(Use(1)) /\ Operand(Use(2))
           /\ kind \in {"divide32", "divideProduct", "farWrite"} =>
                Operand(Use(1)) /\ Operand(Use(2)) /\ Operand(Use(3))
           /\ kind \in {"equal32", "less32"} =>
                Operand(Use(1)) /\ Operand(Use(2)) /\ Operand(Use(3)) /\ Operand(Use(4))
           /\ kind \in {"storeLow", "storeHigh", "branch", "return", "storeMem",
                        "multiplyStore", "compose", "farWrite"} => Inst.dst = None
           /\ kind \notin {"storeLow", "storeHigh", "branch", "return", "storeMem",
                           "multiplyStore", "compose", "farWrite", "call"} => Inst.dst # None
<1>1. kind # "call" => Len(Inst.use) = Arity[kind] /\ (Inst.dst # None <=> Writes(kind))
  BY Start
<1>2. /\ Len(Inst.use) >= 1 => Operand(Use(1))
      /\ Len(Inst.use) >= 2 => Operand(Use(2))
      /\ Len(Inst.use) >= 3 => Operand(Use(3))
      /\ Len(Inst.use) >= 4 => Operand(Use(4))
  <2>1. \A k \in 1 .. Len(Inst.use) : Operand(Use(k))
    BY Start
  <2>2. PICK n \in Nat : n = Len(Inst.use)
    BY Start, ReadyFacts DEF Instruction
  <2>3. Len(Inst.use) >= 1 => 1 \in 1 .. Len(Inst.use)
    BY <2>2
  <2>4. /\ Len(Inst.use) >= 2 => 2 \in 1 .. Len(Inst.use)
        /\ Len(Inst.use) >= 3 => 3 \in 1 .. Len(Inst.use)
    BY <2>2
  <2>5. Len(Inst.use) >= 4 => 4 \in 1 .. Len(Inst.use)
    BY <2>2
  <2>6. QED
    BY <2>1, <2>3, <2>4, <2>5, Zenon
<1>3. kind \in {"copy", "unary", "loadMem", "divideSym", "storeLow", "storeHigh",
               "branch", "return"} => Operand(Use(1))
  <2>1. kind \in {"copy", "unary", "loadMem", "divideSym", "storeLow", "storeHigh",
                 "branch", "return"} => Len(Inst.use) = 1
    BY <1>1, Arities
  <2>2. QED
    BY SMTT(30), <1>2, <2>1
<1>4. kind \in {"binary", "withCarry", "compare", "multiply", "divide", "farRead",
               "storeMem", "multiplyStore", "compose"} => Operand(Use(1)) /\ Operand(Use(2))
  <2>1. kind \in {"binary", "withCarry", "compare", "multiply", "divide", "farRead",
                 "storeMem", "multiplyStore", "compose"} => Len(Inst.use) = 2
    BY <1>1, Arities
  <2>2. QED
    BY SMTT(30), <1>2, <2>1
<1>5. kind \in {"divide32", "divideProduct", "farWrite"} =>
        Operand(Use(1)) /\ Operand(Use(2)) /\ Operand(Use(3))
  <2>1. kind \in {"divide32", "divideProduct", "farWrite"} => Len(Inst.use) = 3
    BY <1>1, Arities
  <2>2. QED
    BY SMTT(30), <1>2, <2>1
<1>6. kind \in {"equal32", "less32"} =>
        Operand(Use(1)) /\ Operand(Use(2)) /\ Operand(Use(3)) /\ Operand(Use(4))
  <2>1. kind \in {"equal32", "less32"} => Len(Inst.use) = 4
    BY <1>1, Arities
  <2>2. QED
    BY SMTT(30), <1>2, <2>1
<1>7. /\ kind \in {"storeLow", "storeHigh", "branch", "return", "storeMem",
                   "multiplyStore", "compose", "farWrite"} => Inst.dst = None
      /\ kind \notin {"storeLow", "storeHigh", "branch", "return", "storeMem",
                      "multiplyStore", "compose", "farWrite", "call"} => Inst.dst # None
  BY <1>1 DEF Writes
<1>8. QED
  BY <1>3, <1>4, <1>5, <1>6, <1>7

LEMMA PrologueCInv == CInv /\ Prologue => CInv'
<1> SUFFICES ASSUME CInv, Prologue PROVE CInv'
  OBVIOUS
<1> DEFINE m1 == PutLow(machine, machine.r[ArgRegs[1]])
           m2 == Alu(m1, Scratch1, <<"extend", <<m1.r[ArgRegs[1]]>>>>)
<1>1. stage = "before" /\ pc = "done" /\ ip = 0 /\ machine.r[ArgRegs[1]] = Incoming(1)
  BY DEF Prologue, CInv, StageOK
<1>2. /\ stage' = "body" /\ machine' = PutHigh(m2, m2.r[Scratch1])
      /\ wide' = [lo |-> Incoming(1), hi |-> <<"extend", <<Incoming(1)>>>>]
      /\ UNCHANGED <<vars, code, ip, value, meant>>
  BY DEF Prologue
<1>3. IsMachine(machine)
  BY DEF CInv, MachineOK
<1>4. IsMachine(m1) /\ m1.lo = Incoming(1) /\ m1.r = machine.r
  BY <1>1, <1>3 DEF PutLow, IsMachine, Fields
<1>5. But(m2, m1, {Scratch1}) /\ m2.r[Scratch1] = <<"extend", <<Incoming(1)>>>>
  <2>1. m1.r[ArgRegs[1]] = Incoming(1)
    BY <1>1, <1>4
  <2> HIDE DEF m1
  <2>2. m2 = Alu(m1, Scratch1, <<"extend", <<Incoming(1)>>>>)
    BY <2>1
  <2>3. Scratch1 \in Regs
    BY Registers
  <2>4. LET n == Alu(m1, Scratch1, <<"extend", <<Incoming(1)>>>>)
        IN  But(n, m1, {Scratch1}) /\ n.r[Scratch1] = <<"extend", <<Incoming(1)>>>>
    BY <1>4, <2>3, AluDoes
  <2> HIDE DEF m2
  <2> QED BY <2>2, <2>4
<1>6. /\ IsMachine(machine') /\ machine'.lo = Incoming(1)
      /\ machine'.hi = <<"extend", <<Incoming(1)>>>> /\ machine'.override = Junk
  <2> HIDE DEF m1, m2
  <2> QED BY <1>2, <1>4, <1>5 DEF PutHigh, But, IsMachine, Fields
<1>7. IInv'
  <2>1. [Next]_vars
    BY <1>2
  <2>2. QED
    BY <2>1, NextIInv DEF CInv
<1>8. CodeOK'
  BY <1>2 DEF CInv, CodeOK, CodeScanned, Pairs, Numbered, Defined, vars, scanVars
<1>9. StageOK'
  BY <1>1, <1>2 DEF CInv, StageOK, vars
<1>10. MachineOK'
  BY <1>2, <1>6 DEF CInv, MachineOK
<1>11. HomesHold' /\ EffectsAsMeant' /\ LeftBehind' /\ WideSymbolAsMeant'
  <2>1. ip' = 0
    BY <1>1, <1>2
  <2>2. Live' = {}
    BY <2>1 DEF Live
  <2>3. HomesHold'
    BY <1>6, <2>2 DEF HomesHold
  <2>4. EffectsAsMeant' /\ LeftBehind'
    BY <2>1 DEF EffectsAsMeant, LeftBehind
  <2>5. WideSymbolAsMeant'
    BY <1>2, <1>6 DEF WideSymbolAsMeant
  <2>6. QED
    BY <2>3, <2>4, <2>5
<1>12. QED
  BY <1>7, <1>8, <1>9, <1>10, <1>11 DEF CInv

(* The registers that the instruction is free to overwrite.                *)
FreeRegs == {Scratch1, Scratch2} \cup (IF Inst.dst = None THEN {} ELSE {Dst})

LEMMA DstIsFree ==
    ASSUME Ready, Inst.dst # None
    PROVE  Dst \in Regs /\ Dst \in FreeRegs /\ Dst # Scratch2
BY DstIsNew, Registers DEF FreeRegs

LEMMA HomesKept ==
    ASSUME NEW m, SameHomes(m), NEW n, NEW X, But(n, m, X), X \subseteq FreeRegs
    PROVE  SameHomes(n)
BY Registers DEF SameHomes, But, FreeRegs

(* n is m with t in a register that is free.                               *)
Moved(n, m, x, t) ==
    /\ SameHomes(n) /\ But(n, m, {x}) /\ n.r[x] = t
    /\ n.mdl = m.mdl /\ n.mdh = m.mdh
    /\ (m.override = Junk => n.override = Junk) /\ n.effect = m.effect

LEMMA MovHere ==
    ASSUME NEW m, SameHomes(m), NEW x, x \in Regs, x \in FreeRegs, NEW t
    PROVE  LET n == Mov(m, x, t)
           IN  Moved(n, m, x, t) /\ n.carry = m.carry /\ n.flags = t /\ n.override = Junk
<1> DEFINE n == Mov(m, x, t)
<1>1. /\ But(n, m, {x}) /\ n.r[x] = t
      /\ n.mdl = m.mdl /\ n.mdh = m.mdh /\ n.carry = m.carry
      /\ n.flags = t /\ n.override = Junk /\ n.effect = m.effect
  BY MovDoes DEF SameHomes
<1> HIDE DEF n
<1>2. SameHomes(n)
  BY <1>1, HomesKept
<1>3. QED
  BY <1>1, <1>2 DEF n, Moved

LEMMA MovRegHere ==
    ASSUME NEW m, SameHomes(m), NEW x, x \in Regs, x \in FreeRegs, NEW y, y \in Regs
    PROVE  LET n == MovReg(m, x, y)
           IN  Moved(n, m, x, m.r[y]) /\ n.carry = m.carry
<1> DEFINE n == MovReg(m, x, y)
<1>1. /\ But(n, m, {x}) /\ n.r[x] = m.r[y]
      /\ n.mdl = m.mdl /\ n.mdh = m.mdh /\ n.carry = m.carry
      /\ (m.override = Junk => n.override = Junk) /\ n.effect = m.effect
  BY MovRegDoes DEF SameHomes
<1> HIDE DEF n
<1>2. SameHomes(n)
  BY <1>1, HomesKept
<1>3. QED
  BY <1>1, <1>2 DEF n, Moved

LEMMA AluHere ==
    ASSUME NEW m, SameHomes(m), NEW x, x \in Regs, x \in FreeRegs, NEW t
    PROVE  LET n == Alu(m, x, t)
           IN  /\ Moved(n, m, x, t) /\ n.carry = <<"carry", <<t>>>>
               /\ n.flags = t /\ n.override = Junk
<1> DEFINE n == Alu(m, x, t)
<1>1. /\ But(n, m, {x}) /\ n.r[x] = t
      /\ n.mdl = m.mdl /\ n.mdh = m.mdh /\ n.carry = <<"carry", <<t>>>>
      /\ n.flags = t /\ n.override = Junk /\ n.effect = m.effect
  BY AluDoes DEF SameHomes
<1> HIDE DEF n
<1>2. SameHomes(n)
  BY <1>1, HomesKept
<1>3. QED
  BY <1>1, <1>2 DEF n, Moved

(* The same of the two scratch registers, by name.                         *)
LEMMA FirstScratch ==
    ASSUME NEW m, SameHomes(m)
    PROVE  /\ \A v : Operand(v) => Loaded(LoadOperand(m, v, Scratch1), m, v, Scratch1)
           /\ \A t : LET n == Mov(m, Scratch1, t)
                     IN  Moved(n, m, Scratch1, t) /\ n.carry = m.carry /\ n.override = Junk
           /\ \A y \in Regs : LET n == MovReg(m, Scratch1, y)
                              IN  Moved(n, m, Scratch1, m.r[y]) /\ n.carry = m.carry
           /\ \A t : LET n == Alu(m, Scratch1, t)
                     IN  /\ Moved(n, m, Scratch1, t) /\ n.carry = <<"carry", <<t>>>>
                         /\ n.flags = t /\ n.override = Junk
<1>1. PICK s : s = Scratch1
  OBVIOUS
<1>2. s \in {Scratch1, Scratch2} /\ s \in Regs /\ s \in FreeRegs
  BY <1>1, Registers DEF FreeRegs
<1>3. \A v : Operand(v) => Loaded(LoadOperand(m, v, s), m, v, s)
  BY <1>2, LoadDoes
<1>4. \A t : LET n == Mov(m, s, t) IN Moved(n, m, s, t) /\ n.carry = m.carry /\ n.override = Junk
  BY <1>2, MovHere
<1>5. \A y \in Regs : LET n == MovReg(m, s, y) IN Moved(n, m, s, m.r[y]) /\ n.carry = m.carry
  BY <1>2, MovRegHere
<1>6. \A t : LET n == Alu(m, s, t)
             IN  /\ Moved(n, m, s, t) /\ n.carry = <<"carry", <<t>>>>
                 /\ n.flags = t /\ n.override = Junk
  BY <1>2, AluHere
<1>7. QED
  BY <1>1, <1>3, <1>4, <1>5, <1>6

LEMMA SecondScratch ==
    ASSUME NEW m, SameHomes(m)
    PROVE  /\ \A v : Operand(v) => Loaded(LoadOperand(m, v, Scratch2), m, v, Scratch2)
           /\ \A t : LET n == Mov(m, Scratch2, t)
                     IN  Moved(n, m, Scratch2, t) /\ n.carry = m.carry /\ n.override = Junk
           /\ \A t : LET n == Alu(m, Scratch2, t)
                     IN  Moved(n, m, Scratch2, t) /\ n.override = Junk
<1>1. PICK s : s = Scratch2
  OBVIOUS
<1>2. s \in {Scratch1, Scratch2} /\ s \in Regs /\ s \in FreeRegs
  BY <1>1, Registers DEF FreeRegs
<1>3. \A v : Operand(v) => Loaded(LoadOperand(m, v, s), m, v, s)
  BY <1>2, LoadDoes
<1>4. \A t : LET n == Mov(m, s, t) IN Moved(n, m, s, t) /\ n.carry = m.carry /\ n.override = Junk
  BY <1>2, MovHere
<1>5. \A t : LET n == Alu(m, s, t) IN Moved(n, m, s, t) /\ n.override = Junk
  BY <1>2, AluHere
<1>6. QED
  BY <1>1, <1>3, <1>4, <1>5

-----------------------------------------------------------------------------
(* One lemma for each template: what the instructions it emits make of the *)
(* machine, one after the other, is what the instruction means.            *)
LEMMA GenConstantCInv == CInv /\ GenConstant => CInv'
<1> SUFFICES ASSUME CInv, GenConstant PROVE CInv'
  OBVIOUS
<1> DEFINE t == <<"constant", <<Inst.dst>>>>
           m == Mov(machine, Dst, t)
<1>1. Generating("constant") /\ Yields(m, t)
  BY DEF GenConstant
<1>2. Ready /\ Inst.kind = "constant" /\ SameHomes(machine) /\ Inst.dst # None
  BY <1>1, Start DEF Writes
<1>3. SameHomes(m) /\ m.r[Dst] = t /\ m.lo = machine.lo /\ m.hi = machine.hi /\ m.override = Junk
  <2> HIDE DEF t
  <2> QED BY <1>2, DstIsFree, MovHere DEF Moved, But
<1> HIDE DEF m, t
<1>4. QED
  BY <1>1, <1>2, <1>3, YieldsRight

LEMMA GenLoadSymCInv == CInv /\ GenLoadSym => CInv'
<1> SUFFICES ASSUME CInv, GenLoadSym PROVE CInv'
  OBVIOUS
<1>1. ASSUME NEW kind \in {"loadLow", "loadHigh"}, Generating(kind),
             NEW t, Yields(Mov(machine, Dst, t), t)
      PROVE  CInv'
  <2> DEFINE m == Mov(machine, Dst, t)
  <2>1. Ready /\ Inst.kind = kind /\ SameHomes(machine) /\ Inst.dst # None
    BY <1>1, Start DEF Writes
  <2>2. SameHomes(m) /\ m.r[Dst] = t /\ m.lo = machine.lo /\ m.hi = machine.hi /\ m.override = Junk
    BY <2>1, DstIsFree, MovHere DEF Moved, But
  <2> HIDE DEF m
  <2>3. QED
    BY <1>1, <2>1, <2>2, YieldsRight DEF m
<1>2. CASE Generating("loadLow") /\ Yields(Mov(machine, Dst, machine.lo), wide.lo)
  BY <1>1, <1>2, Start
<1>3. CASE Generating("loadHigh") /\ Yields(Mov(machine, Dst, machine.hi), wide.hi)
  BY <1>1, <1>3, Start
<1>4. QED
  BY <1>2, <1>3 DEF GenLoadSym

(* A word of the 32-bit symbol is written.                                 *)
LEMMA PutHere ==
    ASSUME NEW m, SameHomes(m), NEW t
    PROVE  /\ LET n == PutLow(m, t)
              IN  /\ SameHomes(n) /\ n.r = m.r /\ n.lo = t /\ n.hi = m.hi
                  /\ n.mdl = m.mdl /\ n.mdh = m.mdh /\ n.override = Junk
           /\ LET n == PutHigh(m, t)
              IN  /\ SameHomes(n) /\ n.r = m.r /\ n.lo = m.lo /\ n.hi = t
                  /\ n.mdl = m.mdl /\ n.mdh = m.mdh /\ n.override = Junk
<1>1. LET n == PutLow(m, t)
      IN  /\ IsMachine(n) /\ n.r = m.r /\ n.slot = m.slot /\ n.lo = t /\ n.hi = m.hi
          /\ n.mdl = m.mdl /\ n.mdh = m.mdh /\ n.override = Junk
  BY DEF PutLow, SameHomes, IsMachine, Fields
<1>2. LET n == PutHigh(m, t)
      IN  /\ IsMachine(n) /\ n.r = m.r /\ n.slot = m.slot /\ n.lo = m.lo /\ n.hi = t
          /\ n.mdl = m.mdl /\ n.mdh = m.mdh /\ n.override = Junk
  BY DEF PutHigh, SameHomes, IsMachine, Fields
<1>3. QED
  BY <1>1, <1>2 DEF SameHomes

LEMMA GenStoreSymCInv == CInv /\ GenStoreSym => CInv'
<1> SUFFICES ASSUME CInv, GenStoreSym PROVE CInv'
  OBVIOUS
<1> DEFINE m == LoadOperand(machine, Use(1), Scratch1)
           t == m.r[At(Use(1), Scratch1)]
           low == PutLow(m, t)
           high == PutHigh(m, t)
<1>1. \/ Generating("storeLow") /\ Stores(low, Val(1), wide.hi)
      \/ Generating("storeHigh") /\ Stores(high, wide.lo, Val(1))
  BY DEF GenStoreSym
<1>2. PICK kind \in {"storeLow", "storeHigh"} : Generating(kind)
  BY <1>1
<1>3. Ready /\ SameHomes(machine) /\ Inst.dst = None /\ Operand(Use(1))
      /\ wide.lo = machine.lo /\ wide.hi = machine.hi
  BY <1>2, Start, Operands
<1>4. SameHomes(m) /\ t = Val(1) /\ m.lo = machine.lo /\ m.hi = machine.hi
  BY <1>3, FirstScratch DEF Loaded, Val, But
<1> HIDE DEF m, t
<1>5. /\ SameHomes(low) /\ low.lo = Val(1) /\ low.hi = wide.hi /\ low.override = Junk
      /\ SameHomes(high) /\ high.lo = wide.lo /\ high.hi = Val(1) /\ high.override = Junk
  BY <1>3, <1>4, PutHere
<1> HIDE DEF low, high
<1>6. QED
  BY <1>1, <1>3, <1>5, StoresRight

(* Two operands, in registers of their own.                                *)
LEMMA LoadTwo ==
    ASSUME NEW m, SameHomes(m), NEW a, NEW b, Operand(a), Operand(b)
    PROVE  LET n == Load2(m, a, b)
           IN  /\ SameHomes(n) /\ But(n, m, {Scratch1, Scratch2})
               /\ n.r[At(a, Scratch1)] = value[a] /\ n.r[At(b, Scratch2)] = value[b]
               /\ At(a, Scratch1) \in Regs /\ At(b, Scratch2) \in Regs
               /\ n.mdl = m.mdl /\ n.mdh = m.mdh /\ n.carry = m.carry
               /\ (m.override = Junk => n.override = Junk) /\ n.effect = m.effect
<1> DEFINE m1 == LoadOperand(m, a, Scratch1)
           m2 == LoadOperand(m1, b, Scratch2)
<1>1. /\ SameHomes(m1) /\ But(m1, m, {Scratch1}) /\ m1.r[At(a, Scratch1)] = value[a]
      /\ m1.mdl = m.mdl /\ m1.mdh = m.mdh /\ m1.carry = m.carry
      /\ (m.override = Junk => m1.override = Junk) /\ m1.effect = m.effect
      /\ At(a, Scratch1) \in Regs /\ At(a, Scratch1) # Scratch2
  <2>1. Loaded(m1, m, a, Scratch1)
    BY FirstScratch
  <2> HIDE DEF m1
  <2>2. At(a, Scratch1) # Scratch2
    BY <2>1, Registers DEF Loaded
  <2>3. QED
    BY <2>1, <2>2 DEF Loaded
<1> HIDE DEF m1
<1>2. /\ SameHomes(m2) /\ But(m2, m1, {Scratch2}) /\ m2.r[At(b, Scratch2)] = value[b]
      /\ m2.mdl = m1.mdl /\ m2.mdh = m1.mdh /\ m2.carry = m1.carry
      /\ (m1.override = Junk => m2.override = Junk) /\ m2.effect = m1.effect
      /\ At(b, Scratch2) \in Regs
  BY ZenonT(30), <1>1, SecondScratch DEF Loaded
<1> HIDE DEF m2
<1>3. Load2(m, a, b) = m2
  BY DEF Load2, m1, m2
<1>4. But(m2, m, {Scratch1, Scratch2}) /\ m2.r[At(a, Scratch1)] = value[a]
  BY <1>1, <1>2 DEF But
<1>5. QED
  BY <1>1, <1>2, <1>3, <1>4

LEMMA MulHere ==
    ASSUME NEW m, SameHomes(m), NEW x, NEW y
    PROVE  LET n == Mul(m, x, y)
               t == <<"MUL", <<m.r[x], m.r[y]>>>>
           IN  /\ SameHomes(n) /\ But(n, m, {})
               /\ n.mdl = <<"low", <<t>>>> /\ n.mdh = <<"high", <<t>>>>
               /\ n.override = Junk /\ n.effect = m.effect
<1> DEFINE n == Mul(m, x, y)
           t == <<"MUL", <<m.r[x], m.r[y]>>>>
<1>1. /\ But(n, m, {})
      /\ n.mdl = <<"low", <<t>>>> /\ n.mdh = <<"high", <<t>>>>
      /\ n.override = Junk /\ n.effect = m.effect
  BY MulDoes DEF SameHomes
<1> HIDE DEF n
<1>2. SameHomes(n)
  BY <1>1, HomesKept
<1>3. QED
  BY <1>1, <1>2 DEF n

LEMMA GenMultiplyStoreCInv == CInv /\ GenMultiplyStore => CInv'
<1> SUFFICES ASSUME CInv, GenMultiplyStore PROVE CInv'
  OBVIOUS
<1> DEFINE m1 == Load2(machine, Use(1), Use(2))
           m2 == Mul(m1, At(Use(1), Scratch1), At(Use(2), Scratch2))
           m3 == Mov(m2, Scratch1, m2.mdl)
           m4 == PutLow(m3, m3.r[Scratch1])
           m5 == Mov(m4, Scratch1, m4.mdh)
           m6 == PutHigh(m5, m5.r[Scratch1])
           t == <<"MUL", <<Val(1), Val(2)>>>>
<1>1. Generating("multiplyStore") /\ Stores(m6, <<"low", <<t>>>>, <<"high", <<t>>>>)
  BY DEF GenMultiplyStore
<1>2. Ready /\ SameHomes(machine) /\ Inst.dst = None /\ Operand(Use(1)) /\ Operand(Use(2))
  BY <1>1, Start, Operands
<1>3. SameHomes(m1) /\ m1.r[At(Use(1), Scratch1)] = Val(1) /\ m1.r[At(Use(2), Scratch2)] = Val(2)
  BY <1>2, LoadTwo DEF Val
<1> HIDE DEF m1
<1>4. SameHomes(m2) /\ m2.mdl = <<"low", <<t>>>> /\ m2.mdh = <<"high", <<t>>>>
  BY <1>3, MulHere
<1> HIDE DEF m2, t
<1>5. SameHomes(m3) /\ m3.r[Scratch1] = <<"low", <<t>>>> /\ m3.mdh = <<"high", <<t>>>>
  BY <1>4, FirstScratch DEF Moved
<1> HIDE DEF m3
<1>6. SameHomes(m4) /\ m4.lo = <<"low", <<t>>>> /\ m4.mdh = <<"high", <<t>>>>
  BY <1>5, PutHere
<1> HIDE DEF m4
<1>7. SameHomes(m5) /\ m5.lo = <<"low", <<t>>>> /\ m5.r[Scratch1] = <<"high", <<t>>>>
  <2>1. Moved(m5, m4, Scratch1, m4.mdh)
    BY <1>6, FirstScratch
  <2> HIDE DEF m5
  <2>2. QED
    BY <1>6, <2>1 DEF Moved, But
<1> HIDE DEF m5
<1>8. SameHomes(m6) /\ m6.lo = <<"low", <<t>>>> /\ m6.hi = <<"high", <<t>>>> /\ m6.override = Junk
  BY <1>7, PutHere
<1> HIDE DEF m6
<1>9. QED
  BY <1>1, <1>2, <1>8, StoresRight

LEMMA GenComposeCInv == CInv /\ GenCompose => CInv'
<1> SUFFICES ASSUME CInv, GenCompose PROVE CInv'
  OBVIOUS
<1> DEFINE m1 == Load2(machine, Use(1), Use(2))
           m2 == PutLow(m1, m1.r[At(Use(2), Scratch2)])
           m3 == PutHigh(m2, m2.r[At(Use(1), Scratch1)])
<1>1. Generating("compose") /\ Stores(m3, Val(2), Val(1))
  BY DEF GenCompose
<1>2. Ready /\ SameHomes(machine) /\ Inst.dst = None /\ Operand(Use(1)) /\ Operand(Use(2))
  BY <1>1, Start, Operands
<1>3. SameHomes(m1) /\ m1.r[At(Use(1), Scratch1)] = Val(1) /\ m1.r[At(Use(2), Scratch2)] = Val(2)
  BY <1>2, LoadTwo DEF Val
<1> HIDE DEF m1
<1>4. SameHomes(m2) /\ m2.lo = Val(2) /\ m2.r[At(Use(1), Scratch1)] = Val(1)
  BY <1>3, PutHere
<1> HIDE DEF m2
<1>5. SameHomes(m3) /\ m3.lo = Val(2) /\ m3.hi = Val(1) /\ m3.override = Junk
  BY <1>4, PutHere
<1> HIDE DEF m3
<1>6. QED
  BY <1>1, <1>2, <1>5, StoresRight

LEMMA QuotientHere ==
    ASSUME NEW m, SameHomes(m), NEW t
    PROVE  LET n == Quotient(m, t)
           IN  /\ SameHomes(n) /\ But(n, m, {})
               /\ n.mdl = <<"quotient", <<t>>>> /\ n.mdh = <<"rest", <<t>>>>
               /\ n.override = Junk /\ n.effect = m.effect
<1> DEFINE n == Quotient(m, t)
<1>1. /\ But(n, m, {})
      /\ n.mdl = <<"quotient", <<t>>>> /\ n.mdh = <<"rest", <<t>>>>
      /\ n.override = Junk /\ n.effect = m.effect
  BY QuotientDoes DEF SameHomes
<1> HIDE DEF n
<1>2. SameHomes(n)
  BY <1>1, HomesKept
<1>3. QED
  BY <1>1, <1>2 DEF n

LEMMA FlagsHere ==
    ASSUME NEW m, SameHomes(m), NEW t
    PROVE  LET n == Flags(m, t)
           IN  /\ SameHomes(n) /\ But(n, m, {}) /\ n.carry = <<"carry", <<t>>>>
               /\ n.flags = t /\ n.override = Junk /\ n.effect = m.effect
<1> DEFINE n == Flags(m, t)
<1>1. /\ But(n, m, {}) /\ n.carry = <<"carry", <<t>>>>
      /\ n.flags = t /\ n.override = Junk /\ n.effect = m.effect
  BY FlagsDoes DEF SameHomes
<1> HIDE DEF n
<1>2. SameHomes(n)
  BY <1>1, HomesKept
<1>3. QED
  BY <1>1, <1>2 DEF n

LEMMA MdlHere ==
    ASSUME NEW m, SameHomes(m), NEW t, NEW n, n = [m EXCEPT !.mdl = t]
    PROVE  SameHomes(n) /\ But(n, m, {}) /\ n.mdl = t /\ n.mdh = m.mdh /\ n.override = m.override
<1>1. But(n, m, {}) /\ n.mdl = t /\ n.mdh = m.mdh /\ n.override = m.override
  BY MdlDoes DEF SameHomes
<1>2. QED
  BY <1>1, HomesKept

LEMMA MdhHere ==
    ASSUME NEW m, SameHomes(m), NEW t, NEW n, n = [m EXCEPT !.mdh = t]
    PROVE  SameHomes(n) /\ But(n, m, {}) /\ n.mdh = t /\ n.mdl = m.mdl /\ n.override = m.override
<1>1. But(n, m, {}) /\ n.mdh = t /\ n.mdl = m.mdl /\ n.override = m.override
  BY MdhDoes DEF SameHomes
<1>2. QED
  BY <1>1, HomesKept

LEMMA OverrideHere ==
    ASSUME NEW m, SameHomes(m), NEW t, NEW n, n = [m EXCEPT !.override = t]
    PROVE  SameHomes(n) /\ But(n, m, {}) /\ n.override = t
<1>1. But(n, m, {}) /\ n.override = t
  BY OverrideDoes DEF SameHomes
<1>2. QED
  BY <1>1, HomesKept

-----------------------------------------------------------------------------
LEMMA GenShift32CInv == CInv /\ GenShift32 => CInv'
<1> SUFFICES ASSUME CInv, GenShift32 PROVE CInv'
  OBVIOUS
<1> DEFINE m1 == Mov(machine, Dst, machine.hi)
           m2 == Mov(m1, Scratch2, m1.lo)
           m3 == Alu(m2, Dst, <<"SHL", <<m2.r[Dst]>>>>)
           m4 == Alu(m3, Scratch2, <<"SHR", <<m3.r[Scratch2]>>>>)
           m5 == Alu(m4, Dst, <<"ADD", <<m4.r[Dst], m4.r[Scratch2]>>>>)
           t == <<"ADD", <<<<"SHL", <<wide.hi>>>>, <<"SHR", <<wide.lo>>>>>>>>
<1>1. Generating("shift32") /\ Yields(m5, t)
  BY DEF GenShift32
<1>2. Ready /\ Inst.kind = "shift32" /\ SameHomes(machine) /\ Inst.dst # None
      /\ wide.lo = machine.lo /\ wide.hi = machine.hi
  <2>1. Generating("shift32")
    BY <1>1
  <2>2. QED
    BY <2>1, Start, Operands
<1>3. Dst \in Regs /\ Dst \in FreeRegs /\ Dst # Scratch2 /\ Scratch2 \in Regs
  BY <1>2, DstIsFree, Registers
<1>4. SameHomes(m1) /\ But(m1, machine, {Dst}) /\ m1.r[Dst] = wide.hi
  BY <1>2, <1>3, MovHere DEF Moved
<1> HIDE DEF m1
<1>5. SameHomes(m2) /\ But(m2, machine, {Dst, Scratch2}) /\ m2.r[Dst] = wide.hi /\ m2.r[Scratch2] = wide.lo
  <2>1. Moved(m2, m1, Scratch2, m1.lo)
    BY <1>4, SecondScratch
  <2> HIDE DEF m2
  <2>2. QED
    BY <1>2, <1>3, <1>4, <2>1 DEF Moved, But
<1> HIDE DEF m2
<1>6. /\ SameHomes(m3) /\ But(m3, machine, {Dst, Scratch2})
      /\ m3.r[Dst] = <<"SHL", <<wide.hi>>>> /\ m3.r[Scratch2] = wide.lo
  <2>1. Moved(m3, m2, Dst, <<"SHL", <<m2.r[Dst]>>>>)
    BY <1>3, <1>5, AluHere
  <2> HIDE DEF m3
  <2>2. QED
    BY <1>3, <1>5, <2>1 DEF Moved, But
<1> HIDE DEF m3
<1>7. /\ SameHomes(m4) /\ But(m4, machine, {Dst, Scratch2})
      /\ m4.r[Dst] = <<"SHL", <<wide.hi>>>> /\ m4.r[Scratch2] = <<"SHR", <<wide.lo>>>>
  <2>1. Moved(m4, m3, Scratch2, <<"SHR", <<m3.r[Scratch2]>>>>)
    BY <1>6, SecondScratch
  <2> HIDE DEF m4
  <2>2. QED
    BY <1>3, <1>6, <2>1 DEF Moved, But
<1> HIDE DEF m4
<1>8. SameHomes(m5) /\ But(m5, machine, {Dst, Scratch2}) /\ m5.r[Dst] = t /\ m5.override = Junk
  <2>1. Moved(m5, m4, Dst, t) /\ m5.override = Junk
    BY <1>3, <1>7, AluHere
  <2> HIDE DEF m5
  <2>2. QED
    BY <1>3, <1>7, <2>1 DEF Moved, But
<1> HIDE DEF m5, t
<1>9. QED
  BY <1>1, <1>2, <1>8, YieldsRight DEF But

LEMMA GenDivideSymCInv == CInv /\ GenDivideSym => CInv'
<1> SUFFICES ASSUME CInv, GenDivideSym PROVE CInv'
  OBVIOUS
<1> DEFINE b == At(Use(1), Scratch2)
           m1 == LoadOperand(machine, Use(1), Scratch2)
           m2 == Mov(m1, Scratch1, m1.lo)
           m3 == [m2 EXCEPT !.mdl = m2.r[Scratch1]]
           m4 == Mov(m3, Scratch1, m3.hi)
           m5 == [m4 EXCEPT !.mdh = m4.r[Scratch1]]
           m6 == DivL(m5, b)
           m7 == Mov(m6, Dst, m6.mdl)
           t == <<"DIVL", <<wide.lo, wide.hi, Val(1)>>>>
<1>1. Generating("divideSym") /\ Yields(m7, <<"quotient", <<t>>>>)
  BY DEF GenDivideSym
<1>2. Ready /\ Inst.kind = "divideSym" /\ SameHomes(machine) /\ Operand(Use(1))
      /\ wide.lo = machine.lo /\ wide.hi = machine.hi /\ machine.override = Junk
  BY <1>1, Start, Operands
<1>3. Inst.dst # None /\ Dst \in Regs /\ Dst \in FreeRegs
  BY <1>1, <1>2, DstIsFree, Operands
<1>4. SameHomes(m1) /\ m1.r[b] = Val(1) /\ m1.lo = wide.lo /\ m1.hi = wide.hi
      /\ b \in Regs /\ b # Scratch1 /\ m1.override = Junk
  <2>1. Loaded(m1, machine, Use(1), Scratch2)
    BY <1>2, SecondScratch
  <2> HIDE DEF m1
  <2>2. QED
    BY <1>2, <2>1, Registers DEF Loaded, But, Val
<1> HIDE DEF m1, b
<1>5. SameHomes(m2) /\ m2.r[b] = Val(1) /\ m2.r[Scratch1] = wide.lo
      /\ m2.lo = wide.lo /\ m2.hi = wide.hi
  <2>1. Moved(m2, m1, Scratch1, m1.lo)
    BY <1>4, FirstScratch
  <2> HIDE DEF m2
  <2>2. QED
    BY <1>4, <2>1 DEF Moved, But
<1> HIDE DEF m2
<1>6. SameHomes(m3) /\ m3.r[b] = Val(1) /\ m3.mdl = wide.lo /\ m3.lo = wide.lo /\ m3.hi = wide.hi
  <2>1. m3 = [m2 EXCEPT !.mdl = m2.r[Scratch1]]
    OBVIOUS
  <2> HIDE DEF m3
  <2>2. SameHomes(m3) /\ But(m3, m2, {}) /\ m3.mdl = m2.r[Scratch1]
    BY <1>5, <2>1, MdlHere
  <2>3. QED
    BY <1>4, <1>5, <2>2 DEF But
<1> HIDE DEF m3
<1>7. SameHomes(m4) /\ m4.r[b] = Val(1) /\ m4.r[Scratch1] = wide.hi /\ m4.mdl = wide.lo
      /\ m4.lo = wide.lo /\ m4.hi = wide.hi
  <2>1. Moved(m4, m3, Scratch1, m3.hi)
    BY <1>6, FirstScratch
  <2> HIDE DEF m4
  <2>2. QED
    BY <1>4, <1>6, <2>1 DEF Moved, But
<1> HIDE DEF m4
<1>8. SameHomes(m5) /\ m5.r[b] = Val(1) /\ m5.mdl = wide.lo /\ m5.mdh = wide.hi
      /\ m5.lo = wide.lo /\ m5.hi = wide.hi
  <2>1. m5 = [m4 EXCEPT !.mdh = m4.r[Scratch1]]
    OBVIOUS
  <2> HIDE DEF m5
  <2>2. SameHomes(m5) /\ But(m5, m4, {}) /\ m5.mdh = m4.r[Scratch1] /\ m5.mdl = m4.mdl
    BY <1>7, <2>1, MdhHere
  <2>3. QED
    BY <1>4, <1>7, <2>2 DEF But
<1> HIDE DEF m5
<1>9. SameHomes(m6) /\ m6.mdl = <<"quotient", <<t>>>> /\ m6.lo = wide.lo /\ m6.hi = wide.hi
  <2>1. m6 = Quotient(m5, t)
    BY <1>8 DEF DivL
  <2> HIDE DEF m6, t
  <2>2. QED
    BY <1>8, <2>1, QuotientHere DEF But
<1> HIDE DEF m6, t
<1>10. /\ SameHomes(m7) /\ m7.r[Dst] = <<"quotient", <<t>>>>
       /\ m7.lo = wide.lo /\ m7.hi = wide.hi /\ m7.override = Junk
  BY <1>3, <1>9, MovHere DEF Moved, But
<1> HIDE DEF m7
<1>11. QED
  BY <1>1, <1>2, <1>3, <1>10, YieldsRight

LEMMA GenDivideProductCInv == CInv /\ GenDivideProduct => CInv'
<1> SUFFICES ASSUME CInv, GenDivideProduct PROVE CInv'
  OBVIOUS
<1> DEFINE m1 == Load2(machine, Use(1), Use(2))
           m2 == Mul(m1, At(Use(1), Scratch1), At(Use(2), Scratch2))
           m3 == LoadOperand(m2, Use(3), Scratch2)
           m4 == DivL(m3, At(Use(3), Scratch2))
           m5 == Mov(m4, Dst, m4.mdh)
           t == <<"MUL", <<Val(1), Val(2)>>>>
           q == <<"DIVL", <<<<"low", <<t>>>>, <<"high", <<t>>>>, Val(3)>>>>
<1>1. Generating("divideProduct") /\ Yields(m5, <<"rest", <<q>>>>)
  BY DEF GenDivideProduct
<1>2. /\ Ready /\ Inst.kind = "divideProduct" /\ SameHomes(machine)
      /\ Operand(Use(1)) /\ Operand(Use(2)) /\ Operand(Use(3)) /\ Inst.dst # None
  <2>1. Generating("divideProduct")
    BY <1>1
  <2>2. QED
    BY <2>1, Start, Operands
<1>3. Dst \in Regs /\ Dst \in FreeRegs
  BY <1>2, DstIsFree
<1>4. /\ SameHomes(m1) /\ m1.lo = machine.lo /\ m1.hi = machine.hi
      /\ m1.r[At(Use(1), Scratch1)] = Val(1) /\ m1.r[At(Use(2), Scratch2)] = Val(2)
  BY <1>2, LoadTwo DEF Val, But
<1> HIDE DEF m1
<1>5. /\ SameHomes(m2) /\ m2.mdl = <<"low", <<t>>>> /\ m2.mdh = <<"high", <<t>>>>
      /\ m2.lo = machine.lo /\ m2.hi = machine.hi
  BY <1>4, MulHere DEF But
<1> HIDE DEF m2, t
<1>6. /\ SameHomes(m3) /\ m3.mdl = <<"low", <<t>>>> /\ m3.mdh = <<"high", <<t>>>>
      /\ m3.r[At(Use(3), Scratch2)] = Val(3)
      /\ m3.lo = machine.lo /\ m3.hi = machine.hi
  <2>1. Loaded(m3, m2, Use(3), Scratch2)
    BY <1>2, <1>5, SecondScratch
  <2> HIDE DEF m3
  <2>2. QED
    BY <1>5, <2>1 DEF Loaded, But, Val
<1> HIDE DEF m3
<1>7. SameHomes(m4) /\ m4.mdh = <<"rest", <<q>>>> /\ m4.lo = machine.lo /\ m4.hi = machine.hi
  <2>1. m4 = Quotient(m3, q)
    BY <1>6 DEF DivL
  <2> HIDE DEF m4, q
  <2>2. QED
    BY <1>6, <2>1, QuotientHere DEF But
<1> HIDE DEF m4, q
<1>8. /\ SameHomes(m5) /\ m5.r[Dst] = <<"rest", <<q>>>>
      /\ m5.lo = machine.lo /\ m5.hi = machine.hi /\ m5.override = Junk
  BY <1>3, <1>7, MovHere DEF Moved, But
<1> HIDE DEF m5
<1>9. QED
  BY <1>1, <1>2, <1>8, YieldsRight

LEMMA GenDivide32CInv == CInv /\ GenDivide32 => CInv'
<1> SUFFICES ASSUME CInv, GenDivide32 PROVE CInv'
  OBVIOUS
<1> DEFINE b == At(Use(3), Scratch2)
           m1 == LoadOperand(machine, Use(3), Scratch2)
           m2 == LoadOperand(m1, Use(1), Scratch1)
           m3 == [m2 EXCEPT !.mdl = m2.r[At(Use(1), Scratch1)]]
           m4 == LoadOperand(m3, Use(2), Scratch1)
           m5 == [m4 EXCEPT !.mdh = m4.r[At(Use(2), Scratch1)]]
           m6 == DivL(m5, b)
           m7 == Mov(m6, Dst, m6.mdl)
           t == <<"DIVL", <<Val(1), Val(2), Val(3)>>>>
<1>1. Generating("divide32") /\ Yields(m7, <<"quotient", <<t>>>>)
  BY DEF GenDivide32
<1>2. /\ Ready /\ Inst.kind = "divide32" /\ SameHomes(machine)
      /\ Operand(Use(1)) /\ Operand(Use(2)) /\ Operand(Use(3)) /\ Inst.dst # None
  <2>1. Generating("divide32")
    BY <1>1
  <2>2. QED
    BY <2>1, Start, Operands
<1>3. Dst \in Regs /\ Dst \in FreeRegs
  BY <1>2, DstIsFree
<1>4. /\ SameHomes(m1) /\ m1.r[b] = Val(3) /\ b \in Regs /\ b # Scratch1
      /\ m1.lo = machine.lo /\ m1.hi = machine.hi
  <2>1. Loaded(m1, machine, Use(3), Scratch2)
    BY <1>2, SecondScratch
  <2> HIDE DEF m1
  <2>2. QED
    BY <2>1, Registers DEF Loaded, But, Val
<1> HIDE DEF m1, b
<1>5. /\ SameHomes(m2) /\ m2.r[b] = Val(3) /\ m2.r[At(Use(1), Scratch1)] = Val(1)
      /\ m2.lo = machine.lo /\ m2.hi = machine.hi
  <2>1. Loaded(m2, m1, Use(1), Scratch1)
    BY <1>2, <1>4, FirstScratch
  <2> HIDE DEF m2
  <2>2. QED
    BY <1>4, <2>1 DEF Loaded, But, Val
<1> HIDE DEF m2
<1>6. /\ SameHomes(m3) /\ m3.r[b] = Val(3) /\ m3.mdl = Val(1)
      /\ m3.lo = machine.lo /\ m3.hi = machine.hi
  <2>1. m3 = [m2 EXCEPT !.mdl = m2.r[At(Use(1), Scratch1)]]
    OBVIOUS
  <2> HIDE DEF m3
  <2>2. SameHomes(m3) /\ But(m3, m2, {}) /\ m3.mdl = m2.r[At(Use(1), Scratch1)]
    BY <1>5, <2>1, MdlHere
  <2>3. QED
    BY <1>4, <1>5, <2>2 DEF But
<1> HIDE DEF m3
<1>7. /\ SameHomes(m4) /\ m4.r[b] = Val(3) /\ m4.mdl = Val(1)
      /\ m4.r[At(Use(2), Scratch1)] = Val(2)
      /\ m4.lo = machine.lo /\ m4.hi = machine.hi
  <2>1. Loaded(m4, m3, Use(2), Scratch1)
    BY <1>2, <1>6, FirstScratch
  <2> HIDE DEF m4
  <2>2. QED
    BY <1>4, <1>6, <2>1 DEF Loaded, But, Val
<1> HIDE DEF m4
<1>8. /\ SameHomes(m5) /\ m5.r[b] = Val(3) /\ m5.mdl = Val(1) /\ m5.mdh = Val(2)
      /\ m5.lo = machine.lo /\ m5.hi = machine.hi
  <2>1. m5 = [m4 EXCEPT !.mdh = m4.r[At(Use(2), Scratch1)]]
    OBVIOUS
  <2> HIDE DEF m5
  <2>2. SameHomes(m5) /\ But(m5, m4, {}) /\ m5.mdh = m4.r[At(Use(2), Scratch1)] /\ m5.mdl = m4.mdl
    BY <1>7, <2>1, MdhHere
  <2>3. QED
    BY <1>4, <1>7, <2>2 DEF But
<1> HIDE DEF m5
<1>9. /\ SameHomes(m6) /\ m6.mdl = <<"quotient", <<t>>>>
      /\ m6.lo = machine.lo /\ m6.hi = machine.hi
  <2>1. m6 = Quotient(m5, t)
    BY <1>8 DEF DivL
  <2> HIDE DEF m6, t
  <2>2. QED
    BY <1>8, <2>1, QuotientHere DEF But
<1> HIDE DEF m6, t
<1>10. /\ SameHomes(m7) /\ m7.r[Dst] = <<"quotient", <<t>>>>
       /\ m7.lo = machine.lo /\ m7.hi = machine.hi /\ m7.override = Junk
  BY <1>3, <1>9, MovHere DEF Moved, But
<1> HIDE DEF m7
<1>11. QED
  BY <1>1, <1>2, <1>10, YieldsRight

(* The operands of a two-operand instruction: the first one in the home of *)
(* the result, the second one in a register of its own.                    *)
LEMMA BothInPlace ==
    ASSUME Ready, Inst.dst # None, SameHomes(machine), Operand(Use(1)), Operand(Use(2))
    PROVE  LET m1 == LoadOperand(machine, Use(1), Scratch1)
               m2 == MovReg(m1, Dst, At(Use(1), Scratch1))
               m3 == LoadOperand(m2, Use(2), Scratch2)
           IN  /\ SameHomes(m3) /\ m3.lo = machine.lo /\ m3.hi = machine.hi
               /\ m3.r[Dst] = Val(1) /\ m3.r[At(Use(2), Scratch2)] = Val(2)
               /\ m3.carry = machine.carry
<1> DEFINE m1 == LoadOperand(machine, Use(1), Scratch1)
           m2 == MovReg(m1, Dst, At(Use(1), Scratch1))
           m3 == LoadOperand(m2, Use(2), Scratch2)
<1>1. Dst \in Regs /\ Dst \in FreeRegs /\ Dst # Scratch2
  BY DstIsFree
<1>2. /\ SameHomes(m1) /\ m1.r[At(Use(1), Scratch1)] = Val(1) /\ At(Use(1), Scratch1) \in Regs
      /\ m1.lo = machine.lo /\ m1.hi = machine.hi /\ m1.carry = machine.carry
  <2>1. Loaded(m1, machine, Use(1), Scratch1)
    BY FirstScratch
  <2> HIDE DEF m1
  <2>2. QED
    BY <2>1 DEF Loaded, But, Val
<1> HIDE DEF m1
<1>3. /\ SameHomes(m2) /\ m2.r[Dst] = Val(1)
      /\ m2.lo = machine.lo /\ m2.hi = machine.hi /\ m2.carry = machine.carry
  <2>1. Moved(m2, m1, Dst, m1.r[At(Use(1), Scratch1)]) /\ m2.carry = m1.carry
    BY <1>1, <1>2, MovRegHere
  <2> HIDE DEF m2
  <2>2. QED
    BY <1>2, <2>1 DEF Moved, But
<1> HIDE DEF m2
<1>4. /\ SameHomes(m3) /\ m3.r[Dst] = Val(1) /\ m3.r[At(Use(2), Scratch2)] = Val(2)
      /\ m3.lo = machine.lo /\ m3.hi = machine.hi /\ m3.carry = machine.carry
  <2>1. Loaded(m3, m2, Use(2), Scratch2)
    BY <1>3, SecondScratch
  <2> HIDE DEF m3
  <2>2. QED
    BY <1>1, <1>3, <2>1 DEF Loaded, But, Val
<1>5. QED
  BY <1>4 DEF m1, m2

LEMMA GenBinaryCInv == CInv /\ GenBinary => CInv'
<1> SUFFICES ASSUME CInv, GenBinary PROVE CInv'
  OBVIOUS
<1> DEFINE m1 == LoadOperand(machine, Use(1), Scratch1)
           m2 == MovReg(m1, Dst, At(Use(1), Scratch1))
           m3 == LoadOperand(m2, Use(2), Scratch2)
           m4 == Alu(m3, Dst, <<"ADD", <<m3.r[Dst], m3.r[At(Use(2), Scratch2)]>>>>)
           t == <<"ADD", <<Val(1), Val(2)>>>>
<1>1. Generating("binary") /\ Yields(m4, t)
  BY DEF GenBinary, Combined
<1>2. /\ Ready /\ Inst.kind = "binary" /\ SameHomes(machine)
      /\ Operand(Use(1)) /\ Operand(Use(2)) /\ Inst.dst # None
  <2>1. Generating("binary")
    BY <1>1
  <2>2. QED
    BY <2>1, Start, Operands
<1>3. Dst \in Regs /\ Dst \in FreeRegs
  BY <1>2, DstIsFree
<1>4. /\ SameHomes(m3) /\ m3.lo = machine.lo /\ m3.hi = machine.hi
      /\ m3.r[Dst] = Val(1) /\ m3.r[At(Use(2), Scratch2)] = Val(2)
  BY <1>2, BothInPlace
<1> HIDE DEF m1, m2, m3
<1>5. m4 = Alu(m3, Dst, t)
  BY <1>4
<1> HIDE DEF m4, t
<1>6. /\ SameHomes(m4) /\ m4.lo = machine.lo /\ m4.hi = machine.hi /\ m4.r[Dst] = t
      /\ m4.override = Junk /\ m4.carry = <<"carry", <<t>>>>
  BY <1>3, <1>4, <1>5, AluHere DEF Moved, But
<1>7. QED
  BY <1>1, <1>2, <1>6, YieldsRight

LEMMA GenWithCarryCInv == CInv /\ GenWithCarry => CInv'
<1> SUFFICES ASSUME CInv, GenWithCarry PROVE CInv'
  OBVIOUS
<1> DEFINE m1 == LoadOperand(machine, Use(1), Scratch1)
           m2 == MovReg(m1, Dst, At(Use(1), Scratch1))
           m3 == LoadOperand(m2, Use(2), Scratch2)
           m4 == Alu(m3, Dst, <<"ADDC", <<m3.r[Dst], m3.r[At(Use(2), Scratch2)], m3.carry>>>>)
           t == <<"ADDC", <<Val(1), Val(2), <<"carry", <<value[code[ip].dst]>>>>>>>>
<1>1. Generating("withCarry") /\ Yields(m4, t)
  BY DEF GenWithCarry, Combined
<1>2. /\ Ready /\ Inst.kind = "withCarry" /\ SameHomes(machine)
      /\ Operand(Use(1)) /\ Operand(Use(2)) /\ Inst.dst # None
  <2>1. Generating("withCarry")
    BY <1>1
  <2>2. QED
    BY <2>1, Start, Operands
<1>3. Dst \in Regs /\ Dst \in FreeRegs
  BY <1>2, DstIsFree
<1>4. machine.carry = <<"carry", <<value[code[ip].dst]>>>>
  <2>1. ip > 0 /\ code[ip].kind = "binary"
    BY <1>2, Neighbours
  <2>2. QED
    BY <1>2, <2>1 DEF Ready, CInv, LeftBehind
<1>5. /\ SameHomes(m3) /\ m3.lo = machine.lo /\ m3.hi = machine.hi
      /\ m3.r[Dst] = Val(1) /\ m3.r[At(Use(2), Scratch2)] = Val(2)
      /\ m3.carry = machine.carry
  BY <1>2, BothInPlace
<1> HIDE DEF m1, m2, m3
<1>6. m4 = Alu(m3, Dst, t)
  BY <1>4, <1>5
<1> HIDE DEF m4, t
<1>7. /\ SameHomes(m4) /\ m4.lo = machine.lo /\ m4.hi = machine.hi /\ m4.r[Dst] = t
      /\ m4.override = Junk
  BY <1>3, <1>5, <1>6, AluHere DEF Moved, But
<1>8. QED
  BY <1>1, <1>2, <1>7, YieldsRight

LEMMA GenMultiplyCInv == CInv /\ GenMultiply => CInv'
<1> SUFFICES ASSUME CInv, GenMultiply PROVE CInv'
  OBVIOUS
<1> DEFINE m1 == Load2(machine, Use(1), Use(2))
           m2 == Mul(m1, At(Use(1), Scratch1), At(Use(2), Scratch2))
           m3 == Mov(m2, Dst, m2.mdl)
           p == <<"MUL", <<Val(1), Val(2)>>>>
           t == <<"low", <<p>>>>
<1>1. Generating("multiply") /\ Yields(m3, t)
  BY DEF GenMultiply
<1>2. /\ Ready /\ Inst.kind = "multiply" /\ SameHomes(machine)
      /\ Operand(Use(1)) /\ Operand(Use(2)) /\ Inst.dst # None
  <2>1. Generating("multiply")
    BY <1>1
  <2>2. QED
    BY <2>1, Start, Operands
<1>3. Dst \in Regs /\ Dst \in FreeRegs
  BY <1>2, DstIsFree
<1>4. /\ SameHomes(m1) /\ m1.lo = machine.lo /\ m1.hi = machine.hi
      /\ m1.r[At(Use(1), Scratch1)] = Val(1) /\ m1.r[At(Use(2), Scratch2)] = Val(2)
  BY <1>2, LoadTwo DEF Val, But
<1> HIDE DEF m1
<1>5. /\ SameHomes(m2) /\ m2.mdl = t /\ m2.mdh = <<"high", <<p>>>>
      /\ m2.lo = machine.lo /\ m2.hi = machine.hi
  BY <1>4, MulHere DEF But
<1>6. t[2] = <<p>>
  OBVIOUS
<1> HIDE DEF m2, t, p
<1>7. /\ SameHomes(m3) /\ m3.r[Dst] = t /\ m3.mdh = <<"high", t[2]>>
      /\ m3.lo = machine.lo /\ m3.hi = machine.hi /\ m3.override = Junk
  BY <1>3, <1>5, <1>6, MovHere DEF Moved, But
<1> HIDE DEF m3
<1>8. QED
  BY <1>1, <1>2, <1>7, YieldsRight

LEMMA GenProductHighCInv == CInv /\ GenProductHigh => CInv'
<1> SUFFICES ASSUME CInv, GenProductHigh PROVE CInv'
  OBVIOUS
<1> DEFINE m == Mov(machine, Dst, machine.mdh)
           t == <<"high", value[code[ip].dst][2]>>
<1>1. Generating("productHigh") /\ Yields(m, t)
  BY DEF GenProductHigh
<1>2. Ready /\ Inst.kind = "productHigh" /\ SameHomes(machine) /\ Inst.dst # None
  <2>1. Generating("productHigh")
    BY <1>1
  <2>2. QED
    BY <2>1, Start, Operands
<1>3. machine.mdh = t
  <2>1. ip > 0 /\ code[ip].kind = "multiply"
    BY <1>2, Neighbours
  <2>2. QED
    BY <1>2, <2>1 DEF Ready, CInv, LeftBehind
<1> HIDE DEF t
<1>4. SameHomes(m) /\ m.r[Dst] = t /\ m.lo = machine.lo /\ m.hi = machine.hi /\ m.override = Junk
  BY <1>2, <1>3, DstIsFree, MovHere DEF Moved, But
<1> HIDE DEF m
<1>5. QED
  BY <1>1, <1>2, <1>4, YieldsRight

LEMMA GenDivideCInv == CInv /\ GenDivide => CInv'
<1> SUFFICES ASSUME CInv, GenDivide PROVE CInv'
  OBVIOUS
<1> DEFINE b == At(Use(2), Scratch2)
           m1 == Load2(machine, Use(1), Use(2))
           m2 == [m1 EXCEPT !.mdl = m1.r[At(Use(1), Scratch1)]]
           m3 == Div(m2, b)
           m4 == Mov(m3, Dst, m3.mdl)
           t == <<"DIV", <<Val(1), Val(2)>>>>
<1>1. Generating("divide") /\ Yields(m4, <<"quotient", <<t>>>>)
  BY DEF GenDivide
<1>2. /\ Ready /\ Inst.kind = "divide" /\ SameHomes(machine)
      /\ Operand(Use(1)) /\ Operand(Use(2)) /\ Inst.dst # None
  <2>1. Generating("divide")
    BY <1>1
  <2>2. QED
    BY <2>1, Start, Operands
<1>3. Dst \in Regs /\ Dst \in FreeRegs
  BY <1>2, DstIsFree
<1>4. /\ SameHomes(m1) /\ m1.lo = machine.lo /\ m1.hi = machine.hi
      /\ m1.r[At(Use(1), Scratch1)] = Val(1) /\ m1.r[b] = Val(2) /\ b \in Regs
  BY <1>2, LoadTwo DEF Val, But
<1> HIDE DEF m1, b
<1>5. /\ SameHomes(m2) /\ m2.r[b] = Val(2) /\ m2.mdl = Val(1)
      /\ m2.lo = machine.lo /\ m2.hi = machine.hi
  <2>1. m2 = [m1 EXCEPT !.mdl = m1.r[At(Use(1), Scratch1)]]
    OBVIOUS
  <2> HIDE DEF m2
  <2>2. SameHomes(m2) /\ But(m2, m1, {}) /\ m2.mdl = m1.r[At(Use(1), Scratch1)]
    BY <1>4, <2>1, MdlHere
  <2>3. QED
    BY <1>4, <2>2 DEF But
<1> HIDE DEF m2
<1>6. SameHomes(m3) /\ m3.mdl = <<"quotient", <<t>>>> /\ m3.lo = machine.lo /\ m3.hi = machine.hi
  <2>1. m3 = Quotient(m2, t)
    BY <1>5 DEF Div
  <2> HIDE DEF m3, t
  <2>2. QED
    BY <1>5, <2>1, QuotientHere DEF But
<1> HIDE DEF m3, t
<1>7. /\ SameHomes(m4) /\ m4.r[Dst] = <<"quotient", <<t>>>>
      /\ m4.lo = machine.lo /\ m4.hi = machine.hi /\ m4.override = Junk
  BY <1>3, <1>6, MovHere DEF Moved, But
<1> HIDE DEF m4
<1>8. QED
  BY <1>1, <1>2, <1>7, YieldsRight

LEMMA GenUnaryCInv == CInv /\ GenUnary => CInv'
<1> SUFFICES ASSUME CInv, GenUnary PROVE CInv'
  OBVIOUS
<1> DEFINE m1 == LoadOperand(machine, Use(1), Scratch1)
           m2 == MovReg(m1, Dst, At(Use(1), Scratch1))
           m3 == Alu(m2, Dst, <<"NEG", <<m2.r[Dst]>>>>)
           t == <<"NEG", <<Val(1)>>>>
<1>1. \/ Generating("copy") /\ Yields(m2, Val(1))
      \/ Generating("unary") /\ Yields(m3, t)
  BY DEF GenUnary
<1>2. /\ Ready /\ Inst.kind \in {"copy", "unary"} /\ SameHomes(machine)
      /\ Operand(Use(1)) /\ Inst.dst # None /\ machine.override = Junk
  <2>1. Generating("copy") \/ Generating("unary")
    BY <1>1
  <2>2. QED
    BY <2>1, Start, Operands
<1>3. Dst \in Regs /\ Dst \in FreeRegs
  BY <1>2, DstIsFree
<1>4. /\ SameHomes(m1) /\ m1.r[At(Use(1), Scratch1)] = Val(1) /\ At(Use(1), Scratch1) \in Regs
      /\ m1.lo = machine.lo /\ m1.hi = machine.hi /\ m1.override = Junk
  <2>1. Loaded(m1, machine, Use(1), Scratch1)
    BY <1>2, FirstScratch
  <2> HIDE DEF m1
  <2>2. QED
    BY <1>2, <2>1 DEF Loaded, But, Val
<1> HIDE DEF m1
<1>5. /\ SameHomes(m2) /\ m2.r[Dst] = Val(1)
      /\ m2.lo = machine.lo /\ m2.hi = machine.hi /\ m2.override = Junk
  <2>1. Moved(m2, m1, Dst, m1.r[At(Use(1), Scratch1)])
    BY <1>3, <1>4, MovRegHere
  <2> HIDE DEF m2
  <2>2. QED
    BY <1>4, <2>1 DEF Moved, But
<1> HIDE DEF m2
<1>6. /\ SameHomes(m3) /\ m3.r[Dst] = t
      /\ m3.lo = machine.lo /\ m3.hi = machine.hi /\ m3.override = Junk
  <2>1. m3 = Alu(m2, Dst, t)
    BY <1>5
  <2> HIDE DEF m3, t
  <2>2. QED
    BY <1>3, <1>5, <2>1, AluHere DEF Moved, But
<1> HIDE DEF m3, t
<1>7. QED
  BY <1>1, <1>2, <1>5, <1>6, YieldsRight

LEMMA CmpHere ==
    ASSUME NEW m, SameHomes(m), NEW x, NEW y
    PROVE  LET n == Cmp(m, x, y)
               t == <<"SUB", <<m.r[x], m.r[y]>>>>
           IN  /\ SameHomes(n) /\ But(n, m, {}) /\ n.carry = <<"carry", <<t>>>>
               /\ n.flags = t /\ n.override = Junk
<1> DEFINE t == <<"SUB", <<m.r[x], m.r[y]>>>>
<1>1. Cmp(m, x, y) = Flags(m, t)
  BY DEF Cmp
<1> HIDE DEF t
<1>2. QED
  BY <1>1, FlagsHere DEF t

LEMMA GenCompareCInv == CInv /\ GenCompare => CInv'
<1> SUFFICES ASSUME CInv, GenCompare PROVE CInv'
  OBVIOUS
<1> DEFINE m1 == Load2(machine, Use(1), Use(2))
           m2 == Cmp(m1, At(Use(1), Scratch1), At(Use(2), Scratch2))
           m3 == Mov(m2, Dst, <<"if", <<m2.flags>>>>)
           d == <<"SUB", <<Val(1), Val(2)>>>>
           t == <<"if", <<d>>>>
<1>1. Generating("compare") /\ Yields(m3, t)
  BY DEF GenCompare
<1>2. /\ Ready /\ Inst.kind = "compare" /\ SameHomes(machine)
      /\ Operand(Use(1)) /\ Operand(Use(2)) /\ Inst.dst # None
  <2>1. Generating("compare")
    BY <1>1
  <2>2. QED
    BY <2>1, Start, Operands
<1>3. Dst \in Regs /\ Dst \in FreeRegs
  BY <1>2, DstIsFree
<1>4. /\ SameHomes(m1) /\ m1.lo = machine.lo /\ m1.hi = machine.hi
      /\ m1.r[At(Use(1), Scratch1)] = Val(1) /\ m1.r[At(Use(2), Scratch2)] = Val(2)
  BY <1>2, LoadTwo DEF Val, But
<1> HIDE DEF m1
<1>5. SameHomes(m2) /\ m2.flags = d /\ m2.lo = machine.lo /\ m2.hi = machine.hi
  BY <1>4, CmpHere DEF But
<1> HIDE DEF m2
<1>6. m3 = Mov(m2, Dst, t)
  BY <1>5
<1> HIDE DEF m3, t
<1>7. /\ SameHomes(m3) /\ m3.r[Dst] = t
      /\ m3.lo = machine.lo /\ m3.hi = machine.hi /\ m3.override = Junk
  BY <1>3, <1>5, <1>6, MovHere DEF Moved, But
<1>8. QED
  BY <1>1, <1>2, <1>7, YieldsRight

LEMMA Equal32CInv ==
    ASSUME CInv, GenCmp32, Generating("equal32")
    PROVE  CInv'
<1> DEFINE m1 == Load2(machine, Use(1), Use(2))
           m2 == Cmp(m1, At(Use(1), Scratch1), At(Use(2), Scratch2))
           m3 == Load2(m2, Use(3), Use(4))
           m4 == Cmp(m3, At(Use(3), Scratch1), At(Use(4), Scratch2))
           m5 == Mov(m4, Dst, <<"both", <<m2.flags, m4.flags>>>>)
           low == <<"SUB", <<Val(1), Val(2)>>>>
           high == <<"SUB", <<Val(3), Val(4)>>>>
           t == <<"both", <<low, high>>>>
<1>1. Yields(m5, t)
  BY DEF GenCmp32, Generating
<1>2. /\ Ready /\ Inst.kind = "equal32" /\ SameHomes(machine) /\ Inst.dst # None
      /\ Operand(Use(1)) /\ Operand(Use(2)) /\ Operand(Use(3)) /\ Operand(Use(4))
  BY Start, Operands
<1>3. Dst \in Regs /\ Dst \in FreeRegs
  BY <1>2, DstIsFree
<1>4. /\ SameHomes(m1) /\ m1.lo = machine.lo /\ m1.hi = machine.hi
      /\ m1.r[At(Use(1), Scratch1)] = Val(1) /\ m1.r[At(Use(2), Scratch2)] = Val(2)
  BY <1>2, LoadTwo DEF Val, But
<1> HIDE DEF m1
<1>5. SameHomes(m2) /\ m2.flags = low /\ m2.lo = machine.lo /\ m2.hi = machine.hi
  BY <1>4, CmpHere DEF But
<1> HIDE DEF m2
<1>6. /\ SameHomes(m3) /\ m3.lo = machine.lo /\ m3.hi = machine.hi
      /\ m3.r[At(Use(3), Scratch1)] = Val(3) /\ m3.r[At(Use(4), Scratch2)] = Val(4)
  BY <1>2, <1>5, LoadTwo DEF Val, But
<1> HIDE DEF m3
<1>7. SameHomes(m4) /\ m4.flags = high /\ m4.lo = machine.lo /\ m4.hi = machine.hi
  BY <1>6, CmpHere DEF But
<1> HIDE DEF m4
<1>8. m5 = Mov(m4, Dst, t)
  BY <1>5, <1>7
<1> HIDE DEF m5, t
<1>9. /\ SameHomes(m5) /\ m5.r[Dst] = t
      /\ m5.lo = machine.lo /\ m5.hi = machine.hi /\ m5.override = Junk
  BY <1>3, <1>7, <1>8, MovHere DEF Moved, But
<1>10. QED
  BY <1>1, <1>2, <1>9, YieldsRight

LEMMA Less32CInv ==
    ASSUME CInv, GenCmp32, Generating("less32")
    PROVE  CInv'
<1> DEFINE m1 == Load2(machine, Use(1), Use(2))
           m2 == Cmp(m1, At(Use(1), Scratch1), At(Use(2), Scratch2))
           m3 == LoadOperand(m2, Use(3), Scratch1)
           m4 == MovReg(m3, Scratch1, At(Use(3), Scratch1))
           m5 == LoadOperand(m4, Use(4), Scratch2)
           m6 == Alu(m5, Scratch1, <<"SUBC", <<m5.r[Scratch1], m5.r[At(Use(4), Scratch2)], m5.carry>>>>)
           m7 == Mov(m6, Dst, <<"if", <<m6.flags>>>>)
           low == <<"SUB", <<Val(1), Val(2)>>>>
           high == <<"SUBC", <<Val(3), Val(4), <<"carry", <<low>>>>>>>>
           t == <<"if", <<high>>>>
<1>1. Yields(m7, t)
  BY DEF GenCmp32, Generating
<1>2. /\ Ready /\ Inst.kind = "less32" /\ SameHomes(machine) /\ Inst.dst # None
      /\ Operand(Use(1)) /\ Operand(Use(2)) /\ Operand(Use(3)) /\ Operand(Use(4))
  BY Start, Operands
<1>3. Dst \in Regs /\ Dst \in FreeRegs /\ Scratch1 \in Regs /\ Scratch1 # Scratch2
  BY <1>2, DstIsFree, Registers
<1>4. /\ SameHomes(m1) /\ m1.lo = machine.lo /\ m1.hi = machine.hi
      /\ m1.r[At(Use(1), Scratch1)] = Val(1) /\ m1.r[At(Use(2), Scratch2)] = Val(2)
  BY <1>2, LoadTwo DEF Val, But
<1> HIDE DEF m1
<1>5. SameHomes(m2) /\ m2.carry = <<"carry", <<low>>>> /\ m2.lo = machine.lo /\ m2.hi = machine.hi
  BY <1>4, CmpHere DEF But
<1> HIDE DEF m2, low
<1>6. /\ SameHomes(m3) /\ m3.r[At(Use(3), Scratch1)] = Val(3) /\ At(Use(3), Scratch1) \in Regs
      /\ m3.lo = machine.lo /\ m3.hi = machine.hi /\ m3.carry = <<"carry", <<low>>>>
  <2>1. Loaded(m3, m2, Use(3), Scratch1)
    BY <1>2, <1>5, FirstScratch
  <2> HIDE DEF m3
  <2>2. QED
    BY <1>5, <2>1 DEF Loaded, But, Val
<1> HIDE DEF m3
<1>7. /\ SameHomes(m4) /\ m4.r[Scratch1] = Val(3)
      /\ m4.lo = machine.lo /\ m4.hi = machine.hi /\ m4.carry = <<"carry", <<low>>>>
  <2>1. Moved(m4, m3, Scratch1, m3.r[At(Use(3), Scratch1)]) /\ m4.carry = m3.carry
    BY <1>6, FirstScratch
  <2> HIDE DEF m4
  <2>2. QED
    BY <1>6, <2>1 DEF Moved, But
<1> HIDE DEF m4
<1>8. /\ SameHomes(m5) /\ m5.r[Scratch1] = Val(3) /\ m5.r[At(Use(4), Scratch2)] = Val(4)
      /\ m5.lo = machine.lo /\ m5.hi = machine.hi /\ m5.carry = <<"carry", <<low>>>>
  <2>1. Loaded(m5, m4, Use(4), Scratch2)
    BY <1>2, <1>7, SecondScratch
  <2> HIDE DEF m5
  <2>2. QED
    BY <1>3, <1>7, <2>1 DEF Loaded, But, Val
<1> HIDE DEF m5
<1>9. SameHomes(m6) /\ m6.flags = high /\ m6.lo = machine.lo /\ m6.hi = machine.hi
  <2>1. m6 = Alu(m5, Scratch1, high)
    BY <1>8
  <2> HIDE DEF m6, high
  <2>2. Moved(m6, m5, Scratch1, high) /\ m6.flags = high
    BY <1>8, <2>1, FirstScratch
  <2>3. QED
    BY <1>8, <2>2 DEF Moved, But
<1>10. m7 = Mov(m6, Dst, t)
  <2> HIDE DEF m6, high
  <2> QED BY <1>9
<1> HIDE DEF m6, m7, high, t
<1>11. /\ SameHomes(m7) /\ m7.r[Dst] = t
       /\ m7.lo = machine.lo /\ m7.hi = machine.hi /\ m7.override = Junk
  BY <1>3, <1>9, <1>10, MovHere DEF Moved, But
<1>12. QED
  BY <1>1, <1>2, <1>11, YieldsRight

LEMMA GenCmp32CInv == CInv /\ GenCmp32 => CInv'
<1>1. GenCmp32 => Generating("equal32") \/ Generating("less32")
  BY DEF GenCmp32
<1>2. QED
  BY <1>1, Equal32CInv, Less32CInv

LEMMA GenLoadMemCInv == CInv /\ GenLoadMem => CInv'
<1> SUFFICES ASSUME CInv, GenLoadMem PROVE CInv'
  OBVIOUS
<1> DEFINE m1 == LoadOperand(machine, Use(1), Scratch2)
           m2 == Mov(m1, Dst, <<"at", <<m1.r[At(Use(1), Scratch2)]>>>>)
           t == <<"at", <<Val(1)>>>>
<1>1. Generating("loadMem") /\ Yields(m2, t)
  BY DEF GenLoadMem
<1>2. Ready /\ Inst.kind = "loadMem" /\ SameHomes(machine) /\ Operand(Use(1)) /\ Inst.dst # None
  <2>1. Generating("loadMem")
    BY <1>1
  <2>2. QED
    BY <2>1, Start, Operands
<1>3. Dst \in Regs /\ Dst \in FreeRegs
  BY <1>2, DstIsFree
<1>4. /\ SameHomes(m1) /\ m1.r[At(Use(1), Scratch2)] = Val(1)
      /\ m1.lo = machine.lo /\ m1.hi = machine.hi
  <2>1. Loaded(m1, machine, Use(1), Scratch2)
    BY <1>2, SecondScratch
  <2> HIDE DEF m1
  <2>2. QED
    BY <2>1 DEF Loaded, But, Val
<1> HIDE DEF m1
<1>5. m2 = Mov(m1, Dst, t)
  BY <1>4
<1> HIDE DEF m2, t
<1>6. /\ SameHomes(m2) /\ m2.r[Dst] = t
      /\ m2.lo = machine.lo /\ m2.hi = machine.hi /\ m2.override = Junk
  BY <1>3, <1>4, <1>5, MovHere DEF Moved, But
<1>7. QED
  BY <1>1, <1>2, <1>6, YieldsRight

LEMMA GenFarReadCInv == CInv /\ GenFarRead => CInv'
<1> SUFFICES ASSUME CInv, GenFarRead PROVE CInv'
  OBVIOUS
<1> DEFINE m1 == Load2(machine, Use(1), Use(2))
           m2 == [m1 EXCEPT !.override = m1.r[At(Use(1), Scratch1)]]
           m3 == Mov(m2, Dst, <<"far", <<m2.override, m2.r[At(Use(2), Scratch2)]>>>>)
           t == <<"far", <<Val(1), Val(2)>>>>
<1>1. Generating("farRead") /\ Yields(m3, t)
  BY DEF GenFarRead
<1>2. /\ Ready /\ Inst.kind = "farRead" /\ SameHomes(machine)
      /\ Operand(Use(1)) /\ Operand(Use(2)) /\ Inst.dst # None
  <2>1. Generating("farRead")
    BY <1>1
  <2>2. QED
    BY <2>1, Start, Operands
<1>3. Dst \in Regs /\ Dst \in FreeRegs
  BY <1>2, DstIsFree
<1>4. /\ SameHomes(m1) /\ m1.lo = machine.lo /\ m1.hi = machine.hi
      /\ m1.r[At(Use(1), Scratch1)] = Val(1) /\ m1.r[At(Use(2), Scratch2)] = Val(2)
      /\ At(Use(2), Scratch2) \in Regs
  BY <1>2, LoadTwo DEF Val, But
<1> HIDE DEF m1
<1>5. /\ SameHomes(m2) /\ m2.override = Val(1) /\ m2.r[At(Use(2), Scratch2)] = Val(2)
      /\ m2.lo = machine.lo /\ m2.hi = machine.hi
  <2>1. m2 = [m1 EXCEPT !.override = m1.r[At(Use(1), Scratch1)]]
    OBVIOUS
  <2> HIDE DEF m2
  <2>2. SameHomes(m2) /\ But(m2, m1, {}) /\ m2.override = m1.r[At(Use(1), Scratch1)]
    BY <1>4, <2>1, OverrideHere
  <2>3. QED
    BY <1>4, <2>2 DEF But
<1> HIDE DEF m2
<1>6. m3 = Mov(m2, Dst, t)
  BY <1>5
<1> HIDE DEF m3, t
<1>7. /\ SameHomes(m3) /\ m3.r[Dst] = t
      /\ m3.lo = machine.lo /\ m3.hi = machine.hi /\ m3.override = Junk
  BY <1>3, <1>5, <1>6, MovHere DEF Moved, But
<1>8. QED
  BY <1>1, <1>2, <1>7, YieldsRight

(* A store, a branch or a return leaves the homes alone.                   *)
LEMMA AffectHere ==
    ASSUME NEW m, SameHomes(m), NEW what, NEW on
    PROVE  LET n == Affect(m, what, on)
           IN  /\ SameHomes(n) /\ n.r = m.r /\ n.lo = m.lo /\ n.hi = m.hi
               /\ n.override = Junk /\ n.effect = [what |-> what, on |-> on]
<1>1. LET n == Affect(m, what, on)
      IN  /\ IsMachine(n) /\ n.r = m.r /\ n.slot = m.slot /\ n.lo = m.lo /\ n.hi = m.hi
          /\ n.override = Junk /\ n.effect = [what |-> what, on |-> on]
  BY DEF Affect, SameHomes, IsMachine, Fields
<1>2. QED
  BY <1>1 DEF SameHomes

LEMMA GenStoreMemCInv == CInv /\ GenStoreMem => CInv'
<1> SUFFICES ASSUME CInv, GenStoreMem PROVE CInv'
  OBVIOUS
<1> DEFINE m1 == Load2(machine, Use(1), Use(2))
           m2 == Affect(m1, "store", <<m1.r[At(Use(1), Scratch1)], m1.r[At(Use(2), Scratch2)]>>)
           on == <<Val(1), Val(2)>>
<1>1. Generating("storeMem") /\ Does(m2, "store", on)
  BY DEF GenStoreMem
<1>2. /\ Ready /\ Inst.kind = "storeMem" /\ SameHomes(machine)
      /\ Operand(Use(1)) /\ Operand(Use(2)) /\ Inst.dst = None
  <2>1. Generating("storeMem")
    BY <1>1
  <2>2. QED
    BY <2>1, Start, Operands
<1>3. /\ SameHomes(m1) /\ m1.lo = machine.lo /\ m1.hi = machine.hi
      /\ m1.r[At(Use(1), Scratch1)] = Val(1) /\ m1.r[At(Use(2), Scratch2)] = Val(2)
  BY <1>2, LoadTwo DEF Val, But
<1> HIDE DEF m1
<1>4. m2 = Affect(m1, "store", on)
  BY <1>3
<1> HIDE DEF m2, on
<1>5. /\ SameHomes(m2) /\ m2.lo = machine.lo /\ m2.hi = machine.hi
      /\ m2.override = Junk /\ m2.effect = [what |-> "store", on |-> on]
  BY <1>3, <1>4, AffectHere
<1>6. QED
  BY <1>1, <1>2, <1>5, DoesRight

LEMMA GenBranchCInv == CInv /\ GenBranch => CInv'
<1> SUFFICES ASSUME CInv, GenBranch PROVE CInv'
  OBVIOUS
<1> DEFINE m1 == LoadOperand(machine, Use(1), Scratch1)
           m2 == Flags(m1, <<"SUB", <<m1.r[At(Use(1), Scratch1)], Zero>>>>)
           m3 == Affect(m2, "branch", <<m2.flags>>)
           on == <<<<"SUB", <<Val(1), Zero>>>>>>
<1>1. Generating("branch") /\ Does(m3, "branch", on)
  BY DEF GenBranch
<1>2. Ready /\ Inst.kind = "branch" /\ SameHomes(machine) /\ Operand(Use(1)) /\ Inst.dst = None
  <2>1. Generating("branch")
    BY <1>1
  <2>2. QED
    BY <2>1, Start, Operands
<1>3. /\ SameHomes(m1) /\ m1.r[At(Use(1), Scratch1)] = Val(1)
      /\ m1.lo = machine.lo /\ m1.hi = machine.hi
  <2>1. Loaded(m1, machine, Use(1), Scratch1)
    BY <1>2, FirstScratch
  <2> HIDE DEF m1
  <2>2. QED
    BY <2>1 DEF Loaded, But, Val
<1> HIDE DEF m1
<1>4. /\ SameHomes(m2) /\ m2.flags = <<"SUB", <<Val(1), Zero>>>>
      /\ m2.lo = machine.lo /\ m2.hi = machine.hi
  BY <1>3, FlagsHere DEF But
<1> HIDE DEF m2
<1>5. m3 = Affect(m2, "branch", on)
  BY <1>4
<1> HIDE DEF m3, on
<1>6. /\ SameHomes(m3) /\ m3.lo = machine.lo /\ m3.hi = machine.hi
      /\ m3.override = Junk /\ m3.effect = [what |-> "branch", on |-> on]
  BY <1>4, <1>5, AffectHere
<1>7. QED
  BY <1>1, <1>2, <1>6, DoesRight

(* The compiler gives up, and nothing runs.                                *)
LEMMA GiveUpCInv == CInv /\ GiveUp => CInv'
<1> SUFFICES ASSUME CInv, GiveUp PROVE CInv'
  OBVIOUS
<1>1. stage = "body" /\ stage' = "failed" /\ UNCHANGED <<vars, code, ip, machine, value, wide, meant>>
  BY DEF GiveUp, Generating
<1>2. IInv'
  BY <1>1, NextIInv DEF CInv
<1>3. CodeOK' /\ StageOK' /\ MachineOK'
  BY <1>1 DEF CInv, CodeOK, CodeScanned, Pairs, Numbered, Defined, StageOK, MachineOK, IsMachine,
              Fields, vars, scanVars
<1>4. ~Run'
  BY <1>1 DEF Run
<1>5. QED
  BY <1>2, <1>3, <1>4 DEF CInv, LeftBehind, HomesHold, EffectsAsMeant, WideSymbolAsMeant

(* Of the operands of a far store no two share a scratch register, unless  *)
(* all three are on the stack.                                             *)
LEMMA ThreeInTwo ==
    ASSUME ~AllSpilled
    PROVE  /\ ScratchOf(1) = Scratch1
           /\ ScratchOf(2) = IF spilled[Use(1)] THEN Scratch2 ELSE Scratch1
           /\ ScratchOf(3) = IF spilled[Use(1)] \/ spilled[Use(2)] THEN Scratch2 ELSE Scratch1
           /\ ~spilled[Use(1)] \/ ~spilled[Use(2)] \/ ~spilled[Use(3)]
<1>1. ScratchOf(1) = Scratch1
  BY DEF ScratchOf
<1>2. ScratchOf(2) = IF spilled[Use(1)] THEN Scratch2 ELSE Scratch1
  <2>1. 1 .. 2 - 1 = {1}
    OBVIOUS
  <2>2. QED
    BY <2>1 DEF ScratchOf
<1>3. ScratchOf(3) = IF spilled[Use(1)] \/ spilled[Use(2)] THEN Scratch2 ELSE Scratch1
  <2>1. 1 .. 3 - 1 = {1, 2}
    OBVIOUS
  <2>2. QED
    BY <2>1 DEF ScratchOf
<1>4. ~spilled[Use(1)] \/ ~spilled[Use(2)] \/ ~spilled[Use(3)]
  <2>1. 1 .. 3 = {1, 2, 3}
    OBVIOUS
  <2>2. QED
    BY <2>1 DEF AllSpilled
<1>5. QED
  BY <1>1, <1>2, <1>3, <1>4

(* An operand of a far store is loaded; one at home in a register stays.   *)
LEMMA LoadFar ==
    ASSUME NEW m, SameHomes(m), NEW v, Operand(v), NEW s, s \in {Scratch1, Scratch2}
    PROVE  LET n == LoadOperand(m, v, s)
               x == At(v, s)
           IN  /\ SameHomes(n) /\ n.lo = m.lo /\ n.hi = m.hi /\ x \in Regs
               /\ n.r[x] = value[v]
               /\ \A y \in Regs : ~spilled[v] \/ y # s => n.r[y] = m.r[y]
               /\ spilled[v] => x = s
               /\ ~spilled[v] => x \notin {Scratch1, Scratch2}
<1> DEFINE n == LoadOperand(m, v, s)
<1>1. Loaded(n, m, v, s)
  BY LoadDoes
<1>2. spilled[v] => At(v, s) = s
  BY DEF At
<1>3. ~spilled[v] => n = m /\ At(v, s) \notin {Scratch1, Scratch2}
  BY Registers DEF LoadOperand, At, Operand
<1> HIDE DEF n
<1>4. QED
  BY <1>1, <1>2, <1>3 DEF n, Loaded, But

LEMMA GenFarWriteCInv == CInv /\ GenFarWrite => CInv'
<1> SUFFICES ASSUME CInv, GenFarWrite PROVE CInv'
  OBVIOUS
<1>1. PICK s1, s2, s3, what : s1 = ScratchOf(1) /\ s2 = ScratchOf(2) /\ s3 = ScratchOf(3) /\ what = "far store"
  OBVIOUS
<1> DEFINE x1 == At(Use(1), s1)
           x2 == At(Use(2), s2)
           x3 == At(Use(3), s3)
           m1 == LoadOperand(machine, Use(1), s1)
           m2 == LoadOperand(m1, Use(2), s2)
           m3 == LoadOperand(m2, Use(3), s3)
           m4 == [m3 EXCEPT !.override = m3.r[x1]]
           m5 == Affect(m4, what, <<m4.override, m4.r[x2], m4.r[x3]>>)
           on == <<Val(1), Val(2), Val(3)>>
<1>2. Generating("farWrite") /\ ~AllSpilled /\ Does(m5, what, on)
  BY <1>1 DEF GenFarWrite
<1>3. /\ Ready /\ Inst.kind = "farWrite" /\ SameHomes(machine) /\ Inst.dst = None
      /\ Operand(Use(1)) /\ Operand(Use(2)) /\ Operand(Use(3))
  <2>1. Generating("farWrite")
    BY <1>2
  <2>2. QED
    BY <2>1, Start, Operands
<1>4. /\ s1 = Scratch1
      /\ s2 = IF spilled[Use(1)] THEN Scratch2 ELSE Scratch1
      /\ s3 = IF spilled[Use(1)] \/ spilled[Use(2)] THEN Scratch2 ELSE Scratch1
      /\ ~spilled[Use(1)] \/ ~spilled[Use(2)] \/ ~spilled[Use(3)]
      /\ {s1, s2, s3} \subseteq {Scratch1, Scratch2}
      /\ what # "call"
  BY <1>1, <1>2, ThreeInTwo
<1>5. /\ SameHomes(m1) /\ m1.lo = machine.lo /\ m1.hi = machine.hi
      /\ m1.r[x1] = Val(1) /\ x1 \in Regs
      /\ spilled[Use(1)] => x1 = s1
      /\ ~spilled[Use(1)] => x1 \notin {Scratch1, Scratch2}
  BY <1>3, <1>4, LoadFar DEF Val
<1> HIDE DEF m1, x1
<1>6. /\ SameHomes(m2) /\ m2.lo = machine.lo /\ m2.hi = machine.hi
      /\ m2.r[x2] = Val(2) /\ x2 \in Regs
      /\ \A y \in Regs : ~spilled[Use(2)] \/ y # s2 => m2.r[y] = m1.r[y]
      /\ spilled[Use(2)] => x2 = s2
      /\ ~spilled[Use(2)] => x2 \notin {Scratch1, Scratch2}
  BY <1>3, <1>4, <1>5, LoadFar DEF Val
<1> HIDE DEF m2, x2
<1>7. m2.r[x1] = Val(1)
  BY <1>4, <1>5, <1>6, Registers
<1>8. /\ SameHomes(m3) /\ m3.lo = machine.lo /\ m3.hi = machine.hi
      /\ m3.r[x3] = Val(3) /\ x3 \in Regs
      /\ \A y \in Regs : ~spilled[Use(3)] \/ y # s3 => m3.r[y] = m2.r[y]
  BY <1>3, <1>4, <1>6, LoadFar DEF Val
<1> HIDE DEF m3, x3
<1>9. m3.r[x1] = Val(1) /\ m3.r[x2] = Val(2)
  BY <1>4, <1>5, <1>6, <1>7, <1>8, Registers
<1>10. /\ SameHomes(m4) /\ m4.lo = machine.lo /\ m4.hi = machine.hi
       /\ m4.override = Val(1) /\ m4.r[x2] = Val(2) /\ m4.r[x3] = Val(3)
  <2>1. m4 = [m3 EXCEPT !.override = m3.r[x1]]
    OBVIOUS
  <2> HIDE DEF m4
  <2>2. SameHomes(m4) /\ But(m4, m3, {}) /\ m4.override = m3.r[x1]
    BY <1>8, <2>1, OverrideHere
  <2>3. QED
    BY <1>6, <1>8, <1>9, <2>2 DEF But
<1> HIDE DEF m4
<1>11. m5 = Affect(m4, what, on)
  BY <1>10
<1> HIDE DEF m5, on
<1>12. /\ SameHomes(m5) /\ m5.lo = machine.lo /\ m5.hi = machine.hi
       /\ m5.override = Junk /\ m5.effect = [what |-> what, on |-> on]
  BY <1>10, <1>11, AffectHere
<1>13. QED
  BY <1>2, <1>3, <1>4, <1>12, DoesRight

(* Nothing is to be read any more behind a return.                         *)
LEMMA NothingLivesOn ==
    ASSUME Ready, Inst.kind = "return", Inst.dst = None
    PROVE  LiveAfter = {}
<1> SUFFICES ASSUME NEW v \in LiveAfter PROVE FALSE
  OBVIOUS
<1>1. ip + 1 = Len(code) /\ Len(code) = ninsts
  BY Neighbours DEF Ready, CInv, CodeOK, CodeScanned
<1>2. PICK p \in 1 .. ip + 1 : code[p].dst = v /\ (p = ip + 1 \/ last[v] >= ip + 1)
  BY DEF LiveAfter
<1>3. v \in VReg /\ v # None
  BY NVRegsAssumption DEF LiveAfter, VReg, None
<1>4. last[v] >= ninsts /\ p \in 1 .. Len(code)
  BY <1>1, <1>2, <1>3, ReadyFacts DEF Inst
<1>5. first[v] = p - 1
  BY <1>2, <1>3, <1>4 DEF Ready, CInv, CodeOK, CodeScanned
<1>6. first[v] # None
  BY <1>4, <1>5, ReadyFacts DEF None
<1>7. last[v] < ninsts
  BY <1>3, <1>6, ReadyFacts DEF IInv, Intervals
<1>8. ninsts \in Nat /\ last[v] \in Int
  BY <1>1, <1>3, ReadyFacts
<1>9. QED
  BY <1>4, <1>7, <1>8

(* The value goes to R0, which may have been somebody's home.              *)
LEMMA GenReturnCInv == CInv /\ GenReturn => CInv'
<1> SUFFICES ASSUME CInv, GenReturn PROVE CInv'
  OBVIOUS
<1> DEFINE m1 == LoadOperand(machine, Use(1), Scratch1)
           y == At(Use(1), Scratch1)
           m2 == MovReg(m1, R0, y)
           m3 == Affect(m2, "return", <<m2.r[R0]>>)
           on == <<Val(1)>>
<1>1. Generating("return") /\ Does(m3, "return", on)
  BY DEF GenReturn
<1>2. /\ Ready /\ Inst.kind = "return" /\ SameHomes(machine) /\ Operand(Use(1))
      /\ Inst.dst = None /\ machine.override = Junk
  <2>1. Generating("return")
    BY <1>1
  <2>2. QED
    BY <2>1, Start, Operands
<1>3. /\ IsMachine(m1) /\ m1.r[y] = Val(1) /\ y \in Regs
      /\ m1.lo = machine.lo /\ m1.hi = machine.hi
  <2>1. Loaded(m1, machine, Use(1), Scratch1)
    BY <1>2, FirstScratch
  <2> HIDE DEF m1
  <2>2. QED
    BY <2>1 DEF Loaded, But, Val
<1> HIDE DEF m1, y
<1>4. IsMachine(m2) /\ m2.r[R0] = Val(1) /\ m2.lo = machine.lo /\ m2.hi = machine.hi
  <2>1. PICK x : x = R0
    OBVIOUS
  <2>2. x \in Regs
    BY <2>1, Registers
  <2>3. But(MovReg(m1, x, y), m1, {x}) /\ MovReg(m1, x, y).r[x] = m1.r[y]
    BY <1>3, <2>2, MovRegDoes
  <2>4. m2 = MovReg(m1, x, y)
    BY <2>1
  <2> HIDE DEF m2
  <2>5. QED
    BY <1>3, <2>1, <2>3, <2>4 DEF But
<1> HIDE DEF m2
<1>5. m3 = Affect(m2, "return", on)
  BY <1>4
<1> HIDE DEF m3, on
<1>6. /\ IsMachine(m3) /\ m3.lo = machine.lo /\ m3.hi = machine.hi
      /\ m3.override = Junk /\ m3.effect = [what |-> "return", on |-> on]
  BY <1>4, <1>5 DEF Affect, IsMachine, Fields
<1>7. /\ machine' = m3 /\ value' = value /\ meant' = [what |-> "return", on |-> on]
      /\ wide' = wide /\ Advance
  BY <1>1 DEF Does
<1>8. UNCHANGED <<vars, code, stage>> /\ ip' = ip + 1
  BY <1>7 DEF Advance
<1>9. LiveAfter = {}
  BY <1>2, NothingLivesOn
<1>10. value' = [v \in VReg |-> value'[v]]
  BY <1>7 DEF CInv, MachineOK
<1>11. EffectsAsMeant'
  BY <1>6, <1>7 DEF EffectsAsMeant
<1>12. WideSymbolAsMeant'
  BY <1>6, <1>7, <1>8, <1>2 DEF WideSymbolAsMeant, Ready, CInv
<1>13. LeftBehind'
  BY <1>2, <1>8 DEF LeftBehind, Inst
<1>14. QED
  BY <1>2, <1>6, <1>7, <1>9, <1>10, <1>11, <1>12, <1>13, StepDone

-----------------------------------------------------------------------------
(* The fold over the arguments of a call. Folds describes what its         *)
(* recursive function g makes of the sets of positions of q.               *)
Folds(m, q, g) ==
    g = [s \in SUBSET (DOMAIN q) |->
            IF s = {} THEN m ELSE Argument(g[s \ {Max(s)}], q[Max(s)])]

(* The positions of n arguments; Argument is applied to them in order.     *)
Row(n) == [k \in 1 .. n |-> k]

LEMMA MaxOfRow ==
    ASSUME NEW n \in Nat, NEW s \in SUBSET (1 .. n), s # {}
    PROVE  Max(s) \in s /\ \A y \in s : y <= Max(s)
<1> DEFINE T == { n - x : x \in s }
<1>1. T \in SUBSET Nat /\ T # {}
  OBVIOUS
<1>2. PICK p \in T : \A q \in T : p <= q
  BY <1>1, LeastElement
<1>3. PICK x \in s : p = n - x
  OBVIOUS
<1>4. ASSUME NEW y \in s PROVE x >= y
  <2>1. n - y \in T /\ x \in 1 .. n /\ y \in 1 .. n
    OBVIOUS
  <2>2. p <= n - y
    BY <1>2, <2>1
  <2> HIDE DEF T
  <2>3. QED
    BY <1>3, <2>1, <2>2
<1>5. Max(s) \in s /\ \A y \in s : Max(s) >= y
  BY <1>3, <1>4 DEF Max
<1>6. QED
  BY <1>5

LEMMA FoldsExist ==
    ASSUME NEW m
    PROVE  \A n \in Nat : \E g : Folds(m, Row(n), g)
<1> DEFINE G == { n \in Nat : \E g : Folds(m, Row(n), g) }
<1>1. \A n : DOMAIN Row(n) = 1 .. n
  BY DEF Row
<1>2. 0 \in G
  <2> DEFINE z == [s \in SUBSET (DOMAIN Row(0)) |-> m]
  <2>1. \A s \in SUBSET (DOMAIN Row(0)) : s = {}
    BY <1>1
  <2>2. Folds(m, Row(0), z)
    BY <2>1 DEF Folds
  <2>3. QED
    BY <2>2
<1>3. ASSUME NEW n \in Nat, n \in G PROVE n + 1 \in G
  <2>1. PICK h : Folds(m, Row(n), h)
    BY <1>3
  <2> DEFINE g == [s \in SUBSET (1 .. n + 1) |->
                      IF s = {} THEN m ELSE Argument(h[s \ {Max(s)}], Row(n + 1)[Max(s)])]
  <2>2. \A t \in SUBSET (1 .. n) : h[t] = IF t = {} THEN m ELSE Argument(h[t \ {Max(t)}], Row(n)[Max(t)])
    BY <1>1, <2>1 DEF Folds
  <2>3. \A t \in SUBSET (1 .. n) : t \in SUBSET (1 .. n + 1)
    OBVIOUS
  <2>4. ASSUME NEW t \in SUBSET (1 .. n), t # {}
        PROVE  Row(n)[Max(t)] = Row(n + 1)[Max(t)]
    <3>1. PICK x \in t : x = Max(t)
      BY <2>4, MaxOfRow
    <3>2. x \in 1 .. n /\ x \in 1 .. n + 1
      OBVIOUS
    <3>3. QED
      BY <3>1, <3>2 DEF Row
  <2>5. \A t \in SUBSET (1 .. n) : h[t] = g[t]
    BY <2>2, <2>3, <2>4
  <2>6. ASSUME NEW s \in SUBSET (1 .. n + 1), s # {}
        PROVE  s \ {Max(s)} \in SUBSET (1 .. n)
    <3>1. Max(s) \in s /\ \A y \in s : y <= Max(s)
      BY <2>6, MaxOfRow, n + 1 \in Nat
    <3>2. PICK x \in s : x = Max(s) /\ \A y \in s : y <= x
      BY <3>1
    <3>3. ASSUME NEW y \in s \ {x} PROVE y \in 1 .. n
      <4>1. y \in 1 .. n + 1 /\ x \in 1 .. n + 1 /\ y <= x /\ y # x
        BY <3>2
      <4>2. QED
        BY <4>1
    <3>4. QED
      BY <3>2, <3>3
  <2>7. \A s \in SUBSET (1 .. n + 1) : s # {} => h[s \ {Max(s)}] = g[s \ {Max(s)}]
    BY <2>5, <2>6
  <2>8. Folds(m, Row(n + 1), g)
    BY <1>1, <2>7, Zenon DEF Folds
  <2>9. QED
    BY <2>8
<1>4. \A n \in Nat : n \in G
  <2> HIDE DEF G
  <2> QED BY <1>2, <1>3, Induction
<1>5. QED
  BY <1>4

(* Marshalled goes through the arguments one by one.                       *)
LEMMA MarshalledStep ==
    ASSUME NEW m, NEW n \in Nat
    PROVE  \E h : /\ h[0] = m /\ h[n] = Marshalled(m, n)
                 /\ \A k \in 0 .. n - 1 : h[k + 1] = Argument(h[k], k + 1)
<1> DEFINE iter == CHOOSE g : g = [s \in SUBSET (DOMAIN Row(n)) |->
                       IF s = {} THEN m ELSE Argument(g[s \ {Max(s)}], Row(n)[Max(s)])]
           h == [k \in 0 .. n |-> iter[1 .. k]]
<1>1. Marshalled(m, n) = iter[DOMAIN Row(n)]
  BY DEF Marshalled, FoldLeft, MapThenFoldSet, Row
<1>2. Folds(m, Row(n), iter)
  <2>1. \E g : Folds(m, Row(n), g)
    BY FoldsExist
  <2>2. QED
    BY <2>1, Zenon DEF Folds
<1>3. DOMAIN Row(n) = 1 .. n
  BY DEF Row
<1> HIDE DEF iter
<1>4. \A s \in SUBSET (1 .. n) :
          iter[s] = IF s = {} THEN m ELSE Argument(iter[s \ {Max(s)}], Row(n)[Max(s)])
  BY <1>2, <1>3 DEF Folds
<1>5. h[0] = m
  <2>1. 1 .. 0 = {}
    OBVIOUS
  <2>2. iter[1 .. 0] = m
    BY <1>4, <2>1
  <2>3. QED
    BY <2>2
<1>6. ASSUME NEW k \in 0 .. n - 1 PROVE h[k + 1] = Argument(h[k], k + 1)
  <2> DEFINE s == 1 .. k + 1
  <2>1. s \in SUBSET (1 .. n) /\ s # {} /\ k + 1 \in s
    OBVIOUS
  <2>2. Max(s) \in s /\ \A y \in s : y <= Max(s)
    <3> HIDE DEF s
    <3> QED BY <2>1, MaxOfRow
  <2>3. Max(s) = k + 1
    BY <2>1, <2>2
  <2>4. s \ {k + 1} = 1 .. k /\ Row(n)[k + 1] = k + 1
    BY DEF Row
  <2>5. iter[s] = Argument(iter[s \ {Max(s)}], Row(n)[Max(s)])
    <3> HIDE DEF s
    <3> QED BY <1>4, <2>1
  <2>6. h[k + 1] = iter[s] /\ h[k] = iter[1 .. k]
    OBVIOUS
  <2>7. QED
    BY <2>3, <2>4, <2>5, <2>6
<1>7. h[n] = Marshalled(m, n)
  BY <1>1, <1>3
<1> HIDE DEF h
<1>8. QED
  BY <1>5, <1>6, <1>7

(* The first k arguments are in their registers; the slots, and the        *)
(* registers beside those and the first scratch register, are as before.   *)
Passed(m, k) ==
    /\ IsMachine(m)
    /\ m.slot = machine.slot /\ m.lo = machine.lo /\ m.hi = machine.hi
    /\ m.override = Junk
    /\ \A x \in Regs : (x # Scratch1 /\ \A j \in 1 .. k : x # ArgRegs[j]) => m.r[x] = machine.r[x]
    /\ \A j \in 1 .. k : m.r[ArgRegs[j]] = Val(j)

(* An operand is loaded into the first scratch register, if it has to be,  *)
(* from a machine where its register has not been overwritten.             *)
LEMMA LoadAmidCall ==
    ASSUME NEW m, IsMachine(m), m.slot = machine.slot, NEW v, Operand(v),
           ~spilled[v] => m.r[reg[v]] = machine.r[reg[v]]
    PROVE  LET n == LoadOperand(m, v, Scratch1)
           IN  /\ But(n, m, {Scratch1}) /\ n.r[At(v, Scratch1)] = value[v]
               /\ At(v, Scratch1) \in Regs
               /\ (m.override = Junk => n.override = Junk)
<1> DEFINE n == LoadOperand(m, v, Scratch1)
<1>1. CASE spilled[v]
  <2>1. n = Mov(m, Scratch1, m.slot[v]) /\ At(v, Scratch1) = Scratch1
    BY <1>1 DEF LoadOperand, At
  <2>2. m.slot[v] = value[v]
    BY <1>1 DEF Operand, Home
  <2>3. PICK s : s = Scratch1
    OBVIOUS
  <2>4. s \in Regs
    BY <2>3, Registers
  <2>5. LET k == Mov(m, s, m.slot[v])
        IN  But(k, m, {s}) /\ k.r[s] = m.slot[v] /\ k.override = Junk
    BY <2>4, MovDoes
  <2> HIDE DEF n
  <2>6. QED
    BY <2>1, <2>2, <2>3, <2>4, <2>5 DEF n
<1>2. CASE ~spilled[v]
  <2>1. n = m /\ At(v, Scratch1) = reg[v]
    BY <1>2 DEF LoadOperand, At
  <2>2. reg[v] \in Regs /\ m.r[reg[v]] = value[v]
    BY <1>2, Registers DEF Operand, Home
  <2>3. QED
    BY <2>1, <2>2 DEF But
<1>3. QED
  BY <1>1, <1>2

(* One more argument. Its register may be in the pool only if it is the    *)
(* last one, so what is passed later has not been overwritten.             *)
LEMMA ArgumentPasses ==
    ASSUME NEW n \in Nat, n <= Len(ArgRegs), \A k \in 1 .. n : Operand(Use(k)),
           NEW k \in 0 .. n - 1, NEW m, Passed(m, k)
    PROVE  Passed(Argument(m, k + 1), k + 1)
<1>1. Len(ArgRegs) \in Nat
  BY RegistersAssumption
<1>2. PICK i, j, a : i = k + 1 /\ j = k /\ a = ArgRegs[i]
  OBVIOUS
<1>3. i \in 1 .. n /\ i \in 1 .. Len(ArgRegs) /\ (1 .. i) = (1 .. k) \cup {i}
  BY <1>1, <1>2
<1> DEFINE v == Use(i)
           y == At(v, Scratch1)
           m1 == LoadOperand(m, v, Scratch1)
           m2 == MovReg(m1, a, y)
<1>4. Operand(v)
  BY <1>3
<1>5. a \in Regs /\ a # Scratch1 /\ \A h \in 1 .. k : ArgRegs[h] # a /\ ArgRegs[h] # Scratch1
          /\ ArgRegs[h] \in Regs
  <2>1. \A h \in 1 .. k : h \in 1 .. Len(ArgRegs) /\ h # i
    BY <1>1, <1>2
  <2>2. QED
    BY <1>2, <1>3, <2>1, Registers
<1>6. ~spilled[v] => m.r[reg[v]] = machine.r[reg[v]]
  <2>1. \A h \in 1 .. k : ArgRegs[h] \notin PoolRegs
    <3>1. \A h \in 1 .. k : h \in 1 .. Len(ArgRegs) /\ h < Len(ArgRegs)
      BY <1>1
    <3>2. QED
      BY <3>1, Registers
  <2>2. ~spilled[v] => reg[v] \in PoolRegs
    BY <1>4 DEF Operand
  <2>3. QED
    BY <2>1, <2>2, Registers DEF Passed
<1>7. /\ But(m1, m, {Scratch1}) /\ m1.r[y] = value[v] /\ y \in Regs /\ m1.override = Junk
  BY ZenonT(30), <1>4, <1>6, LoadAmidCall DEF Passed
<1>8. m2 = Argument(m, k + 1)
  BY <1>2 DEF Argument
<1>9. value[v] = Val(i)
  BY DEF Val
<1> HIDE DEF m1, y, v
<1>10. But(m2, m1, {a}) /\ m2.r[a] = m1.r[y] /\ m2.override = Junk
  BY <1>5, <1>7, MovRegDoes DEF But
<1> HIDE DEF m2
<1>11. Passed(m2, i)
  <2>1. IsMachine(m2) /\ m2.slot = machine.slot /\ m2.lo = machine.lo /\ m2.hi = machine.hi
    BY <1>7, <1>10 DEF Passed, But
  <2>2. ASSUME NEW x \in Regs, x # Scratch1, \A h \in 1 .. i : x # ArgRegs[h]
        PROVE  m2.r[x] = machine.r[x]
    <3>1. m.r[x] = machine.r[x] /\ x # a
      BY <1>2, <1>3, <2>2 DEF Passed
    <3>2. QED
      BY <1>7, <1>10, <2>2, <3>1 DEF But
  <2>3. m2.r[ArgRegs[i]] = Val(i)
    BY <1>2, <1>7, <1>9, <1>10
  <2>4. ASSUME NEW h \in 1 .. k PROVE m2.r[ArgRegs[h]] = Val(h)
    BY <1>5, <1>7, <1>10 DEF Passed, But
  <2>5. \A h \in 1 .. i : m2.r[ArgRegs[h]] = Val(h)
    BY <1>3, <2>3, <2>4
  <2>6. QED
    BY <1>10, <2>1, <2>2, <2>5 DEF Passed
<1>12. QED
  BY <1>2, <1>8, <1>11

LEMMA MarshalledPasses ==
    ASSUME Ready, NEW n \in Nat, n <= Len(ArgRegs), \A k \in 1 .. n : Operand(Use(k))
    PROVE  Passed(Marshalled(machine, n), n)
<1>1. PICK h :
          /\ h[0] = machine /\ h[n] = Marshalled(machine, n)
          /\ \A k \in 0 .. n - 1 : h[k + 1] = Argument(h[k], k + 1)
  BY MarshalledStep
<1> DEFINE G == { k \in Nat : k <= n => Passed(h[k], k) }
<1>2. 0 \in G
  <2>1. IsMachine(machine) /\ machine.override = Junk
    BY ReadyFacts
  <2>2. Passed(machine, 0)
    BY <2>1 DEF Passed
  <2>3. QED
    BY <1>1, <2>2
<1>3. ASSUME NEW k \in Nat, k \in G PROVE k + 1 \in G
  <2> SUFFICES ASSUME k + 1 <= n PROVE Passed(h[k + 1], k + 1)
    OBVIOUS
  <2>1. k \in 0 .. n - 1 /\ Passed(h[k], k)
    BY <1>3
  <2>2. Passed(Argument(h[k], k + 1), k + 1)
    BY <2>1, ArgumentPasses
  <2>3. QED
    BY <1>1, <2>1, <2>2
<1>4. \A k \in Nat : k \in G
  <2> HIDE DEF G
  <2> QED BY <1>2, <1>3, Induction
<1>5. QED
  BY <1>1, <1>4

(* The first element of a sequence replaced.                               *)
LEMMA HeadReplaced ==
    ASSUME NEW n \in Nat, NEW q, q = [k \in 1 .. n |-> q[k]], NEW a, NEW b
    PROVE  /\ [<<a>> \o q EXCEPT ![1] = b] = <<b>> \o q
           /\ n > 0 => Last(<<a>> \o q) = q[n]
<1> DEFINE S == { q[k] : k \in 1 .. n } \cup {a, b}
<1>1. q \in Seq(S) /\ Len(q) = n
  OBVIOUS
<1>2. <<a>> \in Seq(S) /\ <<b>> \in Seq(S) /\ Len(<<a>>) = 1 /\ Len(<<b>>) = 1
  OBVIOUS
<1> DEFINE A == <<a>> \o q
           B == <<b>> \o q
<1> HIDE DEF S
<1>3. A \in Seq(S) /\ Len(A) = n + 1 /\ B \in Seq(S) /\ Len(B) = n + 1
  BY <1>1, <1>2
<1>4. \A k \in 1 .. n + 1 : A[k] = (IF k <= 1 THEN a ELSE q[k - 1]) /\ B[k] = (IF k <= 1 THEN b ELSE q[k - 1])
  BY <1>1, <1>2
<1> HIDE DEF A, B
<1>5. [A EXCEPT ![1] = b] = B
  <2>1. A = [k \in 1 .. n + 1 |-> A[k]] /\ B = [k \in 1 .. n + 1 |-> B[k]]
    BY <1>3
  <2>2. \A k \in 1 .. n + 1 : B[k] = IF k = 1 THEN b ELSE A[k]
    BY <1>4
  <2>3. [A EXCEPT ![1] = b] = [k \in 1 .. n + 1 |-> IF k = 1 THEN b ELSE A[k]]
    BY <2>1
  <2>4. QED
    BY <2>1, <2>2, <2>3
<1>6. ASSUME n > 0 PROVE Last(A) = q[n]
  <2>1. PICK k \in 1 .. n + 1 : k = n + 1
    OBVIOUS
  <2>2. Last(A) = A[k]
    BY <1>3, <2>1 DEF Last
  <2>3. k - 1 = n /\ ~(k <= 1)
    BY <1>6, <2>1
  <2>4. A[k] = q[k - 1]
    BY <1>4, <2>3, Zenon
  <2>5. QED
    BY <2>2, <2>3, <2>4
<1>7. QED
  BY <1>5, <1>6 DEF A, B

(* What the call finds in the machine: the arguments in their registers,   *)
(* and behind them the target.                                             *)
LEMMA CallFinds ==
    ASSUME Ready, Inst.kind = "call",
           \A k \in 1 .. Len(Inst.use) : Operand(Use(k)),
           Inst.target # None => Operand(Inst.target)
    PROVE  LET n == Len(Inst.use)
               m1 == Marshalled(machine, n)
               m2 == IF Inst.target = None THEN m1 ELSE LoadOperand(m1, Inst.target, Scratch1)
               fn == IF Inst.target = None THEN Direct ELSE m2.r[At(Inst.target, Scratch1)]
           IN  /\ n \in Nat /\ n <= Len(ArgRegs)
               /\ IsMachine(m2) /\ m2.slot = machine.slot
               /\ m2.lo = machine.lo /\ m2.hi = machine.hi /\ m2.override = Junk
               /\ \A k \in 1 .. n : m2.r[ArgRegs[k]] = Val(k)
               /\ Inst.target # None =>
                    fn = IF n = Len(ArgRegs) /\ ~spilled[Inst.target]
                              /\ reg[Inst.target] = Last(ArgRegs)
                         THEN Val(n) ELSE value[Inst.target]
<1> DEFINE n == Len(Inst.use)
           m1 == Marshalled(machine, n)
           v == Inst.target
           m2 == IF v = None THEN m1 ELSE LoadOperand(m1, v, Scratch1)
<1>1. n \in Nat /\ n <= Len(ArgRegs) /\ Len(ArgRegs) \in Nat /\ Len(ArgRegs) > 0
  BY ReadyFacts, RegistersAssumption, ArgumentsAssumption DEF WellFormed, Instruction
<1>2. \A k \in 1 .. n : Operand(Use(k))
  OBVIOUS
<1>3. v # None => Operand(v)
  OBVIOUS
<1> HIDE DEF n
<1>4. Passed(m1, n)
  BY <1>1, <1>2, MarshalledPasses
<1> HIDE DEF m1
<1>5. \A k \in 1 .. n : ArgRegs[k] \in Regs /\ ArgRegs[k] # Scratch1
  BY <1>1, Registers
<1>6. CASE v = None
  BY <1>1, <1>4, <1>6 DEF Passed, m1, n
<1>7. CASE v # None
  <2>1. Operand(v)
    BY <1>3, <1>7
  <2> DEFINE last1 == Last(ArgRegs)
             lost == n = Len(ArgRegs) /\ ~spilled[v] /\ reg[v] = last1
             l == LoadOperand(m1, v, Scratch1)
  <2>2. last1 = ArgRegs[Len(ArgRegs)]
    BY DEF Last
  <2>3. ASSUME ~spilled[v], ~lost PROVE m1.r[reg[v]] = machine.r[reg[v]]
    <3>1. reg[v] \in PoolRegs /\ reg[v] \in Regs /\ reg[v] # Scratch1
      BY <2>1, <2>3, Registers DEF Operand
    <3>2. \A j \in 1 .. n : reg[v] # ArgRegs[j]
      BY <1>1, <2>2, <2>3, <3>1, Registers
    <3>3. QED
      BY <1>4, <3>1, <3>2 DEF Passed
  <2>4. /\ IsMachine(l) /\ l.slot = machine.slot
        /\ l.lo = machine.lo /\ l.hi = machine.hi /\ l.override = Junk
        /\ \A k \in 1 .. n : l.r[ArgRegs[k]] = Val(k)
        /\ l.r[At(v, Scratch1)] = IF lost THEN Val(n) ELSE value[v]
    <3>1. CASE lost
      <4>1. l = m1 /\ At(v, Scratch1) = ArgRegs[n]
        BY <2>2, <3>1 DEF LoadOperand, At
      <4>2. n \in 1 .. n
        BY <1>1, <3>1
      <4>3. QED
        BY <1>4, <3>1, <4>1, <4>2 DEF Passed
    <3>2. CASE ~lost
      <4>1. IsMachine(m1) /\ m1.slot = machine.slot /\ m1.override = Junk
        BY <1>4 DEF Passed
      <4>2. ~spilled[v] => m1.r[reg[v]] = machine.r[reg[v]]
        BY <2>3, <3>2
      <4>3. But(l, m1, {Scratch1}) /\ l.r[At(v, Scratch1)] = value[v] /\ l.override = Junk
        BY <2>1, <4>1, <4>2, LoadAmidCall
      <4> HIDE DEF l, lost
      <4>4. QED
        BY <1>4, <1>5, <3>2, <4>3 DEF Passed, But
    <3>3. QED
      BY <3>1, <3>2
  <2>5. m2 = l
    BY <1>7
  <2> HIDE DEF l, m2
  <2>6. QED
    BY <1>1, <1>7, <2>4, <2>5 DEF l, m1, n
<1>8. QED
  BY <1>6, <1>7

(* Behind the call only the frame is what it was.                          *)
LEMMA ReturnedDoes ==
    ASSUME NEW m, IsMachine(m), NEW what, NEW on
    PROVE  LET n == Returned(Affect(m, what, on))
           IN  /\ IsMachine(n) /\ n.slot = m.slot /\ n.lo = m.lo /\ n.hi = m.hi
               /\ n.override = Junk /\ n.effect = [what |-> what, on |-> on]
<1>1. LET n == Affect(m, what, on)
      IN  /\ IsMachine(n) /\ n.slot = m.slot /\ n.lo = m.lo /\ n.hi = m.hi
          /\ n.override = Junk /\ n.effect = [what |-> what, on |-> on]
  BY DEF Affect, IsMachine, Fields
<1> DEFINE a == Affect(m, what, on)
<1> HIDE DEF a
<1>2. LET n == Returned(a)
      IN  /\ IsMachine(n) /\ n.slot = a.slot /\ n.lo = a.lo /\ n.hi = a.hi
          /\ n.override = a.override /\ n.effect = a.effect
  BY <1>1 DEF a, Returned, IsMachine, Fields
<1>3. QED
  BY <1>1, <1>2 DEF a

(* The result of the call goes from R0 to its home.                        *)
LEMMA ResultDoes ==
    ASSUME Ready, Inst.dst # None, NEW m, IsMachine(m), m.override = Junk
    PROVE  LET n == FinishDst(MovReg(m, Dst, R0), Inst.dst)
           IN  /\ IsMachine(n) /\ n.lo = m.lo /\ n.hi = m.hi
               /\ n.override = Junk /\ n.effect = m.effect
               /\ \A v \in VReg : v # Inst.dst => n.slot[v] = m.slot[v]
               /\ (IF spilled[Inst.dst] THEN n.slot[Inst.dst] ELSE n.r[reg[Inst.dst]]) = m.r[R0]
<1> DEFINE d == Inst.dst
           k == MovReg(m, Dst, R0)
           n == FinishDst(k, d)
<1>1. PICK y : y = R0
  OBVIOUS
<1>2. y \in Regs /\ Dst \in Regs /\ d \in VReg
  BY <1>1, DstIsNew, Registers
<1>3. /\ But(k, m, {Dst}) /\ k.r[Dst] = m.r[R0] /\ k.override = Junk /\ k.effect = m.effect
  <2>1. LET l == MovReg(m, Dst, y)
        IN  But(l, m, {Dst}) /\ l.r[Dst] = m.r[y] /\ l.override = Junk /\ l.effect = m.effect
    BY <1>2, MovRegDoes
  <2>2. QED
    BY <1>1, <2>1
<1> HIDE DEF k
<1>4. /\ IsMachine(n) /\ n.r = k.r /\ n.lo = k.lo /\ n.hi = k.hi
      /\ n.override = Junk /\ n.effect = k.effect
      /\ \A v \in VReg : v # d => n.slot[v] = k.slot[v]
      /\ spilled[d] => n.slot[d] = k.r[Scratch1]
  BY <1>2, <1>3 DEF FinishDst, But, IsMachine, Fields
<1>5. IF spilled[d] THEN Dst = Scratch1 ELSE Dst = reg[d]
  BY DstIsNew
<1> HIDE DEF n
<1>6. QED
  BY <1>3, <1>4, <1>5 DEF n, k, But

LEMMA GenCallCInv == CInv /\ GenCall => CInv'
<1> SUFFICES ASSUME CInv, GenCall PROVE CInv'
  OBVIOUS
<1> DEFINE n == Len(Inst.use)
           v == Inst.target
           d == Inst.dst
           m1 == Marshalled(machine, n)
           m2 == IF v = None THEN m1 ELSE LoadOperand(m1, v, Scratch1)
           fn == IF v = None THEN Direct ELSE m2.r[At(v, Scratch1)]
           on == <<fn>> \o [k \in 1 .. n |-> m2.r[ArgRegs[k]]]
           m3 == Returned(Affect(m2, "call", on))
           m4 == FinishDst(MovReg(m3, Dst, R0), d)
           vals == [k \in 1 .. n |-> Val(k)]
           to == IF v = None THEN Direct ELSE value[v]
           args == <<to>> \o vals
<1>1. Generating("call")
  BY DEF GenCall
<1>2. /\ machine' = IF d = None THEN m3 ELSE m4
      /\ value' = IF d = None THEN value ELSE [value EXCEPT ![d] = m3.r[R0]]
      /\ meant' = [what |-> "call", on |-> args]
      /\ Advance /\ wide' = wide
  <2>1. args = (IF v = None THEN <<Direct>> ELSE <<value[v]>>) \o vals
    OBVIOUS
  <2>2. QED
    BY <2>1 DEF GenCall
<1>3. /\ Ready /\ Inst.kind = "call"
      /\ \A k \in 1 .. n : Operand(Use(k))
      /\ v # None => Operand(v)
  BY <1>1, Start
<1>4. UNCHANGED <<vars, code, stage>> /\ ip' = ip + 1 /\ spilled' = spilled /\ reg' = reg
  BY <1>2 DEF Advance, vars, allocVars
<1> DEFINE lost == n = Len(ArgRegs) /\ ~spilled[v] /\ reg[v] = Last(ArgRegs)
<1>5. /\ n \in Nat /\ n <= Len(ArgRegs)
      /\ IsMachine(m2) /\ m2.slot = machine.slot
      /\ m2.lo = machine.lo /\ m2.hi = machine.hi
      /\ \A k \in 1 .. n : m2.r[ArgRegs[k]] = Val(k)
      /\ v # None => fn = IF lost THEN Val(n) ELSE value[v]
  BY <1>3, CallFinds
<1>6. fn = IF v # None /\ lost THEN Val(n) ELSE to
  BY <1>5
<1>7. on = <<fn>> \o vals
  <2> HIDE DEF m2, fn
  <2> QED BY <1>5
<1>8. PICK what : what = "call"
  OBVIOUS
<1> HIDE DEF m2, fn, on, to
<1>9. /\ IsMachine(m3) /\ m3.slot = machine.slot
      /\ m3.lo = machine.lo /\ m3.hi = machine.hi
      /\ m3.override = Junk /\ m3.effect = [what |-> what, on |-> on]
  <2>1. m3 = Returned(Affect(m2, what, on))
    BY <1>8
  <2> HIDE DEF m3
  <2>2. QED
    BY <1>5, <2>1, ReturnedDoes
<1> HIDE DEF m3
<1>10. d # None =>
         /\ IsMachine(m4) /\ m4.lo = m3.lo /\ m4.hi = m3.hi
         /\ m4.override = Junk /\ m4.effect = m3.effect
         /\ \A w \in VReg : w # d => m4.slot[w] = m3.slot[w]
         /\ (IF spilled[d] THEN m4.slot[d] ELSE m4.r[reg[d]]) = m3.r[R0]
  BY <1>3, <1>9, ResultDoes
<1> HIDE DEF m4
<1>11. /\ IsMachine(machine') /\ machine'.lo = machine.lo /\ machine'.hi = machine.hi
       /\ machine'.override = Junk /\ machine'.effect = [what |-> what, on |-> on]
       /\ \A w \in VReg : w # d => machine'.slot[w] = machine.slot[w]
  BY <1>2, <1>9, <1>10
<1>12. value = [w \in VReg |-> value[w]] /\ (d # None => d \in VReg)
  BY <1>3, DstIsNew DEF Ready, CInv, MachineOK
<1>13. /\ value' = [w \in VReg |-> value'[w]]
       /\ \A w \in VReg : w # d => value'[w] = value[w]
       /\ d # None => value'[d] = m3.r[R0]
  BY <1>2, <1>12
<1>14. ASSUME NEW w \in LiveAfter PROVE Home(w)' = value'[w]
  <2>1. w \in VReg /\ w # None
    BY NVRegsAssumption DEF LiveAfter, VReg, None
  <2>2. CASE w = d
    <3>1. Home(w)' = IF spilled[d] THEN m4.slot[d] ELSE m4.r[reg[d]]
      BY <1>2, <1>4, <2>1, <2>2 DEF Home
    <3>2. QED
      BY <1>10, <1>13, <2>1, <2>2, <3>1
  <2>3. CASE w # d
    <3>1. Operand(w) /\ spilled[w]
      BY <1>3, <2>3, Survivors
    <3>2. Home(w)' = machine.slot[w] /\ Home(w) = machine.slot[w]
      BY <1>4, <1>11, <2>1, <2>3, <3>1 DEF Home
    <3>3. QED
      BY <1>13, <2>1, <2>3, <3>1, <3>2 DEF Operand
  <2>4. QED
    BY <2>2, <2>3
<1>15. EffectsAsMeant'
  <2>1. code'[ip'] = Inst
    BY <1>4 DEF Inst
  <2>2. TargetOverwritten' <=> v # None /\ lost
    BY <1>3, <1>4, <2>1 DEF TargetOverwritten
  <2>3. meant'.what = "call" /\ meant'.on = args
    BY <1>2
  <2>4. CASE ~(v # None /\ lost)
    <3>1. machine'.effect = meant'
      BY <1>2, <1>6, <1>7, <1>8, <1>11, <2>4
    <3>2. QED
      BY <2>2, <2>3, <2>4, <3>1 DEF EffectsAsMeant
  <2>5. CASE v # None /\ lost
    <3>1. vals = [k \in 1 .. n |-> vals[k]] /\ n > 0 /\ vals[n] = Val(n)
      BY <1>5, <2>5, ArgumentsAssumption
    <3> HIDE DEF vals
    <3>2. [<<to>> \o vals EXCEPT ![1] = fn] = <<fn>> \o vals /\ Last(<<to>> \o vals) = vals[n]
      <4>1. PICK c \in Nat : c = n
        BY <1>5
      <4>2. PICK q, a, b : q = vals /\ a = to /\ b = fn
        OBVIOUS
      <4>3. c > 0 /\ q = [k \in 1 .. c |-> q[k]]
        BY <3>1, <4>1, <4>2
      <4>4. [<<a>> \o q EXCEPT ![1] = b] = <<b>> \o q /\ Last(<<a>> \o q) = q[c]
        BY <4>3, HeadReplaced
      <4>5. QED
        BY <4>1, <4>2, <4>4
    <3>3. Last(meant'.on) = fn
      BY <1>6, <2>3, <2>5, <3>1, <3>2
    <3>4. \A s, f : [[what |-> "call", on |-> s] EXCEPT !.on[1] = f]
                      = [what |-> "call", on |-> [s EXCEPT ![1] = f]]
      OBVIOUS
    <3>5. [args EXCEPT ![1] = fn] = on
      BY <1>7, <3>2
    <3> HIDE DEF args
    <3>6. [meant' EXCEPT !.on[1] = Last(meant'.on)] = [[what |-> "call", on |-> args] EXCEPT !.on[1] = fn]
      <4>1. PICK e, f : e = [what |-> "call", on |-> args] /\ f = fn
        OBVIOUS
      <4>2. meant' = e /\ Last(meant'.on) = f
        BY <1>2, <3>3, <4>1
      <4>3. [meant' EXCEPT !.on[1] = Last(meant'.on)] = [e EXCEPT !.on[1] = f]
        BY <4>2, Zenon
      <4>4. QED
        BY <4>1, <4>3, Zenon
    <3>7. machine'.effect = [meant' EXCEPT !.on[1] = Last(meant'.on)]
      BY <1>8, <1>11, <3>4, <3>5, <3>6
    <3>8. QED
      BY <2>2, <2>3, <2>5, <3>7 DEF EffectsAsMeant
  <2>6. QED
    BY <2>4, <2>5
<1>16. WideSymbolAsMeant'
  BY <1>2, <1>3, <1>4, <1>11 DEF WideSymbolAsMeant, Ready, CInv
<1>17. LeftBehind'
  BY <1>3, <1>4 DEF LeftBehind, Inst
<1>18. QED
  BY <1>2, <1>3, <1>11, <1>13, <1>14, <1>15, <1>16, <1>17, StepDone

-----------------------------------------------------------------------------
LEMMA NextCInv == CInv /\ [CodegenNext]_cgAllVars => CInv'
<1> SUFFICES ASSUME CInv, [CodegenNext]_cgAllVars PROVE CInv'
  OBVIOUS
<1>1. CASE EmitPlain \/ EmitCall
  BY <1>1, EmitPlainEmits, EmitCallEmits, EmitCInv DEF Emits
<1>2. CASE Allocate
  BY <1>2, AllocateCInv
<1>3. CASE Prologue
  BY <1>3, PrologueCInv
<1>4. CASE Gen
  BY <1>4, GenConstantCInv, GenLoadSymCInv, GenStoreSymCInv, GenMultiplyStoreCInv,
     GenComposeCInv, GenShift32CInv, GenDivideSymCInv, GenDivideProductCInv, GenDivide32CInv,
     GenBinaryCInv, GenWithCarryCInv, GenMultiplyCInv, GenProductHighCInv, GenDivideCInv,
     GenUnaryCInv, GenCompareCInv, GenCmp32CInv, GenLoadMemCInv, GenStoreMemCInv,
     GenFarReadCInv, GenFarWriteCInv, GiveUpCInv, GenCallCInv, GenBranchCInv, GenReturnCInv
     DEF Gen
<1>5. CASE UNCHANGED cgAllVars
  <2>1. UNCHANGED vars /\ UNCHANGED cgVars
    BY <1>5 DEF cgAllVars
  <2>2. IInv'
    BY <2>1, NextIInv DEF CInv
  <2>3. UNCHANGED <<code, ip, stage, machine, value, wide, meant>>
        /\ UNCHANGED <<pc, first, last, calls, ninsts, reg, spilled>>
    BY <2>1 DEF cgVars, vars, scanVars, allocVars
  <2>4. CodeOK' /\ StageOK' /\ MachineOK' /\ LeftBehind'
    BY <2>3 DEF CInv, CodeOK, CodeScanned, Pairs, Numbered, Defined, StageOK, MachineOK,
                IsMachine, Fields, LeftBehind, Run
  <2>5. HomesHold' /\ EffectsAsMeant' /\ WideSymbolAsMeant'
    BY <2>3 DEF CInv, HomesHold, Live, Home, EffectsAsMeant, TargetOverwritten,
                WideSymbolAsMeant, Run
  <2>6. QED
    BY <2>2, <2>4, <2>5 DEF CInv
<1>6. QED
  BY <1>1, <1>2, <1>3, <1>4, <1>5 DEF CodegenNext

(* The strengthened invariant holds of every function that is compiled.    *)
THEOREM GeneratorInvariant == CodegenSpec => []CInv
BY InitCInv, NextCInv, PTL DEF CodegenSpec

(* Whatever the function, the pool and the argument registers: when an     *)
(* instruction is generated, each virtual register that is still to be     *)
(* read is in the home the allocator gave it, and no EXTP or EXTS reaches  *)
(* over (codegen.c, lines 291-1026).                                       *)
THEOREM ValuesStayHome == CodegenSpec => []HomesHold
<1>1. CInv => HomesHold
  BY DEF CInv
<1>2. QED
  BY <1>1, GeneratorInvariant, PTL

(* Every store, far store, branch, return and call acts on the values that *)
(* the program names, except that an indirect call whose target lives in   *)
(* the last argument register jumps to its last argument (codegen.c, lines *)
(* 708-1026).                                                              *)
THEOREM EffectsHappen == CodegenSpec => []EffectsAsMeant
<1>1. CInv => EffectsAsMeant
  BY DEF CInv
<1>2. QED
  BY <1>1, GeneratorInvariant, PTL

(* The words of a 32-bit symbol are those the program gave it, from the    *)
(* prologue on (codegen.c, lines 178-232 and 300-480).                     *)
THEOREM WideSymbolKept == CodegenSpec => []WideSymbolAsMeant
<1>1. CInv => WideSymbolAsMeant
  BY DEF CInv
<1>2. QED
  BY <1>1, GeneratorInvariant, PTL

(* The generator runs the allocator as it is specified and touches nothing *)
(* of its state afterwards, so what holds of the allocator holds here.     *)
THEOREM GeneratorRunsAllocator == CodegenSpec => Spec
<1>1. CodegenInit => Init
  BY DEF CodegenInit
<1>2. CInv /\ [CodegenNext]_cgAllVars => [Next]_vars
  <2> SUFFICES ASSUME CInv, [CodegenNext]_cgAllVars PROVE [Next]_vars
    OBVIOUS
  <2>1. CASE EmitPlain \/ EmitCall
    BY <2>1, EmitPlainEmits, EmitCallEmits, EmitsScans DEF Next
  <2>2. CASE Allocate
    BY <2>2 DEF Allocate, Next
  <2>3. CASE Prologue
    BY <2>3 DEF Prologue
  <2>4. CASE Gen
    BY <2>4 DEF Gen, GenConstant, GenLoadSym, GenStoreSym, GenMultiplyStore, GenCompose,
       GenShift32, GenDivideSym, GenDivideProduct, GenDivide32, GenBinary, GenWithCarry,
       GenMultiply, GenProductHigh, GenDivide, GenUnary, GenCompare, GenCmp32, GenLoadMem,
       GenStoreMem, GenFarRead, GenFarWrite, GiveUp, GenCall, GenBranch, GenReturn,
       Yields, Does, Stores, Advance
  <2>5. CASE UNCHANGED cgAllVars
    BY <2>5 DEF cgAllVars
  <2>6. QED
    BY <2>1, <2>2, <2>3, <2>4, <2>5 DEF CodegenNext
<1>3. QED
  BY <1>1, <1>2, GeneratorInvariant, PTL DEF CodegenSpec, Spec
=============================================================================
