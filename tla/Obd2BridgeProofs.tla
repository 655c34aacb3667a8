-------------------------- MODULE Obd2BridgeProofs --------------------------
(***************************************************************************)
(* Proofs about the interrupts of the simulated CPU and the bridge that    *)
(* drives it, for every length of the delays, the frame and the budgets.   *)
(***************************************************************************)
EXTENDS Obd2Bridge, FiniteSetTheorems, SequenceTheorems, TLAPS

Items == Frames \cup {"data"}

(* OneHandlerInFlight of a state c that step() passes through.             *)
Guarded(c) == HardwareFrames(c) = IF c.mark = NONE THEN {} ELSE {c.mark + 1}

-----------------------------------------------------------------------------
(* The stack                                                               *)

LEMMA AppendFacts ==
    ASSUME NEW s \in Seq(Items), NEW x \in Items
    PROVE  /\ Append(s, x) \in Seq(Items)
           /\ Len(Append(s, x)) = Len(s) + 1
           /\ DOMAIN Append(s, x) = 1 .. Len(s) + 1
           /\ \A k \in 1 .. Len(s) : Append(s, x)[k] = s[k]
           /\ Append(s, x)[Len(s) + 1] = x
  OBVIOUS

LEMMA PopFacts ==
    ASSUME NEW s \in Seq(Items), s # <<>>
    PROVE  /\ Len(s) \in Nat \ {0}
           /\ SubSeq(s, 1, Len(s) - 1) \in Seq(Items)
           /\ Len(SubSeq(s, 1, Len(s) - 1)) = Len(s) - 1
           /\ DOMAIN SubSeq(s, 1, Len(s) - 1) = 1 .. Len(s) - 1
           /\ \A k \in 1 .. Len(s) - 1 : SubSeq(s, 1, Len(s) - 1)[k] = s[k]
<1>1. Len(s) \in Nat \ {0}
  <2>1. Len(s) \in Nat
    OBVIOUS
  <2>2. Len(s) = 0 => s = <<>>
    BY EmptySeq, Zenon
  <2> QED
    BY <2>1, <2>2
<1>2. \A k \in 1 .. Len(s) - 1 : s[k] \in Items
  BY LenProperties
<1>3. 1 \in Int /\ Len(s) - 1 \in Int
  BY <1>1
<1>4. /\ SubSeq(s, 1, Len(s) - 1) \in Seq(Items)
      /\ Len(SubSeq(s, 1, Len(s) - 1)) = IF 1 <= Len(s) - 1 THEN (Len(s) - 1) - 1 + 1 ELSE 0
      /\ \A k \in 1 .. (Len(s) - 1) - 1 + 1 : SubSeq(s, 1, Len(s) - 1)[k] = s[1 + k - 1]
  BY ONLY <1>2, <1>3, SubSeqProperties
<1>5. Len(SubSeq(s, 1, Len(s) - 1)) = Len(s) - 1
  <2> DEFINE n == Len(s)
             m == Len(SubSeq(s, 1, n - 1))
  <2>1. n \in Nat \ {0} /\ m = IF 1 <= n - 1 THEN (n - 1) - 1 + 1 ELSE 0
    BY <1>1, <1>4
  <2> HIDE DEF n, m
  <2>2. m = n - 1
    BY <2>1
  <2> QED
    BY <2>2 DEF n, m
<1>6. DOMAIN SubSeq(s, 1, Len(s) - 1) = 1 .. Len(s) - 1
  BY <1>4, <1>5, LenProperties
<1>7. \A k \in 1 .. Len(s) - 1 : SubSeq(s, 1, Len(s) - 1)[k] = s[k]
  BY <1>1, <1>4
<1> QED
  BY <1>1, <1>4, <1>5, <1>6, <1>7

LEMMA PushedFacts ==
    ASSUME NEW c \in Machine, NEW x \in Items
    PROVE  LET d == Pushed(c, x)
           IN  /\ d \in Machine /\ d.stack = Append(c.stack, x)
               /\ d.mark = c.mark /\ d.window = c.window /\ d.rir = c.rir /\ d.receiveIn = c.receiveIn
               /\ HardwareFrames(d) = HardwareFrames(c) \cup (IF x \in Hardware THEN {Len(c.stack) + 1} ELSE {})
<1>1. c.stack \in Seq(Items)
  BY DEF Machine, Items
<1>2. Pushed(c, x) = [c EXCEPT !.stack = Append(c.stack, x)]
  BY DEF Pushed, Machine
<1>3. Append(c.stack, x) \in Seq(Items)
  BY <1>1, AppendFacts
<1>4. Pushed(c, x) \in Machine
  BY <1>2, <1>3 DEF Machine, Items
<1>5. Pushed(c, x).stack = Append(c.stack, x)
  BY <1>2 DEF Machine
<1>6. HardwareFrames(Pushed(c, x)) = { k \in 1 .. Len(c.stack) + 1 : Append(c.stack, x)[k] \in Hardware }
  BY <1>1, <1>5, AppendFacts DEF HardwareFrames
<1>7. HardwareFrames(c) = { k \in 1 .. Len(c.stack) : c.stack[k] \in Hardware }
  BY <1>1 DEF HardwareFrames
<1>8. Len(c.stack) \in Nat
  BY <1>1
<1>9. HardwareFrames(Pushed(c, x)) = HardwareFrames(c) \cup (IF x \in Hardware THEN {Len(c.stack) + 1} ELSE {})
  BY <1>1, <1>6, <1>7, <1>8, AppendFacts
<1> QED
  BY <1>2, <1>4, <1>5, <1>9 DEF Machine

LEMMA PoppedFacts ==
    ASSUME NEW c \in Machine, c.stack # <<>>
    PROVE  LET d == Popped(c)
           IN  /\ d \in Machine /\ d.stack = SubSeq(c.stack, 1, Len(c.stack) - 1)
               /\ d.mark = c.mark /\ d.window = c.window /\ d.rir = c.rir /\ d.receiveIn = c.receiveIn
               /\ HardwareFrames(d) = HardwareFrames(c) \ {Len(c.stack)}
<1>1. c.stack \in Seq(Items)
  BY DEF Machine, Items
<1>2. Popped(c) = [c EXCEPT !.stack = SubSeq(c.stack, 1, Len(c.stack) - 1)]
  BY DEF Popped, Machine
<1>3. Popped(c) \in Machine
  BY <1>1, <1>2, PopFacts DEF Machine, Items
<1>4. Popped(c).stack = SubSeq(c.stack, 1, Len(c.stack) - 1)
  BY <1>2 DEF Machine
<1>5. HardwareFrames(Popped(c))
        = { k \in 1 .. Len(c.stack) - 1 : SubSeq(c.stack, 1, Len(c.stack) - 1)[k] \in Hardware }
  BY <1>1, <1>4, PopFacts DEF HardwareFrames
<1>6. HardwareFrames(c) = { k \in 1 .. Len(c.stack) : c.stack[k] \in Hardware }
  BY <1>1 DEF HardwareFrames
<1>7. HardwareFrames(Popped(c)) = HardwareFrames(c) \ {Len(c.stack)}
  BY <1>1, <1>5, <1>6, PopFacts
<1> QED
  BY <1>2, <1>3, <1>4, <1>7 DEF Machine

-----------------------------------------------------------------------------
(* The instruction                                                         *)

InFlight(c) == \E k \in DOMAIN c.stack : c.stack[k] = "receive"

InstructionSet == {"plain", "window", "push", "pop", "trap", "reti", "compare",
                   "request", "clear", "taken", "srvwdt"}

(* A frame that is popped off the stack takes the watermark with it when   *)
(* it is the frame of the interrupt in flight, and only then.              *)
LEMMA ReturnedFacts ==
    ASSUME NEW c \in Machine, Guarded(c), c.stack # <<>>, Top(c) \in Frames
    PROVE  LET d == Returned(c)
           IN  /\ d \in Machine /\ Guarded(d)
               /\ d.window = c.window /\ d.rir = c.rir /\ d.receiveIn = c.receiveIn
               /\ c.mark = NONE => d.mark = NONE
               /\ d.stack = SubSeq(c.stack, 1, Len(c.stack) - 1)
<1> DEFINE p == Popped(c)
<1>1. /\ p \in Machine /\ p.stack = SubSeq(c.stack, 1, Len(c.stack) - 1)
      /\ p.mark = c.mark /\ p.window = c.window /\ p.rir = c.rir /\ p.receiveIn = c.receiveIn
      /\ HardwareFrames(p) = HardwareFrames(c) \ {Len(c.stack)}
  BY PoppedFacts
<1>2. c.stack \in Seq(Items)
  BY DEF Machine, Items
<1>3. Len(c.stack) \in Nat \ {0} /\ Len(p.stack) = Len(c.stack) - 1
  BY <1>1, <1>2, PopFacts
<1>4. c.mark \in {NONE} \cup Nat
  BY DEF Machine
<1>5. \A k \in HardwareFrames(c) : k \in 1 .. Len(c.stack)
  BY <1>2 DEF HardwareFrames
<1> HIDE DEF p
<1>6. CASE Len(p.stack) <= p.mark
  <2>1. c.mark \in Nat /\ c.mark + 1 \in HardwareFrames(c)
    BY <1>1, <1>3, <1>4, <1>6 DEF NONE, Guarded
  <2>2. c.mark + 1 = Len(c.stack)
    BY <1>1, <1>3, <1>5, <1>6, <2>1
  <2>3. HardwareFrames(p) = {}
    BY <1>1, <2>1, <2>2 DEF Guarded, NONE
  <2>4. Returned(c) = [p EXCEPT !.mark = NONE]
    BY <1>6 DEF Returned, p
  <2>5. /\ Returned(c) \in Machine /\ Returned(c).stack = p.stack /\ Returned(c).mark = NONE
        /\ Returned(c).window = p.window /\ Returned(c).rir = p.rir
        /\ Returned(c).receiveIn = p.receiveIn
    BY <1>1, <2>4 DEF Machine
  <2>6. HardwareFrames(Returned(c)) = {}
    BY <2>3, <2>5 DEF HardwareFrames
  <2> QED
    BY <1>1, <2>5, <2>6 DEF Guarded
<1>7. CASE ~(Len(p.stack) <= p.mark)
  <2>1. Returned(c) = p
    BY <1>7 DEF Returned, p
  <2>2. c.mark # NONE => c.mark + 1 # Len(c.stack)
    BY <1>1, <1>3, <1>4, <1>7 DEF NONE
  <2>3. HardwareFrames(p) = HardwareFrames(c)
    BY <1>1, <2>2 DEF Guarded
  <2> QED
    BY <1>1, <2>1, <2>3 DEF Guarded
<1> QED
  BY <1>6, <1>7

LEMMA ExecutedFacts ==
    ASSUME NEW c \in Machine, Guarded(c), NEW i \in InstructionSet, NEW d \in Executed(c, i)
    PROVE  /\ d \in Machine /\ Guarded(d)
           /\ i # "window" => d.window = c.window
           /\ i = "window" => d.mark = c.mark
           /\ i # "taken" => d.rir = c.rir
           /\ d.receiveIn = c.receiveIn
           /\ c.mark = NONE => d.mark = NONE
           /\ InFlight(c) /\ ~(i = "reti" /\ Top(c) = "receive") => InFlight(d)
<1>0. c.stack \in Seq(Items)
  BY DEF Machine, Items
<1>1. CASE i \in {"plain", "window", "compare", "request", "clear", "taken", "srvwdt"}
  <2> DEFINE Kept == /\ d \in Machine /\ d.stack = c.stack /\ d.mark = c.mark
                     /\ d.receiveIn = c.receiveIn
                     /\ i # "window" => d.window = c.window
                     /\ i # "taken" => d.rir = c.rir
  <2>1. ASSUME i = "plain" PROVE Kept
    BY <2>1 DEF Executed
  <2>2. ASSUME i = "window" PROVE Kept
    <3>1. PICK n \in 1 .. 2 : d = [c EXCEPT !.window = n]
      BY <2>2 DEF Executed
    <3> QED
      BY SMTT(30), <2>2, <3>1 DEF Machine
  <2>3. ASSUME i = "compare" PROVE Kept
    <3>1. PICK v \in 0 .. TimerMod - 1 : d = [c EXCEPT !.compare = v]
      BY <2>3 DEF Executed
    <3>2. v \in Int
      BY InterruptsAssumption
    <3> QED
      BY <2>3, <3>1, <3>2 DEF Machine
  <2>4. ASSUME i = "request" PROVE Kept
    BY <2>4 DEF Executed, Machine
  <2>5. ASSUME i = "clear" PROVE Kept
    BY <2>5 DEF Executed, Machine
  <2>6. ASSUME i = "taken" PROVE Kept
    BY <2>6 DEF Executed, Machine
  <2>7. ASSUME i = "srvwdt" PROVE Kept
    BY <2>7 DEF Executed, Machine
  <2>8. Kept
    BY <1>1, <2>1, <2>2, <2>3, <2>4, <2>5, <2>6, <2>7
  <2> QED
    BY <1>1, <2>8 DEF Guarded, HardwareFrames, InFlight
<1>2. ASSUME NEW x \in {"data", "trap"}, d = Pushed(c, x), i \notin {"window", "taken", "reti"}
      PROVE  /\ d \in Machine /\ Guarded(d) /\ d.mark = c.mark /\ d.window = c.window
             /\ d.rir = c.rir /\ d.receiveIn = c.receiveIn /\ (InFlight(c) => InFlight(d))
  <2>1. x \in Items /\ x \notin Hardware
    BY DEF Items, Frames, Hardware
  <2>2. /\ d \in Machine /\ d.stack = Append(c.stack, x)
        /\ d.mark = c.mark /\ d.window = c.window /\ d.rir = c.rir /\ d.receiveIn = c.receiveIn
        /\ HardwareFrames(d) = HardwareFrames(c)
    BY <1>2, <2>1, PushedFacts
  <2>3. InFlight(c) => InFlight(d)
    BY <1>0, <2>1, <2>2, AppendFacts DEF InFlight
  <2> QED
    BY <2>2, <2>3 DEF Guarded
<1>3. CASE i = "push"
  BY <1>2, <1>3 DEF Executed
<1>4. CASE i = "trap"
  BY <1>2, <1>4 DEF Executed
<1>5. ASSUME c.stack # <<>>, Top(c) # "receive",
             d.stack = SubSeq(c.stack, 1, Len(c.stack) - 1)
      PROVE  InFlight(c) => InFlight(d)
  <2>1. /\ Len(c.stack) \in Nat \ {0}
        /\ DOMAIN d.stack = 1 .. Len(c.stack) - 1
        /\ \A k \in 1 .. Len(c.stack) - 1 : d.stack[k] = c.stack[k]
    BY <1>0, <1>5, PopFacts
  <2>2. DOMAIN c.stack = 1 .. Len(c.stack)
    BY <1>0
  <2> QED
    BY <1>5, <2>1, <2>2 DEF InFlight, Top
<1>6. CASE i = "pop"
  <2>1. d = Popped(c) /\ c.stack # <<>> /\ Top(c) = "data"
    BY <1>6 DEF Executed
  <2>2. /\ d \in Machine /\ d.stack = SubSeq(c.stack, 1, Len(c.stack) - 1)
        /\ d.mark = c.mark /\ d.window = c.window /\ d.rir = c.rir /\ d.receiveIn = c.receiveIn
        /\ HardwareFrames(d) = HardwareFrames(c) \ {Len(c.stack)}
    BY <2>1, PoppedFacts
  <2>3. HardwareFrames(d) = HardwareFrames(c)
    BY <2>1, <2>2 DEF HardwareFrames, Top, Hardware
  <2> QED
    BY <1>5, <1>6, <2>1, <2>2, <2>3 DEF Guarded
<1>7. CASE i = "reti"
  <2>1. d = Returned(c) /\ c.stack # <<>> /\ Top(c) \in Frames
    BY <1>7 DEF Executed
  <2> QED
    BY <1>5, <1>7, <2>1, ReturnedFacts
<1> QED
  BY <1>1, <1>3, <1>4, <1>6, <1>7 DEF InstructionSet

-----------------------------------------------------------------------------
(* What step() does after the instruction                                  *)

(* c and d differ in nothing that the guard against nesting looks at.      *)
SameGuard(c, d) ==
    /\ d \in Machine /\ d.mark = c.mark /\ d.stack = c.stack /\ d.rir = c.rir

(* A stage of step() that may enter the handler h has taken c to d.        *)
MayEnter(c, d, h) ==
    /\ d \in Machine /\ Guarded(d) /\ d.window = c.window /\ d.rir = c.rir
    /\ InFlight(c) => InFlight(d)
    /\ \/ d.mark = c.mark /\ d.stack = c.stack
       \/ ~Busy(c) /\ d.mark # NONE /\ Top(d) = h

LEMMA SameGuardFacts ==
    ASSUME NEW c \in Machine, Guarded(c), NEW d, SameGuard(c, d), d.window = c.window, NEW h
    PROVE  MayEnter(c, d, h) /\ (Busy(d) <=> Busy(c))
  BY DEF SameGuard, MayEnter, Guarded, HardwareFrames, InFlight, Busy

LEMMA WatchedFacts ==
    ASSUME NEW c \in Machine
    PROVE  LET d == Watched(c)
           IN  SameGuard(c, d) /\ d.window = c.window /\ d.receiveIn = c.receiveIn
<1>1. \A h, w \in Int : LET d == [c EXCEPT !.half = h, !.wdt = w]
                        IN  SameGuard(c, d) /\ d.window = c.window /\ d.receiveIn = c.receiveIn
  BY DEF SameGuard, Machine
<1>2. c.half \in Int /\ c.wdt \in Int
  BY DEF Machine
<1>3. CASE ~WdtEnabled
  BY <1>3 DEF Watched, SameGuard
<1>4. CASE WdtEnabled
  <2>1. Watched(c) = [c EXCEPT !.half = 1 - c.half, !.wdt = IF c.half = 1 THEN c.wdt + 1 ELSE c.wdt]
    BY <1>4 DEF Watched
  <2>2. 1 - c.half \in Int /\ (IF c.half = 1 THEN c.wdt + 1 ELSE c.wdt) \in Int
    BY <1>2
  <2> QED
    BY <1>1, <2>1, <2>2
<1> QED
  BY <1>3, <1>4

LEMMA NarrowedFacts ==
    ASSUME NEW c \in Machine, NEW before \in Nat, NEW i
    PROVE  LET d == Narrowed(c, before, i)
           IN  /\ SameGuard(c, d) /\ d.receiveIn = c.receiveIn
               /\ d.window = IF before > 0 /\ i # "window" THEN before - 1 ELSE c.window
  BY DEF Narrowed, SameGuard, Machine

(* A handler is entered on a stack without a hardware frame, and its own   *)
(* frame is the one above the watermark.                                   *)
LEMMA EntryFacts ==
    ASSUME NEW c \in Machine, Guarded(c), ~Busy(c), NEW h \in Hardware
    PROVE  LET d == Entry(c, h)
           IN  /\ MayEnter(c, d, h) /\ d.receiveIn = c.receiveIn
               /\ d.mark # NONE /\ Top(d) = h
<1> DEFINE p == Pushed(c, h)
           d == Entry(c, h)
<1>0. c.stack \in Seq(Items) /\ h \in Items
  BY DEF Machine, Items, Frames
<1>1. /\ p \in Machine /\ p.stack = Append(c.stack, h)
      /\ p.mark = c.mark /\ p.window = c.window /\ p.rir = c.rir /\ p.receiveIn = c.receiveIn
      /\ HardwareFrames(p) = HardwareFrames(c) \cup {Len(c.stack) + 1}
  BY <1>0, PushedFacts
<1>2. HardwareFrames(c) = {}
  BY DEF Guarded, Busy
<1>3. d = [p EXCEPT !.mark = Len(c.stack)]
  BY DEF Entry
<1>4. Len(c.stack) \in Nat
  BY <1>0
<1> HIDE DEF p, d
<1>5. /\ d \in Machine /\ d.mark = Len(c.stack) /\ d.stack = p.stack
      /\ d.window = c.window /\ d.rir = c.rir /\ d.receiveIn = c.receiveIn
  BY <1>1, <1>3, <1>4 DEF Machine
<1>6. d.mark # NONE
  BY <1>4, <1>5 DEF NONE
<1>7. Guarded(d)
  <2>1. HardwareFrames(d) = HardwareFrames(p)
    BY <1>5 DEF HardwareFrames
  <2> QED
    BY <1>1, <1>2, <1>5, <1>6, <2>1 DEF Guarded
<1>8. InFlight(c) => InFlight(d)
  BY <1>2 DEF InFlight, HardwareFrames, Hardware
<1>9. Top(d) = h
  BY <1>0, <1>1, <1>5, AppendFacts DEF Top
<1> QED
  BY <1>5, <1>6, <1>7, <1>8, <1>9 DEF MayEnter, d

LEMMA TimedFacts ==
    ASSUME NEW c \in Machine, Guarded(c)
    PROVE  MayEnter(c, Timed(c), "cc26") /\ Timed(c).receiveIn = c.receiveIn
<1> DEFINE t == [c EXCEPT !.timer = (@ + 1) % TimerMod]
<1>1. (c.timer + 1) % TimerMod \in Int
  <2>1. c.timer + 1 \in Int
    BY DEF Machine
  <2>2. TimerMod \in Int /\ TimerMod > 0
    BY InterruptsAssumption
  <2> QED
    BY <2>1, <2>2
<1>2. SameGuard(c, t) /\ t.window = c.window /\ t.receiveIn = c.receiveIn
  BY <1>1 DEF SameGuard, Machine
<1>3. Guarded(t) /\ (Busy(t) <=> Busy(c)) /\ t \in Machine
  BY <1>2 DEF SameGuard, Guarded, HardwareFrames, Busy
<1>4. Timed(c) \in {t, Entry(t, "cc26")} /\ (Timed(c) # t => ~Busy(t))
  BY DEF Timed
<1>5. ASSUME ~Busy(t)
      PROVE  MayEnter(t, Entry(t, "cc26"), "cc26") /\ Entry(t, "cc26").receiveIn = t.receiveIn
  BY <1>3, <1>5, EntryFacts DEF Hardware
<1> HIDE DEF t
<1>6. MayEnter(t, Timed(c), "cc26") /\ Timed(c).receiveIn = t.receiveIn
  <2>1. CASE Timed(c) = t
    BY <1>3, <2>1 DEF MayEnter
  <2>2. CASE Timed(c) # t
    BY <1>4, <1>5, <2>2
  <2> QED
    BY <2>1, <2>2
<1> QED
  BY <1>2, <1>3, <1>6 DEF MayEnter, SameGuard, InFlight

LEMMA RequestedFacts ==
    ASSUME NEW c \in Machine, Guarded(c)
    PROVE  MayEnter(c, Requested(c), "pending") /\ Requested(c).receiveIn = c.receiveIn
<1>0. c.pendingIn \in Int /\ c.pending \in BOOLEAN
  BY DEF Machine
<1>1. \A v \in Int : LET t == [c EXCEPT !.pendingIn = v]
                     IN  SameGuard(c, t) /\ t.window = c.window /\ t.receiveIn = c.receiveIn
  BY DEF SameGuard, Machine
<1>2. ASSUME NEW v \in Int, Requested(c) = [c EXCEPT !.pendingIn = v]
      PROVE  MayEnter(c, Requested(c), "pending") /\ Requested(c).receiveIn = c.receiveIn
  <2> DEFINE t == [c EXCEPT !.pendingIn = v]
  <2>1. SameGuard(c, t) /\ t.window = c.window /\ t.receiveIn = c.receiveIn
    BY <1>1
  <2>2. Requested(c) = t
    BY <1>2
  <2> HIDE DEF t
  <2>3. MayEnter(c, t, "pending")
    BY <2>1, SameGuardFacts
  <2> QED
    BY <2>1, <2>2, <2>3
<1>3. CASE c.pendingIn > 1
  <2>1. Requested(c) = [c EXCEPT !.pendingIn = c.pendingIn - 1] /\ c.pendingIn - 1 \in Int
    BY <1>0, <1>3 DEF Requested
  <2> QED
    BY <1>2, <2>1
<1>4. CASE c.pendingIn \in {0, 1}
  <2> DEFINE t == [c EXCEPT !.pendingIn = NONE]
  <2>1. SameGuard(c, t) /\ t.window = c.window /\ t.receiveIn = c.receiveIn
    BY <1>1 DEF NONE
  <2>2. Requested(c) = IF Busy(c) THEN t ELSE Entry(t, "pending")
    BY <1>0, <1>4 DEF Requested
  <2>3. Guarded(t) /\ (Busy(t) <=> Busy(c)) /\ t \in Machine
    BY <2>1 DEF SameGuard, Guarded, HardwareFrames, Busy
  <2> HIDE DEF t
  <2>4. CASE Busy(c)
    BY <2>1, <2>2, <2>4, SameGuardFacts
  <2>5. CASE ~Busy(c)
    <3>1. MayEnter(t, Requested(c), "pending") /\ Requested(c).receiveIn = t.receiveIn
      BY <2>2, <2>3, <2>5, EntryFacts DEF Hardware
    <3> QED
      BY <2>1, <2>3, <3>1 DEF MayEnter, SameGuard, InFlight
  <2> QED
    BY <2>4, <2>5
<1>5. CASE c.pendingIn < 0
  <2>1. Requested(c) = IF c.pending THEN [c EXCEPT !.pendingIn = PendingDelay] ELSE c
    BY <1>0, <1>5 DEF Requested
  <2>2. c = [c EXCEPT !.pendingIn = c.pendingIn]
    BY DEF Machine
  <2>3. PendingDelay \in Int
    BY InterruptsAssumption
  <2>4. CASE c.pending
    BY <1>2, <2>1, <2>3, <2>4
  <2>5. CASE ~c.pending
    BY <1>0, <1>2, <2>1, <2>2, <2>5
  <2> QED
    BY <2>4, <2>5
<1> QED
  BY <1>0, <1>3, <1>4, <1>5

(* A byte whose delay has run out and whose flag is up is handed over      *)
(* unless the CPU is busy, and then it is looked at again at the next      *)
(* instruction.                                                            *)
LEMMA ReceivedFacts ==
    ASSUME NEW c \in Machine, Guarded(c)
    PROVE  LET d == Received(c)
           IN  /\ MayEnter(c, d, "receive")
               /\ d.mark # c.mark => c.rir
               /\ c.receiveIn \in {0, 1} /\ c.rir =>
                    \/ Busy(c) /\ d.mark = c.mark /\ d.receiveIn = 1
                    \/ ~Busy(c) /\ d.mark # NONE
<1> DEFINE d == Received(c)
<1>0. c.receiveIn \in Int /\ c.rir \in BOOLEAN
  BY DEF Machine
<1>1. \A v \in Int : LET t == [c EXCEPT !.receiveIn = v]
                     IN  SameGuard(c, t) /\ t.window = c.window /\ t.receiveIn = v
  BY DEF SameGuard, Machine
<1>2. ASSUME NEW v \in Int, d = [c EXCEPT !.receiveIn = v]
      PROVE  MayEnter(c, d, "receive") /\ d.mark = c.mark /\ d.receiveIn = v
  BY <1>1, <1>2, SameGuardFacts DEF SameGuard
<1>3. CASE c.receiveIn > 1
  <2>1. d = [c EXCEPT !.receiveIn = c.receiveIn - 1] /\ c.receiveIn - 1 \in Int
    BY <1>0, <1>3 DEF Received
  <2> QED
    BY <1>2, <1>3, <2>1
<1>4. CASE c.receiveIn \in {0, 1}
  <2> DEFINE t == [c EXCEPT !.receiveIn = NONE]
  <2>1. SameGuard(c, t) /\ t.window = c.window
    BY <1>1 DEF NONE
  <2>2. d = IF ~c.rir THEN t ELSE IF Busy(c) THEN [c EXCEPT !.receiveIn = 1] ELSE Entry(t, "receive")
    BY <1>0, <1>4 DEF Received
  <2>3. Guarded(t) /\ (Busy(t) <=> Busy(c)) /\ t \in Machine
    BY <2>1 DEF SameGuard, Guarded, HardwareFrames, Busy
  <2>4. CASE ~c.rir
    <3>1. d = [c EXCEPT !.receiveIn = NONE] /\ NONE \in Int
      BY <2>2, <2>4 DEF NONE
    <3> QED
      BY <1>2, <2>4, <3>1
  <2>5. CASE c.rir /\ Busy(c)
    BY <1>2, <2>2, <2>5
  <2> HIDE DEF t
  <2>6. CASE c.rir /\ ~Busy(c)
    <3>1. /\ MayEnter(t, Entry(t, "receive"), "receive")
          /\ Entry(t, "receive").mark # NONE
      BY <2>3, <2>6, EntryFacts DEF Hardware
    <3>2. d = Entry(t, "receive")
      BY <2>2, <2>6
    <3>3. MayEnter(c, d, "receive") /\ d.mark # NONE
      BY <2>1, <2>3, <3>1, <3>2 DEF MayEnter, SameGuard, InFlight
    <3> QED
      BY <2>6, <3>3
  <2> QED
    BY <2>4, <2>5, <2>6
<1>5. CASE c.receiveIn < 0
  <2>1. d = IF c.rir THEN [c EXCEPT !.receiveIn = ReceiveDelay] ELSE c
    BY <1>0, <1>5 DEF Received
  <2>2. c = [c EXCEPT !.receiveIn = c.receiveIn]
    BY DEF Machine
  <2>3. ReceiveDelay \in Int /\ c.receiveIn \notin {0, 1}
    BY <1>0, <1>5, InterruptsAssumption
  <2>4. CASE c.rir
    BY <1>2, <2>1, <2>3, <2>4
  <2>5. CASE ~c.rir
    BY <1>0, <1>2, <2>1, <2>2, <2>3, <2>5
  <2> QED
    BY <2>4, <2>5
<1> QED
  BY <1>0, <1>3, <1>4, <1>5

(* The three stages together: at most one of them enters a handler, and a  *)
(* handler that is entered is the one on top of the stack.                 *)
LEMMA HandlersFacts ==
    ASSUME NEW n \in Machine, Guarded(n)
    PROVE  LET c == Received(Requested(Timed(n)))
           IN  /\ c \in Machine /\ Guarded(c) /\ c.window = n.window /\ c.rir = n.rir
               /\ InFlight(n) => InFlight(c)
               /\ c.mark # n.mark => ~Busy(n) /\ (Top(c) = "receive" => c.rir)
               /\ n.receiveIn \in {0, 1} /\ n.rir =>
                    \/ Busy(c) /\ c.receiveIn = 1
                    \/ c.mark # n.mark /\ Top(c) = "receive"
<1> DEFINE t == Timed(n)
           q == Requested(t)
           c == Received(q)
<1>1. MayEnter(n, t, "cc26") /\ t.receiveIn = n.receiveIn
  BY TimedFacts
<1>2. t \in Machine /\ Guarded(t)
  BY <1>1 DEF MayEnter
<1> HIDE DEF t
<1>3. MayEnter(t, q, "pending") /\ q.receiveIn = t.receiveIn
  BY <1>2, RequestedFacts
<1>4. q \in Machine /\ Guarded(q)
  BY <1>3 DEF MayEnter
<1> HIDE DEF q
<1>5. /\ MayEnter(q, c, "receive")
      /\ c.mark # q.mark => q.rir
      /\ q.receiveIn \in {0, 1} /\ q.rir =>
            \/ Busy(q) /\ c.mark = q.mark /\ c.receiveIn = 1
            \/ ~Busy(q) /\ c.mark # NONE
  BY <1>4, ReceivedFacts
<1> HIDE DEF c
<1>6. /\ c \in Machine /\ Guarded(c) /\ c.window = n.window /\ c.rir = n.rir
      /\ InFlight(n) => InFlight(c)
  BY <1>1, <1>3, <1>5 DEF MayEnter
<1>7. \A x, y : Top(x) = Top(y) \/ x.stack # y.stack
  BY DEF Top
<1>8. ASSUME c.mark # n.mark
      PROVE  ~Busy(n) /\ (Top(c) = "receive" => c.rir)
  <2>1. CASE c.mark # q.mark
    BY <1>1, <1>3, <1>5, <1>6, <2>1 DEF MayEnter, Busy
  <2>2. CASE c.mark = q.mark /\ q.mark # t.mark
    <3>1. ~Busy(t) /\ q.mark # NONE /\ Top(q) = "pending"
      BY <1>3, <2>2 DEF MayEnter
    <3>2. c.stack = q.stack
      BY <1>5, <2>2, <3>1 DEF MayEnter, Busy
    <3>3. Top(c) = "pending"
      BY <1>7, <3>1, <3>2
    <3> QED
      BY <1>1, <3>1, <3>3 DEF MayEnter, Busy
  <2>3. CASE c.mark = q.mark /\ q.mark = t.mark
    <3>1. ~Busy(n) /\ t.mark # NONE /\ Top(t) = "cc26"
      BY <1>1, <1>8, <2>3 DEF MayEnter
    <3>2. c.stack = t.stack
      BY <1>3, <1>5, <2>3, <3>1 DEF MayEnter, Busy
    <3>3. Top(c) = "cc26"
      BY <1>7, <3>1, <3>2
    <3> QED
      BY <3>1, <3>3
  <2> QED
    BY <2>1, <2>2, <2>3
<1>9. ASSUME n.receiveIn \in {0, 1}, n.rir
      PROVE  \/ Busy(c) /\ c.receiveIn = 1
             \/ c.mark # n.mark /\ Top(c) = "receive"
  <2>1. q.receiveIn \in {0, 1} /\ q.rir
    BY <1>1, <1>3, <1>9 DEF MayEnter
  <2>2. CASE Busy(q) /\ c.mark = q.mark /\ c.receiveIn = 1
    BY <1>5, <2>2 DEF MayEnter, Busy
  <2>3. CASE ~Busy(q) /\ c.mark # NONE
    BY <1>1, <1>3, <1>5, <2>3 DEF MayEnter, Busy
  <2> QED
    BY <1>5, <2>1, <2>2, <2>3
<1> QED
  BY <1>6, <1>8, <1>9 DEF c, q, t

LEMMA HandlerCount ==
    ASSUME NEW c, Guarded(c)
    PROVE  Cardinality(HardwareFrames(c)) = IF c.mark = NONE THEN 0 ELSE 1
<1>1. CASE c.mark = NONE
  BY <1>1, FS_EmptySet DEF Guarded
<1>2. CASE c.mark # NONE
  BY <1>2, FS_Singleton DEF Guarded
<1> QED
  BY <1>1, <1>2

-----------------------------------------------------------------------------
(* The invariant of the simulated CPU: what its properties say, with what  *)
(* the history variables promise of the next step. A window that is open   *)
(* under a handler in flight was opened by it; a byte that is late is      *)
(* looked at again at the next step.                                       *)
InvCpu ==
    /\ cpu \in Machine /\ Guarded(cpu)
    /\ inner \in Nat
    /\ cpu.window > 0 /\ cpu.mark # NONE => inner >= 1
    /\ HandlerFindsByte
    /\ late \in BOOLEAN
    /\ late => Busy(cpu) /\ cpu.receiveIn = 1

LEMMA InvCpuInit == Init => InvCpu
<1> SUFFICES ASSUME Init PROVE InvCpu
  OBVIOUS
<1>1. <<>> \in Seq(Items)
  BY EmptySeq
<1>2. cpu \in Machine /\ cpu.stack = <<>> /\ cpu.mark = NONE /\ cpu.window = 0
  BY <1>1 DEF Init, Machine, NONE, Items
<1>3. HardwareFrames(cpu) = {}
  BY <1>2, EmptySeq DEF HardwareFrames
<1> QED
  BY <1>2, <1>3 DEF InvCpu, Init, Guarded, HandlerFindsByte

LEMMA InvCpuInject == InvCpu /\ Inject => InvCpu'
<1> SUFFICES ASSUME InvCpu, Inject PROVE InvCpu'
  OBVIOUS
<1>1. /\ cpu' \in Machine /\ cpu'.stack = cpu.stack /\ cpu'.mark = cpu.mark
      /\ cpu'.window = cpu.window /\ cpu'.receiveIn = cpu.receiveIn
  BY DEF InvCpu, Inject, Machine
<1>2. Guarded(cpu)'
  BY <1>1 DEF InvCpu, Guarded, HardwareFrames
<1> QED
  BY <1>1, <1>2 DEF InvCpu, Inject, HandlerFindsByte, Busy

Alike(c, d) == SameGuard(c, d) /\ d.window = c.window

LEMMA AlikeFacts ==
    ASSUME NEW c \in Machine, NEW v \in Int
    PROVE  /\ Alike(c, [c EXCEPT !.timer = v])
           /\ Alike(c, [c EXCEPT !.pendingIn = v])
           /\ Alike(c, [c EXCEPT !.receiveIn = v])
           /\ Alike(c, [c EXCEPT !.wdt = v])
           /\ Alike(c, [c EXCEPT !.half = v])
  BY DEF Machine, Alike, SameGuard

LEMMA ResetFacts ==
    ASSUME NEW c \in Machine
    PROVE  LET d == Reset(c)
           IN  d \in Machine /\ Guarded(d) /\ d.window = 0 /\ d.mark = NONE /\ d.rir = c.rir
<1>2. NONE \in Int
  BY DEF NONE
<1>3. 0 \in Int
  OBVIOUS
<1> DEFINE f == [c EXCEPT !.stack = <<>>, !.mark = NONE, !.window = 0]
           g == [[[f EXCEPT !.timer = 0] EXCEPT !.pendingIn = NONE] EXCEPT !.receiveIn = NONE]
           h == [[g EXCEPT !.wdt = 0] EXCEPT !.half = 0]
<1>8. Reset(c) = h
  BY DEF Reset, Machine
<1>9. f \in Machine /\ f.stack = <<>> /\ f.window = 0 /\ f.mark = NONE /\ f.rir = c.rir
  <2>1. <<>> \in Seq(Frames \cup {"data"})
    BY EmptySeq
  <2>2. [c EXCEPT !.stack = <<>>] \in Machine
    BY <2>1 DEF Machine
  <2>3. [[c EXCEPT !.stack = <<>>] EXCEPT !.mark = NONE] \in Machine
    BY <2>2 DEF Machine
  <2>4. f = [[[c EXCEPT !.stack = <<>>] EXCEPT !.mark = NONE] EXCEPT !.window = 0]
    OBVIOUS
  <2>5. f \in Machine
    BY <2>3, <2>4 DEF Machine
  <2>6. f.stack = <<>> /\ f.window = 0 /\ f.mark = NONE /\ f.rir = c.rir
    BY DEF Machine
  <2> QED
    BY <2>5, <2>6
<1> HIDE DEF f
<1>10. Alike(f, h)
  <2>1. Alike(f, [f EXCEPT !.timer = 0])
    BY <1>3, <1>9, AlikeFacts
  <2> DEFINE f1 == [f EXCEPT !.timer = 0]
             f2 == [f1 EXCEPT !.pendingIn = NONE]
             f3 == [f2 EXCEPT !.receiveIn = NONE]
             f4 == [f3 EXCEPT !.wdt = 0]
  <2>2. f1 \in Machine
    BY <2>1 DEF Alike, SameGuard
  <2> HIDE DEF f1
  <2>3. Alike(f1, f2) /\ f2 \in Machine
    BY <1>2, <2>2, AlikeFacts DEF Alike, SameGuard
  <2> HIDE DEF f2
  <2>4. Alike(f2, f3) /\ f3 \in Machine
    BY <1>2, <2>3, AlikeFacts DEF Alike, SameGuard
  <2> HIDE DEF f3
  <2>5. Alike(f3, f4) /\ f4 \in Machine
    BY <1>3, <2>4, AlikeFacts DEF Alike, SameGuard
  <2> HIDE DEF f4
  <2>6. Alike(f4, [f4 EXCEPT !.half = 0])
    BY <1>3, <2>5, AlikeFacts
  <2>7. h = [f4 EXCEPT !.half = 0]
    BY DEF f1, f2, f3, f4
  <2> QED
    BY <2>1, <2>3, <2>4, <2>5, <2>6, <2>7 DEF Alike, SameGuard, f1
<1> HIDE DEF h
<1>11. HardwareFrames(h) = {}
  BY <1>9, <1>10, EmptySeq DEF Alike, SameGuard, HardwareFrames
<1> QED
  BY <1>8, <1>9, <1>10, <1>11 DEF Alike, SameGuard, Guarded

(* What a step makes of the byte in S0RBUF, for the bridge: its flag falls *)
(* by an instruction that takes it, and the receive handler leaves the     *)
(* stack by its RETI, or both by a reset.                                  *)
LEMMA InvCpuStep ==
    ASSUME InvCpu, NEW i \in InstructionSet, Step(i)
    PROVE  /\ InvCpu'
           /\ \/ entered' = "reset"
              \/ /\ i # "taken" => cpu'.rir = cpu.rir
                 /\ InFlight(cpu) /\ ~(i = "reti" /\ Top(cpu) = "receive") => InFlight(cpu')
<1>1. PICK d \in Executed(cpu, i) :
        LET w == Watched(d)
            n == Narrowed(w, cpu.window, i)
            c == Received(Requested(Timed(n)))
        IN  IF w.wdt >= WdtLimit
            THEN /\ cpu' = Reset(w)
                 /\ entered' = "reset" /\ late' = FALSE /\ inner' = 0
            ELSE /\ Len(c.stack) <= MaxStack
                 /\ cpu' = c
                 /\ entered' = IF c.mark # n.mark THEN Top(c) ELSE "none"
                 /\ late' = ((late \/ cpu.receiveIn \in {0, 1}) /\ entered' # "receive" /\ c.rir)
                 /\ inner' = IF i = "window" THEN Cardinality(HardwareFrames(d)) ELSE inner
  BY DEF Step
<1> DEFINE w == Watched(d)
           n == Narrowed(w, cpu.window, i)
           c == Received(Requested(Timed(n)))
<1>2. cpu \in Machine /\ Guarded(cpu) /\ cpu.window \in Nat
  BY DEF InvCpu, Machine
<1>3. /\ d \in Machine /\ Guarded(d)
      /\ i # "window" => d.window = cpu.window
      /\ i = "window" => d.mark = cpu.mark
      /\ i # "taken" => d.rir = cpu.rir
      /\ d.receiveIn = cpu.receiveIn
      /\ cpu.mark = NONE => d.mark = NONE
      /\ InFlight(cpu) /\ ~(i = "reti" /\ Top(cpu) = "receive") => InFlight(d)
  BY <1>2, ExecutedFacts
<1>4. SameGuard(d, w) /\ w.window = d.window /\ w.receiveIn = d.receiveIn /\ w \in Machine
  BY <1>3, WatchedFacts DEF SameGuard
<1>5. CASE w.wdt >= WdtLimit
  <2>1. cpu' = Reset(w) /\ entered' = "reset" /\ late' = FALSE /\ inner' = 0
    BY <1>1, <1>5
  <2>2. cpu' \in Machine /\ Guarded(cpu') /\ cpu'.window = 0 /\ cpu'.mark = NONE
    BY <1>4, <2>1, ResetFacts
  <2>3. Guarded(cpu)'
    BY <2>2 DEF Guarded, HardwareFrames
  <2> QED
    BY <2>1, <2>2, <2>3 DEF InvCpu, HandlerFindsByte
<1>6. CASE ~(w.wdt >= WdtLimit)
  <2>1. /\ cpu' = c
        /\ entered' = IF c.mark # n.mark THEN Top(c) ELSE "none"
        /\ late' = ((late \/ cpu.receiveIn \in {0, 1}) /\ entered' # "receive" /\ c.rir)
        /\ inner' = IF i = "window" THEN Cardinality(HardwareFrames(d)) ELSE inner
    BY <1>1, <1>6
  <2> HIDE DEF w
  <2>2. /\ SameGuard(w, n) /\ n.receiveIn = w.receiveIn
        /\ n.window = IF cpu.window > 0 /\ i # "window" THEN cpu.window - 1 ELSE w.window
    BY <1>2, <1>4, NarrowedFacts
  <2> HIDE DEF n
  <2>3. /\ n \in Machine /\ Guarded(n) /\ n.mark = d.mark /\ n.rir = d.rir
        /\ n.receiveIn = cpu.receiveIn /\ (InFlight(d) => InFlight(n))
    BY <1>3, <1>4, <2>2 DEF SameGuard, Guarded, HardwareFrames, InFlight
  <2>4. /\ c \in Machine /\ Guarded(c) /\ c.window = n.window /\ c.rir = n.rir
        /\ InFlight(n) => InFlight(c)
        /\ c.mark # n.mark => ~Busy(n) /\ (Top(c) = "receive" => c.rir)
        /\ n.receiveIn \in {0, 1} /\ n.rir =>
             \/ Busy(c) /\ c.receiveIn = 1
             \/ c.mark # n.mark /\ Top(c) = "receive"
    BY <2>3, HandlersFacts
  <2> HIDE DEF c
  <2>5. Guarded(cpu)'
    BY <2>1, <2>4 DEF Guarded, HardwareFrames
  <2>6. inner' \in Nat /\ (i = "window" /\ cpu.mark # NONE => inner' = 1)
    BY <1>3, <2>1, HandlerCount DEF InvCpu
  <2>7. ASSUME c.window > 0, c.mark # NONE
        PROVE  inner' >= 1
    <3>1. n.mark = c.mark
      <4>1. n.window > 0
        BY <2>4, <2>7
      <4> QED
        BY <2>4, <4>1 DEF Busy
    <3>2. cpu.mark # NONE
      BY <1>3, <2>3, <2>7, <3>1
    <3>3. CASE i = "window"
      BY <2>6, <3>2, <3>3
    <3>4. CASE i # "window"
      <4>1. n.window > 0 /\ w.window = cpu.window
        BY <1>3, <1>4, <2>4, <2>7, <3>4
      <4>2. cpu.window > 0
        BY <1>2, <2>2, <4>1, <3>4
      <4> QED
        BY <2>1, <3>2, <3>4, <4>2 DEF InvCpu
    <3> QED
      BY <3>3, <3>4
  <2>8. entered' = "receive" => c.rir
    BY <2>1, <2>4
  <2>9. late' => Busy(c) /\ c.receiveIn = 1
    BY <2>1, <2>3, <2>4 DEF InvCpu
  <2>10. InvCpu'
    BY <2>1, <2>4, <2>5, <2>6, <2>7, <2>8, <2>9 DEF InvCpu, HandlerFindsByte, Busy
  <2>11. /\ i # "taken" => cpu'.rir = cpu.rir
         /\ InFlight(cpu) /\ ~(i = "reti" /\ Top(cpu) = "receive") => InFlight(cpu')
    BY <1>3, <2>1, <2>3, <2>4
  <2> QED
    BY <2>10, <2>11
<1> QED
  BY <1>5, <1>6

-----------------------------------------------------------------------------
(* The bridge. A byte that is due is still announced by its flag or its    *)
(* handler is in flight, and only the wait for it leaves it due.           *)
ByteKnown == unread = "due" => cpu.rir \/ InFlight(cpu)

InvByte == ByteKnown /\ (phase # "wait" => unread # "due")

(* Where request() may be.                                                 *)
InvRequest ==
    /\ left \in Nat /\ steps \in Nat /\ chunks \in Nat /\ retries \in Nat
    /\ phase = "send" => left >= 1
    /\ phase = "wait" => steps >= 1
    /\ phase # "idle" => chunks >= 1

Inv == InvCpu /\ InvByte /\ InvRequest

LEMMA ImageFacts ==
    ASSUME InvCpu, ByteKnown, Image
    PROVE  /\ InvCpu' /\ ByteKnown'
           /\ unread' = "due" =>
                unread = "due" /\ ~(phase = "wait" /\ steps = 1 /\ ~Consumed)
<1>1. PICK i \in Instructions \cup {"read", "transmit"} :
        /\ Step(IF i \in Instructions THEN i ELSE "plain")
        /\ i = "reti" /\ Top(cpu) = "receive" => unread # "due"
        /\ unread' = IF i = "read" THEN "read"
                     ELSE IF unread = "due" /\ Excuse(i) THEN "excused" ELSE unread
  BY DEF Image
<1> DEFINE j == IF i \in Instructions THEN i ELSE "plain"
<1>2. j \in InstructionSet /\ (j # "plain" => j = i)
  BY InterruptsAssumption DEF InstructionSet
<1>3. /\ InvCpu'
      /\ \/ entered' = "reset"
         \/ /\ j # "taken" => cpu'.rir = cpu.rir
            /\ InFlight(cpu) /\ ~(j = "reti" /\ Top(cpu) = "receive") => InFlight(cpu')
  BY <1>1, <1>2, InvCpuStep
<1>4. ASSUME unread' = "due"
      PROVE  unread = "due" /\ ~Excuse(i) /\ ~(i = "reti" /\ Top(cpu) = "receive")
  BY <1>1, <1>4
<1>5. ASSUME unread' = "due"
      PROVE  cpu'.rir \/ InFlight(cpu')
  <2>1. unread = "due" /\ entered' # "reset" /\ ~(i = "taken" /\ ~InFlight(cpu))
    BY <1>4, <1>5 DEF Excuse, ReceiveInFlight, InFlight
  <2>2. CASE InFlight(cpu)
    BY <1>2, <1>3, <1>4, <1>5, <2>1, <2>2
  <2>3. CASE ~InFlight(cpu)
    BY <1>2, <1>3, <2>1, <2>3 DEF ByteKnown
  <2> QED
    BY <2>2, <2>3
<1>6. ByteKnown'
  BY <1>5 DEF ByteKnown, InFlight
<1> QED
  BY <1>3, <1>4, <1>6 DEF Excuse

(* A byte that is consumed has been read: its flag is down, and without a  *)
(* handler in flight its handler is not in flight either.                  *)
LEMMA ConsumedFacts ==
    ASSUME InvCpu', ByteKnown', Consumed
    PROVE  unread' # "due"
<1>1. ~cpu'.rir /\ cpu'.mark = NONE
  BY DEF Consumed, Pending
<1>2. HardwareFrames(cpu') = {}
  BY <1>1 DEF InvCpu, Guarded, HardwareFrames
<1>3. ~InFlight(cpu')
  BY <1>2 DEF InFlight, HardwareFrames, Hardware
<1> QED
  BY <1>1, <1>3 DEF ByteKnown, InFlight

LEMMA InvInit == BridgeInit => Inv
  BY InvCpuInit DEF BridgeInit, Inv, InvByte, ByteKnown, InvRequest

LEMMA InvStep == Inv /\ [BridgeNext]_bridgeVars => Inv'
<1> SUFFICES ASSUME Inv, [BridgeNext]_bridgeVars PROVE Inv'
  OBVIOUS
<1> USE DEF Inv, InvByte
<1>1. ASSUME UNCHANGED vars
      PROVE  InvCpu'
  BY <1>1 DEF vars, InvCpu, HandlerFindsByte, Guarded, HardwareFrames, Busy
<1>2. ASSUME UNCHANGED <<vars, unread>>
      PROVE  ByteKnown'
  BY <1>2 DEF vars, ByteKnown, InFlight
<1>3. CASE Idle
  <2>1. InvCpu' /\ ByteKnown' /\ (unread' = "due" => unread = "due")
    BY <1>3, ImageFacts DEF Idle
  <2> QED
    BY <1>3, <2>1 DEF Idle, bridge, InvRequest
<1>4. CASE Request
  <2>1. FrameBytes \in Nat \ {0} /\ Chunks \in Nat \ {0} /\ MaxRetries \in Nat
    BY BridgeAssumption
  <2> QED
    BY <1>1, <1>2, <1>4, <2>1 DEF Request, InvRequest
<1>5. CASE SendByte
  <2>1. InvCpu'
    BY <1>5, InvCpuInject DEF SendByte
  <2>2. ByteKnown'
    BY <1>5 DEF SendByte, Inject, InvCpu, Machine, ByteKnown
  <2>3. InvRequest'
    BY <1>5, BridgeAssumption DEF SendByte, InvRequest
  <2> QED
    BY <1>5, <2>1, <2>2, <2>3 DEF SendByte
<1>6. CASE WaitByte
  <2>1. /\ InvCpu' /\ ByteKnown'
        /\ unread' = "due" => ~(steps = 1 /\ ~Consumed)
    BY <1>6, ImageFacts DEF WaitByte
  <2>2. phase' # "wait" => Consumed \/ steps = 1
    BY <1>6 DEF WaitByte
  <2>3. phase' # "wait" => unread' # "due"
    BY <2>1, <2>2, ConsumedFacts
  <2>4. ChunkSteps \in Nat \ {0}
    BY BridgeAssumption
  <2>5. InvRequest'
    BY <1>6, <2>4 DEF WaitByte, InvRequest
  <2> QED
    BY <2>1, <2>3, <2>5
<1>7. CASE Collect
  <2>1. InvCpu' /\ ByteKnown' /\ (unread' = "due" => unread = "due")
    BY <1>7, ImageFacts DEF Collect
  <2> QED
    BY <1>7, <2>1 DEF Collect, InvRequest
<1>8. CASE Retry
  <2>1. FrameBytes \in Nat \ {0} /\ Chunks \in Nat \ {0}
    BY BridgeAssumption
  <2> QED
    BY <1>1, <1>2, <1>8, <2>1 DEF Retry, Return, InvRequest
<1>9. CASE TakeAnswer
  <2>1. ChunkSteps \in Nat \ {0}
    BY BridgeAssumption
  <2> QED
    BY <1>1, <1>2, <1>9, <2>1 DEF TakeAnswer, Return, InvRequest
<1>10. CASE UNCHANGED bridgeVars
  BY <1>1, <1>2, <1>10 DEF bridgeVars, bridge, InvRequest
<1> QED
  BY <1>3, <1>4, <1>5, <1>6, <1>7, <1>8, <1>9, <1>10 DEF BridgeNext, BridgeStep

(* The invariant holds, for every delay, budget and frame and every        *)
(* program of the image.                                                   *)
THEOREM BridgeInvariant == BridgeSpec => []Inv
<1>1. BridgeInit => Inv
  BY InvInit
<1>2. Inv /\ [BridgeNext]_bridgeVars => Inv'
  BY InvStep
<1> QED
  BY <1>1, <1>2, PTL DEF BridgeSpec

(* The guard against nesting: never a second hardware handler, and a       *)
(* watermark exactly while there is one.                                   *)
THEOREM NeverNested == BridgeSpec => []OneHandlerInFlight
<1>1. Inv => OneHandlerInFlight
  BY DEF Inv, InvCpu, Guarded, OneHandlerInFlight
<1> QED
  BY <1>1, BridgeInvariant, PTL

(* No hardware handler is entered in a window of the code it interrupts.   *)
THEOREM WindowsKept == BridgeSpec => []WindowsAreNotInterrupted
<1>1. Inv => WindowsAreNotInterrupted
  BY HandlerCount DEF Inv, InvCpu, WindowsAreNotInterrupted
<1> QED
  BY <1>1, BridgeInvariant, PTL

(* The receive handler is entered for a byte that nobody has taken.        *)
THEOREM HandlerHasByte == BridgeSpec => []HandlerFindsByte
<1>1. Inv => HandlerFindsByte
  BY DEF Inv, InvCpu
<1> QED
  BY <1>1, BridgeInvariant, PTL

(* A byte whose delay has run out waits only while the CPU is busy.        *)
THEOREM NoIdleWait == BridgeSpec => []ReceiveWaitsOnlyWhileBusy
<1>1. Inv => ReceiveWaitsOnlyWhileBusy
  BY DEF Inv, InvCpu, ReceiveWaitsOnlyWhileBusy
<1> QED
  BY <1>1, BridgeInvariant, PTL

(* The bridge writes no byte over one that the receive handler still has   *)
(* to read.                                                                *)
THEOREM BytesKept == BridgeSpec => NoByteOverwritten
<1>1. Inv /\ [BridgeNext]_bridgeVars => [phase = "send" /\ phase' = "wait" => unread # "due"]_bridgeVars
  BY DEF Inv, InvByte
<1> QED
  BY <1>1, BridgeInvariant, PTL DEF BridgeSpec, NoByteOverwritten

(* Every turn of the bridge brings a request nearer to its end, however    *)
(* often the watchdog resets the CPU.                                      *)
THEOREM RequestsEnd == BridgeSpec => RequestEnds
<1> DEFINE Nearer ==
        phase # "idle" =>
            \/ phase' = "idle"
            \/ retries' < retries
            \/ retries' = retries /\ chunks' < chunks
            \/ retries' = retries /\ chunks' = chunks /\ Stage' < Stage
            \/ retries' = retries /\ chunks' = chunks /\ Stage' = Stage /\ steps' < steps
<1>1. Inv /\ [BridgeNext]_bridgeVars => [Nearer]_bridgeVars
  <2> SUFFICES ASSUME Inv, BridgeNext PROVE Nearer
    OBVIOUS
  <2> USE DEF Inv, InvRequest
  <2>1. CASE Idle \/ Request
    BY <2>1 DEF Idle, Request
  <2>2. CASE SendByte
    BY <2>2 DEF SendByte, Stage
  <2>3. CASE WaitByte
    BY <2>3 DEF WaitByte, Stage
  <2>4. CASE Collect
    BY <2>4 DEF Collect, Stage
  <2>5. CASE Retry
    BY <2>5 DEF Retry, Return
  <2>6. CASE TakeAnswer
    BY <2>6 DEF TakeAnswer, Return
  <2> QED
    BY <2>1, <2>2, <2>3, <2>4, <2>5, <2>6 DEF BridgeNext, BridgeStep
<1> QED
  BY <1>1, BridgeInvariant, PTL DEF BridgeSpec, RequestEnds
=============================================================================
