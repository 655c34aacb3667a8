--------------------------- MODULE ToolchainProofs ---------------------------
(***************************************************************************)
(* The assembler, for every program that it expects: what every name       *)
(* means, and that every access stays inside it.                           *)
(***************************************************************************)
EXTENDS Toolchain, MathLemmas, SequenceTheorems

-----------------------------------------------------------------------------
(* What the first pass collects. V[i] are the names that source line i     *)
(* makes variables.                                                        *)

Jumps == {"JMPR", "CALLR", "JMPA", "CALLA", "JMPI", "CALLI", "JMPS", "CALLS"}
JumpOperands == Conditions \cup Places \cup Registers \cup ({"seg"} \X Nat)

LineOperands(mn) ==
    IF mn = "DW" THEN Seq(Int) ELSE IF mn \in Jumps THEN Seq(JumpOperands) ELSE Seq(Operands)
ASequence(s) == \E S : s \in Seq(S)

SettledIn(a) == DOMAIN SpecialNames \cup DOMAIN Literals \cup DOMAIN a.equs \cup DOMAIN a.labels

Nameless(o) == o[1] \notin {"mem", "imm_addr"}

(* A name of W in operand o has a variable, large enough for the operand.  *)
CoveredBy(a, W, o) ==
    o[1] \in {"mem", "imm_addr"} /\ o[2] \in W =>
        o[2] \in DOMAIN a.vars /\ (o \in Cells => o[3] + 2 <= a.vars[o[2]])
Covers(a, V, o) == CoveredBy(a, V[a.count], o)

LineFine(a, V, line) ==
    /\ line.ops \in LineOperands(line.mn) /\ line.at \in Nat
    /\ line.mn # "DW" => \A n \in DOMAIN line.ops : CoveredBy(a, V[line.at], line.ops[n])

(* The names that the first n lines make variables.                        *)
GivenUpTo(V, n) == UNION { V[i] : i \in 1 .. n }

IsTable(a) ==
    a = [lines |-> a.lines, labels |-> a.labels, vars |-> a.vars, equs |-> a.equs, last |-> a.last,
         count |-> a.count]

Fine(a, V) ==
    /\ IsTable(a)
    /\ ASequence(a.lines) /\ \A k \in 1 .. Len(a.lines) : LineFine(a, V, a.lines[k])
    /\ DOMAIN a.vars \subseteq GivenUpTo(V, a.count) /\ \A v \in DOMAIN a.vars : a.vars[v] \in Nat
    /\ \A l \in DOMAIN a.labels : a.labels[l] \in 1 .. Len(a.lines) + 1
    /\ a.last \in 0 .. 15 /\ a.count \in Nat

(* What no expansion changes, and the variables only grow.                 *)
Grown(a, b) ==
    /\ b.labels = a.labels /\ b.equs = a.equs /\ b.count = a.count
    /\ \A v \in DOMAIN a.vars : v \in DOMAIN b.vars /\ a.vars[v] <= b.vars[v]

(* A name is used by the line that is loaded, or it is settled.            *)
Known(a, V, o) ==
    o[1] \in {"mem", "imm_addr"} => a.count > 0 /\ (o[2] \in V[a.count] <=> o[2] \notin SettledIn(a))

LEMMA StillCovered ==
    ASSUME NEW a, NEW b,
           \A v \in DOMAIN a.vars : v \in DOMAIN b.vars /\ a.vars[v] <= b.vars[v],
           \A v \in DOMAIN a.vars : a.vars[v] \in Nat,
           \A v \in DOMAIN b.vars : b.vars[v] \in Nat
    PROVE  \A W, o : CoveredBy(a, W, o) => CoveredBy(b, W, o)
<1> SUFFICES ASSUME NEW W, NEW o, CoveredBy(a, W, o), o[1] \in {"mem", "imm_addr"}, o[2] \in W
             PROVE  o[2] \in DOMAIN b.vars /\ (o \in Cells => o[3] + 2 <= b.vars[o[2]])
  BY DEF CoveredBy
<1>1. o[2] \in DOMAIN a.vars /\ (o \in Cells => o[3] + 2 <= a.vars[o[2]])
  BY DEF CoveredBy
<1>2. /\ o[2] \in DOMAIN b.vars /\ a.vars[o[2]] <= b.vars[o[2]]
      /\ a.vars[o[2]] \in Nat /\ b.vars[o[2]] \in Nat
  BY <1>1
<1>3. o \in Cells => o[3] \in Nat
  BY DEF Cells
<1>4. QED
  BY <1>1, <1>2, <1>3

LEMMA GrownFacts ==
    ASSUME NEW a, NEW b, NEW V, Fine(a, V), Fine(b, V), Grown(a, b)
    PROVE  /\ SettledIn(b) = SettledIn(a)
           /\ \A o : Covers(a, V, o) => Covers(b, V, o)
           /\ \A o : Known(a, V, o) => Known(b, V, o)
<1>1. SettledIn(b) = SettledIn(a) /\ b.count = a.count
  BY DEF Grown, SettledIn
<1>2. /\ \A v \in DOMAIN a.vars : v \in DOMAIN b.vars /\ a.vars[v] <= b.vars[v]
      /\ \A v \in DOMAIN a.vars : a.vars[v] \in Nat
      /\ \A v \in DOMAIN b.vars : b.vars[v] \in Nat
  BY DEF Grown, Fine
<1>3. \A W, o : CoveredBy(a, W, o) => CoveredBy(b, W, o)
  BY <1>2, StillCovered
<1>4. QED
  BY <1>1, <1>3, Zenon DEF Known, Covers

LEMMA GrownTwice ==
    ASSUME NEW a, NEW b, NEW c, NEW V, Fine(a, V), Fine(b, V), Fine(c, V), Grown(a, b), Grown(b, c)
    PROVE  Grown(a, c)
<1>1. ASSUME NEW v \in DOMAIN a.vars PROVE v \in DOMAIN c.vars /\ a.vars[v] <= c.vars[v]
  <2>1. v \in DOMAIN b.vars /\ a.vars[v] <= b.vars[v] /\ a.vars[v] \in Nat
    BY DEF Grown, Fine
  <2>2. v \in DOMAIN c.vars /\ b.vars[v] <= c.vars[v] /\ b.vars[v] \in Nat /\ c.vars[v] \in Nat
    BY <2>1 DEF Grown, Fine
  <2>3. QED
    BY <2>1, <2>2
<1>2. QED
  BY <1>1 DEF Grown

LEMMA GivenNow ==
    ASSUME NEW V, NEW n \in Nat, n > 0 PROVE V[n] \subseteq GivenUpTo(V, n)
<1>1. n \in 1 .. n
  OBVIOUS
<1>2. QED
  BY <1>1, Zenon DEF GivenUpTo

LEMMA ReservedFields ==
    ASSUME NEW a, IsTable(a), NEW name, NEW size
    PROVE  LET size0 == IF name \in DOMAIN a.vars THEN a.vars[name] ELSE 2
           IN  Reserved(a, name, size) =
                   [lines |-> a.lines, labels |-> a.labels,
                    vars |-> With(a.vars, name, Larger(size0, size)),
                    equs |-> a.equs, last |-> a.last, count |-> a.count]
  BY DEF IsTable, Reserved

LEMMA ReservedFine ==
    ASSUME NEW a, NEW V, Fine(a, V), a.count > 0, NEW name \in V[a.count], NEW size \in Nat, NEW b, b = Reserved(a, name, size)
    PROVE  /\ Fine(b, V) /\ Grown(a, b) /\ b.lines = a.lines
           /\ name \in DOMAIN b.vars /\ size <= b.vars[name]
<1> DEFINE size0 == IF name \in DOMAIN a.vars THEN a.vars[name] ELSE 2
<1>1. size0 \in Nat
  BY DEF Fine
<1>2. PICK m \in Nat : m = Larger(size0, size)
  BY <1>1 DEF Larger
<1>3. size0 <= m /\ size <= m
  BY <1>1, <1>2 DEF Larger
<1>4. /\ b = [lines |-> a.lines, labels |-> a.labels, vars |-> With(a.vars, name, m),
              equs |-> a.equs, last |-> a.last, count |-> a.count]
  BY <1>2, ReservedFields DEF Fine
<1> HIDE DEF size0
<1>5. /\ b.lines = a.lines /\ b.labels = a.labels /\ b.vars = With(a.vars, name, m)
      /\ b.equs = a.equs /\ b.last = a.last /\ b.count = a.count /\ IsTable(b)
  BY <1>4 DEF IsTable
<1>6. /\ DOMAIN b.vars = DOMAIN a.vars \cup {name} /\ b.vars[name] = m
      /\ \A v \in DOMAIN a.vars : v # name => b.vars[v] = a.vars[v]
  BY <1>5 DEF With
<1>7. \A v \in DOMAIN a.vars : v \in DOMAIN b.vars /\ a.vars[v] <= b.vars[v]
  <2> SUFFICES ASSUME NEW v \in DOMAIN a.vars PROVE v \in DOMAIN b.vars /\ a.vars[v] <= b.vars[v]
    OBVIOUS
  <2>1. a.vars[v] \in Nat
    BY DEF Fine
  <2>2. CASE v = name
    <3>1. size0 = a.vars[v]
      BY <2>2 DEF size0
    <3>2. QED
      BY <1>3, <1>6, <2>2, <3>1
  <2>3. CASE v # name
    BY <1>6, <2>1, <2>3
  <2>4. QED
    BY <2>2, <2>3
<1>8. DOMAIN b.vars \subseteq GivenUpTo(V, b.count) /\ \A v \in DOMAIN b.vars : b.vars[v] \in Nat
  <2>1. name \in GivenUpTo(V, a.count)
    BY GivenNow DEF Fine
  <2>2. QED
    BY <1>5, <1>6, <2>1 DEF Fine
<1>9. \A W, o : CoveredBy(a, W, o) => CoveredBy(b, W, o)
  BY <1>7, <1>8, StillCovered DEF Fine
<1>10. \A k \in 1 .. Len(b.lines) : LineFine(b, V, b.lines[k])
  BY <1>5, <1>9, Zenon DEF LineFine, Fine
<1>12. Fine(b, V)
  BY <1>5, <1>8, <1>10, Zenon DEF Fine
<1>13. QED
  BY <1>3, <1>5, <1>6, <1>7, <1>12 DEF Grown

LEMMA NotedFine ==
    ASSUME NEW a, NEW V, Fine(a, V), NEW o \in Operands, Known(a, V, o), NEW b, b = Noted(a, o)
    PROVE  /\ Fine(b, V) /\ Grown(a, b) /\ b.lines = a.lines
           /\ Covers(b, V, o)
<1> USE DEF Covers
<1>1. CASE o[1] \in {"mem", "imm_addr"} /\ o[2] \notin SettledIn(a)
  <2>1. PICK size \in Nat : size = (IF IsMem(o) THEN o[3] ELSE 0) + 2
    <3>1. IsMem(o) => o \in Cells
      BY DEF IsMem, Operands, Cells, Registers
    <3>2. IsMem(o) => o[3] \in Nat
      BY <3>1 DEF Cells
    <3>3. QED
      BY <3>2
  <2>2. b = Reserved(a, o[2], size) /\ o[2] \in V[a.count] /\ a.count > 0
    BY <1>1, <2>1 DEF Noted, SettledIn, Known
  <2>3. /\ Fine(b, V) /\ Grown(a, b) /\ b.lines = a.lines
        /\ o[2] \in DOMAIN b.vars /\ size <= b.vars[o[2]]
    BY <2>2, ReservedFine
  <2>4. o \in Cells => size = o[3] + 2
    BY <2>1 DEF Cells, IsMem
  <2>5. QED
    <3>1. b.vars[o[2]] \in Nat /\ (o \in Cells => o[3] \in Nat)
      BY <2>3 DEF Fine, Cells
    <3>2. QED
      BY <2>1, <2>3, <2>4, <3>1 DEF CoveredBy
<1>2. CASE ~(o[1] \in {"mem", "imm_addr"} /\ o[2] \notin SettledIn(a))
  <2>1. b = a
    BY <1>2 DEF Noted, SettledIn
  <2>2. o[1] \in {"mem", "imm_addr"} => o[2] \notin V[a.count]
    BY <1>2 DEF Known
  <2>3. Grown(a, a)
    BY DEF Grown, Fine
  <2>4. QED
    BY <2>1, <2>2, <2>3 DEF CoveredBy
<1>3. QED
  BY <1>1, <1>2

LEMMA EmitFine ==
    ASSUME NEW a, NEW V, Fine(a, V), NEW mn, NEW ops \in LineOperands(mn),
           mn # "DW" => \A n \in DOMAIN ops : Covers(a, V, ops[n]),
           NEW b, b = Emit(a, mn, ops)
    PROVE  Fine(b, V) /\ Grown(a, b)
<1> DEFINE line == [mn |-> mn, ops |-> ops, at |-> a.count]
<1>1. /\ b.lines = Append(a.lines, line) /\ b.labels = a.labels /\ b.vars = a.vars
      /\ b.equs = a.equs /\ b.last = a.last /\ b.count = a.count /\ IsTable(b)
  <2>1. b = [lines |-> Append(a.lines, line), labels |-> a.labels, vars |-> a.vars, equs |-> a.equs,
             last |-> a.last, count |-> a.count]
    BY DEF Fine, IsTable, Emit
  <2> HIDE DEF line
  <2>2. QED
    BY <2>1 DEF IsTable
<1>2. PICK S : a.lines \in Seq(S)
  BY DEF Fine, ASequence
<1>3. LineFine(a, V, line)
  BY DEF LineFine, Covers, Fine
<1> HIDE DEF line
<1>4. a.lines \in Seq(S \cup {line}) /\ line \in S \cup {line}
  BY <1>2
<1>5. /\ b.lines \in Seq(S \cup {line}) /\ Len(b.lines) = Len(a.lines) + 1 /\ Len(a.lines) \in Nat
      /\ b.lines[Len(a.lines) + 1] = line
      /\ \A k \in 1 .. Len(a.lines) : b.lines[k] = a.lines[k]
  BY <1>1, <1>4
<1>6. \A W, o : CoveredBy(b, W, o) <=> CoveredBy(a, W, o)
  BY <1>1, Zenon DEF CoveredBy
<1>7. \A k \in 1 .. Len(b.lines) : LineFine(a, V, b.lines[k])
  <2> SUFFICES ASSUME NEW k \in 1 .. Len(b.lines) PROVE LineFine(a, V, b.lines[k])
    OBVIOUS
  <2>1. CASE k \in 1 .. Len(a.lines)
    BY <1>5, <2>1 DEF Fine
  <2>2. CASE k = Len(a.lines) + 1
    BY <1>3, <1>5, <2>2
  <2>3. QED
    BY <1>5, <2>1, <2>2
<1>8. \A k \in 1 .. Len(b.lines) : LineFine(b, V, b.lines[k])
  BY <1>6, <1>7, Zenon DEF LineFine
<1>9. \A l \in DOMAIN b.labels : b.labels[l] \in 1 .. Len(b.lines) + 1
  BY <1>1, <1>5 DEF Fine
<1>11. /\ DOMAIN b.vars \subseteq GivenUpTo(V, b.count) /\ \A v \in DOMAIN b.vars : b.vars[v] \in Nat
       /\ b.last \in 0 .. 15 /\ b.count \in Nat
  BY <1>1 DEF Fine
<1>12. Fine(b, V)
  BY <1>1, <1>5, <1>8, <1>9, <1>11, Zenon DEF Fine, ASequence
<1>13. \A v \in DOMAIN a.vars : a.vars[v] <= b.vars[v]
  BY <1>1 DEF Fine
<1>14. QED
  BY <1>1, <1>12, <1>13 DEF Grown

LEMMA LastFine ==
    ASSUME NEW a, NEW V, Fine(a, V), NEW n \in 0 .. 15, NEW b, b = [a EXCEPT !.last = n]
    PROVE  Fine(b, V) /\ Grown(a, b)
<1>1. /\ b.lines = a.lines /\ b.labels = a.labels /\ b.vars = a.vars
      /\ b.equs = a.equs /\ b.last = n /\ b.count = a.count /\ IsTable(b)
  <2>1. b = [lines |-> a.lines, labels |-> a.labels, vars |-> a.vars, equs |-> a.equs,
             last |-> n, count |-> a.count]
    BY DEF Fine, IsTable
  <2>2. QED
    BY <2>1 DEF IsTable
<1>2. \A k \in 1 .. Len(b.lines) : LineFine(b, V, b.lines[k])
  <2>1. \A W, o : CoveredBy(b, W, o) <=> CoveredBy(a, W, o)
    BY <1>1, Zenon DEF CoveredBy
  <2>2. \A k \in 1 .. Len(b.lines) : LineFine(a, V, b.lines[k])
    BY <1>1 DEF Fine
  <2>3. QED
    BY <2>1, <2>2, Zenon DEF LineFine
<1>4. Fine(b, V)
  BY <1>1, <1>2, Zenon DEF Fine
<1>5. \A v \in DOMAIN a.vars : a.vars[v] <= b.vars[v]
  BY <1>1 DEF Fine
<1>6. QED
  BY <1>1, <1>4, <1>5 DEF Grown

(* Operands and what they are not.                                         *)
LEMMA OperandKinds ==
    ASSUME NEW o
    PROVE  /\ o \in Registers => o \in Operands /\ Nameless(o) /\ IsReg(o) /\ o[1] = "reg" /\ o[2] \in 0 .. 15
           /\ o \in Cells => o \in Operands /\ ~IsReg(o) /\ IsMem(o) /\ o[2] \in Symbols /\ o[3] \in Nat
           /\ o \in Operands => (IsReg(o) <=> o \in Registers) /\ (IsMem(o) <=> o \in Cells)
           /\ o \in JumpOperands => Nameless(o)
           /\ Nameless(o) => o \notin Cells
<1>1. o \in Registers => o \in Operands /\ Nameless(o) /\ IsReg(o) /\ o[1] = "reg" /\ o[2] \in 0 .. 15
  BY DEF Registers, Nameless, Operands, IsReg
<1>2. o \in Cells => o \in Operands /\ ~IsReg(o) /\ IsMem(o) /\ o[2] \in Symbols /\ o[3] \in Nat
  BY DEF Cells, Operands, IsReg, IsMem
<1>3. o \in Operands => (IsReg(o) <=> o \in Registers) /\ (IsMem(o) <=> o \in Cells)
  BY DEF Registers, Cells, Operands, IsReg, IsMem
<1>4. o \in JumpOperands => Nameless(o)
  BY DEF Registers, Nameless, JumpOperands, Conditions, Places, Labels
<1>5. Nameless(o) => o \notin Cells
  BY DEF Nameless, Cells
<1>6. QED
  BY <1>1, <1>2, <1>3, <1>4, <1>5

LEMMA RegFine == \A n \in 0 .. 15 : Reg(n) \in Registers /\ Reg(n)[2] = n
  BY DEF Reg, Registers

LEMMA NotCovered ==
    ASSUME NEW a, NEW V, NEW o, Nameless(o) PROVE Covers(a, V, o)
  BY DEF Covers, CoveredBy, Nameless

LEMMA Pair ==
    ASSUME NEW S, NEW x \in S, NEW y \in S
    PROVE  /\ <<x, y>> \in Seq(S) /\ Len(<<x, y>>) = 2 /\ DOMAIN <<x, y>> = 1 .. 2
           /\ <<x, y>>[1] = x /\ <<x, y>>[2] = y
  OBVIOUS

LEMMA FunctionIsSequence ==
    ASSUME NEW S, NEW n \in Nat, NEW s \in [1 .. n -> S]
    PROVE  s \in Seq(S) /\ Len(s) = n /\ DOMAIN s = 1 .. n
<1>1. s \in Seq(S)
  BY SeqDef, Zenon
<1>2. Len(s) \in Nat /\ DOMAIN s = 1 .. Len(s)
  BY <1>1, LenProperties
<1>3. DOMAIN s = 1 .. n
  OBVIOUS
<1>4. QED
  BY <1>1, <1>2, <1>3

(* An instruction of two operands is emitted.                              *)
LEMMA EmitPair ==
    ASSUME NEW a, NEW V, Fine(a, V), NEW mn, mn # "DW", mn \notin Jumps,
           NEW x \in Operands, NEW y \in Operands, Covers(a, V, x), Covers(a, V, y),
           NEW b, b = Emit(a, mn, <<x, y>>)
    PROVE  Fine(b, V) /\ Grown(a, b)
<1> DEFINE ops == <<x, y>>
<1>1. ops \in Seq(Operands) /\ DOMAIN ops = 1 .. 2 /\ ops[1] = x /\ ops[2] = y
  BY Pair
<1>2. b = Emit(a, mn, ops)
  OBVIOUS
<1> HIDE DEF ops
<1>3. ops \in LineOperands(mn)
  BY <1>1 DEF LineOperands
<1>4. \A n \in DOMAIN ops : n = 1 \/ n = 2
  BY <1>1
<1>5. \A n \in DOMAIN ops : Covers(a, V, ops[n])
  BY <1>1, <1>4, Zenon
<1>6. QED
  BY <1>2, <1>3, <1>5, EmitFine

LEMMA EmitOne ==
    ASSUME NEW a, NEW V, Fine(a, V), NEW mn, mn # "DW", mn \notin Jumps,
           NEW x \in Operands, Covers(a, V, x), NEW b, b = Emit(a, mn, <<x>>)
    PROVE  Fine(b, V) /\ Grown(a, b)
<1> DEFINE ops == <<x>>
<1>1. ops \in Seq(Operands) /\ DOMAIN ops = 1 .. 1 /\ ops[1] = x
  OBVIOUS
<1>2. b = Emit(a, mn, ops)
  OBVIOUS
<1> HIDE DEF ops
<1>3. ops \in LineOperands(mn)
  BY <1>1 DEF LineOperands
<1>4. \A n \in DOMAIN ops : n = 1
  BY <1>1
<1>5. \A n \in DOMAIN ops : Covers(a, V, ops[n])
  BY <1>1, <1>4, Zenon
<1>6. QED
  BY <1>2, <1>3, <1>5, EmitFine

LEMMA MoveFine ==
    ASSUME NEW a, NEW V, Fine(a, V), NEW x \in Operands, NEW y \in Operands,
           Covers(a, V, x), Covers(a, V, y), NEW b, b = Move(a, x, y)
    PROVE  Fine(b, V) /\ Grown(a, b)
<1>1. b = Emit(a, "MOV", <<x, y>>)
  BY DEF Move
<1>2. "MOV" # "DW" /\ "MOV" \notin Jumps
  BY DEF Jumps
<1>3. QED
  BY <1>1, <1>2, EmitPair

(* Two operands are noted, and then both are covered.                      *)
LEMMA NotedTwo ==
    ASSUME NEW a, NEW V, Fine(a, V), NEW x \in Operands, NEW y \in Operands,
           Known(a, V, x), Known(a, V, y), NEW b, b = Noted(Noted(a, x), y)
    PROVE  Fine(b, V) /\ Grown(a, b) /\ Covers(b, V, x) /\ Covers(b, V, y)
<1>1. PICK c : c = Noted(a, x)
  OBVIOUS
<1>2. Fine(c, V) /\ Grown(a, c) /\ Covers(c, V, x)
  BY <1>1, NotedFine
<1>3. Known(c, V, y)
  BY <1>2, GrownFacts
<1>4. b = Noted(c, y)
  BY <1>1
<1>5. Fine(b, V) /\ Grown(c, b) /\ Covers(b, V, y)
  BY <1>2, <1>3, <1>4, NotedFine
<1>6. Covers(b, V, x)
  BY <1>2, <1>5, GrownFacts
<1>7. Grown(a, b)
  BY <1>2, <1>5, GrownTwice
<1>8. QED
  BY <1>5, <1>6, <1>7

(* A move through a scratch register.                                      *)
LEMMA MoveTwice ==
    ASSUME NEW a, NEW V, Fine(a, V), NEW x \in Operands, NEW y \in Operands, NEW z \in Registers,
           Covers(a, V, x), Covers(a, V, y), NEW b, b = Move(Move(a, z, y), x, z)
    PROVE  Fine(b, V) /\ Grown(a, b)
<1>1. z \in Operands /\ \A c : Covers(c, V, z)
  BY OperandKinds, NotCovered
<1>2. PICK c : c = Move(a, z, y)
  OBVIOUS
<1>3. Fine(c, V) /\ Grown(a, c)
  BY <1>1, <1>2, MoveFine
<1>4. Covers(c, V, x)
  BY <1>3, GrownFacts
<1>5. b = Move(c, x, z)
  BY <1>2
<1>6. Fine(b, V) /\ Grown(c, b)
  BY <1>1, <1>3, <1>4, <1>5, MoveFine
<1>7. QED
  BY <1>3, <1>6, GrownTwice

LEMMA ExpandMovFine ==
    ASSUME NEW a, NEW V, Fine(a, V), NEW dst \in Operands, NEW src \in Operands,
           Known(a, V, dst), Known(a, V, src), NEW c, c = ExpandMov(a, dst, src)
    PROVE  Fine(c, V) /\ Grown(a, c) /\ Covers(c, V, dst) /\ Covers(c, V, src)
<1>1. PICK b : b = Noted(Noted(a, dst), src)
  OBVIOUS
<1>2. Fine(b, V) /\ Grown(a, b) /\ Covers(b, V, dst) /\ Covers(b, V, src)
  BY <1>1, NotedTwo
<1> DEFINE toMDL == IsMem(dst) /\ dst[2] = MDLName
           indirectly == IsMem(dst) /\ src[1] \in {"imm", "mem"}
<1>3. SUFFICES Fine(c, V) /\ Grown(b, c)
  BY <1>2, GrownTwice, GrownFacts
<1>4. CASE toMDL /\ IsReg(src)
  <2>1. PICK d : d = Move(b, dst, src)
    OBVIOUS
  <2>2. Fine(d, V) /\ Grown(b, d)
    BY <1>2, <2>1, MoveFine
  <2>3. c = [d EXCEPT !.last = src[2]]
    BY <1>1, <1>4, <2>1 DEF ExpandMov, IsReg
  <2>4. src[2] \in 0 .. 15
    BY <1>4, OperandKinds
  <2>5. Fine(c, V) /\ Grown(d, c)
    BY <2>2, <2>3, <2>4, LastFine
  <2>6. QED
    BY <1>2, <2>2, <2>5, GrownTwice
<1>5. CASE indirectly /\ toMDL
  <2>1. PICK d : d = Move(Move(b, Reg(ScratchMul), src), dst, Reg(ScratchMul))
    OBVIOUS
  <2>2. Reg(ScratchMul) \in Registers /\ ScratchMul \in 0 .. 15
    BY RegFine DEF ScratchMul
  <2>3. Fine(d, V) /\ Grown(b, d)
    BY <1>2, <2>1, <2>2, MoveTwice
  <2>4. ~IsReg(src)
    BY <1>5 DEF IsReg
  <2>5. c = [d EXCEPT !.last = ScratchMul]
    BY <1>1, <1>5, <2>1, <2>4 DEF ExpandMov
  <2>6. Fine(c, V) /\ Grown(d, c)
    BY <2>2, <2>3, <2>5, LastFine
  <2>7. QED
    BY <1>2, <2>3, <2>6, GrownTwice
<1>6. CASE indirectly /\ ~toMDL
  <2>1. Reg(ScratchMem) \in Registers
    BY RegFine DEF ScratchMem
  <2>2. c = Move(Move(b, Reg(ScratchMem), src), dst, Reg(ScratchMem))
    BY <1>1, <1>6 DEF ExpandMov
  <2>3. QED
    BY <1>2, <2>1, <2>2, MoveTwice
<1>7. CASE ~indirectly /\ ~(toMDL /\ IsReg(src))
  <2>1. c = Move(b, dst, src)
    BY <1>1, <1>7 DEF ExpandMov
  <2>2. QED
    BY <1>2, <2>1, MoveFine
<1>8. QED
  BY <1>4, <1>5, <1>6, <1>7

LEMMA InRegFine ==
    ASSUME NEW a, NEW V, Fine(a, V), NEW o \in Registers \cup Cells, Known(a, V, o),
           NEW n \in 0 .. 15, NEW b, b = InReg(a, o, n)
    PROVE  Fine(b, V) /\ Grown(a, b) /\ RegOf(o, n) \in Registers /\ Covers(b, V, o)
<1>1. Grown(a, a)
  BY DEF Grown, Fine
<1>2. CASE IsReg(o)
  <2>1. o \in Registers
    BY <1>2, OperandKinds
  <2>2. Covers(a, V, o)
    BY <2>1, OperandKinds, NotCovered
  <2>3. QED
    BY <1>1, <1>2, <2>1, <2>2 DEF InReg, RegOf
<1>3. CASE ~IsReg(o)
  <2>1. o \in Operands /\ Reg(n) \in Registers /\ Reg(n) \in Operands /\ Nameless(Reg(n))
    BY OperandKinds, RegFine
  <2>2. PICK c : c = Noted(a, o)
    OBVIOUS
  <2>3. Fine(c, V) /\ Grown(a, c) /\ Covers(c, V, o) /\ Covers(c, V, Reg(n))
    BY <2>1, <2>2, NotedFine, NotCovered
  <2>4. b = Move(c, Reg(n), o)
    BY <1>3, <2>2 DEF InReg
  <2>5. Fine(b, V) /\ Grown(c, b)
    BY <2>1, <2>3, <2>4, MoveFine
  <2>6. Grown(a, b) /\ Covers(b, V, o)
    BY <2>3, <2>5, GrownTwice, GrownFacts
  <2>7. QED
    BY <1>3, <2>1, <2>5, <2>6 DEF RegOf
<1>4. QED
  BY <1>2, <1>3

LEMMA StackOperandFine ==
    /\ StackOperand \in Operands
    /\ \A a, V : Known(a, V, StackOperand) => Covers(a, V, StackOperand)
<1>1. StackOperand \in Operands /\ StackOperand \in Cells /\ StackOperand[2] = "SP"
  BY DEF StackOperand, Cells, Operands, Symbols, SpecialNames
<1>2. "SP" \in DOMAIN SpecialNames
  BY DEF SpecialNames
<1>3. ASSUME NEW a, NEW V, Known(a, V, StackOperand) PROVE Covers(a, V, StackOperand)
  <2>1. StackOperand[2] \in SettledIn(a)
    BY <1>1, <1>2 DEF SettledIn
  <2>2. StackOperand[1] \in {"mem", "imm_addr"}
    BY DEF StackOperand
  <2>3. QED
    BY <1>3, <2>1, <2>2 DEF Covers, CoveredBy, Known
<1>4. QED
  BY <1>1, <1>3

LEMMA ExpandStackFine ==
    ASSUME NEW a, NEW V, Fine(a, V), NEW mn \in {"ADD", "SUB"}, NEW n \in Operands, n[1] = "imm",
           Known(a, V, StackOperand), NEW b, b = ExpandStack(a, mn, n)
    PROVE  Fine(b, V) /\ Grown(a, b) /\ Covers(b, V, StackOperand) /\ Covers(b, V, n)
<1>1. PICK s, p, q : s = StackOperand /\ p = Reg(13) /\ q = Reg(14)
  OBVIOUS
<1>2. /\ s \in Operands /\ p \in Operands /\ q \in Operands
      /\ Covers(a, V, s) /\ \A c : Covers(c, V, p) /\ Covers(c, V, q) /\ Covers(c, V, n)
  <2>1. p \in Registers /\ q \in Registers
    BY <1>1, RegFine
  <2>2. p \in Operands /\ q \in Operands /\ Nameless(p) /\ Nameless(q)
    BY <2>1, OperandKinds
  <2>3. Nameless(n)
    BY DEF Nameless
  <2>4. QED
    BY <1>1, <2>2, <2>3, StackOperandFine, NotCovered
<1>3. mn # "DW" /\ mn \notin Jumps
  BY DEF Jumps
<1>4. PICK c : c = Move(a, p, s)
  OBVIOUS
<1>5. Fine(c, V) /\ Grown(a, c)
  BY <1>2, <1>4, MoveFine
<1>6. PICK d : d = Move(c, q, n)
  OBVIOUS
<1>7. Fine(d, V) /\ Grown(c, d)
  BY <1>2, <1>5, <1>6, MoveFine
<1>8. PICK e : e = Emit(d, mn, <<p, q>>)
  OBVIOUS
<1>9. Fine(e, V) /\ Grown(d, e)
  BY <1>2, <1>3, <1>7, <1>8, EmitPair
<1>10. b = Move(e, s, p)
  BY <1>1, <1>4, <1>6, <1>8 DEF ExpandStack
<1>11. Grown(a, d)
  BY <1>5, <1>7, GrownTwice
<1>12. Grown(a, e)
  BY <1>7, <1>9, <1>11, GrownTwice
<1>13. Covers(e, V, s)
  BY <1>2, <1>9, <1>12, GrownFacts
<1>14. Fine(b, V) /\ Grown(e, b)
  BY <1>2, <1>9, <1>10, <1>13, MoveFine
<1>15. Grown(a, b)
  BY <1>9, <1>12, <1>14, GrownTwice
<1>16. QED
  BY <1>1, <1>2, <1>14, <1>15, GrownFacts

LEMMA ExpandMultiplyFine ==
    ASSUME NEW a, NEW V, Fine(a, V), NEW mn \in {"MUL", "MULU"},
           NEW ops, ops \in [1 .. 1 -> Registers \cup Cells] \cup [1 .. 2 -> Registers \cup Cells],
           \A k \in DOMAIN ops : Known(a, V, ops[k]),
           NEW b, b = ExpandMultiply(a, mn, ops)
    PROVE  Fine(b, V) /\ Grown(a, b) /\ \A k \in DOMAIN ops : Covers(b, V, ops[k])
<1>1. mn # "DW" /\ mn \notin Jumps
  BY DEF Jumps
<1>2. ScratchMul \in 0 .. 15 /\ ScratchMem \in 0 .. 15
  BY DEF ScratchMul, ScratchMem
<1>3. CASE ops \in [1 .. 2 -> Registers \cup Cells]
  <2>1. PICK x \in Registers \cup Cells, y \in Registers \cup Cells : x = ops[1] /\ y = ops[2]
    BY <1>3
  <2>2. Known(a, V, x) /\ Known(a, V, y)
    BY <1>3, <2>1
  <2>3. ops \in Seq(Registers \cup Cells) /\ Len(ops) = 2
    BY <1>3, FunctionIsSequence
  <2>4. PICK c : c = InReg(a, x, ScratchMul)
    OBVIOUS
  <2>5. Fine(c, V) /\ Grown(a, c) /\ RegOf(x, ScratchMul) \in Registers /\ Covers(c, V, x)
    BY <1>2, <2>2, <2>4, InRegFine
  <2>6. Known(c, V, y)
    BY <2>2, <2>5, GrownFacts
  <2>7. PICK d : d = InReg(c, y, ScratchMem)
    OBVIOUS
  <2>8. Fine(d, V) /\ Grown(c, d) /\ RegOf(y, ScratchMem) \in Registers /\ Covers(d, V, y)
    BY <1>2, <2>5, <2>6, <2>7, InRegFine
  <2>9. b = Emit(d, mn, <<RegOf(x, ScratchMul), RegOf(y, ScratchMem)>>)
    BY <2>1, <2>3, <2>4, <2>7 DEF ExpandMultiply
  <2>10. PICK u, v : u = RegOf(x, ScratchMul) /\ v = RegOf(y, ScratchMem)
    OBVIOUS
  <2>11. /\ u \in Operands /\ v \in Operands
         /\ Covers(d, V, u) /\ Covers(d, V, v)
    BY <2>5, <2>8, <2>10, OperandKinds, NotCovered
  <2>12. Fine(b, V) /\ Grown(d, b)
    BY <1>1, <2>8, <2>9, <2>10, <2>11, EmitPair
  <2>13. Grown(a, d)
    BY <2>5, <2>8, GrownTwice
  <2>14. Grown(a, b) /\ Covers(b, V, x) /\ Covers(b, V, y)
    BY <2>5, <2>8, <2>12, <2>13, GrownTwice, GrownFacts
  <2>15. \A k \in DOMAIN ops : ops[k] = x \/ ops[k] = y
    BY <1>3, <2>1
  <2>16. QED
    BY <2>12, <2>14, <2>15, Zenon
<1>4. CASE ops \in [1 .. 1 -> Registers \cup Cells]
  <2>1. PICK x \in Registers \cup Cells : x = ops[1]
    BY <1>4
  <2>2. Known(a, V, x)
    BY <1>4, <2>1
  <2>3. ops \in Seq(Registers \cup Cells) /\ Len(ops) = 1
    BY <1>4, FunctionIsSequence
  <2>4. PICK c : c = InReg(a, x, ScratchMem)
    OBVIOUS
  <2>5. Fine(c, V) /\ Grown(a, c) /\ RegOf(x, ScratchMem) \in Registers /\ Covers(c, V, x)
    BY <1>2, <2>2, <2>4, InRegFine
  <2>6. b = Emit(c, mn, <<Reg(a.last), RegOf(x, ScratchMem)>>)
    BY <2>1, <2>3, <2>4 DEF ExpandMultiply
  <2>7. PICK u, v : u = Reg(a.last) /\ v = RegOf(x, ScratchMem)
    OBVIOUS
  <2>8. u \in Registers
    BY <2>7, RegFine DEF Fine
  <2>9. /\ u \in Operands /\ v \in Operands
        /\ Covers(c, V, u) /\ Covers(c, V, v)
    BY <2>5, <2>7, <2>8, OperandKinds, NotCovered
  <2>10. Fine(b, V) /\ Grown(c, b)
    BY <1>1, <2>5, <2>6, <2>7, <2>9, EmitPair
  <2>11. Grown(a, b) /\ Covers(b, V, x)
    BY <2>5, <2>10, GrownTwice, GrownFacts
  <2>12. \A k \in DOMAIN ops : ops[k] = x
    BY <1>4, <2>1
  <2>13. QED
    BY <2>10, <2>11, <2>12, Zenon
<1>5. QED
  BY <1>3, <1>4

LEMMA NotedBothFine ==
    ASSUME NEW a, NEW V, Fine(a, V),
           NEW ops, ops \in {<<>>} \cup [1 .. 1 -> Operands] \cup [1 .. 2 -> Operands],
           \A k \in DOMAIN ops : Known(a, V, ops[k]), NEW b, b = NotedBoth(a, ops)
    PROVE  /\ Fine(b, V) /\ Grown(a, b) /\ ops \in Seq(Operands)
           /\ \A k \in DOMAIN ops : Covers(b, V, ops[k])
<1>1. CASE ops = <<>>
  <2>1. b = a
    BY <1>1 DEF NotedBoth
  <2>2. Grown(a, a)
    BY DEF Grown, Fine
  <2>3. QED
    BY <1>1, <2>1, <2>2
<1>2. CASE ops \in [1 .. 1 -> Operands]
  <2>1. ops \in Seq(Operands) /\ Len(ops) = 1 /\ DOMAIN ops = 1 .. 1
    BY <1>2, FunctionIsSequence
  <2>2. PICK x \in Operands : x = ops[1]
    BY <1>2
  <2>3. Known(a, V, x)
    BY <2>1, <2>2
  <2>4. b = Noted(a, x)
    <3>1. ops # <<>>
      BY <2>1
    <3>2. QED
      BY <2>1, <2>2, <3>1 DEF NotedBoth
  <2>5. Fine(b, V) /\ Grown(a, b) /\ Covers(b, V, x)
    BY <2>3, <2>4, NotedFine
  <2>6. \A k \in DOMAIN ops : ops[k] = x
    BY <2>1, <2>2
  <2>7. QED
    BY <2>1, <2>5, <2>6, Zenon
<1>3. CASE ops \in [1 .. 2 -> Operands]
  <2>1. ops \in Seq(Operands) /\ Len(ops) = 2 /\ DOMAIN ops = 1 .. 2
    BY <1>3, FunctionIsSequence
  <2>2. PICK x \in Operands, y \in Operands : x = ops[1] /\ y = ops[2]
    BY <1>3
  <2>3. Known(a, V, x) /\ Known(a, V, y)
    BY <2>1, <2>2
  <2>4. b = Noted(Noted(a, x), y)
    <3>1. ops # <<>>
      BY <2>1
    <3>2. QED
      BY <2>1, <2>2, <3>1 DEF NotedBoth
  <2>5. Fine(b, V) /\ Grown(a, b) /\ Covers(b, V, x) /\ Covers(b, V, y)
    BY <2>3, <2>4, NotedTwo
  <2>6. \A k \in DOMAIN ops : ops[k] = x \/ ops[k] = y
    BY <2>1, <2>2
  <2>7. QED
    BY <2>1, <2>5, <2>6, Zenon
<1>4. QED
  BY <1>1, <1>2, <1>3

(* What is not an operand of an instruction is covered by being none.      *)
LEMMA EmitJump ==
    ASSUME NEW a, NEW V, Fine(a, V), NEW mn \in Jumps, NEW ops \in Seq(JumpOperands),
           NEW b, b = Emit(a, mn, ops)
    PROVE  Fine(b, V) /\ Grown(a, b) /\ \A n \in DOMAIN ops : Covers(b, V, ops[n])
<1>1. mn # "DW" /\ ops \in LineOperands(mn)
  BY DEF Jumps, LineOperands
<1>2. \A n \in DOMAIN ops : ops[n] \in JumpOperands
  BY LenProperties, ElementOfSeq
<1>3. \A n \in DOMAIN ops : Covers(a, V, ops[n]) /\ Covers(b, V, ops[n])
  BY <1>2, OperandKinds, NotCovered
<1>4. QED
  BY <1>1, <1>3, EmitFine

LEMMA LowByteFine ==
    ASSUME NEW o \in Operands
    PROVE  /\ LowByte(o) \in Operands
           /\ \A a, V : Known(a, V, o) => Known(a, V, LowByte(o))
           /\ \A a, V : Covers(a, V, LowByte(o)) => Covers(a, V, o)
<1>1. CASE IsReg(o)
  <2>1. o[2] \in 0 .. 15
    BY <1>1, OperandKinds
  <2>2. PICK k \in 0 .. 30 : k = 2 * o[2]
    BY <2>1
  <2>3. LowByte(o) = <<"breg", k>>
    BY <1>1, <2>2 DEF LowByte
  <2>4. LowByte(o) \in Operands
    BY <2>3 DEF Operands
  <2>5. LowByte(o)[1] \notin {"mem", "imm_addr"}
    BY <2>3
  <2>6. \A a, V : Covers(a, V, o)
    BY <1>1, OperandKinds, NotCovered
  <2>7. QED
    BY <2>4, <2>5, <2>6 DEF Known
<1>2. CASE ~IsReg(o)
  BY <1>2 DEF LowByte
<1>3. QED
  BY <1>1, <1>2

Listed(mn) ==
    mn \in {"RESERVE", "MOV", "MUL", "MULU", "DIV", "DIVU", "DIVL", "DIVLU", "DEC", "JMP", "JLE", "JGE", "MOVB",
            "DW", "JMPR", "NOP", "SRVWDT", "EINIT", "SRST", "RET", "RETS", "PUSH", "POP", "CALLR",
            "JMPA", "CALLA", "JMPI", "CALLI", "JMPS", "CALLS"}

(* The instructions that go into the image as they are.                    *)
LEMMA DirectFine ==
    ASSUME NEW a, NEW V, Fine(a, V),
           NEW mn \in {"DW", "JMPR", "NOP", "SRVWDT", "EINIT", "SRST", "RET", "RETS", "PUSH", "POP", "CALLR",
                       "JMPA", "CALLA", "JMPI", "CALLI", "JMPS", "CALLS"},
           NEW ops \in Arguments(mn), NEW b, b = Emit(a, mn, ops)
    PROVE  Fine(b, V) /\ Grown(a, b) /\ (mn # "DW" => \A k \in DOMAIN ops : Covers(b, V, ops[k]))
<1>1. CASE mn = "DW"
  <2>1. ops \in LineOperands(mn)
    BY <1>1 DEF Arguments, LineOperands
  <2>2. QED
    BY <1>1, <2>1, EmitFine
<1>2. CASE mn \in {"NOP", "SRVWDT", "EINIT", "SRST", "RET", "RETS"}
  <2>1. ops = <<>> /\ mn \notin Jumps /\ mn # "DW"
    BY <1>2 DEF Arguments, Jumps
  <2>2. ops \in LineOperands(mn)
    BY <2>1 DEF LineOperands
  <2>3. QED
    BY <2>1, <2>2, EmitFine
<1>3. CASE mn \in {"PUSH", "POP"}
  <2>1. ops \in [1 .. 1 -> Registers] /\ mn \notin Jumps /\ mn # "DW"
    BY <1>3 DEF Arguments, Jumps
  <2>2. ops \in [1 .. 1 -> Operands] /\ \A k \in DOMAIN ops : ops[k] \in Registers
    BY <2>1, OperandKinds
  <2>3. ops \in LineOperands(mn)
    BY <2>1, <2>2, FunctionIsSequence DEF LineOperands
  <2>4. \A k \in DOMAIN ops : Covers(a, V, ops[k]) /\ Covers(b, V, ops[k])
    BY <2>2, OperandKinds, NotCovered
  <2>5. QED
    BY <2>1, <2>3, <2>4, EmitFine
<1>4. CASE mn = "CALLR"
  <2>1. ops \in [1 .. 1 -> Labels]
    BY <1>4 DEF Arguments
  <2>2. ops \in [1 .. 1 -> JumpOperands]
    BY <2>1 DEF JumpOperands, Places
  <2>3. ops \in Seq(JumpOperands) /\ mn \in Jumps
    BY <1>4, <2>2, FunctionIsSequence DEF Jumps
  <2>4. QED
    BY <2>3, EmitJump
<1>5. CASE mn \in {"JMPR", "JMPA", "CALLA", "JMPI", "CALLI", "JMPS", "CALLS"}
  <2>1. ops \in JumpOperands \X JumpOperands
    <3>1. CASE mn = "JMPR"
      BY <3>1 DEF Arguments, JumpOperands, Places
    <3>2. CASE mn \in {"JMPA", "CALLA"}
      BY <3>2 DEF Arguments, JumpOperands
    <3>3. CASE mn \in {"JMPI", "CALLI"}
      BY <3>3 DEF Arguments, JumpOperands
    <3>4. CASE mn \in {"JMPS", "CALLS"}
      BY <3>4 DEF Arguments, JumpOperands
    <3>5. QED
      BY <1>5, <3>1, <3>2, <3>3, <3>4
  <2>2. PICK x \in JumpOperands, y \in JumpOperands : ops = <<x, y>>
    BY <2>1
  <2>3. ops \in Seq(JumpOperands) /\ mn \in Jumps
    BY <1>5, <2>2, Pair DEF Jumps
  <2>4. QED
    BY <2>3, EmitJump
<1>6. QED
  BY <1>1, <1>2, <1>3, <1>4, <1>5

LEMMA ShortJumpFine ==
    ASSUME NEW a, NEW V, Fine(a, V), NEW mn \in {"JMP", "JLE", "JGE"}, NEW ops \in [1 .. 1 -> Labels],
           NEW b, b = Expanded(a, mn, ops)
    PROVE  Fine(b, V) /\ Grown(a, b) /\ \A k \in DOMAIN ops : Covers(b, V, ops[k])
<1>1. PICK name : name \in {"UC", "SLE", "SGE"} /\ b = Emit(a, "JMPR", <<<<"cc", name>>, ops[1]>>)
  BY DEF Expanded
<1>2. name \in DOMAIN CCMap
  BY <1>1 DEF CCMap
<1>3. PICK x, y : x = <<"cc", name>> /\ y = ops[1]
  OBVIOUS
<1>4. x \in JumpOperands /\ y \in JumpOperands
  BY <1>2, <1>3 DEF JumpOperands, Conditions, Places
<1>5. <<x, y>> \in Seq(JumpOperands) /\ b = Emit(a, "JMPR", <<x, y>>) /\ "JMPR" \in Jumps
  BY <1>1, <1>3, <1>4, Pair DEF Jumps
<1>6. \A k \in DOMAIN ops : Covers(b, V, ops[k])
  <2>1. \A k \in DOMAIN ops : ops[k] = y
    BY <1>3
  <2>2. Covers(b, V, y)
    BY <1>4, OperandKinds, NotCovered
  <2>3. QED
    BY <2>1, <2>2, Zenon
<1>7. QED
  BY <1>5, <1>6, EmitJump

(* Not a directive that expand_line never sees.                            *)
Assembled(mn) == mn \notin {"EQU", NoName}

(* The names that the operands of a line use are known.                    *)
OperandsKnown(a, V, mn, ops) ==
    /\ ops \in Arguments(mn)
    /\ mn = "RESERVE" => a.count > 0 /\ ops[1] \in V[a.count]
    /\ mn \notin {"RESERVE", "DW"} => \A k \in DOMAIN ops : Known(a, V, ops[k])

(* All of them have their variables.                                       *)
AllCovered(b, V, mn, ops) ==
    /\ mn = "RESERVE" => ops[1] \in DOMAIN b.vars
    /\ mn \notin {"RESERVE", "DW"} => \A k \in DOMAIN ops : Covers(b, V, ops[k])

LEMMA ExpandedFine ==
    ASSUME NEW a, NEW V, Fine(a, V), NEW mn, Assembled(mn), NEW ops, OperandsKnown(a, V, mn, ops),
           NEW b, b = Expanded(a, mn, ops)
    PROVE  Fine(b, V) /\ Grown(a, b) /\ AllCovered(b, V, mn, ops)
<1>1. CASE mn = "RESERVE"
  <2>1. ops[2] \in Nat
    BY <1>1 DEF OperandsKnown, Arguments
  <2>2. PICK name \in V[a.count], size \in Nat : name = ops[1] /\ size = ops[2] /\ a.count > 0
    BY <1>1, <2>1 DEF OperandsKnown
  <2>3. b = Reserved(a, name, size)
    BY <1>1, <2>2 DEF Expanded
  <2>4. QED
    BY <1>1, <2>2, <2>3, ReservedFine DEF AllCovered
<1>2. CASE mn = "MOV"
  <2>1. PICK x \in Operands, y \in Operands : ops = <<x, y>>
    BY <1>2 DEF OperandsKnown, Arguments
  <2>2. Known(a, V, x) /\ Known(a, V, y)
    BY <1>2, <2>1, Pair DEF OperandsKnown
  <2>3. b = ExpandMov(a, x, y)
    BY <1>2, <2>1 DEF Expanded
  <2>4. QED
    <3>1. Fine(b, V) /\ Grown(a, b) /\ Covers(b, V, x) /\ Covers(b, V, y)
      BY <2>2, <2>3, ExpandMovFine
    <3>2. \A k \in DOMAIN ops : ops[k] = x \/ ops[k] = y
      BY <2>1
    <3>3. QED
      BY <1>2, <3>1, <3>2, Zenon DEF AllCovered
<1>3. CASE mn \in {"MUL", "MULU"}
  <2>1. ops \in [1 .. 1 -> Registers \cup Cells] \cup [1 .. 2 -> Registers \cup Cells]
    BY <1>3 DEF OperandsKnown, Arguments
  <2>2. b = ExpandMultiply(a, mn, ops)
    BY <1>3 DEF Expanded
  <2>3. \A k \in DOMAIN ops : Known(a, V, ops[k])
    BY <1>3 DEF OperandsKnown
  <2>4. QED
    BY <1>3, <2>1, <2>2, <2>3, ExpandMultiplyFine DEF AllCovered
<1>4. CASE mn \in {"DIV", "DIVU", "DIVL", "DIVLU"}
  <2>1. ops \in [1 .. 1 -> Registers \cup Cells] /\ mn # "DW" /\ mn \notin Jumps
    BY <1>4 DEF OperandsKnown, Arguments, Jumps
  <2>2. PICK x \in Registers \cup Cells : x = ops[1]
    BY <2>1
  <2>3. Known(a, V, x)
    BY <1>4, <2>1, <2>2 DEF OperandsKnown
  <2>4. ScratchMul \in 0 .. 15
    BY DEF ScratchMul
  <2>5. PICK c, u : c = InReg(a, x, ScratchMul) /\ u = RegOf(x, ScratchMul)
    OBVIOUS
  <2>6. Fine(c, V) /\ Grown(a, c) /\ u \in Registers /\ Covers(c, V, x)
    BY <2>3, <2>4, <2>5, InRegFine
  <2>7. b = Emit(c, mn, <<u>>)
    BY <1>4, <2>2, <2>5 DEF Expanded
  <2>8. u \in Operands /\ Covers(c, V, u)
    BY <2>6, OperandKinds, NotCovered
  <2>9. Fine(b, V) /\ Grown(c, b)
    BY <2>1, <2>6, <2>7, <2>8, EmitOne
  <2>10. Grown(a, b) /\ Covers(b, V, x)
    BY <2>6, <2>9, GrownTwice, GrownFacts
  <2>11. \A k \in DOMAIN ops : ops[k] = x
    BY <2>1, <2>2
  <2>12. QED
    BY <1>4, <2>9, <2>10, <2>11, Zenon DEF AllCovered
<1>5. CASE mn = "DEC"
  <2>1. ops \in [1 .. 1 -> Registers]
    BY <1>5 DEF OperandsKnown, Arguments
  <2>2. PICK x \in Registers : x = ops[1]
    BY <2>1
  <2>9. PICK y : y = <<"imm", 1>>
    OBVIOUS
  <2>3. x \in Operands /\ Nameless(x)
    BY OperandKinds
  <2>4. y \in Operands /\ Nameless(y)
    BY <2>9 DEF Operands, Nameless
  <2>5. b = Emit(a, "SUB", <<x, y>>)
    BY <1>5, <2>2, <2>9 DEF Expanded
  <2>6. "SUB" # "DW" /\ "SUB" \notin Jumps
    BY DEF Jumps
  <2>7. Fine(b, V) /\ Grown(a, b)
    BY <2>3, <2>4, <2>5, <2>6, EmitPair, NotCovered
  <2>8. \A k \in DOMAIN ops : Covers(b, V, ops[k])
    <3>1. \A k \in DOMAIN ops : ops[k] = x
      BY <2>1, <2>2
    <3>2. QED
      BY <2>3, <3>1, NotCovered
  <2>10. QED
    BY <1>5, <2>7, <2>8, Zenon DEF AllCovered
<1>6. CASE mn \in {"JMP", "JLE", "JGE"}
  <2>1. ops \in [1 .. 1 -> Labels]
    BY <1>6 DEF OperandsKnown, Arguments
  <2>2. QED
    BY <1>6, <2>1, ShortJumpFine DEF AllCovered
<1>7. CASE mn = "MOVB"
  <2>1. PICK x \in Operands, y \in Operands : ops = <<x, y>>
    BY <1>7 DEF OperandsKnown, Arguments
  <2>2. PICK u, v : u = LowByte(x) /\ v = LowByte(y)
    OBVIOUS
  <2>3. Known(a, V, x) /\ Known(a, V, y)
    BY <1>7, <2>1, Pair DEF OperandsKnown
  <2>4. u \in Operands /\ v \in Operands /\ Known(a, V, u) /\ Known(a, V, v)
    BY <2>2, <2>3, LowByteFine
  <2>5. PICK c : c = Noted(Noted(a, u), v)
    OBVIOUS
  <2>6. Fine(c, V) /\ Grown(a, c) /\ Covers(c, V, u) /\ Covers(c, V, v)
    BY <2>4, <2>5, NotedTwo
  <2>7. b = Emit(c, mn, <<u, v>>)
    BY <1>7, <2>1, <2>2, <2>5 DEF Expanded
  <2>8. mn # "DW" /\ mn \notin Jumps
    BY <1>7 DEF Jumps
  <2>9. Fine(b, V) /\ Grown(c, b)
    BY <2>4, <2>6, <2>7, <2>8, EmitPair
  <2>10. Grown(a, b) /\ Covers(b, V, u) /\ Covers(b, V, v)
    BY <2>6, <2>9, GrownTwice, GrownFacts
  <2>11. Covers(b, V, x) /\ Covers(b, V, y)
    BY <2>2, <2>10, LowByteFine
  <2>12. \A k \in DOMAIN ops : ops[k] = x \/ ops[k] = y
    BY <2>1
  <2>13. QED
    BY <1>7, <2>9, <2>10, <2>11, <2>12, Zenon DEF AllCovered
<1>8. CASE mn \in {"DW", "JMPR", "NOP", "SRVWDT", "EINIT", "SRST", "RET", "RETS", "PUSH", "POP", "CALLR",
                   "JMPA", "CALLA", "JMPI", "CALLI", "JMPS", "CALLS"}
  <2>1. b = Emit(a, mn, ops)
    BY <1>8 DEF Expanded
  <2>2. QED
    BY <1>8, <2>1, DirectFine DEF OperandsKnown, AllCovered
<1>9. CASE ~Listed(mn)
  <2>1. ops \in {<<>>} \cup [1 .. 1 -> Operands] \cup [1 .. 2 -> Operands]
    BY <1>9 DEF OperandsKnown, Arguments, Listed, Assembled
  <2>2. \A k \in DOMAIN ops : Known(a, V, ops[k])
    BY <1>9 DEF OperandsKnown, Listed
  <2> DEFINE onStack == mn \in {"ADD", "SUB"} /\ Len(ops) = 2 /\ ops[1] = StackOperand /\ ops[2][1] = "imm"
  <2>3. CASE onStack
    <3>1. b = ExpandStack(a, mn, ops[2])
      BY <1>9, <2>3 DEF Expanded, Listed
    <3>2. ops[2] \in Operands
      <4>1. CASE ops = <<>>
        BY <2>3, <4>1
      <4>2. CASE ops \in [1 .. 1 -> Operands]
        <5>1. Len(ops) = 1
          BY <4>2, FunctionIsSequence
        <5>2. QED
          BY <2>3, <5>1
      <4>3. CASE ops \in [1 .. 2 -> Operands]
        BY <4>3
      <4>4. QED
        BY <2>1, <4>1, <4>2, <4>3
    <3>3. PICK n : n = ops[2]
      OBVIOUS
    <3>4. ops \in [1 .. 2 -> Operands] /\ Known(a, V, StackOperand)
      <4>1. ops # <<>>
        BY <2>3
      <4>2. ops \notin [1 .. 1 -> Operands]
        BY <2>3, FunctionIsSequence
      <4>3. ops \in [1 .. 2 -> Operands]
        BY <2>1, <4>1, <4>2
      <4>4. QED
        BY <2>2, <2>3, <4>3
    <3>5. Fine(b, V) /\ Grown(a, b) /\ Covers(b, V, StackOperand) /\ Covers(b, V, n)
      BY <2>3, <3>1, <3>2, <3>3, <3>4, ExpandStackFine
    <3>6. \A k \in DOMAIN ops : ops[k] = StackOperand \/ ops[k] = n
      BY <2>3, <3>3, <3>4
    <3>7. QED
      BY <2>3, <3>5, <3>6, Zenon DEF AllCovered
  <2>4. CASE ~onStack
    <3>1. PICK c : c = NotedBoth(a, ops)
      OBVIOUS
    <3>2. b = Emit(c, mn, ops)
      BY <1>9, <2>4, <3>1 DEF Expanded, Listed
    <3>3. /\ Fine(c, V) /\ Grown(a, c) /\ ops \in Seq(Operands)
          /\ \A k \in DOMAIN ops : Covers(c, V, ops[k])
      BY <2>1, <2>2, <3>1, NotedBothFine
    <3>4. mn # "DW" /\ mn \notin Jumps
      BY <1>9 DEF Listed, Jumps
    <3>5. ops \in LineOperands(mn)
      BY <3>3, <3>4 DEF LineOperands
    <3>6. Fine(b, V) /\ Grown(c, b)
      BY <3>2, <3>3, <3>5, EmitFine
    <3>7. Grown(a, b) /\ \A k \in DOMAIN ops : Covers(b, V, ops[k])
      BY <3>3, <3>6, GrownTwice, GrownFacts
    <3>8. QED
      BY <1>9, <3>6, <3>7 DEF AllCovered, Listed
  <2>5. QED
    BY <2>3, <2>4
<1>10. QED
  BY <1>1, <1>2, <1>3, <1>4, <1>5, <1>6, <1>7, <1>8, <1>9 DEF Listed

-----------------------------------------------------------------------------
(* A source is loaded line by line.                                        *)

Giving(src) == [i \in Nat |-> GivenBy(src, i)]

Progress(a, src) ==
    /\ Fine(a, Giving(src)) /\ a.count <= Len(src)
    /\ GivenUpTo(Giving(src), a.count) \subseteq DOMAIN a.vars
    /\ DOMAIN a.labels = LabelsBy(src, a.count) /\ DOMAIN a.equs = EqusBy(src, a.count)

LEMMA NamesAppear ==
    ASSUME NEW src, NEW i \in Nat, i > 0
    PROVE  /\ LabelsBy(src, i) = LabelsBy(src, i - 1) \cup ({src[i].label} \ {NoName})
           /\ EqusBy(src, i) =
                EqusBy(src, i - 1) \cup (IF src[i].mn = "EQU" THEN {src[i].ops[1]} ELSE {})
<1>1. 1 .. i = (1 .. i - 1) \cup {i}
  OBVIOUS
<1>2. LabelsBy(src, i) = LabelsBy(src, i - 1) \cup ({src[i].label} \ {NoName})
  BY <1>1, Zenon DEF LabelsBy
<1>3. EqusBy(src, i) =
        EqusBy(src, i - 1) \cup (IF src[i].mn = "EQU" THEN {src[i].ops[1]} ELSE {})
  <2>1. CASE src[i].mn = "EQU"
    BY <1>1, <2>1, Zenon DEF EqusBy
  <2>2. CASE src[i].mn # "EQU"
    BY <1>1, <2>2, Zenon DEF EqusBy
  <2>3. QED
    BY <2>1, <2>2
<1>4. QED
  BY <1>2, <1>3

(* A label is noted at the next instruction.                               *)
LEMMA LabelFine ==
    ASSUME NEW a, NEW V, Fine(a, V), NEW l, NEW b, b = Labelled(a, l)
    PROVE  /\ Fine(b, V) /\ b.vars = a.vars /\ b.count = a.count /\ b.equs = a.equs /\ b.lines = a.lines
           /\ DOMAIN b.labels = DOMAIN a.labels \cup {l}
<1> DEFINE n == Len(a.lines) + 1
<1>1. b = [lines |-> a.lines, labels |-> With(a.labels, l, n), vars |-> a.vars,
           equs |-> a.equs, last |-> a.last, count |-> a.count]
  BY DEF Fine, IsTable, Labelled
<1> HIDE DEF n
<1>2. /\ b.lines = a.lines /\ b.labels = With(a.labels, l, n) /\ b.vars = a.vars
      /\ b.equs = a.equs /\ b.last = a.last /\ b.count = a.count /\ IsTable(b)
  BY <1>1 DEF IsTable
<1>3. DOMAIN b.labels = DOMAIN a.labels \cup {l}
  BY <1>2 DEF With
<1>4. \A k \in DOMAIN b.labels : b.labels[k] \in 1 .. Len(b.lines) + 1
  <2>1. n \in 1 .. Len(b.lines) + 1
    <3>1. PICK S : a.lines \in Seq(S)
      BY DEF Fine, ASequence
    <3>2. Len(a.lines) \in Nat
      BY <3>1
    <3>3. QED
      BY <1>2, <3>2 DEF n
  <2>2. ASSUME NEW k \in DOMAIN a.labels \cup {l} PROVE With(a.labels, l, n)[k] \in 1 .. Len(b.lines) + 1
    BY <1>2, <2>1 DEF With, Fine
  <2>3. QED
    BY <1>2, <1>3, <2>2
<1>5. \A W, o : CoveredBy(b, W, o) <=> CoveredBy(a, W, o)
  BY <1>2, Zenon DEF CoveredBy
<1>6. \A k \in 1 .. Len(b.lines) : LineFine(b, V, b.lines[k])
  BY <1>2, <1>5, Zenon DEF LineFine, Fine
<1>8. Fine(b, V)
  BY <1>2, <1>4, <1>6, Zenon DEF Fine
<1>9. QED
  BY <1>2, <1>3, <1>8

LEMMA EquFine ==
    ASSUME NEW a, NEW V, Fine(a, V), NEW l, NEW n,
           NEW b, b = Equated(a, l, n)
    PROVE  /\ Fine(b, V) /\ b.vars = a.vars /\ b.count = a.count /\ b.labels = a.labels
           /\ DOMAIN b.equs = DOMAIN a.equs \cup {l}
<1>1. b = [lines |-> a.lines, labels |-> a.labels, vars |-> a.vars,
           equs |-> With(a.equs, l, n), last |-> a.last, count |-> a.count]
  BY DEF Fine, IsTable, Equated
<1>2. /\ b.lines = a.lines /\ b.labels = a.labels /\ b.vars = a.vars
      /\ b.equs = With(a.equs, l, n) /\ b.last = a.last /\ b.count = a.count /\ IsTable(b)
  BY <1>1 DEF IsTable
<1>3. DOMAIN b.equs = DOMAIN a.equs \cup {l}
  BY <1>2 DEF With
<1>4. \A W, o : CoveredBy(b, W, o) <=> CoveredBy(a, W, o)
  BY <1>2, Zenon DEF CoveredBy
<1>5. \A k \in 1 .. Len(b.lines) : LineFine(b, V, b.lines[k])
  BY <1>2, <1>4, Zenon DEF LineFine, Fine
<1>7. Fine(b, V)
  BY <1>2, <1>5, Zenon DEF Fine
<1>8. QED
  BY <1>2, <1>3, <1>7

LEMMA GivenNext ==
    ASSUME NEW V, NEW n \in Nat PROVE GivenUpTo(V, n + 1) = GivenUpTo(V, n) \cup V[n + 1]
<1>1. 1 .. n + 1 = (1 .. n) \cup {n + 1}
  OBVIOUS
<1>2. QED
  BY <1>1, Zenon DEF GivenUpTo

LEMMA CountFine ==
    ASSUME NEW a, NEW V, Fine(a, V), NEW b, b = Counted(a)
    PROVE  /\ Fine(b, V) /\ b.vars = a.vars /\ b.count = a.count + 1 /\ b.labels = a.labels /\ b.equs = a.equs
           /\ b.lines = a.lines
<1>1. b = [lines |-> a.lines, labels |-> a.labels, vars |-> a.vars,
           equs |-> a.equs, last |-> a.last, count |-> a.count + 1]
  BY DEF Fine, IsTable, Counted
<1>2. /\ b.lines = a.lines /\ b.labels = a.labels /\ b.vars = a.vars
      /\ b.equs = a.equs /\ b.last = a.last /\ b.count = a.count + 1 /\ IsTable(b)
  BY <1>1 DEF IsTable
<1>3. \A W, o : CoveredBy(b, W, o) <=> CoveredBy(a, W, o)
  BY <1>2, Zenon DEF CoveredBy
<1>4. \A k \in 1 .. Len(b.lines) : LineFine(b, V, b.lines[k])
  BY <1>2, <1>3, Zenon DEF LineFine, Fine
<1>5. DOMAIN b.vars \subseteq GivenUpTo(V, b.count)
  BY <1>2, GivenNext DEF Fine
<1>6. b.count \in Nat
  BY <1>2 DEF Fine
<1>7. Fine(b, V)
  BY <1>2, <1>4, <1>5, <1>6, Zenon DEF Fine
<1>8. QED
  BY <1>2, <1>7

LEMMA GivingIs == \A src : \A i \in Nat : Giving(src)[i] = GivenBy(src, i)
  BY Zenon DEF Giving

LEMMA AllGiven ==
    ASSUME NEW src, NEW n \in Nat
    PROVE  GivenUpTo(Giving(src), n) = UNION { GivenBy(src, i) : i \in 1 .. n }
<1>1. \A i \in 1 .. n : Giving(src)[i] = GivenBy(src, i)
  BY GivingIs
<1>2. QED
  BY <1>1, Zenon DEF GivenUpTo

LEMMA UnsettledIsGiven == \A src : \A i \in Nat : Unsettled(src, i) \subseteq Giving(src)[i]
  BY GivingIs, Zenon DEF GivenBy, Unsettled, Used

LEMMA OperandsOfLine ==
    ASSUME NEW src, Expected(src), NEW i \in 1 .. Len(src), src[i].mn \notin {"EQU", NoName},
           NEW c, c.count = i, SettledIn(c) = Settled(src, i)
    PROVE  OperandsKnown(c, Giving(src), src[i].mn, src[i].ops)
<1>1. src[i].ops \in Arguments(src[i].mn) /\ Giving(src)[i] = GivenBy(src, i) /\ c.count > 0
  BY GivingIs DEF Expected
<1>2. PICK mn, ops, V : mn = src[i].mn /\ ops = src[i].ops /\ V = Giving(src)
  OBVIOUS
<1>3. mn = "RESERVE" => V[c.count] = {ops[1]}
  BY <1>1, <1>2 DEF GivenBy
<1>4. mn \notin {"RESERVE", "DW"} =>
        V[c.count] = { ops[j][2] : j \in { j \in DOMAIN ops : ops[j][1] \in {"mem", "imm_addr"} } } \ SettledIn(c)
  BY <1>1, <1>2, Zenon DEF GivenBy, Unsettled, Used
<1>5. ASSUME mn \notin {"RESERVE", "DW"}, NEW k \in DOMAIN ops PROVE Known(c, V, ops[k])
  BY <1>1, <1>4, <1>5, Zenon DEF Known
<1>6. QED
  BY <1>1, <1>2, <1>3, <1>5 DEF OperandsKnown

(* Once they are loaded, the names of the line have their variables.       *)
LEMMA NamesOfLine ==
    ASSUME NEW src, Expected(src), NEW i \in 1 .. Len(src), NEW b, b.count = i,
           src[i].mn \notin {"EQU", NoName} => AllCovered(b, Giving(src), src[i].mn, src[i].ops)
    PROVE  Giving(src)[i] \subseteq DOMAIN b.vars
<1>1. Giving(src)[i] = GivenBy(src, i)
  BY GivingIs DEF Expected
<1>2. PICK mn, ops, V : mn = src[i].mn /\ ops = src[i].ops /\ V = Giving(src)
  OBVIOUS
<1>3. CASE mn = "RESERVE"
  <2>1. mn \notin {"EQU", NoName}
    BY <1>3, Zenon DEF NoName
  <2>2. QED
    BY <1>1, <1>2, <1>3, <2>1 DEF GivenBy, AllCovered
<1>4. CASE mn \in {NoName, "EQU", "DW"}
  <2>1. mn # "RESERVE"
    BY <1>4, Zenon DEF NoName
  <2>2. QED
    BY <1>1, <1>2, <1>4, <2>1, Zenon DEF GivenBy, Unsettled, Used
<1>5. CASE mn \notin {NoName, "EQU", "DW", "RESERVE"}
  <2>1. V[i] \subseteq { ops[j][2] : j \in { j \in DOMAIN ops : ops[j][1] \in {"mem", "imm_addr"} } }
    <3>1. mn # "RESERVE" /\ mn \notin {NoName, "EQU", "RESERVE", "DW"}
      BY <1>5
    <3>2. V[i] = Used(src[i]) \ Settled(src, i)
      BY <1>1, <1>2, <3>1, Zenon DEF GivenBy, Unsettled
    <3>3. Used(src[i]) = { ops[j][2] : j \in { j \in DOMAIN ops : ops[j][1] \in {"mem", "imm_addr"} } }
      BY <1>2, <3>1, Zenon DEF Used
    <3>4. QED
      BY <3>2, <3>3, Zenon
  <2>2. \A k \in DOMAIN ops : CoveredBy(b, V[i], ops[k])
    BY <1>2, <1>5 DEF AllCovered, Covers
  <2>3. QED
    <3> SUFFICES ASSUME NEW v \in V[i] PROVE v \in DOMAIN b.vars
      BY <1>2
    <3>1. PICK j \in DOMAIN ops : v = ops[j][2] /\ ops[j][1] \in {"mem", "imm_addr"}
      BY <2>1, Zenon
    <3>2. QED
      BY <2>2, <3>1, Zenon DEF CoveredBy
<1>6. QED
  BY <1>3, <1>4, <1>5

LEMMA NoNameIsOther == NoName # "EQU"
  BY Zenon DEF NoName

LEMMA LoadedFine ==
    ASSUME NEW src, Expected(src), NEW a, Progress(a, src), a.count < Len(src),
           NEW b, b = Loaded(a, src[a.count + 1])
    PROVE  Progress(b, src)
<1>1. PICK i \in 1 .. Len(src) : i = a.count + 1
  BY DEF Progress, Fine, Expected
<1>2. i \in Nat /\ i > 0 /\ i - 1 = a.count /\ Len(src) \in Nat /\ a.count \in Nat
  BY <1>1 DEF Progress, Fine, Expected
<1>3. PICK V, mn, ops, label : V = Giving(src) /\ mn = src[i].mn /\ ops = src[i].ops /\ label = src[i].label
  OBVIOUS
<1>4. PICK b0 : b0 = Counted(a)
  OBVIOUS
<1>5. /\ Fine(b0, V) /\ b0.count = i /\ b0.labels = a.labels /\ b0.equs = a.equs
      /\ b0.lines = a.lines /\ b0.vars = a.vars
  BY <1>1, <1>3, <1>4, CountFine DEF Progress
<1>6. DOMAIN a.labels = LabelsBy(src, i - 1) /\ DOMAIN a.equs = EqusBy(src, i - 1)
  BY <1>2 DEF Progress
<1>7. /\ LabelsBy(src, i) = DOMAIN a.labels \cup ({label} \ {NoName})
      /\ EqusBy(src, i) = DOMAIN a.equs \cup (IF mn = "EQU" THEN {ops[1]} ELSE {})
  BY <1>2, <1>3, <1>6, NamesAppear
<1>8. PICK c : c = IF label = NoName THEN b0 ELSE Labelled(b0, label)
  OBVIOUS
<1>9. Fine(c, V) /\ c.count = i /\ DOMAIN c.labels = LabelsBy(src, i) /\ c.equs = a.equs /\ c.vars = a.vars
  <2>1. CASE label = NoName
    BY <1>5, <1>7, <1>8, <2>1
  <2>2. CASE label # NoName
    <3>1. c = Labelled(b0, label)
      BY <1>8, <2>2
    <3>2. /\ Fine(c, V) /\ c.count = b0.count /\ c.equs = b0.equs /\ c.vars = b0.vars
          /\ DOMAIN c.labels = DOMAIN b0.labels \cup {label}
      BY <1>5, <3>1, LabelFine
    <3>3. QED
      BY <1>5, <1>7, <2>2, <3>2
  <2>3. QED
    BY <2>1, <2>2
<1>10. /\ mn = "EQU" => b = Equated(b0, ops[1], ops[2])
       /\ mn # "EQU" /\ mn = NoName => b = c
       /\ mn \notin {"EQU", NoName} => b = Expanded(c, mn, ops)
  BY <1>1, <1>3, <1>4, <1>8, NoNameIsOther DEF Loaded
<1>11. SUFFICES /\ Fine(b, V) /\ b.count = i /\ DOMAIN a.vars \subseteq DOMAIN b.vars
                /\ DOMAIN b.labels = LabelsBy(src, i) /\ DOMAIN b.equs = EqusBy(src, i)
                /\ mn \notin {"EQU", NoName} => AllCovered(b, V, mn, ops)
  <2>1. ASSUME b.count = i, mn \notin {"EQU", NoName} => AllCovered(b, V, mn, ops)
        PROVE  V[i] \subseteq DOMAIN b.vars
    BY <1>3, <2>1, NamesOfLine
  <2>2. GivenUpTo(V, i) = GivenUpTo(V, a.count) \cup V[i]
    BY <1>1, <1>2, GivenNext
  <2>3. GivenUpTo(V, a.count) \subseteq DOMAIN a.vars
    BY <1>3 DEF Progress
  <2>4. QED
    BY <1>2, <1>3, <2>1, <2>2, <2>3 DEF Progress
<1>12. CASE mn = "EQU"
  <2>1. label = NoName
    BY <1>3, <1>12 DEF Expected
  <2>2. PICK l, n : l = ops[1] /\ n = ops[2]
    OBVIOUS
  <2>3. b = Equated(b0, l, n)
    BY <1>10, <1>12, <2>2
  <2>4. /\ Fine(b, V) /\ b.count = b0.count /\ b.labels = b0.labels /\ b.vars = b0.vars
        /\ DOMAIN b.equs = DOMAIN b0.equs \cup {l}
    BY <1>5, <2>3, EquFine
  <2>5. LabelsBy(src, i) = DOMAIN a.labels /\ EqusBy(src, i) = DOMAIN a.equs \cup {l}
    BY <1>7, <1>12, <2>1, <2>2
  <2>6. QED
    BY <1>5, <1>12, <2>4, <2>5
<1>13. CASE mn = NoName /\ mn # "EQU"
  <2>1. b = c
    BY <1>10, <1>13
  <2>2. QED
    BY <1>7, <1>9, <1>13, <2>1
<1>14. CASE mn \notin {"EQU", NoName}
  <2>1. b = Expanded(c, mn, ops)
    BY <1>10, <1>14
  <2>2. DOMAIN c.equs = EqusBy(src, i)
    BY <1>7, <1>9, <1>14
  <2>3. SettledIn(c) = Settled(src, i)
    BY <1>9, <2>2 DEF SettledIn, Settled
  <2>4. OperandsKnown(c, V, mn, ops) /\ Assembled(mn)
    BY <1>3, <1>9, <1>14, <2>3, OperandsOfLine DEF Assembled
  <2>5. Fine(b, V) /\ Grown(c, b) /\ AllCovered(b, V, mn, ops)
    BY <1>9, <2>1, <2>4, ExpandedFine
  <2>6. QED
    BY <1>9, <2>2, <2>5 DEF Grown
<1>15. QED
  BY <1>12, <1>13, <1>14

-----------------------------------------------------------------------------
(* The inductive invariant.                                                *)

Inv ==
    /\ program \in DOMAIN Programs
    /\ Progress(asm, Source)
    /\ stage \in {"loading", "refused", "assembled", "running"}
    /\ stage = "assembled" => asm.count = Len(Source) /\ Accepted(asm)

LEMMA EmptyFine ==
    ASSUME NEW src, Expected(src) PROVE Progress(Empty, src)
<1>1. /\ Empty.lines = <<>> /\ Empty.labels = <<>> /\ Empty.vars = <<>> /\ Empty.equs = <<>>
      /\ Empty.last = 7 /\ Empty.count = 0 /\ IsTable(Empty)
  BY DEF Empty, ScratchMul, IsTable
<1>2. 1 .. 0 = {} /\ 7 \in 0 .. 15 /\ 0 \in Nat
  OBVIOUS
<1>3. Len(Empty.lines) = 0 /\ DOMAIN Empty.labels = {} /\ DOMAIN Empty.vars = {} /\ DOMAIN Empty.equs = {}
  BY <1>1
<1>4. ASequence(Empty.lines)
  BY <1>1 DEF ASequence
<1>5. LabelsBy(src, 0) = {} /\ EqusBy(src, 0) = {}
  BY <1>2, Zenon DEF LabelsBy, EqusBy
<1>6. \A V : GivenUpTo(V, 0) = {}
  BY <1>2, Zenon DEF GivenUpTo
<1>7. Fine(Empty, Giving(src))
  BY <1>1, <1>2, <1>3, <1>4 DEF Fine
<1>8. QED
  BY <1>1, <1>3, <1>5, <1>6, <1>7 DEF Progress, Expected

LEMMA InvHolds == Spec => []Inv
<1>1. ASSUME Init PROVE Inv
  <2>1. program \in DOMAIN Programs /\ stage = "loading" /\ asm = Empty
    BY <1>1 DEF Init
  <2>2. Expected(Source)
    BY <2>1, ToolchainAssumption DEF Source
  <2>3. QED
    BY <2>1, <2>2, EmptyFine DEF Inv
<1>2. ASSUME Inv, [Next]_vars PROVE Inv'
  <2>1. Expected(Source)
    BY <1>2, ToolchainAssumption DEF Source, Inv
  <2>2. CASE Load
    <3>1. UNCHANGED <<program, stage>> /\ stage = "loading" /\ asm' = Loaded(asm, Source[asm.count + 1])
          /\ asm.count < Len(Source)
      BY <2>2 DEF Load
    <3>2. Progress(asm', Source)
      BY <1>2, <2>1, <3>1, LoadedFine DEF Inv
    <3>3. Source' = Source
      BY <3>1 DEF Source
    <3>4. QED
      BY <1>2, <3>1, <3>2, <3>3 DEF Inv
  <2>3. CASE Assemble
    <3>1. UNCHANGED <<program, asm>> /\ asm.count = Len(Source)
          /\ stage' = IF Accepted(asm) THEN "assembled" ELSE "refused"
      BY <2>3 DEF Assemble
    <3>2. /\ Source' = Source /\ (Progress(asm, Source) => Progress(asm, Source)')
          /\ Accepted(asm) => Accepted(asm)'
      BY <3>1 DEF Source
    <3>3. stage' \in {"refused", "assembled"} /\ (stage' = "assembled" => Accepted(asm))
      BY <3>1
    <3>4. QED
      BY <1>2, <3>1, <3>2, <3>3 DEF Inv
  <2>4. CASE Start \/ Run \/ Interrupt \/ UNCHANGED vars
    <3>1. UNCHANGED <<program, asm>> /\ (stage' = stage \/ stage' = "running")
      BY <2>4 DEF Start, Run, Interrupt, vars
    <3>2. Source' = Source
      BY <3>1 DEF Source
    <3>3. QED
      BY <1>2, <3>1, <3>2 DEF Inv
  <2>5. QED
    BY <1>2, <2>2, <2>3, <2>4 DEF Next
<1>3. QED
  BY <1>1, <1>2, PTL DEF Spec

-----------------------------------------------------------------------------
(* Running sums: g[k] is b and the first k - 1 values of f.                *)

Runs(g, n, b, f) == g = [k \in 1 .. n + 1 |-> IF k = 1 THEN b ELSE g[k - 1] + f[k - 1]]

LEMMA RunExists ==
    ASSUME NEW n \in Nat, NEW b \in Nat, NEW f \in [1 .. n -> Nat]
    PROVE  \E g : Runs(g, n, b, f)
<1> DEFINE Sums1(m, g) ==
        /\ g \in [1 .. m + 1 -> Nat] /\ g[1] = b
        /\ \A k \in 2 .. m + 1 : g[k] = g[k - 1] + f[k - 1]
    Reach == { m \in Nat : m <= n => \E g : Sums1(m, g) }
<1>1. 0 \in Reach
  <2>1. PICK g : g = [k \in 1 .. 1 |-> b]
    OBVIOUS
  <2>2. Sums1(0, g)
    BY <2>1
  <2>3. QED
    BY <2>2
<1>2. ASSUME NEW m \in Nat, m \in Reach PROVE m + 1 \in Reach
  <2>0. m + 1 \in Nat
    OBVIOUS
  <2>1. SUFFICES ASSUME m + 1 <= n PROVE \E g : Sums1(m + 1, g)
    BY <2>0, Zenon
  <2>2. PICK g : Sums1(m, g)
    BY SMTT(30), <1>2, <2>1
  <2>3. PICK x \in Nat : x = g[m + 1] + f[m + 1]
    <3>1. g[m + 1] \in Nat /\ f[m + 1] \in Nat
      BY SMTT(30), <2>1, <2>2
    <3>2. QED
      BY <3>1
  <2>4. PICK h : h = [k \in 1 .. m + 2 |-> IF k = m + 2 THEN x ELSE g[k]]
    OBVIOUS
  <2>5. h \in [1 .. m + 2 -> Nat] /\ h[m + 2] = x /\ \A k \in 1 .. m + 1 : h[k] = g[k]
    BY <2>2, <2>4
  <2>6. \A k \in 2 .. m + 2 : h[k] = h[k - 1] + f[k - 1]
    <3>1. ASSUME NEW k \in 2 .. m + 2 PROVE h[k] = h[k - 1] + f[k - 1]
      <4>1. CASE k = m + 2
        BY <2>3, <2>5, <4>1
      <4>2. CASE k # m + 2
        <5>1. k \in 2 .. m + 1 /\ k \in 1 .. m + 1 /\ k - 1 \in 1 .. m + 1
          BY <4>2
        <5>2. g[k] = g[k - 1] + f[k - 1]
          BY <2>2, <5>1
        <5>3. QED
          BY <2>5, <5>1, <5>2
      <4>3. QED
        BY <4>1, <4>2
    <3>2. QED
      BY <3>1
  <2>7. (m + 1) + 1 = m + 2 /\ 1 \in 1 .. m + 1
    OBVIOUS
  <2>8. Sums1(m + 1, h)
    BY <2>2, <2>5, <2>6, <2>7
  <2>9. QED
    BY <2>8
<1> HIDE DEF Reach
<1>3. n \in Reach
  BY <1>1, <1>2, Induction
<1>4. PICK g : Sums1(n, g)
  BY <1>3 DEF Reach
<1>5. ASSUME NEW k \in 1 .. n + 1 PROVE g[k] = IF k = 1 THEN b ELSE g[k - 1] + f[k - 1]
  BY <1>4
<1>6. g = [k \in 1 .. n + 1 |-> IF k = 1 THEN b ELSE g[k - 1] + f[k - 1]]
  BY <1>4, <1>5
<1>7. QED
  BY <1>6 DEF Runs

Running(g, n, b, f) ==
    /\ g \in [1 .. n + 1 -> Nat] /\ g[1] = b
    /\ \A k \in 1 .. n : g[k + 1] = g[k] + f[k]
    /\ \A j, k \in 1 .. n + 1 : j < k => g[j] + f[j] <= g[k]

LEMMA RunFacts ==
    ASSUME NEW n \in Nat, NEW b \in Nat, NEW f \in [1 .. n -> Nat], NEW g, Runs(g, n, b, f)
    PROVE  Running(g, n, b, f)
<1>1. g[1] = b /\ DOMAIN g = 1 .. n + 1
  BY DEF Runs
<1>2. ASSUME NEW k \in 1 .. n PROVE g[k + 1] = g[k] + f[k]
  <2>1. k + 1 \in 1 .. n + 1 /\ k + 1 # 1 /\ (k + 1) - 1 = k
    OBVIOUS
  <2>2. g[k + 1] = g[(k + 1) - 1] + f[(k + 1) - 1]
    BY <2>1 DEF Runs
  <2>3. QED
    BY <2>1, <2>2
<1>3. \A k \in 1 .. n + 1 : g[k] \in Nat
  <2> DEFINE Reach == { m \in Nat : m <= n => g[m + 1] \in Nat }
  <2>1. 0 \in Reach
    BY <1>1
  <2>2. ASSUME NEW m \in Nat, m \in Reach PROVE m + 1 \in Reach
    <3>1. SUFFICES ASSUME m + 1 <= n PROVE g[m + 2] \in Nat
      OBVIOUS
    <3>2. g[m + 1] \in Nat /\ m + 1 \in 1 .. n /\ f[m + 1] \in Nat
      BY <2>2, <3>1
    <3>3. g[(m + 1) + 1] = g[m + 1] + f[m + 1] /\ (m + 1) + 1 = m + 2
      BY <1>2, <3>2
    <3>4. QED
      BY <3>2, <3>3
  <2> HIDE DEF Reach
  <2>3. \A m \in Nat : m \in Reach
    BY <2>1, <2>2, Induction
  <2>4. ASSUME NEW k \in 1 .. n + 1 PROVE g[k] \in Nat
    <3>1. k - 1 \in Reach /\ k - 1 <= n /\ (k - 1) + 1 = k
      BY <2>3
    <3>2. QED
      BY <3>1 DEF Reach
  <2>5. QED
    BY <2>4
<1>4. \A j, k \in 1 .. n + 1 : j < k => g[j] + f[j] <= g[k]
  <2> SUFFICES ASSUME NEW j \in 1 .. n + 1 PROVE \A k \in 1 .. n + 1 : j < k => g[j] + f[j] <= g[k]
    OBVIOUS
  <2> DEFINE Reach == { m \in Nat : m + j + 1 <= n + 1 => g[j] + f[j] <= g[m + j + 1] }
  <2>1. 0 \in Reach
    <3>1. SUFFICES ASSUME j + 1 <= n + 1 PROVE g[j] + f[j] <= g[0 + j + 1]
      OBVIOUS
    <3>2. j \in 1 .. n /\ 0 + j + 1 = j + 1 /\ j + 1 \in 1 .. n + 1
      BY <3>1
    <3>3. g[j + 1] = g[j] + f[j] /\ g[j] \in Nat /\ f[j] \in Nat
      BY <1>2, <1>3, <3>2
    <3>4. QED
      BY <3>2, <3>3
  <2>2. ASSUME NEW m \in Nat, m \in Reach PROVE m + 1 \in Reach
    <3>1. SUFFICES ASSUME m + j + 2 <= n + 1 PROVE g[j] + f[j] <= g[m + j + 2]
      <4>1. (m + 1) + j + 1 = m + j + 2
        OBVIOUS
      <4>2. QED
        BY <4>1
    <3>2. PICK p \in 1 .. n : p = m + j + 1
      BY <3>1
    <3>3. g[j] + f[j] <= g[p] /\ m + j + 2 = p + 1
      BY <2>2, <3>1, <3>2
    <3>4. g[p + 1] = g[p] + f[p] /\ g[p] \in Nat /\ f[p] \in Nat /\ g[j] \in Nat /\ f[j] \in Nat
      <4>1. j \in 1 .. n
        BY <3>1
      <4>2. QED
        BY <1>2, <1>3, <4>1
    <3>5. g[j] + f[j] <= g[p + 1]
      BY <3>3, <3>4
    <3>6. QED
      BY <3>3, <3>5
  <2> HIDE DEF Reach
  <2>3. \A m \in Nat : m \in Reach
    BY <2>1, <2>2, Induction
  <2>4. ASSUME NEW k \in 1 .. n + 1, j < k PROVE g[j] + f[j] <= g[k]
    <3>1. PICK m \in Nat : m = k - j - 1
      BY <2>4
    <3>2. m \in Reach /\ m + j + 1 = k /\ m + j + 1 <= n + 1
      BY <2>3, <3>1
    <3>3. QED
      BY <3>2 DEF Reach
  <2>5. QED
    BY <2>4
<1>5. g \in [1 .. n + 1 -> Nat]
  BY <1>1, <1>3 DEF Runs
<1>6. QED
  BY <1>1, <1>2, <1>4, <1>5 DEF Running

(* A sum of even numbers is even.                                          *)
LEMMA RunEven ==
    ASSUME NEW n \in Nat, NEW b \in Nat, NEW f \in [1 .. n -> Nat], NEW g, Runs(g, n, b, f),
           b % 2 = 0, \A k \in 1 .. n : f[k] % 2 = 0
    PROVE  \A k \in 1 .. n + 1 : g[k] % 2 = 0
<1>1. /\ g \in [1 .. n + 1 -> Nat] /\ g[1] = b
      /\ \A k \in 1 .. n : g[k + 1] = g[k] + f[k]
  <2>1. Running(g, n, b, f)
    BY RunFacts, Zenon
  <2>2. QED
    BY <2>1 DEF Running
<1> DEFINE Reach == { m \in Nat : m <= n => g[m + 1] % 2 = 0 }
<1>2. 0 \in Reach
  BY <1>1
<1>3. ASSUME NEW m \in Nat, m \in Reach PROVE m + 1 \in Reach
  <2>1. SUFFICES ASSUME m + 1 <= n PROVE g[m + 2] % 2 = 0
    OBVIOUS
  <2>2. PICK p \in 1 .. n : p = m + 1
    BY <2>1
  <2>3. g[p] \in Nat /\ f[p] \in Nat /\ g[p] % 2 = 0 /\ f[p] % 2 = 0
    BY <1>1, <1>3, <2>1, <2>2
  <2>4. g[p + 1] = g[p] + f[p] /\ m + 2 = p + 1
    BY <1>1, <2>2
  <2>5. (g[p] + f[p]) % 2 = 0
    BY SMTT(30), <2>3
  <2>6. QED
    BY <2>4, <2>5
<1> HIDE DEF Reach
<1>4. \A m \in Nat : m \in Reach
  BY <1>2, <1>3, Induction
<1>5. ASSUME NEW k \in 1 .. n + 1 PROVE g[k] % 2 = 0
  <2>1. k - 1 \in Reach /\ k - 1 <= n /\ (k - 1) + 1 = k
    BY <1>4
  <2>2. QED
    BY <2>1 DEF Reach
<1>6. QED
  BY <1>5

-----------------------------------------------------------------------------
(* The second pass: a line that is accepted has as many bytes as it was    *)
(* counted for.                                                            *)

Words2 == {"MOV", "ADD", "SUB", "AND", "OR", "XOR", "ADDC", "SUBC", "CMP", "MUL", "MULU", "SHR", "ASHR", "SHL"}
Shifts == {"SHR", "ASHR", "SHL"}
Bytes2 == {"ADDB", "SUBB", "ANDB", "ORB", "MOVB", "CMPB"}
Unary == {"DIV", "DIVU", "DIVL", "DIVLU", "NEG", "CPL", "PUSH", "POP"}

(* The forms of two operands.                                              *)
Short(mn, x, y) ==
    \/ mn \in Words2 /\ x = "R" /\ y = "R"
    \/ mn \in Shifts \cup {"MOV", "EXTS", "EXTP"} /\ x = "R" /\ y = "i"
    \/ mn = "MOV" /\ ((x = "R" /\ y = "P") \/ (x = "P" /\ y = "R"))
    \/ mn \in Bytes2 /\ x = "B" /\ y = "B"
    \/ mn = "MOVB" /\ ((x = "B" /\ y \in {"i", "P"}) \/ (x = "P" /\ y = "B"))
    \/ mn = "MOVBZ" /\ x = "R" /\ y = "B"

Long(mn, x, y) ==
    \/ mn \in {"MOV", "ADD", "SUB", "AND", "OR", "XOR", "CMP"} /\ x = "R" /\ y = "I"
    \/ mn = "MOV" /\ ((x = "R" /\ y \in {"m", "A", "O"}) \/ (x \in {"m", "O"} /\ y = "R"))
    \/ mn \in {"CMP", "MOVBZ"} /\ x = "R" /\ y = "m"
    \/ mn = "MOVB" /\ ((x = "B" /\ y \in {"m", "O"}) \/ (x \in {"m", "O"} /\ y = "B"))
    \/ mn \in {"ADDB", "SUBB", "ANDB", "ORB"} /\ ((x = "B" /\ y = "m") \/ (x = "m" /\ y = "B"))
    \/ mn = "CMPB" /\ x = "B" /\ y = "m"

ShortForm(form) ==
    \/ form[1] = "RET" /\ form[2] = <<>>
    \/ form[1] \in Unary /\ form[2] = <<"R">>
    \/ \E x, y : form[2] = <<x, y>> /\ Short(form[1], x, y)

LongForm(form) == \E x, y : form[2] = <<x, y>> /\ Long(form[1], x, y)

LEMMA ShortForms == ASSUME NEW form \in TwoBytes PROVE ShortForm(form)
<1>1. CASE form \in Words2 \X {<<"R", "R">>}
  BY <1>1 DEF Words2, Short, ShortForm
<1>2. CASE form \in {"MOV", "EXTS", "EXTP", "SHR", "ASHR", "SHL"} \X {<<"R", "i">>}
  BY <1>2 DEF Shifts, Short, ShortForm
<1>3. CASE form \in {"MOV"} \X {<<"R", "P">>, <<"P", "R">>}
  <2>1. form[1] \in {"MOV"} /\ (form[2] = <<"R", "P">> \/ form[2] = <<"P", "R">>)
    BY <1>3
  <2>2. CASE form[2] = <<"R", "P">>
    <3>1. Short(form[1], "R", "P")
      BY <2>1 DEF Short
    <3>2. QED
      BY <2>2, <3>1 DEF ShortForm
  <2>3. CASE form[2] = <<"P", "R">>
    <3>1. Short(form[1], "P", "R")
      BY <2>1 DEF Short
    <3>2. QED
      BY <2>3, <3>1 DEF ShortForm
  <2>4. QED
    BY <2>1, <2>2, <2>3
<1>4. CASE form \in (Divides \cup {"NEG", "CPL", "PUSH", "POP"}) \X {<<"R">>}
  BY <1>4 DEF Divides, Unary, ShortForm
<1>5. CASE form \in (ByteAlu \cup {"MOVB", "CMPB"}) \X {<<"B", "B">>}
  BY <1>5 DEF ByteAlu, Bytes2, Short, ShortForm
<1>6. CASE form \in {"MOVB"} \X {<<"B", "i">>, <<"B", "P">>, <<"P", "B">>}
  <2>1. form[1] \in {"MOVB"} /\ (form[2] = <<"B", "i">> \/ form[2] = <<"B", "P">> \/ form[2] = <<"P", "B">>)
    BY <1>6
  <2>2. CASE form[2] = <<"B", "i">>
    <3>1. Short(form[1], "B", "i")
      BY <2>1 DEF Short
    <3>2. QED
      BY <2>2, <3>1 DEF ShortForm
  <2>3. CASE form[2] = <<"B", "P">>
    <3>1. Short(form[1], "B", "P")
      BY <2>1 DEF Short
    <3>2. QED
      BY <2>3, <3>1 DEF ShortForm
  <2>4. CASE form[2] = <<"P", "B">>
    <3>1. Short(form[1], "P", "B")
      BY <2>1 DEF Short
    <3>2. QED
      BY <2>4, <3>1 DEF ShortForm
  <2>5. QED
    BY <2>1, <2>2, <2>3, <2>4
<1>7. CASE form \in {<<"MOVBZ", <<"R", "B">>>>, <<"RET", <<>>>>}
  BY <1>7 DEF Short, ShortForm
<1>8. QED
  BY <1>1, <1>2, <1>3, <1>4, <1>5, <1>6, <1>7, Zenon DEF TwoBytes, Words2

LEMMA LongForms == ASSUME NEW form \in FourBytes PROVE LongForm(form)
<1>1. CASE form \in {"MOV", "ADD", "SUB", "AND", "OR", "XOR", "CMP"} \X {<<"R", "I">>}
  BY <1>1 DEF Long, LongForm
<1>2. CASE form \in {"MOV"} \X {<<"R", "m">>, <<"m", "R">>, <<"R", "A">>, <<"R", "O">>, <<"O", "R">>}
  <2>1. /\ form[1] \in {"MOV"}
        /\ form[2] \in {<<"R", "m">>, <<"m", "R">>, <<"R", "A">>, <<"R", "O">>, <<"O", "R">>}
    BY <1>2
  <2>2. CASE form[2] = <<"R", "m">>
    <3>1. Long(form[1], "R", "m")
      BY <2>1 DEF Long
    <3>2. QED
      BY <2>2, <3>1 DEF LongForm
  <2>3. CASE form[2] = <<"m", "R">>
    <3>1. Long(form[1], "m", "R")
      BY <2>1 DEF Long
    <3>2. QED
      BY <2>3, <3>1 DEF LongForm
  <2>4. CASE form[2] = <<"R", "A">>
    <3>1. Long(form[1], "R", "A")
      BY <2>1 DEF Long
    <3>2. QED
      BY <2>4, <3>1 DEF LongForm
  <2>5. CASE form[2] = <<"R", "O">>
    <3>1. Long(form[1], "R", "O")
      BY <2>1 DEF Long
    <3>2. QED
      BY <2>5, <3>1 DEF LongForm
  <2>6. CASE form[2] = <<"O", "R">>
    <3>1. Long(form[1], "O", "R")
      BY <2>1 DEF Long
    <3>2. QED
      BY <2>6, <3>1 DEF LongForm
  <2>7. QED
    BY <2>1, <2>2, <2>3, <2>4, <2>5, <2>6
<1>3. CASE form \in {"CMP", "MOVBZ"} \X {<<"R", "m">>}
  BY <1>3 DEF Long, LongForm
<1>4. CASE form \in {"MOVB"} \X {<<"B", "m">>, <<"m", "B">>, <<"B", "O">>, <<"O", "B">>}
  <2>1. /\ form[1] \in {"MOVB"}
        /\ form[2] = <<"B", "m">> \/ form[2] = <<"m", "B">> \/ form[2] = <<"B", "O">> \/ form[2] = <<"O", "B">>
    BY <1>4
  <2>2. CASE form[2] = <<"B", "m">>
    <3>1. Long(form[1], "B", "m")
      BY <2>1 DEF Long
    <3>2. QED
      BY <2>2, <3>1 DEF LongForm
  <2>3. CASE form[2] = <<"m", "B">>
    <3>1. Long(form[1], "m", "B")
      BY <2>1 DEF Long
    <3>2. QED
      BY <2>3, <3>1 DEF LongForm
  <2>4. CASE form[2] = <<"B", "O">>
    <3>1. Long(form[1], "B", "O")
      BY <2>1 DEF Long
    <3>2. QED
      BY <2>4, <3>1 DEF LongForm
  <2>5. CASE form[2] = <<"O", "B">>
    <3>1. Long(form[1], "O", "B")
      BY <2>1 DEF Long
    <3>2. QED
      BY <2>5, <3>1 DEF LongForm
  <2>6. QED
    BY <2>1, <2>2, <2>3, <2>4, <2>5
<1>5. CASE form \in ByteAlu \X {<<"B", "m">>, <<"m", "B">>}
  <2>1. form[1] \in ByteAlu /\ (form[2] = <<"B", "m">> \/ form[2] = <<"m", "B">>)
    BY <1>5
  <2>2. CASE form[2] = <<"B", "m">>
    <3>1. Long(form[1], "B", "m")
      BY <2>1 DEF ByteAlu, Long
    <3>2. QED
      BY <2>2, <3>1 DEF LongForm
  <2>3. CASE form[2] = <<"m", "B">>
    <3>1. Long(form[1], "m", "B")
      BY <2>1 DEF ByteAlu, Long
    <3>2. QED
      BY <2>3, <3>1 DEF LongForm
  <2>4. QED
    BY <2>1, <2>2, <2>3
<1>6. CASE form \in {<<"CMPB", <<"B", "m">>>>}
  BY <1>6 DEF Long, LongForm
<1>7. QED
  BY <1>1, <1>2, <1>3, <1>4, <1>5, <1>6, Zenon DEF FourBytes

LEMMA FormsApart == ASSUME NEW form PROVE ~(ShortForm(form) /\ LongForm(form))
<1> SUFFICES ASSUME ShortForm(form), LongForm(form) PROVE FALSE
  OBVIOUS
<1>1. PICK x, y : form[2] = <<x, y>> /\ Long(form[1], x, y)
  BY DEF LongForm
<1>2. form[2] # <<>> /\ form[2] # <<"R">>
  BY <1>1
<1>3. PICK u, v : form[2] = <<u, v>> /\ Short(form[1], u, v)
  BY <1>2 DEF ShortForm
<1>4. u = x /\ v = y
  BY <1>1, <1>3
<1>5. QED
  BY <1>1, <1>3, <1>4 DEF Short, Long, Words2, Shifts, Bytes2

Kinds == {"imm", "reg", "mem", "breg", "ind", "imm_addr", "ind_off"}

LEMMA Letters ==
    ASSUME NEW mn, NEW o \in Operands
    PROVE  /\ o[1] \in Kinds
           /\ Letter(mn, o) = "R" <=> o[1] = "reg"
           /\ Letter(mn, o) = "m" <=> o[1] = "mem"
           /\ Letter(mn, o) = "B" <=> o[1] = "breg"
           /\ Letter(mn, o) = "P" <=> o[1] = "ind"
           /\ Letter(mn, o) = "A" <=> o[1] = "imm_addr"
           /\ Letter(mn, o) = "O" <=> o[1] = "ind_off"
           /\ Letter(mn, o) = "i" <=> o[1] = "imm" /\ mn \notin WideOnly /\ o[2] \in 0 .. 15
           /\ Letter(mn, o) = "I" <=> o[1] = "imm" /\ (mn \in WideOnly \/ o[2] \notin 0 .. 15)
<1>1. o[1] \in Kinds
  BY DEF Operands, Registers, Cells, Kinds
<1>2. QED
  BY <1>1 DEF Letter, Kinds

FormOf(line) == <<line.mn, [k \in DOMAIN line.ops |-> Letter(line.mn, line.ops[k])]>>

(* An instruction of two operands, by its form.                            *)
LEMMA TwoOperands ==
    ASSUME NEW line, line.ops \in Seq(Operands), NEW x, NEW y, FormOf(line)[2] = <<x, y>>
    PROVE  /\ line.ops[1] \in Operands /\ line.ops[2] \in Operands
           /\ x = Letter(line.mn, line.ops[1]) /\ y = Letter(line.mn, line.ops[2])
<1>1. PICK ops : ops = line.ops
  OBVIOUS
<1>2. <<x, y>> = [k \in DOMAIN ops |-> Letter(line.mn, ops[k])]
  BY <1>1 DEF FormOf
<1>3. DOMAIN ops = 1 .. 2
  BY <1>2
<1>4. ops[1] \in Operands /\ ops[2] \in Operands
  <2>1. DOMAIN ops = 1 .. Len(ops)
    BY <1>1, LenProperties
  <2>2. 1 \in 1 .. Len(ops) /\ 2 \in 1 .. Len(ops)
    BY <1>3, <2>1
  <2>3. QED
    BY <1>1, <2>2, ElementOfSeq
<1>5. <<x, y>>[1] = x /\ <<x, y>>[2] = y /\ 1 \in 1 .. 2 /\ 2 \in 1 .. 2
  OBVIOUS
<1>6. x = Letter(line.mn, ops[1]) /\ y = Letter(line.mn, ops[2])
  BY <1>2, <1>3, <1>5
<1>7. QED
  BY <1>1, <1>4, <1>6

-----------------------------------------------------------------------------
(* The bytes of each form.                                                 *)

LEMMA TwoLength ==
    ASSUME NEW opcode, NEW u, NEW l, Two(opcode, u, l) # Refused PROVE Len(Two(opcode, u, l)) = 2
  BY DEF Two, Refused

LEMMA FourLength == ASSUME NEW opcode, NEW u, NEW v PROVE Len(Four(opcode, u, v)) = 4
  BY DEF Four

(* Through a pointer: with a displacement four bytes, without it two.      *)
LEMMA PointerLength ==
    ASSUME NEW mn, NEW dst, NEW src, NEW e, e = EncodedPointer(mn, dst, src), e # Refused
    PROVE  /\ src[1] = "ind" => Len(e) = 2
           /\ src[1] = "ind_off" => Len(e) = 4
           /\ src[1] \notin {"ind", "ind_off"} /\ dst[1] = "ind" => Len(e) = 2
           /\ src[1] \notin {"ind", "ind_off"} /\ dst[1] = "ind_off" => Len(e) = 4
<1> DEFINE word == mn = "MOV"
           reading == src[1] \in {"ind", "ind_off"}
           p == IF reading THEN src ELSE dst
           n == IF reading THEN dst[2] ELSE src[2]
<1>1. CASE p[1] = "ind_off"
  <2>1. PICK opcode, second : e = IF n > 15 THEN Refused ELSE Four(opcode, second, p[3])
    BY <1>1 DEF EncodedPointer
  <2>2. Len(e) = 4
    BY <2>1, FourLength
  <2>3. QED
    BY <1>1, <2>2
<1>2. CASE p[1] = "ind"
  <2>1. PICK opcode : e = Two(opcode, n, p[2])
    <3>1. CASE p[3] = "plain"
      BY <1>2, <3>1 DEF EncodedPointer
    <3>2. CASE p[3] = "postinc" /\ reading
      BY <1>2, <3>2 DEF EncodedPointer
    <3>3. CASE p[3] = "predec" /\ ~reading
      BY <1>2, <3>3 DEF EncodedPointer
    <3>4. CASE p[3] # "plain" /\ ~(p[3] = "postinc" /\ reading) /\ ~(p[3] = "predec" /\ ~reading)
      <4>1. e = Refused
        BY <1>2, <3>4 DEF EncodedPointer
      <4>2. QED
        BY <4>1
    <3>5. QED
      BY <3>1, <3>2, <3>3, <3>4
  <2>2. Len(e) = 2
    BY <2>1, TwoLength
  <2>3. QED
    BY <1>2, <2>2
<1>3. CASE p[1] \notin {"ind", "ind_off"}
  BY <1>3
<1>4. QED
  BY <1>1, <1>2, <1>3

LEMMA Opcodes ==
    /\ DOMAIN ShiftOpcode = Shifts
    /\ DOMAIN AluOpcode = {"ADD", "ADDC", "SUB", "SUBC", "CMP", "XOR", "AND", "OR", "ADDB", "SUBB", "CMPB",
                           "ANDB", "ORB"}
  BY DEF ShiftOpcode, AluOpcode, Shifts

(* An instruction on words, of two registers, or a register and an         *)
(* immediate value.                                                        *)
LEMMA WordShort ==
    ASSUME NEW a, NEW mn \in Words2, NEW dst \in Operands, NEW src \in Operands,
           IsReg(dst), IsReg(src) \/ (src[1] = "imm" /\ src[2] \in 0 .. 15 /\ mn \in Shifts \cup {"MOV"}),
           NEW e, e = EncodedWord(a, mn, dst, src), e # Refused
    PROVE  Len(e) = 2
<1>1. CASE IsReg(src)
  <2>1. ~IsMem(src) /\ ~IsMem(dst) /\ src[1] # "imm" /\ src[1] # "imm_addr"
        /\ {dst[1], src[1]} \cap {"ind", "ind_off"} = {}
    BY <1>1 DEF IsReg, IsMem
  <2>2. PICK opcode : e = Two(opcode, dst[2], src[2])
    <3>1. CASE mn = "MOV"
      BY <1>1, <2>1, <3>1, Opcodes DEF EncodedWord, Shifts
    <3>2. CASE mn \in {"MUL", "MULU"}
      BY <1>1, <2>1, <3>2, Opcodes DEF EncodedWord, Shifts
    <3>3. CASE mn \in Shifts
      BY <1>1, <2>1, <3>3, Opcodes DEF EncodedWord, Shifts
    <3>4. CASE mn \in {"ADD", "ADDC", "SUB", "SUBC", "CMP", "XOR", "AND", "OR"}
      BY <1>1, <2>1, <3>4, Opcodes DEF EncodedWord, Shifts
    <3>5. QED
      BY <3>1, <3>2, <3>3, <3>4 DEF Words2, Shifts
  <2>3. QED
    BY <2>2, TwoLength
<1>2. CASE src[1] = "imm" /\ src[2] \in 0 .. 15 /\ mn \in Shifts \cup {"MOV"}
  <2>1. ~IsMem(src) /\ ~IsMem(dst) /\ ~IsReg(src) /\ src[1] # "imm_addr"
        /\ {dst[1], src[1]} \cap {"ind", "ind_off"} = {}
    BY <1>2 DEF IsReg, IsMem
  <2>2. PICK opcode : e = Two(opcode, src[2], dst[2])
    <3>1. CASE mn = "MOV"
      BY <1>2, <2>1, <3>1, Opcodes DEF EncodedWord, Shifts
    <3>2. CASE mn \in Shifts
      BY <1>2, <2>1, <3>2, Opcodes DEF EncodedWord, Shifts
    <3>3. QED
      BY <1>2, <3>1, <3>2
  <2>3. QED
    BY <2>2, TwoLength
<1>3. QED
  BY <1>1, <1>2

(* A register and a wide immediate value, an address or a cell.            *)
LEMMA WordLong ==
    ASSUME NEW a, NEW mn \in {"MOV", "ADD", "SUB", "AND", "OR", "XOR", "CMP"},
           NEW dst \in Operands, NEW src \in Operands,
           \/ IsReg(dst) /\ src[1] = "imm" /\ (mn = "MOV" => src[2] \notin 0 .. 15)
           \/ IsReg(dst) /\ IsMem(src) /\ mn \in {"MOV", "CMP"}
           \/ IsReg(dst) /\ src[1] = "imm_addr" /\ mn = "MOV"
           \/ IsMem(dst) /\ IsReg(src) /\ mn = "MOV",
           NEW e, e = EncodedWord(a, mn, dst, src)
    PROVE  Len(e) = 4
<1>1. \E opcode, second, v : e = Four(opcode, second, v)
  <2>1. CASE IsReg(dst) /\ src[1] = "imm" /\ mn = "MOV" /\ src[2] \notin 0 .. 15
    BY <2>1, Opcodes DEF EncodedWord, Shifts, IsReg, IsMem
  <2>2. CASE IsReg(dst) /\ src[1] = "imm" /\ mn # "MOV"
    BY <2>2, Opcodes DEF EncodedWord, Shifts, IsReg, IsMem
  <2>3. CASE IsReg(dst) /\ IsMem(src) /\ mn = "MOV"
    BY <2>3, Opcodes DEF EncodedWord, Shifts, IsReg, IsMem
  <2>4. CASE IsReg(dst) /\ IsMem(src) /\ mn = "CMP"
    BY <2>4, Opcodes DEF EncodedWord, Shifts, IsReg, IsMem
  <2>5. CASE IsReg(dst) /\ src[1] = "imm_addr" /\ mn = "MOV"
    BY <2>5, Opcodes DEF EncodedWord, Shifts, IsReg, IsMem
  <2>6. CASE IsMem(dst) /\ IsReg(src) /\ mn = "MOV"
    BY <2>6, Opcodes DEF EncodedWord, Shifts, IsReg, IsMem
  <2>7. QED
    BY <2>1, <2>2, <2>3, <2>4, <2>5, <2>6
<1>2. QED
  BY <1>1, FourLength

LEMMA WordPointer ==
    ASSUME NEW a, NEW dst \in Operands, NEW src \in Operands,
           \/ IsReg(dst) /\ src[1] \in {"ind", "ind_off"}
           \/ IsReg(src) /\ dst[1] \in {"ind", "ind_off"},
           NEW e, e = EncodedWord(a, "MOV", dst, src)
    PROVE  e = EncodedPointer("MOV", dst, src)
<1>1. {dst[1], src[1]} \cap {"ind", "ind_off"} # {}
  OBVIOUS
<1>2. /\ ~(IsReg(src) /\ IsReg(dst)) /\ src[1] \notin {"imm", "imm_addr"} /\ ~IsMem(src) /\ ~IsMem(dst)
  BY DEF IsReg, IsMem
<1>3. QED
  BY <1>1, <1>2, Opcodes DEF EncodedWord, Shifts

AsCounted(mn, x, y, e) == (Short(mn, x, y) => Len(e) = 2) /\ (Long(mn, x, y) => Len(e) = 4)

(* Every form of an instruction on words has the length that it counts.    *)
LEMMA WordLength ==
    ASSUME NEW a, NEW mn \in Words2, NEW dst \in Operands, NEW src \in Operands,
           NEW x, x = Letter(mn, dst), NEW y, y = Letter(mn, src),
           NEW e, e = EncodedWord(a, mn, dst, src), e # Refused
    PROVE  AsCounted(mn, x, y, e)
<1>1. ASSUME Short(mn, x, y) PROVE Len(e) = 2
  <2>1. CASE x = "R" /\ (y = "R" \/ (y = "i" /\ mn \in Shifts \cup {"MOV"}))
    <3>1. IsReg(dst) /\ (IsReg(src) \/ (src[1] = "imm" /\ src[2] \in 0 .. 15 /\ mn \in Shifts \cup {"MOV"}))
      BY <2>1, Letters DEF IsReg
    <3>2. QED
      BY <3>1, WordShort
  <2>2. CASE mn = "MOV" /\ ((x = "R" /\ y = "P") \/ (x = "P" /\ y = "R"))
    <3>1. (IsReg(dst) /\ src[1] = "ind") \/ (IsReg(src) /\ dst[1] = "ind")
      BY <2>2, Letters DEF IsReg
    <3>2. e = EncodedPointer("MOV", dst, src)
      BY <2>2, <3>1, WordPointer
    <3>3. QED
      BY <3>1, <3>2, PointerLength DEF IsReg
  <2>3. QED
    BY <1>1, <2>1, <2>2 DEF Short, Words2, Shifts, Bytes2
<1>2. ASSUME Long(mn, x, y) PROVE Len(e) = 4
  <2>1. CASE mn = "MOV" /\ ((x = "R" /\ y = "O") \/ (x = "O" /\ y = "R"))
    <3>1. (IsReg(dst) /\ src[1] = "ind_off") \/ (IsReg(src) /\ dst[1] = "ind_off")
      BY <2>1, Letters DEF IsReg
    <3>2. e = EncodedPointer("MOV", dst, src)
      BY <2>1, <3>1, WordPointer
    <3>3. QED
      BY <3>1, <3>2, PointerLength DEF IsReg
  <2>2. CASE /\ mn \in {"MOV", "ADD", "SUB", "AND", "OR", "XOR", "CMP"}
             /\ \/ x = "R" /\ y = "I"
                \/ x = "R" /\ y = "m" /\ mn \in {"MOV", "CMP"}
                \/ x = "R" /\ y = "A" /\ mn = "MOV"
                \/ x = "m" /\ y = "R" /\ mn = "MOV"
    <3>1. \/ IsReg(dst) /\ src[1] = "imm" /\ (mn = "MOV" => src[2] \notin 0 .. 15)
          \/ IsReg(dst) /\ IsMem(src) /\ mn \in {"MOV", "CMP"}
          \/ IsReg(dst) /\ src[1] = "imm_addr" /\ mn = "MOV"
          \/ IsMem(dst) /\ IsReg(src) /\ mn = "MOV"
      BY <2>2, Letters DEF IsReg, IsMem, WideOnly
    <3>2. QED
      BY <2>2, <3>1, WordLong
  <2>3. QED
    BY <1>2, <2>1, <2>2 DEF Long, Words2
<1>3. QED
  BY <1>1, <1>2 DEF AsCounted

LEMMA ByteLength ==
    ASSUME NEW a, NEW mn \in Bytes2, NEW dst \in Operands, NEW src \in Operands,
           NEW x, x = Letter(mn, dst), NEW y, y = Letter(mn, src),
           NEW e, e = EncodedByte(a, mn, dst, src), e # Refused
    PROVE  AsCounted(mn, x, y, e)
<1>1. ASSUME Short(mn, x, y) PROVE Len(e) = 2
  <2>1. CASE x = "B" /\ y \in {"B", "i"}
    <3>1. dst[1] = "breg" /\ src[1] \in {"breg", "imm"}
      BY <2>1, Letters
    <3>2. \E opcode, u, l : e = Two(opcode, u, l)
      <4>1. CASE src[1] = "breg"
        BY <3>1, <4>1 DEF EncodedByte, IsMem
      <4>2. CASE src[1] = "imm"
        BY <3>1, <4>2 DEF EncodedByte, IsMem
      <4>3. QED
        BY <3>1, <4>1, <4>2
    <3>3. QED
      BY <3>2, TwoLength
  <2>2. CASE (x = "B" /\ y = "P") \/ (x = "P" /\ y = "B")
    <3>1. (dst[1] = "breg" /\ src[1] = "ind") \/ (src[1] = "breg" /\ dst[1] = "ind")
      BY <2>2, Letters
    <3>2. e = EncodedPointer(mn, dst, src)
      BY <3>1 DEF EncodedByte, IsMem
    <3>3. QED
      BY <3>1, <3>2, PointerLength
  <2>3. QED
    BY <1>1, <2>1, <2>2 DEF Short, Words2, Shifts, Bytes2
<1>2. ASSUME Long(mn, x, y) PROVE Len(e) = 4
  <2>1. CASE (x = "B" /\ y = "O") \/ (x = "O" /\ y = "B")
    <3>1. (dst[1] = "breg" /\ src[1] = "ind_off") \/ (src[1] = "breg" /\ dst[1] = "ind_off")
      BY <2>1, Letters
    <3>2. e = EncodedPointer(mn, dst, src)
      BY <3>1 DEF EncodedByte, IsMem
    <3>3. QED
      BY <3>1, <3>2, PointerLength
  <2>2. CASE (x = "B" /\ y = "m") \/ (x = "m" /\ y = "B")
    <3>1. (dst[1] = "breg" /\ IsMem(src)) \/ (src[1] = "breg" /\ IsMem(dst))
      BY <2>2, Letters DEF IsMem
    <3>2. \E opcode, second, v : e = Four(opcode, second, v)
      <4>1. CASE dst[1] = "breg" /\ IsMem(src)
        BY <4>1 DEF EncodedByte, IsMem
      <4>2. CASE src[1] = "breg" /\ IsMem(dst)
        BY <4>2 DEF EncodedByte, IsMem
      <4>3. QED
        BY <3>1, <4>1, <4>2
    <3>3. QED
      BY <3>2, FourLength
  <2>3. QED
    BY <1>2, <2>1, <2>2 DEF Long, Bytes2
<1>3. QED
  BY <1>1, <1>2 DEF AsCounted

Direct2 == {"JMPR", "CALLR", "NOP", "JMPI", "CALLI", "RETS"}
Direct4 == {"SRVWDT", "EINIT", "SRST", "JMPA", "CALLA", "JMPS", "CALLS"}
Shaped(mn) == mn \notin Direct2 \cup Direct4 \cup {"DW"}

(* The bytes of a line, by its mnemonic.                                   *)
LEMMA EncodedCases ==
    ASSUME NEW a, NEW line, NEW pc, NEW mn, NEW ops, mn = line.mn, ops = line.ops,
           NEW e, e = Encoded(a, line, pc)
    PROVE  /\ mn = "JMPR" => e = Branch(a, 16 * CCMap[ops[1][2]] + 13, pc, ops[2][2])
           /\ mn = "CALLR" => e = Branch(a, \hBB, pc, ops[1][2])
           /\ mn \in {"JMPA", "CALLA"} => \E opcode, second : e = Far(a, opcode, second, ops[2])
           /\ mn \in {"JMPS", "CALLS"} => \E opcode, second : e = Far(a, opcode, second, ops[2])
           /\ mn \in {"JMPI", "CALLI"} => \E opcode, u, l : e = Two(opcode, u, l)
           /\ mn \in {"RETS", "RET", "NOP"} => \E p, q : e = <<p, q>>
           /\ mn \in {"SRVWDT", "EINIT", "SRST"} => \E p, q, r, s : e = <<p, q, r, s>>
           /\ mn \in Unary => e = EncodedUnary(mn, ops[1][2])
<1> USE DEF Divides, ByteAlu
<1>1. mn = "JMPR" => e = Branch(a, 16 * CCMap[ops[1][2]] + 13, pc, ops[2][2])
  BY SMTT(30) DEF Encoded
<1>2. mn = "CALLR" => e = Branch(a, \hBB, pc, ops[1][2])
  BY SMTT(30) DEF Encoded
<1>3. mn \in {"JMPA", "CALLA"} => \E opcode, second : e = Far(a, opcode, second, ops[2])
  <2>1. mn \in {"JMPA", "CALLA"} =>
            e = Far(a, IF mn = "JMPA" THEN \hEA ELSE \hCA, 16 * CCMap[ops[1][2]], ops[2])
    BY SMTT(30) DEF Encoded
  <2>2. QED
    BY <2>1, Zenon
<1>4. mn \in {"JMPS", "CALLS"} => \E opcode, second : e = Far(a, opcode, second, ops[2])
  <2>1. mn \in {"JMPS", "CALLS"} =>
            e = Far(a, IF mn = "JMPS" THEN \hFA ELSE \hDA, ops[1][2] % 256, ops[2])
    BY SMTT(30) DEF Encoded
  <2>2. QED
    BY <2>1, Zenon
<1>5. mn \in {"JMPI", "CALLI"} => \E opcode, u, l : e = Two(opcode, u, l)
  <2>1. mn \in {"JMPI", "CALLI"} =>
            e = Two(IF mn = "JMPI" THEN \h9C ELSE \hAB, CCMap[ops[1][2]], ops[2][2])
    BY DEF Encoded
  <2>2. QED
    BY <2>1
<1>6. mn \in {"RETS", "RET", "NOP"} => \E p, q : e = <<p, q>>
  <2>1. mn = "RETS" => e = <<\hDB, 0>>
    BY DEF Encoded
  <2>2. mn = "RET" => e = <<\hCB, 0>>
    BY DEF Encoded
  <2>3. mn = "NOP" => e = <<\hCC, 0>>
    BY DEF Encoded
  <2>4. QED
    BY <2>1, <2>2, <2>3
<1>7. mn \in {"SRVWDT", "EINIT", "SRST"} => \E p, q, r, s : e = <<p, q, r, s>>
  <2>1. mn = "SRVWDT" => e = <<\hA7, \h58, \hA7, \hA7>>
    BY DEF Encoded
  <2>2. mn = "EINIT" => e = <<\hB5, \h4A, \hB5, \hB5>>
    BY DEF Encoded
  <2>3. mn = "SRST" => e = <<\hB7, \h48, \hB7, \hB7>>
    BY DEF Encoded
  <2>4. QED
    BY <2>1, <2>2, <2>3
<1>8. mn \in Unary => e = EncodedUnary(mn, ops[1][2])
  BY DEF Encoded, Unary
<1>9. QED
  BY <1>1, <1>2, <1>3, <1>4, <1>5, <1>6, <1>7, <1>8

LEMMA SizeByForm ==
    ASSUME NEW line, Shaped(line.mn)
    PROVE  /\ FormOf(line) \in TwoBytes => SizeOf(line) = 2
           /\ FormOf(line) \in FourBytes => SizeOf(line) = 4
           /\ FormOf(line) \notin TwoBytes \cup FourBytes => SizeOf(line) = Unknown
<1> DEFINE form == <<line.mn, [k \in DOMAIN line.ops |-> Letter(line.mn, line.ops[k])]>>
<1>1. ~(form \in TwoBytes /\ form \in FourBytes)
  BY ShortForms, LongForms, FormsApart
<1>2. form = FormOf(line)
  BY DEF FormOf
<1>3. SizeOf(line) = CASE form \in TwoBytes -> 2 [] form \in FourBytes -> 4
                       [] form \notin TwoBytes \cup FourBytes -> Unknown
  BY DEF SizeOf, Shaped, Direct2, Direct4
<1> HIDE DEF form
<1>4. QED
  BY <1>1, <1>2, <1>3

LEMMA TwiceIsEven == ASSUME NEW n \in Nat PROVE 2 * n \in Nat /\ (2 * n) % 2 = 0
  OBVIOUS

LEMMA SizeIsEven ==
    ASSUME NEW line, line.ops \in LineOperands(line.mn)
    PROVE  SizeOf(line) \in Nat /\ SizeOf(line) % 2 = 0
<1>1. CASE line.mn \in Direct2
  BY <1>1 DEF SizeOf, Direct2
<1>2. CASE line.mn \in Direct4
  BY <1>2 DEF SizeOf, Direct4
<1>3. CASE line.mn = "DW"
  <2>1. SizeOf(line) = 2 * Len(line.ops)
    BY <1>3 DEF SizeOf
  <2>2. PICK n \in Nat : n = Len(line.ops)
    BY <1>3, LenProperties DEF LineOperands
  <2>3. 2 * n \in Nat /\ (2 * n) % 2 = 0
    BY <2>2, TwiceIsEven
  <2>4. QED
    BY <2>1, <2>2, <2>3
<1>4. CASE Shaped(line.mn)
  BY <1>4, SizeByForm DEF Unknown
<1>5. QED
  BY <1>1, <1>2, <1>3, <1>4 DEF Shaped

(* The lines that the macros and the mnemonics shape.                      *)
LEMMA ShapedLength ==
    ASSUME NEW a, NEW line, line.ops \in LineOperands(line.mn), Shaped(line.mn), NEW pc,
           SizeOf(line) # Unknown, NEW e, e = Encoded(a, line, pc), e # Refused
    PROVE  Len(e) = SizeOf(line)
<1>1. PICK mn, ops : mn = line.mn /\ ops = line.ops
  OBVIOUS
<1>2. ops \in Seq(Operands)
  BY <1>1 DEF LineOperands, Shaped, Direct2, Direct4, Jumps
<1>3. PICK form : form = FormOf(line)
  OBVIOUS
<1>4. form[1] = mn
  BY <1>1, <1>3 DEF FormOf
<1>5. \/ form \in TwoBytes /\ SizeOf(line) = 2 /\ ShortForm(form)
      \/ form \in FourBytes /\ SizeOf(line) = 4 /\ LongForm(form)
  BY <1>3, SizeByForm, ShortForms, LongForms
<1>6. CASE mn = "RET" /\ form[2] = <<>> /\ SizeOf(line) = 2
  <2>1. \E p, q : e = <<p, q>>
    <3>1. mn \in {"RETS", "RET", "NOP"} => \E p, q : e = <<p, q>>
      BY <1>1, EncodedCases
    <3>2. QED
      BY <1>6, <3>1
  <2>2. QED
    BY <1>6, <2>1
<1>7. CASE mn \in Unary /\ SizeOf(line) = 2
  <2>1. e = EncodedUnary(mn, ops[1][2])
    BY <1>1, <1>7, EncodedCases
  <2>2. Len(e) = 2
    <3>1. CASE mn \in Divides
      BY <2>1, <3>1, TwoLength DEF EncodedUnary, Divides
    <3>2. CASE mn \in {"NEG", "CPL"}
      BY <2>1, <3>2, TwoLength DEF EncodedUnary, Divides
    <3>3. CASE mn \in {"PUSH", "POP"}
      BY <2>1, <3>3 DEF EncodedUnary, Divides
    <3>4. QED
      BY <1>7, <3>1, <3>2, <3>3 DEF Unary, Divides
  <2>3. QED
    BY <1>7, <2>2
<1>8. ASSUME NEW x, NEW y, form[2] = <<x, y>>,
             (Short(mn, x, y) /\ SizeOf(line) = 2) \/ (Long(mn, x, y) /\ SizeOf(line) = 4)
      PROVE  Len(e) = SizeOf(line)
  <2>1. PICK dst \in Operands, src \in Operands :
            dst = ops[1] /\ src = ops[2] /\ x = Letter(mn, dst) /\ y = Letter(mn, src)
    <3>1. /\ ops[1] \in Operands /\ ops[2] \in Operands
          /\ x = Letter(mn, ops[1]) /\ y = Letter(mn, ops[2])
      BY <1>1, <1>2, <1>3, <1>8, TwoOperands
    <3>2. QED
      BY <3>1
  <2>2. CASE mn \in Words2
    <3>1. e = EncodedWord(a, mn, dst, src)
      <4>1. /\ mn \notin Jumps \cup {"RETS", "RET", "NOP", "DW", "SRVWDT", "EINIT", "SRST"}
            /\ mn \notin Divides \cup {"NEG", "CPL", "PUSH", "POP"} /\ mn \notin {"EXTS", "EXTP"}
            /\ mn # "MOVBZ" /\ mn \notin ByteAlu \cup {"MOVB", "CMPB"}
        BY SMTT(30), <2>2 DEF Words2, Jumps, Divides, ByteAlu
      <4>2. /\ mn # "JMPR" /\ mn # "CALLR" /\ mn \notin {"JMPA", "CALLA"} /\ mn \notin {"JMPI", "CALLI"}
            /\ mn \notin {"JMPS", "CALLS"} /\ mn # "RETS" /\ mn # "RET" /\ mn # "NOP" /\ mn # "DW"
            /\ mn # "SRVWDT" /\ mn # "EINIT" /\ mn # "SRST"
        BY <4>1 DEF Jumps
      <4>3. e = EncodedWord(a, mn, ops[1], ops[2])
        BY <1>1, <4>1, <4>2, Zenon DEF Encoded
      <4>4. QED
        BY <2>1, <4>3
    <3>2. AsCounted(mn, x, y, e)
      BY <2>1, <2>2, <3>1, WordLength, Zenon
    <3>3. QED
      BY <1>8, <3>2 DEF AsCounted
  <2>3. CASE mn \in Bytes2
    <3>1. e = EncodedByte(a, mn, dst, src)
      BY <1>1, <2>1, <2>3 DEF Encoded, Bytes2, Divides, ByteAlu
    <3>2. AsCounted(mn, x, y, e)
      BY <2>1, <2>3, <3>1, ByteLength, Zenon
    <3>3. QED
      BY <1>8, <3>2 DEF AsCounted
  <2>4. CASE mn \in {"EXTS", "EXTP"}
    <3>1. SizeOf(line) = 2
      BY <1>8, <2>4 DEF Long
    <3>2. \E second : e = <<\hDC, second>>
      BY <1>1, <2>4 DEF Encoded, Divides, ByteAlu
    <3>3. QED
      BY <3>1, <3>2
  <2>5. CASE mn = "MOVBZ"
    <3>1. e = IF IsMem(src) THEN Four(\hC2, Full(dst[2]), Resolve(a, src[2], src[3]))
                            ELSE Two(\hC0, src[2], dst[2])
      BY <1>1, <2>1, <2>5 DEF Encoded, Divides, ByteAlu
    <3>2. (y = "B" /\ SizeOf(line) = 2) \/ (y = "m" /\ SizeOf(line) = 4)
      BY <1>8, <2>5 DEF Short, Long, Words2, Shifts, Bytes2
    <3>3. CASE IsMem(src)
      <4>1. y = "m"
        BY <2>1, <3>3, Letters DEF IsMem
      <4>2. QED
        BY <3>1, <3>2, <3>3, <4>1, FourLength
    <3>4. CASE ~IsMem(src)
      <4>1. y # "m"
        BY <2>1, <3>4, Letters DEF IsMem
      <4>2. e = Two(\hC0, src[2], dst[2])
        BY <3>1, <3>4
      <4>3. Len(e) = 2 /\ SizeOf(line) = 2
        BY <3>2, <4>1, <4>2, TwoLength
      <4>4. QED
        BY <4>3
    <3>5. QED
      BY <3>3, <3>4
  <2>6. mn \in Words2 \cup Bytes2 \cup {"EXTS", "EXTP", "MOVBZ"}
    BY <1>8 DEF Short, Long, Words2, Bytes2, Shifts
  <2>7. QED
    BY <2>2, <2>3, <2>4, <2>5, <2>6
<1>9. CASE ShortForm(form) /\ SizeOf(line) = 2
  BY <1>4, <1>6, <1>7, <1>8, <1>9 DEF ShortForm
<1>10. CASE LongForm(form) /\ SizeOf(line) = 4
  BY <1>4, <1>8, <1>10 DEF LongForm
<1>11. QED
  BY <1>5, <1>9, <1>10

LEMMA EncodedLength ==
    ASSUME NEW a, NEW line, line.ops \in LineOperands(line.mn), NEW pc,
           SizeOf(line) # Unknown, NEW e, e = Encoded(a, line, pc), e # Refused
    PROVE  Len(e) = SizeOf(line)
<1>1. PICK mn, ops : mn = line.mn /\ ops = line.ops
  OBVIOUS
<1>2. CASE mn \in Direct2
  <2>1. SizeOf(line) = 2
    BY <1>1, <1>2 DEF SizeOf, Direct2
  <2>2. CASE mn \in {"JMPR", "CALLR"}
    <3>1. \E opcode, target : e = Branch(a, opcode, pc, target)
      BY <1>1, <2>2, EncodedCases
    <3>2. \E opcode, second : e = <<opcode, second>>
      BY <3>1 DEF Branch
    <3>3. QED
      BY <2>1, <3>2
  <2>3. CASE mn \in {"JMPI", "CALLI"}
    <3>1. \E opcode, u, l : e = Two(opcode, u, l)
      BY <1>1, <2>3, EncodedCases
    <3>2. QED
      BY <2>1, <3>1, TwoLength
  <2>4. CASE mn \in {"NOP", "RETS"}
    <3>1. \E p, q : e = <<p, q>>
      BY <1>1, <2>4, EncodedCases
    <3>2. QED
      BY <2>1, <3>1
  <2>5. QED
    BY <1>2, <2>2, <2>3, <2>4 DEF Direct2
<1>3. CASE mn \in Direct4
  <2>1. SizeOf(line) = 4
    BY <1>1, <1>3 DEF SizeOf, Direct4
  <2>2. CASE mn \in {"JMPA", "CALLA", "JMPS", "CALLS"}
    <3>1. \E opcode, second, target : e = Far(a, opcode, second, target)
      BY <1>1, <2>2, EncodedCases
    <3>2. \E p, q, r, s : e = <<p, q, r, s>>
      BY <3>1 DEF Far
    <3>3. QED
      BY <2>1, <3>2
  <2>3. CASE mn \in {"SRVWDT", "EINIT", "SRST"}
    <3>1. \E p, q, r, s : e = <<p, q, r, s>>
      BY <1>1, <2>3, EncodedCases
    <3>2. QED
      BY <2>1, <3>1
  <2>4. QED
    BY <1>3, <2>2, <2>3 DEF Direct4
<1>4. CASE mn = "DW"
  <2>1. SizeOf(line) = 2 * Len(ops)
    BY <1>1, <1>4 DEF SizeOf
  <2>2. PICK n \in Nat : n = Len(ops)
    BY <1>1, <1>4, LenProperties DEF LineOperands
  <2>3. PICK m \in Nat : m = 2 * n
    BY <2>2
  <2>4. e \in [1 .. m -> { e[b] : b \in 1 .. m }]
    <3>1. e = [b \in 1 .. 2 * Len(ops) |-> IF b % 2 = 1 THEN ops[(b + 1) \div 2] % 256
                                           ELSE (ops[b \div 2] \div 256) % 256]
      BY <1>1, <1>4 DEF Encoded, Divides, ByteAlu
    <3>2. e = [b \in 1 .. m |-> IF b % 2 = 1 THEN ops[(b + 1) \div 2] % 256
                                ELSE (ops[b \div 2] \div 256) % 256]
      BY <2>2, <2>3, <3>1
    <3>3. QED
      BY <3>2
  <2>6. Len(e) = m
    BY <2>4, FunctionIsSequence
  <2>7. QED
    BY <2>1, <2>2, <2>3, <2>6
<1>5. CASE Shaped(mn)
  BY <1>1, <1>5, ShapedLength
<1>6. QED
  BY <1>2, <1>3, <1>4, <1>5 DEF Shaped

-----------------------------------------------------------------------------
(* Where the code and the variables lie.                                   *)

Sizes(a) == [k \in 1 .. Len(a.lines) |-> SizeOf(a.lines[k])]
Spaces(a) == [k \in 1 .. Len(Names) |-> Space(a, Names[k])]

LEMMA EvenFacts ==
    ASSUME NEW n \in Nat PROVE Even(n) \in Nat /\ n <= Even(n) /\ Even(n) % 2 = 0
<1>1. PICK q \in Nat : q = (n + 1) \div 2 /\ n <= 2 * q
  <2>1. (n + 1) \div 2 \in Nat /\ n <= 2 * ((n + 1) \div 2)
    OBVIOUS
  <2>2. QED
    BY <2>1
<1>2. Even(n) = 2 * q
  BY <1>1 DEF Even
<1>3. QED
  BY <1>1, <1>2, TwiceIsEven

LEMMA LinesFacts ==
    ASSUME NEW a, NEW V, Fine(a, V)
    PROVE  /\ Len(a.lines) \in Nat /\ DOMAIN a.lines = 1 .. Len(a.lines)
           /\ Sizes(a) \in [1 .. Len(a.lines) -> Nat]
           /\ \A k \in 1 .. Len(a.lines) : Sizes(a)[k] % 2 = 0
<1>1. PICK S : a.lines \in Seq(S)
  BY DEF Fine, ASequence
<1>2. Len(a.lines) \in Nat /\ DOMAIN a.lines = 1 .. Len(a.lines)
  BY <1>1, LenProperties
<1>3. ASSUME NEW k \in 1 .. Len(a.lines)
      PROVE  SizeOf(a.lines[k]) \in Nat /\ SizeOf(a.lines[k]) % 2 = 0
  <2>1. PICK line : line = a.lines[k]
    OBVIOUS
  <2>2. line.ops \in LineOperands(line.mn)
    BY <2>1 DEF Fine, LineFine
  <2>3. QED
    BY <2>1, <2>2, SizeIsEven
<1>4. QED
  BY <1>2, <1>3 DEF Sizes

LEMMA AddressesRun ==
    ASSUME NEW a, NEW V, Fine(a, V) PROVE Runs(Addresses(a), Len(a.lines), 0, Sizes(a))
<1>1. PICK n \in Nat : n = Len(a.lines)
  BY LinesFacts
<1>2. Sizes(a) \in [1 .. n -> Nat]
  BY <1>1, LinesFacts
<1>3. PICK g : Runs(g, n, 0, Sizes(a))
  BY <1>2, RunExists
<1>4. ASSUME NEW h
      PROVE  [k \in 1 .. n + 1 |-> IF k = 1 THEN 0 ELSE h[k - 1] + Sizes(a)[k - 1]]
               = [k \in 1 .. n + 1 |-> IF k = 1 THEN 0 ELSE h[k - 1] + SizeOf(a.lines[k - 1])]
  <2>1. ASSUME NEW k \in 1 .. n + 1, k # 1 PROVE Sizes(a)[k - 1] = SizeOf(a.lines[k - 1])
    BY <1>1, <2>1 DEF Sizes
  <2>2. QED
    BY <2>1
<1>5. g = [k \in 1 .. n + 1 |-> IF k = 1 THEN 0 ELSE g[k - 1] + SizeOf(a.lines[k - 1])]
  BY <1>3, <1>4, Zenon DEF Runs
<1>6. \E h : h = [k \in 1 .. Len(a.lines) + 1 |-> IF k = 1 THEN 0 ELSE h[k - 1] + SizeOf(a.lines[k - 1])]
  BY <1>1, <1>5, Zenon
<1>7. Addresses(a) =
        [k \in 1 .. Len(a.lines) + 1 |-> IF k = 1 THEN 0 ELSE Addresses(a)[k - 1] + SizeOf(a.lines[k - 1])]
  BY <1>6, Zenon DEF Addresses
<1>8. QED
  BY <1>1, <1>4, <1>7, Zenon DEF Runs

LEMMA SpacesFacts ==
    ASSUME NEW a, NEW V, Fine(a, V)
    PROVE  /\ Len(Names) \in Nat /\ DOMAIN Names = 1 .. Len(Names)
           /\ Spaces(a) \in [1 .. Len(Names) -> Nat]
           /\ \A k \in 1 .. Len(Names) : Spaces(a)[k] % 2 = 0
<1>1. Len(Names) \in Nat /\ DOMAIN Names = 1 .. Len(Names)
  BY ToolchainAssumption, LenProperties
<1>2. ASSUME NEW k \in 1 .. Len(Names) PROVE Space(a, Names[k]) \in Nat /\ Space(a, Names[k]) % 2 = 0
  <2>1. CASE Names[k] \in DOMAIN a.vars
    <3>1. PICK size \in Nat : size = a.vars[Names[k]]
      BY <2>1 DEF Fine
    <3>2. QED
      BY <2>1, <3>1, EvenFacts DEF Space
  <2>2. CASE Names[k] \notin DOMAIN a.vars
    BY <2>2 DEF Space
  <2>3. QED
    BY <2>1, <2>2
<1>3. QED
  BY <1>1, <1>2 DEF Spaces

LEMMA DataAddressesRun ==
    ASSUME NEW a, NEW V, Fine(a, V), CodeEnd(a) \in Nat
    PROVE  Runs(DataAddresses(a), Len(Names), Even(CodeEnd(a)), Spaces(a))
<1>1. PICK n \in Nat, b \in Nat : n = Len(Names) /\ b = Even(CodeEnd(a))
  BY SpacesFacts, EvenFacts
<1>2. Spaces(a) \in [1 .. n -> Nat]
  BY <1>1, SpacesFacts
<1>3. PICK g : Runs(g, n, b, Spaces(a))
  BY <1>2, RunExists
<1>4. ASSUME NEW h
      PROVE  [k \in 1 .. n + 1 |-> IF k = 1 THEN b ELSE h[k - 1] + Spaces(a)[k - 1]]
               = [k \in 1 .. n + 1 |-> IF k = 1 THEN b ELSE h[k - 1] + Space(a, Names[k - 1])]
  <2>1. ASSUME NEW k \in 1 .. n + 1, k # 1 PROVE Spaces(a)[k - 1] = Space(a, Names[k - 1])
    BY <1>1, <2>1 DEF Spaces
  <2>2. QED
    BY <2>1
<1>5. g = [k \in 1 .. n + 1 |-> IF k = 1 THEN b ELSE g[k - 1] + Space(a, Names[k - 1])]
  BY <1>3, <1>4, Zenon DEF Runs
<1>6. g = [k \in 1 .. Len(Names) + 1 |->
               IF k = 1 THEN Even(CodeEnd(a)) ELSE g[k - 1] + Space(a, Names[k - 1])]
  BY <1>1, <1>5
<1>7. \E h : h = [k \in 1 .. Len(Names) + 1 |->
                    IF k = 1 THEN Even(CodeEnd(a)) ELSE h[k - 1] + Space(a, Names[k - 1])]
  BY <1>6, Zenon
<1>8. DataAddresses(a) =
        [k \in 1 .. Len(Names) + 1 |->
            IF k = 1 THEN Even(CodeEnd(a)) ELSE DataAddresses(a)[k - 1] + Space(a, Names[k - 1])]
  BY <1>7, Zenon DEF DataAddresses
<1>9. PICK d : d = DataAddresses(a)
  OBVIOUS
<1>10. d = [k \in 1 .. n + 1 |-> IF k = 1 THEN b ELSE d[k - 1] + Space(a, Names[k - 1])]
  BY <1>1, <1>8, <1>9
<1>11. Runs(d, n, b, Spaces(a))
  BY <1>4, <1>10, Zenon DEF Runs
<1>12. QED
  BY <1>1, <1>9, <1>11

(* The layout: the code from 0 to CodeEnd, then the areas of the names.    *)
LEMMA CodeFacts ==
    ASSUME NEW a, NEW V, Fine(a, V)
    PROVE  CodeEnd(a) \in Nat /\ \A k \in 1 .. Len(a.lines) : Addresses(a)[k] \in Nat
<1>1. PICK n \in Nat : n = Len(a.lines)
  BY LinesFacts
<1>2. Sizes(a) \in [1 .. n -> Nat]
  BY <1>1, LinesFacts
<1>3. PICK g : g = Addresses(a) /\ Runs(g, n, 0, Sizes(a))
  BY <1>1, AddressesRun
<1>4. g \in [1 .. n + 1 -> Nat]
  BY <1>2, <1>3, RunFacts DEF Running
<1>5. QED
  BY <1>1, <1>3, <1>4 DEF CodeEnd

InPlace(a, v) ==
    LET data == DataAddresses(a)
    IN  /\ Place(v) \in 1 .. Len(Names) /\ Names[Place(v)] = v
        /\ data[Place(v)] \in Nat /\ data[Place(v)] % 2 = 0
        /\ CodeEnd(a) <= data[Place(v)] /\ data[Place(v)] + Space(a, v) <= DataEnd(a)

LEMMA PlaceFacts ==
    ASSUME NEW v, v \in { Names[k] : k \in DOMAIN Names }
    PROVE  Place(v) \in DOMAIN Names /\ Names[Place(v)] = v
<1>1. \E k \in DOMAIN Names : Names[k] = v
  OBVIOUS
<1>2. QED
  BY <1>1, Zenon DEF Place

LEMMA DataFacts ==
    ASSUME NEW a, NEW V, Fine(a, V), NEW W, W \subseteq { Names[k] : k \in DOMAIN Names }
    PROVE  /\ CodeEnd(a) \in Nat /\ DataEnd(a) \in Nat
           /\ \A v \in W : InPlace(a, v)
           /\ \A v, w \in W : Place(v) < Place(w) =>
                  DataAddresses(a)[Place(v)] + Space(a, v) <= DataAddresses(a)[Place(w)]
<1>1. PICK n \in Nat : n = Len(Names) /\ DOMAIN Names = 1 .. n
  BY SpacesFacts
<1>2. PICK f \in [1 .. n -> Nat] : f = Spaces(a) /\ \A k \in 1 .. n : f[k] % 2 = 0
  BY <1>1, SpacesFacts
<1>3. PICK c \in Nat, b \in Nat : c = CodeEnd(a) /\ b = Even(c) /\ c <= b /\ b % 2 = 0
  BY CodeFacts, EvenFacts
<1>4. PICK g : g = DataAddresses(a) /\ Runs(g, n, b, f)
  BY <1>1, <1>2, <1>3, DataAddressesRun
<1>5. Running(g, n, b, f)
  BY <1>4, RunFacts
<1>6. \A k \in 1 .. n + 1 : g[k] % 2 = 0
  BY <1>2, <1>3, <1>4, RunEven, Zenon
<1>7. \A k \in 1 .. n + 1 : g[k] \in Nat
  BY <1>5 DEF Running
<1>8. \A j, k \in 1 .. n + 1 : j < k => g[j] + f[j] <= g[k]
  BY <1>5 DEF Running
<1>9. \A k \in 1 .. n + 1 : c <= g[k]
  <2> SUFFICES ASSUME NEW k \in 1 .. n + 1 PROVE c <= g[k]
    OBVIOUS
  <2>1. CASE k = 1
    BY <1>3, <1>5, <2>1 DEF Running
  <2>2. CASE k # 1
    <3>1. 1 < k /\ 1 \in 1 .. n + 1 /\ 1 \in 1 .. n
      BY <2>2
    <3>2. g[1] + f[1] <= g[k]
      BY <1>8, <3>1
    <3>3. g[1] = b /\ f[1] \in Nat /\ g[k] \in Nat
      BY <1>5, <1>7, <3>1 DEF Running
    <3>4. QED
      BY <1>3, <3>2, <3>3
  <2>3. QED
    BY <2>1, <2>2
<1>10. ASSUME NEW v \in W
       PROVE  /\ Place(v) \in 1 .. n /\ Names[Place(v)] = v
              /\ f[Place(v)] = Space(a, v)
  <2>1. Place(v) \in DOMAIN Names /\ Names[Place(v)] = v
    BY PlaceFacts
  <2>2. f[Place(v)] = Space(a, Names[Place(v)])
    BY <1>1, <1>2, <2>1 DEF Spaces
  <2>3. QED
    BY <1>1, <2>1, <2>2
<1>11. DataEnd(a) = g[n + 1]
  BY <1>1, <1>4 DEF DataEnd
<1>12. ASSUME NEW v \in W PROVE InPlace(a, v)
  <2>1. PICK p \in 1 .. n : p = Place(v)
    BY <1>10
  <2>2. p \in 1 .. n + 1 /\ n + 1 \in 1 .. n + 1 /\ p < n + 1
    OBVIOUS
  <2>3. g[p] + f[p] <= g[n + 1]
    BY <1>8, <2>2
  <2>4. g[p] \in Nat /\ g[p] % 2 = 0 /\ c <= g[p]
    BY <1>6, <1>7, <1>9, <2>2
  <2>5. QED
    BY <1>1, <1>3, <1>4, <1>10, <1>11, <2>1, <2>3, <2>4 DEF InPlace
<1>13. ASSUME NEW v \in W, NEW w \in W, Place(v) < Place(w)
       PROVE  g[Place(v)] + Space(a, v) <= g[Place(w)]
  <2>1. PICK p \in 1 .. n, q \in 1 .. n : p = Place(v) /\ q = Place(w)
    BY <1>10
  <2>2. p \in 1 .. n + 1 /\ q \in 1 .. n + 1 /\ p < q
    BY <1>13, <2>1
  <2>3. g[p] + f[p] <= g[q]
    BY <1>8, <2>2
  <2>4. QED
    BY <1>10, <2>1, <2>3
<1>14. DataEnd(a) \in Nat
  BY <1>7, <1>11
<1>15. QED
  BY <1>3, <1>4, <1>12, <1>13, <1>14

-----------------------------------------------------------------------------
(* Every name means one thing.                                             *)

LEMMA VariableAddress ==
    ASSUME NEW a, NEW v \in DOMAIN a.vars
    PROVE  DOMAIN VarAddress(a) = DOMAIN a.vars /\ VarAddress(a)[v] = DataAddresses(a)[Place(v)]
  BY Zenon DEF VarAddress

LEMMA AreaFacts ==
    ASSUME NEW a, NEW V, Fine(a, V), DOMAIN a.vars \subseteq { Names[k] : k \in DOMAIN Names },
           NEW v \in DOMAIN a.vars
    PROVE  /\ VarAddress(a)[v] \in Nat /\ VarAddress(a)[v] % 2 = 0
           /\ a.vars[v] \in Nat /\ a.vars[v] <= Space(a, v) /\ Space(a, v) \in Nat
           /\ CodeEnd(a) \in Nat /\ DataEnd(a) \in Nat
           /\ CodeEnd(a) <= VarAddress(a)[v] /\ VarAddress(a)[v] + Space(a, v) <= DataEnd(a)
<1>1. VarAddress(a)[v] = DataAddresses(a)[Place(v)]
  BY VariableAddress
<1>2. PICK size \in Nat : size = a.vars[v]
  BY DEF Fine
<1>3. Space(a, v) = Even(size)
  BY <1>2 DEF Space
<1>4. Even(size) \in Nat /\ size <= Even(size)
  BY EvenFacts
<1>5. InPlace(a, v) /\ CodeEnd(a) \in Nat /\ DataEnd(a) \in Nat
  BY DataFacts
<1>6. QED
  BY <1>1, <1>2, <1>3, <1>4, <1>5 DEF InPlace

LEMMA AreasApart ==
    ASSUME NEW a, NEW V, Fine(a, V), DOMAIN a.vars \subseteq { Names[k] : k \in DOMAIN Names },
           NEW v \in DOMAIN a.vars, NEW w \in DOMAIN a.vars, Place(v) < Place(w)
    PROVE  VarAddress(a)[v] + a.vars[v] <= VarAddress(a)[w]
<1>1. /\ VarAddress(a)[v] = DataAddresses(a)[Place(v)]
      /\ VarAddress(a)[w] = DataAddresses(a)[Place(w)]
  BY VariableAddress
<1>2. VarAddress(a)[v] + Space(a, v) <= VarAddress(a)[w]
  BY <1>1, DataFacts
<1>3. /\ VarAddress(a)[v] \in Nat /\ VarAddress(a)[w] \in Nat
      /\ a.vars[v] \in Nat /\ Space(a, v) \in Nat /\ a.vars[v] <= Space(a, v)
  BY AreaFacts
<1>4. QED
  BY <1>2, <1>3

(* Every word operand that gives its name a variable ends inside it.       *)
LEMMA OperandInArea ==
    ASSUME NEW a, NEW V, Fine(a, V), DOMAIN a.vars \subseteq { Names[k] : k \in DOMAIN Names },
           NEW line, LineFine(a, V, line), line.mn # "DW", NEW n \in DOMAIN line.ops,
           line.ops[n][1] = "mem", line.ops[n][2] \in V[line.at],
           line.ops[n][2] \notin DOMAIN SpecialNames \cup DOMAIN Literals \cup DOMAIN a.equs
    PROVE  Resolve(a, line.ops[n][2], line.ops[n][3]) + 1
             \in VarAddress(a)[line.ops[n][2]]
                   .. VarAddress(a)[line.ops[n][2]] + a.vars[line.ops[n][2]] - 1
<1>1. PICK o, v, off : o = line.ops[n] /\ v = o[2] /\ off = o[3]
  OBVIOUS
<1>2. o \in JumpOperands \/ o \in Operands
  <2>1. line.ops \in Seq(JumpOperands) \/ line.ops \in Seq(Operands)
    BY DEF LineFine, LineOperands
  <2>2. QED
    BY <1>1, <2>1
<1>3. o \in Cells
  BY <1>1, <1>2, OperandKinds DEF IsMem, Nameless
<1>4. off \in Nat
  BY <1>1, <1>3, OperandKinds
<1>5. CoveredBy(a, V[line.at], o)
  BY <1>1 DEF LineFine
<1>6. v \in DOMAIN a.vars /\ off + 2 <= a.vars[v]
  BY <1>1, <1>3, <1>5 DEF CoveredBy
<1>7. Resolve(a, v, off) = VarAddress(a)[v] + off
  BY <1>1, <1>6 DEF Resolve
<1>8. VarAddress(a)[v] \in Nat /\ a.vars[v] \in Nat
  BY <1>6, AreaFacts
<1>9. PICK x \in Nat, size \in Nat : x = VarAddress(a)[v] /\ size = a.vars[v]
  BY <1>8
<1>10. x + off + 1 \in x .. x + size - 1
  BY <1>4, <1>6, <1>9
<1>11. QED
  BY <1>1, <1>7, <1>9, <1>10

(* NamesResolve: in every program that the assembler accepts, the          *)
(* variables are exactly the names that a line reserves or uses before     *)
(* they are settled, labels used above their line among them; they have    *)
(* areas of their own behind the code that hold each such operand, and     *)
(* both passes agree on the size of every line (load_file, note_var,       *)
(* assemble, sizeof and encode of c166asm.py).                             *)
THEOREM EveryNameResolves == Spec => []NamesResolve
<1>1. ASSUME Inv PROVE NamesResolve
  <2> SUFFICES ASSUME stage = "assembled"
               PROVE  LET var == VarAddress(asm)
                          area(v) == var[v] .. var[v] + asm.vars[v] - 1
                      IN  /\ \A v \in DOMAIN var :
                                var[v] % 2 = 0 /\ area(v) \subseteq CodeEnd(asm) .. DataEnd(asm) - 1
                          /\ \A v, w \in DOMAIN var : v = w \/ area(v) \cap area(w) = {}
                          /\ DOMAIN asm.vars = UNION { GivenBy(Source, i) : i \in 1 .. Len(Source) }
                          /\ \A k \in DOMAIN asm.lines :
                                LET line == asm.lines[k]
                                IN  /\ Len(Encoded(asm, line, Addresses(asm)[k])) = SizeOf(line)
                                    /\ line.mn = "DW" \/ \A n \in DOMAIN line.ops :
                                          line.ops[n][1] = "mem"
                                          /\ line.ops[n][2] \in Unsettled(Source, line.at) \ DOMAIN asm.equs
                                            => Resolve(asm, line.ops[n][2], line.ops[n][3]) + 1
                                                 \in area(line.ops[n][2])
    BY Zenon DEF NamesResolve
  <2>1. PICK V : V = Giving(Source)
    OBVIOUS
  <2>2. Fine(asm, V) /\ Accepted(asm) /\ Expected(Source)
    BY <1>1, <2>1, ToolchainAssumption DEF Inv, Progress, Source
  <2>7. DOMAIN asm.vars = UNION { GivenBy(Source, i) : i \in 1 .. Len(Source) }
    <3>1. asm.count = Len(Source) /\ GivenUpTo(V, asm.count) \subseteq DOMAIN asm.vars /\ Len(Source) \in Nat
      BY <1>1, <2>1, <2>2 DEF Inv, Progress, Expected
    <3>2. DOMAIN asm.vars = GivenUpTo(V, Len(Source))
      BY <2>2, <3>1 DEF Fine
    <3>3. QED
      BY <2>1, <3>1, <3>2, AllGiven
  <2>3. DOMAIN asm.vars \subseteq { Names[k] : k \in DOMAIN Names }
    BY <2>2, <2>7, Zenon DEF Expected
  <2>4. DOMAIN VarAddress(asm) = DOMAIN asm.vars
    BY Zenon DEF VarAddress
  <2>5. ASSUME NEW v \in DOMAIN asm.vars
        PROVE  /\ VarAddress(asm)[v] % 2 = 0
               /\ VarAddress(asm)[v] .. VarAddress(asm)[v] + asm.vars[v] - 1
                    \subseteq CodeEnd(asm) .. DataEnd(asm) - 1
    <3>1. /\ VarAddress(asm)[v] \in Nat /\ VarAddress(asm)[v] % 2 = 0
          /\ asm.vars[v] \in Nat /\ asm.vars[v] <= Space(asm, v) /\ Space(asm, v) \in Nat
          /\ CodeEnd(asm) \in Nat /\ DataEnd(asm) \in Nat
          /\ CodeEnd(asm) <= VarAddress(asm)[v] /\ VarAddress(asm)[v] + Space(asm, v) <= DataEnd(asm)
      BY <2>2, <2>3, AreaFacts
    <3>2. PICK x \in Nat, size \in Nat, space \in Nat, c \in Nat, d \in Nat :
             /\ x = VarAddress(asm)[v] /\ size = asm.vars[v] /\ space = Space(asm, v)
             /\ c = CodeEnd(asm) /\ d = DataEnd(asm)
      BY <3>1
    <3>3. size <= space /\ c <= x /\ x + space <= d
      BY <3>1, <3>2
    <3>4. x .. x + size - 1 \subseteq c .. d - 1
      BY <3>3
    <3>5. QED
      BY <3>1, <3>2, <3>4
  <2>6. ASSUME NEW v \in DOMAIN asm.vars, NEW w \in DOMAIN asm.vars, v # w
        PROVE  (VarAddress(asm)[v] .. VarAddress(asm)[v] + asm.vars[v] - 1)
                 \cap (VarAddress(asm)[w] .. VarAddress(asm)[w] + asm.vars[w] - 1) = {}
    <3>2. PICK p \in Nat, q \in Nat : p = Place(v) /\ q = Place(w) /\ Names[p] = v /\ Names[q] = w
      <4>1. InPlace(asm, v) /\ InPlace(asm, w)
        BY <2>2, <2>3, DataFacts
      <4>2. Place(v) \in Nat /\ Place(w) \in Nat /\ Names[Place(v)] = v /\ Names[Place(w)] = w
        BY <4>1, SpacesFacts, <2>2 DEF InPlace
      <4>3. QED
        BY <4>2
    <3>3. p < q \/ q < p
      BY <2>6, <3>2
    <3>4. PICK x \in Nat, y \in Nat, m \in Nat, n \in Nat :
             x = VarAddress(asm)[v] /\ y = VarAddress(asm)[w] /\ m = asm.vars[v] /\ n = asm.vars[w]
      BY <2>2, <2>3, AreaFacts
    <3>5. p < q => x + m <= y
      BY <2>2, <2>3, <3>2, <3>4, AreasApart
    <3>6. q < p => y + n <= x
      BY <2>2, <2>3, <3>2, <3>4, AreasApart
    <3>7. (x .. x + m - 1) \cap (y .. y + n - 1) = {}
      BY <3>3, <3>5, <3>6
    <3>8. QED
      BY <3>4, <3>7
  <2>8. ASSUME NEW k \in DOMAIN asm.lines
        PROVE  /\ Len(Encoded(asm, asm.lines[k], Addresses(asm)[k])) = SizeOf(asm.lines[k])
               /\ asm.lines[k].mn # "DW" => \A n \in DOMAIN asm.lines[k].ops :
                     asm.lines[k].ops[n][1] = "mem"
                     /\ asm.lines[k].ops[n][2] \in Unsettled(Source, asm.lines[k].at) \ DOMAIN asm.equs
                       => Resolve(asm, asm.lines[k].ops[n][2], asm.lines[k].ops[n][3]) + 1
                            \in VarAddress(asm)[asm.lines[k].ops[n][2]]
                                  .. VarAddress(asm)[asm.lines[k].ops[n][2]]
                                       + asm.vars[asm.lines[k].ops[n][2]] - 1
    <3>1. PICK line, pc, e : line = asm.lines[k] /\ pc = Addresses(asm)[k] /\ e = Encoded(asm, line, pc)
      OBVIOUS
    <3>2. LineFine(asm, V, line)
      <4>1. k \in 1 .. Len(asm.lines)
        BY <2>2, LinesFacts
      <4>2. QED
        BY <2>2, <3>1, <4>1 DEF Fine
    <3>3. SizeOf(line) # Unknown /\ e # Refused
      BY <2>2, <3>1, Zenon DEF Accepted
    <3>4. line.ops \in LineOperands(line.mn)
      BY <3>2 DEF LineFine
    <3>5. Len(e) = SizeOf(line)
      BY <3>1, <3>3, <3>4, EncodedLength
    <3>6. line.mn # "DW" => \A n \in DOMAIN line.ops :
             line.ops[n][1] = "mem" /\ line.ops[n][2] \in Unsettled(Source, line.at) \ DOMAIN asm.equs
               => Resolve(asm, line.ops[n][2], line.ops[n][3]) + 1
                    \in VarAddress(asm)[line.ops[n][2]]
                          .. VarAddress(asm)[line.ops[n][2]] + asm.vars[line.ops[n][2]] - 1
      <4> SUFFICES ASSUME line.mn # "DW", NEW n \in DOMAIN line.ops, line.ops[n][1] = "mem",
                          line.ops[n][2] \in Unsettled(Source, line.at) \ DOMAIN asm.equs
                   PROVE  Resolve(asm, line.ops[n][2], line.ops[n][3]) + 1
                            \in VarAddress(asm)[line.ops[n][2]]
                                  .. VarAddress(asm)[line.ops[n][2]] + asm.vars[line.ops[n][2]] - 1
        BY Zenon
      <4>1. line.at \in Nat
        BY <3>2 DEF LineFine
      <4>2. line.ops[n][2] \in V[line.at]
        BY <2>1, <4>1, UnsettledIsGiven
      <4>3. line.ops[n][2] \notin DOMAIN SpecialNames \cup DOMAIN Literals \cup DOMAIN asm.equs
        BY Zenon DEF Unsettled, Settled
      <4>4. QED
        BY <2>2, <2>3, <3>2, <4>2, <4>3, OperandInArea, Zenon
    <3>7. QED
      BY <3>1, <3>5, <3>6, Zenon
  <2>9. QED
    BY <2>4, <2>5, <2>6, <2>7, <2>8, Zenon
<1>2. QED
  BY <1>1, InvHolds, PTL

=============================================================================
