----------------------------- MODULE Optimizer -----------------------------
(***************************************************************************)
(* The optimizer of the compiler, src/optimizer/optimizer.c: one pass that *)
(* folds constants and forwards copies, passes that drop dead code, and    *)
(* one that strips what cannot be reached. A behaviour builds the          *)
(* intermediate code of a function the way src/ir/ir_build.c does, in post *)
(* order over a stack of virtual registers, and then optimizes it.         *)
(***************************************************************************)
EXTENDS Alu, SequencesExt

CONSTANTS
    ByteMod,    \* values of a byte (256), whose words are sign- or zero-extended
    Vocabularies, \* what a program is written with: see Vocabulary
    Memories,   \* the contents that its variables may start with
    MaxRegs,    \* bound on its virtual registers
    MaxStatements \* bound on its statements

Type(size, signed) == [size |-> size, signed |-> signed]
U8 == Type(1, FALSE)
I8 == Type(1, TRUE)
U16 == Type(2, FALSE)
I16 == Type(2, TRUE)
Types == {U8, I8, U16, I16}

Variable == {"word", "byte", "char"}
TypeOf == [word |-> U16, byte |-> U8, char |-> I8]

(* Literals, variables, types of casts and operators of a program.         *)
Unaries == {"neg", "bnot", "not"}
Binaries == {"add", "sub", "mul", "div", "and", "shl", "shr", "eq", "lt"}
Vocabulary == [literals : SUBSET Words, variables : SUBSET Variable, casts : SUBSET Types,
               operators : SUBSET (Unaries \cup Binaries)]

ASSUME OptimizerAssumption ==
    /\ ByteMod \in 2 .. WordMod - 1 /\ WordMod % ByteMod = 0
    /\ Vocabularies \subseteq Vocabulary
    /\ Memories \subseteq [Variable -> Words]
    /\ MaxRegs \in Nat /\ MaxStatements \in Nat

VARIABLES
    code,       \* the instructions of the function
    source,     \* history: those that the optimizer was given
    build,      \* the builder: stack of values, registers and labels, ternary
    phase,      \* "build", "fold", "sweep", "strip" or "done"
    pass,       \* number of sweeps
    excused     \* history: folds that the program cannot rely on, see Excuses

vars == <<code, source, build, phase, pass, excused>>

NoReg == 0
Regs == 1 .. MaxRegs
NONE == -1

(* IrInst. A cast has the type it converts from and the one it converts to.*)
Inst(k) ==
    [k |-> k, op |-> "none", dst |-> NoReg, a |-> NoReg, b |-> NoReg, imm |-> 0,
     from |-> U16, to |-> U16, label |-> 0, other |-> 0, wide |-> FALSE]
Const(d, n) == [Inst("const") EXCEPT !.dst = d, !.imm = n]
Load(d, x) == [Inst("load") EXCEPT !.dst = d, !.op = x, !.to = TypeOf[x]]
Store(x, a) == [Inst("store") EXCEPT !.op = x, !.a = a, !.to = TypeOf[x]]
Cast(d, a, from, to) == [Inst("cast") EXCEPT !.dst = d, !.a = a, !.from = from, !.to = to]
Unop(op, d, a) == [Inst("unop") EXCEPT !.op = op, !.dst = d, !.a = a]
Binop(op, d, a, b, imm, signed) ==
    [Inst("binop") EXCEPT !.op = op, !.dst = d, !.a = a, !.b = b, !.imm = imm, !.to = Type(2, signed)]
Mov(d, a) == [Inst("mov") EXCEPT !.dst = d, !.a = a]
CarryOp(d, a, b, imm) == [Inst("carry") EXCEPT !.dst = d, !.a = a, !.b = b, !.imm = imm]
Label(l) == [Inst("label") EXCEPT !.label = l]
Jmp(l) == [Inst("jmp") EXCEPT !.label = l]
CJmp(a, true, false) == [Inst("cjmp") EXCEPT !.a = a, !.label = true, !.other = false]
Ret(a) == [Inst("ret") EXCEPT !.a = a]

-----------------------------------------------------------------------------
(* What the generated code of an instruction does (codegen.c, gen_inst).   *)

Extended(w, signed) ==
    LET byte == w % ByteMod
    IN  IF signed /\ byte >= ByteMod \div 2 THEN byte + WordMod - ByteMod ELSE byte

Number(w, signed) == IF signed THEN SignedWord(w) ELSE w

RunBinop(op, a, b, imm, signed) ==
    CASE op = "add" -> AddC(a, b, 0).res
      [] op = "sub" -> SubC(a, b, 0).res
      [] op = "mul" -> Product(a, b, signed).lo
      [] op = "div" -> IF b = 0 THEN 0 ELSE Quotient(Number(a, signed), Number(b, signed)) % WordMod
      [] op = "and" -> BitsOp("and", a, b, WordBits)
      [] op = "shl" -> Shl(a, b % WordBits)
      [] op = "shr" -> IF imm = 1 THEN Ashr(a, b % WordBits) ELSE Shr(a, b % WordBits)
      [] op = "eq"  -> Bit(a = b)
      [] op = "lt"  -> Bit(Number(a, signed) < Number(b, signed))

RunUnop(op, a) ==
    CASE op = "neg"  -> SubC(0, a, 0).res
      [] op = "bnot" -> WordMod - 1 - a
      [] op = "not"  -> Bit(a = 0)

RunCast(a, from, to) ==
    IF to.size = 1 THEN Extended(a, to.signed)
    ELSE IF from.size = 1 /\ from.signed THEN Extended(a, TRUE)
    ELSE a

(* One instruction; m.goal is a label that a jump looks for ahead.         *)
Run1(m, i) ==
    LET Assign(w) == [m EXCEPT !.regs[i.dst] = w]
        A == m.regs[i.a]
        B == m.regs[i.b]
        sum == AddC(A, B, IF i.imm = 1 THEN m.carry ELSE 0)
    IN  IF m.returned THEN m
        ELSE IF m.goal # 0 THEN IF i.k = "label" /\ i.label = m.goal THEN [m EXCEPT !.goal = 0] ELSE m
        ELSE CASE i.k = "const" -> Assign(i.imm % WordMod)
               [] i.k = "load"  -> Assign(IF i.to.size = 1 THEN Extended(m.mem[i.op], i.to.signed)
                                          ELSE m.mem[i.op])
               [] i.k = "store" -> [m EXCEPT !.mem[i.op] = IF i.to.size = 1 THEN A % ByteMod ELSE A]
               [] i.k = "cast"  -> Assign(RunCast(A, i.from, i.to))
               [] i.k = "unop"  -> Assign(RunUnop(i.op, A))
               [] i.k = "binop" -> Assign(RunBinop(i.op, A, B, i.imm, i.to.signed))
               [] i.k = "mov"   -> Assign(A)
               [] i.k = "carry" -> [Assign(sum.res) EXCEPT !.carry = sum.c]
               [] i.k = "label" -> m
               [] i.k = "jmp"   -> [m EXCEPT !.goal = i.label]
               [] i.k = "cjmp"  -> [m EXCEPT !.goal = IF A # 0 THEN i.label ELSE i.other]
               [] i.k = "ret"   -> [m EXCEPT !.returned = TRUE, !.result = IF i.a = NoReg THEN NONE ELSE A]

(* The machine before a function and after each of its instructions.       *)
Called(memory) ==
    [regs |-> [r \in Regs \cup {NoReg} |-> 0], mem |-> memory, carry |-> 0,
     goal |-> 0, returned |-> FALSE, result |-> NONE]
Ran(c, memory) ==
    LET m[n \in 0 .. Len(c)] == IF n = 0 THEN Called(memory) ELSE Run1(m[n - 1], c[n]) IN m

(* What a caller sees of the function: its result and the variables.       *)
Observed(c, memory) ==
    LET m == Ran(c, memory)[Len(c)] IN <<m.mem, m.result>>

-----------------------------------------------------------------------------
(* The builder.                                                            *)

Entry(r, t) == [reg |-> r, type |-> t]
Fresh == build.regs + 1
Depth == Len(build.stack)
Top == build.stack[Depth]
Under == build.stack[Depth - 1]
Under2 == SubSeq(build.stack, 1, Depth - 2)
Under1 == SubSeq(build.stack, 1, Depth - 1)

Building == phase = "build" /\ UNCHANGED <<source, phase, pass, excused>>

Emit(insts, stack, regs) ==
    /\ Building
    /\ regs <= MaxRegs
    /\ code' = code \o insts
    /\ build' = [build EXCEPT !.stack = stack, !.regs = regs]

Push(inst, below, t) == Emit(<<inst>>, Append(below, Entry(Fresh, t)), Fresh)

Literal(n) == Push(Const(Fresh, n), build.stack, U16)
Read(x) == Push(Load(Fresh, x), build.stack, TypeOf[x])
CastTo(t) == Depth > build.floor /\ Push(Cast(Fresh, Top.reg, Top.type, t), Under1, t)
Unary(op) ==
    Depth > build.floor /\ Push(Unop(op, Fresh, Top.reg), Under1, IF op = "not" THEN U16 ELSE Top.type)

(* Nothing is promoted to int: the type is that of the wider operand.      *)
Binary(op) ==
    LET lt == Under.type
        rt == Top.type
        t == IF op \in {"eq", "lt"} THEN U16
             ELSE IF op = "shr" /\ lt = I8 THEN I16
             ELSE IF lt.size >= rt.size THEN lt ELSE rt
    IN  /\ Depth > build.floor + 1
        /\ Push(Binop(op, Fresh, Under.reg, Top.reg, Bit(op = "shr" /\ lt.signed),
                      lt.signed \/ rt.signed), Under2, t)

(* A word of the sum of two words widened to 32 bits.                      *)
Wide(i) == [i EXCEPT !.wide = TRUE]
WideSum(high) ==
    LET low == Fresh + 1
        sum == Fresh + 2
    IN  /\ Depth > build.floor + 1
        /\ Emit(<<Wide(Const(Fresh, 0)), Wide(CarryOp(low, Under.reg, Top.reg, 0)),
                  Wide(CarryOp(sum, Fresh, Fresh, 1))>>,
                Append(Under2, Entry(IF high THEN sum ELSE low, U16)), sum)

(* c ? e : f. Both arms move their value into one register. An arm is an   *)
(* expression of its own: what is at or below the floor is not its.        *)
OpenTernary ==
    /\ Depth > 0 /\ build.arm = "none"
    /\ Building /\ Fresh <= MaxRegs
    /\ code' = code \o <<CJmp(Top.reg, build.labels + 1, build.labels + 2), Label(build.labels + 1)>>
    /\ build' = [build EXCEPT !.stack = Under1, !.regs = Fresh, !.arm = "then", !.merge = Fresh,
                              !.floor = Depth - 1]
MiddleOfTernary ==
    /\ build.arm = "then" /\ Depth = build.floor + 1
    /\ Building
    /\ code' = code \o <<Mov(build.merge, Top.reg), Jmp(build.labels + 3), Label(build.labels + 2)>>
    /\ build' = [build EXCEPT !.stack = Under1, !.arm = "else", !.armType = Top.type]
CloseTernary ==
    /\ build.arm = "else" /\ Depth = build.floor + 1
    /\ Building
    /\ code' = code \o <<Mov(build.merge, Top.reg), Label(build.labels + 3)>>
    /\ build' = [build EXCEPT !.stack = Append(Under1, Entry(build.merge, build.armType)),
                              !.labels = @ + 3, !.arm = "none", !.floor = 0]

(* x = e; and return e; and, at the end of the body, an implicit return.   *)
EndStatement(i) ==
    /\ Depth = 1 /\ build.arm = "none" /\ build.statements < MaxStatements
    /\ Building
    /\ code' = Append(code, i)
    /\ build' = [build EXCEPT !.stack = <<>>, !.statements = @ + 1]

Assign(x) == Depth > 0 /\ EndStatement(Store(x, Top.reg))
Return == Depth > 0 /\ EndStatement(Ret(Top.reg))
Close ==
    /\ phase = "build" /\ phase' = "fold"
    /\ Depth = 0 /\ code # <<>> /\ build.arm = "none"
    /\ code' = Append(code, Ret(NoReg))
    /\ source' = code'
    /\ UNCHANGED <<build, pass, excused>>

-----------------------------------------------------------------------------
(* Constant folding and copies: the first half of optimize_func, on a      *)
(* state f of the instructions rewritten so far, the constants known and   *)
(* the copies recorded. Constants are longs of the host and not words.     *)

MultiDef(c) ==
    { r \in Regs : Cardinality({ n \in DOMAIN c : c[n].dst = r }) > 1 }

Follow(alias, r) ==
    LET links == Cardinality(DOMAIN alias)
        chain[n \in 0 .. links] == IF n = 0 THEN r
                                    ELSE IF chain[n - 1] \in DOMAIN alias THEN alias[chain[n - 1]]
                                    ELSE chain[n - 1]
    IN  chain[links]
Through(alias, i) == [i EXCEPT !.a = Follow(alias, @), !.b = Follow(alias, @)]

HostBits == 3 * WordBits
Host(n) == LET h == n % 2^HostBits
           IN  IF h >= 2^(HostBits - 1) THEN h - 2^HostBits ELSE h

apply_binop(op, a, b) ==
    CASE op = "add" -> a + b
      [] op = "sub" -> a - b
      [] op = "mul" -> a * b
      [] op = "div" -> IF b = 0 THEN 0 ELSE Quotient(a, b)
      [] op = "and" -> Host(BitsOp("and", a % 2^HostBits, b % 2^HostBits, HostBits))
      [] op = "shl" -> Host(a * 2^(b % HostBits))
      [] op = "shr" -> a \div 2^(b % HostBits)
      [] op = "eq"  -> Bit(a = b)
      [] op = "lt"  -> Bit(a < b)

Fold1(op, v) ==
    CASE op = "neg"  -> -v
      [] op = "bnot" -> -v - 1
      [] op = "not"  -> Bit(v = 0)

apply_cast_value(v, from, to) ==
    LET w == IF from.size = 1 THEN Extended(v, from.signed) ELSE v
    IN  (IF to.size = 1 THEN Extended(w, to.signed) ELSE w) % WordMod

(* Fault: every cast to a byte of another sign is a copy.                  *)
CopyIgnoringSign(i) ==
    /\ i.from.size <= i.to.size
    /\ ~(i.to.size = 2 /\ i.from = I8)

cast_is_pure_copy(i) ==
    /\ i.from.size <= i.to.size
    /\ ~(i.to.size = 1 /\ i.from.signed # i.to.signed)
    /\ ~(i.to.size = 2 /\ i.from = I8)

(* Where folding and running an instruction need not agree: a value that   *)
(* left the range of its word and is then compared, divided or shifted     *)
(* right; a shift by a word or more and a division by zero, which C leaves *)
(* undefined; a byte that arithmetic left unextended and a cast to its own *)
(* type.                                                                   *)
Canonical(v, signed) == v = Number(v % WordMod, signed)
Excuses(f, i) ==
    LET ca == f.known[i.a]
        cb == f.known[i.b]
        BothKnown == i.a \in DOMAIN f.known /\ (i.k = "binop" => i.b \in DOMAIN f.known)
        Definition == { f.code[n] : n \in { n \in DOMAIN f.code : f.code[n].dst = i.a } }
    IN  (IF /\ BothKnown /\ i.k \in {"binop", "unop"}
            /\ CASE i.op \in {"eq", "lt", "div"} ->
                       ~(Canonical(ca, i.to.signed) /\ Canonical(cb, i.to.signed))
                 [] i.op = "shr" -> i.imm = 0 /\ ~Canonical(ca, FALSE)
                 [] i.op = "not" -> ca # 0 /\ ca % WordMod = 0
                 [] OTHER -> FALSE
         THEN {"wrapped"} ELSE {})
        \cup (IF /\ BothKnown /\ i.k = "binop"
                 /\ \/ i.op \in {"shl", "shr"} /\ cb \notin 0 .. WordBits - 1
                    \/ i.op = "div" /\ cb = 0
              THEN {"undefined"} ELSE {})
        \cup (IF /\ i.k = "cast" /\ i.from.size = 1 /\ i.to = i.from
                 /\ \E d \in Definition :
                        \/ d.k \notin {"load", "cast", "const"}
                        \/ d.k = "const" /\ d.imm % WordMod # Extended(d.imm, i.to.signed)
              THEN {"bytes"} ELSE {})

Folded(i, n) == [Const(i.dst, n) EXCEPT !.wide = i.wide]

Known(f, r) == r \in DOMAIN f.known
Updated(f, r, v) == [x \in DOMAIN f \cup {r} |-> IF x = r THEN v ELSE f[x]]
Learn(f, i, multi, n) == IF i.dst \in multi THEN f.known ELSE Updated(f.known, i.dst, n)

FoldInst(f, inst, multi) ==
    LET i == Through(f.alias, inst)
        Keep == [f EXCEPT !.code = Append(@, i), !.excused = @ \cup Excuses(f, i)]
        Value(n) == [f EXCEPT !.code = Append(@, Folded(i, n)),
                              !.known = Learn(f, i, multi, n),
                              !.excused = @ \cup Excuses(f, i)]
        Copy(g) == [g EXCEPT !.alias = Updated(@, i.dst, i.a)]
        single == i.dst \notin multi
    IN  CASE i.k = "const" -> [Keep EXCEPT !.known = Learn(f, i, multi, i.imm)]
          [] i.k = "binop" /\ Known(f, i.a) /\ Known(f, i.b) ->
                Value(apply_binop(i.op, IF i.op = "shr" /\ i.imm = 1 THEN SignedWord(f.known[i.a] % WordMod)
                                        ELSE f.known[i.a], f.known[i.b]))
          [] i.k = "unop" /\ single /\ Known(f, i.a) -> Value(Fold1(i.op, f.known[i.a]))
          [] i.k = "cast" /\ single ->
                LET pure == cast_is_pure_copy(i)
                    v == f.known[i.a]
                    g == IF Known(f, i.a) THEN Value(IF pure THEN v ELSE apply_cast_value(v, i.from, i.to))
                         ELSE Keep
                IN  IF pure THEN Copy(g) ELSE g
          [] i.k = "mov" /\ single ->
                Copy([Keep EXCEPT !.known = IF Known(f, i.a) THEN Learn(f, i, multi, f.known[i.a]) ELSE @])
          [] OTHER -> Keep

Folding(c) ==
    LET multi == MultiDef(c)
        f[n \in 0 .. Len(c)] ==
            IF n = 0 THEN [code |-> <<>>, known |-> << >>, alias |-> << >>, excused |-> {}]
            ELSE FoldInst(f[n - 1], c[n], multi)
    IN  f

Fold ==
    /\ phase = "fold" /\ phase' = "sweep"
    /\ LET f == Folding(code)[Len(code)]
       IN  /\ code' = [n \in DOMAIN f.code |-> Through(f.alias, f.code[n])]
           /\ excused' = f.excused
    /\ UNCHANGED <<source, build, pass>>

-----------------------------------------------------------------------------
(* Dead code: the second half of optimize_func, and strip_unreachable.     *)

(* The instructions of c at the places in s.                               *)
Only(c, s) ==
    LET kept[n \in 0 .. Len(c)] == IF n = 0 THEN <<>>
                                   ELSE IF n \in s THEN Append(kept[n - 1], c[n])
                                   ELSE kept[n - 1]
    IN  kept[Len(c)]

Used(c) == { c[n].a : n \in DOMAIN c } \cup { c[n].b : n \in DOMAIN c }

(* Fault: the low half of a sum is removed like the high half.             *)
RemovableCarry(i) == i.k \in {"const", "mov", "cast", "unop", "binop", "load", "carry"}

Removable(i) ==
    \/ i.k \in {"const", "mov", "cast", "unop", "binop", "load"}
    \/ i.k = "carry" /\ i.imm = 1

Dead(c, i) == Removable(i) /\ i.dst \notin Used(c)

(* Fault: there is one sweep and no other.                                 *)
SweepOnce ==
    /\ phase = "sweep" /\ phase' = "strip"
    /\ code' = Only(code, { n \in DOMAIN code : ~Dead(code, code[n]) })
    /\ pass' = pass + 1
    /\ UNCHANGED <<source, build, excused>>

(* The first sweep removes what is dead, the next ones only what the       *)
(* 32-bit lowering has emitted, until one of them removes nothing.         *)
Sweep ==
    /\ phase = "sweep"
    /\ code' = Only(code, { n \in DOMAIN code : ~(Dead(code, code[n]) /\ (pass = 0 \/ code[n].wide)) })
    /\ phase' = IF code' = code THEN "strip" ELSE "sweep"
    /\ pass' = pass + 1
    /\ UNCHANGED <<source, build, excused>>

(* What follows a return or a jump is not reached before the next label.   *)
Reached(c) ==
    { n \in DOMAIN c : \A p \in 1 .. n - 1 :
          c[p].k \in {"ret", "jmp"} => \E l \in p + 1 .. n : c[l].k = "label" }
strip_unreachable(c) == Only(c, Reached(c))

Strip ==
    /\ phase = "strip" /\ phase' = "done"
    /\ code' = strip_unreachable(code)
    /\ UNCHANGED <<source, build, pass, excused>>

-----------------------------------------------------------------------------
Init ==
    /\ code = <<>> /\ source = <<>> /\ phase = "build" /\ pass = 0 /\ excused = {}
    /\ \E v \in Vocabularies :
          build = [stack |-> <<>>, regs |-> 0, labels |-> 0, statements |-> 0, words |-> v,
                   arm |-> "none", merge |-> NoReg, floor |-> 0, armType |-> U16]

Build ==
    \/ \E n \in build.words.literals : Literal(n)
    \/ \E x \in build.words.variables : Read(x)
    \/ \E t \in build.words.casts : CastTo(t)
    \/ \E op \in build.words.operators \cap Unaries : Unary(op)
    \/ \E op \in build.words.operators \cap Binaries : Binary(op)
    \/ \E high \in BOOLEAN : WideSum(high)
    \/ OpenTernary \/ MiddleOfTernary \/ CloseTernary
    \/ Assign("word") \/ Return \/ Close

Next == Build \/ Fold \/ Sweep \/ Strip

Spec == Init /\ [][Next]_vars

-----------------------------------------------------------------------------
(* Operands an instruction of each kind reads; the others have none. The   *)
(* rewriting of an instruction into a constant clears those it had.        *)
SameMeaning == \A memory \in Memories : Observed(code, memory) = Observed(source, memory)

Optimizing == phase \in {"sweep", "strip", "done"}

(* What a function returns and leaves in memory is what it did before the  *)
(* optimizer, after each of its passes: ir_optimize.                       *)
MeaningKept == Optimizing /\ excused = {} => SameMeaning

(* The comment on cast_is_pure_copy has a byte live in a word register     *)
(* whose high byte mirrors its sign or is zero, which makes a cast of a    *)
(* byte to its own type a copy: dropping that cast changes nothing.        *)
ByteCastsAreCopies == Optimizing /\ excused \subseteq {"bytes"} => SameMeaning

(* When only one half of a 32-bit value is used the chain that computes    *)
(* the other is gone after the last sweep, down to the constant it starts  *)
(* from: the loop of optimize_func over wide32 instructions.               *)
NoDeadHalves ==
    phase \in {"strip", "done"} => \A i \in ToSet(code) : i.wide => ~Dead(code, i)

=============================================================================
