------------------------------ MODULE Codegen ------------------------------
(***************************************************************************)
(* The code generator of the back end, src/target/c167/codegen/codegen.c,  *)
(* on top of the register allocator.                                       *)
(*                                                                         *)
(* Each instruction of the intermediate code becomes a short fixed         *)
(* sequence of processor instructions, written over the homes that the     *)
(* allocator gave to the virtual registers. A home is a pool register or a *)
(* frame slot; slots are loaded into two scratch registers just before     *)
(* they are read, and a result that lives in a slot is computed in the     *)
(* first scratch register. The sequences also share the product register   *)
(* MDH:MDL, the flags, the argument registers, and the override that EXTP  *)
(* and EXTS put on the one instruction behind them.                        *)
(*                                                                         *)
(* Values are terms: <<"ADD", x, y>> is what ADD makes of x and y. The     *)
(* generated code runs on machine, the intermediate code on value and      *)
(* meant, and the two must agree. That ADD adds is not the subject here:   *)
(* Wide and Optimizer compute with numbers.                                *)
(*                                                                         *)
(* Code is followed as it is laid out. The jumps that the sequences        *)
(* contain rejoin at their end and are part of one step; the branches of   *)
(* the program itself are effects, and the code falls through.             *)
(***************************************************************************)
EXTENDS RegAlloc, Sequences, SequencesExt

CONSTANTS
    ArgRegs,    \* c167_arg_regs: registers of the arguments, in order
    Scratch1,   \* C167_SPILL_SCRATCH_1
    Scratch2,   \* C167_SPILL_SCRATCH_2
    MaxWork     \* bound: instructions that are not mere constants

R0 == 0
Regs == PoolRegs \cup { ArgRegs[k] : k \in 1 .. Len(ArgRegs) } \cup {R0, Scratch1, Scratch2}

ASSUME RegistersAssumption ==
    /\ ArgRegs \in Seq(Nat)
    /\ {Scratch1, Scratch2} \subseteq Nat
    /\ Scratch1 # Scratch2
    /\ {Scratch1, Scratch2} \cap (PoolRegs \cup {R0} \cup { ArgRegs[k] : k \in 1 .. Len(ArgRegs) }) = {}
(* c167_arg_regs is R4 to R8, and only R8 is in the pool as well.          *)
ASSUME ArgumentsAssumption ==
    /\ Len(ArgRegs) > 0 /\ IsInjective(ArgRegs)
    /\ \A k \in 1 .. Len(ArgRegs) - 1 : ArgRegs[k] \notin PoolRegs
ASSUME WorkAssumption == MaxWork \in Nat

VARIABLES
    code,       \* the instructions of the function
    ip,         \* instructions generated, and run, so far
    stage,      \* "before" the prologue, in the "body", or "failed"
    machine,    \* what the generated code has made of the processor
    value,      \* value[v]: what the program means v to hold
    wide,       \* the 32-bit symbol as the program means it: low and high word
    meant       \* the effect the program means by the last instruction:
                \* a store, a call, a branch, a return, or none

cgVars == <<code, ip, stage, machine, value, wide, meant>>
cgAllVars == <<vars, cgVars>>

Junk == <<"junk">>
Zero == <<"zero">>
Incoming(k) == <<"arg", <<k>>>>
Quiet == [what |-> "nothing", on |-> <<>>]

CodegenInit ==
    /\ Init
    /\ code = <<>> /\ ip = 0 /\ stage = "before"
    /\ machine = [
           r |-> [x \in Regs |-> IF x = ArgRegs[1] THEN Incoming(1) ELSE Junk],
           slot |-> [v \in VReg |-> Junk], lo |-> Junk, hi |-> Junk,
           mdl |-> Junk, mdh |-> Junk, flags |-> Junk, carry |-> Junk,
           override |-> Junk, effect |-> Quiet]
    /\ value = [v \in VReg |-> Junk]
    /\ wide = [lo |-> Junk, hi |-> Junk]
    /\ meant = Quiet

-----------------------------------------------------------------------------
(* The instructions: how many registers each one reads, and which of them  *)
(* write one. An IR_CALL reads its arguments and, when it is indirect, the *)
(* register target.                                                        *)
Arity == [
    constant |-> 0, loadLow |-> 0, loadHigh |-> 0, shift32 |-> 0, productHigh |-> 0,
    copy |-> 1, unary |-> 1, loadMem |-> 1, divideSym |-> 1,
    storeLow |-> 1, storeHigh |-> 1, branch |-> 1, return |-> 1,
    binary |-> 2, withCarry |-> 2, compare |-> 2, multiply |-> 2, divide |-> 2,
    farRead |-> 2, storeMem |-> 2, multiplyStore |-> 2, compose |-> 2,
    divide32 |-> 3, divideProduct |-> 3, farWrite |-> 3,
    equal32 |-> 4, less32 |-> 4 ]

Writes(kind) ==
    kind \notin {"storeLow", "storeHigh", "branch", "return", "storeMem",
                 "multiplyStore", "compose", "farWrite", "call"}

LastKind == IF code = <<>> THEN "" ELSE Last(code).kind

(* IR_CARRYOP of the high word stands right behind that of the low word,   *)
(* and IR_MDH behind IR_MULW (ir.h, lines 163-172); nothing follows a      *)
(* return in the same block.                                               *)
MayFollow(kind) ==
    /\ kind = "withCarry" => LastKind = "binary"
    /\ kind = "productHigh" => LastKind = "multiply"
    /\ LastKind # "return"

Defined == { v \in VReg : first[v] # None }
Work == Cardinality({ p \in DOMAIN code : code[p].kind # "constant" })

(* ir_build numbers the registers in the order in which it writes them,    *)
(* and an instruction reads distinct registers that were written before.   *)
Fresh == IF Cardinality(Defined) < NVRegs THEN {Cardinality(Defined)} ELSE {}

MayEmit(kind) ==
    /\ pc = "scan" /\ ninsts < MaxInsts
    /\ kind # "constant" => Work < MaxWork
    /\ MayFollow(kind)

Emit(i) ==
    /\ IsInjective(i.use) /\ \A k \in DOMAIN i.use : i.use[k] # i.target
    /\ ScanInst(({i.dst, i.target} \cup { i.use[k] : k \in DOMAIN i.use }) \ {None},
                i.kind = "call")
    /\ code' = Append(code, i)
    /\ UNCHANGED <<ip, stage, machine, value, wide, meant>>

EmitPlain ==
    \E kind \in DOMAIN Arity :
        /\ MayEmit(kind)
        /\ \E use \in [1 .. Arity[kind] -> Defined] :
            \E dst \in (IF Writes(kind) THEN Fresh ELSE {None}) :
                Emit([kind |-> kind, dst |-> dst, use |-> use, target |-> None])

EmitCall ==
    /\ MayEmit("call")
    /\ \E n \in 0 .. Len(ArgRegs) : \E use \in [1 .. n -> Defined] :
        \E dst \in Fresh \cup {None}, target \in Defined \cup {None} :
            Emit([kind |-> "call", dst |-> dst, use |-> use, target |-> target])

(* The optimizer removes the constants that nothing reads.                 *)
EveryConstantRead ==
    \A p \in DOMAIN code : code[p].kind = "constant" => last[code[p].dst] >= p

Allocate ==
    /\ (EveryConstantRead /\ EndScan) \/ (\E v \in VReg : Place(v)) \/ Finish
    /\ UNCHANGED cgVars

-----------------------------------------------------------------------------
(* Processor instructions. MOV sets the zero and sign flags but leaves the *)
(* carry alone; every instruction ends the override of an EXTP or EXTS.    *)
Mov(m, x, t) == [m EXCEPT !.r[x] = t, !.flags = t, !.override = Junk]

(* "if (strcmp(a, d) != 0)": no MOV from a register to itself.             *)
MovReg(m, x, y) == IF x = y THEN m ELSE Mov(m, x, m.r[y])

Alu(m, x, t) == [Mov(m, x, t) EXCEPT !.carry = <<"carry", <<t>>>>]

Flags(m, t) == [m EXCEPT !.flags = t, !.carry = <<"carry", <<t>>>>, !.override = Junk]
Cmp(m, x, y) == Flags(m, <<"SUB", <<m.r[x], m.r[y]>>>>)

Mul(m, x, y) ==
    LET t == <<"MUL", <<m.r[x], m.r[y]>>>>
    IN  [Flags(m, t) EXCEPT !.mdl = <<"low", <<t>>>>, !.mdh = <<"high", <<t>>>>]

(* DIV divides MDL, DIVL divides MDH:MDL.                                  *)
Quotient(m, t) ==
    [Flags(m, t) EXCEPT !.mdl = <<"quotient", <<t>>>>, !.mdh = <<"rest", <<t>>>>]
Div(m, x) == Quotient(m, <<"DIV", <<m.mdl, m.r[x]>>>>)
DivL(m, x) == Quotient(m, <<"DIVL", <<m.mdl, m.mdh, m.r[x]>>>>)

Affect(m, what, on) ==
    [m EXCEPT !.effect = [what |-> what, on |-> on], !.override = Junk]

-----------------------------------------------------------------------------
(* Homes: load_operand, dst_target and finish_dst.                         *)
LoadOperand(m, v, scratch) == IF spilled[v] THEN Mov(m, scratch, m.slot[v]) ELSE m
At(v, scratch) == IF spilled[v] THEN scratch ELSE reg[v]
DstTarget(v) == At(v, Scratch1)

FinishDst(m, v) ==
    IF spilled[v] THEN [m EXCEPT !.slot[v] = m.r[Scratch1], !.flags = m.r[Scratch1],
                                 !.override = Junk]
    ELSE m

Home(v) == IF spilled[v] THEN machine.slot[v] ELSE machine.r[reg[v]]

(* The instruction that is generated next.                                 *)
Inst == code[ip + 1]
Use(k) == Inst.use[k]
Val(k) == value[Use(k)]
Dst == DstTarget(Inst.dst)

(* Both operands of an instruction, each in a scratch register of its own. *)
Load2(m, a, b) == LoadOperand(LoadOperand(m, a, Scratch1), b, Scratch2)

Generating(kind) == stage = "body" /\ ip < Len(code) /\ Inst.kind = kind

Advance ==
    /\ ip' = ip + 1
    /\ UNCHANGED <<vars, code, stage>>

(* The instruction leaves the machine at m, its result still in Dst, and   *)
(* means t.                                                                *)
Yields(m, t) ==
    /\ machine' = [FinishDst(m, Inst.dst) EXCEPT !.effect = Quiet]
    /\ value' = [value EXCEPT ![Inst.dst] = t]
    /\ meant' = Quiet
    /\ Advance
    /\ UNCHANGED wide

(* The instruction leaves the machine at m and means the effect.           *)
Does(m, what, on) ==
    /\ machine' = m
    /\ meant' = [what |-> what, on |-> on]
    /\ Advance
    /\ UNCHANGED <<value, wide>>

(* The instruction leaves the machine at m and means new words of the      *)
(* 32-bit symbol.                                                          *)
Stores(m, low, high) ==
    /\ machine' = [m EXCEPT !.effect = Quiet]
    /\ wide' = [lo |-> low, hi |-> high]
    /\ meant' = Quiet
    /\ Advance
    /\ UNCHANGED value

(* A word of the symbol is written from a register.                        *)
PutLow(m, t) == [m EXCEPT !.lo = t, !.flags = t, !.override = Junk]
PutHigh(m, t) == [m EXCEPT !.hi = t, !.flags = t, !.override = Junk]

-----------------------------------------------------------------------------
(* emit_prologue, for a first parameter of 32 bits: only its low word is   *)
(* passed, and the high word of its slot is extended from it in Scratch1.  *)
(* Fault: the high word is left as the stack had it.                       *)
PrologueLowOnly ==
    /\ pc = "done" /\ stage = "before"
    /\ stage' = "body"
    /\ machine' = PutLow(machine, machine.r[ArgRegs[1]])
    /\ wide' = [lo |-> Incoming(1), hi |-> <<"extend", <<Incoming(1)>>>>]
    /\ UNCHANGED <<vars, code, ip, value, meant>>

Prologue ==
    /\ pc = "done" /\ stage = "before"
    /\ stage' = "body"
    /\ LET m1 == PutLow(machine, machine.r[ArgRegs[1]])
           m2 == Alu(m1, Scratch1, <<"extend", <<m1.r[ArgRegs[1]]>>>>)
       IN  machine' = PutHigh(m2, m2.r[Scratch1])
    /\ wide' = [lo |-> Incoming(1), hi |-> <<"extend", <<Incoming(1)>>>>]
    /\ UNCHANGED <<vars, code, ip, value, meant>>

(* IR_CONST and IR_LOAD_ADDR.                                              *)
GenConstant ==
    /\ Generating("constant")
    /\ Yields(Mov(machine, Dst, <<"constant", <<Inst.dst>>>>), <<"constant", <<Inst.dst>>>>)

(* IR_LOAD_SYM, of the low and of the high word.                           *)
GenLoadSym ==
    \/ Generating("loadLow") /\ Yields(Mov(machine, Dst, machine.lo), wide.lo)
    \/ Generating("loadHigh") /\ Yields(Mov(machine, Dst, machine.hi), wide.hi)

(* IR_STORE_SYM.                                                           *)
GenStoreSym ==
    LET m == LoadOperand(machine, Use(1), Scratch1)
        t == m.r[At(Use(1), Scratch1)]
    IN  \/ Generating("storeLow") /\ Stores(PutLow(m, t), Val(1), wide.hi)
        \/ Generating("storeHigh") /\ Stores(PutHigh(m, t), wide.lo, Val(1))

(* IR_MUL32_STORE_SYM: the product goes through Scratch1, which held an    *)
(* operand.                                                                *)
GenMultiplyStore ==
    /\ Generating("multiplyStore")
    /\ LET m1 == Load2(machine, Use(1), Use(2))
           m2 == Mul(m1, At(Use(1), Scratch1), At(Use(2), Scratch2))
           m3 == Mov(m2, Scratch1, m2.mdl)
           m4 == PutLow(m3, m3.r[Scratch1])
           m5 == Mov(m4, Scratch1, m4.mdh)
           t == <<"MUL", <<Val(1), Val(2)>>>>
       IN  Stores(PutHigh(m5, m5.r[Scratch1]), <<"low", <<t>>>>, <<"high", <<t>>>>)

(* IR_COMPOSE32_STORE_SYM.                                                 *)
GenCompose ==
    /\ Generating("compose")
    /\ LET m1 == Load2(machine, Use(1), Use(2))
           m2 == PutLow(m1, m1.r[At(Use(2), Scratch2)])
       IN  Stores(PutHigh(m2, m2.r[At(Use(1), Scratch1)]), Val(2), Val(1))

(* IR_SHR32_SYM, for a count below 16, which joins pieces of both words.   *)
GenShift32 ==
    /\ Generating("shift32")
    /\ LET m1 == Mov(machine, Dst, machine.hi)
           m2 == Mov(m1, Scratch2, m1.lo)
           m3 == Alu(m2, Dst, <<"SHL", <<m2.r[Dst]>>>>)
           m4 == Alu(m3, Scratch2, <<"SHR", <<m3.r[Scratch2]>>>>)
       IN  Yields(Alu(m4, Dst, <<"ADD", <<m4.r[Dst], m4.r[Scratch2]>>>>),
                  <<"ADD", <<<<"SHL", <<wide.hi>>>>, <<"SHR", <<wide.lo>>>>>>>>)

(* IR_DIV32_SYM: the divisor first, then both words through Scratch1.      *)
GenDivideSym ==
    /\ Generating("divideSym")
    /\ LET m1 == LoadOperand(machine, Use(1), Scratch2)
           m2 == Mov(m1, Scratch1, m1.lo)
           m3 == [m2 EXCEPT !.mdl = m2.r[Scratch1]]
           m4 == Mov(m3, Scratch1, m3.hi)
           m5 == [m4 EXCEPT !.mdh = m4.r[Scratch1]]
           m6 == DivL(m5, At(Use(1), Scratch2))
       IN  Yields(Mov(m6, Dst, m6.mdl),
                  <<"quotient", <<<<"DIVL", <<wide.lo, wide.hi, Val(1)>>>>>>>>)

(* IR_DIV32_MUL: the divisor takes Scratch2 over from a factor.            *)
GenDivideProduct ==
    /\ Generating("divideProduct")
    /\ LET m1 == Load2(machine, Use(1), Use(2))
           m2 == Mul(m1, At(Use(1), Scratch1), At(Use(2), Scratch2))
           m3 == LoadOperand(m2, Use(3), Scratch2)
           m4 == DivL(m3, At(Use(3), Scratch2))
           t == <<"MUL", <<Val(1), Val(2)>>>>
       IN  Yields(Mov(m4, Dst, m4.mdh),
                  <<"rest", <<<<"DIVL", <<<<"low", <<t>>>>, <<"high", <<t>>>>, Val(3)>>>>>>>>)

(* IR_DIV32: the divisor stays in Scratch2 while the words of the dividend *)
(* pass through Scratch1. Fault: all three pass through it.                *)
GenDivide32OneScratch ==
    /\ Generating("divide32")
    /\ LET m1 == LoadOperand(machine, Use(3), Scratch1)
           m2 == LoadOperand(m1, Use(1), Scratch1)
           m3 == [m2 EXCEPT !.mdl = m2.r[At(Use(1), Scratch1)]]
           m4 == LoadOperand(m3, Use(2), Scratch1)
           m5 == [m4 EXCEPT !.mdh = m4.r[At(Use(2), Scratch1)]]
           m6 == DivL(m5, At(Use(3), Scratch1))
       IN  Yields(Mov(m6, Dst, m6.mdl),
                  <<"quotient", <<<<"DIVL", <<Val(1), Val(2), Val(3)>>>>>>>>)

GenDivide32 ==
    /\ Generating("divide32")
    /\ LET m1 == LoadOperand(machine, Use(3), Scratch2)
           m2 == LoadOperand(m1, Use(1), Scratch1)
           m3 == [m2 EXCEPT !.mdl = m2.r[At(Use(1), Scratch1)]]
           m4 == LoadOperand(m3, Use(2), Scratch1)
           m5 == [m4 EXCEPT !.mdh = m4.r[At(Use(2), Scratch1)]]
           m6 == DivL(m5, At(Use(3), Scratch2))
       IN  Yields(Mov(m6, Dst, m6.mdl),
                  <<"quotient", <<<<"DIVL", <<Val(1), Val(2), Val(3)>>>>>>>>)

(* Two-operand arithmetic, IR_BINOP and IR_CARRYOP: a goes to the home of  *)
(* the result before b is loaded, and the operation overwrites it there.   *)
Combined(term(_, _, _)) ==
    LET m1 == LoadOperand(machine, Use(1), Scratch1)
        m2 == MovReg(m1, Dst, At(Use(1), Scratch1))
        m3 == LoadOperand(m2, Use(2), Scratch2)
    IN  Alu(m3, Dst, term(m3.r[Dst], m3.r[At(Use(2), Scratch2)], m3.carry))

GenBinary ==
    /\ Generating("binary")
    /\ LET Add(x, y, c) == <<"ADD", <<x, y>>>>
       IN  Yields(Combined(Add), Add(Val(1), Val(2), Junk))

(* The high word of IR_CARRYOP, behind the low word.                       *)
GenWithCarry ==
    /\ Generating("withCarry")
    /\ LET AddC(x, y, c) == <<"ADDC", <<x, y, c>>>>
       IN  Yields(Combined(AddC), AddC(Val(1), Val(2), <<"carry", <<value[code[ip].dst]>>>>))

(* IR_MULW and the product of IR_BINOP, and IR_MDH behind it.              *)
GenMultiply ==
    /\ Generating("multiply")
    /\ LET m1 == Load2(machine, Use(1), Use(2))
           m2 == Mul(m1, At(Use(1), Scratch1), At(Use(2), Scratch2))
       IN  Yields(Mov(m2, Dst, m2.mdl), <<"low", <<<<"MUL", <<Val(1), Val(2)>>>>>>>>)

GenProductHigh ==
    /\ Generating("productHigh")
    /\ Yields(Mov(machine, Dst, machine.mdh), <<"high", value[code[ip].dst][2]>>)

(* The quotient of IR_BINOP.                                               *)
GenDivide ==
    /\ Generating("divide")
    /\ LET m1 == Load2(machine, Use(1), Use(2))
           m2 == [m1 EXCEPT !.mdl = m1.r[At(Use(1), Scratch1)]]
           m3 == Div(m2, At(Use(2), Scratch2))
       IN  Yields(Mov(m3, Dst, m3.mdl), <<"quotient", <<<<"DIV", <<Val(1), Val(2)>>>>>>>>)

(* IR_MOV, and IR_UNOP and IR_SEXT16, which go on in place. The logical    *)
(* complement, a comparison with zero, is a unary operation here.          *)
GenUnary ==
    LET m1 == LoadOperand(machine, Use(1), Scratch1)
        m2 == MovReg(m1, Dst, At(Use(1), Scratch1))
    IN  \/ Generating("copy") /\ Yields(m2, Val(1))
        \/ Generating("unary") /\ Yields(Alu(m2, Dst, <<"NEG", <<m2.r[Dst]>>>>), <<"NEG", <<Val(1)>>>>)

(* The comparisons of IR_BINOP: the flags become 0 or 1 in the result.     *)
GenCompare ==
    /\ Generating("compare")
    /\ LET m1 == Load2(machine, Use(1), Use(2))
           m2 == Cmp(m1, At(Use(1), Scratch1), At(Use(2), Scratch2))
       IN  Yields(Mov(m2, Dst, <<"if", <<m2.flags>>>>), <<"if", <<<<"SUB", <<Val(1), Val(2)>>>>>>>>)

(* IR_CMP32: for equality two comparisons, for order a comparison of the   *)
(* low words whose carry must reach the subtraction of the high words.     *)
GenCmp32 ==
    LET m1 == Load2(machine, Use(1), Use(2))
        m2 == Cmp(m1, At(Use(1), Scratch1), At(Use(2), Scratch2))
        low == <<"SUB", <<Val(1), Val(2)>>>>
    IN  \/ /\ Generating("equal32")
           /\ LET m3 == Load2(m2, Use(3), Use(4))
                  m4 == Cmp(m3, At(Use(3), Scratch1), At(Use(4), Scratch2))
              IN  Yields(Mov(m4, Dst, <<"both", <<m2.flags, m4.flags>>>>),
                         <<"both", <<low, <<"SUB", <<Val(3), Val(4)>>>>>>>>)
        \/ /\ Generating("less32")
           /\ LET m3 == MovReg(LoadOperand(m2, Use(3), Scratch1), Scratch1, At(Use(3), Scratch1))
                  m4 == LoadOperand(m3, Use(4), Scratch2)
                  m5 == Alu(m4, Scratch1, <<"SUBC", <<m4.r[Scratch1], m4.r[At(Use(4), Scratch2)], m4.carry>>>>)
              IN  Yields(Mov(m5, Dst, <<"if", <<m5.flags>>>>),
                         <<"if", <<<<"SUBC", <<Val(3), Val(4), <<"carry", <<low>>>>>>>>>>>>)

(* IR_LOAD_MEM: the address in Scratch2, the result in Dst.                *)
GenLoadMem ==
    /\ Generating("loadMem")
    /\ LET m == LoadOperand(machine, Use(1), Scratch2)
       IN  Yields(Mov(m, Dst, <<"at", <<m.r[At(Use(1), Scratch2)]>>>>), <<"at", <<Val(1)>>>>)

(* IR_STORE_MEM.                                                           *)
GenStoreMem ==
    /\ Generating("storeMem")
    /\ LET m == Load2(machine, Use(1), Use(2))
       IN  Does(Affect(m, "store", <<m.r[At(Use(1), Scratch1)], m.r[At(Use(2), Scratch2)]>>),
                "store", <<Val(1), Val(2)>>)

(* IR_FARREAD16_SYM, IR_FARREAD16_SEG and IR_FARREAD8_SYM: EXTP or EXTS,   *)
(* and right behind it the read. Faults: the offset is loaded between      *)
(* them; the override is opened for two instructions.                      *)
GenFarReadLateOffset ==
    /\ Generating("farRead")
    /\ LET m1 == LoadOperand(machine, Use(1), Scratch1)
           m2 == [m1 EXCEPT !.override = m1.r[At(Use(1), Scratch1)]]
           m3 == LoadOperand(m2, Use(2), Scratch2)
       IN  Yields(Mov(m3, Dst, <<"far", <<m3.override, m3.r[At(Use(2), Scratch2)]>>>>),
                  <<"far", <<Val(1), Val(2)>>>>)

GenFarReadForTwo ==
    /\ Generating("farRead")
    /\ LET m1 == Load2(machine, Use(1), Use(2))
           m2 == [m1 EXCEPT !.override = m1.r[At(Use(1), Scratch1)]]
           m3 == Mov(m2, Dst, <<"far", <<m2.override, m2.r[At(Use(2), Scratch2)]>>>>)
       IN  Yields([m3 EXCEPT !.override = m2.override], <<"far", <<Val(1), Val(2)>>>>)

GenFarRead ==
    /\ Generating("farRead")
    /\ LET m1 == Load2(machine, Use(1), Use(2))
           m2 == [m1 EXCEPT !.override = m1.r[At(Use(1), Scratch1)]]
       IN  Yields(Mov(m2, Dst, <<"far", <<m2.override, m2.r[At(Use(2), Scratch2)]>>>>),
                  <<"far", <<Val(1), Val(2)>>>>)

(* IR_FARWRITE8_SEG: the spilled ones among three operands take the two    *)
(* scratch registers in turn. Fault: each operand looks only at itself.    *)
ScratchOfEach(k) == IF k = 2 THEN Scratch2 ELSE Scratch1
ScratchOf(k) ==
    IF \E j \in 1 .. k - 1 : spilled[Use(j)] THEN Scratch2 ELSE Scratch1

AllSpilled == \A k \in 1 .. 3 : spilled[Use(k)]

GenFarWrite ==
    /\ Generating("farWrite") /\ ~AllSpilled
    /\ LET x(k) == At(Use(k), ScratchOf(k))
           m1 == LoadOperand(machine, Use(1), ScratchOf(1))
           m2 == LoadOperand(m1, Use(2), ScratchOf(2))
           m3 == LoadOperand(m2, Use(3), ScratchOf(3))
           m4 == [m3 EXCEPT !.override = m3.r[x(1)]]
       IN  Does(Affect(m4, "far store", <<m4.override, m4.r[x(2)], m4.r[x(3)]>>),
                "far store", <<Val(1), Val(2), Val(3)>>)

(* With all three on the stack the compiler gives up.                      *)
GiveUp ==
    /\ Generating("farWrite") /\ AllSpilled
    /\ stage' = "failed"
    /\ UNCHANGED <<vars, code, ip, machine, value, wide, meant>>

(* IR_CALL: one MOV per argument, then the target of an indirect call. The *)
(* callee keeps the frame (it saves R15) and nothing else.                 *)
Argument(m, k) ==
    LET m1 == LoadOperand(m, Use(k), Scratch1)
    IN  MovReg(m1, ArgRegs[k], At(Use(k), Scratch1))

(* Fault: the arguments are moved from the last to the first.              *)
MarshalledBackwards(m, n) ==
    FoldLeft(Argument, m, [k \in 1 .. n |-> n + 1 - k])
Marshalled(m, n) == FoldLeft(Argument, m, [k \in 1 .. n |-> k])

Returned(m) ==
    [m EXCEPT !.r = [x \in Regs |-> IF x = R0 THEN <<"result", <<m.effect.on>>>> ELSE Junk],
              !.mdl = Junk, !.mdh = Junk, !.flags = Junk, !.carry = Junk]

Direct == <<"symbol">>

GenCall ==
    /\ Generating("call")
    /\ LET n == Len(Inst.use)
           m1 == Marshalled(machine, n)
           m2 == IF Inst.target = None THEN m1 ELSE LoadOperand(m1, Inst.target, Scratch1)
           fn == IF Inst.target = None THEN Direct ELSE m2.r[At(Inst.target, Scratch1)]
           m3 == Returned(Affect(m2, "call", <<fn>> \o [k \in 1 .. n |-> m2.r[ArgRegs[k]]]))
           args == (IF Inst.target = None THEN <<Direct>> ELSE <<value[Inst.target]>>)
                     \o [k \in 1 .. n |-> Val(k)]
       IN  /\ machine' = IF Inst.dst = None THEN m3
                         ELSE FinishDst(MovReg(m3, Dst, R0), Inst.dst)
           /\ value' = IF Inst.dst = None THEN value
                       ELSE [value EXCEPT ![Inst.dst] = m3.r[R0]]
           /\ meant' = [what |-> "call", on |-> args]
    /\ Advance
    /\ UNCHANGED wide

(* IR_CJMP and IR_RET: a comparison with zero, and R0 for the caller.      *)
GenBranch ==
    /\ Generating("branch")
    /\ LET m1 == LoadOperand(machine, Use(1), Scratch1)
           m2 == Flags(m1, <<"SUB", <<m1.r[At(Use(1), Scratch1)], Zero>>>>)
       IN  Does(Affect(m2, "branch", <<m2.flags>>), "branch", <<<<"SUB", <<Val(1), Zero>>>>>>)

GenReturn ==
    /\ Generating("return")
    /\ LET m1 == LoadOperand(machine, Use(1), Scratch1)
           m2 == MovReg(m1, R0, At(Use(1), Scratch1))
       IN  Does(Affect(m2, "return", <<m2.r[R0]>>), "return", <<Val(1)>>)

Gen ==
    \/ GenConstant \/ GenLoadSym \/ GenStoreSym \/ GenMultiplyStore \/ GenCompose
    \/ GenShift32 \/ GenDivideSym \/ GenDivideProduct \/ GenDivide32
    \/ GenBinary \/ GenWithCarry \/ GenMultiply \/ GenProductHigh \/ GenDivide
    \/ GenUnary \/ GenCompare \/ GenCmp32
    \/ GenLoadMem \/ GenStoreMem \/ GenFarRead \/ GenFarWrite \/ GiveUp
    \/ GenCall \/ GenBranch \/ GenReturn

CodegenNext == EmitPlain \/ EmitCall \/ Allocate \/ Prologue \/ Gen

CodegenSpec == CodegenInit /\ [][CodegenNext]_cgAllVars

-----------------------------------------------------------------------------
Run == stage = "body"

(* The register just written, and those that are still to be read.         *)
Live == { v \in VReg : \E p \in 1 .. ip : code[p].dst = v /\ (p = ip \/ last[v] >= ip) }

(* Whatever the pressure on the pool and the calls in between, the home of *)
(* a live virtual register holds its value when the next instruction is    *)
(* generated: neither a scratch register, nor an operation in place, nor a *)
(* call has come in between (codegen.c, lines 291-1026). No override of    *)
(* EXTP or EXTS is left for it either.                                     *)
HomesHold == Run => machine.override = Junk /\ \A v \in Live : Home(v) = value[v]

(* Argument registers and pool share R8 (isa.c, lines 80 and 88-91).       *)
TargetOverwritten ==
    LET i == code[ip]
    IN  /\ i.kind = "call" /\ i.target # None
        /\ Len(i.use) = Len(ArgRegs)
        /\ ~spilled[i.target] /\ reg[i.target] = Last(ArgRegs)

(* A store, a far store, a branch, a return or a call acts on the values   *)
(* that the program names. One case is left out, and there it acts on      *)
(* something else: an indirect call with all argument registers in use     *)
(* whose target lives in the last of them jumps to its last argument.      *)
EffectsAsMeant ==
    Run /\ ip > 0 =>
        machine.effect =
            IF meant.what = "call" /\ TargetOverwritten
            THEN [meant EXCEPT !.on[1] = Last(meant.on)] ELSE meant

(* The two words of a 32-bit symbol in the frame are those the program     *)
(* gave it, the extension of a parameter by the prologue included.         *)
WideSymbolAsMeant ==
    Run => wide = [lo |-> machine.lo, hi |-> machine.hi]
=============================================================================
