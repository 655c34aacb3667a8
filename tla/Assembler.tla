------------------------------ MODULE Assembler ------------------------------
(***************************************************************************)
(* The assembler (simulador/c166asm.py): a record a holds what the first   *)
(* pass collects, Loaded adds a source line to it, and the second pass     *)
(* gives addresses and bytes. A source line is [label, mn, ops], with      *)
(* NoName for no label or no mnemonic, and operands already classified:    *)
(*   <<"reg", n>> <<"breg", nibble>> <<"imm", v>> <<"imm_addr", name>>     *)
(*   <<"mem", name, off>> <<"ind", n, mode>> <<"ind_off", n, disp>>        *)
(*   <<"cc", name>> <<"label", name>> <<"seg", n>>                         *)
(***************************************************************************)
EXTENDS Integers, Sequences, FiniteSets
LOCAL INSTANCE SequencesExt

CONSTANTS
    Names,      \* the names of a program, in alphabetical order
    Literals    \* the names that are numbers, with their value

NoName == ""
MDLName == "MDL"
SpecialNames == [MDL |-> \hFE0E, MDH |-> \hFE0C, SP |-> \hFE12]
ScratchMem == 6
ScratchMul == 7
CCMap == [UC |-> 0, NET |-> 1, Z |-> 2, NZ |-> 3, V |-> 4, NV |-> 5, N |-> 6, NN |-> 7, C |-> 8,
          NC |-> 9, SGT |-> 10, SLE |-> 11, SLT |-> 12, SGE |-> 13, UGT |-> 14, ULE |-> 15]

(* lines: what the macros expand to, [mn, ops, at] with the number of the  *)
(* source line; labels: the index in lines of the next instruction; vars:  *)
(* sizes; last: _last_mdl_src, the register MDL was last loaded from.      *)
Empty == [lines |-> <<>>, labels |-> <<>>, vars |-> <<>>, equs |-> <<>>, last |-> ScratchMul, count |-> 0]

-----------------------------------------------------------------------------
(* What the parser makes of the operands of a line. A half of a register   *)
(* is numbered 2n or 2n + 1, and a register that stands for its lower half *)
(* is taken for 2n whatever it is.                                         *)

Symbols == STRING \cup DOMAIN SpecialNames
Registers == {"reg"} \X (0 .. 15)
Cells == {"mem"} \X Symbols \X Nat
Operands ==
    Registers \cup Cells \cup ({"breg"} \X (0 .. 30)) \cup ({"imm"} \X Int) \cup ({"imm_addr"} \X Symbols)
    \cup ({"ind"} \X (0 .. 15) \X {"plain", "postinc", "predec"}) \cup ({"ind_off"} \X (0 .. 15) \X Int)

Conditions == {"cc"} \X DOMAIN CCMap
Labels == {"label"} \X STRING
Places == Labels \cup ({"imm"} \X Nat)      \* JMPA and JMPS take a number too

Arguments(mn) ==
    CASE mn = "EQU" -> STRING \X Int
      [] mn = "RESERVE" -> STRING \X Nat
      [] mn = "DW" -> Seq(Int)
      [] mn \in {"NOP", "SRVWDT", "EINIT", "SRST", "RET", "RETS"} -> {<<>>}
      [] mn \in {"JMP", "JLE", "JGE", "CALLR"} -> [1 .. 1 -> Labels]
      [] mn = "JMPR" -> Conditions \X Labels
      [] mn \in {"JMPA", "CALLA"} -> Conditions \X Places
      [] mn \in {"JMPI", "CALLI"} -> Conditions \X Registers
      [] mn \in {"JMPS", "CALLS"} -> ({"seg"} \X Nat) \X Places
      [] mn \in {"PUSH", "POP", "DEC"} -> [1 .. 1 -> Registers]
      [] mn \in {"DIV", "DIVU", "DIVL", "DIVLU"} -> [1 .. 1 -> Registers \cup Cells]
      [] mn \in {"MUL", "MULU"} -> [1 .. 1 -> Registers \cup Cells] \cup [1 .. 2 -> Registers \cup Cells]
      [] mn \in {"MOV", "MOVB"} -> Operands \X Operands
      [] OTHER -> {<<>>} \cup [1 .. 1 -> Operands] \cup [1 .. 2 -> Operands]

-----------------------------------------------------------------------------
(* First pass: symbols and macros.                                         *)

Reg(n) == <<"reg", n>>
IsReg(o) == o[1] = "reg"
IsMem(o) == o[1] = "mem"
StackOperand == <<"mem", "SP", 0>>

With(f, name, value) == [x \in DOMAIN f \cup {name} |-> IF x = name THEN value ELSE f[x]]

Larger(x, y) == IF x >= y THEN x ELSE y
Reserved(a, name, size) ==
    [a EXCEPT !.vars = With(@, name, Larger(IF name \in DOMAIN @ THEN @[name] ELSE 2, size))]

(* Fault: a name that is a label is given a variable too.                  *)
NotedLabelToo(a, o) ==
    IF o[1] \in {"mem", "imm_addr"}
       /\ o[2] \notin DOMAIN SpecialNames \cup DOMAIN Literals \cup DOMAIN a.equs
    THEN Reserved(a, o[2], (IF IsMem(o) THEN o[3] ELSE 0) + 2)
    ELSE a

(* A name that no directive and no label has defined is a variable, large  *)
(* enough for the word at the offset.                                      *)
Noted(a, o) ==
    IF o[1] \in {"mem", "imm_addr"}
       /\ o[2] \notin DOMAIN SpecialNames \cup DOMAIN Literals \cup DOMAIN a.equs \cup DOMAIN a.labels
    THEN Reserved(a, o[2], (IF IsMem(o) THEN o[3] ELSE 0) + 2)
    ELSE a

(* Every operand of an instruction, which has two at most (INSN_LEN).      *)
NotedBoth(a, ops) ==
    LET first == IF ops = <<>> THEN a ELSE Noted(a, ops[1])
    IN  IF Len(ops) < 2 THEN first ELSE Noted(first, ops[2])

Emit(a, mn, ops) == [a EXCEPT !.lines = Append(@, [mn |-> mn, ops |-> ops, at |-> a.count])]
Move(a, dst, src) == Emit(a, "MOV", <<dst, src>>)

(* A memory operand is loaded into a scratch register.                     *)
InReg(a, o, scratch) == IF IsReg(o) THEN a ELSE Move(Noted(a, o), Reg(scratch), o)
RegOf(o, scratch) == IF IsReg(o) THEN o ELSE Reg(scratch)

(* A form that no case expands is kept, and refused by the second pass.    *)
ExpandMov(a, dst, src) ==
    LET b == Noted(Noted(a, dst), src)
        toMDL == IsMem(dst) /\ dst[2] = MDLName
        indirectly == IsMem(dst) /\ src[1] \in {"imm", "mem"}
    IN  CASE toMDL /\ IsReg(src) -> [Move(b, dst, src) EXCEPT !.last = src[2]]
          [] indirectly /\ toMDL ->
                [Move(Move(b, Reg(ScratchMul), src), dst, Reg(ScratchMul)) EXCEPT !.last = ScratchMul]
          [] indirectly /\ ~toMDL -> Move(Move(b, Reg(ScratchMem), src), dst, Reg(ScratchMem))
          [] ~indirectly /\ ~(toMDL /\ IsReg(src)) -> Move(b, dst, src)

(* Fault: the registers of the other macros, which may hold arguments.     *)
ExpandStackOverArguments(a, mn, n) ==
    LET b == Move(Move(a, Reg(ScratchMem), StackOperand), Reg(ScratchMul), n)
    IN  Move(Emit(b, mn, <<Reg(ScratchMem), Reg(ScratchMul)>>), StackOperand, Reg(ScratchMem))

ExpandStack(a, mn, n) ==
    LET b == Move(Move(a, Reg(13), StackOperand), Reg(14), n)
    IN  Move(Emit(b, mn, <<Reg(13), Reg(14)>>), StackOperand, Reg(13))

(* With one operand, the other is what MDL was last loaded from.           *)
ExpandMultiply(a, mn, ops) ==
    IF Len(ops) = 2
    THEN Emit(InReg(InReg(a, ops[1], ScratchMul), ops[2], ScratchMem), mn,
              <<RegOf(ops[1], ScratchMul), RegOf(ops[2], ScratchMem)>>)
    ELSE Emit(InReg(a, ops[1], ScratchMem), mn, <<Reg(a.last), RegOf(ops[1], ScratchMem)>>)

LowByte(o) == IF IsReg(o) THEN <<"breg", 2 * o[2]>> ELSE o

Expanded(a, mn, ops) ==
    CASE mn = "RESERVE" -> Reserved(a, ops[1], ops[2])
      [] mn = "MOV" -> ExpandMov(a, ops[1], ops[2])
      [] mn \in {"ADD", "SUB"} /\ Len(ops) = 2 /\ ops[1] = StackOperand /\ ops[2][1] = "imm" -> ExpandStack(a, mn, ops[2])
      [] mn \in {"MUL", "MULU"} -> ExpandMultiply(a, mn, ops)
      [] mn \in {"DIV", "DIVU", "DIVL", "DIVLU"} ->
            Emit(InReg(a, ops[1], ScratchMul), mn, <<RegOf(ops[1], ScratchMul)>>)
      [] mn = "DEC" -> Emit(a, "SUB", <<ops[1], <<"imm", 1>>>>)
      [] mn \in {"JMP", "JLE", "JGE"} ->
            Emit(a, "JMPR", <<<<"cc", CASE mn = "JMP" -> "UC" [] mn = "JLE" -> "SLE" [] mn = "JGE" -> "SGE">>, ops[1]>>)
      [] mn = "MOVB" -> Emit(Noted(Noted(a, LowByte(ops[1])), LowByte(ops[2])), mn,
                             <<LowByte(ops[1]), LowByte(ops[2])>>)
      [] mn \in {"DW", "JMPR", "NOP", "SRVWDT", "EINIT", "SRST", "RET", "RETS", "PUSH", "POP", "CALLR",
                 "JMPA", "CALLA", "JMPI", "CALLI", "JMPS", "CALLS"} -> Emit(a, mn, ops)
      [] OTHER -> Emit(NotedBoth(a, ops), mn, ops)

(* One line of the file.                                                   *)
Counted(a) == [a EXCEPT !.count = @ + 1]
Labelled(a, name) == [a EXCEPT !.labels = With(@, name, Len(a.lines) + 1)]
Equated(a, name, value) == [a EXCEPT !.equs = With(@, name, value)]

Loaded(a, line) ==
    LET b == Counted(a)
        c == IF line.label = NoName THEN b ELSE Labelled(b, line.label)
    IN  CASE line.mn = "EQU" -> Equated(b, line.ops[1], line.ops[2])
          [] line.mn = NoName -> c
          [] OTHER -> Expanded(c, line.mn, line.ops)

-----------------------------------------------------------------------------
(* Second pass: addresses and bytes.                                       *)

WideOnly == {"CMP", "SUB", "ADD", "AND", "OR", "XOR"}   \* no form with a short immediate

Letter(mn, o) ==
    CASE o[1] = "imm" -> IF mn \in WideOnly \/ o[2] \notin 0 .. 15 THEN "I" ELSE "i"
      [] o[1] = "reg" -> "R"
      [] o[1] = "mem" -> "m"
      [] o[1] = "breg" -> "B"
      [] o[1] = "ind" -> "P"
      [] o[1] = "imm_addr" -> "A"
      [] o[1] = "ind_off" -> "O"

ByteAlu == {"ADDB", "SUBB", "ANDB", "ORB"}
Divides == {"DIV", "DIVU", "DIVL", "DIVLU"}

(* INSN_LEN, the forms of two and of four bytes.                           *)
TwoBytes ==
    ({"MOV", "ADD", "SUB", "AND", "OR", "XOR", "ADDC", "SUBC", "CMP", "MUL", "MULU", "SHR", "ASHR", "SHL"}
        \X {<<"R", "R">>})
    \cup ({"MOV", "EXTS", "EXTP", "SHR", "ASHR", "SHL"} \X {<<"R", "i">>})
    \cup ({"MOV"} \X {<<"R", "P">>, <<"P", "R">>})
    \cup ((Divides \cup {"NEG", "CPL", "PUSH", "POP"}) \X {<<"R">>})
    \cup ((ByteAlu \cup {"MOVB", "CMPB"}) \X {<<"B", "B">>})
    \cup ({"MOVB"} \X {<<"B", "i">>, <<"B", "P">>, <<"P", "B">>})
    \cup {<<"MOVBZ", <<"R", "B">>>>, <<"RET", <<>>>>}

FourBytes ==
    ({"MOV", "ADD", "SUB", "AND", "OR", "XOR", "CMP"} \X {<<"R", "I">>})
    \cup ({"MOV"} \X {<<"R", "m">>, <<"m", "R">>, <<"R", "A">>, <<"R", "O">>, <<"O", "R">>})
    \cup ({"CMP", "MOVBZ"} \X {<<"R", "m">>})
    \cup ({"MOVB"} \X {<<"B", "m">>, <<"m", "B">>, <<"B", "O">>, <<"O", "B">>})
    \cup (ByteAlu \X {<<"B", "m">>, <<"m", "B">>})
    \cup {<<"CMPB", <<"B", "m">>>>}

Unknown == 0        \* "tamanho desconhecido": the assembler stops
SizeOf(line) ==
    CASE line.mn \in {"JMPR", "CALLR", "NOP", "JMPI", "CALLI", "RETS"} -> 2
      [] line.mn \in {"SRVWDT", "EINIT", "SRST", "JMPA", "CALLA", "JMPS", "CALLS"} -> 4
      [] line.mn = "DW" -> 2 * Len(line.ops)
      [] OTHER -> LET form == <<line.mn, [k \in DOMAIN line.ops |-> Letter(line.mn, line.ops[k])]>>
                  IN  CASE form \in TwoBytes -> 2 [] form \in FourBytes -> 4
                        [] form \notin TwoBytes \cup FourBytes -> Unknown

(* The address of every line, and of the end of the code.                  *)
Addresses(a) ==
    LET addr[k \in 1 .. Len(a.lines) + 1] == IF k = 1 THEN 0 ELSE addr[k - 1] + SizeOf(a.lines[k - 1])
    IN  addr
CodeEnd(a) == Addresses(a)[Len(a.lines) + 1]
LabelAddress(a) == LET addr == Addresses(a) IN [l \in DOMAIN a.labels |-> addr[a.labels[l]]]

Even(n) == 2 * ((n + 1) \div 2)
Space(a, v) == IF v \in DOMAIN a.vars THEN Even(a.vars[v]) ELSE 0
DataAddresses(a) ==
    LET data[k \in 1 .. Len(Names) + 1] ==
            IF k = 1 THEN Even(CodeEnd(a)) ELSE data[k - 1] + Space(a, Names[k - 1])
    IN  data
DataEnd(a) == DataAddresses(a)[Len(Names) + 1]
Place(v) == CHOOSE k \in DOMAIN Names : Names[k] = v
VarAddress(a) == LET data == DataAddresses(a) IN [v \in DOMAIN a.vars |-> data[Place(v)]]

NoAddress == -1
Resolve(a, name, off) ==
    CASE name \in DOMAIN SpecialNames -> SpecialNames[name] + off
      [] name \in DOMAIN Literals -> Literals[name] + off
      [] name \in DOMAIN a.equs -> a.equs[name] + off
      [] name \in DOMAIN a.vars -> VarAddress(a)[name] + off
      [] name \in DOMAIN a.labels \ DOMAIN a.vars -> LabelAddress(a)[name] + off
      [] OTHER -> NoAddress

(* Refused: an operand out of the range of its field. The checks are those *)
(* of the code, and of bytes(), which takes no more than 255.              *)
Refused == <<>>
Branch(a, opcode, pc, target) ==
    LET label == LabelAddress(a)
        rel == (label[target] - (pc + 2)) \div 2
    IN  IF target \in DOMAIN label /\ rel \in -128 .. 127 THEN <<opcode, rel % 256>> ELSE Refused

Far(a, opcode, second, target) ==
    LET label == LabelAddress(a)
        caddr == IF target[1] = "label" THEN label[target[2]] ELSE target[2]
    IN  IF target[1] = "label" /\ target[2] \notin DOMAIN label THEN Refused
        ELSE <<opcode, second, caddr % 256, (caddr \div 256) % 256>>

Two(opcode, upper, lower) == IF upper > 15 THEN Refused ELSE <<opcode, 16 * upper + lower>>
Four(opcode, second, v) == <<opcode, second, v % 256, (v \div 256) % 256>>
Full(n) == 240 + (n % 16)            \* a register in a field that may also name an SFR

AluOpcode == [ADD |-> 0, ADDC |-> \h10, SUB |-> \h20, SUBC |-> \h30, CMP |-> \h40, XOR |-> \h50,
              AND |-> \h60, OR |-> \h70, ADDB |-> 1, SUBB |-> \h21, CMPB |-> \h41,
              ANDB |-> \h61, ORB |-> \h71]
ShiftOpcode == [SHL |-> \h4C, SHR |-> \h6C, ASHR |-> \hAC]
DivOpcode == [DIV |-> \h4B, DIVU |-> \h5B, DIVL |-> \h6B, DIVLU |-> \h7B]

(* Fault: DIV as it was encoded before, "xB Fn".                           *)
EncodedUnaryOld(mn, n) ==
    CASE mn \in Divides -> Two(DivOpcode[mn], 15, n)
      [] mn \in {"NEG", "CPL"} -> Two(IF mn = "NEG" THEN \h81 ELSE \h91, n, 0)
      [] mn \in {"PUSH", "POP"} -> <<IF mn = "PUSH" THEN \hEC ELSE \hFC, Full(n)>>

EncodedUnary(mn, n) ==
    CASE mn \in Divides -> Two(DivOpcode[mn], n, n)
      [] mn \in {"NEG", "CPL"} -> Two(IF mn = "NEG" THEN \h81 ELSE \h91, n, 0)
      [] mn \in {"PUSH", "POP"} -> <<IF mn = "PUSH" THEN \hEC ELSE \hFC, Full(n)>>

(* MOV of a word or a byte through a pointer: [R], [R+] to read, [R],      *)
(* [-R] to write, or a displacement.                                       *)
EncodedPointer(mn, dst, src) ==
    LET word == mn = "MOV"
        reading == src[1] \in {"ind", "ind_off"}
        p == IF reading THEN src ELSE dst
        n == IF reading THEN dst[2] ELSE src[2]
    IN  CASE p[1] = "ind_off" ->
                IF n > 15 THEN Refused
                ELSE Four(CASE word -> (IF reading THEN \hD4 ELSE \hC4) [] ~word -> (IF reading THEN \hF4 ELSE \hE4),
                          16 * n + p[2], p[3])
          [] p[1] = "ind" /\ p[3] = "plain" -> Two((IF reading THEN \hA8 ELSE \hB8) + (IF word THEN 0 ELSE 1), n, p[2])
          [] p[1] = "ind" /\ p[3] = "postinc" /\ reading -> Two(IF word THEN \h98 ELSE \h99, n, p[2])
          [] p[1] = "ind" /\ p[3] = "predec" /\ ~reading -> Two(IF word THEN \h88 ELSE \h89, n, p[2])
          [] OTHER -> Refused

EncodedWord(a, mn, dst, src) ==
    LET address == Resolve(a, src[2], IF IsMem(src) THEN src[3] ELSE 0)
    IN  CASE mn = "MOV" /\ IsReg(src) /\ IsReg(dst) -> Two(\hF0, dst[2], src[2])
          [] mn = "MOV" /\ src[1] = "imm" ->
                IF src[2] \in 0 .. 15 THEN Two(\hE0, src[2], dst[2]) ELSE Four(\hE6, Full(dst[2]), src[2])
          [] mn = "MOV" /\ IsMem(src) -> Four(\hF2, Full(dst[2]), address)
          [] mn = "MOV" /\ IsMem(dst) -> Four(\hF6, Full(src[2]), Resolve(a, dst[2], dst[3]))
          [] mn = "MOV" /\ src[1] = "imm_addr" -> Four(\hE6, Full(dst[2]), address)
          [] mn = "CMP" /\ IsMem(src) -> Four(\h42, Full(dst[2]), address)
          [] mn \in {"MUL", "MULU"} -> Two(IF mn = "MUL" THEN \h0B ELSE \h1B, dst[2], src[2])
          [] mn \in DOMAIN ShiftOpcode /\ IsReg(src) -> Two(ShiftOpcode[mn], dst[2], src[2])
          [] mn \in DOMAIN ShiftOpcode /\ src[1] = "imm" -> Two(ShiftOpcode[mn] + 16, src[2], dst[2])
          [] mn \in DOMAIN AluOpcode /\ IsReg(src) -> Two(AluOpcode[mn], dst[2], src[2])
          [] mn \in DOMAIN AluOpcode /\ src[1] = "imm" -> Four(AluOpcode[mn] + 6, Full(dst[2]), src[2])
          [] mn = "MOV" /\ {dst[1], src[1]} \cap {"ind", "ind_off"} # {} -> EncodedPointer(mn, dst, src)

EncodedByte(a, mn, dst, src) ==
    LET opcode == IF mn = "MOVB" THEN \hF1 ELSE AluOpcode[mn]
    IN  CASE src[1] = "imm" -> Two(\hE1, src[2], dst[2])
          [] dst[1] = "breg" /\ src[1] = "breg" -> Two(opcode, dst[2], src[2])
          [] IsMem(src) -> Four(opcode + 2, Full(dst[2]), Resolve(a, src[2], src[3]))
          [] IsMem(dst) -> Four(IF mn = "MOVB" THEN \hF7 ELSE opcode + 4, Full(src[2]), Resolve(a, dst[2], dst[3]))
          [] OTHER -> EncodedPointer(mn, dst, src)

(* The bytes of a line at pc, whose size is not Unknown.                   *)
Encoded(a, line, pc) ==
    LET mn == line.mn
        ops == line.ops
    IN  CASE mn = "JMPR" -> Branch(a, 16 * CCMap[ops[1][2]] + 13, pc, ops[2][2])
          [] mn = "CALLR" -> Branch(a, \hBB, pc, ops[1][2])
          [] mn \in {"JMPA", "CALLA"} -> Far(a, IF mn = "JMPA" THEN \hEA ELSE \hCA, 16 * CCMap[ops[1][2]], ops[2])
          [] mn \in {"JMPI", "CALLI"} -> Two(IF mn = "JMPI" THEN \h9C ELSE \hAB, CCMap[ops[1][2]], ops[2][2])
          [] mn \in {"JMPS", "CALLS"} -> Far(a, IF mn = "JMPS" THEN \hFA ELSE \hDA, ops[1][2] % 256, ops[2])
          [] mn = "RETS" -> <<\hDB, 0>>
          [] mn = "RET" -> <<\hCB, 0>>
          [] mn = "NOP" -> <<\hCC, 0>>
          [] mn = "DW" -> [b \in 1 .. 2 * Len(ops) |-> IF b % 2 = 1 THEN ops[(b + 1) \div 2] % 256
                                                                ELSE (ops[b \div 2] \div 256) % 256]
          [] mn \in Divides \cup {"NEG", "CPL", "PUSH", "POP"} -> EncodedUnary(mn, ops[1][2])
          [] mn \in {"EXTS", "EXTP"} ->
                IF ops[2][2] \in 1 .. 4
                THEN <<\hDC, (IF mn = "EXTP" THEN 64 ELSE 0) + 16 * (ops[2][2] - 1) + ops[1][2]>>
                ELSE Refused
          [] mn = "SRVWDT" -> <<\hA7, \h58, \hA7, \hA7>>
          [] mn = "EINIT" -> <<\hB5, \h4A, \hB5, \hB5>>
          [] mn = "SRST" -> <<\hB7, \h48, \hB7, \hB7>>
          [] mn = "MOVBZ" ->
                IF IsMem(ops[2]) THEN Four(\hC2, Full(ops[1][2]), Resolve(a, ops[2][2], ops[2][3]))
                ELSE Two(\hC0, ops[2][2], ops[1][2])
          [] mn \in ByteAlu \cup {"MOVB", "CMPB"} -> EncodedByte(a, mn, ops[1], ops[2])
          [] OTHER -> EncodedWord(a, mn, ops[1], ops[2])

Accepted(a) ==
    /\ \A k \in DOMAIN a.lines : SizeOf(a.lines[k]) # Unknown
    /\ \A k \in DOMAIN a.lines : Encoded(a, a.lines[k], Addresses(a)[k]) # Refused

(* The image that assemble returns: the code, then zeros for the data.     *)
Image(a) ==
    LET addr == Addresses(a)
        code == FlattenSeq([k \in DOMAIN a.lines |-> Encoded(a, a.lines[k], addr[k])])
    IN  [x \in 0 .. DataEnd(a) - 1 |-> IF x < Len(code) THEN code[x + 1] ELSE 0]

=============================================================================
