------------------------------ MODULE Toolchain ------------------------------
(***************************************************************************)
(* From the source of a program to its result: the lines are loaded one by *)
(* one, assembled (simulador/c166asm.py), placed in the memory of the      *)
(* simulated CPU with the handler of an interrupt beside them, and         *)
(* executed (simulador/c166sim.py) while the interrupt may come between    *)
(* any two instructions.                                                   *)
(***************************************************************************)
EXTENDS Assembler, Cpu

CONSTANTS
    Programs,       \* sequence of [source, meaning]: lines, and what R0 shall be for each input to try
    Inputs,         \* what R4 to R7 may hold at the start: records [lo, hi, lo2, hi2]
    Handler,        \* the bytes of the vector and of the handler, by address
    HandlerMemory,  \* the addresses that the handler is there to change
    MaxInterrupts   \* bound on the interrupts of an execution

CC26_VECTOR == \hE8
LastLabel == "END"      \* every program ends in a jump to itself under this label

(* The names that the first lines of a source define, and those that one   *)
(* line uses as data.                                                      *)
EqusBy(src, n) == { src[i].ops[1] : i \in { i \in 1 .. n : src[i].mn = "EQU" } }
LabelsBy(src, n) == { src[i].label : i \in 1 .. n } \ {NoName}
Settled(src, n) == DOMAIN SpecialNames \cup DOMAIN Literals \cup EqusBy(src, n) \cup LabelsBy(src, n)

Used(line) ==
    IF line.mn \in {NoName, "EQU", "RESERVE", "DW"} THEN {}
    ELSE { line.ops[k][2] : k \in { k \in DOMAIN line.ops : line.ops[k][1] \in {"mem", "imm_addr"} } }

(* The names that line i uses as data before any line has settled them,    *)
(* and those that it makes variables.                                      *)
Unsettled(src, i) == Used(src[i]) \ Settled(src, i)
GivenBy(src, i) == IF src[i].mn = "RESERVE" THEN {src[i].ops[1]} ELSE Unsettled(src, i)

(* A source that is well formed, whose variables Names lists. A label may  *)
(* be used above its line: c167cc takes the address of functions so.       *)
Expected(src) ==
    /\ Len(src) \in Nat
    /\ \A i \in 1 .. Len(src) :
          /\ src[i].label \in STRING /\ src[i].ops \in Arguments(src[i].mn)
          /\ src[i].mn = "EQU" => src[i].label = NoName
          /\ GivenBy(src, i) \subseteq { Names[k] : k \in DOMAIN Names }

ASSUME ToolchainAssumption ==
    /\ MaxInterrupts \in Nat
    /\ Names \in Seq(STRING) /\ \A j, k \in DOMAIN Names : Names[j] = Names[k] => j = k
    /\ \A k \in DOMAIN Programs : DOMAIN Programs[k].meaning \subseteq Inputs /\ Expected(Programs[k].source)

VARIABLES
    program,    \* the index of the program
    stage,      \* "loading", "refused", "assembled" or "running"
    asm,        \* what the assembler has collected
    labels,     \* the addresses that assemble gave the labels
    input,      \* what the registers held at the start
    cpu,        \* the machine
    calm,       \* history: the machine that no interrupt disturbs
    interrupts  \* how often the program was interrupted

vars == <<program, stage, asm, labels, input, cpu, calm, interrupts>>

NoMachine == Reset(<<>>)

Init ==
    /\ program \in DOMAIN Programs
    /\ stage = "loading" /\ asm = Empty /\ labels = <<>>
    /\ input = CHOOSE r \in Inputs : TRUE      \* no matter before Start
    /\ cpu = NoMachine /\ calm = NoMachine /\ interrupts = 0

Source == Programs[program].source

(* One line of load_file.                                                  *)
Load ==
    /\ stage = "loading" /\ asm.count < Len(Source)
    /\ asm' = Loaded(asm, Source[asm.count + 1])
    /\ UNCHANGED <<program, stage, labels, input, cpu, calm, interrupts>>

(* assemble, which raises an error for a program it does not accept.       *)
Assemble ==
    /\ stage = "loading" /\ asm.count = Len(Source)
    /\ stage' = IF Accepted(asm) THEN "assembled" ELSE "refused"
    /\ labels' = IF Accepted(asm) THEN LabelAddress(asm) ELSE labels
    /\ UNCHANGED <<program, asm, input, cpu, calm, interrupts>>

WithArguments(c, r) == SetGpr(SetGpr(SetGpr(SetGpr(c, 4, r.lo), 5, r.hi), 6, r.lo2), 7, r.hi2)

Start ==
    /\ stage = "assembled" /\ stage' = "running"
    /\ \E r \in DOMAIN Programs[program].meaning :
          LET machine == WithArguments(Reset(Image(asm) @@ Handler), r)
          IN  input' = r /\ cpu' = machine /\ calm' = machine
    /\ UNCHANGED <<program, asm, labels, interrupts>>

Run ==
    /\ stage = "running" /\ Instructions(cpu) # {}
    /\ cpu' = Executed(cpu)
    /\ calm' = IF cpu.mark = NONE /\ Instructions(calm) # {} THEN Executed(calm) ELSE calm
    /\ UNCHANGED <<program, stage, asm, labels, input, interrupts>>

(* The compare value is reached after any instruction.                     *)
Interrupt ==
    /\ stage = "running" /\ Interruptible(cpu) /\ interrupts < MaxInterrupts
    /\ cpu' = Interrupted(cpu, CC26_VECTOR)
    /\ interrupts' = interrupts + 1
    /\ UNCHANGED <<program, stage, asm, labels, input, calm>>

Next == Load \/ Assemble \/ Start \/ Run \/ Interrupt

Spec == Init /\ [][Next]_vars

-----------------------------------------------------------------------------
(* What the assembly language says, in the forms of the CPU.               *)

Label(l) == labels[l]

(* A name that is a variable as well as a label is the variable.           *)
Named(o) ==
    LET off == IF o[1] = "mem" THEN o[3] ELSE 0
        place == IF o[2] \in DOMAIN labels \ DOMAIN asm.vars THEN Label(o[2]) + off ELSE Resolve(asm, o[2], off)
    IN  IF o[1] = "mem" THEN <<"mem", place>> ELSE I(place)

Operand(o) ==
    CASE o[1] \in {"reg", "breg"} -> G(o[2])
      [] o[1] = "imm" -> o
      [] o[1] = "ind" -> <<[plain |-> "ind", postinc |-> "post", predec |-> "pre"][o[3]], o[2]>>
      [] o[1] = "ind_off" -> <<"off", o[2], o[3]>>
      [] o[1] = "cc" -> <<"cc", CCMap[o[2]]>>
      [] o[1] \in {"mem", "imm_addr"} -> Named(o)

Names8 == [MOVB |-> "MOV", ADDB |-> "ADD", SUBB |-> "SUB", CMPB |-> "CMP", ANDB |-> "AND",
           ORB |-> "OR"]

(* The form of the k-th instruction, as it is written.                     *)
Written(k) ==
    LET line == asm.lines[k]
        mn == line.mn
        ops == line.ops
        after == Addresses(asm)[k + 1]
        F(op, w, dst, src) == [op |-> op, w |-> w, dst |-> dst, src |-> src, len |-> SizeOf(line)]
    IN  CASE mn = "JMPR" -> F(mn, 16, Operand(ops[1]), <<"rel", (Label(ops[2][2]) - after) \div 2>>)
          [] mn = "CALLR" -> F(mn, 16, NoOperand, <<"rel", (Label(ops[1][2]) - after) \div 2>>)
          [] mn \in {"JMPA", "CALLA"} -> F(mn, 16, Operand(ops[1]), <<"to", Label(ops[2][2])>>)
          [] mn \in {"JMPI", "CALLI"} -> F(mn, 16, Operand(ops[1]), Operand(ops[2]))
          [] mn \in {"JMPS", "CALLS"} -> F(mn, 16, NoOperand, <<"far", ops[1][2], Label(ops[2][2])>>)
          [] mn \in {"RET", "RETS", "NOP", "SRVWDT", "EINIT", "SRST"} -> F(mn, 16, NoOperand, NoOperand)
          [] mn \in Divides \cup {"NEG", "CPL", "PUSH", "POP"} -> F(mn, 16, Operand(ops[1]), NoOperand)
          [] mn \in {"EXTP", "EXTS"} ->
                F("EXT", 16, <<IF mn = "EXTP" THEN "extp" ELSE "exts", ops[2][2]>>, Operand(ops[1]))
          [] mn \in DOMAIN Names8 -> F(Names8[mn], 8, Operand(ops[1]), Operand(ops[2]))
          [] OTHER -> F(mn, 16, Operand(ops[1]), Operand(ops[2]))

-----------------------------------------------------------------------------
(* The variables are the names that a line reserves, or uses as data when  *)
(* no line above has settled them, and no others: a label has a variable   *)
(* as well exactly if it is used above its line, and then every operand    *)
(* with that name is the variable (note_var, resolve_mem_addr). They lie   *)
(* behind the code, apart from each other and large enough for each        *)
(* operand that gave rise to them, and the second pass gives every line    *)
(* the size that the first pass counted, without which all labels behind   *)
(* it are wrong (sizeof, encode).                                          *)
NamesResolve ==
    stage = "assembled" =>
        LET var == VarAddress(asm)
            area(v) == var[v] .. var[v] + asm.vars[v] - 1
        IN  /\ \A v \in DOMAIN var : var[v] % 2 = 0 /\ area(v) \subseteq CodeEnd(asm) .. DataEnd(asm) - 1
            /\ \A v, w \in DOMAIN var : v = w \/ area(v) \cap area(w) = {}
            /\ DOMAIN asm.vars = UNION { GivenBy(Source, i) : i \in 1 .. Len(Source) }
            /\ \A k \in DOMAIN asm.lines :
                  LET line == asm.lines[k]
                  IN  /\ Len(Encoded(asm, line, Addresses(asm)[k])) = SizeOf(line)
                      /\ line.mn = "DW" \/ \A n \in DOMAIN line.ops :
                            line.ops[n][1] = "mem" /\ line.ops[n][2] \in Unsettled(Source, line.at) \ DOMAIN asm.equs
                                => Resolve(asm, line.ops[n][2], line.ops[n][3]) + 1 \in area(line.ops[n][2])

(* The CPU reads the bytes of every instruction as that instruction, with  *)
(* the operands that were written: the two programs share an encoding that *)
(* is written down once in each of them, and they have disagreed before    *)
(* (c166asm.py, NEG and DIV).                                              *)
DecodesAsWritten ==
    stage = "assembled" =>
        LET c == Reset(Image(asm))
        IN  \A k \in DOMAIN asm.lines :
                asm.lines[k].mn = "DW"
                \/ Instructions([c EXCEPT !.pc = Addresses(asm)[k]]) = {Written(k)}

(* A program that has come to its end leaves in R0 what its source says of *)
(* its arguments, and the stack as it was: macros, carries across words,   *)
(* frames, pointers and windows work together, interrupted or not.         *)
Ended == stage = "running" /\ cpu.mark = NONE /\ cpu.pc = labels[LastLabel]

ResultsAsMeant ==
    Ended => Gpr(cpu, 0) = Programs[program].meaning[input] /\ StackPointer(cpu) = \hFC00

(* Interrupts are invisible to the program: whenever no handler is in      *)
(* flight, registers, flags, window and memory are those of a machine that *)
(* was never interrupted. Stack that the program has not written is free.  *)
StackArea == \hFB80 .. \hFBFF

InterruptsInvisible ==
    stage = "running" /\ cpu.mark = NONE =>
        LET free == HandlerMemory \cup {a \in StackArea : a < StackPointer(cpu) \/ a \notin DOMAIN calm.mem}
            seen(c) == [c EXCEPT !.mem = [a \in (DOMAIN cpu.mem \cup DOMAIN calm.mem) \ free |-> Byte(c, a)]]
        IN  seen(cpu) = seen(calm)
=============================================================================
