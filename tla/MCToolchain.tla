----------------------------- MODULE MCToolchain -----------------------------
(***************************************************************************)
(* Programs as c167cc writes them (tests/golden) and in the older dialect  *)
(* that computes on variables (simulador/c166asm.py).                      *)
(***************************************************************************)
EXTENDS Toolchain

N(l, mn, ops) == [label |-> l, mn |-> mn, ops |-> ops]
O(mn, ops) == N("", mn, ops)
r(n) == <<"reg", n>>
rl(n) == <<"breg", 2 * n>>
rh(n) == <<"breg", 2 * n + 1>>
im(v) == <<"imm", v>>
at(name) == <<"imm_addr", name>>
v(name) == <<"mem", name, 0>>
vo(name, off) == <<"mem", name, off>>
fp(off) == <<"ind_off", 15, off>>
ind(n) == <<"ind", n, "plain">>
cc(name) == <<"cc", name>>
lb(name) == <<"label", name>>
SPo == v("SP")
End == N("END", "JMP", << lb("END") >>)

NamesValue == << "ARR", "F", "TAB", "VAR_A", "VAR_B", "VAR_C" >>
LiteralsValue == "0x0300" :> \h300

(* The numbers at the edges of both words.                                 *)
Numbers == { <<0, 0>>, <<1, 0>>, <<0, 1>>, << \hFFFF, 0>>, <<0, \h8000>>, << \hFFFF, \hFFFF>> }
InputsValue == { [lo |-> x[1], hi |-> x[2], lo2 |-> y[1], hi2 |-> y[2]] : x \in Numbers, y \in Numbers }
OneIf(Test(_)) == [i \in InputsValue |-> IF Test(i) THEN 1 ELSE 0]
Result(Op(_)) == [i \in InputsValue |-> Op(i)]

Less(i) == i.hi < i.hi2 \/ (i.hi = i.hi2 /\ i.lo < i.lo2)
SignedLess(i) == Signed(16, i.hi) < Signed(16, i.hi2) \/ (i.hi = i.hi2 /\ i.lo < i.lo2)

(* A call with a frame: 32-bit unsigned comparison (bug11_lt).             *)
CompareUnsigned ==
    [source |-> << N("START", "CALLR", << lb("F") >>), End,
        N("F", "PUSH", << r(15) >>), O("SUB", << SPo, im(8) >>), O("MOV", << r(15), SPo >>),
        O("MOV", << fp(0), r(4) >>), O("MOV", << fp(2), r(5) >>), O("MOV", << fp(4), r(6) >>), O("MOV", << fp(6), r(7) >>),
        O("MOV", << r(0), fp(0) >>), O("MOV", << r(2), fp(4) >>), O("MOV", << r(3), fp(6) >>),
        O("CMP", << r(0), r(2) >>), O("MOV", << r(11), fp(2) >>), O("SUBC", << r(11), r(3) >>),
        O("JMPR", << cc("C"), lb("T") >>), O("MOV", << r(0), im(0) >>), O("JMPR", << cc("UC"), lb("X") >>),
        N("T", "MOV", << r(0), im(1) >>),
        N("X", "ADD", << SPo, im(8) >>), O("POP", << r(15) >>), O("RET", <<>>) >>,
     meaning |-> OneIf(Less)]

(* 32-bit signed comparison, and equality, without a frame.                *)
Compare(name, meaning) ==
    [source |-> << O("SUB", << r(4), r(6) >>), O("SUBC", << r(5), r(7) >>), O("JMPR", << cc(name), lb("T") >>),
        O("MOV", << r(0), im(0) >>), O("JMP", << lb("END") >>), N("T", "MOV", << r(0), im(1) >>), End >>,
     meaning |-> meaning]
CompareSigned == Compare("SLT", OneIf(SignedLess))
CompareEqual == Compare("Z", OneIf(LAMBDA i : i.lo = i.lo2 /\ i.hi = i.hi2))

(* Upper word of the 32-bit sum, through variables.                        *)
AddWide ==
    [source |-> << O("MOV", << v("VAR_A"), r(4) >>), O("MOV", << vo("VAR_A", 2), r(5) >>),
        O("MOV", << r(0), v("VAR_A") >>), O("MOV", << r(1), vo("VAR_A", 2) >>),
        O("ADD", << r(0), r(6) >>), O("ADDC", << r(1), r(7) >>), O("MOV", << r(0), r(1) >>), End >>,
     meaning |-> Result(LAMBDA i : (i.hi + i.hi2 + (i.lo + i.lo2) \div 65536) % 65536)]

(* The product of two words divided again by one of them (bug7).           *)
MultiplyBack ==
    [source |-> << O("MOV", << r(1), r(6) >>), O("OR", << r(1), im(1) >>), O("MULU", << r(4), r(1) >>),
        O("MOV", << r(8), v("MDL") >>), O("MOV", << r(9), v("MDH") >>),
        O("MOV", << v("MDL"), r(8) >>), O("MOV", << v("MDH"), r(9) >>),
        O("DIVLU", << r(1) >>), O("MOV", << r(0), v("MDL") >>), End >>,
     meaning |-> Result(LAMBDA i : i.lo)]

(* The older dialect: macros on variables, and MUL of one operand.         *)
OnVariables ==
    [source |-> << O("MOV", << v("VAR_B"), r(4) >>), O("MOV", << v("VAR_A"), im(300) >>),
        O("MOV", << v("VAR_C"), v("VAR_A") >>), O("MOV", << v("MDL"), v("VAR_B") >>), O("MUL", << v("VAR_C") >>),
        O("MOV", << v("VAR_B"), v("MDL") >>), O("MOV", << r(0), v("VAR_B") >>), End >>,
     meaning |-> Result(LAMBDA i : (300 * i.lo) % 65536)]

(* A table with a byte and a word in it, read through pointers.            *)
Table ==
    [source |-> << O("JMPA", << cc("UC"), lb("GO") >>), N("TAB", "DW", << 513, 1027 >>),
        N("GO", "MOV", << r(1), at("TAB") >>), O("MOV", << r(2), im(1) >>), O("ADD", << r(2), r(1) >>),
        O("MOVB", << r(0), ind(2) >>), O("AND", << r(0), im(255) >>),
        O("MOV", << r(3), <<"ind_off", 1, 2>> >>), O("ADD", << r(0), r(3) >>),
        O("CMP", << r(3), vo("TAB", 2) >>), O("JMPR", << cc("Z"), lb("END") >>), O("NEG", << r(0) >>), End >>,
     meaning |-> Result(LAMBDA i : 2 + 1027)]

(* An array filled and read back through [R+] and [-R], in bytes as well.  *)
Array ==
    [source |-> << O("RESERVE", << "ARR", 6 >>), O("MOV", << r(8), r(6) >>), O("MOV", << v("VAR_A"), im(5) >>), O("MOV", << r(1), at("ARR") >>),
        O("ADD", << r(1), im(6) >>),
        O("MOV", << <<"ind", 1, "predec">>, r(4) >>), O("MOV", << <<"ind", 1, "predec">>, r(8) >>),
        O("MOVB", << <<"ind", 1, "predec">>, rh(4) >>), O("MOVB", << rl(0), <<"ind", 1, "postinc">> >>),
        O("MOVBZ", << r(2), rl(0) >>), O("MOV", << r(3), <<"ind", 1, "postinc">> >>), O("MOV", << r(0), ind(1) >>),
        O("XOR", << r(0), r(3) >>), O("XOR", << r(0), r(2) >>), End >>,
     meaning |-> Result(LAMBDA i : Xor(Xor(i.lo, i.lo2), i.lo \div 256))]

(* Far accesses: the window covers the next one or two instructions.       *)
Far1 ==
    [source |-> << O("MOV", << r(0), im(1) >>), O("MOV", << r(1), im(\h300) >>), O("MOV", << r(2), im(5) >>),
        O("MOV", << v("0x0300"), r(2) >>),
        O("EXTP", << r(0), im(1) >>), O("MOV", << ind(1), r(4) >>), O("MOV", << r(3), ind(1) >>),
        O("EXTS", << r(0), im(2) >>), O("MOV", << ind(1), r(6) >>), O("MOV", << r(8), ind(1) >>),
        O("EXTP", << r(0), im(1) >>), O("MOV", << r(0), ind(1) >>),
        O("ADD", << r(0), r(3) >>), O("ADD", << r(0), r(8) >>), End >>,
     meaning |-> Result(LAMBDA i : (i.lo + 5 + i.lo2) % 65536)]

(* A call through a pointer, a call across segments, a loop.               *)
Calls ==
    [source |-> << O("JMP", << lb("GO") >>), N("F", "SHL", << r(0), im(1) >>), O("RET", <<>>),
        N("G", "ADD", << r(0), im(1) >>), O("RETS", <<>>),
        N("GO", "MOV", << r(0), r(4) >>), O("MOV", << r(1), at("F") >>), O("MOV", << r(2), im(2) >>),
        N("L", "CALLI", << cc("UC"), r(1) >>), O("CALLS", << <<"seg", 0>>, lb("G") >>),
        O("DEC", << r(2) >>), O("JMPR", << cc("NZ"), lb("L") >>), O("SRVWDT", <<>>), End >>,
     meaning |-> Result(LAMBDA i : (4 * i.lo + 3) % 65536)]

(* Instructions that the assembler has no name for are written as words.   *)
Raw2(a, b) == O("DW", << a + 256 * b >>)
Raw4(a, b, c, d) == O("DW", << a + 256 * b, c + 256 * d >>)
Odd(x) == x % 2 = 1
Negative(x) == x >= 32768

(* Single bits: moved, combined, tested and cleared; fields of bits.       *)
Bits ==
    [source |-> << O("MOV", << r(0), im(0) >>), Raw4(\h4A, \hF4, \hF0, \h01), Raw4(\h3A, \hF4, \hF0, \h02),
        Raw4(\h5A, \hF0, \hF0, \h21), Raw4(\h7A, \hF4, \hF0, \hF3), Raw4(\h6A, \hF4, \hF0, \hF2),
        Raw4(\h8A, \hF4, 1, \h00), Raw2(\h8F, \hF0), Raw4(\hBA, \hF0, 1, \h90), Raw2(\hAF, \hF0),
        Raw4(\hAA, \hF0, 1, \h90), Raw2(\hBF, \hF0), Raw4(\h9A, \hF0, 1, \h90), Raw2(\hCF, \hF0),
        Raw4(\h0A, \hF0, \hF0, \h50), Raw4(\h1A, \hF0, \h30, \h70), Raw4(\h2A, \hF0, \hF0, \h14),
        O("JMPR", << cc("V"), lb("END") >>), Raw2(\h1E, \hF0), End >>,
     meaning |-> Result(LAMBDA i : \h3052 + Bit(~Odd(i.lo) /\ Negative(i.lo)) * 4 + Bit(Negative(i.lo)) * 8
                                         + Bit(~Odd(i.lo)) * 256)]

(* Compare and step, arithmetic through pointers, rotation, priority.      *)
Steps ==
    [source |-> << O("JMP", << lb("GO") >>), N("TAB", "DW", << 100, 1000 >>),
        N("GO", "MOV", << r(1), im(0) >>), O("MOV", << r(0), im(0) >>), O("MOV", << r(2), at("TAB") >>),
        N("L", "ADD", << r(0), r(4) >>), Raw2(\h80, \h31), O("JMPR", << cc("NZ"), lb("L") >>),
        Raw2(\hB0, \h41), O("JMPR", << cc("NZ"), lb("END") >>), Raw4(\h96, \hF1, 2, 0),
        O("JMPR", << cc("NZ"), lb("END") >>), O("ADD", << r(0), r(1) >>), Raw2(\h08, \h0E), Raw2(\h28, \h0A),
        Raw2(\h08, \h03), O("MOV", << r(3), im(256) >>), Raw2(\h2B, \h33), O("ADD", << r(0), r(3) >>),
        Raw4(\h94, 2, 0, 3), Raw4(\h02, \hF0, 0, 3), Raw2(\h1C, \h40), Raw2(\h3C, \h40), End >>,
     meaning |-> Result(LAMBDA i : (4 * i.lo + 4 + 100 - 1000 + 3 + 7 + 1000) % 65536)]

(* A trap into the same handler, a call that pushes, a protected window.   *)
Traps ==
    [source |-> << O("JMP", << lb("GO") >>), N("F", "POP", << r(1) >>), Raw2(\hFC, \hF2),
        O("ADD", << r(2), r(2) >>), O("JMPI", << cc("UC"), r(1) >>),
        N("GO", "MOV", << r(0), r(4) >>), O("CMP", << r(4), r(6) >>), Raw2(\h9B, \h3A),
        O("JMPR", << cc("C"), lb("L") >>), O("MOV", << r(0), r(6) >>),
        N("L", "CPL", << r(0) >>), Raw4(\hE2, \hF0, 2, 0), Raw2(\hD1, \h10), O("ADD", << r(2), r(2) >>),
        O("MOV", << r(0), r(2) >>), End >>,
     meaning |-> Result(LAMBDA i : (4 * (65535 - (IF i.lo < i.lo2 THEN i.lo ELSE i.lo2))) % 65536)]

(* A function whose address is taken above it: F is a variable as well, so *)
(* the program is assembled and not run (its call would go into the data). *)
Forward ==
    [source |-> << N("START", "CALLR", << lb("G") >>), End,
        N("G", "MOV", << r(1), at("F") >>), O("CALLI", << cc("UC"), r(1) >>), O("RET", <<>>),
        N("F", "MOV", << r(0), im(7) >>), O("MOV", << r(1), at("F") >>), O("RET", <<>>) >>,
     meaning |-> <<>>]

(* A jump out of its range.                                                *)
TooFar ==
    [source |-> << O("JMP", << lb("END") >>), N("TAB", "DW", [k \in 1 .. 128 |-> k]), End >>,
     meaning |-> Result(LAMBDA i : 0)]

ProgramsValue == << CompareUnsigned, CompareSigned, CompareEqual, AddWide, MultiplyBack, OnVariables, Table, Array,
                    Far1, Calls, Bits, Steps, Traps, Forward, TooFar >>

(* The handler of CC26 as c166sim.py describes it: it changes the register *)
(* bank, reloads the compare value, writes a page, sets its bit.           *)
At(address, bytes) == [a \in address .. address + Len(bytes) - 1 |-> bytes[a - address + 1]]
HandlerValue ==
    At(\hE8, << \hFA, 0, 0, 2 >>)                              \* JMPS 0, 0x0200
    @@ At(\h200, << \hC6, \h08, 0, \hFB,                       \* SCXT CP, #FB00
                   \h06, \h3A, \hFA, 0,                        \* ADD CC26, #00FA
                   \hE0, \h10,                                 \* MOV R0, #1
                   \hDC, \h40, \hF6, \hF0, 0, 4,               \* EXTP R0, #1; MOV 0x0400, R0
                   \hFF, \h4D,                                 \* BSET FD9A.15
                   \hFC, \h08, \hFB, \h88 >>)                  \* POP CP; RETI
HandlerMemoryValue == (\hFB00 .. \hFB1F) \cup {\hFE74, \hFE75, \hFD9A, \hFD9B, \h4400, \h4401}
=============================================================================
