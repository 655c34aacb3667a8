--------------------------------- MODULE Cpu ---------------------------------
(***************************************************************************)
(* The instructions of the simulated C167 (simulador/c166sim.py): a        *)
(* machine is a record, Decode reads the bytes of an instruction and       *)
(* Executed is the machine after it. Left out: the timers and the CAN      *)
(* controller, whose reads are mocked, and _pending_op_deadline.           *)
(***************************************************************************)
EXTENDS Integers, Sequences, FiniteSets, TLC
LOCAL INSTANCE FiniteSetsExt

MDH == \hFE0C
MDL == \hFE0E
CP == \hFE10
SP == \hFE12
PSW == \hFF10
WDTCON == \hFFAE
S0TBUF == \hFEB0
S0TIC == \hFF6C
Constants == \hFF1C :> 0 @@ \hFF1E :> \hFFFF     \* CONST_ADDRS, without the CAN registers
Separate == {MDL, MDH, SP}                        \* kept in Sim.special, not in Sim.mem

Segment == 65536
NONE == -1

(* mem is partial: the bytes that are not in its domain are 0. ext is the  *)
(* window of EXTP, EXTS, EXTR and ATOMIC, mark the _hw_irq_sp_watermark.   *)
Reset(mem) ==
    [mem |-> \hFE00 :> 0 @@ \hFE01 :> 0 @@ \hFE02 :> 1 @@ \hFE03 :> 0 @@ \hFE04 :> 2 @@ \hFE05 :> 0
             @@ \hFE06 :> 3 @@ \hFE07 :> 0 @@ CP :> 0 @@ CP + 1 :> \hFC @@ mem,
     special |-> MDL :> 0 @@ MDH :> 0 @@ SP :> \hFC00,
     f |-> [z |-> FALSE, n |-> FALSE, c |-> FALSE, v |-> FALSE],
     pc |-> 0, ext |-> [mode |-> "none", value |-> 0, left |-> 0], mark |-> NONE,
     wdt |-> 0, reload |-> 0, tx |-> <<>>]

Bit(b) == IF b THEN 1 ELSE 0
Holds(v, i) == (v \div 2^i) % 2 = 1
FromBits(P(_)) == MapThenSumSet(LAMBDA i : IF P(i) THEN 2^i ELSE 0, 0 .. 15)
And(a, b) == FromBits(LAMBDA i : Holds(a, i) /\ Holds(b, i))
Or(a, b) == FromBits(LAMBDA i : Holds(a, i) \/ Holds(b, i))
Xor(a, b) == FromBits(LAMBDA i : Holds(a, i) # Holds(b, i))
Masked(v, mask, data) == And(v, 255 - mask) + And(data, mask)
Signed(w, v) == IF Holds(v, w - 1) THEN v - 2^w ELSE v

-----------------------------------------------------------------------------
(* Memory, registers, special function registers                           *)

Byte(c, a) == IF a \in DOMAIN c.mem THEN c.mem[a] ELSE 0
Word(c, a) == Byte(c, a) + 256 * Byte(c, a + 1)
SetByte(c, a, v) == [c EXCEPT !.mem = (a :> v % 256) @@ @]
SetWord(c, a, v) == [c EXCEPT !.mem = (a :> v % 256) @@ (a + 1 :> (v \div 256) % 256) @@ @]

(* The general registers are a window of the memory at CP.                 *)
GprAddress(c, n) == (Word(c, CP) + 2 * n) % Segment
Gpr(c, n) == Word(c, GprAddress(c, n))
SetGpr(c, n, v) == SetWord(c, GprAddress(c, n), v)

(* RL0, RH0, RL1, ... are the halves of R0, R1, ...                        *)
ByteReg(c, k) == LET v == Gpr(c, k \div 2) IN IF k % 2 = 1 THEN v \div 256 ELSE v % 256
SetByteReg(c, k, v) ==
    LET old == Gpr(c, k \div 2)
    IN  SetGpr(c, k \div 2, IF k % 2 = 1 THEN (old % 256) + 256 * v ELSE 256 * (old \div 256) + v)

StackPointer(c) == c.special[SP]
Pushed(c, v) ==
    LET sp == (StackPointer(c) - 2) % Segment
    IN  SetWord([c EXCEPT !.special[SP] = sp], sp, v)
Top(c, k) == Word(c, (StackPointer(c) + 2 * k) % Segment)
Dropped(c, k) == [c EXCEPT !.special[SP] = (@ + 2 * k) % Segment]

(* Side effects of a write to a peripheral, _mock_write. WDTREL is taken   *)
(* from the value that is written, which for a byte has no high part.      *)
Noticed(c, a, v) ==
    CASE a \in DOMAIN Constants -> c
      [] a = S0TBUF ->
            LET d == [c EXCEPT !.tx = Append(@, v % 256)]
            IN  IF Holds(Byte(d, S0TIC), 7) THEN d ELSE SetByte(d, S0TIC, Byte(d, S0TIC) + 128)
      [] a = WDTCON -> [c EXCEPT !.reload = v \div 256]
      [] OTHER -> c

ReadPhysical(c, w, a) ==
    CASE w = 16 /\ a \in Separate -> c.special[a]
      [] a \in DOMAIN Constants -> Constants[a] % 2^w
      [] w = 16 /\ ~(a \in Separate \cup DOMAIN Constants) -> Word(c, a)
      [] w = 8 /\ ~(a \in DOMAIN Constants) -> Byte(c, a)

WritePhysical(c, w, a, v) ==
    CASE w = 16 /\ a \in Separate -> [c EXCEPT !.special[a] = v]
      [] w = 16 /\ ~(a \in Separate) -> SetWord(Noticed(c, a, v), a, v)
      [] w = 8 -> SetByte(Noticed(c, a, v), a, v)

(* A 16-bit address becomes physical by the window's page or segment, or   *)
(* by the page register that its top bits choose.                          *)
Translate(c, logical) ==
    CASE c.ext.mode \in {"extp", "extpr"} -> (c.ext.value % \h400) * \h4000 + (logical % \h4000)
      [] c.ext.mode \in {"exts", "extsr"} -> (c.ext.value % 256) * Segment + logical
      [] OTHER -> (Word(c, \hFE00 + 2 * (logical \div \h4000)) % \h400) * \h4000 + (logical % \h4000)

Extended(c) == c.ext.mode \in {"extr", "extsr", "extpr"}
FieldAddress(c, b) == (IF Extended(c) THEN \hF000 ELSE \hFE00) + 2 * b

(* The operands of the instruction forms.                                  *)
ReadAt(c, w, o) ==
    CASE o[1] = "imm" -> o[2]
      [] o[1] = "gpr" -> IF w = 16 THEN Gpr(c, o[2]) ELSE ByteReg(c, o[2])
      [] o[1] = "sfr" -> ReadPhysical(c, w, FieldAddress(c, o[2]))
      [] o[1] = "mem" -> ReadPhysical(c, w, Translate(c, o[2]))
      [] o[1] \in {"ind", "post", "pre"} -> ReadPhysical(c, w, Translate(c, Gpr(c, o[2])))
      [] o[1] = "off" -> ReadPhysical(c, w, Translate(c, (Gpr(c, o[2]) + o[3]) % Segment))

WriteAt(c, w, o, v) ==
    CASE o[1] = "gpr" -> IF w = 16 THEN SetGpr(c, o[2], v) ELSE SetByteReg(c, o[2], v)
      [] o[1] = "sfr" -> WritePhysical(c, w, FieldAddress(c, o[2]), v)
      [] o[1] = "mem" -> WritePhysical(c, w, Translate(c, o[2]), v)
      [] o[1] \in {"ind", "post", "pre"} -> WritePhysical(c, w, Translate(c, Gpr(c, o[2])), v)
      [] o[1] = "off" -> WritePhysical(c, w, Translate(c, (Gpr(c, o[2]) + o[3]) % Segment), v)

Before(c, w, o) ==
    IF o[1] = "pre" THEN SetGpr(c, o[2], (Gpr(c, o[2]) - w \div 8) % Segment) ELSE c
After(c, w, o) ==
    IF o[1] = "post" THEN SetGpr(c, o[2], (Gpr(c, o[2]) + w \div 8) % Segment) ELSE c

-----------------------------------------------------------------------------
(* Bits. The status bits are read from the flags, but written to the       *)
(* memory behind PSW.                                                      *)

BitWordAddress(c, qq) ==
    CASE qq < \h80 -> \hFD00 + 2 * qq
      [] qq >= \h80 /\ Extended(c) -> \hF100 + 2 * (qq % 128)
      [] qq >= \h80 /\ ~Extended(c) -> \hFF00 + 2 * (qq % 128)

PswWord(f) == Bit(f.n) + 2 * Bit(f.c) + 4 * Bit(f.v) + 8 * Bit(f.z)

BitWord(c, qq) ==
    CASE qq >= \hF0 -> Gpr(c, qq % 16)
      [] qq < \hF0 /\ BitWordAddress(c, qq) = PSW -> PswWord(c.f)
      [] OTHER -> Word(c, BitWordAddress(c, qq))

SetBitWord(c, qq, v) ==
    IF qq >= \hF0 THEN SetGpr(c, qq % 16, v) ELSE SetWord(c, BitWordAddress(c, qq), v)

BitAt(c, o) == Holds(BitWord(c, o[2]), o[3])
SetBitAt(c, o, b) ==
    SetBitWord(c, o[2], BitWord(c, o[2]) + (Bit(b) - Bit(BitAt(c, o))) * 2^o[3])

-----------------------------------------------------------------------------
(* Flags and results. Each operator gives the value v and the flags f.     *)

Flags(z, n, c, v) == [z |-> z, n |-> n, c |-> c, v |-> v]

AddResult(w, a, b) ==
    LET r == (a + b) % 2^w
    IN  [v |-> r, f |-> Flags(r = 0, Holds(r, w - 1), a + b >= 2^w,
             Holds(a, w - 1) = Holds(b, w - 1) /\ Holds(r, w - 1) # Holds(a, w - 1))]

SubResult(w, a, b) ==
    LET r == (a - b) % 2^w
    IN  [v |-> r, f |-> Flags(r = 0, Holds(r, w - 1), a < b,
             Holds(a, w - 1) # Holds(b, w - 1) /\ Holds(r, w - 1) # Holds(a, w - 1))]

(* With the carry of a lower part: Z says that both parts are zero.        *)
AddcResult(w, a, b, f) ==
    LET t == a + b + Bit(f.c)
        s == Signed(w, a) + Signed(w, b) + Bit(f.c)
    IN  [v |-> t % 2^w, f |-> Flags(t % 2^w = 0 /\ f.z, Holds(t % 2^w, w - 1), t >= 2^w,
                                   ~(-(2^(w - 1)) <= s /\ s < 2^(w - 1)))]

SubcResult(w, a, b, f) ==
    LET t == a - b - Bit(f.c)
        s == Signed(w, a) - Signed(w, b) - Bit(f.c)
    IN  [v |-> t % 2^w, f |-> Flags(t % 2^w = 0 /\ f.z, Holds(t % 2^w, w - 1), t < 0,
                                   ~(-(2^(w - 1)) <= s /\ s < 2^(w - 1)))]

LogicResult(v, f) == [v |-> v, f |-> [f EXCEPT !.z = v = 0]]

MovFlags(f, w, v) == [f EXCEPT !.z = v = 0, !.n = Holds(v, w - 1)]

AluResult(op, w, a, b, f) ==
    CASE op = "ADD" -> AddResult(w, a, b)
      [] op \in {"SUB", "CMP"} -> SubResult(w, a, b)
      [] op = "ADDC" -> AddcResult(w, a, b, f)
      [] op = "SUBC" -> SubcResult(w, a, b, f)
      [] op = "AND" -> LogicResult(And(a, b), f)
      [] op = "OR" -> LogicResult(Or(a, b), f)
      [] op = "XOR" -> LogicResult(Xor(a, b), f)

(* v is moved by k places; C is the last bit that left it, and the shifts  *)
(* to the right raise V when any bit that left was set.                    *)
ShiftResult(op, v, k) ==
    LET left == op \in {"SHL", "ROL"}
        r == CASE op = "SHL" -> (v * 2^k) % Segment
               [] op = "ROL" -> ((v * 2^k) % Segment) + v \div 2^(16 - k)
               [] op = "SHR" -> v \div 2^k
               [] op = "ASHR" -> (Signed(16, v) \div 2^k) % Segment
               [] op = "ROR" -> v \div 2^k + (v % 2^k) * 2^(16 - k)
    IN  [v |-> r,
         f |-> Flags(r = 0, Holds(r, 15), k > 0 /\ Holds(v, IF left THEN 16 - k ELSE k - 1),
                     ~left /\ v % 2^k # 0)]

(* The 32-bit product of two words, in two words.                          *)
Product(signed, a, b) ==
    LET low == (a % 256) * b
        upper == (a \div 256) * b
        middle == low + 256 * (upper % 256)
        correction == IF signed THEN (IF Holds(a, 15) THEN b ELSE 0) + (IF Holds(b, 15) THEN a ELSE 0)
                      ELSE 0
    IN  [lo |-> middle % Segment,
         hi |-> (upper \div 256 + middle \div Segment - correction) % Segment]

(* (hi, lo) by d, unsigned: the quotient in two words, and the rest.       *)
LongDivision(hi, lo, d) ==
    LET x == ((hi % d) * 256) + lo \div 256
        y == ((x % d) * 256) + (lo % 256)
    IN  [over |-> hi \div d, q |-> (x \div d) * 256 + y \div d, r |-> y % d]

(* DIV, DIVU, DIVL, DIVLU: towards zero, and V when the quotient is larger *)
(* than MDL.                                                               *)
Divided(c, op, divisor) ==
    LET signed == op \in {"DIV", "DIVL"}
        lo == c.special[MDL]
        hi == IF op \in {"DIVL", "DIVLU"} THEN c.special[MDH]
              ELSE IF signed /\ Holds(lo, 15) THEN Segment - 1 ELSE 0
        minus == signed /\ Holds(hi, 15)
        negative == minus # (signed /\ Holds(divisor, 15))
        d == IF signed /\ Holds(divisor, 15) THEN Segment - divisor ELSE divisor
        n == IF minus THEN LongDivision((Segment - 1 - hi + Bit(lo = 0)) % Segment, (-lo) % Segment, d)
             ELSE LongDivision(hi, lo, d)
        q == IF negative THEN (-n.q) % Segment ELSE n.q
        limit == CASE ~signed -> Segment - 1
                   [] signed /\ negative -> \h8000
                   [] signed /\ ~negative -> \h7FFF
    IN  IF divisor = 0 THEN [c EXCEPT !.f.v = TRUE, !.f.c = FALSE]
        ELSE [c EXCEPT !.special = MDL :> q @@ MDH :> (IF minus THEN -n.r ELSE n.r) % Segment @@ @,
                       !.f = Flags(q = 0, Holds(q, 15), FALSE, n.over > 0 \/ n.q > limit)]

Leading(v) == CHOOSE k \in 0 .. 15 : v \div 2^(15 - k) = 1

CcTrue(f, cc) ==
    CASE cc = 0 -> TRUE
      [] cc = 1 -> ~f.z                \* NET: the flag E is not kept
      [] cc = 2 -> f.z
      [] cc = 3 -> ~f.z
      [] cc = 4 -> f.v
      [] cc = 5 -> ~f.v
      [] cc = 6 -> f.n
      [] cc = 7 -> ~f.n
      [] cc = 8 -> f.c
      [] cc = 9 -> ~f.c
      [] cc = 10 -> ~(f.z \/ f.n # f.v)
      [] cc = 11 -> f.z \/ f.n # f.v
      [] cc = 12 -> f.n # f.v
      [] cc = 13 -> f.n = f.v
      [] cc = 14 -> ~(f.z \/ f.c)
      [] cc = 15 -> f.z \/ f.c

-----------------------------------------------------------------------------
(* Decoding, in the blocks of _step_inner. b is the sequence of the four   *)
(* bytes at pc; a block gives the set of forms that it reads them as.      *)

High(x) == x \div 16
Low(x) == x % 16
Wide(b) == b[3] + 256 * b[4]
Rel(x) == IF x >= 128 THEN x - 256 ELSE x

NoOperand == <<"none">>
G(n) == <<"gpr", n>>
R(x) == IF x >= \hF0 THEN G(Low(x)) ELSE <<"sfr", x>>
I(v) == <<"imm", v>>
M(b) == <<"mem", Wide(b)>>
Indirect(n) == <<"ind", n>>
Offset(n, b) == <<"off", n, Wide(b)>>

Form(op, w, dst, src, len) == {[op |-> op, w |-> w, dst |-> dst, src |-> src, len |-> len]}
Alu == <<"ADD", "ADDC", "SUB", "SUBC", "CMP", "XOR", "AND", "OR">>
AluName(x) == Alu[High(x) + 1]

Promoted(b) ==
    CASE b[1] = \hCC -> Form("NOP", 16, NoOperand, NoOperand, 2)
      [] Low(b[1]) = 13 -> Form("JMPR", 16, <<"cc", High(b[1])>>, <<"rel", Rel(b[2])>>, 2)
      [] b[1] \in {\h46, \h06, \h56, \h66, \h76} -> Form(AluName(b[1]), 16, R(b[2]), I(Wide(b)), 4)
      [] b[1] = \hA7 -> Form("SRVWDT", 16, NoOperand, NoOperand, 4)
      [] b[1] = \hB5 -> Form("EINIT", 16, NoOperand, NoOperand, 4)
      [] b[1] = \hB7 -> Form("SRST", 16, NoOperand, NoOperand, 4)
      [] b[1] = \hA5 -> Form("DISWDT", 16, NoOperand, NoOperand, 4)
      [] b[1] = \h5C -> Form("SHL", 16, G(Low(b[2])), I(High(b[2])), 2)
      [] b[1] = \h0A -> Form("BFLDL", 16, <<"bits", b[2]>>, <<"field", b[3], b[4]>>, 4)
      [] OTHER -> {}

WordMoves(b) ==
    CASE b[1] = \hF0 -> Form("MOV", 16, G(High(b[2])), G(Low(b[2])), 2)
      [] b[1] = \hE0 -> Form("MOV", 16, G(Low(b[2])), I(High(b[2])), 2)
      [] b[1] = \hC6 -> Form("SCXT", 16, R(b[2]), I(Wide(b)), 4)
      [] b[1] = \hE6 -> Form("MOV", 16, R(b[2]), I(Wide(b)), 4)
      [] b[1] = \hF2 -> Form("MOV", 16, R(b[2]), M(b), 4)
      [] b[1] = \hF6 -> Form("MOV", 16, M(b), R(b[2]), 4)
      [] OTHER -> {}

AddSub(b) ==
    CASE b[1] \in {\h00, \h10, \h20, \h30, \h40} ->
            Form(AluName(b[1]), 16, G(High(b[2])), G(Low(b[2])), 2)
      [] b[1] \in {\h11, \h31} -> Form(AluName(b[1]), 8, G(High(b[2])), G(Low(b[2])), 2)
      [] b[1] \in {\h13, \h33} -> Form(AluName(b[1]), 8, R(b[2]), M(b), 4)
      [] b[1] \in {\h15, \h35} -> Form(AluName(b[1]), 8, M(b), R(b[2]), 4)
      [] b[1] \in {\h16, \h26, \h36} -> Form(AluName(b[1]), 16, R(b[2]), I(Wide(b)), 4)
      [] b[1] = \h42 -> Form("CMP", 16, R(b[2]), M(b), 4)
      [] OTHER -> {}

(* A DIV whose register nibbles differ is refused (Trap).                  *)
MulDiv(b) ==
    CASE b[1] = \h0B -> Form("MUL", 16, G(High(b[2])), G(Low(b[2])), 2)
      [] b[1] = \h1B -> Form("MULU", 16, G(High(b[2])), G(Low(b[2])), 2)
      [] b[1] \in {\h4B, \h5B, \h6B, \h7B} /\ High(b[2]) = Low(b[2]) ->
            Form(<<"DIV", "DIVU", "DIVL", "DIVLU">>[High(b[1]) - 3], 16, G(Low(b[2])), NoOperand, 2)
      [] OTHER -> {}

ShiftForms(b) ==
    CASE b[1] \in {\h0C, \h2C, \h4C, \h6C, \hAC} ->
            Form((\h0C :> "ROL" @@ \h2C :> "ROR" @@ \h4C :> "SHL" @@ \h6C :> "SHR" @@ \hAC :> "ASHR")[b[1]],
                 16, G(High(b[2])), G(Low(b[2])), 2)
      [] b[1] \in {\h1C, \h3C, \h7C, \hBC} ->
            Form((\h1C :> "ROL" @@ \h3C :> "ROR" @@ \h7C :> "SHR" @@ \hBC :> "ASHR")[b[1]],
                 16, G(Low(b[2])), I(High(b[2])), 2)
      [] b[1] = \h2B -> Form("PRIOR", 16, G(High(b[2])), G(Low(b[2])), 2)
      [] OTHER -> {}

(* A NEG or CPL whose second byte has a low nibble is refused (Trap).      *)
LogicNegMem(b) ==
    CASE b[1] \in {\h50, \h60, \h70} -> Form(AluName(b[1]), 16, G(High(b[2])), G(Low(b[2])), 2)
      [] b[1] \in {\h81, \h91} /\ Low(b[2]) = 0 ->
            Form(IF b[1] = \h81 THEN "NEG" ELSE "CPL", 16, G(High(b[2])), NoOperand, 2)
      [] b[1] \in {\hA1, \hB1} /\ Low(b[2]) = 0 ->
            Form(IF b[1] = \hA1 THEN "NEG" ELSE "CPL", 8, G(High(b[2])), NoOperand, 2)
      [] b[1] \in {\h02, \h12, \h22, \h32, \h52, \h62, \h72} -> Form(AluName(b[1]), 16, R(b[2]), M(b), 4)
      [] b[1] \in {\h04, \h14, \h24, \h34, \h54, \h64, \h74} -> Form(AluName(b[1]), 16, M(b), R(b[2]), 4)
      [] OTHER -> {}

ByteForms(b) ==
    CASE b[1] = \hF1 -> Form("MOV", 8, G(High(b[2])), G(Low(b[2])), 2)
      [] b[1] = \hE1 -> Form("MOV", 8, G(Low(b[2])), I(High(b[2])), 2)
      [] b[1] = \hE7 -> Form("MOV", 8, R(b[2]), I(b[3]), 4)
      [] b[1] = \hF3 -> Form("MOV", 8, R(b[2]), M(b), 4)
      [] b[1] = \hF7 -> Form("MOV", 8, M(b), R(b[2]), 4)
      [] b[1] < \h80 /\ Low(b[1]) = 7 -> Form(AluName(b[1]), 8, R(b[2]), I(b[3]), 4)
      [] b[1] \in {\h01, \h21, \h41, \h61, \h71} -> Form(AluName(b[1]), 8, G(High(b[2])), G(Low(b[2])), 2)
      [] b[1] \in {\h03, \h23, \h43, \h63, \h73} -> Form(AluName(b[1]), 8, R(b[2]), M(b), 4)
      [] b[1] \in {\h05, \h25, \h65, \h75} -> Form(AluName(b[1]), 8, M(b), R(b[2]), 4)
      [] OTHER -> {}

(* The source is the upper nibble here, the destination the lower one.     *)
Widened(b) ==
    CASE b[1] \in {\hC0, \hD0} ->
            Form(IF b[1] = \hC0 THEN "MOVBZ" ELSE "MOVBS", 16, G(Low(b[2])), G(High(b[2])), 2)
      [] b[1] \in {\hC2, \hD2} -> Form(IF b[1] = \hC2 THEN "MOVBZ" ELSE "MOVBS", 16, R(b[2]), M(b), 4)
      [] b[1] \in {\hC5, \hD5} -> Form(IF b[1] = \hC5 THEN "MOVBZ" ELSE "MOVBS", 16, M(b), R(b[2]), 4)
      [] OTHER -> {}

Stack(b) ==
    CASE b[1] = \h1A -> Form("BFLDH", 16, <<"bits", b[2]>>, <<"field", b[4], b[3]>>, 4)
      [] b[1] = \hEC -> Form("PUSH", 16, R(b[2]), NoOperand, 2)
      [] b[1] = \hFC -> Form("POP", 16, R(b[2]), NoOperand, 2)
      [] OTHER -> {}

Branching(b) ==
    CASE b[1] = \hBB -> Form("CALLR", 16, NoOperand, <<"rel", Rel(b[2])>>, 2)
      [] b[1] = \hCB -> Form("RET", 16, NoOperand, NoOperand, 2)
      [] b[1] = \hEA -> Form("JMPA", 16, <<"cc", High(b[2])>>, <<"to", Wide(b)>>, 4)
      [] b[1] = \hE2 -> Form("PCALL", 16, R(b[2]), <<"to", Wide(b)>>, 4)
      [] b[1] = \hCA -> Form("CALLA", 16, <<"cc", High(b[2])>>, <<"to", Wide(b)>>, 4)
      [] b[1] = \h9C -> Form("JMPI", 16, <<"cc", High(b[2])>>, G(Low(b[2])), 2)
      [] b[1] = \hAB -> Form("CALLI", 16, <<"cc", High(b[2])>>, G(Low(b[2])), 2)
      [] b[1] = \hFA -> Form("JMPS", 16, NoOperand, <<"far", b[2], Wide(b)>>, 4)
      [] b[1] = \hDA -> Form("CALLS", 16, NoOperand, <<"far", b[2], Wide(b)>>, 4)
      [] b[1] = \hDB -> Form("RETS", 16, NoOperand, NoOperand, 2)
      [] b[1] = \h9B -> Form("TRAP", 16, NoOperand, I(b[2] % 128), 2)
      [] b[1] = \hFB -> Form("RETI", 16, NoOperand, NoOperand, 2)
      [] OTHER -> {}

Windows(b) ==
    LET mode == <<"exts", "extp", "extsr", "extpr">>[b[2] \div 64 + 1]
        count == ((b[2] \div 16) % 4) + 1
    IN  CASE b[1] = \hDC -> Form("EXT", 16, <<mode, count>>, G(Low(b[2])), 2)
          [] b[1] = \hD7 -> Form("EXT", 16, <<mode, count>>, I(b[3] + 256 * (b[4] % 4)), 4)
          [] b[1] = \hD1 /\ b[2] \div 64 = 0 -> Form("EXT", 16, <<"atomic", count>>, I(0), 2)
          [] b[1] = \hD1 /\ b[2] \div 64 = 2 -> Form("EXT", 16, <<"extr", count>>, I(0), 2)
          [] OTHER -> {}

BitJumps(b) ==
    CASE b[1] \in {\h8A, \h9A, \hAA, \hBA} ->
            Form(<<"JB", "JNB", "JBC", "JNBS">>[High(b[1]) - 7], 16,
                 <<"bit", b[2], High(b[4])>>, <<"rel", Rel(b[3])>>, 4)
      [] Low(b[1]) \in {14, 15} ->
            Form(IF Low(b[1]) = 14 THEN "BCLR" ELSE "BSET", 16, <<"bit", b[2], High(b[1])>>, NoOperand, 2)
      [] OTHER -> {}

IndirectAlu(b) ==
    LET low == Low(b[2])
        src == CASE low < 8 -> I(low)
                 [] low \in 8 .. 11 -> Indirect(low % 4)
                 [] low \in 12 .. 15 -> <<"post", low % 4>>
    IN  IF b[1] < \h80 /\ Low(b[1]) \in {8, 9}
        THEN Form(AluName(b[1]), IF Low(b[1]) = 8 THEN 16 ELSE 8, G(High(b[2])), src, 2)
        ELSE {}

(* The same layouts for words (x8, C4, D4) and for bytes (x9, E4, F4).     *)
IndirectMoves(b) ==
    LET n == High(b[2])
        m == Low(b[2])
        w == IF Low(b[1]) = 8 \/ b[1] \in {\hC4, \hD4} THEN 16 ELSE 8
    IN  CASE b[1] \in {\hA8, \hA9} -> Form("MOV", w, G(n), Indirect(m), 2)
          [] b[1] \in {\h98, \h99} -> Form("MOV", w, G(n), <<"post", m>>, 2)
          [] b[1] \in {\hB8, \hB9} -> Form("MOV", w, Indirect(m), G(n), 2)
          [] b[1] \in {\h88, \h89} -> Form("MOV", w, <<"pre", m>>, G(n), 2)
          [] b[1] \in {\hC8, \hC9} -> Form("MOV", w, Indirect(n), Indirect(m), 2)
          [] b[1] \in {\hD8, \hD9} -> Form("MOV", w, <<"post", n>>, Indirect(m), 2)
          [] b[1] \in {\hE8, \hE9} -> Form("MOV", w, Indirect(n), <<"post", m>>, 2)
          [] b[1] \in {\hD4, \hF4} -> Form("MOV", w, G(n), Offset(m, b), 4)
          [] b[1] \in {\hC4, \hE4} -> Form("MOV", w, Offset(m, b), G(n), 4)
          [] OTHER -> {}

BitLogic(b) ==
    IF b[1] \in {\h2A, \h3A, \h4A, \h5A, \h6A, \h7A}
    THEN Form(<<"BCMP", "BMOVN", "BMOV", "BOR", "BAND", "BXOR">>[High(b[1]) - 1], 16,
              <<"bit", b[3], Low(b[4])>>, <<"bit", b[2], High(b[4])>>, 4)
    ELSE {}

CompareSteps == <<"CMPI1", "CMPI2", "CMPD1", "CMPD2">>

CompareStep(b) ==
    CASE b[1] \in {\h80, \h90, \hA0, \hB0} ->
            Form(CompareSteps[High(b[1]) - 7], 16, G(Low(b[2])), I(High(b[2])), 2)
      [] b[1] \in {\h86, \h96, \hA6, \hB6} -> Form(CompareSteps[High(b[1]) - 7], 16, R(b[2]), I(Wide(b)), 4)
      [] b[1] \in {\h82, \h92, \hA2, \hB2} -> Form(CompareSteps[High(b[1]) - 7], 16, R(b[2]), M(b), 4)
      [] OTHER -> {}

MemoryIndirect(b) ==
    CASE b[1] \in {\h84, \hA4} -> Form("MOV", IF b[1] = \h84 THEN 16 ELSE 8, Indirect(Low(b[2])), M(b), 4)
      [] b[1] \in {\h94, \hB4} -> Form("MOV", IF b[1] = \h94 THEN 16 ELSE 8, M(b), Indirect(Low(b[2])), 4)
      [] OTHER -> {}

(* No two blocks read the same bytes, so the order of the blocks is free.  *)
Decode(b) ==
    UNION {Promoted(b), WordMoves(b), AddSub(b), MulDiv(b), ShiftForms(b), LogicNegMem(b),
           ByteForms(b), Widened(b), Stack(b), Branching(b), Windows(b), BitJumps(b),
           IndirectAlu(b), IndirectMoves(b), BitLogic(b), CompareStep(b), MemoryIndirect(b)}

Fetched(c) == [k \in 1 .. 4 |-> Byte(c, c.pc + k - 1)]
Instructions(c) == Decode(Fetched(c))       \* empty: Trap

-----------------------------------------------------------------------------
(* Execution. The operands are read and written in the order of the code:  *)
(* the register of a [-Rw] before, the one of a [Rw+] after the access.    *)

AluEffect(c, i) ==
    LET s == ReadAt(c, i.w, i.src)
        d == After(c, i.w, i.src)
        r == AluResult(i.op, i.w, ReadAt(d, i.w, i.dst), s, d.f)
    IN  [(IF i.op = "CMP" THEN d ELSE WriteAt(d, i.w, i.dst, r.v)) EXCEPT !.f = r.f]

MovEffect(c, i) ==
    LET d == Before(c, i.w, i.dst)
        v == ReadAt(d, i.w, i.src)
        e == [WriteAt(d, i.w, i.dst, v) EXCEPT !.f = MovFlags(@, i.w, v)]
    IN  After(After(e, i.w, i.dst), i.w, i.src)

WidenedEffect(c, i) ==
    LET v == ReadAt(c, 8, i.src)
        negative == i.op = "MOVBS" /\ Holds(v, 7)
    IN  [WriteAt(c, 16, i.dst, IF negative THEN v + \hFF00 ELSE v)
             EXCEPT !.f.z = v = 0, !.f.n = negative]

Results(c, i, r) == [WriteAt(c, i.w, i.dst, r.v) EXCEPT !.f = r.f]

ShiftEffect(c, i) ==
    Results(c, i, ShiftResult(i.op, ReadAt(c, 16, i.dst), ReadAt(c, 16, i.src) % 16))

UnaryEffect(c, i) ==
    LET a == ReadAt(c, i.w, i.dst)
        r == 2^i.w - 1 - a
    IN  Results(c, i, IF i.op = "NEG" THEN SubResult(i.w, 0, a)
                      ELSE [v |-> r, f |-> Flags(r = 0, Holds(r, i.w - 1), FALSE, FALSE)])

StepEffect(c, i) ==
    LET a == ReadAt(c, 16, i.dst)
        delta == CASE i.op = "CMPI1" -> 1 [] i.op = "CMPI2" -> 2 [] i.op = "CMPD1" -> -1 [] i.op = "CMPD2" -> -2
    IN  Results(c, i, [v |-> (a + delta) % Segment, f |-> SubResult(16, a, ReadAt(c, 16, i.src)).f])

MultiplyEffect(c, i) ==
    LET p == Product(i.op = "MUL", ReadAt(c, 16, i.dst), ReadAt(c, 16, i.src))
    IN  [c EXCEPT !.special = MDL :> p.lo @@ MDH :> p.hi @@ @, !.f.z = p.lo = 0 /\ p.hi = 0]

DivideEffect(c, i) == Divided(c, i.op, ReadAt(c, 16, i.dst))

PriorEffect(c, i) ==
    LET v == ReadAt(c, 16, i.src)
    IN  [WriteAt(c, 16, i.dst, IF v = 0 THEN 0 ELSE Leading(v)) EXCEPT !.f.z = v = 0]

FieldEffect(c, i) ==
    LET v == BitWord(c, i.dst[2])
        r == IF i.op = "BFLDL" THEN 256 * (v \div 256) + Masked(v % 256, i.src[2], i.src[3])
             ELSE 256 * Masked(v \div 256, i.src[2], i.src[3]) + (v % 256)
    IN  [SetBitWord(c, i.dst[2], r) EXCEPT !.f = Flags(r = 0, Holds(r, 15), FALSE, FALSE)]

BitMoveEffect(c, i) ==
    LET s == BitAt(c, i.src)
    IN  [SetBitAt(c, i.dst, IF i.op = "BMOV" THEN s ELSE ~s) EXCEPT !.f = Flags(~s, s, FALSE, FALSE)]

(* The flags are set before the bit is written, which PSW would show.      *)
BitLogicEffect(c, i) ==
    LET s == BitAt(c, i.src)
        t == BitAt(c, i.dst)
        d == [c EXCEPT !.f = Flags(~(s \/ t), s # t, s /\ t, s \/ t)]
    IN  CASE i.op = "BCMP" -> d
          [] i.op = "BAND" -> SetBitAt(d, i.dst, s /\ t)
          [] i.op = "BOR" -> SetBitAt(d, i.dst, s \/ t)
          [] i.op = "BXOR" -> SetBitAt(d, i.dst, s # t)

PushEffect(c, i) ==
    LET d == Dropped(c, -1)
    IN  SetWord(d, StackPointer(d), ReadAt(d, 16, i.dst))

PopEffect(c, i) ==
    [WriteAt(c, 16, i.dst, Top(c, 0)) EXCEPT !.special[SP] = (StackPointer(c) + 2) % Segment]

(* Fault: the new value is loaded before the old one is saved.             *)
ScxtEffectLoadsFirst(c, i) ==
    LET d == WriteAt(c, 16, i.dst, ReadAt(c, 16, i.src))
    IN  Pushed(d, ReadAt(d, 16, i.dst))

ScxtEffect(c, i) ==
    WriteAt(Pushed(c, ReadAt(c, 16, i.dst)), 16, i.dst, ReadAt(c, 16, i.src))

WindowEffect(c, i) ==
    [c EXCEPT !.ext = [mode |-> i.dst[1], value |-> ReadAt(c, 16, i.src), left |-> i.dst[2]]]

(* The instructions that go on with the next one.                          *)
Effect(c, i) ==
    CASE i.op \in {"ADD", "ADDC", "SUB", "SUBC", "CMP", "XOR", "AND", "OR"} -> AluEffect(c, i)
      [] i.op = "MOV" -> MovEffect(c, i)
      [] i.op \in {"MOVBZ", "MOVBS"} -> WidenedEffect(c, i)
      [] i.op \in {"SHL", "SHR", "ASHR", "ROL", "ROR"} -> ShiftEffect(c, i)
      [] i.op \in {"NEG", "CPL"} -> UnaryEffect(c, i)
      [] i.op \in {"CMPI1", "CMPI2", "CMPD1", "CMPD2"} -> StepEffect(c, i)
      [] i.op \in {"MUL", "MULU"} -> MultiplyEffect(c, i)
      [] i.op \in {"DIV", "DIVU", "DIVL", "DIVLU"} -> DivideEffect(c, i)
      [] i.op = "PRIOR" -> PriorEffect(c, i)
      [] i.op \in {"BFLDL", "BFLDH"} -> FieldEffect(c, i)
      [] i.op \in {"BMOV", "BMOVN"} -> BitMoveEffect(c, i)
      [] i.op \in {"BCMP", "BAND", "BOR", "BXOR"} -> BitLogicEffect(c, i)
      [] i.op \in {"BCLR", "BSET"} -> SetBitAt(c, i.dst, i.op = "BSET")
      [] i.op = "PUSH" -> PushEffect(c, i)
      [] i.op = "POP" -> PopEffect(c, i)
      [] i.op = "SCXT" -> ScxtEffect(c, i)
      [] i.op = "EXT" -> WindowEffect(c, i)
      [] i.op = "SRVWDT" -> [c EXCEPT !.wdt = 256 * c.reload]
      [] i.op \in {"NOP", "EINIT", "SRST", "DISWDT"} -> c

Csp(c) == c.pc \div Segment
Here(c, offset) == Csp(c) * Segment + offset
Following(c, i) == c.pc + i.len

(* A relative jump adds to the whole pc, the others stay in the segment.   *)
Target(c, i) ==
    CASE i.src[1] = "rel" -> Following(c, i) + 2 * i.src[2]
      [] i.src[1] = "to" -> Here(c, i.src[2])
      [] i.src[1] = "gpr" -> Here(c, Gpr(c, i.src[2]))
      [] i.src[1] = "far" -> i.src[2] * Segment + i.src[3]

Jumped(c, i) ==
    LET taken == CASE i.op \in {"JMPR", "JMPA", "JMPI", "CALLA", "CALLI"} -> CcTrue(c.f, i.dst[2])
                   [] i.op \in {"JB", "JBC"} -> BitAt(c, i.dst)
                   [] i.op \in {"JNB", "JNBS"} -> ~BitAt(c, i.dst)
                   [] i.op = "JMPS" -> TRUE
        d == CASE taken /\ i.op \in {"CALLA", "CALLI"} -> Pushed(c, Following(c, i) % Segment)
               [] taken /\ i.op \in {"JBC", "JNBS"} -> SetBitAt(c, i.dst, i.op = "JNBS")
               [] OTHER -> c
    IN  [d EXCEPT !.pc = IF taken THEN Target(c, i) ELSE Following(c, i)]

CallEffect(c, i) ==
    LET back == Following(c, i) % Segment
        v == ReadAt(c, 16, i.dst)
    IN  CASE i.op = "CALLR" -> [Pushed(c, back) EXCEPT !.pc = Here(c, Target(c, i) % Segment)]
          [] i.op = "CALLS" -> [Pushed(Pushed(c, Csp(c)), back) EXCEPT !.pc = Target(c, i)]
          [] i.op = "PCALL" -> [Pushed(Pushed(c, v), back)
                                    EXCEPT !.pc = Target(c, i), !.f = MovFlags(@, 16, v)]

(* _enter_trap: a trap, or an interrupt of the hardware.                   *)
Trapped(c, vector, back) ==
    [Pushed(Pushed(Pushed(c, PswWord(c.f)), Csp(c)), back % Segment) EXCEPT !.pc = vector]

Returned(c, i) ==
    LET d == Dropped(c, 3)
        psw == Top(c, 2)
        back == (Top(c, 1) % 256) * Segment + Top(c, 0)
    IN  CASE i.op = "RET" -> [Dropped(c, 1) EXCEPT !.pc = Here(c, Top(c, 0))]
          [] i.op = "RETS" -> [Dropped(c, 2) EXCEPT !.pc = back]
          [] i.op = "RETI" ->
                [d EXCEPT !.pc = back,
                          !.f = Flags(Holds(psw, 3), Holds(psw, 0), Holds(psw, 1), Holds(psw, 2)),
                          !.mark = IF @ <= StackPointer(d) THEN NONE ELSE @]

Step(c, i) ==
    CASE i.op \in {"JMPR", "JMPA", "JMPI", "JMPS", "CALLA", "CALLI", "JB", "JNB", "JBC", "JNBS"} -> Jumped(c, i)
      [] i.op \in {"CALLR", "CALLS", "PCALL"} -> CallEffect(c, i)
      [] i.op \in {"RET", "RETS", "RETI"} -> Returned(c, i)
      [] i.op = "TRAP" -> Trapped(c, 4 * i.src[2], Following(c, i))
      [] OTHER -> [Effect(c, i) EXCEPT !.pc = Following(c, i)]

(* One instruction; a window opened by it counts from the next one.        *)
Executed(c) ==
    LET i == CHOOSE j \in Instructions(c) : TRUE
        d == Step(c, i)
    IN  CASE i.op = "EXT" \/ c.ext.left = 0 -> d
          [] i.op # "EXT" /\ c.ext.left = 1 -> [d EXCEPT !.ext = [mode |-> "none", value |-> 0, left |-> 0]]
          [] i.op # "EXT" /\ c.ext.left > 1 -> [d EXCEPT !.ext.left = @ - 1]

(* _check_hw_timer_interrupt, when the compare value is reached.           *)
Interruptible(c) == c.mark = NONE /\ c.ext.left = 0
Interrupted(c, vector) == [Trapped(c, vector, c.pc) EXCEPT !.mark = StackPointer(c)]

=============================================================================
