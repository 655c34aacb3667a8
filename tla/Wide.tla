-------------------------------- MODULE Wide --------------------------------
(***************************************************************************)
(* How the compiler evaluates a 32-bit expression on a 16-bit CPU: as a    *)
(* Val32, a pair of words each of which is a register or a constant known  *)
(* at compile time (src/ir/ir_build.c), with the instructions that the     *)
(* code generator emits for every step (src/target/c167/codegen). A        *)
(* behaviour evaluates an expression operator by operator; exact is the    *)
(* value that C gives it, where the operators ReadAs and NarrowShift do    *)
(* not say that the code means another.                                    *)
(***************************************************************************)
EXTENDS Alu

CONSTANTS
    Literals,   \* integer constants of the source program
    Words16,    \* values of its 16-bit variables
    Words32     \* values of its 32-bit variables

ASSUME WideAssumption ==
    /\ Literals \subseteq Int
    /\ Words16 \subseteq Words
    /\ Words32 \subseteq Pairs

VARIABLES
    val,        \* the Val32 of the expression so far
    kind,       \* its type
    exact       \* the value meant, modulo 2^32

vars == <<val, kind, exact>>

Kinds32 == {"u32", "i32"}
IsSigned(k) == k \in {"i16", "i32"}

-----------------------------------------------------------------------------
(* Words and pairs of words: ir_build.c, Word and Val32.                   *)

Reg(w) == [known |-> FALSE, word |-> w]
Known(w) == [known |-> TRUE, word |-> w]
Is(x, c) == x.known /\ x.word = c

Pair(lo, hi) == [lo |-> lo, hi |-> hi, sext |-> FALSE]
ValueOf(v) == v.hi.word * WordMod + v.lo.word

Const32(c) ==
    LET p == c % PairMod
        lo == p % WordMod
        hi == p \div WordMod
    IN  [lo |-> Known(lo), hi |-> Known(hi), sext |-> hi = SignExtension(lo)]
IsConst(v) == v.lo.known /\ v.hi.known

SignExtended(x) == [x EXCEPT !.word = SignExtension(@)]
Widen16(x, signed) ==
    [lo |-> x, hi |-> IF signed THEN SignExtended(x) ELSE Known(0), sext |-> signed]

(* The word instruction of an operator.                                    *)
WordOp(op, a, b, signed) ==
    CASE op = "add" -> AddC(a, b, 0).res
      [] op = "sub" -> SubC(a, b, 0).res
      [] op = "mul" -> Product(a, b, signed).lo
      [] op \in {"and", "or", "xor"} -> BitsOp(op, a, b, WordBits)
      [] op = "shl" -> Shl(a, b)
      [] op = "shr" -> IF signed THEN Ashr(a, b) ELSE Shr(a, b)
      [] op = "div" -> Divided(0, a, b, FALSE).quotient
      [] op = "mod" -> Divided(0, a, b, FALSE).remainder

(* The operand that w_binop returns instead of emitting an instruction.    *)
Identity(op, x, y) ==
    CASE op \in {"add", "or", "xor"} /\ Is(x, 0) -> {y}
      [] op \in {"add", "or", "xor", "sub", "shl", "shr"} /\ Is(y, 0) -> {x}
      [] op \in {"shl", "shr"} /\ Is(x, 0) -> {x}
      [] op \in {"and", "mul"} /\ (Is(x, 0) \/ Is(y, 0)) -> {Known(0)}
      [] op = "and" /\ Is(x, WordMod - 1) -> {y}
      [] op = "and" /\ Is(y, WordMod - 1) -> {x}
      [] op = "mul" /\ Is(x, 1) -> {y}
      [] op = "mul" /\ Is(y, 1) -> {x}
      [] OTHER -> {}

BinOp(op, x, y, signed) ==
    LET w == WordOp(op, x.word, y.word, signed)
    IN  IF x.known /\ y.known THEN Known(w)
        ELSE IF Identity(op, x, y) # {} THEN CHOOSE z \in Identity(op, x, y) : TRUE
        ELSE Reg(w)

-----------------------------------------------------------------------------
(* The 32-bit operators: v32_addsub to v32_div.                            *)

(* Fault: the high words are added without the carry of the low ones.      *)
AddSubNoCarry(op, x, y) ==
    Pair(Reg(WordOp(op, x.lo.word, y.lo.word, FALSE)), Reg(WordOp(op, x.hi.word, y.hi.word, FALSE)))

AddSub(op, x, y) ==
    IF IsConst(x) /\ IsConst(y)
    THEN Const32(IF op = "add" THEN ValueOf(x) + ValueOf(y) ELSE ValueOf(x) - ValueOf(y))
    ELSE IF Is(y.lo, 0) \/ (op = "add" /\ Is(x.lo, 0))
    THEN Pair(BinOp(op, x.lo, y.lo, FALSE), BinOp(op, x.hi, y.hi, FALSE))
    ELSE LET Step(a, b, c) == IF op = "add" THEN AddC(a, b, c) ELSE SubC(a, b, c)
             low == Step(x.lo.word, y.lo.word, 0)
         IN  Pair(Reg(low.res), Reg(Step(x.hi.word, y.hi.word, low.c).res))

(* Fault: the result of a bit operator keeps the mark of its left operand. *)
BitOpKeepsSext(op, x, y) ==
    [lo |-> BinOp(op, x.lo, y.lo, FALSE), hi |-> BinOp(op, x.hi, y.hi, FALSE), sext |-> x.sext]

BitOp(op, x, y) == Pair(BinOp(op, x.lo, y.lo, FALSE), BinOp(op, x.hi, y.hi, FALSE))

(* One MUL or MULU when both operands are extended words of the same kind; *)
(* otherwise MULU and the two cross products of the high words.            *)
Mul(x, y) ==
    LET zeros == Is(x.hi, 0) /\ Is(y.hi, 0)
        signed == ~zeros /\ x.sext /\ y.sext
        p == Product(x.lo.word, y.lo.word, signed)
        cross1 == BinOp("mul", Reg(x.lo.word), y.hi, FALSE)
        cross2 == BinOp("mul", x.hi, Reg(y.lo.word), FALSE)
    IN  IF IsConst(x) /\ IsConst(y) THEN Const32(ValueOf(x) * ValueOf(y))
        ELSE IF zeros \/ signed THEN Pair(Reg(p.lo), Reg(p.hi))
        ELSE Pair(Reg(p.lo), BinOp("add", BinOp("add", Reg(p.hi), cross1, FALSE), cross2, FALSE))

ShiftWord(op, x, k, signed) == BinOp(op, x, Known(k), signed)

ShiftLeft(x, n) ==
    IF n >= WordBits
    THEN Pair(Known(0), ShiftWord("shl", x.lo, n - WordBits, FALSE))
    ELSE Pair(ShiftWord("shl", x.lo, n, FALSE),
              BinOp("or", ShiftWord("shl", x.hi, n, FALSE),
                          ShiftWord("shr", x.lo, WordBits - n, FALSE), FALSE))

ShiftRight(x, n, signed) ==
    IF n >= WordBits
    THEN Pair(ShiftWord("shr", x.hi, n - WordBits, signed),
              IF signed THEN SignExtended(x.hi) ELSE Known(0))
    ELSE Pair(BinOp("or", ShiftWord("shr", x.lo, n, FALSE),
                          ShiftWord("shl", x.hi, WordBits - n, FALSE), FALSE),
              ShiftWord("shr", x.hi, n, signed))

Shift(op, x, n, signed) ==
    IF n = 0 THEN x ELSE IF op = "shl" THEN ShiftLeft(x, n) ELSE ShiftRight(x, n, signed)

(* Any other divisor is an error of the compilation.                       *)
Divisible(d, signed) == Is(d.hi, 0) \/ (signed /\ d.sext)

Div(op, n, d, signed) ==
    LET q == Divided(n.hi.word, n.lo.word, d.lo.word, signed)
    IN  IF ~signed /\ Is(n.hi, 0) THEN Widen16(BinOp(op, n.lo, d.lo, FALSE), FALSE)
        ELSE Widen16(Reg(IF op = "div" THEN q.quotient ELSE q.remainder), signed)

Operate(op, x, y, signed) ==
    CASE op \in {"add", "sub"} -> AddSub(op, x, y)
      [] op \in {"and", "or", "xor"} -> BitOp(op, x, y)
      [] op = "mul" -> Mul(x, y)
      [] op \in {"div", "mod"} -> Div(op, x, y, signed)

Complemented(x) == [x EXCEPT !.word = WordMod - 1 - @]

(* IR_CMP32, or a comparison of words when both high words are zero;       *)
(* > and <= come with their operands exchanged.                            *)
LessThan(x, y, signed) ==
    LET low == SubC(x.lo.word, y.lo.word, 0)
        high == SubC(x.hi.word, y.hi.word, low.c)
    IN  IF Is(x.hi, 0) /\ Is(y.hi, 0) THEN low.c = 1
        ELSE IF signed THEN high.n # high.v ELSE high.c = 1

Compare(op, x, y, signed) ==
    CASE op = "eq" -> x.lo.word = y.lo.word /\ x.hi.word = y.hi.word
      [] op = "lt" -> LessThan(x, y, signed)
      [] op = "gt" -> LessThan(y, x, signed)
      [] op = "le" -> ~LessThan(y, x, signed)
      [] op = "ge" -> ~LessThan(x, y, signed)

-----------------------------------------------------------------------------
(* Operands, and what C says of them.                                      *)

Operand(k, v, e) == [kind |-> k, val |-> v, exact |-> e]

Literal(c) ==
    LET m == Magnitude(c)
        k == IF m >= PairMod \div 2 THEN "u32" ELSE IF m >= WordMod THEN "i32" ELSE "u16"
    IN  Operand(k, Const32(c), c % PairMod)
Variable16(k, w) ==
    Operand(k, Widen16(Reg(w), IsSigned(k)), (IF IsSigned(k) THEN SignedWord(w) ELSE w) % PairMod)
Variable32(k, p) == Operand(k, Pair(Reg(p % WordMod), Reg(p \div WordMod)), p)

Operands16 ==
    { Literal(c) : c \in { c \in Literals : -SignBit <= c /\ c < WordMod } }
        \cup { Variable16(k, w) : k \in {"u16", "i16"}, w \in Words16 }
Operands ==
    { Literal(c) : c \in Literals } \cup Operands16
        \cup { Variable32(k, p) : k \in Kinds32, p \in Words32 }

ResultKind(j, k) ==
    IF "u32" \in {j, k} THEN "u32" ELSE IF "i32" \in {j, k} THEN "i32" ELSE "u16"

Number(p, signed) == IF signed THEN SignedPair(p) ELSE p

Reference(op, x, y, signed) ==
    CASE op = "add" -> (x + y) % PairMod
      [] op = "sub" -> (x - y) % PairMod
      [] op = "mul" -> (x * y) % PairMod
      [] op = "div" -> Quotient(Number(x, signed), Number(y, signed)) % PairMod
      [] op = "mod" -> Remainder(Number(x, signed), Number(y, signed)) % PairMod
      [] op \in {"and", "or", "xor"} -> BitsOp(op, x, y, 2 * WordBits)
      [] op = "shl" -> (x * 2^y) % PairMod
      [] op = "shr" -> (Number(x, signed) \div 2^y) % PairMod

ReferenceCompare(op, x, y, signed) ==
    CASE op = "eq" -> x = y
      [] op = "lt" -> Number(x, signed) < Number(y, signed)
      [] op = "gt" -> Number(x, signed) > Number(y, signed)
      [] op = "le" -> Number(x, signed) <= Number(y, signed)
      [] op = "ge" -> Number(x, signed) >= Number(y, signed)

(* A quotient of more than a word is not detected, as on the hardware.     *)
Defined(x, y, signed) ==
    /\ y # 0
    /\ LET q == Quotient(Number(x, signed), Number(y, signed))
       IN  IF signed THEN -SignBit <= q /\ q < SignBit ELSE q < WordMod

(* A division and a narrow form take a word for their operand, and the     *)
(* processor reads it with the sign of the type k of the expression: a     *)
(* uint16_t of 0x8000 or more as a negative divisor of an int32_t, a       *)
(* negative int16_t as a large one of a uint32_t, where C keeps the value. *)
ReadAs(k, e) == IF IsSigned(k) THEN SignedWord(e % WordMod) % PairMod ELSE e % WordMod

(* variable >> n: for n beyond a word the low word of the result is the    *)
(* high word shifted without its sign, in a signed variable too, where C   *)
(* as the compiler defines it elsewhere would repeat the sign.             *)
NarrowShift(k, e, n) ==
    IF n <= WordBits \/ ~IsSigned(k) \/ e < PairMod \div 2 THEN Reference("shr", e, n, IsSigned(k))
    ELSE (WordMod - 1) * WordMod + e \div 2^n

-----------------------------------------------------------------------------
(* A statement starts from nothing.                                        *)
Init == val = Const32(0) /\ kind = "u16" /\ exact = 0
Fresh == val = Const32(0) /\ kind = "u16"

Begin(x) ==
    /\ Fresh
    /\ val' = x.val /\ kind' = x.kind /\ exact' = x.exact

(* gen_expr32_inner, a binary operator between 32-bit operands, or one of  *)
(* them and a 16-bit operand, which is widened.                            *)
Binary(op, x, y) ==
    LET signed == IsSigned(kind')
        right == IF op \in {"div", "mod"} THEN ReadAs(kind', y.exact) ELSE y.exact
    IN  /\ kind' = ResultKind(x.kind, y.kind)
        /\ kind' \in Kinds32
        /\ op \in {"div", "mod"} => Divisible(y.val, signed) /\ Defined(x.exact, right, signed)
        /\ val' = Operate(op, x.val, y.val, signed)
        /\ exact' = Reference(op, x.exact, right, signed)

(* gen_cmp32: a comparison is a 16-bit value, 0 or 1.                      *)
Comparison(op, x, y) ==
    LET k == ResultKind(x.kind, y.kind)
    IN  /\ k \in Kinds32
        /\ kind' = "u16"
        /\ val' = Widen16(Reg(Bit(Compare(op, x.val, y.val, IsSigned(k)))), FALSE)
        /\ exact' = Bit(ReferenceCompare(op, x.exact, y.exact, IsSigned(k)))

Current == Operand(kind, val, exact)
Operators == {"add", "sub", "mul", "div", "mod", "and", "or", "xor"}
Comparisons == {"eq", "lt", "gt", "le", "ge"}

Apply(op, x) == Binary(op, Current, x) \/ Binary(op, x, Current)
CompareWith(op, x) == Comparison(op, Current, x) \/ Comparison(op, x, Current)

ShiftBy(op, n) ==
    /\ kind \in Kinds32
    /\ val' = Shift(op, val, n, IsSigned(kind))
    /\ exact' = Reference(op, exact, n, IsSigned(kind))
    /\ UNCHANGED kind

Negate ==
    /\ kind \in Kinds32
    /\ val' = AddSub("sub", Const32(0), val)
    /\ exact' = (-exact) % PairMod
    /\ UNCHANGED kind

Complement ==
    /\ kind \in Kinds32
    /\ val' = Pair(Complemented(val.lo), Complemented(val.hi))
    /\ exact' = PairMod - 1 - exact
    /\ UNCHANGED kind

(* A cast to a 32-bit type changes no word; a 16-bit operand has been      *)
(* widened by its own sign.                                                *)
Cast(k) == kind' = k /\ UNCHANGED <<val, exact>>

-----------------------------------------------------------------------------
(* The narrow forms, tried before the general lowering where an operand is *)
(* a 32-bit variable; the value so far has been stored in that variable.   *)

ShiftedLow(lo, hi, n) ==
    IF n = WordBits THEN hi
    ELSE IF n < WordBits THEN AddC(Shl(hi, WordBits - n), Shr(lo, n), 0).res
    ELSE Shr(hi, n - WordBits)

(* variable >> n, try_gen_shr32_sym; IR_SHR32_SYM computes the low word.   *)
ShiftVariable(k, n) ==
    LET hi == Reg(val.hi.word)
        signed == IsSigned(k)
    IN  /\ kind' = k
        /\ val' = Pair(Reg(ShiftedLow(val.lo.word, hi.word, n)),
                       IF n < WordBits THEN ShiftWord("shr", hi, n, signed)
                       ELSE IF signed THEN SignExtended(hi) ELSE Known(0))
        /\ exact' = NarrowShift(k, exact, n)

Part(op, d) == IF op = "div" THEN d.quotient ELSE d.remainder

(* variable / x and variable % x, try_gen_div32_sym.                       *)
DivideVariable(op, k, x) ==
    /\ Defined(exact, ReadAs(k, x.exact), IsSigned(k))
    /\ kind' = k
    /\ val' = Widen16(Reg(Part(op, Divided(val.hi.word, val.lo.word, x.val.lo.word, IsSigned(k)))),
                      IsSigned(k))
    /\ exact' = Reference(op, exact, ReadAs(k, x.exact), IsSigned(k))

(* ((k)x * y) / z, try_gen_div32_mul: the product stays in MDH:MDL.        *)
DivideProduct(op, k, x, y, z) ==
    LET product == (ReadAs(k, x.exact) * ReadAs(k, y.exact)) % PairMod
        md == Product(x.val.lo.word, y.val.lo.word, IsSigned(k))
    IN  /\ Fresh
        /\ Defined(product, ReadAs(k, z.exact), IsSigned(k))
        /\ kind' = k
        /\ val' = Widen16(Reg(Part(op, Divided(md.hi, md.lo, z.val.lo.word, IsSigned(k)))), IsSigned(k))
        /\ exact' = Reference(op, product, ReadAs(k, z.exact), IsSigned(k))

(* variable = x * y, try_gen_widening_mul_store_sym.                       *)
StoreProduct(k, x, y) ==
    LET md == Product(x.val.lo.word, y.val.lo.word, IsSigned(k))
    IN  /\ Fresh
        /\ kind' = k
        /\ val' = Pair(Reg(md.lo), Reg(md.hi))
        /\ exact' = (ReadAs(k, x.exact) * ReadAs(k, y.exact)) % PairMod

(* variable = ((uint32_t)x << 16) | y, try_gen_compose32_store_sym.        *)
StoreComposed(k, x, y) ==
    /\ Fresh
    /\ kind' = k
    /\ val' = Pair(Reg(y.val.lo.word), Reg(x.val.lo.word))
    /\ exact' = Reference("or", (x.exact * WordMod) % PairMod, ReadAs("u32", y.exact), FALSE)

NarrowForm ==
    \/ \E k \in Kinds32, n \in 1 .. 2 * WordBits - 1 : ShiftVariable(k, n)
    \/ \E op \in {"div", "mod"}, k \in Kinds32, x \in Operands16 : DivideVariable(op, k, x)
    \/ \E op \in {"div", "mod"}, k \in Kinds32, x, y, z \in Operands16 : DivideProduct(op, k, x, y, z)
    \/ \E k \in Kinds32, x, y \in Operands16 : StoreProduct(k, x, y)
    \/ \E k \in Kinds32, x, y \in Operands16 : StoreComposed(k, x, y)

Next ==
    \/ \E x \in Operands : Begin(x)
    \/ \E op \in Operators, x \in Operands : Apply(op, x)
    \/ \E op \in Comparisons, x \in Operands : CompareWith(op, x)
    \/ \E op \in {"shl", "shr"}, n \in 0 .. 2 * WordBits - 1 : ShiftBy(op, n)
    \/ Negate
    \/ Complement
    \/ \E k \in Kinds32 : Cast(k)
    \/ NarrowForm

Spec == Init /\ [][Next]_vars

-----------------------------------------------------------------------------
(* However an expression is built from operands of 16 and 32 bits, with    *)
(* every operator and every narrow form, the pair of words that the        *)
(* compiled code computes is the value of C, whichever words happen to be  *)
(* known and dropped: all of C for + - * << >> & | ^ ~ and comparisons;    *)
(* with the divisor, and the operands of a narrow form, as ReadAs takes    *)
(* them; and >> of a variable beyond a word as NarrowShift does.           *)
Exact == ValueOf(val) = exact

(* A multiplication or a division trusts the mark of a pair that its high  *)
(* word repeats the sign of the low one: the mark is never stale.          *)
SextIsTrue == val.sext => val.hi.word = SignExtension(val.lo.word)
=============================================================================
