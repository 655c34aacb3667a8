-------------------------------- MODULE Alu --------------------------------
(***************************************************************************)
(* The arithmetic of the simulated C167 (simulador/c166sim.py) that the    *)
(* 32-bit code of the compiler relies on: results and the flags C, N and V *)
(* of the word instructions, for words of any width.                       *)
(***************************************************************************)
EXTENDS Integers, FiniteSetsExt

CONSTANTS
    WordBits,   \* bits of a word (16 in the C167)
    SignBit     \* the value of its most significant bit

ASSUME AluAssumption ==
    /\ WordBits \in Nat \ {0}
    /\ SignBit \in Nat \ {0}
    /\ SignBit = 2^(WordBits - 1)

WordMod == 2 * SignBit
PairMod == WordMod * WordMod
Words == 0 .. WordMod - 1
Pairs == 0 .. PairMod - 1

Bit(c) == IF c THEN 1 ELSE 0

(* The integer that a word, or a pair of words, stands for in two's        *)
(* complement.                                                             *)
SignedWord(w) == IF w >= SignBit THEN w - WordMod ELSE w
SignedPair(p) == IF p >= PairMod \div 2 THEN p - PairMod ELSE p

SignExtension(w) == IF w >= SignBit THEN WordMod - 1 ELSE 0

(* ADD and SUB are the operations with no carry in. A flag is 0 or 1.      *)
AddC(a, b, carry) ==
    [res |-> (a + b + carry) % WordMod, c |-> Bit(a + b + carry >= WordMod)]

(* CMP keeps only the flags; N # V is the condition cc_SLT.                *)
SubC(a, b, borrow) ==
    LET res == (a - b - borrow) % WordMod
        s == SignedWord(a) - SignedWord(b) - borrow
    IN  [res |-> res,
         c |-> Bit(a - b - borrow < 0),
         n |-> Bit(res >= SignBit),
         v |-> Bit(s < -SignBit \/ s >= SignBit)]

Holds(w, i) == (w \div 2^i) % 2 = 1
FromBits(P(_), n) == MapThenSumSet(LAMBDA i : IF P(i) THEN 2^i ELSE 0, 0 .. n - 1)
BitsOp(op, a, b, n) ==
    CASE op = "and" -> FromBits(LAMBDA i : Holds(a, i) /\ Holds(b, i), n)
      [] op = "or"  -> FromBits(LAMBDA i : Holds(a, i) \/ Holds(b, i), n)
      [] op = "xor" -> FromBits(LAMBDA i : Holds(a, i) # Holds(b, i), n)

Shl(a, k) == (a * 2^k) % WordMod
Shr(a, k) == a \div 2^k
Ashr(a, k) == (SignedWord(a) \div 2^k) % WordMod

(* MUL and MULU leave the product in MDH:MDL.                              *)
Product(a, b, signed) ==
    LET p == (IF signed THEN SignedWord(a) * SignedWord(b) ELSE a * b) % PairMod
    IN  [lo |-> p % WordMod, hi |-> p \div WordMod]

(* Division truncates towards zero; the remainder has the dividend's sign. *)
Magnitude(n) == IF n < 0 THEN -n ELSE n
Quotient(n, d) ==
    LET q == Magnitude(n) \div Magnitude(d) IN IF (n < 0) # (d < 0) THEN -q ELSE q
Remainder(n, d) == n - Quotient(n, d) * d

(* DIVL and DIVLU divide MDH:MDL by a word: the quotient's low word goes   *)
(* to MDL, the remainder to MDH; only the flag V tells that it overflowed. *)
Divided(hi, lo, d, signed) ==
    LET p == hi * WordMod + lo
        n == IF signed THEN SignedPair(p) ELSE p
        m == IF signed THEN SignedWord(d) ELSE d
    IN  [quotient |-> Quotient(n, m) % WordMod, remainder |-> Remainder(n, m) % WordMod]
=============================================================================
