----------------------------- MODULE WideProofs -----------------------------
(***************************************************************************)
(* The 32-bit expressions of Wide for words of any width: the mark of sign *)
(* extension is never stale, and every operator and every narrow form      *)
(* computes the value that is meant.                                       *)
(***************************************************************************)
EXTENDS Wide, MathLemmas

-----------------------------------------------------------------------------
(* The mark of sign extension.                                             *)

MarkIsTrue(v) == v.sext => v.hi.word = SignExtension(v.lo.word)

LEMMA MarkOfConst == ASSUME NEW c PROVE MarkIsTrue(Const32(c))
  BY DEF MarkIsTrue, Const32, Known

LEMMA MarkOfPair == ASSUME NEW x, NEW y PROVE MarkIsTrue(Pair(x, y))
  BY DEF MarkIsTrue, Pair

LEMMA MarkOfWidened == ASSUME NEW w, NEW s \in BOOLEAN PROVE MarkIsTrue(Widen16(Reg(w), s))
  BY DEF MarkIsTrue, Widen16, Reg, SignExtended

LEMMA MarkOfZeroExtended == ASSUME NEW x PROVE MarkIsTrue(Widen16(x, FALSE))
  BY DEF MarkIsTrue, Widen16

LEMMA MarkOfOperand == ASSUME NEW x \in Operands PROVE MarkIsTrue(x.val)
<1>1. \A c : MarkIsTrue(Literal(c).val)
  BY MarkOfConst DEF Literal, Operand
<1>2. \A k, w : MarkIsTrue(Variable16(k, w).val)
  <2> SUFFICES ASSUME NEW k, NEW w PROVE MarkIsTrue(Variable16(k, w).val)
    OBVIOUS
  <2>1. IsSigned(k) \in BOOLEAN
    BY DEF IsSigned
  <2>2. QED
    BY <2>1, MarkOfWidened DEF Variable16, Operand
<1>3. \A k, p : MarkIsTrue(Variable32(k, p).val)
  BY MarkOfPair DEF Variable32, Operand
<1>4. QED
  BY <1>1, <1>2, <1>3 DEF Operands, Operands16

LEMMA MarkOfResult ==
  ASSUME NEW op \in Operators, NEW x, NEW y, NEW s \in BOOLEAN
  PROVE  MarkIsTrue(Operate(op, x, y, s))
<1>1. CASE op \in {"add", "sub"}
  <2>1. MarkIsTrue(AddSub(op, x, y))
    BY MarkOfConst, MarkOfPair DEF AddSub
  <2>2. QED
    BY <1>1, <2>1 DEF Operate
<1>2. CASE op \in {"and", "or", "xor"}
  <2>1. MarkIsTrue(BitOp(op, x, y))
    BY MarkOfPair DEF BitOp
  <2>2. QED
    BY <1>2, <2>1 DEF Operate
<1>3. CASE op = "mul"
  <2>1. MarkIsTrue(Mul(x, y))
    BY MarkOfConst, MarkOfPair DEF Mul
  <2>2. QED
    BY <1>3, <2>1 DEF Operate
<1>4. CASE op \in {"div", "mod"}
  <2>1. MarkIsTrue(Div(op, x, y, s))
    BY MarkOfWidened, MarkOfZeroExtended DEF Div
  <2>2. QED
    BY <1>4, <2>1 DEF Operate
<1>5. QED
  BY <1>1, <1>2, <1>3, <1>4 DEF Operators

LEMMA MarkOfShifted ==
  ASSUME NEW op, NEW x, NEW n, NEW s, MarkIsTrue(x)
  PROVE  MarkIsTrue(Shift(op, x, n, s))
  BY MarkOfPair DEF Shift, ShiftLeft, ShiftRight

(* A multiplication takes MUL, and a division accepts its divisor, by the  *)
(* mark: no operator leaves it on a pair whose high word is something else.*)
THEOREM MarkIsNeverStale == Spec => []SextIsTrue
<1>1. Init => SextIsTrue
  BY MarkOfConst DEF Init, SextIsTrue, MarkIsTrue
<1>2. SextIsTrue /\ [Next]_vars => SextIsTrue'
  <2> SUFFICES ASSUME SextIsTrue, [Next]_vars PROVE MarkIsTrue(val')
    BY DEF SextIsTrue, MarkIsTrue
  <2>0. MarkIsTrue(val)
    BY DEF SextIsTrue, MarkIsTrue
  <2>s. \A k : IsSigned(k) \in BOOLEAN
    BY DEF IsSigned
  <2>1. ASSUME NEW x \in Operands, Begin(x) PROVE MarkIsTrue(val')
    BY <2>1, MarkOfOperand DEF Begin
  <2>2. ASSUME NEW op \in Operators, NEW x \in Operands, Apply(op, x) PROVE MarkIsTrue(val')
    <3>1. \A y, z : Binary(op, y, z) => MarkIsTrue(val')
      BY <2>s, MarkOfResult DEF Binary
    <3>2. QED
      BY <2>2, <3>1 DEF Apply
  <2>3. ASSUME NEW op \in Comparisons, NEW x \in Operands, CompareWith(op, x) PROVE MarkIsTrue(val')
    <3>1. \A y, z : Comparison(op, y, z) => MarkIsTrue(val')
      BY MarkOfZeroExtended DEF Comparison
    <3>2. QED
      BY <2>3, <3>1 DEF CompareWith
  <2>4. ASSUME NEW op, NEW n, ShiftBy(op, n) PROVE MarkIsTrue(val')
    BY <2>0, <2>4, MarkOfShifted DEF ShiftBy
  <2>5. CASE Negate
    <3>1. \A x, y : MarkIsTrue(AddSub("sub", x, y))
      BY MarkOfConst, MarkOfPair DEF AddSub
    <3>2. QED
      BY <2>5, <3>1 DEF Negate
  <2>6. CASE Complement
    BY <2>6, MarkOfPair DEF Complement
  <2>7. ASSUME NEW k, Cast(k) PROVE MarkIsTrue(val')
    BY <2>0, <2>7 DEF Cast
  <2>8. CASE NarrowForm
    <3>1. ASSUME NEW k, NEW n, ShiftVariable(k, n) PROVE MarkIsTrue(val')
      BY <3>1, MarkOfPair DEF ShiftVariable
    <3>2. ASSUME NEW op, NEW k, NEW x, DivideVariable(op, k, x) PROVE MarkIsTrue(val')
      BY <2>s, <3>2, MarkOfWidened DEF DivideVariable
    <3>3. ASSUME NEW op, NEW k, NEW x, NEW y, NEW z, DivideProduct(op, k, x, y, z)
          PROVE  MarkIsTrue(val')
      BY <2>s, <3>3, MarkOfWidened DEF DivideProduct
    <3>4. ASSUME NEW k, NEW x, NEW y, StoreProduct(k, x, y) PROVE MarkIsTrue(val')
      BY <3>4, MarkOfPair DEF StoreProduct
    <3>5. ASSUME NEW k, NEW x, NEW y, StoreComposed(k, x, y) PROVE MarkIsTrue(val')
      BY <3>5, MarkOfPair DEF StoreComposed
    <3>6. QED
      BY <2>8, <3>1, <3>2, <3>3, <3>4, <3>5 DEF NarrowForm
  <2>9. CASE UNCHANGED vars
    BY <2>0, <2>9 DEF vars
  <2>10. QED
    BY <2>1, <2>2, <2>3, <2>4, <2>5, <2>6, <2>7, <2>8, <2>9 DEF Next
<1>3. QED
  BY <1>1, <1>2, PTL DEF Spec

-----------------------------------------------------------------------------
(* Carry and borrow.                                                       *)

LEMMA WordModPositive == SignBit \in Nat \ {0} /\ WordMod = 2 * SignBit /\ WordMod \in Nat \ {0}
  BY AluAssumption DEF WordMod

LEMMA AddWords ==
  ASSUME NEW a \in Words, NEW b \in Words, NEW c \in {0, 1}
  PROVE  /\ AddC(a, b, c).res \in Words
         /\ AddC(a, b, c).c \in {0, 1}
         /\ AddC(a, b, c).res = (a + b + c) - AddC(a, b, c).c * WordMod
<1> DEFINE n == a + b + c
<1>1. n \in Int /\ 0 <= n /\ n < 2 * WordMod
  BY WordModPositive DEF Words
<1>2. n % WordMod = IF n < WordMod THEN n ELSE n - WordMod
  BY <1>1, WrapsOnce, WordModPositive
<1>3. AddC(a, b, c).res = n % WordMod /\ AddC(a, b, c).c = IF n >= WordMod THEN 1 ELSE 0
  BY DEF AddC, Bit
<1> HIDE DEF n
<1>4. /\ AddC(a, b, c).res \in Words
      /\ AddC(a, b, c).c \in {0, 1}
      /\ AddC(a, b, c).res = n - AddC(a, b, c).c * WordMod
  BY <1>1, <1>2, <1>3, WordModPositive DEF Words
<1>5. QED
  BY <1>4 DEF n

LEMMA SubtractWords ==
  ASSUME NEW a \in Words, NEW b \in Words, NEW c \in {0, 1}
  PROVE  /\ SubC(a, b, c).res \in Words
         /\ SubC(a, b, c).c \in {0, 1}
         /\ SubC(a, b, c).res = a - b - c + SubC(a, b, c).c * WordMod
<1> DEFINE n == a - b - c
<1>1. n \in Int /\ -WordMod <= n /\ n < WordMod
  BY WordModPositive DEF Words
<1>2. n % WordMod = IF n < 0 THEN n + WordMod ELSE n
  BY <1>1, WrapsOnce, WordModPositive
<1>3. SubC(a, b, c).res = n % WordMod /\ SubC(a, b, c).c = IF n < 0 THEN 1 ELSE 0
  BY DEF SubC, Bit
<1> HIDE DEF n
<1>4. /\ SubC(a, b, c).res \in Words
      /\ SubC(a, b, c).c \in {0, 1}
      /\ SubC(a, b, c).res = n + SubC(a, b, c).c * WordMod
  BY <1>1, <1>2, <1>3, WordModPositive DEF Words
<1>5. QED
  BY <1>4 DEF n

(* The condition cc_SLT: N and V differ exactly when the difference with   *)
(* borrow of the signed words is negative.                                 *)
LEMMA SignedBorrow ==
  ASSUME NEW a \in Words, NEW b \in Words, NEW c \in {0, 1}
  PROVE  SubC(a, b, c).n # SubC(a, b, c).v <=> SignedWord(a) - SignedWord(b) - c < 0
<1> DEFINE s == SignedWord(a) - SignedWord(b) - c
           res == SubC(a, b, c).res
<1>1. /\ SubC(a, b, c).n = IF res >= SignBit THEN 1 ELSE 0
      /\ SubC(a, b, c).v = IF s < -SignBit \/ s >= SignBit THEN 1 ELSE 0
  BY DEF SubC, Bit
<1>2. res \in Words /\ SubC(a, b, c).c \in {0, 1} /\ res = a - b - c + SubC(a, b, c).c * WordMod
  BY SubtractWords
<1>3. /\ SignedWord(a) \in -SignBit .. SignBit - 1
      /\ SignedWord(b) \in -SignBit .. SignBit - 1
      /\ SignedWord(a) = a \/ SignedWord(a) = a - 2 * SignBit
      /\ SignedWord(b) = b \/ SignedWord(b) = b - 2 * SignBit
  BY WordModPositive DEF SignedWord, Words
<1> HIDE DEF res
<1>4. /\ s \in Int /\ -2 * SignBit <= s /\ s < 2 * SignBit
      /\ res \in Int /\ 0 <= res /\ res < 2 * SignBit
  BY <1>2, <1>3, WordModPositive DEF Words
<1>5. res = s \/ res = s + 2 * SignBit \/ res = s - 2 * SignBit
  <2>1. \E k \in -2 .. 2 : res = s + k * (2 * SignBit)
    BY <1>2, <1>3, WordModPositive DEF Words
  <2>2. QED
    BY <2>1, <1>4, WordModPositive
<1> HIDE DEF s
<1>6. SubC(a, b, c).n # SubC(a, b, c).v <=> s < 0
  BY <1>1, <1>4, <1>5, WordModPositive
<1>7. QED
  BY <1>6 DEF s

-----------------------------------------------------------------------------
(* Whole pairs.                                                            *)

IsVal(v) ==
    /\ v.lo.word \in Words /\ v.hi.word \in Words
    /\ v.lo.known \in BOOLEAN /\ v.hi.known \in BOOLEAN

LEMMA PairValue ==
  ASSUME NEW l \in Words, NEW h \in Words
  PROVE  /\ h * WordMod + l \in Pairs
         /\ PairMod \in Nat \ {0} /\ PairMod = WordMod * WordMod
<1>1. h * WordMod <= (WordMod - 1) * WordMod
  BY WordModPositive DEF Words
<1>2. QED
  BY <1>1, WordModPositive DEF Words, Pairs, PairMod

(* A pair is negative exactly when its high word is.                       *)
LEMMA SignOfPair ==
  ASSUME NEW l \in Words, NEW h \in Words
  PROVE  SignedPair(h * WordMod + l) = SignedWord(h) * WordMod + l
<1>1. PairMod \div 2 = SignBit * WordMod
  BY WordModPositive DEF PairMod
<1>2. h * WordMod + l \in Int
  BY WordModPositive DEF Words
<1>3. CASE h >= SignBit
  <2>1. h * WordMod + l >= SignBit * WordMod
    BY <1>3, WordModPositive DEF Words
  <2>2. (h - WordMod) * WordMod + l = (h * WordMod + l) - PairMod
    BY WordModPositive DEF Words, PairMod
  <2>3. /\ SignedWord(h) = h - WordMod
        /\ SignedPair(h * WordMod + l) = (h * WordMod + l) - PairMod
    BY <1>1, <1>3, <2>1 DEF SignedPair, SignedWord
  <2>4. QED
    BY <2>2, <2>3
<1>4. CASE ~(h >= SignBit)
  <2>1. h * WordMod <= (SignBit - 1) * WordMod
    BY <1>4, WordModPositive DEF Words
  <2>2. ~(h * WordMod + l >= SignBit * WordMod)
    BY <2>1, WordModPositive DEF Words
  <2>3. QED
    BY <1>1, <1>4, <2>2 DEF SignedPair, SignedWord
<1>5. QED
  BY <1>3, <1>4

(* Pairs are ordered by their high words and the borrow of the low ones.   *)
LEMMA OrderOfPairs ==
  ASSUME NEW l \in Words, NEW k \in Words, NEW g \in Int, NEW h \in Int
  PROVE  g * WordMod + l < h * WordMod + k <=> g - h - SubC(l, k, 0).c < 0
<1>1. SubC(l, k, 0).c = IF l < k THEN 1 ELSE 0
  BY DEF SubC, Bit, Words
<1>2. g < h => g * WordMod + WordMod <= h * WordMod
  BY WordModPositive
<1>3. g > h => h * WordMod + WordMod <= g * WordMod
  BY WordModPositive
<1>4. QED
  BY <1>1, <1>2, <1>3, WordModPositive DEF Words

(* IR_CMP32: CMP of the low words and SUBC of the high words decide <, the *)
(* carry without sign and N # V with it, for every pair of operands; also  *)
(* where the two high words are known to be zero and only the low ones are *)
(* compared.                                                               *)
THEOREM BorrowOrdersPairs ==
  ASSUME NEW x, NEW y, IsVal(x), IsVal(y), NEW signed \in BOOLEAN
  PROVE  LessThan(x, y, signed) <=> Number(ValueOf(x), signed) < Number(ValueOf(y), signed)
<1> DEFINE xl == x.lo.word  xh == x.hi.word  yl == y.lo.word  yh == y.hi.word
           b == SubC(xl, yl, 0).c
<1>1. xl \in Words /\ xh \in Words /\ yl \in Words /\ yh \in Words
  BY DEF IsVal
<1>2. b \in {0, 1}
  BY <1>1, SubtractWords
<1>3. ValueOf(x) = xh * WordMod + xl /\ ValueOf(y) = yh * WordMod + yl
  BY DEF ValueOf
<1>5. LessThan(x, y, signed) <=>
        IF Is(x.hi, 0) /\ Is(y.hi, 0) THEN b = 1
        ELSE IF signed THEN SubC(xh, yh, b).n # SubC(xh, yh, b).v
        ELSE SubC(xh, yh, b).c = 1
  BY Zenon DEF LessThan
<1>6. Is(x.hi, 0) /\ Is(y.hi, 0) => xh = 0 /\ yh = 0
  BY DEF Is
<1> HIDE DEF xl, xh, yl, yh, b
<1>7. CASE signed
  <2>1. /\ SignedWord(xh) \in Int /\ SignedWord(yh) \in Int
        /\ xh = 0 /\ yh = 0 => SignedWord(xh) = 0 /\ SignedWord(yh) = 0
    BY <1>1, WordModPositive DEF SignedWord, Words
  <2>2. /\ Number(ValueOf(x), signed) = SignedWord(xh) * WordMod + xl
        /\ Number(ValueOf(y), signed) = SignedWord(yh) * WordMod + yl
    BY <1>1, <1>3, <1>7, SignOfPair DEF Number
  <2>3. Number(ValueOf(x), signed) < Number(ValueOf(y), signed)
          <=> SignedWord(xh) - SignedWord(yh) - b < 0
    BY <1>1, <2>1, <2>2, OrderOfPairs DEF b
  <2>4. SubC(xh, yh, b).n # SubC(xh, yh, b).v <=> SignedWord(xh) - SignedWord(yh) - b < 0
    BY <1>1, <1>2, SignedBorrow
  <2>5. SignedWord(xh) = 0 /\ SignedWord(yh) = 0 => (b = 1 <=> SignedWord(xh) - SignedWord(yh) - b < 0)
    BY <1>2
  <2>6. QED
    BY <1>5, <1>6, <1>7, <2>1, <2>3, <2>4, <2>5, Zenon
<1>8. CASE ~signed
  <2>1. xh \in Int /\ yh \in Int
    BY <1>1, WordModPositive DEF Words
  <2>2. Number(ValueOf(x), signed) < Number(ValueOf(y), signed) <=> xh - yh - b < 0
    BY <1>1, <1>3, <1>8, <2>1, OrderOfPairs DEF b, Number
  <2>3. SubC(xh, yh, b).c = 1 <=> xh - yh - b < 0
    BY DEF SubC, Bit
  <2>4. xh = 0 /\ yh = 0 => (b = 1 <=> xh - yh - b < 0)
    BY <1>2
  <2>5. QED
    BY <1>5, <1>6, <1>8, <2>2, <2>3, <2>4, Zenon
<1>9. QED
  BY <1>7, <1>8

LEMMA WordStays == \A w \in Words : w % WordMod = w
<1>1. \A m \in Nat \ {0} : \A n \in 0 .. m - 1 : n % m = n
  BY Z3
<1>2. QED
  BY <1>1, WordModPositive DEF Words

(* The words of a sum and of a difference, put together again.             *)
LEMMA SumOfPairs ==
  ASSUME NEW m \in Int, NEW a \in Int, NEW b \in Int, NEW g \in Int, NEW h \in Int,
         NEW c \in Int, NEW d \in Int
  PROVE  (g * m + a) + (h * m + b)
           = (d * m + ((g + h + c) - d * m)) * m + ((a + b) - c * m)
  BY Z3

LEMMA DifferenceOfPairs ==
  ASSUME NEW m \in Int, NEW a \in Int, NEW b \in Int, NEW g \in Int, NEW h \in Int,
         NEW c \in Int, NEW d \in Int
  PROVE  (g * m + a) - (h * m + b)
           = ((-d) * m + (((g - h) - c) + d * m)) * m + ((a - b) + c * m)
  BY Z3

LEMMA Difference ==
  ASSUME NEW m \in Int, NEW a \in Int, NEW b \in Int, NEW g \in Int, NEW h \in Int
  PROVE  (g * m + a) - (h * m + b) = (g - h) * m + (a - b)
  BY Z3

LEMMA ConstValue == ASSUME NEW c \in Int PROVE ValueOf(Const32(c)) = c % PairMod
<1> DEFINE p == c % PairMod
<1>1. p \in Nat
  BY PairValue, WordModPositive DEF Words, PairMod
<1>2. ValueOf(Const32(c)) = (p \div WordMod) * WordMod + (p % WordMod)
  BY DEF ValueOf, Const32, Known
<1>3. p = (p \div WordMod) * WordMod + (p % WordMod)
  <2> HIDE DEF p
  <2>1. p \in Int
    BY <1>1
  <2>2. QED
    BY <2>1, WordModPositive, DivMod, Zenon
<1>4. QED
  BY <1>2, <1>3

(* The identities with zero compute what the dropped instruction would.    *)
LEMMA DroppedAddSub ==
  ASSUME NEW op \in {"add", "sub"}, NEW x, NEW y,
         x.word \in Words, y.word \in Words
  PROVE  BinOp(op, x, y, FALSE).word = (IF op = "add" THEN x.word + y.word ELSE x.word - y.word) % WordMod
<1>1. x.word % WordMod = x.word /\ y.word % WordMod = y.word
  BY WordStays
<1>2. WordOp(op, x.word, y.word, FALSE)
        = (IF op = "add" THEN x.word + y.word ELSE x.word - y.word) % WordMod
  <2>1. CASE op = "add"
    BY <2>1 DEF WordOp, AddC, Words
  <2>2. CASE op = "sub"
    BY <2>2 DEF WordOp, SubC, Words
  <2>3. QED
    BY <2>1, <2>2
<1>3. /\ Identity(op, x, y) # {} =>
            \/ Identity(op, x, y) = {y} /\ op = "add" /\ x.word = 0
            \/ Identity(op, x, y) = {x} /\ y.word = 0
  BY DEF Identity, Is
<1>4. \A z : (CHOOSE w \in {z} : TRUE) = z
  OBVIOUS
<1>5. CASE Identity(op, x, y) # {} /\ ~(x.known /\ y.known)
  <2>1. BinOp(op, x, y, FALSE) = CHOOSE z \in Identity(op, x, y) : TRUE
    BY <1>5 DEF BinOp
  <2>2. CASE Identity(op, x, y) = {y} /\ op = "add" /\ x.word = 0
    <3>1. x.word + y.word = y.word
      BY <2>2, WordModPositive DEF Words
    <3>2. BinOp(op, x, y, FALSE) = y
      BY <1>4, <2>1, <2>2
    <3>3. QED
      BY <1>1, <2>2, <3>1, <3>2
  <2>3. CASE Identity(op, x, y) = {x} /\ y.word = 0
    <3>1. x.word + y.word = x.word /\ x.word - y.word = x.word
      BY <2>3, WordModPositive DEF Words
    <3>2. BinOp(op, x, y, FALSE) = x
      BY <1>4, <2>1, <2>3
    <3>3. QED
      BY <1>1, <3>1, <3>2
  <2>4. QED
    BY <1>3, <1>5, <2>2, <2>3
<1>6. CASE ~(Identity(op, x, y) # {} /\ ~(x.known /\ y.known))
  BY <1>2, <1>6 DEF BinOp, Known, Reg
<1>7. QED
  BY <1>5, <1>6

(* IR_CARRYOP: ADD then ADDC, or SUB then SUBC, or one instruction where a *)
(* low word is known to be zero, or none where both operands are known,    *)
(* give the sum or the difference of the pairs modulo 2^32.                *)
THEOREM CarryAddsPairs ==
  ASSUME NEW op \in {"add", "sub"}, NEW x, NEW y, IsVal(x), IsVal(y), NEW signed
  PROVE  ValueOf(AddSub(op, x, y)) = Reference(op, ValueOf(x), ValueOf(y), signed)
<1> DEFINE xl == x.lo.word  xh == x.hi.word  yl == y.lo.word  yh == y.hi.word
           wide == IF op = "add" THEN ValueOf(x) + ValueOf(y) ELSE ValueOf(x) - ValueOf(y)
<1>1. xl \in Words /\ xh \in Words /\ yl \in Words /\ yh \in Words
  BY DEF IsVal
<1>2. ValueOf(x) = xh * WordMod + xl /\ ValueOf(y) = yh * WordMod + yl
  BY DEF ValueOf
<1>3. ValueOf(x) \in Int /\ ValueOf(y) \in Int /\ wide \in Int
  BY <1>1, <1>2, WordModPositive DEF Words
<1>4. Reference(op, ValueOf(x), ValueOf(y), signed) = wide % PairMod
  <2>1. CASE op = "add"
    BY <2>1 DEF Reference
  <2>2. CASE op = "sub"
    BY <2>2 DEF Reference
  <2>3. QED
    BY <2>1, <2>2
<1>5. SUFFICES ValueOf(AddSub(op, x, y)) = wide % PairMod
  BY <1>4
(* The words l and h and the carries out of the high word make the value.  *)
<1>6. ASSUME NEW l \in Words, NEW h \in Words, NEW k \in Int,
             wide = (k * WordMod + h) * WordMod + l
      PROVE  wide % PairMod = h * WordMod + l
  <2>1. wide = k * PairMod + (h * WordMod + l)
    BY <1>6, WordModPositive DEF Words, PairMod
  <2>2. h * WordMod + l \in 0 .. PairMod - 1
    BY PairValue DEF Pairs
  <2>3. QED
    BY <1>3, <2>1, <2>2, PairValue, ModUnique
<1>a. /\ xl \in Int /\ xh \in Int /\ yl \in Int /\ yh \in Int /\ WordMod \in Int
  BY <1>1, WordModPositive DEF Words
<1> DEFINE low == IF op = "add" THEN AddC(xl, yl, 0) ELSE SubC(xl, yl, 0)
           high == IF op = "add" THEN AddC(xh, yh, low.c) ELSE SubC(xh, yh, low.c)
<1>7. CASE IsConst(x) /\ IsConst(y)
  BY <1>3, <1>7, ConstValue DEF AddSub
<1>8. CASE ~(IsConst(x) /\ IsConst(y)) /\ (Is(y.lo, 0) \/ (op = "add" /\ Is(x.lo, 0)))
  <2> DEFINE l == BinOp(op, x.lo, y.lo, FALSE).word
             h == BinOp(op, x.hi, y.hi, FALSE).word
             n == IF op = "add" THEN xh + yh ELSE xh - yh
  <2>1. ValueOf(AddSub(op, x, y)) = h * WordMod + l
    BY <1>8 DEF AddSub, Pair, ValueOf
  <2>2. h = n % WordMod
    BY <1>1, DroppedAddSub
  <2>3. l = (IF op = "add" THEN xl + yl ELSE xl - yl) % WordMod
    BY <1>1, DroppedAddSub
  <2>4. yl = 0 \/ (op = "add" /\ xl = 0)
    BY <1>8 DEF Is
  <2>5. l = (IF op = "add" THEN xl + yl ELSE xl - yl) /\ l \in Words
    <3>1. (IF op = "add" THEN xl + yl ELSE xl - yl) \in Words
      BY <1>1, <2>4, WordModPositive DEF Words
    <3>2. QED
      BY <2>3, <3>1, WordStays
  <2> HIDE DEF l, h
  <2>6. n \in Int
    BY <1>1, WordModPositive DEF Words
  <2>7. n = (n \div WordMod) * WordMod + h /\ n \div WordMod \in Int /\ h \in Words
    BY <2>2, <2>6, WordModPositive DEF Words
  <2>8. wide = n * WordMod + l
    <3>1. CASE op = "add"
      <4>1. n = xh + yh /\ l = xl + yl
        BY <2>5, <3>1
      <4>2. (xh * WordMod + xl) + (yh * WordMod + yl) = (xh + yh) * WordMod + (xl + yl)
        BY <1>1, WordModPositive DEF Words
      <4>3. QED
        BY <1>2, <3>1, <4>1, <4>2
    <3>2. CASE op = "sub"
      <4>1. n = xh - yh /\ l = xl - yl
        BY <2>5, <3>2
      <4>2. (xh * WordMod + xl) - (yh * WordMod + yl) = (xh - yh) * WordMod + (xl - yl)
        <5> HIDE DEF xl, xh, yl, yh
        <5>1. QED
          BY <1>a, Difference
      <4>3. QED
        BY <1>2, <3>2, <4>1, <4>2
    <3>3. QED
      BY <3>1, <3>2
  <2>9. wide % PairMod = h * WordMod + l
    BY <1>6, <2>5, <2>7, <2>8
  <2>10. QED
    BY <2>1, <2>9
<1>9. CASE ~(IsConst(x) /\ IsConst(y)) /\ ~(Is(y.lo, 0) \/ (op = "add" /\ Is(x.lo, 0)))
  <2>1. ValueOf(AddSub(op, x, y)) = high.res * WordMod + low.res
    BY <1>9 DEF AddSub, Pair, Reg, ValueOf
  <2>2. CASE op = "add"
    <3>1. /\ low.res \in Words /\ low.c \in {0, 1} /\ low.res = (xl + yl) - low.c * WordMod
      BY <1>1, <2>2, AddWords DEF Words
    <3>2. /\ high.res \in Words /\ high.c \in {0, 1}
          /\ high.res = (xh + yh + low.c) - high.c * WordMod
      BY <1>1, <2>2, <3>1, AddWords
    <3> HIDE DEF low, high
    <3>a. low.c \in Int /\ high.c \in Int
      BY <3>1, <3>2
    <3>3. wide = (high.c * WordMod + high.res) * WordMod + low.res
      <4>1. (xh * WordMod + xl) + (yh * WordMod + yl)
              = (high.c * WordMod + ((xh + yh + low.c) - high.c * WordMod)) * WordMod
                  + ((xl + yl) - low.c * WordMod)
        <5> HIDE DEF xl, xh, yl, yh
        <5>1. QED
          BY <1>a, <3>a, SumOfPairs
      <4>2. QED
        BY <1>2, <2>2, <3>1, <3>2, <4>1
    <3>4. high.c \in Int
      BY <3>2
    <3>5. QED
      BY <1>6, <2>1, <3>1, <3>2, <3>3, <3>4
  <2>3. CASE op = "sub"
    <3>1. /\ low.res \in Words /\ low.c \in {0, 1} /\ low.res = xl - yl + low.c * WordMod
      BY <1>1, <2>3, SubtractWords DEF Words
    <3>2. /\ high.res \in Words /\ high.c \in {0, 1}
          /\ high.res = xh - yh - low.c + high.c * WordMod
      BY <1>1, <2>3, <3>1, SubtractWords
    <3> HIDE DEF low, high
    <3>a. low.c \in Int /\ high.c \in Int
      BY <3>1, <3>2
    <3>3. wide = ((-high.c) * WordMod + high.res) * WordMod + low.res
      <4>1. (xh * WordMod + xl) - (yh * WordMod + yl)
              = ((-high.c) * WordMod + (((xh - yh) - low.c) + high.c * WordMod)) * WordMod
                  + ((xl - yl) + low.c * WordMod)
        <5> HIDE DEF xl, xh, yl, yh
        <5>1. QED
          BY <1>a, <3>a, DifferenceOfPairs
      <4>2. QED
        BY <1>2, <2>3, <3>1, <3>2, <4>1
    <3>4. -high.c \in Int
      BY <3>2
    <3>5. QED
      BY <1>6, <2>1, <3>1, <3>2, <3>3, <3>4
  <2>4. QED
    BY <2>2, <2>3
<1>10. QED
  BY <1>7, <1>8, <1>9

LEMMA WordModIsPower == WordMod = 2^WordBits /\ WordBits \in Nat /\ PairMod = 2^(2 * WordBits)
<1>1. WordBits - 1 \in Nat /\ (WordBits - 1) + 1 = WordBits /\ WordBits \in Nat
  BY AluAssumption
<1>2. 2^WordBits = 2 * SignBit
  BY <1>1, PowerStep, AluAssumption
<1>3. 2^(WordBits + WordBits) = 2^WordBits * 2^WordBits /\ WordBits + WordBits = 2 * WordBits
  BY <1>1, PowerSum
<1>4. QED
  BY <1>1, <1>2, <1>3 DEF WordMod, PairMod

-----------------------------------------------------------------------------
(* The bit operators, bit by bit.                                          *)

BitOps == {"and", "or", "xor"}

BitHolds(op, a, b, i) ==
    CASE op = "and" -> Holds(a, i) /\ Holds(b, i)
      [] op = "or"  -> Holds(a, i) \/ Holds(b, i)
      [] op = "xor" -> Holds(a, i) # Holds(b, i)

BitTerms(op, a, b) == [i \in Nat |-> IF BitHolds(op, a, b, i) THEN 2^i ELSE 0]

LEMMA BitsAreSum ==
  ASSUME NEW op \in BitOps, NEW a, NEW b, NEW n \in Nat
  PROVE  BitsOp(op, a, b, n) = SumFunctionOnSet(BitTerms(op, a, b), 0 .. n - 1)
<1> DEFINE f == BitTerms(op, a, b)
           S == 0 .. n - 1
           iter == CHOOSE h : h = [s \in SUBSET S |->
                     IF s = {} THEN 0
                     ELSE (IF BitHolds(op, a, b, Chosen(s)) THEN 2^Chosen(s) ELSE 0) + h[s \ {Chosen(s)}]]
<1>1. BitsOp(op, a, b, n) = iter[S]
  <2>1. CASE op = "and"
    BY <2>1 DEF BitsOp, FromBits, MapThenSumSet, MapThenFoldSet, Chosen, BitHolds
  <2>2. CASE op = "or"
    BY <2>2 DEF BitsOp, FromBits, MapThenSumSet, MapThenFoldSet, Chosen, BitHolds
  <2>3. CASE op = "xor"
    BY <2>3 DEF BitsOp, FromBits, MapThenSumSet, MapThenFoldSet, Chosen, BitHolds
  <2>4. QED
    BY <2>1, <2>2, <2>3 DEF BitOps
<1>2. \A s \in SUBSET S : s # {} =>
        f[Chosen(s)] = IF BitHolds(op, a, b, Chosen(s)) THEN 2^Chosen(s) ELSE 0
  <2> SUFFICES ASSUME NEW s \in SUBSET S, s # {}
               PROVE  f[Chosen(s)] = IF BitHolds(op, a, b, Chosen(s)) THEN 2^Chosen(s) ELSE 0
    OBVIOUS
  <2>1. Chosen(s) \in s
    <3>1. \E x : x \in s
      OBVIOUS
    <3>2. QED
      BY <3>1, Zenon DEF Chosen
  <2>2. s \subseteq Nat
    OBVIOUS
  <2>3. QED
    BY <2>1, <2>2 DEF BitTerms
<1>3. IsFiniteSet(S)
  BY FS_Interval
<1> HIDE DEF f
<1>4. \A h : Sums(f, SUBSET S, h) <=> h = [s \in SUBSET S |->
                     IF s = {} THEN 0
                     ELSE (IF BitHolds(op, a, b, Chosen(s)) THEN 2^Chosen(s) ELSE 0) + h[s \ {Chosen(s)}]]
  BY <1>2 DEF Sums
<1>5. Sums(f, SUBSET S, iter)
  BY <1>3, <1>4, SumsExist
<1>6. QED
  BY <1>1, <1>3, <1>5, SumIs DEF f

LEMMA BitsOfNone ==
  ASSUME NEW op \in BitOps, NEW a, NEW b
  PROVE  BitsOp(op, a, b, 0) = 0
<1>1. 0 .. 0 - 1 = {}
  OBVIOUS
<1>2. QED
  BY <1>1, BitsAreSum, SumOfNone

LEMMA BitsByOne ==
  ASSUME NEW op \in BitOps, NEW a, NEW b, NEW n \in Nat
  PROVE  /\ BitsOp(op, a, b, n) \in Nat
         /\ BitsOp(op, a, b, n + 1) = (IF BitHolds(op, a, b, n) THEN 2^n ELSE 0) + BitsOp(op, a, b, n)
<1> DEFINE f == BitTerms(op, a, b)
           step(k) == SumFunctionOnSet(f, 0 .. (k + 1) - 1) = f[k] + SumFunctionOnSet(f, 0 .. k - 1)
           G == { k \in Nat : SumFunctionOnSet(f, 0 .. k - 1) \in Nat }
<1>1. \A i \in Nat : f[i] \in Nat /\ f[i] = IF BitHolds(op, a, b, i) THEN 2^i ELSE 0
  BY Power DEF BitTerms
<1> HIDE DEF f
<1>2. ASSUME NEW k \in Nat PROVE step(k)
  <2>1. \A i \in 0 .. k : f[i] \in Int
    BY <1>1
  <2>2. (k + 1) - 1 = k /\ 0 <= k
    OBVIOUS
  <2>3. QED
    BY <2>1, <2>2, SumUpTo
<1>3. 0 \in G
  BY SumOfNone, 0 .. 0 - 1 = {}
<1>4. ASSUME NEW k \in Nat, k \in G PROVE k + 1 \in G
  BY <1>1, <1>2, <1>4
<1>5. \A k \in Nat : k \in G
  <2> HIDE DEF G
  <2> QED BY <1>3, <1>4, Induction
<1>6. QED
  BY <1>1, <1>2, <1>5, BitsAreSum DEF f

LEMMA BitsBelow ==
  ASSUME NEW op \in BitOps, NEW a, NEW b, NEW n \in Nat
  PROVE  BitsOp(op, a, b, n) \in 0 .. 2^n - 1
<1> DEFINE G == { k \in Nat : BitsOp(op, a, b, k) <= 2^k - 1 }
<1>1. 0 \in G
  BY BitsOfNone, PowerZero
<1>2. ASSUME NEW k \in Nat, k \in G PROVE k + 1 \in G
  <2>1. PICK p \in Nat, r \in Nat : p = 2^k /\ r = BitsOp(op, a, b, k)
    BY Power, BitsByOne
  <2>2. r <= p - 1 /\ 2^(k + 1) = 2 * p
    BY <1>2, <2>1, PowerStep
  <2>3. BitsOp(op, a, b, k + 1) = (IF BitHolds(op, a, b, k) THEN p ELSE 0) + r
    BY <2>1, BitsByOne
  <2>4. BitsOp(op, a, b, k + 1) <= 2^(k + 1) - 1
    BY <2>2, <2>3
  <2>5. QED
    BY <2>4
<1>3. \A k \in Nat : k \in G
  <2> HIDE DEF G
  <2> QED BY <1>1, <1>2, Induction
<1>4. QED
  BY <1>3, BitsByOne, Power

-----------------------------------------------------------------------------
(* The bits of a number.                                                   *)

LEMMA BitOfPower ==
  ASSUME NEW a \in Nat, NEW n \in Nat
  PROVE  /\ a % 2^n \in Nat
         /\ a % 2^(n + 1) = (IF Holds(a, n) THEN 2^n ELSE 0) + (a % 2^n)
<1>1. PICK p \in Nat \ {0} : p = 2^n
  BY Power
<1>2. 2^(n + 1) = p * 2
  BY <1>1, PowerStep
<1>3. a % (p * 2) = ((a \div p) % 2) * p + (a % p)
  <2>1. 2 \in Nat \ {0} /\ a \in Int
    OBVIOUS
  <2>2. QED
    BY <2>1, DivTwice
<1>4. a \div p \in Nat /\ a % p \in Nat
  BY DivPositive, DivParts
<1>5. (a \div p) % 2 \in {0, 1}
  BY <1>4
<1>6. Holds(a, n) <=> (a \div p) % 2 = 1
  BY <1>1 DEF Holds
<1>7. PICK d \in {0, 1}, r \in Nat : d = (a \div p) % 2 /\ r = a % p
  BY <1>4, <1>5
<1>8. d * p + r = (IF d = 1 THEN p ELSE 0) + r
  <2>1. CASE d = 0
    BY <2>1
  <2>2. CASE d = 1
    BY <2>2
  <2>3. QED
    BY <2>1, <2>2
<1>9. QED
  BY <1>1, <1>2, <1>3, <1>6, <1>7, <1>8

(* Numbers with no bit in common: their or and their exclusive or are      *)
(* their sum.                                                              *)
LEMMA DisjointBits ==
  ASSUME NEW op \in {"or", "xor"}, NEW a \in Nat, NEW b \in Nat, NEW n \in Nat,
         \A i \in 0 .. n - 1 : ~(Holds(a, i) /\ Holds(b, i))
  PROVE  BitsOp(op, a, b, n) = (a % 2^n) + (b % 2^n)
<1> DEFINE G == { k \in Nat : k <= n => BitsOp(op, a, b, k) = (a % 2^k) + (b % 2^k) }
<1>1. 0 \in G
  <2>1. a % 1 = 0 /\ b % 1 = 0
    OBVIOUS
  <2>2. QED
    BY <2>1, BitsOfNone, PowerZero DEF BitOps
<1>2. ASSUME NEW k \in Nat, k \in G PROVE k + 1 \in G
  <2> SUFFICES ASSUME k + 1 <= n
               PROVE  BitsOp(op, a, b, k + 1) = (a % 2^(k + 1)) + (b % 2^(k + 1))
    OBVIOUS
  <2>1. PICK p \in Nat, r \in Nat, s \in Nat : p = 2^k /\ r = a % 2^k /\ s = b % 2^k
    BY Power, BitOfPower
  <2>2. a % 2^(k + 1) = (IF Holds(a, k) THEN p ELSE 0) + r
    BY <2>1, BitOfPower
  <2>3. b % 2^(k + 1) = (IF Holds(b, k) THEN p ELSE 0) + s
    BY <2>1, BitOfPower
  <2>4. BitsOp(op, a, b, k + 1) = (IF BitHolds(op, a, b, k) THEN p ELSE 0) + (r + s)
    BY <1>2, <2>1, BitsByOne DEF BitOps
  <2>5. Holds(a, k) \in BOOLEAN /\ Holds(b, k) \in BOOLEAN
    BY DEF Holds
  <2>6. ~(Holds(a, k) /\ Holds(b, k))
    OBVIOUS
  <2>7. BitHolds(op, a, b, k) <=> (Holds(a, k) \/ Holds(b, k))
    <3>1. CASE op = "or"
      BY <3>1 DEF BitHolds
    <3>2. CASE op = "xor"
      <4>1. BitHolds(op, a, b, k) <=> (Holds(a, k) # Holds(b, k))
        BY <3>2 DEF BitHolds
      <4>2. QED
        BY <2>5, <2>6, <4>1
    <3>3. QED
      BY <3>1, <3>2
  <2>8. QED
    BY <2>2, <2>3, <2>4, <2>5, <2>6, <2>7
<1>3. \A k \in Nat : k \in G
  <2> HIDE DEF G
  <2> QED BY <1>1, <1>2, Induction
<1>4. QED
  BY <1>3

LEMMA NoBits == ASSUME NEW n \in Nat PROVE ~Holds(0, n)
<1>1. 0 \div 2^n = 0
  BY Power, ModSmall
<1>2. 0 % 2 # 1
  OBVIOUS
<1>3. QED
  BY <1>1, <1>2, Zenon DEF Holds

(* Below a multiple of a power there are no bits, above a remainder of it  *)
(* neither.                                                                *)
LEMMA LowBitsClear ==
  ASSUME NEW c \in Nat, NEW k \in Nat, NEW i \in 0 .. k - 1
  PROVE  ~Holds(c * 2^k, i)
<1>1. k - i - 1 \in Nat /\ (k - i - 1) + 1 = k - i /\ k - i \in Nat /\ i \in Nat
  OBVIOUS
<1>2. PICK p \in Nat \ {0}, q \in Nat \ {0} : p = 2^i /\ q = 2^(k - i - 1)
  BY <1>1, Power
<1>3. 2^k = 2^(k - i) * p /\ 2^(k - i) = 2 * q
  BY <1>1, <1>2, PowerSplit, PowerStep
<1>4. c * ((2 * q) * p) = (2 * (c * q)) * p + 0
  BY Z3
<1>5. 2 * (c * q) \in Nat /\ c * q \in Nat
  BY Z3
<1>6. (c * 2^k) \div p = 2 * (c * q)
  <2>1. (2 * (c * q)) * p + 0 \in Int
    BY Z3
  <2>2. ((2 * (c * q)) * p + 0) \div p = 2 * (c * q)
    BY <1>5, <2>1, DivUnique
  <2>3. QED
    BY <1>3, <1>4, <2>2
<1>7. PICK d \in Nat : d = c * q
  BY <1>5
<1>8. (2 * d) % 2 = 0
  OBVIOUS
<1>9. QED
  BY <1>2, <1>6, <1>7, <1>8 DEF Holds

LEMMA HighBitsClear ==
  ASSUME NEW b \in Nat, NEW k \in Nat, NEW i \in Nat, b < 2^k, k <= i
  PROVE  ~Holds(b, i)
<1>1. 2^i = 2^(i - k) * 2^k /\ i - k \in Nat
  BY PowerSplit
<1>2. PICK p \in Nat \ {0}, q \in Nat \ {0} : p = 2^k /\ q = 2^(i - k)
  BY <1>1, Power
<1>3. q * p >= p
  BY Z3
<1>4. q * p \in Nat \ {0} /\ b < q * p
  BY <1>2, <1>3, Positive
<1>5. b \div 2^i = 0
  BY <1>1, <1>2, <1>4, ModSmall
<1>6. 0 % 2 # 1
  OBVIOUS
<1>7. QED
  BY <1>5, <1>6, Zenon DEF Holds

LEMMA OrOfParts ==
  \A k, n \in Nat : k <= n =>
    \A c, b \in Nat :
      b < 2^k /\ c * 2^k < 2^n =>
         /\ BitsOp("or", c * 2^k, b, n) = c * 2^k + b
         /\ BitsOp("or", b, c * 2^k, n) = c * 2^k + b
<1> TAKE k, n \in Nat
<1> HAVE k <= n
<1> TAKE c, b \in Nat
<1> HAVE b < 2^k /\ c * 2^k < 2^n
<1>1. PICK p \in Nat \ {0}, q \in Nat \ {0} : p = 2^k /\ q = 2^n
  BY Power
<1>2. c * p \in Nat /\ c * 2^k = c * p
  <2>1. c * p \in Nat
    BY Z3
  <2>2. QED
    BY <1>1, <2>1, Zenon
<1>3. \A i \in 0 .. n - 1 : ~(Holds(c * 2^k, i) /\ Holds(b, i))
  BY LowBitsClear, HighBitsClear
<1>4. b < q
  <2>1. 2^n = 2^(n - k) * 2^k /\ n - k \in Nat
    BY PowerSplit
  <2>2. PICK r \in Nat \ {0} : r = 2^(n - k)
    BY <2>1, Power
  <2>3. r * p >= p
    BY Z3
  <2>4. r * p \in Nat
    BY Z3
  <2>5. QED
    BY <1>1, <2>1, <2>2, <2>3, <2>4
<1>5. (c * 2^k) % 2^n = c * 2^k /\ b % 2^n = b
  <2>1. PICK e \in Nat : e = c * 2^k
    BY <1>2
  <2>2. e < q
    BY <1>1, <2>1
  <2>3. e % q = e /\ b % q = b
    BY <1>4, <2>2, ModSmall
  <2>4. QED
    BY <1>1, <2>1, <2>3, Zenon
<1>6. PICK e \in Nat : e = c * 2^k
  BY <1>2
<1>7. BitsOp("or", e, b, n) = e + b /\ BitsOp("or", b, e, n) = b + e
  BY <1>3, <1>5, <1>6, DisjointBits
<1>8. QED
  BY <1>6, <1>7

(* The bits of a pair are those of its words.                              *)
LEMMA BitsOfParts ==
  ASSUME NEW h \in Nat, NEW l \in Nat, NEW k \in Nat, l < 2^k
  PROVE  /\ \A i \in 0 .. k - 1 : Holds(h * 2^k + l, i) <=> Holds(l, i)
         /\ \A j \in Nat : Holds(h * 2^k + l, k + j) <=> Holds(h, j)
<1>1. PICK p \in Nat \ {0} : p = 2^k
  BY Power
<1>2. ASSUME NEW i \in 0 .. k - 1 PROVE Holds(h * p + l, i) <=> Holds(l, i)
  <2>1. k - i - 1 \in Nat /\ (k - i - 1) + 1 = k - i /\ k - i \in Nat /\ i \in Nat
    OBVIOUS
  <2>2. PICK r \in Nat \ {0}, q \in Nat \ {0} : r = 2^i /\ q = 2^(k - i - 1)
    BY <2>1, Power
  <2>3. p = (2 * q) * r
    BY <1>1, <2>1, <2>2, PowerSplit, PowerStep
  <2>4. h * ((2 * q) * r) = (2 * (h * q)) * r
    BY Z3
  <2>5. h * q \in Nat
    BY Z3
  <2>6. PICK d \in Nat : d = h * q
    BY <2>5
  <2>7. h * p + l = (2 * d) * r + l
    BY <2>3, <2>4, <2>6, Zenon
  <2>8. ((2 * d) * r + l) \div r = 2 * d + l \div r
    BY ModOfMultiple, 2 * d \in Int, l \in Int
  <2>9. l \div r \in Nat
    BY DivPositive
  <2>10. PICK e \in Nat : e = l \div r
    BY <2>9
  <2>11. (2 * d + e) % 2 = e % 2
    OBVIOUS
  <2>12. QED
    BY <2>2, <2>7, <2>8, <2>10, <2>11, Zenon DEF Holds
<1>3. ASSUME NEW j \in Nat PROVE Holds(h * p + l, k + j) <=> Holds(h, j)
  <2>1. PICK r \in Nat \ {0} : r = 2^j
    BY Power
  <2>2. 2^(k + j) = p * r
    BY <1>1, <2>1, PowerSum
  <2>3. h * p + l \in Int /\ l \in Int /\ 0 <= l /\ l < p /\ h \in Int
    <3>1. h * p + l \in Int
      BY Z3
    <3>2. QED
      BY <1>1, <3>1
  <2>4. (h * p + l) \div p = h
    BY <2>3, DivUnique
  <2>5. (h * p + l) \div (p * r) = ((h * p + l) \div p) \div r
    BY <2>3, DivTwice
  <2>6. QED
    BY <2>1, <2>2, <2>4, <2>5, Zenon DEF Holds
<1>4. QED
  BY <1>1, <1>2, <1>3, Zenon

LEMMA BitsOfPairs ==
  ASSUME NEW op \in BitOps, NEW a \in Nat, NEW b \in Nat, NEW g \in Nat, NEW h \in Nat,
         NEW k \in Nat, a < 2^k, b < 2^k
  PROVE  BitsOp(op, g * 2^k + a, h * 2^k + b, k + k)
           = BitsOp(op, g, h, k) * 2^k + BitsOp(op, a, b, k)
<1> DEFINE x == g * 2^k + a
           y == h * 2^k + b
           L == { n \in Nat : n <= k => BitsOp(op, x, y, n) = BitsOp(op, a, b, n) }
           H == { n \in Nat : BitsOp(op, x, y, k + n) = BitsOp(op, g, h, n) * 2^k + BitsOp(op, a, b, k) }
<1>1. \A i \in 0 .. k - 1 : BitHolds(op, x, y, i) <=> BitHolds(op, a, b, i)
  <2> SUFFICES ASSUME NEW i \in 0 .. k - 1 PROVE BitHolds(op, x, y, i) <=> BitHolds(op, a, b, i)
    OBVIOUS
  <2>1. (Holds(x, i) <=> Holds(a, i)) /\ (Holds(y, i) <=> Holds(b, i))
    BY BitsOfParts
  <2>2. Holds(x, i) = Holds(a, i) /\ Holds(y, i) = Holds(b, i)
    BY <2>1, Zenon DEF Holds
  <2> HIDE DEF x, y
  <2>3. QED
    BY <2>2, Zenon DEF BitHolds
<1>2. \A j \in Nat : BitHolds(op, x, y, k + j) <=> BitHolds(op, g, h, j)
  <2> SUFFICES ASSUME NEW j \in Nat PROVE BitHolds(op, x, y, k + j) <=> BitHolds(op, g, h, j)
    OBVIOUS
  <2>1. (Holds(x, k + j) <=> Holds(g, j)) /\ (Holds(y, k + j) <=> Holds(h, j))
    BY BitsOfParts
  <2>2. Holds(x, k + j) = Holds(g, j) /\ Holds(y, k + j) = Holds(h, j)
    BY <2>1, Zenon DEF Holds
  <2> HIDE DEF x, y
  <2>3. QED
    BY <2>2, Zenon DEF BitHolds
<1> HIDE DEF x, y
<1>3. k \in L
  <2>1. 0 \in L
    BY BitsOfNone
  <2>2. ASSUME NEW n \in Nat, n \in L PROVE n + 1 \in L
    BY <1>1, <2>2, BitsByOne
  <2>3. \A n \in Nat : n \in L
    <3> HIDE DEF L
    <3> QED BY <2>1, <2>2, Induction
  <2>4. QED
    BY <2>3
<1>4. k \in H
  <2>1. PICK p \in Nat \ {0}, m \in Nat : p = 2^k /\ m = BitsOp(op, a, b, k)
    BY Power, BitsByOne
  <2>2. 0 \in H
    <3>1. BitsOp(op, x, y, k) = m /\ BitsOp(op, g, h, 0) = 0 /\ k + 0 = k /\ 0 * p + m = m
      BY <1>3, <2>1, BitsOfNone
    <3>2. QED
      BY <2>1, <3>1
  <2>3. ASSUME NEW n \in Nat, n \in H PROVE n + 1 \in H
    <3>1. PICK r \in Nat, q \in Nat : r = BitsOp(op, g, h, n) /\ q = 2^n
      BY BitsByOne, Power
    <3>2. BitsOp(op, x, y, k + n) = r * p + m
      BY <2>1, <2>3, <3>1
    <3>3. 2^(k + n) = q * p
      <4>1. 2^(n + k) = 2^n * 2^k /\ n + k = k + n
        BY PowerSum
      <4>2. QED
        BY <2>1, <3>1, <4>1
    <3>4. BitsOp(op, x, y, (k + n) + 1) = (IF BitHolds(op, g, h, n) THEN q * p ELSE 0) + (r * p + m)
      <4>1. BitsOp(op, x, y, (k + n) + 1)
              = (IF BitHolds(op, x, y, k + n) THEN 2^(k + n) ELSE 0) + BitsOp(op, x, y, k + n)
        BY BitsByOne, k + n \in Nat
      <4>2. QED
        BY <1>2, <3>2, <3>3, <4>1, Zenon
    <3>5. BitsOp(op, g, h, n + 1) = (IF BitHolds(op, g, h, n) THEN q ELSE 0) + r
      BY <3>1, BitsByOne
    <3>6. (q + r) * p + m = q * p + (r * p + m) /\ (0 + r) * p + m = 0 + (r * p + m)
      BY Z3
    <3>7. BitsOp(op, x, y, (k + n) + 1) = BitsOp(op, g, h, n + 1) * p + m
      <4>1. CASE BitHolds(op, g, h, n)
        <5>1. BitsOp(op, x, y, (k + n) + 1) = q * p + (r * p + m) /\ BitsOp(op, g, h, n + 1) = q + r
          BY <3>4, <3>5, <4>1, Zenon
        <5>2. QED
          BY <3>6, <5>1, Zenon
      <4>2. CASE ~BitHolds(op, g, h, n)
        <5>1. BitsOp(op, x, y, (k + n) + 1) = 0 + (r * p + m) /\ BitsOp(op, g, h, n + 1) = 0 + r
          BY <3>4, <3>5, <4>2, Zenon
        <5>2. QED
          BY <3>6, <5>1, Zenon
      <4>3. QED
        BY <4>1, <4>2
    <3>8. (k + n) + 1 = k + (n + 1)
      OBVIOUS
    <3>9. QED
      BY <2>1, <3>7, <3>8
  <2>4. \A n \in Nat : n \in H
    <3> HIDE DEF H
    <3> QED BY <2>2, <2>3, Induction
  <2>5. QED
    BY <2>4
<1>5. QED
  BY <1>4 DEF x, y

(* The operands with which an instruction is dropped.                      *)
LEMMA BitsWithZero ==
  ASSUME NEW a \in Nat, NEW n \in Nat, a < 2^n, NEW op \in {"or", "xor"}
  PROVE  BitsOp(op, a, 0, n) = a /\ BitsOp(op, 0, a, n) = a
<1>1. a % 2^n = a /\ 0 % 2^n = 0
  BY Power, ModSmall
<1>2. BitsOp(op, a, 0, n) = (a % 2^n) + (0 % 2^n) /\ BitsOp(op, 0, a, n) = (0 % 2^n) + (a % 2^n)
  BY NoBits, DisjointBits
<1>3. QED
  BY <1>1, <1>2

LEMMA AndWithZero ==
  ASSUME NEW a \in Nat, NEW n \in Nat
  PROVE  BitsOp("and", a, 0, n) = 0 /\ BitsOp("and", 0, a, n) = 0
<1> DEFINE G == { k \in Nat : BitsOp("and", a, 0, k) = 0 /\ BitsOp("and", 0, a, k) = 0 }
<1>1. 0 \in G
  BY BitsOfNone DEF BitOps
<1>2. ASSUME NEW k \in Nat, k \in G PROVE k + 1 \in G
  BY <1>2, BitsByOne, NoBits DEF BitOps, BitHolds
<1>3. \A k \in Nat : k \in G
  <2> HIDE DEF G
  <2> QED BY <1>1, <1>2, Induction
<1>4. QED
  BY <1>3

LEMMA OnesHold ==
  ASSUME NEW n \in Nat, NEW i \in 0 .. n - 1
  PROVE  Holds(2^n - 1, i)
<1>1. n - i - 1 \in Nat /\ (n - i - 1) + 1 = n - i /\ n - i \in Nat /\ i \in Nat
  OBVIOUS
<1>2. PICK r \in Nat \ {0}, q \in Nat \ {0} : r = 2^i /\ q = 2^(n - i - 1)
  BY <1>1, Power
<1>3. 2^n = (2 * q) * r
  BY <1>1, <1>2, PowerSplit, PowerStep
<1>4. (2 * q) * r - 1 = (2 * q - 1) * r + (r - 1)
  BY Z3
<1>5. ((2 * q - 1) * r + (r - 1)) \div r = 2 * q - 1
  <2>1. 2 * q - 1 \in Int /\ r - 1 \in Int /\ 0 <= r - 1 /\ r - 1 < r
    OBVIOUS
  <2>2. (2 * q - 1) * r + (r - 1) \in Int
    BY <2>1, Z3
  <2>3. QED
    BY <2>1, <2>2, DivUnique
<1>6. (2 * q - 1) % 2 = 1
  OBVIOUS
<1>7. QED
  BY <1>2, <1>3, <1>4, <1>5, <1>6, Zenon DEF Holds

LEMMA AndWithOnes ==
  ASSUME NEW a \in Nat, NEW n \in Nat, a < 2^n
  PROVE  BitsOp("and", a, 2^n - 1, n) = a /\ BitsOp("and", 2^n - 1, a, n) = a
<1> DEFINE o == 2^n - 1
           G == { k \in Nat : k <= n => /\ BitsOp("and", a, o, k) = a % 2^k
                                        /\ BitsOp("and", o, a, k) = a % 2^k }
<1>1. 0 \in G
  <2>1. a % 1 = 0
    OBVIOUS
  <2>2. QED
    BY <2>1, BitsOfNone, PowerZero DEF BitOps
<1>2. \A i \in 0 .. n - 1 : Holds(o, i)
  BY OnesHold
<1> HIDE DEF o
<1>3. ASSUME NEW k \in Nat, k \in G PROVE k + 1 \in G
  <2> SUFFICES ASSUME k + 1 <= n
               PROVE  /\ BitsOp("and", a, o, k + 1) = a % 2^(k + 1)
                      /\ BitsOp("and", o, a, k + 1) = a % 2^(k + 1)
    OBVIOUS
  <2>1. Holds(o, k)
    BY <1>2
  <2>2. (BitHolds("and", a, o, k) <=> Holds(a, k)) /\ (BitHolds("and", o, a, k) <=> Holds(a, k))
    BY <2>1 DEF BitHolds
  <2>3. QED
    BY <1>3, <2>2, BitsByOne, BitOfPower DEF BitOps
<1>4. \A k \in Nat : k \in G
  <2> HIDE DEF G
  <2> QED BY <1>1, <1>3, Induction
<1>5. a % 2^n = a
  BY Power, ModSmall
<1>6. QED
  BY <1>4, <1>5 DEF o

-----------------------------------------------------------------------------
(* Words: what an instruction computes, and what is kept where it is       *)
(* dropped.                                                                *)

WordVals == [known : BOOLEAN, word : Words]

LEMMA WordsAre ==
  /\ \A w : w \in Words <=> w \in Nat /\ w < WordMod
  /\ WordMod = 2^WordBits /\ WordBits \in Nat \ {0} /\ WordMod \in Nat \ {0}
  /\ 0 \in Words /\ WordMod - 1 \in Words
<1>1. WordMod = 2^WordBits /\ WordBits \in Nat \ {0}
  BY WordModIsPower, AluAssumption
<1>2. QED
  BY <1>1, WordModPositive DEF Words

LEMMA ModIsWord == ASSUME NEW n \in Int PROVE n % WordMod \in Words
<1>1. n % WordMod \in 0 .. WordMod - 1
  BY WordsAre, DivParts, Zenon
<1>2. QED
  BY <1>1 DEF Words

LEMMA MadeWords ==
  ASSUME NEW w \in Words
  PROVE  Reg(w) \in WordVals /\ Known(w) \in WordVals /\ Reg(w).word = w /\ Known(w).word = w
  BY DEF Reg, Known, WordVals

LEMMA PlainBinOp ==
  ASSUME NEW op, NEW x, NEW y,
         WordOp(op, x.word, y.word, FALSE) \in Words,
         \A z \in Identity(op, x, y) : z \in WordVals /\ z.word = WordOp(op, x.word, y.word, FALSE)
  PROVE  BinOp(op, x, y, FALSE) \in WordVals /\ BinOp(op, x, y, FALSE).word = WordOp(op, x.word, y.word, FALSE)
<1>1. CASE x.known /\ y.known
  BY <1>1, MadeWords DEF BinOp
<1>2. CASE ~(x.known /\ y.known) /\ Identity(op, x, y) # {}
  <2>1. (CHOOSE z \in Identity(op, x, y) : TRUE) \in Identity(op, x, y)
    BY <1>2
  <2>2. BinOp(op, x, y, FALSE) = CHOOSE z \in Identity(op, x, y) : TRUE
    BY <1>2 DEF BinOp
  <2>3. QED
    BY <2>1, <2>2
<1>3. CASE ~(x.known /\ y.known) /\ ~(Identity(op, x, y) # {})
  BY <1>3, MadeWords DEF BinOp
<1>4. QED
  BY <1>1, <1>2, <1>3

LEMMA SignedBinOp ==
  ASSUME NEW op, NEW x, NEW y,
         WordOp(op, x.word, y.word, TRUE) \in Words,
         \A z \in Identity(op, x, y) : z \in WordVals /\ z.word = WordOp(op, x.word, y.word, TRUE)
  PROVE  BinOp(op, x, y, TRUE) \in WordVals /\ BinOp(op, x, y, TRUE).word = WordOp(op, x.word, y.word, TRUE)
<1>1. CASE x.known /\ y.known
  BY <1>1, MadeWords DEF BinOp
<1>2. CASE ~(x.known /\ y.known) /\ Identity(op, x, y) # {}
  <2>1. (CHOOSE z \in Identity(op, x, y) : TRUE) \in Identity(op, x, y)
    BY <1>2
  <2>2. BinOp(op, x, y, TRUE) = CHOOSE z \in Identity(op, x, y) : TRUE
    BY <1>2 DEF BinOp
  <2>3. QED
    BY <2>1, <2>2
<1>3. CASE ~(x.known /\ y.known) /\ ~(Identity(op, x, y) # {})
  BY <1>3, MadeWords DEF BinOp
<1>4. QED
  BY <1>1, <1>2, <1>3

LEMMA BinAdd ==
  ASSUME NEW x \in WordVals, NEW y \in WordVals
  PROVE  /\ BinOp("add", x, y, FALSE) \in WordVals
         /\ BinOp("add", x, y, FALSE).word = (x.word + y.word) % WordMod
<1> DEFINE w == (x.word + y.word) % WordMod
<1>1. x.word \in Words /\ y.word \in Words /\ x.word \in Int /\ y.word \in Int
  BY WordsAre DEF WordVals
<1>2. w \in Words
  BY <1>1, ModIsWord
<1>3. x.word % WordMod = x.word /\ y.word % WordMod = y.word
  BY <1>1, WordStays
<1>4. w = WordOp("add", x.word, y.word, FALSE)
  BY <1>1 DEF WordOp, AddC
<1>5. \A z \in Identity("add", x, y) : z \in WordVals /\ z.word = w
  <2>1. \A z \in Identity("add", x, y) : (z = y /\ x.word = 0) \/ (z = x /\ y.word = 0)
    BY DEF Identity, Is
  <2>2. QED
    BY <1>1, <1>3, <2>1
<1> HIDE DEF w
<1>6. BinOp("add", x, y, FALSE) \in WordVals /\ BinOp("add", x, y, FALSE).word = w
  <2>1. WordOp("add", x.word, y.word, FALSE) \in Words
    BY <1>2, <1>4, Zenon
  <2>2. \A z \in Identity("add", x, y) :
            z \in WordVals /\ z.word = WordOp("add", x.word, y.word, FALSE)
    BY <1>4, <1>5, Zenon
  <2>3. /\ BinOp("add", x, y, FALSE) \in WordVals
        /\ BinOp("add", x, y, FALSE).word = WordOp("add", x.word, y.word, FALSE)
    BY <2>1, <2>2, PlainBinOp, Zenon
  <2>4. QED
    BY <1>4, <2>3, Zenon
<1>7. QED
  BY <1>6 DEF w

LEMMA BinBits ==
  ASSUME NEW op \in BitOps, NEW x \in WordVals, NEW y \in WordVals
  PROVE  /\ BinOp(op, x, y, FALSE) \in WordVals
         /\ BinOp(op, x, y, FALSE).word = BitsOp(op, x.word, y.word, WordBits)
<1> DEFINE w == BitsOp(op, x.word, y.word, WordBits)
<1>1. /\ x.word \in Words /\ y.word \in Words /\ x.word \in Nat /\ y.word \in Nat
      /\ x.word < 2^WordBits /\ y.word < 2^WordBits /\ WordBits \in Nat /\ WordMod = 2^WordBits
  BY WordsAre DEF WordVals
<1>2. w \in Words
  BY <1>1, BitsBelow DEF Words
<1>3. w = WordOp(op, x.word, y.word, FALSE)
  BY DEF WordOp, BitOps
<1>4. \A z \in Identity(op, x, y) : z \in WordVals /\ z.word = w
  <2>1. CASE op \in {"or", "xor"}
    <3>1. \A z \in Identity(op, x, y) : (z = y /\ x.word = 0) \/ (z = x /\ y.word = 0)
      BY <2>1 DEF Identity, Is
    <3>2. x.word = 0 => w = y.word
      BY <1>1, <2>1, BitsWithZero
    <3>3. y.word = 0 => w = x.word
      BY <1>1, <2>1, BitsWithZero
    <3>4. QED
      BY <3>1, <3>2, <3>3
  <2>2. CASE op = "and"
    <3>1. \A z \in Identity(op, x, y) :
              \/ z = Known(0) /\ (x.word = 0 \/ y.word = 0)
              \/ z = y /\ x.word = WordMod - 1
              \/ z = x /\ y.word = WordMod - 1
      BY <2>2 DEF Identity, Is
    <3>2. x.word = 0 \/ y.word = 0 => w = 0
      BY <1>1, <2>2, AndWithZero
    <3>3. x.word = WordMod - 1 => w = y.word
      BY <1>1, <2>2, AndWithOnes
    <3>4. y.word = WordMod - 1 => w = x.word
      BY <1>1, <2>2, AndWithOnes
    <3>5. QED
      BY <3>1, <3>2, <3>3, <3>4, WordsAre, MadeWords
  <2>3. QED
    BY <2>1, <2>2 DEF BitOps
<1> HIDE DEF w
<1>5. BinOp(op, x, y, FALSE) \in WordVals /\ BinOp(op, x, y, FALSE).word = w
  <2>1. WordOp(op, x.word, y.word, FALSE) \in Words
    BY <1>2, <1>3, Zenon
  <2>2. \A z \in Identity(op, x, y) :
            z \in WordVals /\ z.word = WordOp(op, x.word, y.word, FALSE)
    BY <1>3, <1>4, Zenon
  <2>3. /\ BinOp(op, x, y, FALSE) \in WordVals
        /\ BinOp(op, x, y, FALSE).word = WordOp(op, x.word, y.word, FALSE)
    BY <2>1, <2>2, PlainBinOp, Zenon
  <2>4. QED
    BY <1>3, <2>3, Zenon
<1>6. QED
  BY <1>5 DEF w

LEMMA BinMul ==
  ASSUME NEW x \in WordVals, NEW y \in WordVals
  PROVE  /\ BinOp("mul", x, y, FALSE) \in WordVals
         /\ BinOp("mul", x, y, FALSE).word = (x.word * y.word) % WordMod
<1> DEFINE w == (x.word * y.word) % WordMod
<1>1. x.word \in Words /\ y.word \in Words /\ x.word \in Int /\ y.word \in Int
  BY WordsAre DEF WordVals
<1>2. x.word * y.word \in Int
  BY <1>1, Z3
<1>3. w \in Words
  BY <1>2, ModIsWord
<1>4. WordOp("mul", x.word, y.word, FALSE) = ((x.word * y.word) % PairMod) % WordMod
  BY DEF WordOp, Product
<1>5. w = WordOp("mul", x.word, y.word, FALSE)
  BY <1>2, <1>4, ModOfMod, WordsAre DEF PairMod
<1>6. \A z \in Identity("mul", x, y) : z \in WordVals /\ z.word = w
  <2>1. \A z \in Identity("mul", x, y) :
            \/ z = Known(0) /\ (x.word = 0 \/ y.word = 0)
            \/ z = y /\ x.word = 1
            \/ z = x /\ y.word = 1
    BY DEF Identity, Is
  <2>2. \A a \in Int : 0 * a = 0 /\ a * 0 = 0 /\ 1 * a = a /\ a * 1 = a
    OBVIOUS
  <2>3. 0 % WordMod = 0 /\ x.word % WordMod = x.word /\ y.word % WordMod = y.word
    BY <1>1, WordStays, WordsAre
  <2>4. x.word = 0 \/ y.word = 0 => w = 0
    BY <1>1, <2>2, <2>3
  <2>5. (x.word = 1 => w = y.word) /\ (y.word = 1 => w = x.word)
    BY <1>1, <2>2, <2>3
  <2> HIDE DEF w
  <2>6. QED
    BY <2>1, <2>4, <2>5, WordsAre, MadeWords
<1> HIDE DEF w
<1>7. BinOp("mul", x, y, FALSE) \in WordVals /\ BinOp("mul", x, y, FALSE).word = w
  <2>1. WordOp("mul", x.word, y.word, FALSE) \in Words
    BY <1>3, <1>5, Zenon
  <2>2. \A z \in Identity("mul", x, y) :
            z \in WordVals /\ z.word = WordOp("mul", x.word, y.word, FALSE)
    BY <1>5, <1>6, Zenon
  <2>3. /\ BinOp("mul", x, y, FALSE) \in WordVals
        /\ BinOp("mul", x, y, FALSE).word = WordOp("mul", x.word, y.word, FALSE)
    BY <2>1, <2>2, PlainBinOp, Zenon
  <2>4. QED
    BY <1>5, <2>3, Zenon
<1>8. QED
  BY <1>7 DEF w

LEMMA ShiftLeftWord ==
  ASSUME NEW x \in WordVals, NEW k \in Nat
  PROVE  /\ ShiftWord("shl", x, k, FALSE) \in WordVals
         /\ ShiftWord("shl", x, k, FALSE).word = (x.word * 2^k) % WordMod
<1>1. x.word \in Words /\ x.word \in Int
  BY WordsAre DEF WordVals
<1>2. PICK p \in Nat \ {0} : p = 2^k
  BY Power
<1>3. WordOp("shl", x.word, Known(k).word, FALSE) = (x.word * p) % WordMod
  BY <1>2 DEF WordOp, Shl, Known
<1>4. (x.word * p) % WordMod \in Words
  <2>1. x.word * p \in Int
    BY <1>1, Z3
  <2>2. QED
    BY <2>1, ModIsWord
<1>5. \A z \in Identity("shl", x, Known(k)) : z = x /\ (x.word = 0 \/ k = 0)
  BY DEF Identity, Is, Known
<1>6. x.word = 0 \/ k = 0 => x.word = (x.word * p) % WordMod
  <2>1. x.word % WordMod = x.word
    BY <1>1, WordStays
  <2>2. CASE x.word = 0
    BY <2>1, <2>2
  <2>3. CASE k = 0
    <3>1. p = 1
      BY <1>2, <2>3, PowerZero
    <3>2. x.word * 1 = x.word
      BY <1>1
    <3>3. QED
      BY <2>1, <3>1, <3>2
  <2>4. QED
    BY <2>2, <2>3
<1>7. \A z \in Identity("shl", x, Known(k)) :
         z \in WordVals /\ z.word = WordOp("shl", x.word, Known(k).word, FALSE)
  BY <1>3, <1>5, <1>6
<1>8. WordOp("shl", x.word, Known(k).word, FALSE) \in Words
  BY <1>3, <1>4, Zenon
<1>9. QED
  BY <1>2, <1>3, <1>7, <1>8, PlainBinOp, Zenon DEF ShiftWord

LEMMA ShiftRightWord ==
  ASSUME NEW x \in WordVals, NEW k \in Nat
  PROVE  /\ ShiftWord("shr", x, k, FALSE) \in WordVals
         /\ ShiftWord("shr", x, k, FALSE).word = x.word \div 2^k
<1>1. x.word \in Words /\ x.word \in Nat /\ x.word < WordMod
  BY WordsAre DEF WordVals
<1>2. PICK p \in Nat \ {0} : p = 2^k
  BY Power
<1>3. WordOp("shr", x.word, Known(k).word, FALSE) = x.word \div p
  BY <1>2 DEF WordOp, Shr, Known
<1>4. x.word \div p \in Words
  <2>1. x.word \div p \in Nat /\ x.word \div p <= x.word
    BY <1>1, DivPositive
  <2>2. QED
    BY <1>1, <2>1, WordsAre
<1>5. \A z \in Identity("shr", x, Known(k)) : z = x /\ (x.word = 0 \/ k = 0)
  BY DEF Identity, Is, Known
<1>6. x.word = 0 \/ k = 0 => x.word = x.word \div p
  <2>1. CASE x.word = 0
    BY <2>1, ModSmall
  <2>2. CASE k = 0
    <3>1. p = 1
      BY <1>2, <2>2, PowerZero
    <3>2. x.word \div 1 = x.word
      BY <1>1
    <3>3. QED
      BY <3>1, <3>2
  <2>3. QED
    BY <2>1, <2>2
<1>7. \A z \in Identity("shr", x, Known(k)) :
         z \in WordVals /\ z.word = WordOp("shr", x.word, Known(k).word, FALSE)
  BY <1>3, <1>5, <1>6
<1>8. WordOp("shr", x.word, Known(k).word, FALSE) \in Words
  BY <1>3, <1>4, Zenon
<1>9. QED
  BY <1>2, <1>3, <1>7, <1>8, PlainBinOp, Zenon DEF ShiftWord

(* A word and the integer that it stands for differ by a whole WordMod.    *)
LEMMA SignedWordIs ==
  ASSUME NEW w \in Words
  PROVE  /\ SignedWord(w) \in Int
         /\ -SignBit <= SignedWord(w) /\ SignedWord(w) < SignBit
         /\ SignedWord(w) = IF w >= SignBit THEN w - WordMod ELSE w
         /\ SignedWord(w) % WordMod = w
<1>1. SignedWord(w) = (IF w >= SignBit THEN w - WordMod ELSE w) /\ SignedWord(w) \in Int
  BY WordModPositive DEF SignedWord, Words
<1>2. SignedWord(w) % WordMod = w
  <2>1. CASE w >= SignBit
    <3>1. SignedWord(w) = (-1) * WordMod + w /\ w \in Int /\ 0 <= w /\ w < WordMod
      BY <1>1, <2>1, WordModPositive DEF Words
    <3>2. QED
      BY <1>1, <3>1, DivUnique, WordModPositive, -1 \in Int
  <2>2. CASE ~(w >= SignBit)
    BY <1>1, <2>2, WordStays
  <2>3. QED
    BY <2>1, <2>2
<1>3. QED
  BY <1>1, <1>2, WordModPositive DEF Words

LEMMA ShiftSignedWord ==
  ASSUME NEW x \in WordVals, NEW k \in Nat
  PROVE  /\ ShiftWord("shr", x, k, TRUE) \in WordVals
         /\ ShiftWord("shr", x, k, TRUE).word = (SignedWord(x.word) \div 2^k) % WordMod
<1>1. x.word \in Words
  BY DEF WordVals
<1>2. PICK p \in Nat \ {0}, s \in Int : p = 2^k /\ s = SignedWord(x.word)
  BY <1>1, Power, SignedWordIs
<1>3. WordOp("shr", x.word, Known(k).word, TRUE) = (s \div p) % WordMod
  BY <1>2 DEF WordOp, Ashr, Known
<1>4. (s \div p) % WordMod \in Words
  BY DivParts, ModIsWord
<1>5. \A z \in Identity("shr", x, Known(k)) : z = x /\ (x.word = 0 \/ k = 0)
  BY DEF Identity, Is, Known
<1>6. x.word = 0 \/ k = 0 => x.word = (s \div p) % WordMod
  <2>1. s % WordMod = x.word
    BY <1>1, <1>2, SignedWordIs
  <2>2. CASE x.word = 0
    <3>1. s = 0
      BY <1>2, <2>2, WordModPositive DEF SignedWord
    <3>2. s \div p = 0
      BY <3>1, ModSmall
    <3>3. QED
      BY <2>1, <3>1, <3>2
  <2>3. CASE k = 0
    <3>1. p = 1
      BY <1>2, <2>3, PowerZero
    <3>2. s \div 1 = s
      OBVIOUS
    <3>3. QED
      BY <2>1, <3>1, <3>2
  <2>4. QED
    BY <2>2, <2>3
<1>7. \A z \in Identity("shr", x, Known(k)) :
         z \in WordVals /\ z.word = WordOp("shr", x.word, Known(k).word, TRUE)
  BY <1>3, <1>5, <1>6
<1>8. WordOp("shr", x.word, Known(k).word, TRUE) \in Words
  BY <1>3, <1>4, Zenon
<1>9. QED
  BY <1>2, <1>3, <1>7, <1>8, SignedBinOp, Zenon DEF ShiftWord

-----------------------------------------------------------------------------
(* Pairs.                                                                  *)

IsPair(v) == v.lo \in WordVals /\ v.hi \in WordVals /\ v.sext \in BOOLEAN

LEMMA PairIs ==
  ASSUME NEW x \in WordVals, NEW y \in WordVals
  PROVE  IsPair(Pair(x, y)) /\ ValueOf(Pair(x, y)) = y.word * WordMod + x.word
  BY DEF IsPair, Pair, ValueOf

LEMMA WordsOfPair ==
  ASSUME NEW v, IsPair(v)
  PROVE  /\ v.lo.word \in Words /\ v.hi.word \in Words /\ IsVal(v)
         /\ v.lo.word \in Nat /\ v.hi.word \in Nat
         /\ v.lo.word < WordMod /\ v.hi.word < WordMod
         /\ ValueOf(v) = v.hi.word * WordMod + v.lo.word
         /\ ValueOf(v) \in Pairs /\ ValueOf(v) \in Nat
<1>1. v.lo.word \in Words /\ v.hi.word \in Words /\ IsVal(v)
  BY DEF IsPair, WordVals, IsVal
<1>2. ValueOf(v) = v.hi.word * WordMod + v.lo.word /\ ValueOf(v) \in Pairs
  BY <1>1, PairValue DEF ValueOf
<1>3. QED
  BY <1>1, <1>2, WordsAre DEF Pairs

(* What two words make of an integer modulo a pair.                        *)
LEMMA PairOfParts ==
  ASSUME NEW l \in Words, NEW h \in Words, NEW d \in Int, NEW n \in Int,
         n = (d * WordMod + h) * WordMod + l
  PROVE  n % PairMod = h * WordMod + l
<1>1. PICK m \in Nat \ {0} : m = WordMod
  BY WordModPositive
<1>2. l \in Int /\ h \in Int
  BY WordsAre
<1>3. (d * m + h) * m + l = d * (m * m) + (h * m + l)
  BY <1>2, Z3
<1>4. n = d * PairMod + (h * WordMod + l)
  BY <1>1, <1>3 DEF PairMod
<1>5. h * WordMod + l \in 0 .. PairMod - 1
  BY PairValue DEF Pairs
<1>6. QED
  BY <1>4, <1>5, PairValue, ModUnique

(* AND, OR and XOR of two pairs, a word at a time and with the constants   *)
(* 0 and all ones dropped, are those of the 32-bit values (v32_bitop).     *)
THEOREM BitOpIsExact ==
  ASSUME NEW op \in BitOps, NEW x, NEW y, IsPair(x), IsPair(y)
  PROVE  /\ IsPair(BitOp(op, x, y))
         /\ ValueOf(BitOp(op, x, y)) = BitsOp(op, ValueOf(x), ValueOf(y), 2 * WordBits)
<1>1. /\ BinOp(op, x.lo, y.lo, FALSE) \in WordVals
      /\ BinOp(op, x.lo, y.lo, FALSE).word = BitsOp(op, x.lo.word, y.lo.word, WordBits)
  BY BinBits DEF IsPair
<1>2. /\ BinOp(op, x.hi, y.hi, FALSE) \in WordVals
      /\ BinOp(op, x.hi, y.hi, FALSE).word = BitsOp(op, x.hi.word, y.hi.word, WordBits)
  BY BinBits DEF IsPair
<1>3. /\ IsPair(BitOp(op, x, y))
      /\ ValueOf(BitOp(op, x, y)) = BitsOp(op, x.hi.word, y.hi.word, WordBits) * WordMod
                                      + BitsOp(op, x.lo.word, y.lo.word, WordBits)
  BY <1>1, <1>2, PairIs DEF BitOp
<1>4. WordBits + WordBits = 2 * WordBits /\ WordMod = 2^WordBits /\ WordBits \in Nat
  BY WordsAre
<1>5. BitsOp(op, x.hi.word * 2^WordBits + x.lo.word, y.hi.word * 2^WordBits + y.lo.word, WordBits + WordBits)
        = BitsOp(op, x.hi.word, y.hi.word, WordBits) * 2^WordBits
            + BitsOp(op, x.lo.word, y.lo.word, WordBits)
  <2>1. /\ x.lo.word \in Nat /\ y.lo.word \in Nat /\ x.hi.word \in Nat /\ y.hi.word \in Nat
        /\ x.lo.word < 2^WordBits /\ y.lo.word < 2^WordBits
    BY <1>4, WordsOfPair
  <2>2. PICK a \in Nat, b \in Nat, g \in Nat, h \in Nat, k \in Nat :
          a = x.lo.word /\ b = y.lo.word /\ g = x.hi.word /\ h = y.hi.word /\ k = WordBits
    BY <1>4, <2>1
  <2>3. a < 2^k /\ b < 2^k
    BY <2>1, <2>2
  <2>4. BitsOp(op, g * 2^k + a, h * 2^k + b, k + k) = BitsOp(op, g, h, k) * 2^k + BitsOp(op, a, b, k)
    BY <2>3, BitsOfPairs
  <2>5. QED
    BY <2>2, <2>4, Zenon
<1>6. ValueOf(x) = x.hi.word * WordMod + x.lo.word /\ ValueOf(y) = y.hi.word * WordMod + y.lo.word
  BY WordsOfPair
<1>7. QED
  BY <1>3, <1>4, <1>5, <1>6, Zenon

-----------------------------------------------------------------------------
(* Shifts of a pair by less than a word: P is 2^n, and Q what is left.     *)

LEMMA LeftIdentity ==
  ASSUME NEW P \in Int, NEW Q \in Int, NEW d \in Int, NEW e \in Int, NEW t \in Int, NEW r \in Int
  PROVE  ((d * Q + e) * (Q * P) + (t * Q + r)) * P
           = (d * (Q * P) + (e * P + t)) * (Q * P) + r * P
  BY Z3

LEMMA RightIdentity ==
  ASSUME NEW P \in Int, NEW Q \in Int, NEW d \in Int, NEW e \in Int, NEW t \in Int, NEW r \in Int
  PROVE  (d * P + e) * (Q * P) + (t * P + r) = (d * (Q * P) + (e * Q + t)) * P + r
  BY Z3

LEMMA LeftByParts ==
  ASSUME NEW h \in Words, NEW l \in Words, NEW P \in Nat \ {0}, NEW Q \in Nat \ {0},
         WordMod = Q * P
  PROVE  /\ (h * P) % WordMod = (h % Q) * P
         /\ h % Q \in Nat
         /\ (l * P) % WordMod \in Words
         /\ l \div Q \in 0 .. P - 1
         /\ (h % Q) * P + (l \div Q) \in Words
         /\ ((h * WordMod + l) * P) % PairMod
              = ((h % Q) * P + (l \div Q)) * WordMod + ((l * P) % WordMod)
<1>0. h \in Int /\ l \in Int /\ l \in Nat /\ l < WordMod /\ WordMod \in Int
  BY WordsAre
<1>1. PICK t \in Int, r \in 0 .. Q - 1 : l = t * Q + r /\ t = l \div Q /\ r = l % Q
  BY <1>0, DivParts
<1>2. PICK d \in Int, e \in 0 .. Q - 1 : h = d * Q + e /\ d = h \div Q /\ e = h % Q
  BY <1>0, DivParts
<1>3. t \in 0 .. P - 1
  BY <1>0, <1>1, QuotientBelow
<1>4. (h * P) % (Q * P) = (h % Q) * P /\ (l * P) % (Q * P) = (l % Q) * P
  BY <1>0, DivScaled
<1>5. e * P + t \in 0 .. (Q * P) - 1
  BY <1>3, Below
<1>6. l * P \in Int /\ (h * WordMod + l) * P \in Int
  <2>1. PICK w \in Int : w = WordMod
    BY <1>0
  <2>2. l * P \in Int /\ (h * w + l) * P \in Int
    BY <1>0, Z3
  <2>3. QED
    BY <2>1, <2>2
<1>7. (l * P) % WordMod \in Words
  BY <1>6, ModIsWord
<1>8. e * P + t \in Words
  BY <1>5, WordsAre
<1>9. (h * WordMod + l) * P = (d * WordMod + (e * P + t)) * WordMod + ((l * P) % WordMod)
  <2>1. ((d * Q + e) * (Q * P) + (t * Q + r)) * P = (d * (Q * P) + (e * P + t)) * (Q * P) + r * P
    BY LeftIdentity, d \in Int, e \in Int, t \in Int, r \in Int, P \in Int, Q \in Int
  <2>2. (l * P) % WordMod = r * P
    BY <1>1, <1>4
  <2>3. QED
    BY <1>1, <1>2, <2>1, <2>2, Zenon
<1>10. ((h * WordMod + l) * P) % PairMod = (e * P + t) * WordMod + ((l * P) % WordMod)
  <2>1. PICK n \in Int, a \in Words, b \in Words :
          n = (h * WordMod + l) * P /\ a = e * P + t /\ b = (l * P) % WordMod
    BY <1>6, <1>7, <1>8
  <2>2. n = (d * WordMod + a) * WordMod + b
    BY <1>9, <2>1, Zenon
  <2>3. n % PairMod = a * WordMod + b
    BY <2>2, PairOfParts
  <2>4. QED
    BY <2>1, <2>3, Zenon
<1>11. e \in Nat
  OBVIOUS
<1>12. QED
  BY <1>1, <1>2, <1>3, <1>4, <1>7, <1>8, <1>10, <1>11, Zenon

LEMMA RightByParts ==
  ASSUME NEW h \in Words, NEW l \in Words, NEW P \in Nat \ {0}, NEW Q \in Nat \ {0},
         WordMod = Q * P, NEW s \in Int, s % P = h % P
  PROVE  /\ (h * Q) % WordMod = (h % P) * Q
         /\ h % P \in Nat
         /\ l \div P \in 0 .. Q - 1
         /\ (h % P) * Q + (l \div P) \in Words
         /\ (s \div P) % WordMod \in Words
         /\ ((s * WordMod + l) \div P) % PairMod
              = ((s \div P) % WordMod) * WordMod + ((h % P) * Q + (l \div P))
<1>0. h \in Int /\ l \in Int /\ l \in Nat /\ l < WordMod /\ WordMod \in Int
  BY WordsAre
<1>1. PICK t \in Int, r \in 0 .. P - 1 : l = t * P + r /\ t = l \div P /\ r = l % P
  BY <1>0, DivParts
<1>2. PICK d \in Int, e \in 0 .. P - 1 : s = d * P + e /\ d = s \div P /\ e = h % P
  BY DivParts
<1>3. Q * P = P * Q
  BY Z3
<1>4. t \in 0 .. Q - 1
  <2>1. l < P * Q /\ l \in Nat
    BY <1>3, WordsAre
  <2>2. QED
    BY <1>1, <2>1, QuotientBelow
<1>5. (h * Q) % (P * Q) = (h % P) * Q
  BY <1>0, DivScaled
<1>6. e * Q + t \in 0 .. (P * Q) - 1
  BY <1>4, Below
<1>7. e * Q + t \in Words
  BY <1>3, <1>6, WordsAre
<1>8. PICK u \in Int, v \in Words : d = u * WordMod + v /\ v = d % WordMod
  BY <1>0, DivParts, ModIsWord, WordsAre
<1>9. (s * WordMod + l) \div P = d * WordMod + (e * Q + t)
  <2>1. (d * P + e) * (Q * P) + (t * P + r) = (d * (Q * P) + (e * Q + t)) * P + r
    BY RightIdentity, d \in Int, e \in Int, t \in Int, r \in Int, P \in Int, Q \in Int
  <2>2. PICK k \in Int : k = d * (Q * P) + (e * Q + t)
    <3>1. e \in Int /\ t \in Int
      OBVIOUS
    <3>2. d * (Q * P) + (e * Q + t) \in Int
      BY <3>1, Z3
    <3>3. QED
      BY <3>2
  <2>3. s * WordMod + l = k * P + r
    BY <1>1, <1>2, <2>1, <2>2, Zenon
  <2>4. k * P + r \in Int
    <3>1. r \in Int
      OBVIOUS
    <3>2. QED
      BY <3>1, Z3
  <2>5. (k * P + r) \div P = k
    BY <2>4, DivUnique, r \in Int, 0 <= r, r < P
  <2>6. QED
    BY <2>2, <2>3, <2>5, Zenon
<1>10. PICK m \in Int : m = d * WordMod + (e * Q + t)
  <2>1. e * Q + t \in Int /\ WordMod \in Int
    BY <1>7, WordsAre
  <2>2. PICK a \in Int, w \in Int : a = e * Q + t /\ w = WordMod
    BY <2>1
  <2>3. d * w + a \in Int
    BY Z3
  <2>4. QED
    BY <2>2, <2>3
<1>11. m % PairMod = v * WordMod + (e * Q + t)
  <2>1. m = (u * WordMod + v) * WordMod + (e * Q + t)
    BY <1>8, <1>10, Zenon
  <2>2. QED
    BY <1>7, <2>1, PairOfParts
<1>12. (s \div P) % WordMod = v /\ (h * Q) % WordMod = (h % P) * Q
  BY <1>2, <1>3, <1>5, <1>8
<1>13. QED
  <2>1. e \in Nat
    OBVIOUS
  <2>2. QED
    BY <1>1, <1>2, <1>4, <1>7, <1>9, <1>10, <1>11, <1>12, <2>1, Zenon

(* Shifts by a word or more.                                               *)
LEMMA LeftByWord ==
  ASSUME NEW h \in Int, NEW l \in Int, NEW S \in Int, NEW w \in Nat \ {0}
  PROVE  ((h * w + l) * (S * w)) % (w * w) = ((l * S) % w) * w
<1>1. (h * w + l) * (S * w) = ((h * w + l) * S) * w
  BY Z3
<1>2. (h * w + l) * S = (h * S) * w + l * S
  BY Z3
<1>3. PICK a \in Int, b \in Int, c \in Int : a = h * S /\ b = l * S /\ c = (h * w + l) * S
  <2>1. h * S \in Int /\ l * S \in Int /\ (h * w + l) * S \in Int
    BY Z3
  <2>2. QED
    BY <2>1
<1>4. (c * w) % (w * w) = (c % w) * w
  BY DivScaled
<1>5. (a * w + b) % w = b % w
  BY ModOfMultiple
<1>6. c = a * w + b
  BY <1>2, <1>3, Zenon
<1>7. QED
  BY <1>1, <1>3, <1>4, <1>5, <1>6, Zenon

(* An integer of a signed word: its pair repeats the sign.                 *)
LEMMA SignedFits ==
  ASSUME NEW q \in Int, -SignBit <= q, q < SignBit
  PROVE  /\ q % WordMod \in Words
         /\ q % WordMod = IF q < 0 THEN q + WordMod ELSE q
         /\ q % WordMod >= SignBit <=> q < 0
         /\ SignedWord(q % WordMod) = q
         /\ SignExtension(q % WordMod) = IF q < 0 THEN WordMod - 1 ELSE 0
         /\ q % PairMod = SignExtension(q % WordMod) * WordMod + (q % WordMod)
<1>1. q % WordMod = IF q < 0 THEN q + WordMod ELSE q
  <2>1. -WordMod <= q /\ q < 2 * WordMod /\ q < WordMod /\ WordMod \in Nat \ {0}
    BY WordModPositive
  <2>2. q % WordMod = IF q < 0 THEN q + WordMod ELSE IF q < WordMod THEN q ELSE q - WordMod
    BY <2>1, WrapsOnce
  <2>3. QED
    BY <2>1, <2>2
<1>2. PICK w \in Words : w = q % WordMod
  BY ModIsWord
<1>3. w >= SignBit <=> q < 0
  BY <1>1, <1>2, WordModPositive
<1>4. SignedWord(w) = q /\ SignExtension(w) = IF q < 0 THEN WordMod - 1 ELSE 0
  BY <1>1, <1>2, <1>3, WordModPositive DEF SignedWord, SignExtension
<1>5. PICK m \in Nat \ {0} : m = WordMod
  BY WordModPositive
<1>6. q % PairMod = SignExtension(w) * WordMod + w
  <2>1. CASE q < 0
    <3>1. q = ((-1) * m + (m - 1)) * m + (q + m)
      BY Z3
    <3>2. q = ((-1) * WordMod + (WordMod - 1)) * WordMod + w
      BY <1>1, <1>2, <1>5, <2>1, <3>1
    <3>3. WordMod - 1 \in Words /\ -1 \in Int
      BY WordsAre
    <3>4. QED
      BY <1>4, <2>1, <3>2, <3>3, PairOfParts
  <2>2. CASE ~(q < 0)
    <3>1. PICK z \in Words : z = 0
      BY WordsAre
    <3>2. q = (z * WordMod + z) * WordMod + w /\ z \in Int
      BY <1>1, <1>2, <2>2, <3>1, WordModPositive
    <3>3. q % PairMod = z * WordMod + w
      BY <3>2, PairOfParts
    <3>4. QED
      BY <1>4, <2>2, <3>1, <3>3
  <2>3. QED
    BY <2>1, <2>2
<1>7. QED
  BY <1>1, <1>2, <1>3, <1>4, <1>6

LEMMA NumberIs ==
  ASSUME NEW v, IsPair(v), NEW signed \in BOOLEAN
  PROVE  /\ Number(ValueOf(v), signed) \in Int
         /\ Number(ValueOf(v), signed)
              = (IF signed THEN SignedWord(v.hi.word) ELSE v.hi.word) * WordMod + v.lo.word
         /\ Number(ValueOf(v), signed) % PairMod = ValueOf(v)
<1>1. /\ v.lo.word \in Words /\ v.hi.word \in Words /\ ValueOf(v) \in Pairs
      /\ ValueOf(v) = v.hi.word * WordMod + v.lo.word
  BY WordsOfPair
<1>2. PICK h \in Words, l \in Words, p \in Pairs : h = v.hi.word /\ l = v.lo.word /\ p = ValueOf(v)
  BY <1>1
<1>3. p \in Nat /\ p < PairMod /\ PairMod \in Nat \ {0}
  BY PairValue DEF Pairs
<1>4. SignedPair(p) = SignedWord(h) * WordMod + l
  BY <1>1, <1>2, SignOfPair
<1>5. Number(p, TRUE) = SignedPair(p) /\ Number(p, FALSE) = p
  BY DEF Number
<1>6. SignedPair(p) \in Int /\ SignedPair(p) % PairMod = p
  <2>1. CASE SignedPair(p) = p
    BY <1>3, <2>1, ModSmall
  <2>2. CASE SignedPair(p) = p - PairMod
    <3>1. p - PairMod = (-1) * PairMod + p /\ p - PairMod \in Int /\ -1 \in Int
      BY <1>3
    <3>2. (p - PairMod) % PairMod = p % PairMod
      <4>1. PICK a \in Int, b \in Int, m \in Nat \ {0} : a = p - PairMod /\ b = p /\ m = PairMod
        BY <1>3, <3>1
      <4>2. a = (-1) * m + b
        BY <4>1
      <4>3. a % m = b % m
        BY <4>2, ModSame, -1 \in Int
      <4>4. QED
        BY <4>1, <4>3, Zenon
    <3>3. QED
      BY <1>3, <2>2, <3>1, <3>2, ModSmall
  <2>3. QED
    BY <2>1, <2>2 DEF SignedPair
<1>7. CASE signed
  BY <1>2, <1>4, <1>5, <1>6, <1>7
<1>8. CASE ~signed
  <2>1. p % PairMod = p
    BY <1>3, ModSmall
  <2>2. Number(ValueOf(v), signed) = p /\ signed = FALSE
    BY <1>2, <1>8 DEF Number
  <2>3. QED
    BY <1>1, <1>2, <1>3, <1>8, <2>1, <2>2
<1>9. QED
  BY <1>7, <1>8

LEMMA Halves ==
  ASSUME NEW n \in 1 .. WordBits - 1
  PROVE  /\ 2^n \in Nat \ {0} /\ 2^(WordBits - n) \in Nat \ {0}
         /\ n \in Nat /\ WordBits - n \in Nat /\ n <= WordBits /\ WordBits - n <= WordBits
         /\ WordMod = 2^(WordBits - n) * 2^n
         /\ WordMod = 2^n * 2^(WordBits - n)
<1>1. n \in Nat /\ WordBits - n \in Nat /\ n <= WordBits /\ WordBits \in Nat
      /\ WordBits - n <= WordBits
  BY WordsAre
<1>2. WordMod = 2^(WordBits - n) * 2^n
  BY <1>1, PowerSplit, WordsAre
<1>3. PICK a \in Nat \ {0}, b \in Nat \ {0} : a = 2^n /\ b = 2^(WordBits - n)
  BY <1>1, Power
<1>4. b * a = a * b
  BY Z3
<1>5. QED
  BY <1>1, <1>2, <1>3, <1>4

(* Shifting left: SHL of both words, with the bits that cross joined by OR.*)
LEMMA ShiftLeftIsExact ==
  ASSUME NEW x, IsPair(x), NEW n \in 1 .. 2 * WordBits - 1
  PROVE  /\ IsPair(ShiftLeft(x, n))
         /\ ValueOf(ShiftLeft(x, n)) = (ValueOf(x) * 2^n) % PairMod
<1>1. /\ x.lo \in WordVals /\ x.hi \in WordVals
      /\ ValueOf(x) = x.hi.word * WordMod + x.lo.word
  BY WordsOfPair DEF IsPair
<1>2. PICK h \in Words, l \in Words : h = x.hi.word /\ l = x.lo.word
  BY WordsOfPair
<1>3. CASE n >= WordBits
  <2>1. n - WordBits \in Nat /\ n \in Nat /\ WordBits \in Nat /\ WordBits <= n
    BY <1>3, WordsAre
  <2>2. 2^n = 2^(n - WordBits) * WordMod
    BY <2>1, PowerSplit, WordsAre
  <2>3. PICK S \in Nat \ {0}, w \in Nat \ {0} : S = 2^(n - WordBits) /\ w = WordMod
    BY <2>1, Power, WordsAre
  <2> DEFINE z == ShiftWord("shl", x.lo, n - WordBits, FALSE)
  <2>4. z \in WordVals /\ z.word = (l * S) % w
    BY <1>1, <1>2, <2>1, <2>3, ShiftLeftWord
  <2>5. ShiftLeft(x, n) = Pair(Known(0), z)
    BY <1>3 DEF ShiftLeft
  <2> HIDE DEF z
  <2>6. IsPair(ShiftLeft(x, n)) /\ ValueOf(ShiftLeft(x, n)) = ((l * S) % w) * w + 0
    BY <2>3, <2>4, <2>5, PairIs, MadeWords, WordsAre
  <2>7. (l * S) % w \in Int
    BY <2>3, <2>4, WordsAre DEF WordVals
  <2>8. ((l * S) % w) * w + 0 = ((l * S) % w) * w
    <3>1. \A a \in Int : a * w + 0 = a * w
      BY Z3
    <3>2. QED
      BY <2>7, <3>1
  <2>9. ((h * w + l) * (S * w)) % (w * w) = ((l * S) % w) * w
    BY LeftByWord, WordsAre
  <2>10. PairMod = w * w
    BY <2>3 DEF PairMod
  <2>11. QED
    BY <1>1, <1>2, <2>2, <2>3, <2>6, <2>8, <2>9, <2>10, Zenon
<1>4. CASE ~(n >= WordBits)
  <2>1. n \in 1 .. WordBits - 1
    BY <1>4, WordsAre
  <2>2. PICK P \in Nat \ {0}, Q \in Nat \ {0} :
          P = 2^n /\ Q = 2^(WordBits - n) /\ WordMod = Q * P
    BY <2>1, Halves
  <2>3. n \in Nat /\ WordBits - n \in Nat /\ n <= WordBits /\ WordBits \in Nat
    BY <2>1, Halves, WordsAre
  <2> DEFINE lo == ShiftWord("shl", x.lo, n, FALSE)
             up == ShiftWord("shl", x.hi, n, FALSE)
             cross == ShiftWord("shr", x.lo, WordBits - n, FALSE)
             hi == BinOp("or", up, cross, FALSE)
  <2>4. lo \in WordVals /\ lo.word = (l * P) % WordMod
    BY <1>1, <1>2, <2>2, <2>3, ShiftLeftWord
  <2>5. up \in WordVals /\ up.word = (h * P) % WordMod
    BY <1>1, <1>2, <2>2, <2>3, ShiftLeftWord
  <2>6. cross \in WordVals /\ cross.word = l \div Q
    BY <1>1, <1>2, <2>2, <2>3, ShiftRightWord
  <2>7. ShiftLeft(x, n) = Pair(lo, hi)
    BY <1>4 DEF ShiftLeft
  <2>8. hi \in WordVals /\ hi.word = BitsOp("or", up.word, cross.word, WordBits)
    <3> HIDE DEF up, cross
    <3>1. "or" \in BitOps
      BY DEF BitOps
    <3>2. QED
      BY <2>5, <2>6, <3>1, BinBits
  <2> HIDE DEF lo, up, cross, hi
  <2>9. /\ (h * P) % WordMod = (h % Q) * P
        /\ h % Q \in Nat
        /\ l \div Q \in 0 .. P - 1
        /\ (h % Q) * P + (l \div Q) \in Words
        /\ ((h * WordMod + l) * P) % PairMod
              = ((h % Q) * P + (l \div Q)) * WordMod + ((l * P) % WordMod)
    BY <2>2, LeftByParts
  <2>10. PICK c \in Nat, b \in Nat : c = h % Q /\ b = l \div Q /\ b < P
    BY <2>9
  <2>11. BitsOp("or", c * 2^n, b, WordBits) = c * 2^n + b
    <3>1. c * P + b < WordMod /\ WordMod = 2^WordBits
      BY <2>9, <2>10, WordsAre
    <3>2. PICK m \in Nat : m = c * P
      <4>1. c * P \in Nat
        BY Z3
      <4>2. QED
        BY <4>1
    <3>3. c * 2^n < 2^WordBits
      BY <2>2, <3>1, <3>2, WordsAre
    <3>4. PICK i \in Nat, j \in Nat : i = n /\ j = WordBits /\ i <= j
      BY <2>3
    <3>5. b < 2^i /\ c * 2^i < 2^j
      BY <2>2, <2>10, <3>3, <3>4, Zenon
    <3>6. BitsOp("or", c * 2^i, b, j) = c * 2^i + b
      BY <3>4, <3>5, OrOfParts
    <3>7. QED
      BY <3>4, <3>6, Zenon
  <2>12. hi.word = c * P + b
    BY <2>2, <2>5, <2>6, <2>8, <2>9, <2>10, <2>11, Zenon
  <2>13. IsPair(ShiftLeft(x, n)) /\ ValueOf(ShiftLeft(x, n)) = hi.word * WordMod + lo.word
    BY <2>4, <2>7, <2>8, PairIs
  <2>14. QED
    BY <1>1, <1>2, <2>2, <2>4, <2>9, <2>10, <2>12, <2>13, Zenon
<1>5. QED
  BY <1>3, <1>4

(* The number that a word is taken for, and the word that its quotient by  *)
(* a power leaves.                                                         *)
Taken(w, signed) == IF signed THEN SignedWord(w) ELSE w

LEMMA TakenIs ==
  ASSUME NEW h \in Words, NEW signed \in BOOLEAN
  PROVE  Taken(h, signed) \in Int /\ Taken(h, signed) % WordMod = h
<1>1. CASE signed
  BY <1>1, SignedWordIs DEF Taken
<1>2. CASE ~signed
  BY <1>2, WordStays, WordsAre DEF Taken
<1>3. QED
  BY <1>1, <1>2

LEMMA ShiftTaken ==
  ASSUME NEW x \in WordVals, NEW k \in Nat, NEW signed \in BOOLEAN
  PROVE  /\ ShiftWord("shr", x, k, signed) \in WordVals
         /\ ShiftWord("shr", x, k, signed).word = (Taken(x.word, signed) \div 2^k) % WordMod
<1>1. CASE signed
  <2>1. signed = TRUE
    BY <1>1
  <2>2. QED
    BY <2>1, ShiftSignedWord DEF Taken
<1>2. CASE ~signed
  <2>1. signed = FALSE
    BY <1>2
  <2>2. /\ ShiftWord("shr", x, k, FALSE) \in WordVals
        /\ ShiftWord("shr", x, k, FALSE).word = x.word \div 2^k
    BY ShiftRightWord
  <2>3. (x.word \div 2^k) % WordMod = x.word \div 2^k
    <3>1. x.word \div 2^k \in Words
      BY <2>2 DEF WordVals
    <3>2. QED
      BY <3>1, WordStays
  <2>4. QED
    BY <2>1, <2>2, <2>3 DEF Taken
<1>3. QED
  BY <1>1, <1>2

(* Numbers with one remainder by a multiple of P have one by P.            *)
LEMMA SameLowBits ==
  ASSUME NEW h \in Words, NEW s \in Int, s % WordMod = h,
         NEW P \in Nat \ {0}, NEW Q \in Nat \ {0}, WordMod = P * Q
  PROVE  s % P = h % P
<1>1. (s % (P * Q)) % P = s % P
  BY ModOfMod
<1>2. QED
  BY <1>1

(* A shift by a word or more leaves the quotient of the high word.         *)
LEMMA RightByWord ==
  ASSUME NEW s \in Int, NEW l \in Words, NEW k \in Nat
  PROVE  (s * WordMod + l) \div 2^(WordBits + k) = s \div 2^k
<1>1. PICK S \in Nat \ {0}, w \in Nat \ {0} : S = 2^k /\ w = WordMod /\ w = 2^WordBits
  BY Power, WordsAre
<1>2. 2^(WordBits + k) = w * S
  BY <1>1, PowerSum, WordsAre
<1>3. l \in Int /\ 0 <= l /\ l < w
  BY <1>1, WordsAre
<1>4. s * w + l \in Int
  BY <1>3, Z3
<1>5. (s * w + l) \div w = s
  BY <1>3, <1>4, DivUnique
<1>6. (s * w + l) \div (w * S) = ((s * w + l) \div w) \div S
  BY <1>4, DivTwice
<1>7. QED
  BY <1>1, <1>2, <1>5, <1>6, Zenon

(* What is left above it is its sign.                                      *)
LEMMA SignAbove ==
  ASSUME NEW h \in Words, NEW k \in Nat, NEW signed \in BOOLEAN
  PROVE  /\ (Taken(h, signed) \div 2^k) % WordMod \in Words
         /\ (Taken(h, signed) \div 2^k) % PairMod
              = (IF signed THEN SignExtension(h) ELSE 0) * WordMod
                  + ((Taken(h, signed) \div 2^k) % WordMod)
<1>1. PICK S \in Nat \ {0}, s \in Int : S = 2^k /\ s = Taken(h, signed)
  BY Power, TakenIs
<1>2. PICK q \in Int : /\ q = s \div S
                       /\ s >= 0 => 0 <= q /\ q <= s
                       /\ s < 0 => s <= q /\ q < 0
  BY QuotientNoLarger
<1>3. q % WordMod \in Words
  BY ModIsWord
<1>4. CASE signed
  <2>1. /\ -SignBit <= s /\ s < SignBit
        /\ s = IF h >= SignBit THEN h - WordMod ELSE h
    BY <1>1, <1>4, SignedWordIs DEF Taken
  <2>2. s < 0 <=> h >= SignBit
    BY <2>1, WordModPositive, WordsAre
  <2>3. -SignBit <= q /\ q < SignBit /\ (q < 0 <=> h >= SignBit)
    BY <1>2, <2>1, <2>2, WordModPositive
  <2>4. /\ SignExtension(q % WordMod) = IF q < 0 THEN WordMod - 1 ELSE 0
        /\ q % PairMod = SignExtension(q % WordMod) * WordMod + (q % WordMod)
    BY <2>3, SignedFits
  <2>5. SignExtension(h) = SignExtension(q % WordMod)
    BY <2>3, <2>4 DEF SignExtension
  <2>6. QED
    BY <1>1, <1>2, <1>3, <1>4, <2>4, <2>5
<1>5. CASE ~signed
  <2>1. s = h
    BY <1>1, <1>5 DEF Taken
  <2>2. q \in Words
    BY <1>2, <2>1, WordsAre
  <2>3. PICK z \in Words : z = 0
    BY WordsAre
  <2>4. q = (z * WordMod + z) * WordMod + q /\ z \in Int
    BY <2>3, WordsAre
  <2>5. q % PairMod = z * WordMod + q
    BY <2>2, <2>4, PairOfParts
  <2>6. q % WordMod = q
    BY <2>2, WordStays
  <2>7. QED
    BY <1>1, <1>2, <1>3, <1>5, <2>3, <2>5, <2>6
<1>6. QED
  BY <1>4, <1>5

LEMMA SignWord ==
  ASSUME NEW x \in WordVals, NEW signed \in BOOLEAN
  PROVE  /\ (IF signed THEN SignExtended(x) ELSE Known(0)) \in WordVals
         /\ (IF signed THEN SignExtended(x) ELSE Known(0)).word
              = IF signed THEN SignExtension(x.word) ELSE 0
<1>1. SignExtension(x.word) \in Words
  BY WordsAre DEF SignExtension
<1>2. SignExtended(x) \in WordVals /\ SignExtended(x).word = SignExtension(x.word)
  BY <1>1 DEF SignExtended, WordVals
<1>3. Known(0) \in WordVals /\ Known(0).word = 0
  BY MadeWords, WordsAre
<1>4. QED
  BY <1>2, <1>3

(* Shifting right: SHR or ASHR.                                            *)
LEMMA ShiftRightIsExact ==
  ASSUME NEW x, IsPair(x), NEW n \in 1 .. 2 * WordBits - 1, NEW signed \in BOOLEAN
  PROVE  /\ IsPair(ShiftRight(x, n, signed))
         /\ ValueOf(ShiftRight(x, n, signed)) = (Number(ValueOf(x), signed) \div 2^n) % PairMod
<1>1. x.lo \in WordVals /\ x.hi \in WordVals
  BY DEF IsPair
<1>2. PICK h \in Words, l \in Words, s \in Int :
        h = x.hi.word /\ l = x.lo.word /\ s = Taken(h, signed) /\ s % WordMod = h
  BY WordsOfPair, TakenIs
<1>3. Number(ValueOf(x), signed) = s * WordMod + l
  BY <1>2, NumberIs DEF Taken
<1>4. CASE n >= WordBits
  <2>1. PICK k \in Nat : k = n - WordBits /\ WordBits + k = n
    BY <1>4, WordsAre
  <2> DEFINE lo == ShiftWord("shr", x.hi, k, signed)
             hi == IF signed THEN SignExtended(x.hi) ELSE Known(0)
  <2>2. lo \in WordVals /\ lo.word = (s \div 2^k) % WordMod
    BY <1>1, <1>2, ShiftTaken
  <2>3. hi \in WordVals /\ hi.word = IF signed THEN SignExtension(h) ELSE 0
    BY <1>1, <1>2, SignWord
  <2>4. ShiftRight(x, n, signed) = Pair(lo, hi)
    BY <1>4, <2>1 DEF ShiftRight
  <2> HIDE DEF lo, hi
  <2>5. /\ IsPair(ShiftRight(x, n, signed))
        /\ ValueOf(ShiftRight(x, n, signed)) = hi.word * WordMod + lo.word
    BY <2>2, <2>3, <2>4, PairIs
  <2>6. (s \div 2^k) % PairMod = hi.word * WordMod + lo.word
    BY <1>2, <2>2, <2>3, SignAbove
  <2>7. (s * WordMod + l) \div 2^n = s \div 2^k
    BY <2>1, RightByWord
  <2>8. QED
    BY <1>3, <2>5, <2>6, <2>7, Zenon
<1>5. CASE ~(n >= WordBits)
  <2>1. n \in 1 .. WordBits - 1
    BY <1>5, WordsAre
  <2>2. PICK P \in Nat \ {0}, Q \in Nat \ {0} :
          P = 2^n /\ Q = 2^(WordBits - n) /\ WordMod = Q * P /\ WordMod = P * Q
    BY <2>1, Halves
  <2>3. n \in Nat /\ WordBits - n \in Nat /\ WordBits - n <= WordBits /\ WordBits \in Nat
    BY <2>1, Halves, WordsAre
  <2>4. s % P = h % P
    BY <1>2, <2>2, SameLowBits
  <2> DEFINE hi == ShiftWord("shr", x.hi, n, signed)
             down == ShiftWord("shr", x.lo, n, FALSE)
             cross == ShiftWord("shl", x.hi, WordBits - n, FALSE)
             lo == BinOp("or", down, cross, FALSE)
  <2>5. hi \in WordVals /\ hi.word = (s \div P) % WordMod
    BY <1>1, <1>2, <2>2, <2>3, ShiftTaken
  <2>6. down \in WordVals /\ down.word = l \div P
    BY <1>1, <1>2, <2>2, <2>3, ShiftRightWord
  <2>7. cross \in WordVals /\ cross.word = (h * Q) % WordMod
    BY <1>1, <1>2, <2>2, <2>3, ShiftLeftWord
  <2>8. ShiftRight(x, n, signed) = Pair(lo, hi)
    BY <1>5 DEF ShiftRight
  <2>9. lo \in WordVals /\ lo.word = BitsOp("or", down.word, cross.word, WordBits)
    <3> HIDE DEF down, cross
    <3>1. "or" \in BitOps
      BY DEF BitOps
    <3>2. QED
      BY <2>6, <2>7, <3>1, BinBits
  <2> HIDE DEF lo, hi, down, cross
  <2>10. /\ (h * Q) % WordMod = (h % P) * Q
         /\ h % P \in Nat
         /\ l \div P \in 0 .. Q - 1
         /\ (h % P) * Q + (l \div P) \in Words
         /\ ((s * WordMod + l) \div P) % PairMod
              = ((s \div P) % WordMod) * WordMod + ((h % P) * Q + (l \div P))
    BY <2>2, <2>4, RightByParts
  <2>11. PICK c \in Nat, b \in Nat : c = h % P /\ b = l \div P /\ b < Q
    BY <2>10
  <2>12. BitsOp("or", b, c * 2^(WordBits - n), WordBits) = c * 2^(WordBits - n) + b
    <3>1. c * Q + b < WordMod /\ WordMod = 2^WordBits
      BY <2>10, <2>11, WordsAre
    <3>2. PICK m \in Nat : m = c * Q
      <4>1. c * Q \in Nat
        BY Z3
      <4>2. QED
        BY <4>1
    <3>3. c * 2^(WordBits - n) < 2^WordBits
      BY <2>2, <3>1, <3>2, WordsAre
    <3>4. PICK i \in Nat, j \in Nat : i = WordBits - n /\ j = WordBits /\ i <= j
      BY <2>3
    <3>5. b < 2^i /\ c * 2^i < 2^j
      BY <2>2, <2>11, <3>3, <3>4, Zenon
    <3>6. BitsOp("or", b, c * 2^i, j) = c * 2^i + b
      BY <3>4, <3>5, OrOfParts
    <3>7. QED
      BY <3>4, <3>6, Zenon
  <2>13. lo.word = c * Q + b
    BY <2>2, <2>6, <2>7, <2>9, <2>10, <2>11, <2>12, Zenon
  <2>14. /\ IsPair(ShiftRight(x, n, signed))
         /\ ValueOf(ShiftRight(x, n, signed)) = hi.word * WordMod + lo.word
    BY <2>5, <2>8, <2>9, PairIs
  <2>15. QED
    BY <1>3, <2>2, <2>5, <2>10, <2>11, <2>13, <2>14, Zenon
<1>6. QED
  BY <1>4, <1>5

(* A shift of a pair by any constant, across the words and with the sign   *)
(* that comes in, is that of the 32-bit value (v32_shift).                 *)
THEOREM ShiftIsExact ==
  ASSUME NEW op \in {"shl", "shr"}, NEW x, IsPair(x), NEW n \in 0 .. 2 * WordBits - 1,
         NEW signed \in BOOLEAN
  PROVE  /\ IsPair(Shift(op, x, n, signed))
         /\ ValueOf(Shift(op, x, n, signed)) = Reference(op, ValueOf(x), n, signed)
<1>1. PICK p \in Pairs : p = ValueOf(x) /\ p \in Nat
  BY WordsOfPair
<1>2. CASE n = 0
  <2>1. p % PairMod = p
    <3>1. p < PairMod /\ PairMod \in Nat \ {0}
      BY <1>1, PairValue, WordsAre DEF Pairs
    <3>2. QED
      BY <1>1, <3>1, ModSmall
  <2>2. (p * 2^n) % PairMod = p
    <3>1. p * 1 = p
      BY <1>1
    <3>2. QED
      BY <1>2, <2>1, <3>1, PowerZero
  <2>3. (Number(p, signed) \div 2^n) % PairMod = p
    <3>1. Number(p, signed) \in Int /\ Number(p, signed) % PairMod = p
      BY <1>1, NumberIs
    <3>2. \A a \in Int : a \div 1 = a
      OBVIOUS
    <3>3. QED
      BY <1>2, <3>1, <3>2, PowerZero
  <2>4. Reference(op, p, n, signed) = p
    BY <2>2, <2>3 DEF Reference
  <2>5. QED
    BY <1>1, <1>2, <2>4 DEF Shift
<1>3. CASE n # 0
  <2>1. n \in 1 .. 2 * WordBits - 1
    BY <1>3, WordsAre
  <2>2. CASE op = "shl"
    <3>1. IsPair(ShiftLeft(x, n)) /\ ValueOf(ShiftLeft(x, n)) = (ValueOf(x) * 2^n) % PairMod
      BY <2>1, ShiftLeftIsExact
    <3>2. QED
      BY <1>3, <2>2, <3>1 DEF Shift, Reference
  <2>3. CASE op = "shr"
    <3>1. /\ IsPair(ShiftRight(x, n, signed))
          /\ ValueOf(ShiftRight(x, n, signed)) = (Number(ValueOf(x), signed) \div 2^n) % PairMod
      BY <2>1, ShiftRightIsExact
    <3>2. QED
      BY <1>3, <2>3, <3>1 DEF Shift, Reference
  <2>4. QED
    BY <2>2, <2>3
<1>4. QED
  BY <1>2, <1>3

-----------------------------------------------------------------------------
(* Constants, products.                                                    *)

LEMMA SplitPair ==
  ASSUME NEW p \in Pairs
  PROVE  /\ p \div WordMod \in Words /\ p % WordMod \in Words
         /\ (p \div WordMod) * WordMod + (p % WordMod) = p
<1>1. PICK w \in Nat \ {0} : w = WordMod /\ PairMod = w * w
  BY WordModPositive DEF PairMod
<1>2. p \in Nat /\ p < w * w
  BY <1>1, PairValue DEF Pairs
<1>3. p \div w \in 0 .. w - 1 /\ p = (p \div w) * w + (p % w)
  <2>1. p \div w \in 0 .. w - 1
    BY <1>2, QuotientBelow
  <2>2. p \in Int
    BY <1>2
  <2>3. QED
    BY <2>1, <2>2, DivMod
<1>4. p % w \in Words
  BY <1>1, <1>2, ModIsWord, p \in Int
<1>5. p \div w \in Words
  BY <1>1, <1>3, WordsAre
<1>6. QED
  BY <1>1, <1>3, <1>4, <1>5, Zenon

LEMMA ModIsPair == ASSUME NEW n \in Int PROVE n % PairMod \in Pairs
<1>1. n % PairMod \in 0 .. PairMod - 1
  BY PairValue, DivParts, WordsAre
<1>2. QED
  BY <1>1 DEF Pairs

LEMMA ConstIsPair ==
  ASSUME NEW c \in Int
  PROVE  IsPair(Const32(c)) /\ ValueOf(Const32(c)) = c % PairMod
<1>1. (c % PairMod) % WordMod \in Words /\ (c % PairMod) \div WordMod \in Words
  BY ModIsPair, SplitPair
<1>2. IsPair(Const32(c))
  BY <1>1, MadeWords DEF IsPair, Const32
<1>3. QED
  BY <1>2, ConstValue

LEMMA ProductIs ==
  ASSUME NEW a \in Words, NEW b \in Words, NEW signed \in BOOLEAN
  PROVE  /\ Product(a, b, signed).lo \in Words /\ Product(a, b, signed).hi \in Words
         /\ Product(a, b, signed).hi * WordMod + Product(a, b, signed).lo
              = (Taken(a, signed) * Taken(b, signed)) % PairMod
<1>1. PICK s \in Int, t \in Int : s = Taken(a, signed) /\ t = Taken(b, signed)
  BY TakenIs
<1>2. s * t \in Int
  BY Z3
<1>3. PICK p \in Pairs : p = (s * t) % PairMod
  BY <1>2, ModIsPair
<1>4. Product(a, b, signed).lo = p % WordMod /\ Product(a, b, signed).hi = p \div WordMod
  <2>1. (IF signed THEN SignedWord(a) * SignedWord(b) ELSE a * b) = s * t
    BY <1>1 DEF Taken
  <2>2. QED
    BY <1>3, <2>1 DEF Product
<1>5. QED
  BY <1>1, <1>3, <1>4, SplitPair

LEMMA CrossIdentity ==
  ASSUME NEW w \in Int, NEW g \in Int, NEW h \in Int, NEW a \in Int, NEW b \in Int,
         NEW p \in Int, NEW l \in Int, NEW d \in Int, NEW e \in Int,
         a * b = p * w + l, p + (a * h) + (g * b) = d * w + e
  PROVE  (g * w + a) * (h * w + b) = ((g * h + d) * w + e) * w + l
<1>1. (g * w + a) * (h * w + b) = ((g * h) * w + ((a * h) + (g * b))) * w + a * b
  BY Z3
<1>2. PICK A \in Int, B \in Int, C \in Int : A = a * h /\ B = g * b /\ C = g * h
  <2>1. a * h \in Int /\ g * b \in Int /\ g * h \in Int
    BY Z3
  <2>2. QED
    BY <2>1
<1>3. (C * w + (A + B)) * w + (p * w + l) = (C * w + ((p + A) + B)) * w + l
  BY Z3
<1>4. (C * w + (d * w + e)) * w + l = ((C + d) * w + e) * w + l
  BY Z3
<1>5. QED
  BY <1>1, <1>2, <1>3, <1>4, Zenon

(* A true mark: the pair stands for its low word taken as signed.          *)
LEMMA MarkedValue ==
  ASSUME NEW v, IsPair(v), v.hi.word = SignExtension(v.lo.word)
  PROVE  /\ SignedWord(v.lo.word) \in Int
         /\ ValueOf(v) % PairMod = SignedWord(v.lo.word) % PairMod
<1>1. /\ v.lo.word \in Words
      /\ ValueOf(v) = v.hi.word * WordMod + v.lo.word
      /\ ValueOf(v) \in Pairs
  BY WordsOfPair
<1>2. PICK l \in Words, q \in Int : l = v.lo.word /\ q = SignedWord(l) /\ -SignBit <= q /\ q < SignBit
                                    /\ q % WordMod = l
  BY <1>1, SignedWordIs
<1>3. q % PairMod = SignExtension(l) * WordMod + l
  BY <1>2, SignedFits
<1>4. ValueOf(v) = q % PairMod
  BY <1>1, <1>2, <1>3
<1>5. ValueOf(v) % PairMod = ValueOf(v)
  <2>1. PICK p \in Pairs : p = ValueOf(v)
    BY <1>1
  <2>2. p \in Int /\ 0 <= p /\ p < PairMod /\ PairMod \in Nat \ {0}
    BY PairValue, WordsAre DEF Pairs
  <2>3. p % PairMod = p
    BY <2>2, ModSmall
  <2>4. QED
    BY <2>1, <2>3
<1>6. QED
  BY <1>2, <1>4, <1>5

LEMMA ProductModPair ==
  ASSUME NEW a \in Int, NEW b \in Int, NEW x \in Int, NEW y \in Int,
         x % PairMod = a % PairMod, y % PairMod = b % PairMod
  PROVE  (x * y) % PairMod = (a * b) % PairMod
<1>0. PICK m \in Nat \ {0} : m = PairMod
  BY PairValue, WordsAre
<1>1. PICK i \in Int : x = i * m + a
  <2>1. x % m = a % m
    BY <1>0, Zenon
  <2>2. QED
    BY <2>1, SameRemainder
<1>2. PICK j \in Int : y = j * m + b
  <2>1. y % m = b % m
    BY <1>0, Zenon
  <2>2. QED
    BY <2>1, SameRemainder
<1>3. (i * m + a) * (j * m + b) = ((i * m) * j + i * b + j * a) * m + a * b
  BY Z3
<1>4. PICK k \in Int, p \in Int, q \in Int :
        k = (i * m) * j + i * b + j * a /\ p = a * b /\ q = x * y
  <2>1. (i * m) * j + i * b + j * a \in Int /\ a * b \in Int /\ x * y \in Int
    BY Z3
  <2>2. QED
    BY <2>1
<1>5. q = k * m + p
  BY <1>1, <1>2, <1>3, <1>4, Zenon
<1>6. q % m = p % m
  BY <1>5, ModSame
<1>7. QED
  BY <1>0, <1>4, <1>6, Zenon

(* One MUL or MULU, or MULU and two cross products, make the product of    *)
(* pairs whose marks are true (v32_mul).                                   *)
THEOREM MulIsExact ==
  ASSUME NEW x, NEW y, IsPair(x), IsPair(y), MarkIsTrue(x), MarkIsTrue(y)
  PROVE  /\ IsPair(Mul(x, y))
         /\ ValueOf(Mul(x, y)) = (ValueOf(x) * ValueOf(y)) % PairMod
<1> DEFINE zeros == Is(x.hi, 0) /\ Is(y.hi, 0)
           signed == ~zeros /\ x.sext /\ y.sext
           p == Product(x.lo.word, y.lo.word, signed)
           cross1 == BinOp("mul", Reg(x.lo.word), y.hi, FALSE)
           cross2 == BinOp("mul", x.hi, Reg(y.lo.word), FALSE)
           sum1 == BinOp("add", Reg(p.hi), cross1, FALSE)
           sum2 == BinOp("add", sum1, cross2, FALSE)
<1>1. PICK g \in Words, a \in Words, h \in Words, b \in Words :
        g = x.hi.word /\ a = x.lo.word /\ h = y.hi.word /\ b = y.lo.word
  BY WordsOfPair
<1>2. ValueOf(x) = g * WordMod + a /\ ValueOf(y) = h * WordMod + b
  BY <1>1, WordsOfPair
<1>3. ValueOf(x) \in Int /\ ValueOf(y) \in Int /\ PairMod \in Nat \ {0}
  BY WordsOfPair, PairValue, WordsAre
<1>4. /\ p.lo \in Words /\ p.hi \in Words
      /\ p.hi * WordMod + p.lo = (Taken(a, signed) * Taken(b, signed)) % PairMod
  <2>1. signed \in BOOLEAN
    BY DEF IsPair
  <2> HIDE DEF signed
  <2>2. QED
    BY <1>1, <2>1, ProductIs
<1>5. CASE IsConst(x) /\ IsConst(y)
  <2>1. Mul(x, y) = Const32(ValueOf(x) * ValueOf(y))
    BY <1>5 DEF Mul
  <2>2. ValueOf(x) * ValueOf(y) \in Int
    BY <1>3
  <2>3. QED
    BY <2>1, <2>2, ConstIsPair
<1>6. CASE ~(IsConst(x) /\ IsConst(y)) /\ (zeros \/ signed)
  <2>1. Mul(x, y) = Pair(Reg(p.lo), Reg(p.hi))
    BY <1>6 DEF Mul
  <2>2. IsPair(Mul(x, y)) /\ ValueOf(Mul(x, y)) = p.hi * WordMod + p.lo
    <3> HIDE DEF p
    <3>1. QED
      BY <1>4, <2>1, PairIs, MadeWords
  <2>3. (Taken(a, signed) * Taken(b, signed)) % PairMod = (ValueOf(x) * ValueOf(y)) % PairMod
    <3>1. CASE zeros
      <4>1. g = 0 /\ h = 0
        BY <1>1, <3>1 DEF Is
      <4>2. ValueOf(x) = a /\ ValueOf(y) = b
        BY <1>2, <4>1, WordsAre
      <4>3. Taken(a, signed) = a /\ Taken(b, signed) = b
        BY <3>1 DEF Taken
      <4>4. QED
        BY <4>2, <4>3, Zenon
    <3>2. CASE signed
      <4>1. /\ x.hi.word = SignExtension(x.lo.word)
            /\ y.hi.word = SignExtension(y.lo.word)
        BY <3>2 DEF MarkIsTrue
      <4>2. PICK s \in Int, t \in Int : s = Taken(a, signed) /\ t = Taken(b, signed)
        BY <3>2, SignedWordIs DEF Taken
      <4>3. ValueOf(x) % PairMod = s % PairMod /\ ValueOf(y) % PairMod = t % PairMod
        BY <1>1, <3>2, <4>1, <4>2, MarkedValue DEF Taken
      <4>4. PICK X \in Int, Y \in Int : X = ValueOf(x) /\ Y = ValueOf(y)
        BY <1>3
      <4>5. (X * Y) % PairMod = (s * t) % PairMod
        BY <4>3, <4>4, ProductModPair
      <4>6. QED
        BY <4>2, <4>4, <4>5, Zenon
    <3>3. QED
      BY <1>6, <3>1, <3>2
  <2> HIDE DEF p, signed
  <2>4. QED
    BY <1>4, <2>2, <2>3
<1>7. CASE ~(IsConst(x) /\ IsConst(y)) /\ ~(zeros \/ signed)
  <2>1. Mul(x, y) = Pair(Reg(p.lo), sum2)
    BY <1>7 DEF Mul
  <2>2. Taken(a, signed) = a /\ Taken(b, signed) = b
    BY <1>7 DEF Taken
  <2> HIDE DEF p, signed
  <2>3. Reg(x.lo.word) \in WordVals /\ Reg(y.lo.word) \in WordVals /\ x.hi \in WordVals /\ y.hi \in WordVals
        /\ Reg(x.lo.word).word = a /\ Reg(y.lo.word).word = b
    BY <1>1, MadeWords DEF IsPair
  <2>4. cross1 \in WordVals /\ cross1.word = (a * h) % WordMod
    <3>1. PICK u \in WordVals, v \in WordVals : u = Reg(x.lo.word) /\ v = y.hi
      BY <2>3
    <3>2. BinOp("mul", u, v, FALSE) \in WordVals /\ BinOp("mul", u, v, FALSE).word = (u.word * v.word) % WordMod
      BY BinMul
    <3>3. QED
      BY <1>1, <2>3, <3>1, <3>2, Zenon
  <2>5. cross2 \in WordVals /\ cross2.word = (g * b) % WordMod
    <3>1. PICK u \in WordVals, v \in WordVals : u = x.hi /\ v = Reg(y.lo.word)
      BY <2>3
    <3>2. BinOp("mul", u, v, FALSE) \in WordVals /\ BinOp("mul", u, v, FALSE).word = (u.word * v.word) % WordMod
      BY BinMul
    <3>3. QED
      BY <1>1, <2>3, <3>1, <3>2, Zenon
  <2>6. Reg(p.hi) \in WordVals /\ Reg(p.hi).word = p.hi /\ Reg(p.lo) \in WordVals /\ Reg(p.lo).word = p.lo
    BY <1>4, MadeWords
  <2> HIDE DEF cross1, cross2
  <2>7. sum1 \in WordVals /\ sum1.word = (p.hi + ((a * h) % WordMod)) % WordMod
    BY <2>4, <2>6, BinAdd
  <2> HIDE DEF sum1
  <2>8. sum2 \in WordVals
        /\ sum2.word = (((p.hi + ((a * h) % WordMod)) % WordMod) + ((g * b) % WordMod)) % WordMod
    BY <2>5, <2>7, BinAdd
  <2> HIDE DEF sum2
  <2>9. IsPair(Mul(x, y)) /\ ValueOf(Mul(x, y)) = sum2.word * WordMod + p.lo
    BY <2>1, <2>6, <2>8, PairIs
  <2>10. p.hi * WordMod + p.lo = (a * b) % PairMod
    BY <1>4, <2>2
  <2>11. PICK t \in Words, l \in Words, f \in Words : t = p.hi /\ l = p.lo /\ f = sum2.word
    BY <1>4, <2>8 DEF WordVals
  <2>12. /\ t * WordMod + l = (a * b) % PairMod
         /\ f = (((t + ((a * h) % WordMod)) % WordMod) + ((g * b) % WordMod)) % WordMod
    BY <2>8, <2>10, <2>11, Zenon
  <2>13. f * WordMod + l = ((g * WordMod + a) * (h * WordMod + b)) % PairMod
    <3>1. PICK w \in Nat \ {0} : w = WordMod /\ PairMod = w * w
      BY WordsAre DEF PairMod
    <3>2. /\ g \in Int /\ a \in Nat /\ h \in Int /\ b \in Nat /\ a < w /\ b < w
          /\ t \in Int /\ l \in Int
      BY <3>1, WordsAre
    <3>3. PICK m \in Int, n \in Int : m = a * h /\ n = g * b
      <4>1. a * h \in Int /\ g * b \in Int
        BY <3>2, Z3
      <4>2. QED
        BY <4>1
    <3>4. PICK d \in Int, e \in Nat : (t + m + n) = d * w + e /\ e = (t + m + n) % w
      <4>1. PICK c \in Int : c = t + m + n
        BY <3>2
      <4>2. \E d \in Int, e \in Nat : c = d * w + e /\ d = c \div w /\ e = c % w /\ e < w
        BY DivPick
      <4>3. QED
        BY <4>1, <4>2
    <3>5. f = e
      <4>1. (((t + (m % w)) % w) + (n % w)) % w = (t + m + n) % w
        <5>1. PICK q \in Int : q = t
          BY <3>2
        <5>2. \A i, j, k \in Int : (((i + (j % w)) % w) + (k % w)) % w = (i + j + k) % w
          BY SumOfRemainders, Zenon
        <5>3. (((q + (m % w)) % w) + (n % w)) % w = (q + m + n) % w
          BY <5>2, Zenon
        <5>4. QED
          BY <5>1, <5>3, Zenon
      <4>2. QED
        BY <3>1, <3>3, <3>4, <4>1, <2>12, Zenon
    <3>6. a * b = t * w + l
      <4>1. PICK k \in Nat : k = a * b
        <5>1. a * b \in Nat
          BY <3>2, Z3
        <5>2. QED
          BY <5>1
      <4>2. k < PairMod
        <5>1. a * b <= a * w /\ a * w <= (w - 1) * w
          BY <3>2, Z3
        <5>2. (w - 1) * w = w * w - w /\ a * w \in Int /\ w * w \in Int
          BY <3>2, Z3
        <5>3. QED
          BY <3>1, <4>1, <5>1, <5>2
      <4>3. k % PairMod = k
        <5>1. k \in Int /\ 0 <= k /\ PairMod \in Nat \ {0}
          BY PairValue, WordsAre
        <5>2. QED
          BY <4>2, <5>1, ModSmall, Zenon
      <4>4. QED
        BY <3>1, <4>1, <4>3, <2>12, Zenon
    <3>7. (g * w + a) * (h * w + b) = ((g * h + d) * w + e) * w + l
      <4>1. t + (a * h) + (g * b) = d * w + e /\ e \in Int
        BY <3>3, <3>4
      <4>2. QED
        BY <3>2, <3>6, <4>1, CrossIdentity
    <3>8. PICK c \in Int, n1 \in Int : c = g * h + d /\ n1 = (g * w + a) * (h * w + b)
      <4>1. g * h + d \in Int /\ (g * w + a) * (h * w + b) \in Int
        BY <3>2, Z3
      <4>2. QED
        BY <4>1
    <3>9. n1 = (c * WordMod + f) * WordMod + l
      BY <3>1, <3>5, <3>7, <3>8, Zenon
    <3>10. n1 % PairMod = f * WordMod + l
      BY <3>9, PairOfParts
    <3>11. QED
      BY <3>1, <3>8, <3>10, Zenon
  <2>14. QED
    BY <1>2, <2>9, <2>11, <2>13, Zenon
<1>8. QED
  BY <1>5, <1>6, <1>7

-----------------------------------------------------------------------------
(* Division.                                                               *)

LEMMA MagnitudeIs ==
  ASSUME NEW n \in Int
  PROVE  /\ Magnitude(n) \in Nat /\ n = (IF n < 0 THEN -Magnitude(n) ELSE Magnitude(n))
         /\ n # 0 => Magnitude(n) # 0
  BY DEF Magnitude

LEMMA QuotRem ==
  ASSUME NEW n \in Int, NEW m \in Int \ {0}
  PROVE  \E k \in Nat, e \in Nat :
            /\ e < Magnitude(m)
            /\ Quotient(n, m) = IF (n < 0) # (m < 0) THEN -k ELSE k
            /\ Remainder(n, m) = IF n < 0 THEN -e ELSE e
<1>1. PICK a \in Nat, b \in Nat \ {0} :
         /\ a = Magnitude(n) /\ b = Magnitude(m)
         /\ n = (IF n < 0 THEN -a ELSE a) /\ m = (IF m < 0 THEN -b ELSE b)
  BY MagnitudeIs
<1>2. PICK d \in Int, e \in Nat : a = d * b + e /\ d = a \div b /\ e = a % b /\ e < b
  BY DivPick, a \in Int
<1>3. PICK k \in Nat : k = d
  BY <1>1, <1>2, DivPositive
<1>4. PICK t \in Int : t = k * b
  <2>1. k * b \in Int
    BY Z3, b \in Int, k \in Int
  <2>2. QED
    BY <2>1
<1>5. a = t + e
  BY <1>2, <1>3, <1>4, Zenon
<1>6. k * b = t /\ (-k) * b = -t /\ k * (-b) = -t /\ (-k) * (-b) = t
  <2>1. b \in Int /\ k \in Int
    OBVIOUS
  <2>2. (-k) * b = -(k * b) /\ k * (-b) = -(k * b) /\ (-k) * (-b) = k * b
    BY <2>1, Z3
  <2>3. QED
    BY <1>4, <2>2
<1>7. PICK q \in Int : q = Quotient(n, m) /\ q = (IF (n < 0) # (m < 0) THEN -k ELSE k)
  <2>1. Magnitude(n) \div Magnitude(m) = k
    BY <1>1, <1>2, <1>3, Zenon
  <2>2. Quotient(n, m) = IF (n < 0) # (m < 0) THEN -k ELSE k
    BY <2>1 DEF Quotient
  <2>3. PICK q \in Int : q = IF (n < 0) # (m < 0) THEN -k ELSE k
    OBVIOUS
  <2>4. QED
    BY <2>2, <2>3
<1>8. q * m = IF n < 0 THEN -t ELSE t
  <2>1. CASE n < 0 /\ m < 0
    BY <1>1, <1>6, <1>7, <2>1
  <2>2. CASE n < 0 /\ ~(m < 0)
    BY <1>1, <1>6, <1>7, <2>2
  <2>3. CASE ~(n < 0) /\ m < 0
    BY <1>1, <1>6, <1>7, <2>3
  <2>4. CASE ~(n < 0) /\ ~(m < 0)
    BY <1>1, <1>6, <1>7, <2>4
  <2>5. QED
    BY <2>1, <2>2, <2>3, <2>4
<1>9. Remainder(n, m) = n - q * m
  BY <1>7 DEF Remainder
<1>10. Remainder(n, m) = IF n < 0 THEN -e ELSE e
  BY <1>1, <1>5, <1>8, <1>9
<1>11. QED
  BY <1>1, <1>2, <1>7, <1>10

(* A number that fits a word, made a pair again.                           *)
LEMMA Fitted ==
  ASSUME NEW q \in Int, NEW signed \in BOOLEAN,
         IF signed THEN -SignBit <= q /\ q < SignBit ELSE 0 <= q /\ q < WordMod
  PROVE  /\ IsPair(Widen16(Reg(q % WordMod), signed))
         /\ ValueOf(Widen16(Reg(q % WordMod), signed)) = q % PairMod
<1>1. PICK l \in Words : l = q % WordMod
  BY ModIsWord
<1>2. Reg(l) \in WordVals /\ Reg(l).word = l /\ Known(0) \in WordVals /\ Known(0).word = 0
  BY MadeWords, WordsAre
<1>3. CASE signed
  <2>1. SignExtended(Reg(l)) \in WordVals /\ SignExtended(Reg(l)).word = SignExtension(l)
    BY <1>2, <1>3, SignWord
  <2>2. Widen16(Reg(l), signed) = [lo |-> Reg(l), hi |-> SignExtended(Reg(l)), sext |-> signed]
    BY <1>3 DEF Widen16
  <2>3. q % PairMod = SignExtension(l) * WordMod + l
    BY <1>1, <1>3, SignedFits
  <2>4. QED
    BY <1>1, <1>2, <2>1, <2>2, <2>3 DEF IsPair, ValueOf
<1>4. CASE ~signed
  <2>1. Widen16(Reg(l), signed) = [lo |-> Reg(l), hi |-> Known(0), sext |-> signed]
    BY <1>4 DEF Widen16
  <2>2. PICK p \in Pairs : p = 0 * WordMod + l
    BY PairValue, WordsAre
  <2>3. p \in Int /\ p = l /\ 0 <= p /\ p < PairMod /\ PairMod \in Nat \ {0} /\ WordMod \in Nat \ {0}
        /\ 0 * WordMod + l = l
    BY <2>2, PairValue, WordsAre DEF Pairs
  <2>4. l = q
    BY <1>1, <1>4, <2>3, ModSmall
  <2>5. p % PairMod = p
    BY <2>3, ModSmall
  <2>6. ValueOf(Widen16(Reg(l), signed)) = 0 * WordMod + l
    BY <1>2, <2>1 DEF ValueOf
  <2>7. IsPair(Widen16(Reg(l), signed))
    BY <1>2, <2>1 DEF IsPair
  <2>8. QED
    BY <1>1, <2>3, <2>4, <2>5, <2>6, <2>7
<1>5. QED
  BY <1>3, <1>4

LEMMA SignIs == ASSUME NEW k PROVE IsSigned(k) \in BOOLEAN
  BY DEF IsSigned

(* The number for which a low word is taken.                               *)
LEMMA ReadAsIs ==
  ASSUME NEW v, IsPair(v), NEW k
  PROVE  /\ ReadAs(k, ValueOf(v)) = Taken(v.lo.word, IsSigned(k)) % PairMod
         /\ Number(ReadAs(k, ValueOf(v)), IsSigned(k)) = Taken(v.lo.word, IsSigned(k))
<1>1. PICK signed \in BOOLEAN : signed = IsSigned(k)
  BY SignIs
<1>2. PICK h \in Words, l \in Words : h = v.hi.word /\ l = v.lo.word /\ ValueOf(v) = h * WordMod + l
  BY WordsOfPair
<1>3. ValueOf(v) % WordMod = l
  <2>1. h \in Int /\ l \in Int /\ l % WordMod = l
    BY WordsAre, WordStays
  <2>2. (h * WordMod + l) % WordMod = l % WordMod
    BY <2>1, WordModPositive, ModOfMultiple
  <2>3. QED
    BY <1>2, <2>1, <2>2
<1>4. CASE signed
  <2>1. PICK q \in Int : q = SignedWord(l) /\ q % WordMod = l /\ -SignBit <= q /\ q < SignBit
    BY SignedWordIs
  <2>2. PICK g \in Words : g = SignExtension(l)
    BY WordsAre DEF SignExtension
  <2>3. q % PairMod = g * WordMod + l
    BY <2>1, <2>2, SignedFits
  <2>4. SignedPair(g * WordMod + l) = SignedWord(g) * WordMod + l
    BY SignOfPair
  <2>5. SignedWord(g) = IF l >= SignBit THEN -1 ELSE 0
    BY <2>2, WordModPositive, WordsAre DEF SignExtension, SignedWord
  <2>6. l \in Int /\ WordMod \in Int /\ 0 * WordMod + l = l /\ (-1) * WordMod + l = l - WordMod
    BY WordsAre
  <2>7. q = IF l >= SignBit THEN l - WordMod ELSE l
    BY <2>1 DEF SignedWord
  <2>8. SignedPair(q % PairMod) = q
    BY <2>3, <2>4, <2>5, <2>6, <2>7
  <2>9. ReadAs(k, ValueOf(v)) = q % PairMod
    BY <1>1, <1>3, <1>4, <2>1 DEF ReadAs
  <2>10. QED
    BY <1>1, <1>2, <1>4, <2>1, <2>8, <2>9 DEF Taken, Number
<1>5. CASE ~signed
  <2>1. l \in Int /\ 0 <= l /\ l < PairMod /\ PairMod \in Nat \ {0}
    <3>1. PICK z \in Words : z = 0
      BY WordsAre
    <3>2. z * WordMod + l \in Pairs /\ PairMod \in Nat \ {0}
      BY PairValue
    <3>3. z * WordMod + l = l
      BY <3>1, WordsAre
    <3>4. QED
      BY <3>2, <3>3 DEF Pairs
  <2>2. l % PairMod = l
    BY <2>1, ModSmall
  <2>3. ReadAs(k, ValueOf(v)) = l
    BY <1>1, <1>3, <1>5 DEF ReadAs
  <2>4. QED
    BY <1>1, <1>2, <1>5, <2>2, <2>3 DEF Taken, Number
<1>6. QED
  BY <1>4, <1>5

(* Divided and its reference agree when the quotient fits a word.          *)
LEMMA DivideWord ==
  ASSUME NEW h \in Words, NEW l \in Words, NEW d \in Words, NEW signed \in BOOLEAN,
         NEW n \in Int, n = Number(h * WordMod + l, signed),
         NEW m \in Int, m = Taken(d, signed), m # 0,
         IF signed THEN -SignBit <= Quotient(n, m) /\ Quotient(n, m) < SignBit
                   ELSE Quotient(n, m) < WordMod,
         NEW op \in {"div", "mod"},
         NEW v, v = Widen16(Reg(Part(op, Divided(h, l, d, signed))), signed)
  PROVE  /\ IsPair(v)
         /\ ValueOf(v) = (IF op = "div" THEN Quotient(n, m) ELSE Remainder(n, m)) % PairMod
         /\ Part(op, Divided(h, l, d, signed)) \in Words
<1>0. m \in Int \ {0}
  OBVIOUS
<1>1. PICK k \in Nat, e \in Nat :
            /\ e < Magnitude(m)
            /\ Quotient(n, m) = IF (n < 0) # (m < 0) THEN -k ELSE k
            /\ Remainder(n, m) = IF n < 0 THEN -e ELSE e
  BY <1>0, QuotRem, Zenon
<1>2. PICK q \in Int, r \in Int : q = Quotient(n, m) /\ r = Remainder(n, m)
  BY <1>1
<1>3. Divided(h, l, d, signed) = [quotient |-> q % WordMod, remainder |-> r % WordMod]
  BY <1>2 DEF Divided, Number, Taken
<1>4. ~signed => n >= 0 /\ m > 0
  BY PairValue, WordsAre DEF Number, Taken, Pairs
<1>5. IF signed THEN -SignBit <= q /\ q < SignBit ELSE 0 <= q /\ q < WordMod
  BY <1>1, <1>2, <1>4
<1>6. IF signed THEN -SignBit <= r /\ r < SignBit ELSE 0 <= r /\ r < WordMod
  <2>1. CASE signed
    <3>1. -SignBit <= m /\ m < SignBit /\ SignBit \in Nat \ {0}
      BY <2>1, SignedWordIs, WordModPositive DEF Taken
    <3>2. Magnitude(m) <= SignBit
      BY <3>1 DEF Magnitude
    <3>3. e < SignBit
      BY <1>1, <3>1, <3>2, MagnitudeIs
    <3>4. r = -e \/ r = e
      BY <1>1, <1>2
    <3>5. QED
      BY <2>1, <3>1, <3>3, <3>4
  <2>2. CASE ~signed
    <3>1. m < WordMod /\ Magnitude(m) = m /\ WordMod \in Nat
      BY <1>4, <2>2, WordsAre DEF Taken, Magnitude
    <3>2. QED
      BY <1>1, <1>2, <1>4, <2>2, <3>1
  <2>3. QED
    BY <2>1, <2>2
<1>7. CASE op = "div"
  <2>1. Part(op, Divided(h, l, d, signed)) = q % WordMod
    BY <1>3, <1>7 DEF Part
  <2>2. QED
    BY <1>2, <1>5, <1>7, <2>1, Fitted, ModIsWord
<1>8. CASE op = "mod"
  <2>1. Part(op, Divided(h, l, d, signed)) = r % WordMod
    BY <1>3, <1>8 DEF Part
  <2>2. QED
    BY <1>2, <1>6, <1>8, <2>1, Fitted, ModIsWord
<1>9. QED
  BY <1>7, <1>8

LEMMA DivideExactly ==
  ASSUME NEW h \in Words, NEW l \in Words, NEW d, IsPair(d), NEW k, NEW e, e = ReadAs(k, ValueOf(d)),
         NEW signed \in BOOLEAN, signed = IsSigned(k),
         Defined(h * WordMod + l, e, signed),
         NEW op \in {"div", "mod"},
         NEW w, w = Part(op, Divided(h, l, d.lo.word, signed))
  PROVE  /\ w \in Words
         /\ IsPair(Widen16(Reg(w), signed))
         /\ ValueOf(Widen16(Reg(w), signed)) = Reference(op, h * WordMod + l, e, signed)
<1>1. PICK a \in Words : a = d.lo.word
  BY WordsOfPair
<1>2. PICK v : IsPair(v) /\ v.hi.word = h /\ v.lo.word = l /\ ValueOf(v) = h * WordMod + l
  <2>1. IsPair(Pair(Reg(l), Reg(h))) /\ ValueOf(Pair(Reg(l), Reg(h))) = h * WordMod + l
    BY MadeWords, PairIs
  <2>2. Pair(Reg(l), Reg(h)).lo.word = l /\ Pair(Reg(l), Reg(h)).hi.word = h
    BY DEF Pair, Reg
  <2>3. QED
    BY <2>1, <2>2
<1>3. PICK n \in Int : n = Number(h * WordMod + l, signed)
  BY <1>2, NumberIs
<1>4. PICK m \in Int : m = Taken(a, signed)
  BY TakenIs
<1>5. m = Number(e, signed) /\ m % PairMod = e
  BY <1>1, <1>4, ReadAsIs
<1>6. m # 0
  <2>1. e # 0
    BY DEF Defined
  <2>2. PairMod \in Nat \ {0}
    BY PairValue, WordsAre
  <2>3. 0 % PairMod = 0
    BY <2>2, ModSmall
  <2>4. QED
    BY <1>5, <2>1, <2>3
<1>7. IF signed THEN -SignBit <= Quotient(n, m) /\ Quotient(n, m) < SignBit
                ELSE Quotient(n, m) < WordMod
  BY <1>3, <1>5 DEF Defined
<1>8. PICK r : r = Widen16(Reg(Part(op, Divided(h, l, a, signed))), signed)
  OBVIOUS
<1>9. /\ IsPair(r)
      /\ ValueOf(r) = (IF op = "div" THEN Quotient(n, m) ELSE Remainder(n, m)) % PairMod
      /\ Part(op, Divided(h, l, a, signed)) \in Words
  BY <1>3, <1>4, <1>6, <1>7, <1>8, DivideWord
<1>10. Reference(op, h * WordMod + l, e, signed)
         = (IF op = "div" THEN Quotient(n, m) ELSE Remainder(n, m)) % PairMod
  BY <1>3, <1>5 DEF Reference
<1>11. QED
  BY <1>1, <1>8, <1>9, <1>10

(* DIVL or DIVLU makes the quotient or the remainder of C by the number    *)
(* for which the divisor's low word is taken in an expression of type k,   *)
(* where the quotient fits a word (v32_div).                               *)
THEOREM DivIsExact ==
  ASSUME NEW op \in {"div", "mod"}, NEW x, NEW y, IsPair(x), IsPair(y), NEW k,
         NEW signed \in BOOLEAN, signed = IsSigned(k),
         Defined(ValueOf(x), ReadAs(k, ValueOf(y)), signed)
  PROVE  /\ IsPair(Div(op, x, y, signed))
         /\ ValueOf(Div(op, x, y, signed)) = Reference(op, ValueOf(x), ReadAs(k, ValueOf(y)), signed)
<1>1. PICK h \in Words, l \in Words :
         h = x.hi.word /\ l = x.lo.word /\ ValueOf(x) = h * WordMod + l
  BY WordsOfPair
<1>2. PICK w : w = Part(op, Divided(h, l, y.lo.word, signed))
  OBVIOUS
<1>3. /\ w \in Words
      /\ IsPair(Widen16(Reg(w), signed))
      /\ ValueOf(Widen16(Reg(w), signed)) = Reference(op, h * WordMod + l, ReadAs(k, ValueOf(y)), signed)
  BY <1>1, <1>2, DivideExactly
<1>4. CASE ~(~signed /\ Is(x.hi, 0))
  <2>1. Div(op, x, y, signed) = Widen16(Reg(w), signed)
    BY <1>1, <1>2, <1>4 DEF Div, Part
  <2>2. QED
    BY <1>1, <1>3, <2>1
<1>5. CASE ~signed /\ Is(x.hi, 0)
  <2>1. h = 0
    BY <1>1, <1>5 DEF Is
  <2>2. WordOp(op, x.lo.word, y.lo.word, FALSE) = w
    BY <1>1, <1>2, <1>5, <2>1 DEF WordOp, Part
  <2>3. Identity(op, x.lo, y.lo) = {}
    BY DEF Identity
  <2>4. PICK b \in WordVals : b = BinOp(op, x.lo, y.lo, FALSE) /\ b.word = w
    <3>1. PICK s, t : s = x.lo /\ t = y.lo
      OBVIOUS
    <3>2. WordOp(op, s.word, t.word, FALSE) \in Words
      BY <1>3, <2>2, <3>1
    <3>3. \A z \in Identity(op, s, t) :
              z \in WordVals /\ z.word = WordOp(op, s.word, t.word, FALSE)
      BY <2>3, <3>1
    <3>4. BinOp(op, s, t, FALSE) \in WordVals
          /\ BinOp(op, s, t, FALSE).word = WordOp(op, s.word, t.word, FALSE)
      BY <3>2, <3>3, PlainBinOp
    <3>5. QED
      BY <2>2, <3>1, <3>4
  <2>5. Div(op, x, y, signed) = Widen16(b, FALSE)
    BY <1>5, <2>4 DEF Div
  <2>6. Widen16(b, FALSE) = [lo |-> b, hi |-> Known(0), sext |-> FALSE]
    BY DEF Widen16
  <2>7. Widen16(Reg(w), signed) = [lo |-> Reg(w), hi |-> Known(0), sext |-> FALSE]
    BY <1>5 DEF Widen16
  <2>8. Reg(w).word = w /\ Known(0) \in WordVals
    BY <1>3, MadeWords, WordsAre
  <2>9. /\ IsPair(Widen16(b, FALSE))
        /\ ValueOf(Widen16(b, FALSE)) = ValueOf(Widen16(Reg(w), signed))
    <3>1. /\ Widen16(b, FALSE).lo = b /\ Widen16(b, FALSE).hi = Known(0)
          /\ Widen16(b, FALSE).sext = FALSE
      BY DEF Widen16
    <3>2. Widen16(Reg(w), signed).lo = Reg(w) /\ Widen16(Reg(w), signed).hi = Known(0)
      BY <2>7
    <3>3. IsPair(Widen16(b, FALSE))
      BY <2>8, <3>1 DEF IsPair
    <3>4. ValueOf(Widen16(b, FALSE)) = Known(0).word * WordMod + w
      BY <2>4, <3>1, Zenon DEF ValueOf
    <3>5. ValueOf(Widen16(Reg(w), signed)) = Known(0).word * WordMod + w
      BY <2>8, <3>2, Zenon DEF ValueOf
    <3>6. QED
      BY <3>3, <3>4, <3>5
  <2>10. QED
    BY <1>1, <1>3, <2>5, <2>9
<1>6. QED
  BY <1>4, <1>5

-----------------------------------------------------------------------------
(* Sums, differences, complements.                                         *)

LEMMA AddSubWord ==
  ASSUME NEW op \in {"add", "sub"}, NEW x \in WordVals, NEW y \in WordVals
  PROVE  BinOp(op, x, y, FALSE) \in WordVals
<1>1. CASE op = "add"
  BY <1>1, BinAdd
<1>2. CASE op = "sub"
  <2>1. x.word \in Words /\ y.word \in Words
    BY DEF WordVals
  <2>2. WordOp("sub", x.word, y.word, FALSE) \in Words
    BY <2>1, SubtractWords DEF WordOp
  <2>3. \A z \in Identity("sub", x, y) : z = x /\ y.word = 0
    BY DEF Identity, Is
  <2>4. WordOp("sub", x.word, y.word, FALSE) = (x.word - y.word) % WordMod
    BY <2>1, WordsAre DEF WordOp, SubC
  <2>5. y.word = 0 => WordOp("sub", x.word, y.word, FALSE) = x.word
    <3>1. PICK w \in Words : w = x.word /\ w % WordMod = w /\ w - 0 = w
      BY <2>1, WordStays, WordsAre
    <3>2. QED
      BY <2>4, <3>1
  <2>6. \A z \in Identity("sub", x, y) :
            z \in WordVals /\ z.word = WordOp("sub", x.word, y.word, FALSE)
    BY <2>3, <2>5
  <2>7. QED
    BY <1>2, <2>2, <2>6, PlainBinOp
<1>3. QED
  BY <1>1, <1>2

LEMMA AddSubIsExact ==
  ASSUME NEW op \in {"add", "sub"}, NEW x, NEW y, IsPair(x), IsPair(y), NEW signed \in BOOLEAN
  PROVE  /\ IsPair(AddSub(op, x, y))
         /\ ValueOf(AddSub(op, x, y)) = Reference(op, ValueOf(x), ValueOf(y), signed)
<1>1. ValueOf(AddSub(op, x, y)) = Reference(op, ValueOf(x), ValueOf(y), signed)
  BY WordsOfPair, CarryAddsPairs
<1>2. x.lo \in WordVals /\ x.hi \in WordVals /\ y.lo \in WordVals /\ y.hi \in WordVals
  BY DEF IsPair
<1>3. CASE IsConst(x) /\ IsConst(y)
  <2>1. ValueOf(x) + ValueOf(y) \in Int /\ ValueOf(x) - ValueOf(y) \in Int
    BY WordsOfPair
  <2>2. QED
    BY <1>1, <1>3, <2>1, ConstIsPair DEF AddSub
<1>4. CASE ~(IsConst(x) /\ IsConst(y)) /\ (Is(y.lo, 0) \/ (op = "add" /\ Is(x.lo, 0)))
  <2>1. AddSub(op, x, y) = Pair(BinOp(op, x.lo, y.lo, FALSE), BinOp(op, x.hi, y.hi, FALSE))
    BY <1>4 DEF AddSub
  <2>2. QED
    <3>1. PICK l \in WordVals, h \in WordVals :
             l = BinOp(op, x.lo, y.lo, FALSE) /\ h = BinOp(op, x.hi, y.hi, FALSE)
      BY <1>2, AddSubWord
    <3>2. IsPair(Pair(l, h))
      BY PairIs
    <3>3. QED
      BY <1>1, <2>1, <3>1, <3>2
<1>5. CASE ~(IsConst(x) /\ IsConst(y)) /\ ~(Is(y.lo, 0) \/ (op = "add" /\ Is(x.lo, 0)))
  <2>1. \A a, b \in Words, c \in {0, 1} :
           /\ (IF op = "add" THEN AddC(a, b, c) ELSE SubC(a, b, c)).res \in Words
           /\ (IF op = "add" THEN AddC(a, b, c) ELSE SubC(a, b, c)).c \in {0, 1}
    BY AddWords, SubtractWords
  <2>2. PICK r \in Words, s \in Words : AddSub(op, x, y) = Pair(Reg(r), Reg(s))
    <3>1. x.lo.word \in Words /\ x.hi.word \in Words /\ y.lo.word \in Words /\ y.hi.word \in Words
      BY WordsOfPair
    <3> DEFINE low == IF op = "add" THEN AddC(x.lo.word, y.lo.word, 0) ELSE SubC(x.lo.word, y.lo.word, 0)
               high == IF op = "add" THEN AddC(x.hi.word, y.hi.word, low.c)
                                     ELSE SubC(x.hi.word, y.hi.word, low.c)
    <3>2. low.res \in Words /\ low.c \in {0, 1}
      BY <2>1, <3>1
    <3>3. AddSub(op, x, y) = Pair(Reg(low.res), Reg(high.res))
      BY <1>5 DEF AddSub
    <3> HIDE DEF low
    <3>4. high.res \in Words
      BY <2>1, <3>1, <3>2
    <3>5. QED
      BY <3>2, <3>3, <3>4
  <2>3. QED
    BY <1>1, <2>2, MadeWords, PairIs
<1>6. QED
  BY <1>3, <1>4, <1>5

LEMMA ComplementIsExact ==
  ASSUME NEW x, IsPair(x)
  PROVE  /\ IsPair(Pair(Complemented(x.lo), Complemented(x.hi)))
         /\ ValueOf(Pair(Complemented(x.lo), Complemented(x.hi))) = PairMod - 1 - ValueOf(x)
<1>1. PICK h \in Words, l \in Words :
         h = x.hi.word /\ l = x.lo.word /\ ValueOf(x) = h * WordMod + l
  BY WordsOfPair
<1>2. PICK w \in Nat \ {0} : w = WordMod /\ PairMod = w * w
  BY WordsAre DEF PairMod
<1>3. /\ h \in Int /\ l \in Int /\ w \in Int
      /\ w - 1 - h \in Words /\ w - 1 - l \in Words
  BY <1>2, WordsAre
<1>4. \A a \in WordVals : w - 1 - a.word \in Words =>
         Complemented(a) \in WordVals /\ Complemented(a).word = w - 1 - a.word
  BY <1>2 DEF Complemented, WordVals
<1>5. /\ Complemented(x.lo) \in WordVals /\ Complemented(x.lo).word = w - 1 - l
      /\ Complemented(x.hi) \in WordVals /\ Complemented(x.hi).word = w - 1 - h
  BY <1>1, <1>3, <1>4 DEF IsPair
<1>6. (w - 1 - h) * w + (w - 1 - l) = w * w - 1 - (h * w + l)
  BY <1>3, Z3
<1>7. QED
  BY <1>1, <1>2, <1>5, <1>6, PairIs

-----------------------------------------------------------------------------
(* Comparisons.                                                            *)

LEMMA SamePairs ==
  ASSUME NEW x, NEW y, IsPair(x), IsPair(y)
  PROVE  x.lo.word = y.lo.word /\ x.hi.word = y.hi.word <=> ValueOf(x) = ValueOf(y)
<1>1. PICK w \in Nat \ {0} : w = WordMod
  BY WordsAre
<1>2. PICK g \in Nat, a \in Nat, h \in Nat, b \in Nat :
         /\ g = x.hi.word /\ a = x.lo.word /\ h = y.hi.word /\ b = y.lo.word
         /\ a < w /\ b < w
         /\ ValueOf(x) = g * w + a /\ ValueOf(y) = h * w + b
  BY <1>1, WordsOfPair
<1>3. ASSUME g * w + a = h * w + b
      PROVE  g = h /\ a = b
  <2>1. PICK n \in Int : n = g * w + a /\ n = h * w + b
    <3>1. g * w + a \in Int
      BY Z3, g \in Int, w \in Int, a \in Int
    <3>2. QED
      BY <1>3, <3>1
  <2>2. a \in 0 .. w - 1 /\ b \in 0 .. w - 1
    BY <1>2
  <2>3. n \div w = g /\ n % w = a
    BY <2>1, <2>2, DivUnique, g \in Int, a \in Int
  <2>4. n \div w = h /\ n % w = b
    BY <2>1, <2>2, DivUnique, h \in Int, b \in Int
  <2>5. QED
    BY <2>3, <2>4
<1>4. QED
  BY <1>2, <1>3

LEMMA CompareIsExact ==
  ASSUME NEW op \in Comparisons, NEW x, NEW y, IsPair(x), IsPair(y), NEW signed \in BOOLEAN
  PROVE  Compare(op, x, y, signed) <=> ReferenceCompare(op, ValueOf(x), ValueOf(y), signed)
<1>1. /\ LessThan(x, y, signed) <=> Number(ValueOf(x), signed) < Number(ValueOf(y), signed)
      /\ LessThan(y, x, signed) <=> Number(ValueOf(y), signed) < Number(ValueOf(x), signed)
  BY WordsOfPair, BorrowOrdersPairs
<1>2. Number(ValueOf(x), signed) \in Int /\ Number(ValueOf(y), signed) \in Int
  BY NumberIs
<1>3. CASE op = "eq"
  BY <1>3, SamePairs DEF Compare, ReferenceCompare
<1>4. CASE op = "lt"
  BY <1>1, <1>4 DEF Compare, ReferenceCompare
<1>5. CASE op = "gt"
  BY <1>1, <1>2, <1>5 DEF Compare, ReferenceCompare
<1>6. CASE op = "le"
  BY <1>1, <1>2, <1>6 DEF Compare, ReferenceCompare
<1>7. CASE op = "ge"
  BY <1>1, <1>2, <1>7 DEF Compare, ReferenceCompare
<1>8. QED
  BY <1>3, <1>4, <1>5, <1>6, <1>7 DEF Comparisons

LEMMA BitIsPair ==
  ASSUME NEW q \in {0, 1}
  PROVE  /\ IsPair(Widen16(Reg(q), FALSE))
         /\ ValueOf(Widen16(Reg(q), FALSE)) = q
<1>2. q \in Int /\ 0 <= q /\ q < WordMod /\ q < PairMod /\ PairMod \in Nat \ {0} /\ WordMod \in Nat \ {0}
  <2>1. WordMod >= 2
    BY WordModPositive
  <2>2. PairMod \in Nat \ {0}
    BY PairValue, WordsAre
  <2>3. WordMod * WordMod >= WordMod
    <3>1. PICK w \in Nat : w = WordMod /\ w >= 2
      BY <2>1, WordsAre
    <3>2. w * w >= w
      BY <3>1, Z3
    <3>3. QED
      BY <3>1, <3>2
  <2>4. QED
    BY <2>1, <2>2, <2>3, WordsAre DEF PairMod
<1>3. q % WordMod = q /\ q % PairMod = q
  BY <1>2, ModSmall
<1>4. /\ IsPair(Widen16(Reg(q % WordMod), FALSE))
      /\ ValueOf(Widen16(Reg(q % WordMod), FALSE)) = q % PairMod
  BY <1>2, Fitted
<1>5. QED
  BY <1>3, <1>4, Zenon

-----------------------------------------------------------------------------
(* The narrow forms.                                                       *)

LEMMA ShiftedLowIs ==
  ASSUME NEW h \in Words, NEW l \in Words, NEW n \in 1 .. 2 * WordBits - 1, NEW signed \in BOOLEAN,
         ~(signed /\ n > WordBits /\ h >= SignBit), ~(n < WordBits)
  PROVE  \E k \in Nat :
            /\ WordBits + k = n
            /\ ShiftedLow(l, h, n) = (Taken(h, signed) \div 2^k) % WordMod
<1>1. PICK k \in Nat : WordBits + k = n /\ k = n - WordBits
  BY WordsAre
<1>2. h \in Int /\ h % WordMod = h
  BY WordsAre, WordStays
<1>3. CASE n = WordBits
  <2>1. k = 0 /\ 2^k = 1
    BY <1>1, <1>3, PowerZero, WordsAre
  <2>2. PICK s \in Int : s = Taken(h, signed) /\ s % WordMod = h
    BY TakenIs
  <2>3. s \div 1 = s
    OBVIOUS
  <2>4. ShiftedLow(l, h, n) = h
    BY <1>3 DEF ShiftedLow
  <2>5. QED
    BY <1>1, <2>1, <2>2, <2>3, <2>4
<1>4. CASE n > WordBits
  <2>1. Taken(h, signed) = h
    BY <1>4 DEF Taken, SignedWord
  <2>2. ShiftedLow(l, h, n) = h \div 2^k
    BY <1>1, <1>4, WordsAre DEF ShiftedLow, Shr
  <2>3. PICK S \in Nat \ {0} : S = 2^k
    BY Power
  <2>4. h \div S \in Int /\ 0 <= h \div S /\ h \div S <= h
    BY <1>2, <2>3, QuotientNoLarger, WordsAre
  <2>5. h \div S \in Words
    BY <2>4, WordsAre
  <2>6. (h \div S) % WordMod = h \div S
    BY <2>5, WordStays
  <2>7. QED
    BY <1>1, <2>1, <2>2, <2>3, <2>6
<1>5. QED
  BY <1>3, <1>4, WordsAre

(* variable >> n: the low word is computed from both words.                *)
ShiftedVariable(v, n, signed) ==
    Pair(Reg(ShiftedLow(v.lo.word, v.hi.word, n)),
         IF n < WordBits THEN ShiftWord("shr", Reg(v.hi.word), n, signed)
         ELSE IF signed THEN SignExtended(Reg(v.hi.word)) ELSE Known(0))

LEMMA ShiftVariableBelow ==
  ASSUME NEW x, IsPair(x), NEW n \in 1 .. WordBits - 1, NEW signed \in BOOLEAN
  PROVE  /\ IsPair(ShiftedVariable(x, n, signed))
         /\ ValueOf(ShiftedVariable(x, n, signed)) = (Number(ValueOf(x), signed) \div 2^n) % PairMod
<1>1. PICK h \in Words, l \in Words, s \in Int :
        h = x.hi.word /\ l = x.lo.word /\ s = Taken(h, signed) /\ s % WordMod = h
  BY WordsOfPair, TakenIs
<1>2. Number(ValueOf(x), signed) = s * WordMod + l
  BY <1>1, NumberIs DEF Taken
<1>3. Reg(h) \in WordVals /\ Reg(h).word = h
  BY MadeWords
<1>5. n < WordBits
  BY WordsAre
<1>12. PICK P \in Nat \ {0}, Q \in Nat \ {0} :
        P = 2^n /\ Q = 2^(WordBits - n) /\ WordMod = Q * P /\ WordMod = P * Q
  BY Halves
<1>13. n \in Nat
  OBVIOUS
<1>14. s % P = h % P
  BY <1>1, <1>12, SameLowBits
<1>15. /\ (h * Q) % WordMod = (h % P) * Q
      /\ h % P \in Nat
      /\ l \div P \in 0 .. Q - 1
      /\ (h % P) * Q + (l \div P) \in Words
      /\ ((s * WordMod + l) \div P) % PairMod
            = ((s \div P) % WordMod) * WordMod + ((h % P) * Q + (l \div P))
  BY <1>12, <1>14, RightByParts
<1>16. PICK lo \in Words : lo = (h % P) * Q + (l \div P) /\ lo % WordMod = lo
  BY <1>15, WordStays
<1>17. ShiftedLow(l, h, n) = (((h * Q) % WordMod) + (l \div P) + 0) % WordMod
  BY <1>5, <1>12, WordsAre DEF ShiftedLow, AddC, Shl, Shr
<1>18. ShiftedLow(l, h, n) = lo
  <2>1. PICK u \in Int, v \in Int : u = (h % P) * Q /\ v = l \div P
    <3>1. (h % P) * Q \in Int
      <4>1. PICK c \in Int : c = h % P
        BY <1>15
      <4>2. c * Q \in Int
        BY Z3, Q \in Int
      <4>3. QED
        BY <4>1, <4>2
    <3>2. QED
      BY <1>15, <3>1
  <2>2. u + v + 0 = u + v
    OBVIOUS
  <2>3. QED
    BY <1>15, <1>16, <1>17, <2>1, <2>2, Zenon
<1> DEFINE hi == ShiftWord("shr", Reg(h), n, signed)
<1>19. hi \in WordVals /\ hi.word = (s \div P) % WordMod
  BY <1>1, <1>3, <1>12, <1>13, ShiftTaken
<1>20. ShiftedVariable(x, n, signed) = Pair(Reg(lo), hi)
  BY <1>1, <1>5, <1>18 DEF ShiftedVariable
<1> HIDE DEF hi
<1>21. /\ IsPair(ShiftedVariable(x, n, signed))
       /\ ValueOf(ShiftedVariable(x, n, signed)) = hi.word * WordMod + lo
  BY <1>19, <1>20, MadeWords, PairIs
<1>22. QED
  BY <1>2, <1>12, <1>15, <1>16, <1>19, <1>21, Zenon

LEMMA ShiftVariableIsExact ==
  ASSUME NEW x, IsPair(x), NEW n \in 1 .. 2 * WordBits - 1, NEW signed \in BOOLEAN,
         ~(signed /\ n > WordBits /\ x.hi.word >= SignBit)
  PROVE  /\ IsPair(ShiftedVariable(x, n, signed))
         /\ ValueOf(ShiftedVariable(x, n, signed)) = (Number(ValueOf(x), signed) \div 2^n) % PairMod
<1>1. PICK h \in Words, l \in Words, s \in Int :
        h = x.hi.word /\ l = x.lo.word /\ s = Taken(h, signed) /\ s % WordMod = h
  BY WordsOfPair, TakenIs
<1>2. Number(ValueOf(x), signed) = s * WordMod + l
  BY <1>1, NumberIs DEF Taken
<1>3. Reg(h) \in WordVals /\ Reg(h).word = h
  BY MadeWords
<1>4. CASE ~(n < WordBits)
  <2>1. PICK k \in Nat, lo \in Words :
           WordBits + k = n /\ lo = ShiftedLow(l, h, n) /\ lo = (s \div 2^k) % WordMod
    <3>1. \E k \in Nat : /\ WordBits + k = n
                         /\ ShiftedLow(l, h, n) = (Taken(h, signed) \div 2^k) % WordMod
      BY <1>1, <1>4, ShiftedLowIs
    <3>2. PICK k \in Nat : /\ WordBits + k = n
                           /\ ShiftedLow(l, h, n) = (Taken(h, signed) \div 2^k) % WordMod
      BY <3>1
    <3>3. (Taken(h, signed) \div 2^k) % WordMod \in Words
      BY SignAbove
    <3>4. QED
      BY <1>1, <3>2, <3>3
  <2> DEFINE hi == IF signed THEN SignExtended(Reg(h)) ELSE Known(0)
  <2>2. hi \in WordVals /\ hi.word = IF signed THEN SignExtension(h) ELSE 0
    BY <1>3, SignWord
  <2>3. ShiftedVariable(x, n, signed) = Pair(Reg(lo), hi)
    BY <1>1, <1>4, <2>1 DEF ShiftedVariable
  <2> HIDE DEF hi
  <2>4. /\ IsPair(ShiftedVariable(x, n, signed))
        /\ ValueOf(ShiftedVariable(x, n, signed)) = hi.word * WordMod + lo
    BY <2>2, <2>3, MadeWords, PairIs
  <2>5. (s \div 2^k) % PairMod = hi.word * WordMod + lo
    BY <1>1, <2>1, <2>2, SignAbove
  <2>6. (s * WordMod + l) \div 2^n = s \div 2^k
    BY <2>1, RightByWord
  <2>7. QED
    BY <1>2, <2>4, <2>5, <2>6, Zenon
<1>5. CASE n < WordBits
  BY <1>5, ShiftVariableBelow, WordsAre
<1>6. QED
  BY <1>4, <1>5

(* Beyond a word, the high word is shifted without its sign.               *)
LEMMA ShiftVariableBeyond ==
  ASSUME NEW x, IsPair(x), NEW n \in 1 .. 2 * WordBits - 1, n > WordBits, x.hi.word >= SignBit
  PROVE  /\ IsPair(ShiftedVariable(x, n, TRUE))
         /\ ValueOf(ShiftedVariable(x, n, TRUE)) = (WordMod - 1) * WordMod + ValueOf(x) \div 2^n
<1>1. PICK h \in Words, l \in Words : h = x.hi.word /\ l = x.lo.word /\ ValueOf(x) = h * WordMod + l
  BY WordsOfPair
<1>2. PICK k \in Nat : WordBits + k = n /\ k = n - WordBits
  BY WordsAre
<1>3. PICK S \in Nat \ {0} : S = 2^k
  BY <1>2, Power
<1>4. PICK q \in Words : q = h \div S
  <2>1. h \in Int /\ 0 <= h /\ h < WordMod
    BY WordsAre
  <2>2. h \div S \in Int /\ 0 <= h \div S /\ h \div S <= h
    BY <2>1, QuotientNoLarger
  <2>3. QED
    BY <2>1, <2>2, WordsAre
<1>5. ShiftedLow(l, h, n) = q
  BY <1>2, <1>3, <1>4, WordsAre DEF ShiftedLow, Shr
<1>6. Reg(h) \in WordVals /\ Reg(h).word = h
  BY MadeWords
<1>7. PICK hi \in WordVals : hi = SignExtended(Reg(h)) /\ hi.word = WordMod - 1
  BY <1>1, <1>6, SignWord DEF SignExtension
<1>8. ShiftedVariable(x, n, TRUE) = Pair(Reg(q), hi)
  <2>1. ~(n < WordBits)
    BY WordsAre
  <2>2. QED
    BY <1>1, <1>5, <1>7, <2>1, Zenon DEF ShiftedVariable
<1>9. /\ IsPair(ShiftedVariable(x, n, TRUE))
      /\ ValueOf(ShiftedVariable(x, n, TRUE)) = (WordMod - 1) * WordMod + q
  <2>1. Reg(q) \in WordVals /\ Reg(q).word = q
    BY MadeWords
  <2>2. IsPair(Pair(Reg(q), hi)) /\ ValueOf(Pair(Reg(q), hi)) = hi.word * WordMod + Reg(q).word
    BY <2>1, PairIs
  <2>3. QED
    BY <1>7, <1>8, <2>1, <2>2, Zenon
<1>10. ValueOf(x) \div 2^n = q
  <2>1. h \in Int
    BY WordsAre
  <2>2. (h * WordMod + l) \div 2^(WordBits + k) = h \div 2^k
    BY <2>1, RightByWord
  <2>3. QED
    BY <1>1, <1>2, <1>3, <1>4, <2>2, Zenon
<1>11. QED
  BY <1>9, <1>10

LEMMA StoreProductIsExact ==
  ASSUME NEW x, NEW y, IsPair(x), IsPair(y), NEW k, NEW signed \in BOOLEAN, signed = IsSigned(k),
         NEW p, p = Product(x.lo.word, y.lo.word, signed)
  PROVE  /\ p.lo \in Words /\ p.hi \in Words
         /\ p.hi * WordMod + p.lo = (ReadAs(k, ValueOf(x)) * ReadAs(k, ValueOf(y))) % PairMod
<1>1. PICK a \in Words, b \in Words : a = x.lo.word /\ b = y.lo.word
  BY WordsOfPair
<1>2. /\ p.lo \in Words /\ p.hi \in Words
      /\ p.hi * WordMod + p.lo = (Taken(a, signed) * Taken(b, signed)) % PairMod
  BY <1>1, ProductIs
<1>3. PICK s \in Int, t \in Int :
         s = Taken(a, signed) /\ t = Taken(b, signed)
  BY TakenIs
<1>4. ReadAs(k, ValueOf(x)) = s % PairMod /\ ReadAs(k, ValueOf(y)) = t % PairMod
  BY <1>1, <1>3, ReadAsIs
<1>5. PICK m \in Pairs, n \in Pairs : m = s % PairMod /\ n = t % PairMod
  BY ModIsPair
<1>6. m \in Int /\ n \in Int /\ s % PairMod = m % PairMod /\ t % PairMod = n % PairMod
  <2>1. \A v \in Pairs : v \in Int /\ v % PairMod = v
    <3>1. TAKE v \in Pairs
    <3>2. v \in Int /\ 0 <= v /\ v < PairMod /\ PairMod \in Nat \ {0}
      BY PairValue, WordsAre DEF Pairs
    <3>3. QED
      BY <3>2, ModSmall
  <2>2. QED
    BY <1>5, <2>1
<1>7. (s * t) % PairMod = (m * n) % PairMod
  BY <1>6, ProductModPair
<1>8. QED
  BY <1>2, <1>3, <1>4, <1>5, <1>7, Zenon

LEMMA OrOfWords ==
  ASSUME NEW a \in Words, NEW b \in Words
  PROVE  BitsOp("or", a * 2^WordBits, b, 2 * WordBits) = a * 2^WordBits + b
<1>1. PICK w \in Nat \ {0} : w = WordMod /\ PairMod = w * w
  BY WordsAre DEF PairMod
<1>2. PICK i \in Nat, j \in Nat, c \in Nat, d \in Nat :
        /\ i = WordBits /\ j = 2 * WordBits /\ c = a /\ d = b
        /\ i <= j /\ c < w /\ d < w
  <2>1. WordBits \in Nat /\ 2 * WordBits \in Nat /\ WordBits <= 2 * WordBits
    BY WordsAre
  <2>2. a \in Nat /\ b \in Nat /\ a < w /\ b < w
    BY <1>1, WordsAre
  <2>3. QED
    BY <2>1, <2>2, Zenon
<1>3. w = 2^i /\ w * w = 2^j
  BY <1>1, <1>2, WordModIsPower
<1>4. c * 2^i < 2^j
  <2>1. c * w <= (w - 1) * w
    BY <1>2, Z3
  <2>2. (w - 1) * w = w * w - w /\ w * w \in Int /\ c * w \in Int
    BY <1>2, Z3
  <2>3. c * w < w * w
    BY <2>1, <2>2
  <2>4. QED
    BY <1>3, <2>3, Zenon
<1>5. d < 2^i
  BY <1>2, <1>3, Zenon
<1>6. BitsOp("or", c * 2^i, d, j) = c * 2^i + d
  BY <1>2, <1>4, <1>5, OrOfParts
<1>7. QED
  BY <1>2, <1>6, Zenon

LEMMA StoreComposedIsExact ==
  ASSUME NEW x, NEW y, IsPair(x), IsPair(y),
         NEW v, v = Pair(Reg(y.lo.word), Reg(x.lo.word)),
         NEW e, e = ReadAs("u32", ValueOf(y))
  PROVE  /\ IsPair(v)
         /\ ValueOf(v) = Reference("or", (ValueOf(x) * WordMod) % PairMod, e, FALSE)
<1>1. PICK g \in Words, a \in Words, b \in Words :
         g = x.hi.word /\ a = x.lo.word /\ b = y.lo.word /\ ValueOf(x) = g * WordMod + a
  BY WordsOfPair
<1>2. IsPair(v) /\ ValueOf(v) = a * WordMod + b
  BY <1>1, MadeWords, PairIs
<1>3. e = b
  <2>1. IsSigned("u32") = FALSE
    BY DEF IsSigned
  <2>2. Number(e, FALSE) = Taken(b, FALSE)
    BY <1>1, <2>1, ReadAsIs, Zenon
  <2>3. QED
    BY <2>2 DEF Taken, Number
<1>4. PICK w \in Nat \ {0} : w = WordMod /\ PairMod = w * w
  BY WordsAre DEF PairMod
<1>5. (ValueOf(x) * WordMod) % PairMod = a * WordMod
  <2>1. g \in Int /\ a \in Int /\ a % WordMod = a
    BY WordsAre, WordStays
  <2>2. PICK n \in Int : n = g * w + a
    <3>1. g * w + a \in Int
      BY <2>1, Z3
    <3>2. QED
      BY <3>1
  <2>3. (n * w) % (w * w) = (n % w) * w
    BY DivScaled
  <2>4. n % w = a % w
    BY <2>1, <2>2, ModSame
  <2>5. QED
    BY <1>1, <1>4, <2>1, <2>2, <2>3, <2>4, Zenon
<1>6. BitsOp("or", a * 2^WordBits, b, 2 * WordBits) = a * 2^WordBits + b
  BY OrOfWords
<1>7. Reference("or", (ValueOf(x) * WordMod) % PairMod, e, FALSE)
        = BitsOp("or", (ValueOf(x) * WordMod) % PairMod, e, 2 * WordBits)
  BY DEF Reference
<1>8. QED
  BY <1>2, <1>3, <1>5, <1>6, <1>7, WordsAre

-----------------------------------------------------------------------------
(* Operands and operators.                                                 *)

IsRight(v, e) == IsPair(v) /\ MarkIsTrue(v) /\ ValueOf(v) = e

LEMMA LiteralIsRight == ASSUME NEW c \in Literals PROVE IsRight(Literal(c).val, Literal(c).exact)
<1>1. c \in Int
  BY WideAssumption
<1>2. IsPair(Const32(c)) /\ ValueOf(Const32(c)) = c % PairMod /\ MarkIsTrue(Const32(c))
  BY <1>1, ConstIsPair, MarkOfConst
<1>3. Literal(c).val = Const32(c) /\ Literal(c).exact = c % PairMod
  BY DEF Literal, Operand
<1>4. QED
  BY <1>2, <1>3 DEF IsRight

LEMMA VariableIsRight ==
  ASSUME NEW k, NEW w \in Words16
  PROVE  IsRight(Variable16(k, w).val, Variable16(k, w).exact)
<1>1. PICK s \in BOOLEAN : s = IsSigned(k)
  BY SignIs
<1>2. w \in Words
  BY WideAssumption
<1>3. PICK q \in Int : q = Taken(w, s) /\ q % WordMod = w
  BY <1>2, TakenIs
<1>4. IF s THEN -SignBit <= q /\ q < SignBit ELSE 0 <= q /\ q < WordMod
  BY <1>2, <1>3, SignedWordIs, WordsAre DEF Taken
<1>5. /\ IsPair(Widen16(Reg(q % WordMod), s))
      /\ ValueOf(Widen16(Reg(q % WordMod), s)) = q % PairMod
  BY <1>4, Fitted
<1>6. MarkIsTrue(Widen16(Reg(w), s))
  BY MarkOfWidened
<1>7. Variable16(k, w).val = Widen16(Reg(w), s) /\ Variable16(k, w).exact = q % PairMod
  BY <1>1, <1>3 DEF Variable16, Operand, Taken
<1>8. QED
  BY <1>3, <1>5, <1>6, <1>7 DEF IsRight

LEMMA LongIsRight ==
  ASSUME NEW k, NEW p \in Words32
  PROVE  IsRight(Variable32(k, p).val, Variable32(k, p).exact)
<1>1. p \in Pairs
  BY WideAssumption
<1>2. /\ p \div WordMod \in Words /\ p % WordMod \in Words
      /\ (p \div WordMod) * WordMod + (p % WordMod) = p
  BY <1>1, SplitPair
<1>3. PICK l \in Words, h \in Words : l = p % WordMod /\ h = p \div WordMod /\ h * WordMod + l = p
  BY <1>2
<1>4. IsPair(Pair(Reg(l), Reg(h))) /\ ValueOf(Pair(Reg(l), Reg(h))) = h * WordMod + l
  BY MadeWords, PairIs
<1>5. MarkIsTrue(Pair(Reg(l), Reg(h)))
  BY MarkOfPair
<1>6. Variable32(k, p).val = Pair(Reg(l), Reg(h)) /\ Variable32(k, p).exact = p
  BY <1>3 DEF Variable32, Operand
<1>7. QED
  BY <1>3, <1>4, <1>5, <1>6 DEF IsRight

LEMMA OperandIsRight == ASSUME NEW x \in Operands PROVE IsRight(x.val, x.exact)
  BY LiteralIsRight, VariableIsRight, LongIsRight DEF Operands, Operands16

LEMMA NarrowIsRight == ASSUME NEW x \in Operands16 PROVE IsRight(x.val, x.exact)
  BY OperandIsRight DEF Operands

LEMMA OperateIsExact ==
  ASSUME NEW op \in Operators \ {"div", "mod"}, NEW x, NEW y, NEW signed \in BOOLEAN,
         IsPair(x), IsPair(y), MarkIsTrue(x), MarkIsTrue(y)
  PROVE  IsRight(Operate(op, x, y, signed), Reference(op, ValueOf(x), ValueOf(y), signed))
<1>1. MarkIsTrue(Operate(op, x, y, signed))
  BY MarkOfResult
<1>2. CASE op \in {"add", "sub"}
  <2>1. Operate(op, x, y, signed) = AddSub(op, x, y)
    BY <1>2 DEF Operate
  <2>2. QED
    BY <1>1, <1>2, <2>1, AddSubIsExact DEF IsRight
<1>3. CASE op \in {"and", "or", "xor"}
  <2>1. /\ Operate(op, x, y, signed) = BitOp(op, x, y)
        /\ Reference(op, ValueOf(x), ValueOf(y), signed)
             = BitsOp(op, ValueOf(x), ValueOf(y), 2 * WordBits)
    BY <1>3 DEF Operate, Reference
  <2>2. op \in BitOps
    BY <1>3 DEF BitOps
  <2>3. QED
    BY <1>1, <2>1, <2>2, BitOpIsExact DEF IsRight
<1>4. CASE op = "mul"
  <2>1. /\ Operate(op, x, y, signed) = Mul(x, y)
        /\ Reference(op, ValueOf(x), ValueOf(y), signed) = (ValueOf(x) * ValueOf(y)) % PairMod
    BY <1>4 DEF Operate, Reference
  <2>2. QED
    BY <1>1, <2>1, MulIsExact DEF IsRight
<1>5. QED
  BY <1>2, <1>3, <1>4 DEF Operators

-----------------------------------------------------------------------------
(* The steps.                                                              *)

Right == IsRight(val, exact)

LEMMA InitIsRight == Init => Right
<1> SUFFICES ASSUME Init PROVE Right
  OBVIOUS
<1>1. 0 % PairMod = 0
  BY PairValue, WordsAre, ModSmall
<1>2. IsPair(Const32(0)) /\ ValueOf(Const32(0)) = 0 % PairMod /\ MarkIsTrue(Const32(0))
  BY ConstIsPair, MarkOfConst
<1>3. QED
  BY <1>1, <1>2 DEF Init, Right, IsRight

LEMMA BinaryIsRight ==
  ASSUME NEW op \in Operators, NEW x, NEW y, IsRight(x.val, x.exact), IsRight(y.val, y.exact),
         Binary(op, x, y)
  PROVE  Right'
<1>1. PICK signed \in BOOLEAN : signed = IsSigned(kind')
  BY SignIs
<1>2. /\ IsPair(x.val) /\ IsPair(y.val) /\ MarkIsTrue(x.val) /\ MarkIsTrue(y.val)
      /\ ValueOf(x.val) = x.exact /\ ValueOf(y.val) = y.exact
  BY DEF IsRight
<1>3. val' = Operate(op, x.val, y.val, signed)
  BY <1>1 DEF Binary
<1>4. CASE op \in {"div", "mod"}
  <2>1. PICK k, e : k = kind' /\ e = ReadAs(k, y.exact)
    OBVIOUS
  <2>2. Defined(x.exact, e, signed) /\ exact' = Reference(op, x.exact, e, signed)
    BY <1>1, <1>4, <2>1 DEF Binary
  <2>3. /\ IsPair(Div(op, x.val, y.val, signed))
        /\ ValueOf(Div(op, x.val, y.val, signed)) = Reference(op, x.exact, e, signed)
    BY <1>1, <1>2, <1>4, <2>1, <2>2, DivIsExact
  <2>4. val' = Div(op, x.val, y.val, signed)
    BY <1>3, <1>4 DEF Operate
  <2>5. MarkIsTrue(val')
    BY <1>3, MarkOfResult
  <2>6. QED
    BY <2>2, <2>3, <2>4, <2>5 DEF Right, IsRight
<1>5. CASE op \notin {"div", "mod"}
  <2>1. IsRight(Operate(op, x.val, y.val, signed), Reference(op, x.exact, y.exact, signed))
    BY <1>2, <1>5, OperateIsExact
  <2>2. exact' = Reference(op, x.exact, y.exact, signed)
    BY <1>1, <1>5 DEF Binary
  <2>3. QED
    BY <1>3, <2>1, <2>2 DEF Right
<1>6. QED
  BY <1>4, <1>5

LEMMA ComparisonIsRight ==
  ASSUME NEW op \in Comparisons, NEW x, NEW y, IsRight(x.val, x.exact), IsRight(y.val, y.exact),
         Comparison(op, x, y)
  PROVE  Right'
<1>1. PICK signed \in BOOLEAN : signed = IsSigned(ResultKind(x.kind, y.kind))
  BY SignIs
<1>2. Compare(op, x.val, y.val, signed) <=> ReferenceCompare(op, x.exact, y.exact, signed)
  BY CompareIsExact DEF IsRight
<1>3. PICK q \in {0, 1} : /\ q = Bit(Compare(op, x.val, y.val, signed))
                          /\ q = Bit(ReferenceCompare(op, x.exact, y.exact, signed))
  BY <1>2 DEF Bit
<1>4. val' = Widen16(Reg(q), FALSE) /\ exact' = q
  BY <1>1, <1>3 DEF Comparison
<1>5. /\ IsPair(Widen16(Reg(q), FALSE))
      /\ ValueOf(Widen16(Reg(q), FALSE)) = q
      /\ MarkIsTrue(Widen16(Reg(q), FALSE))
  BY BitIsPair, MarkOfZeroExtended
<1>6. QED
  BY <1>4, <1>5 DEF Right, IsRight

LEMMA ShiftIsRight ==
  ASSUME Right, NEW op \in {"shl", "shr"}, NEW n \in 0 .. 2 * WordBits - 1, ShiftBy(op, n)
  PROVE  Right'
<1>1. PICK signed \in BOOLEAN : signed = IsSigned(kind)
  BY SignIs
<1>2. IsPair(val) /\ MarkIsTrue(val) /\ ValueOf(val) = exact
  BY DEF Right, IsRight
<1>3. val' = Shift(op, val, n, signed) /\ exact' = Reference(op, exact, n, signed)
  BY <1>1 DEF ShiftBy
<1>4. /\ IsPair(Shift(op, val, n, signed))
      /\ ValueOf(Shift(op, val, n, signed)) = Reference(op, exact, n, signed)
  BY <1>2, ShiftIsExact
<1>5. MarkIsTrue(Shift(op, val, n, signed))
  BY <1>2, MarkOfShifted
<1>6. QED
  BY <1>3, <1>4, <1>5 DEF Right, IsRight

LEMMA UnaryIsRight == ASSUME Right, Negate \/ Complement PROVE Right'
<1>1. IsPair(val) /\ MarkIsTrue(val) /\ ValueOf(val) = exact
  BY DEF Right, IsRight
<1>2. CASE Negate
  <2>1. 0 % PairMod = 0
    BY PairValue, WordsAre, ModSmall
  <2>2. IsPair(Const32(0)) /\ ValueOf(Const32(0)) = 0
    BY <2>1, ConstIsPair
  <2>3. /\ IsPair(AddSub("sub", Const32(0), val))
        /\ ValueOf(AddSub("sub", Const32(0), val)) = Reference("sub", 0, exact, FALSE)
    BY <1>1, <2>2, AddSubIsExact
  <2>4. MarkIsTrue(AddSub("sub", Const32(0), val))
    <3>1. "sub" \in Operators
      BY DEF Operators
    <3>2. MarkIsTrue(Operate("sub", Const32(0), val, FALSE))
      BY <3>1, MarkOfResult
    <3>3. QED
      BY <3>2 DEF Operate
  <2>5. Reference("sub", 0, exact, FALSE) = (-exact) % PairMod
    <3>1. exact \in Int
      BY <1>1, WordsOfPair
    <3>2. 0 - exact = -exact
      BY <3>1
    <3>3. QED
      BY <3>2 DEF Reference
  <2>6. QED
    BY <1>2, <2>3, <2>4, <2>5 DEF Negate, Right, IsRight
<1>3. CASE Complement
  BY <1>1, <1>3, ComplementIsExact, MarkOfPair DEF Complement, Right, IsRight
<1>4. QED
  BY <1>2, <1>3

(* A pair of the lower half has a high word without the sign bit.          *)
LEMMA HalfOfPairs ==
  ASSUME NEW v, IsPair(v)
  PROVE  ValueOf(v) < PairMod \div 2 <=> v.hi.word < SignBit
<1>1. PICK h \in Words, l \in Words : h = v.hi.word /\ l = v.lo.word /\ ValueOf(v) = h * WordMod + l
  BY WordsOfPair
<1>2. PairMod \div 2 = SignBit * WordMod
  BY WordModPositive DEF PairMod
<1>3. h < SignBit => h * WordMod + l < SignBit * WordMod
  BY WordModPositive DEF Words
<1>4. h >= SignBit => h * WordMod + l >= SignBit * WordMod
  BY WordModPositive DEF Words
<1>5. h * WordMod + l \in Int /\ SignBit * WordMod \in Int /\ h \in Int
  BY WordModPositive DEF Words
<1>6. QED
  BY <1>1, <1>2, <1>3, <1>4, <1>5, WordModPositive

LEMMA ShiftVariableIsRight ==
  ASSUME Right, NEW k, NEW n \in 1 .. 2 * WordBits - 1, ShiftVariable(k, n)
  PROVE  Right'
<1>1. PICK signed \in BOOLEAN : signed = IsSigned(k)
  BY SignIs
<1>2. IsPair(val) /\ ValueOf(val) = exact
  BY DEF Right, IsRight
<1>3. val' = ShiftedVariable(val, n, signed) /\ exact' = NarrowShift(k, exact, n)
  BY <1>1 DEF ShiftVariable, ShiftedVariable, Reg
<1>4. exact < PairMod \div 2 <=> val.hi.word < SignBit
  BY <1>2, HalfOfPairs
<1>5. /\ IsPair(ShiftedVariable(val, n, signed))
      /\ ValueOf(ShiftedVariable(val, n, signed)) = exact'
  <2>1. CASE signed /\ n > WordBits /\ val.hi.word >= SignBit
    <3>1. ~(n <= WordBits \/ ~IsSigned(k) \/ exact < PairMod \div 2)
      <4>1. ~(n <= WordBits) /\ ~(val.hi.word < SignBit)
        BY <1>2, <2>1, WordsAre, WordsOfPair, WordModPositive
      <4>2. QED
        BY <1>1, <1>4, <2>1, <4>1
    <3>2. exact' = (WordMod - 1) * WordMod + exact \div 2^n
      BY <1>3, <3>1, Zenon DEF NarrowShift
    <3>3. QED
      BY <1>2, <2>1, <3>2, ShiftVariableBeyond
  <2>2. CASE ~(signed /\ n > WordBits /\ val.hi.word >= SignBit)
    <3>1. exact' = Reference("shr", exact, n, signed)
      BY <1>1, <1>2, <1>3, <1>4, <2>2, WordsAre, WordsOfPair, WordModPositive DEF NarrowShift
    <3>2. Reference("shr", exact, n, signed) = (Number(exact, signed) \div 2^n) % PairMod
      BY DEF Reference
    <3>3. QED
      BY <1>2, <2>2, <3>1, <3>2, ShiftVariableIsExact
  <2>3. QED
    BY <2>1, <2>2
<1>6. MarkIsTrue(ShiftedVariable(val, n, signed))
  BY MarkOfPair DEF ShiftedVariable
<1>7. QED
  BY <1>3, <1>5, <1>6 DEF Right, IsRight

LEMMA DivideIsRight ==
  ASSUME NEW h \in Words, NEW l \in Words, NEW d, IsPair(d), NEW k, NEW e, e = ReadAs(k, ValueOf(d)),
         Defined(h * WordMod + l, e, IsSigned(k)),
         NEW op \in {"div", "mod"},
         val' = Widen16(Reg(Part(op, Divided(h, l, d.lo.word, IsSigned(k)))), IsSigned(k)),
         exact' = Reference(op, h * WordMod + l, e, IsSigned(k))
  PROVE  Right'
<1>1. PICK signed \in BOOLEAN : signed = IsSigned(k)
  BY SignIs
<1>2. PICK w : w = Part(op, Divided(h, l, d.lo.word, signed))
  OBVIOUS
<1>3. /\ IsPair(Widen16(Reg(w), signed))
      /\ ValueOf(Widen16(Reg(w), signed)) = Reference(op, h * WordMod + l, e, signed)
  BY <1>1, <1>2, DivideExactly
<1>4. MarkIsTrue(Widen16(Reg(w), signed))
  BY MarkOfWidened
<1>5. QED
  BY <1>1, <1>2, <1>3, <1>4 DEF Right, IsRight

LEMMA DivideVariableIsRight ==
  ASSUME Right, NEW op \in {"div", "mod"}, NEW k, NEW x \in Operands16,
         DivideVariable(op, k, x)
  PROVE  Right'
<1>1. PICK h \in Words, l \in Words : h = val.hi.word /\ l = val.lo.word /\ h * WordMod + l = exact
  BY WordsOfPair DEF Right, IsRight
<1>2. PICK e : IsPair(x.val) /\ ValueOf(x.val) = x.exact /\ e = ReadAs(k, x.exact)
  BY NarrowIsRight DEF IsRight
<1>3. /\ Defined(h * WordMod + l, e, IsSigned(k))
      /\ val' = Widen16(Reg(Part(op, Divided(h, l, x.val.lo.word, IsSigned(k)))), IsSigned(k))
      /\ exact' = Reference(op, h * WordMod + l, e, IsSigned(k))
  BY <1>1, <1>2 DEF DivideVariable
<1>4. QED
  BY <1>2, <1>3, DivideIsRight

LEMMA DivideProductIsRight ==
  ASSUME NEW op \in {"div", "mod"}, NEW k,
         NEW x \in Operands16, NEW y \in Operands16, NEW z \in Operands16,
         DivideProduct(op, k, x, y, z)
  PROVE  Right'
<1>1. /\ IsPair(x.val) /\ IsPair(y.val) /\ IsPair(z.val)
      /\ ValueOf(x.val) = x.exact /\ ValueOf(y.val) = y.exact /\ ValueOf(z.val) = z.exact
  BY NarrowIsRight DEF IsRight
<1>2. PICK signed \in BOOLEAN : signed = IsSigned(k)
  BY SignIs
<1>3. PICK p : p = Product(x.val.lo.word, y.val.lo.word, signed)
  OBVIOUS
<1>4. PICK e : e = ReadAs(k, z.exact)
  OBVIOUS
<1>5. PICK h \in Words, l \in Words :
        h = p.hi /\ l = p.lo /\ h * WordMod + l = (ReadAs(k, x.exact) * ReadAs(k, y.exact)) % PairMod
  BY <1>1, <1>2, <1>3, StoreProductIsExact
<1>6. /\ Defined(h * WordMod + l, e, IsSigned(k))
      /\ val' = Widen16(Reg(Part(op, Divided(h, l, z.val.lo.word, IsSigned(k)))), IsSigned(k))
      /\ exact' = Reference(op, h * WordMod + l, e, IsSigned(k))
  BY <1>2, <1>3, <1>4, <1>5 DEF DivideProduct
<1>7. QED
  BY <1>1, <1>4, <1>6, DivideIsRight

LEMMA StoreIsRight ==
  ASSUME NEW k, NEW x \in Operands16, NEW y \in Operands16,
         StoreProduct(k, x, y) \/ StoreComposed(k, x, y)
  PROVE  Right'
<1>1. /\ IsPair(x.val) /\ IsPair(y.val)
      /\ ValueOf(x.val) = x.exact /\ ValueOf(y.val) = y.exact
  BY NarrowIsRight DEF IsRight
<1>2. CASE StoreProduct(k, x, y)
  <2>1. PICK signed \in BOOLEAN : signed = IsSigned(k)
    BY SignIs
  <2>2. PICK p : p = Product(x.val.lo.word, y.val.lo.word, signed)
    OBVIOUS
  <2>3. PICK h \in Words, l \in Words :
          h = p.hi /\ l = p.lo /\ h * WordMod + l = (ReadAs(k, x.exact) * ReadAs(k, y.exact)) % PairMod
    BY <1>1, <2>1, <2>2, StoreProductIsExact
  <2>4. val' = Pair(Reg(l), Reg(h)) /\ exact' = h * WordMod + l
    BY <1>2, <2>1, <2>2, <2>3 DEF StoreProduct
  <2>5. QED
    BY <2>4, MadeWords, PairIs, MarkOfPair DEF Right, IsRight
<1>3. CASE StoreComposed(k, x, y)
  <2>1. PICK v : v = Pair(Reg(y.val.lo.word), Reg(x.val.lo.word))
    OBVIOUS
  <2>2. PICK e : e = ReadAs("u32", y.exact)
    OBVIOUS
  <2>3. IsPair(v) /\ ValueOf(v) = Reference("or", (x.exact * WordMod) % PairMod, e, FALSE)
    <3>1. e = ReadAs("u32", ValueOf(y.val))
      BY <1>1, <2>2, Zenon
    <3>2. /\ IsPair(v)
          /\ ValueOf(v) = Reference("or", (ValueOf(x.val) * WordMod) % PairMod, e, FALSE)
      BY <1>1, <2>1, <3>1, StoreComposedIsExact, Zenon
    <3>3. QED
      BY <1>1, <3>2, Zenon
  <2>4. val' = v /\ exact' = Reference("or", (x.exact * WordMod) % PairMod, e, FALSE)
    BY <1>3, <2>1, <2>2 DEF StoreComposed
  <2>5. QED
    BY <2>1, <2>3, <2>4, MarkOfPair DEF Right, IsRight
<1>4. QED
  BY <1>2, <1>3

(* Whatever the expression and the width of a word: the pair of words that *)
(* the compiled code computes is the value of C, in which the operand of a *)
(* narrow form is the number that ReadAs takes its word for, and >> of a   *)
(* variable beyond a word is NarrowShift.                                  *)
THEOREM ExpressionsAreExact == Spec => []Exact
<1>1. Right /\ [Next]_vars => Right'
  <2> SUFFICES ASSUME Right, [Next]_vars PROVE Right'
    OBVIOUS
  <2>1. IsRight(Current.val, Current.exact)
    BY DEF Right, Current, Operand
  <2>2. ASSUME NEW x \in Operands, Begin(x) PROVE Right'
    BY <2>2, OperandIsRight DEF Begin, Right
  <2>3. ASSUME NEW op \in Operators, NEW x \in Operands, Apply(op, x) PROVE Right'
    BY <2>1, <2>3, OperandIsRight, BinaryIsRight DEF Apply
  <2>4. ASSUME NEW op \in Comparisons, NEW x \in Operands, CompareWith(op, x) PROVE Right'
    BY <2>1, <2>4, OperandIsRight, ComparisonIsRight DEF CompareWith
  <2>5. ASSUME NEW op \in {"shl", "shr"}, NEW n \in 0 .. 2 * WordBits - 1, ShiftBy(op, n)
        PROVE  Right'
    BY <2>5, ShiftIsRight
  <2>6. CASE Negate \/ Complement
    BY <2>6, UnaryIsRight
  <2>7. ASSUME NEW k \in Kinds32, Cast(k) PROVE Right'
    BY <2>7 DEF Cast, Right
  <2>8. ASSUME NarrowForm PROVE Right'
    BY <2>8, ShiftVariableIsRight, DivideVariableIsRight, DivideProductIsRight, StoreIsRight
    DEF NarrowForm
  <2>9. CASE UNCHANGED vars
    BY <2>9 DEF vars, Right
  <2>10. QED
    BY <2>2, <2>3, <2>4, <2>5, <2>6, <2>7, <2>8, <2>9 DEF Next
<1>2. Right => Exact
  BY DEF Right, IsRight, Exact
<1>3. QED
  BY InitIsRight, <1>1, <1>2, PTL DEF Spec
=============================================================================
