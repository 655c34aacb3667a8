----------------------------- MODULE MathLemmas -----------------------------
(***************************************************************************)
(* What the proofs of several components need of numbers: induction, the   *)
(* sums of a function's values (SumFunction and SumFunctionOnSet, which    *)
(* are folds over a set), division with remainder and powers of two.       *)
(***************************************************************************)
EXTENDS Integers, FiniteSets, Functions, FiniteSetTheorems, FunctionTheorems,
        WellFoundedInduction, NaturalsInduction, TLAPS

-----------------------------------------------------------------------------
(* Induction and sums.                                                     *)

LEMMA LeastElement ==
    ASSUME NEW S \in SUBSET Nat, S # {}
    PROVE  \E p \in S : \A q \in S : p <= q
<1> DEFINE R == {ss \in Nat \X Nat : ss[1] < ss[2]}
<1>1. OpToRel(<, Nat) = R
    BY Zenon DEF OpToRel
<1>2. IsWellFoundedOn(R, Nat)
    BY <1>1, NatLessThanWellFounded
<1>3. \E x \in S : \A y \in S : ~ (<<y, x>> \in R)
   <2> HIDE DEF R
   <2> QED BY <1>2, WFMin
<1>4. PICK p \in S : \A q \in S : ~ (<<q, p>> \in R)
    BY <1>3
<1>5. ASSUME NEW q \in S
      PROVE  p <= q
    <2>1. ~ (<<q, p>> \in R)
        BY <1>4
    <2>2. p \in Nat /\ q \in Nat
        OBVIOUS
    <2>3. ~ (q < p)
        BY <2>1, <2>2, Zenon
    <2>4. QED
        BY <2>2, <2>3
<1>6. QED
    BY <1>5

(* A set of numbers that holds 0 and every successor of its own holds all. *)
LEMMA Induction ==
    ASSUME NEW G, 0 \in G, \A n \in Nat : n \in G => n + 1 \in G
    PROVE  \A n \in Nat : n \in G
<1> SUFFICES ASSUME NEW n \in Nat, n \notin G PROVE FALSE
  OBVIOUS
<1>1. PICK p \in Nat \ G : \A q \in Nat \ G : p <= q
  BY LeastElement
<1>2. p # 0 /\ p - 1 \in Nat /\ ~(p <= p - 1)
  BY <1>1
<1>3. p - 1 \in G
  BY <1>1, <1>2
<1>4. QED
  BY <1>2, <1>3, (p - 1) + 1 = p

-----------------------------------------------------------------------------
Chosen(s) == CHOOSE x \in s : TRUE

(* What the sum's recursive function g does on the sets of D.              *)
Sums(f, D, g) ==
    g = [s \in D |-> IF s = {} THEN 0 ELSE f[Chosen(s)] + g[s \ {Chosen(s)}]]

UpTo(S, n) == { s \in SUBSET S : Cardinality(s) <= n }

LEMMA Fewer ==
    ASSUME NEW S, IsFiniteSet(S), S # {}
    PROVE  /\ Chosen(S) \in S
           /\ IsFiniteSet(S \ {Chosen(S)})
           /\ Cardinality(S) \in Nat \ {0}
           /\ Cardinality(S \ {Chosen(S)}) = Cardinality(S) - 1
<1>1. Chosen(S) \in S
  BY DEF Chosen
<1>2. Cardinality(S) \in Nat /\ Cardinality(S) # 0
  BY FS_CardinalityType, FS_EmptySet
<1>3. QED
  BY <1>1, <1>2, FS_RemoveElement

LEMMA SumsExist ==
    ASSUME NEW f, NEW S, IsFiniteSet(S)
    PROVE  \E g : Sums(f, SUBSET S, g)
<1> DEFINE G == { n \in Nat : \E g : Sums(f, UpTo(S, n), g) }
<1>1. 0 \in G
  <2> DEFINE z == [s \in UpTo(S, 0) |-> 0]
  <2>1. \A s \in UpTo(S, 0) : s = {}
    BY FS_Subset, FS_EmptySet, FS_CardinalityType DEF UpTo
  <2>2. Sums(f, UpTo(S, 0), z)
    BY <2>1 DEF Sums
  <2>3. QED
    BY <2>2
<1>2. ASSUME NEW n \in Nat, n \in G PROVE n + 1 \in G
  <2>1. PICK h : Sums(f, UpTo(S, n), h)
    BY <1>2
  <2> DEFINE g == [s \in UpTo(S, n + 1) |->
                      IF s = {} THEN 0 ELSE f[Chosen(s)] + h[s \ {Chosen(s)}]]
  <2>2. \A t \in UpTo(S, n) : t \in UpTo(S, n + 1) /\ h[t] = g[t]
    <3> SUFFICES ASSUME NEW t \in UpTo(S, n) PROVE t \in UpTo(S, n + 1) /\ h[t] = g[t]
      OBVIOUS
    <3>1. t \in UpTo(S, n + 1)
      BY FS_Subset, FS_CardinalityType DEF UpTo
    <3>2. h[t] = IF t = {} THEN 0 ELSE f[Chosen(t)] + h[t \ {Chosen(t)}]
      BY <2>1 DEF Sums
    <3>3. QED
      BY <3>1, <3>2
  <2>3. \A s \in UpTo(S, n + 1) : s # {} => s \ {Chosen(s)} \in UpTo(S, n)
    BY Fewer, FS_Subset DEF UpTo
  <2>4. \A s \in UpTo(S, n + 1) : s # {} => h[s \ {Chosen(s)}] = g[s \ {Chosen(s)}]
    BY <2>2, <2>3
  <2>5. Sums(f, UpTo(S, n + 1), g)
    BY <2>4, Zenon DEF Sums
  <2>6. QED
    BY <2>5
<1>3. \A n \in Nat : n \in G
  <2> HIDE DEF G
  <2> QED BY <1>1, <1>2, Induction
<1>4. Cardinality(S) \in Nat /\ UpTo(S, Cardinality(S)) = SUBSET S
  BY FS_CardinalityType, FS_Subset DEF UpTo
<1>5. QED
  BY <1>3, <1>4

(* The sum over S is what any such g makes of S: g is known on the sets    *)
(* inside both domains.                                                    *)
LEMMA SumsAgree ==
    ASSUME NEW f, NEW S, NEW T, NEW g, NEW h, IsFiniteSet(S),
           Sums(f, SUBSET S, g), Sums(f, SUBSET T, h)
    PROVE  \A u \in SUBSET (S \cap T) : g[u] = h[u]
<1> DEFINE G == { n \in Nat : \A u \in SUBSET (S \cap T) : Cardinality(u) = n => g[u] = h[u] }
<1>1. \A u \in SUBSET (S \cap T) :
          /\ g[u] = IF u = {} THEN 0 ELSE f[Chosen(u)] + g[u \ {Chosen(u)}]
          /\ h[u] = IF u = {} THEN 0 ELSE f[Chosen(u)] + h[u \ {Chosen(u)}]
  BY DEF Sums
<1>2. 0 \in G
  BY <1>1, FS_Subset, FS_EmptySet
<1>3. ASSUME NEW n \in Nat, n \in G PROVE n + 1 \in G
  <2> SUFFICES ASSUME NEW u \in SUBSET (S \cap T), Cardinality(u) = n + 1
               PROVE  g[u] = h[u]
    OBVIOUS
  <2>1. IsFiniteSet(u) /\ u # {}
    BY FS_Subset, FS_EmptySet
  <2>2. Cardinality(u \ {Chosen(u)}) = n
    BY <2>1, Fewer
  <2>3. g[u \ {Chosen(u)}] = h[u \ {Chosen(u)}]
    BY <1>3, <2>2
  <2>4. QED
    BY <1>1, <2>1, <2>3
<1>4. \A n \in Nat : n \in G
  <2> HIDE DEF G
  <2> QED BY <1>2, <1>3, Induction
<1>5. \A u \in SUBSET S : Cardinality(u) \in Nat
  BY FS_Subset, FS_CardinalityType
<1>6. QED
  BY <1>4, <1>5

LEMMA SumIs ==
    ASSUME NEW f, NEW S, IsFiniteSet(S), NEW g, Sums(f, SUBSET S, g)
    PROVE  SumFunctionOnSet(f, S) = g[S]
<1> DEFINE iter == CHOOSE h : h = [s \in SUBSET S |->
                       IF s = {} THEN 0 ELSE f[Chosen(s)] + h[s \ {Chosen(s)}]]
<1>1. SumFunctionOnSet(f, S) = iter[S]
  BY DEF SumFunctionOnSet, FoldFunctionOnSet, MapThenFoldSet, Chosen
<1>2. Sums(f, SUBSET S, iter)
  BY SumsExist DEF Sums
<1> HIDE DEF iter
<1>3. QED
  BY <1>1, <1>2, SumsAgree

LEMMA SumOfNone == ASSUME NEW f PROVE SumFunctionOnSet(f, {}) = 0
<1>1. PICK g : Sums(f, SUBSET {}, g)
  BY SumsExist, FS_EmptySet
<1>2. {} \in SUBSET {} /\ g[{}] = 0
  BY <1>1 DEF Sums
<1>3. SumFunctionOnSet(f, {}) = g[{}]
  BY <1>1, SumIs, FS_EmptySet
<1>4. QED
  BY <1>2, <1>3

LEMMA SumOfSome ==
    ASSUME NEW f, NEW S, IsFiniteSet(S), S # {}
    PROVE  SumFunctionOnSet(f, S) = f[Chosen(S)] + SumFunctionOnSet(f, S \ {Chosen(S)})
<1> DEFINE R == S \ {Chosen(S)}
<1>1. PICK g : Sums(f, SUBSET S, g)
  BY SumsExist
<1>2. g[S] = f[Chosen(S)] + g[R]
  BY <1>1 DEF Sums
<1>3. IsFiniteSet(R) /\ R \in SUBSET (S \cap R)
  BY Fewer
<1> HIDE DEF R
<1>4. PICK h : Sums(f, SUBSET R, h)
  BY <1>3, SumsExist
<1>5. h[R] = g[R]
  BY <1>1, <1>3, <1>4, SumsAgree
<1>6. SumFunctionOnSet(f, S) = g[S] /\ SumFunctionOnSet(f, R) = h[R]
  BY <1>1, <1>3, <1>4, SumIs
<1>7. QED
  BY <1>2, <1>5, <1>6 DEF R

(* A sum of integers is one, and its terms may be taken out in any order.  *)
LEMMA SumByOne ==
    ASSUME NEW f, NEW S, IsFiniteSet(S), \A x \in S : f[x] \in Int
    PROVE  /\ SumFunctionOnSet(f, S) \in Int
           /\ \A x \in S : SumFunctionOnSet(f, S) = f[x] + SumFunctionOnSet(f, S \ {x})
<1> DEFINE Sum(T) == SumFunctionOnSet(f, T)
           Fine(T) == Sum(T) \in Int /\ \A x \in T : Sum(T) = f[x] + Sum(T \ {x})
           G == { n \in Nat : \A T \in SUBSET S : Cardinality(T) <= n => Fine(T) }
<1>1. 0 \in G
  <2> SUFFICES ASSUME NEW T \in SUBSET S, Cardinality(T) <= 0 PROVE Fine(T)
    OBVIOUS
  <2>1. T = {}
    BY FS_Subset, FS_CardinalityType, FS_EmptySet
  <2>2. QED
    BY <2>1, SumOfNone
<1>2. ASSUME NEW n \in Nat, n \in G PROVE n + 1 \in G
  <2> SUFFICES ASSUME NEW T \in SUBSET S, Cardinality(T) <= n + 1, T # {} PROVE Fine(T)
    BY SumOfNone
  <2> DEFINE c == Chosen(T)
             R == T \ {c}
  <2>1. IsFiniteSet(T) /\ c \in T /\ IsFiniteSet(R) /\ Cardinality(T) \in Nat /\ Cardinality(R) <= n
    BY FS_Subset, Fewer
  <2>2. \A x \in T : IsFiniteSet(T \ {x}) /\ Cardinality(T \ {x}) <= n
    BY <2>1, FS_RemoveElement
  <2>3. Sum(T) = f[c] + Sum(R) /\ Fine(R)
    BY <1>2, <2>1, SumOfSome
  <2> HIDE DEF c
  <2>4. ASSUME NEW x \in T, x # c PROVE Sum(T) = f[x] + Sum(T \ {x})
    <3>1. Fine(T \ {x})
      BY <1>2, <2>2
    <3>2. Sum(R) = f[x] + Sum(R \ {x}) /\ Sum(T \ {x}) = f[c] + Sum((T \ {x}) \ {c})
      BY <2>1, <2>3, <2>4, <3>1
    <3>3. R \ {x} = (T \ {x}) \ {c}
      OBVIOUS
    <3>4. Fine(R \ {x})
      <4>1. R \ {x} \in SUBSET S /\ Cardinality(R \ {x}) <= n
        <5>1. IsFiniteSet(R) /\ x \in R /\ Cardinality(R) \in Nat
          BY <2>1, <2>4, FS_CardinalityType
        <5> HIDE DEF R
        <5>2. Cardinality(R \ {x}) = Cardinality(R) - 1
          BY <5>1, FS_RemoveElement
        <5>3. QED
          BY <2>1, <5>1, <5>2 DEF R
      <4>2. QED
        BY <1>2, <4>1
    <3>5. f[x] \in Int /\ f[c] \in Int /\ Sum(R \ {x}) \in Int
      BY <2>1, <3>4
    <3>6. Sum(T) = f[c] + Sum(R) /\ Sum(R) = f[x] + Sum(R \ {x}) /\ Sum(T \ {x}) = f[c] + Sum(R \ {x})
      BY <2>3, <3>2, <3>3
    <3> HIDE DEF Sum, R
    <3>7. QED
      BY <3>5, <3>6
  <2>5. f[c] \in Int /\ Sum(R) \in Int
    BY <2>1, <2>3
  <2>6. Sum(T) \in Int
    BY <2>3, <2>5
  <2>7. \A x \in T : Sum(T) = f[x] + Sum(T \ {x})
    BY <2>3, <2>4
  <2>8. QED
    BY <2>6, <2>7
<1>3. \A n \in Nat : n \in G
  <2> HIDE DEF G
  <2> QED BY <1>1, <1>2, Induction
<1>4. Cardinality(S) \in Nat
  BY FS_CardinalityType
<1>5. QED
  BY <1>3, <1>4

(* Only the values on S count.                                             *)
LEMMA SumSame ==
    ASSUME NEW f, NEW h, NEW S, IsFiniteSet(S),
           \A x \in S : f[x] \in Int, \A x \in S : f[x] = h[x]
    PROVE  SumFunctionOnSet(f, S) = SumFunctionOnSet(h, S)
<1> DEFINE Same(T) == SumFunctionOnSet(f, T) = SumFunctionOnSet(h, T)
           G == { n \in Nat : \A T \in SUBSET S : Cardinality(T) = n => Same(T) }
<1>1. 0 \in G
  BY FS_Subset, FS_EmptySet, SumOfNone
<1>2. ASSUME NEW n \in Nat, n \in G PROVE n + 1 \in G
  <2> SUFFICES ASSUME NEW T \in SUBSET S, Cardinality(T) = n + 1 PROVE Same(T)
    OBVIOUS
  <2>1. IsFiniteSet(T) /\ T # {}
    BY FS_Subset, FS_EmptySet
  <2> DEFINE c == Chosen(T)
  <2>2. c \in T /\ Cardinality(T \ {c}) = (n + 1) - 1
    BY <2>1, Fewer
  <2>3. Same(T \ {c})
    BY <1>2, <2>2, (n + 1) - 1 = n
  <2>4. QED
    BY <2>1, <2>2, <2>3, SumOfSome
<1>3. \A n \in Nat : n \in G
  <2> HIDE DEF G
  <2> QED BY <1>1, <1>2, Induction
<1>4. Cardinality(S) \in Nat
  BY FS_CardinalityType
<1>5. QED
  BY <1>3, <1>4

(* A sum over an interval, from the end.                                   *)
LEMMA SumUpTo ==
    ASSUME NEW f, NEW a \in Int, NEW n \in Int, a <= n, \A i \in a .. n : f[i] \in Int
    PROVE  /\ SumFunctionOnSet(f, a .. n) \in Int
           /\ SumFunctionOnSet(f, a .. n) = f[n] + SumFunctionOnSet(f, a .. n - 1)
<1> DEFINE S == a .. n
<1>1. IsFiniteSet(S) /\ n \in S /\ S \ {n} = a .. n - 1 /\ \A i \in S : f[i] \in Int
  BY FS_Interval
<1> HIDE DEF S
<1>2. /\ SumFunctionOnSet(f, S) \in Int
      /\ SumFunctionOnSet(f, S) = f[n] + SumFunctionOnSet(f, S \ {n})
  BY <1>1, SumByOne
<1>3. QED
  BY <1>1, <1>2 DEF S

(* A buffer that counts from 0 and a sequence with the same contents.      *)
LEMMA SumShifted ==
    ASSUME NEW f, NEW h, NEW m \in Nat,
           \A i \in 1 .. m : h[i] \in Int /\ f[i - 1] = h[i]
    PROVE  SumFunctionOnSet(f, 0 .. m - 1) = SumFunctionOnSet(h, 1 .. m)
<1> DEFINE Same(n) == SumFunctionOnSet(f, 0 .. n - 1) = SumFunctionOnSet(h, 1 .. n)
           G == { n \in Nat : n <= m => Same(n) }
<1>1. 0 \in G
  <2>1. 0 .. 0 - 1 = {} /\ 1 .. 0 = {}
    OBVIOUS
  <2>2. QED
    BY <2>1, SumOfNone
<1>2. ASSUME NEW n \in Nat, n \in G PROVE n + 1 \in G
  <2> SUFFICES ASSUME n + 1 <= m PROVE Same(n + 1)
    OBVIOUS
  <2>1. Same(n) /\ f[n] = h[n + 1]
    BY <1>2
  <2>2. SumFunctionOnSet(h, 1 .. n + 1) = h[n + 1] + SumFunctionOnSet(h, 1 .. n)
    <3>1. \A i \in 1 .. n + 1 : h[i] \in Int
      OBVIOUS
    <3>2. QED
      BY <3>1, SumUpTo, (n + 1) - 1 = n
  <2>3. SumFunctionOnSet(f, 0 .. n) = f[n] + SumFunctionOnSet(f, 0 .. n - 1)
    <3>1. \A i \in 0 .. n : i + 1 \in 1 .. m /\ (i + 1) - 1 = i
      OBVIOUS
    <3>2. \A i \in 0 .. n : f[i] \in Int
      BY <3>1
    <3>3. QED
      BY <3>2, SumUpTo
  <2>4. QED
    BY <2>1, <2>2, <2>3, (n + 1) - 1 = n
<1>3. \A n \in Nat : n \in G
  <2> HIDE DEF G
  <2> QED BY <1>1, <1>2, Induction
<1>4. QED
  BY <1>3

-----------------------------------------------------------------------------
(* Division with remainder.                                                *)

LEMMA ModUnique ==
  ASSUME NEW m \in Nat \ {0}, NEW n \in Int, NEW k \in Int, NEW r \in 0 .. m - 1, n = k * m + r
  PROVE  n % m = r
  BY Z3

LEMMA DivMod ==
  ASSUME NEW m \in Nat \ {0}, NEW n \in Int
  PROVE  n = (n \div m) * m + (n % m)
  BY Z3

(* A sum or a difference of two words and a carry wraps at most once.      *)
LEMMA WrapsOnce ==
  ASSUME NEW m \in Nat \ {0}, NEW n \in Int, -m <= n, n < 2 * m
  PROVE  n % m = IF n < 0 THEN n + m ELSE IF n < m THEN n ELSE n - m
<1>1. CASE n < 0
  BY <1>1, Z3
<1>2. CASE 0 <= n /\ n < m
  BY <1>2, Z3
<1>3. CASE m <= n
  BY <1>3, Z3
<1>4. QED
  BY <1>1, <1>2, <1>3

(* Identities of integers, each for the prover to find once.               *)
LEMMA Regroup ==
  ASSUME NEW a \in Int, NEW b \in Int, NEW p \in Int, NEW r \in Int, NEW s \in Int
  PROVE  (p * a + r) * b + s = p * (b * a) + (r * b + s)
  BY Z3

LEMMA DivUnique ==
  ASSUME NEW m \in Nat \ {0}, NEW n \in Int, NEW k \in Int, NEW r \in Int,
         0 <= r, r < m, n = k * m + r
  PROVE  n \div m = k /\ n % m = r
<1>1. n % m = r
  BY ModUnique
<1>2. n = (n \div m) * m + r /\ n \div m \in Int
  BY <1>1, DivMod
<1>3. PICK q \in Int : q = n \div m
  BY <1>2
<1>4. (q - k) * m = 0
  BY <1>2, <1>3
<1>5. q - k = 0
  BY <1>4
<1>6. QED
  BY <1>1, <1>3, <1>5

LEMMA DivParts ==
  ASSUME NEW m \in Nat \ {0}, NEW n \in Int
  PROVE  /\ n \div m \in Int /\ n % m \in 0 .. m - 1
         /\ n = (n \div m) * m + (n % m)
BY DivMod

LEMMA DivPick ==
  ASSUME NEW m \in Nat \ {0}, NEW n \in Int
  PROVE  \E d \in Int, r \in Nat : n = d * m + r /\ d = n \div m /\ r = n % m /\ r < m
<1>1. PICK d \in Int, r \in 0 .. m - 1 : d = n \div m /\ r = n % m
  BY DivParts
<1>2. n = d * m + r
  BY <1>1, DivParts
<1>3. r \in Nat /\ r < m
  OBVIOUS
<1>4. QED
  BY <1>1, <1>2, <1>3, Zenon

LEMMA DivPositive ==
  ASSUME NEW m \in Nat \ {0}, NEW n \in Nat
  PROVE  n \div m \in Nat /\ n \div m <= n
  BY Z3

(* Whole multiples of the divisor leave the remainder.                     *)
LEMMA ModOfMultiple ==
  ASSUME NEW m \in Nat \ {0}, NEW n \in Int, NEW k \in Int
  PROVE  (k * m + n) % m = n % m /\ (k * m + n) \div m = k + n \div m
<1>1. PICK q \in Int, r \in 0 .. m - 1 : n = q * m + r /\ q = n \div m /\ r = n % m
  BY DivParts
<1>2. k * m + n = (k + q) * m + r
  BY <1>1
<1>3. (k * m + n) % m = r /\ (k * m + n) \div m = k + q
  <2>1. k * m + n \in Int /\ k + q \in Int /\ r \in Int /\ 0 <= r /\ r < m
    OBVIOUS
  <2>2. QED
    BY <1>2, <2>1, DivUnique
<1>4. QED
  BY <1>1, <1>3

(* Numbers that differ by a multiple of m have the same remainder.         *)
LEMMA ModSame ==
  ASSUME NEW m \in Nat \ {0}, NEW n \in Int, NEW p \in Int, NEW k \in Int, p = k * m + n
  PROVE  p % m = n % m
BY ModOfMultiple

LEMMA ModSmall ==
  ASSUME NEW m \in Nat \ {0}, NEW n \in Int, 0 <= n, n < m
  PROVE  n % m = n /\ n \div m = 0
BY DivUnique, n = 0 * m + n

LEMMA Positive ==
  ASSUME NEW a \in Nat \ {0}, NEW b \in Nat \ {0}
  PROVE  a * b \in Nat \ {0}
  BY Z3

(* A remainder times b, and one more below b.                              *)
LEMMA Below ==
  ASSUME NEW a \in Nat \ {0}, NEW b \in Nat \ {0}, NEW r \in 0 .. a - 1, NEW s \in 0 .. b - 1
  PROVE  r * b + s \in 0 .. (a * b) - 1
<1>1. r * b <= (a - 1) * b /\ 0 <= r * b
  BY Z3
<1>2. (a - 1) * b = a * b - b
  BY Z3
<1>3. a * b \in Nat \ {0} /\ r * b \in Int
  BY Positive
<1>4. QED
  BY <1>1, <1>2, <1>3

(* Division by a product, in two steps.                                    *)
LEMMA DivTwice ==
  ASSUME NEW a \in Nat \ {0}, NEW b \in Nat \ {0}, NEW n \in Int
  PROVE  /\ n \div (b * a) = (n \div b) \div a
         /\ n % (b * a) = ((n \div b) % a) * b + (n % b)
<1>1. PICK q \in Int, s \in 0 .. b - 1 : n = q * b + s /\ q = n \div b /\ s = n % b
  BY DivParts
<1>2. PICK p \in Int, r \in 0 .. a - 1 : q = p * a + r /\ p = q \div a /\ r = q % a
  BY DivParts
<1>3. b * a \in Nat \ {0} /\ r * b + s \in 0 .. (a * b) - 1 /\ a * b = b * a
  BY Positive, Below
<1>4. n = p * (b * a) + (r * b + s)
  <2>1. a \in Int /\ b \in Int /\ p \in Int /\ r \in Int /\ s \in Int
    OBVIOUS
  <2>2. (p * a + r) * b + s = p * (b * a) + (r * b + s)
    BY <2>1, Regroup
  <2>3. n = (p * a + r) * b + s
    BY <1>1, <1>2, Zenon
  <2>4. QED
    BY <2>2, <2>3, Zenon
<1>5. n \div (b * a) = p /\ n % (b * a) = r * b + s
  <2>1. r * b + s \in Int /\ 0 <= r * b + s /\ r * b + s < b * a
    BY <1>3
  <2>2. QED
    BY <1>3, <1>4, <2>1, DivUnique
<1>6. QED
  BY <1>1, <1>2, <1>5

(* A multiple of a, divided by a multiple of a.                            *)
LEMMA DivScaled ==
  ASSUME NEW a \in Nat \ {0}, NEW b \in Nat \ {0}, NEW n \in Int
  PROVE  /\ (n * a) \div (b * a) = n \div b
         /\ (n * a) % (b * a) = (n % b) * a
<1>1. PICK q \in Int, r \in 0 .. b - 1 : n = q * b + r /\ q = n \div b /\ r = n % b
  BY DivParts
<1>2. n * a = q * (b * a) + r * a
  <2>1. a \in Int /\ b \in Int /\ q \in Int /\ r \in Int
    OBVIOUS
  <2>2. (q * b + r) * a = q * (b * a) + r * a
    BY <2>1, Z3
  <2>3. QED
    BY <1>1, <2>2, Zenon
<1>3. b * a \in Nat \ {0} /\ r * a + 0 \in 0 .. (b * a) - 1
  BY Positive, Below
<1>4. (n * a) \div (b * a) = q /\ (n * a) % (b * a) = r * a
  <2>1. r * a \in Int /\ 0 <= r * a /\ r * a < b * a /\ n * a \in Int
    BY <1>3
  <2>2. QED
    BY <1>2, <1>3, <2>1, DivUnique
<1>5. QED
  BY <1>1, <1>4

LEMMA ModOfMod ==
  ASSUME NEW a \in Nat \ {0}, NEW b \in Nat \ {0}, NEW n \in Int
  PROVE  (n % (b * a)) % b = n % b
<1>1. n % (b * a) = ((n \div b) % a) * b + (n % b)
  BY DivTwice
<1>2. PICK q \in Nat, r \in 0 .. b - 1 : q = (n \div b) % a /\ r = n % b
  <2>1. n \div b \in Int /\ n % b \in 0 .. b - 1
    BY DivParts
  <2>2. (n \div b) % a \in Nat
    BY <2>1, DivParts
  <2>3. QED
    BY <2>1, <2>2
<1>3. (q * b + r) % b = r % b
  BY ModOfMultiple, r \in Int, q \in Int
<1>4. r % b = r
  BY ModSmall, r \in Int, 0 <= r, r < b
<1>5. QED
  BY <1>1, <1>2, <1>3, <1>4

(* The quotient of a number below a product.                               *)
LEMMA QuotientBelow ==
  ASSUME NEW P \in Nat \ {0}, NEW Q \in Nat \ {0}, NEW l \in Nat, l < Q * P
  PROVE  l \div Q \in 0 .. P - 1
<1>1. PICK t \in Nat, r \in Nat : l = t * Q + r /\ t = l \div Q
  <2>1. l \div Q \in Nat /\ l % Q \in Nat /\ l = (l \div Q) * Q + (l % Q)
    BY DivPositive, DivParts
  <2>2. QED
    BY <2>1
<1>2. CASE t >= P
  <2>1. t * Q >= P * Q
    BY <1>2, Z3
  <2>2. P * Q = Q * P /\ t * Q \in Int /\ P * Q \in Int
    BY Z3
  <2>3. QED
    BY <1>1, <2>1, <2>2
<1>3. CASE ~(t >= P)
  BY <1>1, <1>3
<1>4. QED
  BY <1>2, <1>3

(* A quotient by a power of two is no farther from zero.                   *)
LEMMA QuotientNoLarger ==
  ASSUME NEW s \in Int, NEW S \in Nat \ {0}
  PROVE  /\ s \div S \in Int
         /\ s >= 0 => 0 <= s \div S /\ s \div S <= s
         /\ s < 0 => s <= s \div S /\ s \div S < 0
<1>1. PICK d \in Int, r \in 0 .. S - 1 : s = d * S + r /\ d = s \div S
  BY DivParts
<1>2. s >= 0 => d >= 0
  <2>1. d < 0 => d * S <= -S
    BY Z3
  <2>2. d * S \in Int
    BY Z3
  <2>3. QED
    BY <1>1, <2>1, <2>2
<1>3. s < 0 => d < 0
  <2>1. d >= 0 => d * S >= 0
    BY Z3
  <2>2. d * S \in Int
    BY Z3
  <2>3. QED
    BY <1>1, <2>1, <2>2
<1>4. d >= 0 => d <= d * S
  BY Z3
<1>5. d < 0 => (d + 1) * S <= d + 1
  BY Z3
<1>6. (d + 1) * S = d * S + S /\ d * S \in Int
  BY Z3
<1>7. QED
  BY <1>1, <1>2, <1>3, <1>4, <1>5, <1>6

LEMMA SameRemainder ==
  ASSUME NEW m \in Nat \ {0}, NEW a \in Int, NEW b \in Int, a % m = b % m
  PROVE  \E i \in Int : a = i * m + b
<1>1. PICK d \in Int, e \in Int, r \in Int : a = d * m + r /\ b = e * m + r
  <2>1. PICK d \in Int, r \in Nat : a = d * m + r /\ r = a % m
    BY DivPick
  <2>2. PICK e \in Int, s \in Nat : b = e * m + s /\ s = b % m
    BY DivPick
  <2>3. r \in Int /\ r = s
    BY <2>1, <2>2
  <2>4. QED
    BY <2>1, <2>2, <2>3, Zenon
<1>2. (d - e) * m + (e * m + r) = d * m + r
  BY Z3
<1>3. QED
  BY <1>1, <1>2, d - e \in Int

(* The cross products and the high word of the low one.                    *)
LEMMA SumOfRemainders ==
  \A m \in Nat \ {0} : \A p, a, b \in Int :
    (((p + (a % m)) % m) + (b % m)) % m = (p + a + b) % m
<1> TAKE m \in Nat \ {0}
<1> TAKE p, a, b \in Int
<1>1. PICK i \in Int, r \in Nat : a = i * m + r /\ r = a % m
  BY DivPick
<1>2. PICK j \in Int, s \in Nat : b = j * m + s /\ s = b % m
  BY DivPick
<1>3. PICK k \in Int, t \in Nat : p + r = k * m + t /\ t = (p + r) % m
  BY DivPick, p + r \in Int
<1>4. (i + j + k) * m + (t + s) = i * m + (j * m + (s + (k * m + t)))
  <2>1. t \in Int /\ s \in Int
    OBVIOUS
  <2>2. QED
    BY <2>1, Z3
<1>5. p + a + b = (i + j + k) * m + (t + s)
  <2>1. PICK A \in Int, B \in Int, C \in Int : A = i * m /\ B = j * m /\ C = k * m
    <3>1. i * m \in Int /\ j * m \in Int /\ k * m \in Int
      BY Z3
    <3>2. QED
      BY <3>1
  <2>2. a = A + r /\ b = B + s /\ p + r = C + t
    BY <1>1, <1>2, <1>3, <2>1
  <2>3. p + a + b = A + (B + (s + (C + t)))
    BY <2>2
  <2>4. QED
    BY <1>4, <2>1, <2>3
<1>6. (p + a + b) % m = (t + s) % m
  BY <1>5, ModSame, p + a + b \in Int, t + s \in Int, i + j + k \in Int
<1>7. QED
  BY <1>1, <1>2, <1>3, <1>6

-----------------------------------------------------------------------------
(* Powers of two. What the provers know of them is the number of subsets.  *)

LEMMA PowerIsCount ==
  ASSUME NEW n \in Nat
  PROVE  IsFiniteSet(SUBSET (1 .. n)) /\ Cardinality(SUBSET (1 .. n)) = 2^n
<1>1. IsFiniteSet(1 .. n) /\ Cardinality(1 .. n) = n
  BY FS_Interval
<1>2. QED
  BY <1>1, FS_SUBSET

LEMMA PowerZero == 2^0 = 1
  OBVIOUS

LEMMA PowerStep == ASSUME NEW n \in Nat PROVE 2^n \in Nat /\ 2^(n + 1) = 2 * 2^n
<1> DEFINE S == SUBSET (1 .. n)
           U == { A \cup {n + 1} : A \in S }
           f == [A \in S |-> A \cup {n + 1}]
<1>1. IsFiniteSet(S) /\ Cardinality(S) = 2^n /\ 2^n \in Nat
  BY PowerIsCount, FS_CardinalityType
<1>2. Cardinality(SUBSET (1 .. n + 1)) = 2^(n + 1)
  BY PowerIsCount
<1>3. \A A \in S : n + 1 \notin A
  OBVIOUS
<1>4. f \in Bijection(S, U)
  <2>1. f \in [S -> U]
    OBVIOUS
  <2>2. \A A, B \in S : f[A] = f[B] => A = B
    <3> SUFFICES ASSUME NEW A \in S, NEW B \in S, f[A] = f[B] PROVE A = B
      OBVIOUS
    <3>1. A \cup {n + 1} = B \cup {n + 1} /\ n + 1 \notin A /\ n + 1 \notin B
      BY <1>3
    <3>2. A = (A \cup {n + 1}) \ {n + 1} /\ B = (B \cup {n + 1}) \ {n + 1}
      BY <3>1
    <3>3. QED
      BY <3>1, <3>2
  <2>3. \A u \in U : \E A \in S : f[A] = u
    OBVIOUS
  <2>4. QED
    BY <2>1, <2>2, <2>3, Fun_IsBij
<1>5. IsFiniteSet(U) /\ Cardinality(U) = 2^n
  BY <1>1, <1>4, FS_Bijection DEF ExistsBijection
<1>6. S \cap U = {}
  BY <1>3
<1>7. S \cup U = SUBSET (1 .. n + 1)
  <2>1. ASSUME NEW A \in SUBSET (1 .. n + 1) PROVE A \in S \cup U
    <3>1. CASE n + 1 \in A
      <4>1. A \ {n + 1} \in S /\ A = (A \ {n + 1}) \cup {n + 1}
        BY <3>1
      <4>2. QED
        BY <4>1
    <3>2. CASE n + 1 \notin A
      BY <3>2
    <3>3. QED
      BY <3>1, <3>2
  <2>2. S \cup U \subseteq SUBSET (1 .. n + 1)
    <3>1. (1 .. n) \cup {n + 1} = 1 .. n + 1
      OBVIOUS
    <3>2. \A A \in S : A \subseteq 1 .. n + 1 /\ A \cup {n + 1} \subseteq 1 .. n + 1
      BY <3>1
    <3>3. QED
      BY <3>2
  <2>3. QED
    BY <2>1, <2>2
<1> HIDE DEF S, U
<1>8. Cardinality(S \cup U) = 2^n + 2^n - 0
  BY <1>1, <1>5, <1>6, FS_Union, FS_EmptySet
<1>9. 2^n \in Nat /\ 2^(n + 1) = 2^n + 2^n - 0
  BY <1>1, <1>2, <1>7, <1>8
<1>10. PICK x \in Nat : x = 2^n
  BY <1>9
<1>11. x + x - 0 = 2 * x
  OBVIOUS
<1>12. QED
  BY <1>9, <1>10, <1>11

LEMMA Power == ASSUME NEW n \in Nat PROVE 2^n \in Nat \ {0}
<1> DEFINE G == { k \in Nat : 2^k \in Nat \ {0} }
<1>1. 0 \in G
  BY PowerZero
<1>2. ASSUME NEW k \in Nat, k \in G PROVE k + 1 \in G
  BY <1>2, PowerStep
<1>3. \A k \in Nat : k \in G
  <2> HIDE DEF G
  <2> QED BY <1>1, <1>2, Induction
<1>4. QED
  BY <1>3

LEMMA PowerSum ==
  ASSUME NEW m \in Nat, NEW n \in Nat
  PROVE  2^(m + n) = 2^m * 2^n
<1> DEFINE G == { k \in Nat : 2^(m + k) = 2^m * 2^k }
<1>1. 0 \in G
  <2>1. 2^(m + 0) = 2^m * 1
    BY Power
  <2>2. QED
    BY <2>1, PowerZero
<1>2. ASSUME NEW k \in Nat, k \in G PROVE k + 1 \in G
  <2>1. 2^((m + k) + 1) = 2 * 2^(m + k) /\ 2^(k + 1) = 2 * 2^k /\ (m + k) + 1 = m + (k + 1)
    BY PowerStep
  <2>2. PICK x \in Nat, y \in Nat : x = 2^m /\ y = 2^k
    BY Power
  <2>3. 2 * (x * y) = x * (2 * y)
    OBVIOUS
  <2>4. QED
    BY <1>2, <2>1, <2>2, <2>3
<1>3. \A k \in Nat : k \in G
  <2> HIDE DEF G
  <2> QED BY <1>1, <1>2, Induction
<1>4. QED
  BY <1>3

(* A power is a multiple of the lower ones.                                *)
LEMMA PowerSplit ==
  ASSUME NEW m \in Nat, NEW n \in Nat, n <= m
  PROVE  2^m = 2^(m - n) * 2^n /\ m - n \in Nat
<1>1. m - n \in Nat /\ (m - n) + n = m
  OBVIOUS
<1>2. QED
  BY <1>1, PowerSum
=============================================================================
