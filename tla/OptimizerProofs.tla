-------------------------- MODULE OptimizerProofs --------------------------
(***************************************************************************)
(* The optimizer on the code of every function that the builder makes, for *)
(* any number of registers, any widths of bytes and words and any          *)
(* program: a function stays whole from one phase to the next, what the    *)
(* 32-bit lowering emitted and nothing reads is gone when it ends, and the *)
(* function returns and leaves in memory what it did before.               *)
(***************************************************************************)
EXTENDS Optimizer, MathLemmas, SequenceTheorems, TLAPS

-----------------------------------------------------------------------------
(* The recursive functions of the model, step by step.                     *)

IsRun(c, memory, m, N) ==
    m = [n \in 0 .. N |-> IF n = 0 THEN Called(memory) ELSE Run1(m[n - 1], c[n])]

LEMMA RunExists ==
    ASSUME NEW c, NEW memory
    PROVE  \A N \in Nat : \E m : IsRun(c, memory, m, N)
<1> DEFINE G == { N \in Nat : \E m : IsRun(c, memory, m, N) }
<1>1. 0 \in G
  <2> DEFINE z == [n \in 0 .. 0 |-> Called(memory)]
  <2>1. IsRun(c, memory, z, 0)
    BY DEF IsRun
  <2>2. QED
    BY <2>1
<1>2. ASSUME NEW N \in Nat, N \in G PROVE N + 1 \in G
  <2>1. PICK m : IsRun(c, memory, m, N)
    BY <1>2
  <2> DEFINE g == [n \in 0 .. N + 1 |-> IF n = N + 1 THEN Run1(m[N], c[N + 1]) ELSE m[n]]
  <2>2. ASSUME NEW n \in 0 .. N + 1
        PROVE  g[n] = IF n = 0 THEN Called(memory) ELSE Run1(g[n - 1], c[n])
    <3>1. CASE n = N + 1
      BY <3>1
    <3>2. CASE n \in 0 .. N /\ n # 0
      <4>1. n - 1 \in 0 .. N /\ n - 1 # N + 1 /\ n # N + 1
        BY <3>2
      <4>2. g[n - 1] = m[n - 1] /\ g[n] = m[n]
        BY <4>1
      <4>3. QED
        BY <2>1, <3>2, <4>2 DEF IsRun
    <3>3. CASE n = 0
      BY <2>1, <3>3 DEF IsRun
    <3>4. QED
      BY <3>1, <3>2, <3>3
  <2>3. IsRun(c, memory, g, N + 1)
    BY <2>2, Zenon DEF IsRun
  <2> HIDE DEF g
  <2>4. QED
    BY <2>3, N + 1 \in Nat
<1>3. \A N \in Nat : N \in G
  <2> HIDE DEF G
  <2> QED BY <1>1, <1>2, Induction
<1>4. QED
  BY <1>3

LEMMA RanStep ==
    ASSUME NEW c, Len(c) \in Nat, NEW memory
    PROVE  /\ Ran(c, memory)[0] = Called(memory)
           /\ \A n \in 1 .. Len(c) : Ran(c, memory)[n] = Run1(Ran(c, memory)[n - 1], c[n])
<1>1. \E m : IsRun(c, memory, m, Len(c))
  BY RunExists
<1>2. Ran(c, memory) = CHOOSE m : IsRun(c, memory, m, Len(c))
  BY DEF Ran, IsRun
<1>3. IsRun(c, memory, Ran(c, memory), Len(c))
  BY <1>1, <1>2, Zenon
<1>4. QED
  BY <1>3 DEF IsRun

(* What the instructions at the places of s are, after n of c.             *)
KeptOf(c, s) ==
    LET kept[n \in 0 .. Len(c)] == IF n = 0 THEN <<>>
                                   ELSE IF n \in s THEN Append(kept[n - 1], c[n])
                                   ELSE kept[n - 1]
    IN  kept

IsKept(c, s, m, N) ==
    m = [n \in 0 .. N |-> IF n = 0 THEN <<>> ELSE IF n \in s THEN Append(m[n - 1], c[n]) ELSE m[n - 1]]

LEMMA KeptExists ==
    ASSUME NEW c, NEW s
    PROVE  \A N \in Nat : \E m : IsKept(c, s, m, N)
<1> DEFINE G == { N \in Nat : \E m : IsKept(c, s, m, N) }
<1>1. 0 \in G
  <2> DEFINE z == [n \in 0 .. 0 |-> <<>>]
  <2>1. IsKept(c, s, z, 0)
    BY DEF IsKept
  <2>2. QED
    BY <2>1
<1>2. ASSUME NEW N \in Nat, N \in G PROVE N + 1 \in G
  <2>1. PICK m : IsKept(c, s, m, N)
    BY <1>2
  <2> DEFINE g == [n \in 0 .. N + 1 |-> IF n = N + 1 THEN (IF N + 1 \in s THEN Append(m[N],
    c[N + 1]) ELSE m[N]) ELSE m[n]]
  <2>2. ASSUME NEW n \in 0 .. N + 1
        PROVE  g[n] = IF n = 0 THEN <<>> ELSE (IF n \in s THEN Append(g[n - 1], c[n]) ELSE g[n - 1])
    <3>1. CASE n = N + 1
      BY <3>1
    <3>2. CASE n \in 0 .. N /\ n # 0
      <4>1. n - 1 \in 0 .. N /\ n - 1 # N + 1 /\ n # N + 1
        BY <3>2
      <4>2. g[n - 1] = m[n - 1] /\ g[n] = m[n]
        BY <4>1
      <4>3. QED
        BY <2>1, <3>2, <4>2 DEF IsKept
    <3>3. CASE n = 0
      BY <2>1, <3>3 DEF IsKept
    <3>4. QED
      BY <3>1, <3>2, <3>3
  <2>3. IsKept(c, s, g, N + 1)
    BY <2>2, Zenon DEF IsKept
  <2> HIDE DEF g
  <2>4. QED
    BY <2>3, N + 1 \in Nat
<1>3. \A N \in Nat : N \in G
  <2> HIDE DEF G
  <2> QED BY <1>1, <1>2, Induction
<1>4. QED
  BY <1>3

LEMMA KeptStep ==
    ASSUME NEW c, Len(c) \in Nat, NEW s
    PROVE  /\ Only(c, s) = KeptOf(c, s)[Len(c)]
           /\ KeptOf(c, s)[0] = <<>>
           /\ \A n \in 1 .. Len(c) :
                KeptOf(c, s)[n] = IF n \in s THEN Append(KeptOf(c, s)[n - 1], c[n]) ELSE KeptOf(c, s)[n - 1]
<1>1. \E m : IsKept(c, s, m, Len(c))
  BY KeptExists
<1>2. KeptOf(c, s) = CHOOSE m : IsKept(c, s, m, Len(c))
  BY DEF KeptOf, IsKept
<1>3. IsKept(c, s, KeptOf(c, s), Len(c))
  BY <1>1, <1>2, Zenon
<1>4. Only(c, s) = KeptOf(c, s)[Len(c)]
  BY Zenon DEF Only, KeptOf
<1>5. \A n \in 0 .. Len(c) :
         KeptOf(c, s)[n] = IF n = 0 THEN <<>>
                           ELSE IF n \in s THEN Append(KeptOf(c, s)[n - 1], c[n]) ELSE KeptOf(c, s)[n - 1]
  BY <1>3, Zenon DEF IsKept
<1>6. PICK h : h = KeptOf(c, s)
  OBVIOUS
<1>7. QED
  BY <1>4, <1>5, <1>6

NothingFolded == [code |-> <<>>, known |-> << >>, alias |-> << >>, excused |-> {}]

IsFolding(c, multi, m, N) ==
    m = [n \in 0 .. N |-> IF n = 0 THEN NothingFolded ELSE FoldInst(m[n - 1], c[n], multi)]

LEMMA FoldingExists ==
    ASSUME NEW c, NEW multi
    PROVE  \A N \in Nat : \E m : IsFolding(c, multi, m, N)
<1> DEFINE G == { N \in Nat : \E m : IsFolding(c, multi, m, N) }
<1>1. 0 \in G
  <2> DEFINE z == [n \in 0 .. 0 |-> NothingFolded]
  <2>1. IsFolding(c, multi, z, 0)
    BY DEF IsFolding
  <2>2. QED
    BY <2>1
<1>2. ASSUME NEW N \in Nat, N \in G PROVE N + 1 \in G
  <2>1. PICK m : IsFolding(c, multi, m, N)
    BY <1>2
  <2> DEFINE g == [n \in 0 .. N + 1 |-> IF n = N + 1 THEN FoldInst(m[N], c[N + 1], multi) ELSE m[n]]
  <2>2. ASSUME NEW n \in 0 .. N + 1
        PROVE  g[n] = IF n = 0 THEN NothingFolded ELSE FoldInst(g[n - 1], c[n], multi)
    <3>1. CASE n = N + 1
      BY <3>1
    <3>2. CASE n \in 0 .. N /\ n # 0
      <4>1. n - 1 \in 0 .. N /\ n - 1 # N + 1 /\ n # N + 1
        BY <3>2
      <4>2. g[n - 1] = m[n - 1] /\ g[n] = m[n]
        BY <4>1
      <4>3. QED
        BY <2>1, <3>2, <4>2 DEF IsFolding
    <3>3. CASE n = 0
      BY <2>1, <3>3 DEF IsFolding
    <3>4. QED
      BY <3>1, <3>2, <3>3
  <2>3. IsFolding(c, multi, g, N + 1)
    BY <2>2, Zenon DEF IsFolding
  <2> HIDE DEF g
  <2>4. QED
    BY <2>3, N + 1 \in Nat
<1>3. \A N \in Nat : N \in G
  <2> HIDE DEF G
  <2> QED BY <1>1, <1>2, Induction
<1>4. QED
  BY <1>3

LEMMA FoldingStep ==
    ASSUME NEW c, Len(c) \in Nat
    PROVE  /\ Folding(c)[0] = NothingFolded
           /\ \A n \in 1 .. Len(c) : Folding(c)[n] = FoldInst(Folding(c)[n - 1], c[n], MultiDef(c))
<1>1. \E m : IsFolding(c, MultiDef(c), m, Len(c))
  BY FoldingExists
<1>2. Folding(c) = CHOOSE m : IsFolding(c, MultiDef(c), m, Len(c))
  BY DEF Folding, IsFolding, NothingFolded
<1>3. IsFolding(c, MultiDef(c), Folding(c), Len(c))
  BY <1>1, <1>2, Zenon
<1>4. QED
  BY <1>3 DEF IsFolding

IsChain(alias, r, m, N) ==
    m = [n \in 0 .. N |-> IF n = 0 THEN r ELSE IF m[n - 1] \in DOMAIN alias THEN alias[m[n - 1]] ELSE m[n - 1]]

LEMMA ChainExists ==
    ASSUME NEW alias, NEW r
    PROVE  \A N \in Nat : \E m : IsChain(alias, r, m, N)
<1> DEFINE G == { N \in Nat : \E m : IsChain(alias, r, m, N) }
<1>1. 0 \in G
  <2> DEFINE z == [n \in 0 .. 0 |-> r]
  <2>1. IsChain(alias, r, z, 0)
    BY DEF IsChain
  <2>2. QED
    BY <2>1
<1>2. ASSUME NEW N \in Nat, N \in G PROVE N + 1 \in G
  <2>1. PICK m : IsChain(alias, r, m, N)
    BY <1>2
  <2> DEFINE g == [n \in 0 .. N + 1 |-> IF n = N + 1 THEN (IF m[N] \in DOMAIN alias THEN alias[m[N]] ELSE m[N]) ELSE m[n]]
  <2>2. ASSUME NEW n \in 0 .. N + 1
        PROVE  g[n] = IF n = 0 THEN r ELSE (IF g[n - 1] \in DOMAIN alias THEN alias[g[n - 1]] ELSE g[n - 1])
    <3>1. CASE n = N + 1
      BY <3>1
    <3>2. CASE n \in 0 .. N /\ n # 0
      <4>1. n - 1 \in 0 .. N /\ n - 1 # N + 1 /\ n # N + 1
        BY <3>2
      <4>2. g[n - 1] = m[n - 1] /\ g[n] = m[n]
        BY <4>1
      <4>3. QED
        BY <2>1, <3>2, <4>2 DEF IsChain
    <3>3. CASE n = 0
      BY <2>1, <3>3 DEF IsChain
    <3>4. QED
      BY <3>1, <3>2, <3>3
  <2>3. IsChain(alias, r, g, N + 1)
    BY <2>2, Zenon DEF IsChain
  <2> HIDE DEF g
  <2>4. QED
    BY <2>3, N + 1 \in Nat
<1>3. \A N \in Nat : N \in G
  <2> HIDE DEF G
  <2> QED BY <1>1, <1>2, Induction
<1>4. QED
  BY <1>3

(* The alias of a register is the root of its copies.                      *)
LEMMA FollowRoot ==
    ASSUME NEW alias, IsFiniteSet(DOMAIN alias), \A x \in DOMAIN alias : alias[x] \notin DOMAIN alias, NEW r
    PROVE  Follow(alias, r) = IF r \in DOMAIN alias THEN alias[r] ELSE r
<1> DEFINE links == Cardinality(DOMAIN alias)
           root == IF r \in DOMAIN alias THEN alias[r] ELSE r
<1>1. links \in Nat /\ (links = 0 => DOMAIN alias = {})
  BY FS_CardinalityType, FS_EmptySet
<1>2. PICK m : m = Follow(alias, r)
  OBVIOUS
<1>3. PICK h : IsChain(alias, r, h, links) /\ Follow(alias, r) = h[links]
  <2>1. \E h : IsChain(alias, r, h, links)
    BY <1>1, ChainExists
  <2> DEFINE h == CHOOSE h : IsChain(alias, r, h, links)
  <2>2. Follow(alias, r) = h[links]
    BY DEF Follow, IsChain
  <2>3. QED
    BY <2>1, <2>2, Zenon
<1>4. \A n \in 0 .. links :
         h[n] = IF n = 0 THEN r ELSE IF h[n - 1] \in DOMAIN alias THEN alias[h[n - 1]] ELSE h[n - 1]
  BY <1>3, Zenon DEF IsChain
<1> DEFINE G == { n \in Nat : n \in 1 .. links => h[n] = root }
<1> HIDE DEF links
<1>5. 0 \in G
  OBVIOUS
<1>6. ASSUME NEW n \in Nat, n \in G PROVE n + 1 \in G
  <2>1. SUFFICES ASSUME n + 1 \in 1 .. links PROVE h[n + 1] = root
    OBVIOUS
  <2>2. n + 1 \in 0 .. links /\ n \in 0 .. links /\ n + 1 # 0 /\ (n + 1) - 1 = n
    BY <1>1, <2>1
  <2>3. h[n + 1] = IF h[n] \in DOMAIN alias THEN alias[h[n]] ELSE h[n]
    BY <1>4, <2>2
  <2>4. CASE n = 0
    BY <1>4, <2>2, <2>3, <2>4
  <2>5. CASE n # 0
    <3>1. h[n] = root
      BY <1>1, <1>6, <2>2, <2>5
    <3>2. root \notin DOMAIN alias
      OBVIOUS
    <3>3. QED
      BY <2>3, <3>1, <3>2
  <2>6. QED
    BY <2>4, <2>5
<1>7. \A n \in Nat : n \in G
  <2> HIDE DEF G
  <2> QED BY <1>5, <1>6, Induction
<1>8. CASE links = 0
  BY <1>1, <1>3, <1>4, <1>8
<1>9. CASE links # 0
  <2>1. links \in 1 .. links
    BY <1>1, <1>9
  <2>2. QED
    BY <1>1, <1>3, <1>7, <2>1
<1>10. QED
  BY <1>8, <1>9

(* Where the instructions of c at the places of s are afterwards: what was *)
(* at n is then at k[n].                                                   *)
LEMMA OnlyPlaces ==
    ASSUME NEW S, NEW c \in Seq(S), NEW s
    PROVE  /\ Only(c, s) \in Seq(S)
           /\ \E k : /\ k[0] = 0 /\ k[Len(c)] = Len(Only(c, s))
                     /\ \A n \in 0 .. Len(c) : k[n] \in 0 .. Len(Only(c, s))
                     /\ \A n \in 1 .. Len(c) :
                          IF n \in s THEN k[n] = k[n - 1] + 1 /\ Only(c, s)[k[n]] = c[n]
                          ELSE k[n] = k[n - 1]
                     /\ \A n, p \in 0 .. Len(c) : p <= n => k[p] <= k[n]
                     /\ \A m \in 1 .. Len(Only(c, s)) : \E n \in 1 .. Len(c) : n \in s /\ k[n] = m
<1>1. PICK len \in Nat : len = Len(c)
  OBVIOUS
<1>2. PICK K : /\ K[0] = <<>> /\ Only(c, s) = K[len]
               /\ \A n \in 1 .. len : K[n] = IF n \in s THEN Append(K[n - 1], c[n]) ELSE K[n - 1]
  BY <1>1, KeptStep
<1> DEFINE T == { N \in Nat : N <= len => K[N] \in Seq(S) }
<1>21. 0 \in T
  <2>1. K[0] = <<>>
    BY <1>2
  <2>2. K[0] \in Seq(S)
    BY <2>1
  <2>3. QED
    BY <2>2
<1>22. ASSUME NEW N \in Nat, N \in T PROVE N + 1 \in T
  <2>1. SUFFICES ASSUME N + 1 <= len PROVE K[N + 1] \in Seq(S)
    OBVIOUS
  <2>2. K[N] \in Seq(S) /\ N + 1 \in 1 .. len /\ (N + 1) - 1 = N
    BY <1>22, <2>1
  <2>3. c[N + 1] \in S
    BY <1>1, <2>2
  <2>4. K[N + 1] = IF N + 1 \in s THEN Append(K[N], c[N + 1]) ELSE K[N]
    BY <1>2, <2>2
  <2>5. Append(K[N], c[N + 1]) \in Seq(S)
    BY <2>2, <2>3
  <2>6. QED
    BY <2>2, <2>4, <2>5
<1>23. \A N \in 0 .. len : K[N] \in Seq(S)
  <2>1. \A N \in Nat : N \in T
    <3> HIDE DEF T
    <3> QED BY <1>21, <1>22, Induction
  <2>2. QED
    BY <2>1
<1> DEFINE k == [n \in 0 .. len |-> Len(K[n])]
<1>24. \A n \in 0 .. len : k[n] \in Nat /\ k[n] = Len(K[n])
  BY <1>23
<1> HIDE DEF T, k
<1> DEFINE
           Good(N) == /\ \A n \in 0 .. N : /\ k[n] <= k[N]
                                           /\ n \in 1 .. len /\ n \in s => K[N][k[n]] = c[n] /\ k[n] \in 1 .. k[N]
                      /\ \A m \in 1 .. k[N] : \E n \in 1 .. N : n \in s /\ k[n] = m
           G == { N \in Nat : N <= len => Good(N) }
<1>3. 0 \in G
  <2>1. k[0] = 0
    BY <1>2, <1>24
  <2>2. Good(0)
    BY <2>1
  <2>3. QED
    BY <2>2
<1>4. ASSUME NEW N \in Nat, N \in G PROVE N + 1 \in G
  <2>1. SUFFICES ASSUME N + 1 <= len PROVE Good(N + 1)
    OBVIOUS
  <2>2. Good(N) /\ N \in 0 .. len /\ N + 1 \in 1 .. len /\ N + 1 \in 0 .. len /\ (N + 1) - 1 = N
    BY <1>4, <2>1
  <2>3. c[N + 1] \in S
    BY <1>1, <2>2
  <2>4. CASE N + 1 \in s
    <3>1. K[N + 1] = Append(K[N], c[N + 1])
      BY <1>2, <2>2, <2>4
    <3>2. PICK l \in Nat : l = Len(K[N]) /\ K[N] \in Seq(S)
      BY <1>23, <2>2
    <3>3. /\ K[N + 1] \in Seq(S) /\ Len(K[N + 1]) = l + 1
          /\ K[N + 1][l + 1] = c[N + 1] /\ \A j \in 1 .. l : K[N + 1][j] = K[N][j]
      BY <2>3, <3>1, <3>2
    <3>4. k[N] = l /\ k[N + 1] = l + 1
      BY <1>24, <2>2, <3>2, <3>3
    <3>5. ASSUME NEW n \in 0 .. N + 1
          PROVE  k[n] <= k[N + 1] /\ (n \in 1 .. len /\ n \in s => K[N + 1][k[n]] = c[n] /\ k[n] \in 1 .. k[N + 1])
      <4>1. CASE n = N + 1
        BY <3>3, <3>4, <4>1
      <4>2. CASE n \in 0 .. N
        <5>1. k[n] <= k[N] /\ (n \in 1 .. len /\ n \in s => K[N][k[n]] = c[n] /\ k[n] \in 1 .. k[N])
          BY <2>2, <4>2
        <5>2. k[n] \in Int
          BY <1>24, <2>2, <4>2
        <5>3. QED
          BY <3>3, <3>4, <5>1, <5>2
      <4>3. QED
        BY <4>1, <4>2
    <3>6. ASSUME NEW m \in 1 .. k[N + 1] PROVE \E n \in 1 .. N + 1 : n \in s /\ k[n] = m
      <4>1. CASE m = l + 1
        BY <2>4, <3>4, <4>1
      <4>2. CASE m \in 1 .. k[N]
        BY <2>2, <4>2
      <4>3. QED
        BY <3>4, <4>1, <4>2
    <3>7. QED
      BY <3>3, <3>5, <3>6
  <2>5. CASE N + 1 \notin s
    <3>1. K[N + 1] = K[N] /\ k[N + 1] = k[N]
      BY <1>2, <1>24, <2>2, <2>5
    <3>2. QED
      BY <2>2, <2>5, <3>1
  <2>6. QED
    BY <2>4, <2>5
<1>5. \A N \in Nat : N \in G
  <2> HIDE DEF G
  <2> QED BY <1>3, <1>4, Induction
<1>6. \A N \in 0 .. len : Good(N)
  BY <1>5
<1>7. k[0] = 0 /\ k[len] = Len(Only(c, s)) /\ Only(c, s) \in Seq(S)
  BY <1>2, <1>23, <1>24
<1>8. ASSUME NEW n \in 0 .. len PROVE k[n] \in 0 .. Len(Only(c, s))
  BY <1>6, <1>7, <1>8, <1>24
<1>9. ASSUME NEW n \in 1 .. len
      PROVE  IF n \in s THEN k[n] = k[n - 1] + 1 /\ Only(c, s)[k[n]] = c[n] ELSE k[n] = k[n - 1]
  <2>1. n \in 0 .. len /\ n - 1 \in 0 .. len /\ len \in 0 .. len
    OBVIOUS
  <2>2. CASE n \in s
    <3>1. Only(c, s)[k[n]] = c[n]
      BY <1>2, <1>6, <2>1, <2>2
    <3>2. K[n] = Append(K[n - 1], c[n])
      BY <1>2, <2>2
    <3>3. K[n - 1] \in Seq(S) /\ c[n] \in S
      BY <1>1, <1>23, <2>1
    <3>4. Len(Append(K[n - 1], c[n])) = Len(K[n - 1]) + 1
      BY <3>3
    <3>5. k[n] = k[n - 1] + 1
      BY <1>24, <2>1, <3>2, <3>4
    <3>6. QED
      BY <2>2, <3>1, <3>5
  <2>3. CASE n \notin s
    BY <1>2, <1>24, <2>1, <2>3
  <2>4. QED
    BY <2>2, <2>3
<1>10. \A n, p \in 0 .. len : p <= n => k[p] <= k[n]
  BY <1>6
<1>11. \A m \in 1 .. Len(Only(c, s)) : \E n \in 1 .. len : n \in s /\ k[n] = m
  BY <1>6, <1>7
<1>12. /\ k[Len(c)] = Len(Only(c, s))
       /\ \A n \in 0 .. Len(c) : k[n] \in 0 .. Len(Only(c, s))
       /\ \A n \in 1 .. Len(c) :
            IF n \in s THEN k[n] = k[n - 1] + 1 /\ Only(c, s)[k[n]] = c[n]
            ELSE k[n] = k[n - 1]
       /\ \A n, p \in 0 .. Len(c) : p <= n => k[p] <= k[n]
       /\ \A m \in 1 .. Len(Only(c, s)) : \E n \in 1 .. Len(c) : n \in s /\ k[n] = m
  <2>1. len = Len(c)
    BY <1>1
  <2>2. /\ k[len] = Len(Only(c, s))
        /\ \A n \in 0 .. len : k[n] \in 0 .. Len(Only(c, s))
        /\ \A n \in 1 .. len :
             IF n \in s THEN k[n] = k[n - 1] + 1 /\ Only(c, s)[k[n]] = c[n]
             ELSE k[n] = k[n - 1]
        /\ \A n, p \in 0 .. len : p <= n => k[p] <= k[n]
        /\ \A m \in 1 .. Len(Only(c, s)) : \E n \in 1 .. len : n \in s /\ k[n] = m
    BY <1>7, <1>8, <1>9, <1>10, <1>11, Zenon
  <2>3. QED
    BY <2>1, <2>2, Zenon
<1>13. QED
  BY <1>7, <1>12, Zenon

-----------------------------------------------------------------------------
(* The code of a function while it is built.                               *)

Kinds == {"const", "load", "store", "cast", "unop", "binop", "mov", "carry", "label", "jmp", "cjmp", "ret"}

Defining == {"const", "load", "cast", "unop", "binop", "mov", "carry"}

OpNames == {"none"} \cup Variable \cup Unaries \cup Binaries

AnyInst == [k : Kinds, op : OpNames, dst : 0 .. MaxRegs, a : 0 .. MaxRegs, b : 0 .. MaxRegs, imm : Int,
            from : Types, to : Types, label : Nat, other : Nat, wide : BOOLEAN]

Formed(i) ==
    /\ i.k = "binop" => i.op \in Binaries /\ i.imm \in {0, 1}
    /\ i.k = "unop" => i.op \in Unaries
    /\ i.k \in {"load", "store"} => i.op \in Variable
    /\ i.k = "carry" => i.imm \in {0, 1}
    /\ i.k \in Defining <=> i.dst # NoReg
    /\ i.k = "jmp" => i.label # 0
    /\ i.k = "cjmp" => i.label # 0 /\ i.other # 0

Insts == { i \in AnyInst : Formed(i) }

Entries == [reg : Regs, type : Types]

Arms == {"none", "then", "else"}

Builder == [stack : Seq(Entries), regs : 0 .. MaxRegs, labels : Nat, statements : Nat, words : Vocabulary,
            arm : Arms, merge : 0 .. MaxRegs, floor : Nat, armType : Types]

Operands(i) == {i.a, i.b} \ {NoReg}

OnStack(b) == { b.stack[j].reg : j \in DOMAIN b.stack }

Live(b) == OnStack(b) \cup (IF b.arm = "none" THEN {} ELSE {b.merge})

(* What has been read or written is at most the last register; the one     *)
(* that the arms of a ternary fill is not read before it is whole.         *)
Numbered(c, b) ==
    /\ b.floor <= Len(b.stack)
    /\ \A n \in DOMAIN c : c[n].dst <= b.regs /\ c[n].a <= b.regs /\ c[n].b <= b.regs
    /\ \A r \in Live(b) : r \in 1 .. b.regs
    /\ b.arm = "none" => b.floor = 0
    /\ b.arm # "none" => /\ b.merge \notin OnStack(b)
                         /\ \A n \in DOMAIN c : b.merge \notin Operands(c[n])

(* A register is read after it is written, and no return is between.       *)
Ordered(c) ==
    \A n, d \in DOMAIN c : c[d].dst \in Operands(c[n]) =>
        d < n /\ \A p \in DOMAIN c : c[p].k = "ret" /\ p < n => p < d

(* The registers of R have been written since the last return.             *)
Recent(c, R) == \A p, d \in DOMAIN c : c[p].k = "ret" /\ c[d].dst \in R => p < d

(* What follows a jump is a label.                                         *)
JumpsToNext(c) == \A n \in DOMAIN c : c[n].k = "jmp" => n + 1 \in DOMAIN c /\ c[n + 1].k = "label"

BuildOK(c, b) ==
    /\ c \in Seq(Insts) /\ b \in Builder
    /\ Numbered(c, b)
    /\ Ordered(c)
    /\ Recent(c, Live(b))
    /\ JumpsToNext(c)

(* One more instruction.                                                   *)
LEMMA Appended ==
    ASSUME NEW S, NEW c \in Seq(S), NEW i \in S
    PROVE  /\ Append(c, i) \in Seq(S) /\ Len(Append(c, i)) = Len(c) + 1 /\ Len(c) \in Nat
           /\ DOMAIN Append(c, i) = DOMAIN c \cup {Len(c) + 1}
           /\ \A n \in DOMAIN c : Append(c, i)[n] = c[n] /\ n < Len(c) + 1 /\ n \in Nat /\ n # 0 /\ n <= Len(c)
           /\ Append(c, i)[Len(c) + 1] = i
  OBVIOUS

LEMMA SomeTypes == /\ U16 \in Types /\ \A x \in Variable : x \in OpNames /\ TypeOf[x] \in Types
                   /\ \A s \in BOOLEAN : Type(2, s) \in Types
<1>1. \A s \in BOOLEAN : Type(2, s) \in Types
  BY DEF Types, U16, I16, Type
<1>2. TypeOf["word"] = U16 /\ TypeOf["byte"] = U8 /\ TypeOf["char"] = I8
  BY DEF TypeOf
<1>3. \A x \in Variable : x \in OpNames /\ TypeOf[x] \in Types
  BY <1>2 DEF Types, Variable, OpNames
<1>4. QED
  BY <1>1, <1>3 DEF Types

LEMMA PlainInst == ASSUME NEW k \in Kinds PROVE Inst(k) \in AnyInst /\ NoReg = 0 /\ 0 \in 0 .. MaxRegs
  BY SomeTypes, OptimizerAssumption DEF AnyInst, Inst, NoReg, OpNames

LEMMA ConstIs ==
    ASSUME NEW d \in Regs, NEW n \in Int
    PROVE  LET i == Const(d, n)
           IN  /\ i \in Insts
               /\ i.k = "const" /\ i.dst = d /\ i.a = 0 /\ i.b = 0 /\ i.imm = n
<1> DEFINE i == Const(d, n)
<1>1. Inst("const") \in AnyInst /\ NoReg = 0 /\ 0 \in 0 .. MaxRegs
  BY PlainInst DEF Kinds
<1>0. d \in 0 .. MaxRegs /\ n \in Int
  BY SomeTypes DEF Regs, OpNames
<1>2. i \in AnyInst
  BY <1>0, <1>1 DEF Const, AnyInst
<1>3. i.k = "const" /\ i.dst = d /\ i.a = 0 /\ i.b = 0 /\ i.imm = n
  BY <1>1 DEF Const, Inst, NoReg
<1>4. Formed(i)
  BY <1>3 DEF Formed, Defining, NoReg, Regs
<1>5. QED
  BY <1>2, <1>3, <1>4 DEF Insts

LEMMA LoadIs ==
    ASSUME NEW d \in Regs, NEW x \in Variable
    PROVE  LET i == Load(d, x)
           IN  /\ i \in Insts
               /\ i.k = "load" /\ i.dst = d /\ i.a = 0 /\ i.b = 0 /\ i.op = x /\ i.to = TypeOf[x]
<1> DEFINE i == Load(d, x)
<1>1. Inst("load") \in AnyInst /\ NoReg = 0 /\ 0 \in 0 .. MaxRegs
  BY PlainInst DEF Kinds
<1>0. d \in 0 .. MaxRegs /\ x \in OpNames /\ TypeOf[x] \in Types
  BY SomeTypes DEF Regs, OpNames
<1>2. i \in AnyInst
  BY <1>0, <1>1 DEF Load, AnyInst
<1>3. i.k = "load" /\ i.dst = d /\ i.a = 0 /\ i.b = 0 /\ i.op = x /\ i.to = TypeOf[x]
  BY <1>1 DEF Load, Inst, NoReg
<1>4. Formed(i)
  BY <1>3 DEF Formed, Defining, NoReg, Regs
<1>5. QED
  BY <1>2, <1>3, <1>4 DEF Insts

LEMMA StoreIs ==
    ASSUME NEW x \in Variable, NEW a \in 0 .. MaxRegs
    PROVE  LET i == Store(x, a)
           IN  /\ i \in Insts
               /\ i.k = "store" /\ i.dst = 0 /\ i.a = a /\ i.b = 0 /\ i.op = x /\ i.to = TypeOf[x]
<1> DEFINE i == Store(x, a)
<1>1. Inst("store") \in AnyInst /\ NoReg = 0 /\ 0 \in 0 .. MaxRegs
  BY PlainInst DEF Kinds
<1>0. x \in OpNames /\ TypeOf[x] \in Types
  BY SomeTypes DEF Regs, OpNames
<1>2. i \in AnyInst
  BY <1>0, <1>1 DEF Store, AnyInst
<1>3. i.k = "store" /\ i.dst = 0 /\ i.a = a /\ i.b = 0 /\ i.op = x /\ i.to = TypeOf[x]
  BY <1>1 DEF Store, Inst, NoReg
<1>4. Formed(i)
  BY <1>3 DEF Formed, Defining, NoReg
<1>5. QED
  BY <1>2, <1>3, <1>4 DEF Insts

LEMMA CastIs ==
    ASSUME NEW d \in Regs, NEW a \in 0 .. MaxRegs, NEW t \in Types, NEW u \in Types
    PROVE  LET i == Cast(d, a, t, u)
           IN  /\ i \in Insts
               /\ i.k = "cast" /\ i.dst = d /\ i.a = a /\ i.b = 0 /\ i.from = t /\ i.to = u
<1> DEFINE i == Cast(d, a, t, u)
<1>1. Inst("cast") \in AnyInst /\ NoReg = 0 /\ 0 \in 0 .. MaxRegs
  BY PlainInst DEF Kinds
<1>0. d \in 0 .. MaxRegs
  BY SomeTypes DEF Regs, OpNames
<1>2. i \in AnyInst
  BY <1>0, <1>1 DEF Cast, AnyInst
<1>3. i.k = "cast" /\ i.dst = d /\ i.a = a /\ i.b = 0 /\ i.from = t /\ i.to = u
  BY <1>1 DEF Cast, Inst, NoReg
<1>4. Formed(i)
  BY <1>3 DEF Formed, Defining, NoReg, Regs
<1>5. QED
  BY <1>2, <1>3, <1>4 DEF Insts

LEMMA UnopIs ==
    ASSUME NEW op \in Unaries, NEW d \in Regs, NEW a \in 0 .. MaxRegs
    PROVE  LET i == Unop(op, d, a)
           IN  /\ i \in Insts
               /\ i.k = "unop" /\ i.dst = d /\ i.a = a /\ i.b = 0 /\ i.op = op
<1> DEFINE i == Unop(op, d, a)
<1>1. Inst("unop") \in AnyInst /\ NoReg = 0 /\ 0 \in 0 .. MaxRegs
  BY PlainInst DEF Kinds
<1>0. d \in 0 .. MaxRegs /\ op \in OpNames
  BY SomeTypes DEF Regs, OpNames
<1>2. i \in AnyInst
  BY <1>0, <1>1 DEF Unop, AnyInst
<1>3. i.k = "unop" /\ i.dst = d /\ i.a = a /\ i.b = 0 /\ i.op = op
  BY <1>1 DEF Unop, Inst, NoReg
<1>4. Formed(i)
  BY <1>3 DEF Formed, Defining, NoReg, Regs
<1>5. QED
  BY <1>2, <1>3, <1>4 DEF Insts

LEMMA BinopIs ==
    ASSUME NEW op \in Binaries, NEW d \in Regs, NEW a \in 0 .. MaxRegs, NEW b \in 0 .. MaxRegs,
           NEW n \in {0, 1}, NEW s \in BOOLEAN
    PROVE  LET i == Binop(op, d, a, b, n, s)
           IN  /\ i \in Insts
               /\ i.k = "binop" /\ i.dst = d /\ i.a = a /\ i.b = b /\ i.op = op /\ i.imm = n
<1> DEFINE i == Binop(op, d, a, b, n, s)
<1>1. Inst("binop") \in AnyInst /\ NoReg = 0 /\ 0 \in 0 .. MaxRegs
  BY PlainInst DEF Kinds
<1>0. d \in 0 .. MaxRegs /\ op \in OpNames /\ n \in Int /\ Type(2, s) \in Types
  BY SomeTypes DEF Regs, OpNames
<1>2. i \in AnyInst
  BY <1>0, <1>1 DEF Binop, AnyInst
<1>3. i.k = "binop" /\ i.dst = d /\ i.a = a /\ i.b = b /\ i.op = op /\ i.imm = n
  BY <1>1 DEF Binop, Inst, NoReg
<1>4. Formed(i)
  BY <1>3 DEF Formed, Defining, NoReg, Regs
<1>5. QED
  BY <1>2, <1>3, <1>4 DEF Insts

LEMMA MovIs ==
    ASSUME NEW d \in Regs, NEW a \in 0 .. MaxRegs
    PROVE  LET i == Mov(d, a)
           IN  /\ i \in Insts
               /\ i.k = "mov" /\ i.dst = d /\ i.a = a /\ i.b = 0
<1> DEFINE i == Mov(d, a)
<1>1. Inst("mov") \in AnyInst /\ NoReg = 0 /\ 0 \in 0 .. MaxRegs
  BY PlainInst DEF Kinds
<1>0. d \in 0 .. MaxRegs
  BY SomeTypes DEF Regs, OpNames
<1>2. i \in AnyInst
  BY <1>0, <1>1 DEF Mov, AnyInst
<1>3. i.k = "mov" /\ i.dst = d /\ i.a = a /\ i.b = 0
  BY <1>1 DEF Mov, Inst, NoReg
<1>4. Formed(i)
  BY <1>3 DEF Formed, Defining, NoReg, Regs
<1>5. QED
  BY <1>2, <1>3, <1>4 DEF Insts

LEMMA CarryOpIs ==
    ASSUME NEW d \in Regs, NEW a \in 0 .. MaxRegs, NEW b \in 0 .. MaxRegs, NEW n \in {0, 1}
    PROVE  LET i == CarryOp(d, a, b, n)
           IN  /\ i \in Insts
               /\ i.k = "carry" /\ i.dst = d /\ i.a = a /\ i.b = b /\ i.imm = n
<1> DEFINE i == CarryOp(d, a, b, n)
<1>1. Inst("carry") \in AnyInst /\ NoReg = 0 /\ 0 \in 0 .. MaxRegs
  BY PlainInst DEF Kinds
<1>0. d \in 0 .. MaxRegs /\ n \in Int
  BY SomeTypes DEF Regs, OpNames
<1>2. i \in AnyInst
  BY <1>0, <1>1 DEF CarryOp, AnyInst
<1>3. i.k = "carry" /\ i.dst = d /\ i.a = a /\ i.b = b /\ i.imm = n
  BY <1>1 DEF CarryOp, Inst, NoReg
<1>4. Formed(i)
  BY <1>3 DEF Formed, Defining, NoReg, Regs
<1>5. QED
  BY <1>2, <1>3, <1>4 DEF Insts

LEMMA LabelIs ==
    ASSUME NEW l \in Nat
    PROVE  LET i == Label(l)
           IN  /\ i \in Insts
               /\ i.k = "label" /\ i.dst = 0 /\ i.a = 0 /\ i.b = 0 /\ i.label = l
<1> DEFINE i == Label(l)
<1>1. Inst("label") \in AnyInst /\ NoReg = 0 /\ 0 \in 0 .. MaxRegs
  BY PlainInst DEF Kinds
<1>2. i \in AnyInst
  BY <1>1 DEF Label, AnyInst
<1>3. i.k = "label" /\ i.dst = 0 /\ i.a = 0 /\ i.b = 0 /\ i.label = l
  BY <1>1 DEF Label, Inst, NoReg
<1>4. Formed(i)
  BY <1>3 DEF Formed, Defining, NoReg
<1>5. QED
  BY <1>2, <1>3, <1>4 DEF Insts

LEMMA JmpIs ==
    ASSUME NEW l \in Nat \ {0}
    PROVE  LET i == Jmp(l)
           IN  /\ i \in Insts
               /\ i.k = "jmp" /\ i.dst = 0 /\ i.a = 0 /\ i.b = 0 /\ i.label = l
<1> DEFINE i == Jmp(l)
<1>1. Inst("jmp") \in AnyInst /\ NoReg = 0 /\ 0 \in 0 .. MaxRegs
  BY PlainInst DEF Kinds
<1>2. i \in AnyInst
  BY <1>1 DEF Jmp, AnyInst
<1>3. i.k = "jmp" /\ i.dst = 0 /\ i.a = 0 /\ i.b = 0 /\ i.label = l
  BY <1>1 DEF Jmp, Inst, NoReg
<1>4. Formed(i)
  BY <1>3 DEF Formed, Defining, NoReg
<1>5. QED
  BY <1>2, <1>3, <1>4 DEF Insts

LEMMA CJmpIs ==
    ASSUME NEW a \in 0 .. MaxRegs, NEW l \in Nat \ {0}, NEW o \in Nat \ {0}
    PROVE  LET i == CJmp(a, l, o)
           IN  /\ i \in Insts
               /\ i.k = "cjmp" /\ i.dst = 0 /\ i.a = a /\ i.b = 0 /\ i.label = l /\ i.other = o
<1> DEFINE i == CJmp(a, l, o)
<1>1. Inst("cjmp") \in AnyInst /\ NoReg = 0 /\ 0 \in 0 .. MaxRegs
  BY PlainInst DEF Kinds
<1>2. i \in AnyInst
  BY <1>1 DEF CJmp, AnyInst
<1>3. i.k = "cjmp" /\ i.dst = 0 /\ i.a = a /\ i.b = 0 /\ i.label = l /\ i.other = o
  BY <1>1 DEF CJmp, Inst, NoReg
<1>4. Formed(i)
  BY <1>3 DEF Formed, Defining, NoReg
<1>5. QED
  BY <1>2, <1>3, <1>4 DEF Insts

LEMMA RetIs ==
    ASSUME NEW a \in 0 .. MaxRegs
    PROVE  LET i == Ret(a)
           IN  /\ i \in Insts
               /\ i.k = "ret" /\ i.dst = 0 /\ i.a = a /\ i.b = 0
<1> DEFINE i == Ret(a)
<1>1. Inst("ret") \in AnyInst /\ NoReg = 0 /\ 0 \in 0 .. MaxRegs
  BY PlainInst DEF Kinds
<1>2. i \in AnyInst
  BY <1>1 DEF Ret, AnyInst
<1>3. i.k = "ret" /\ i.dst = 0 /\ i.a = a /\ i.b = 0
  BY <1>1 DEF Ret, Inst, NoReg
<1>4. Formed(i)
  BY <1>3 DEF Formed, Defining, NoReg
<1>5. QED
  BY <1>2, <1>3, <1>4 DEF Insts

LEMMA WideIs ==
    ASSUME NEW i \in Insts
    PROVE  /\ Wide(i) \in Insts
           /\ Wide(i).k = i.k /\ Wide(i).dst = i.dst /\ Wide(i).a = i.a /\ Wide(i).b = i.b
           /\ Wide(i).imm = i.imm /\ Wide(i).to = i.to /\ Wide(i).from = i.from
<1>1. i \in AnyInst /\ Formed(i)
  BY DEF Insts
<1>2. Wide(i) \in AnyInst
  BY <1>1 DEF AnyInst, Wide
<1>3. /\ Wide(i).k = i.k /\ Wide(i).op = i.op /\ Wide(i).dst = i.dst /\ Wide(i).imm = i.imm
      /\ Wide(i).label = i.label /\ Wide(i).other = i.other /\ Wide(i).a = i.a /\ Wide(i).b = i.b
      /\ Wide(i).to = i.to /\ Wide(i).from = i.from
  BY <1>1 DEF AnyInst, Wide
<1>4. QED
  BY <1>1, <1>2, <1>3 DEF Insts, Formed

LEMMA InstFields ==
    ASSUME NEW i \in Insts
    PROVE  /\ i.k \in Kinds /\ i.dst \in 0 .. MaxRegs /\ i.a \in 0 .. MaxRegs /\ i.b \in 0 .. MaxRegs
           /\ i.dst \in Nat /\ i.a \in Nat /\ i.b \in Nat /\ i.imm \in Int
           /\ i.from \in Types /\ i.to \in Types /\ i.label \in Nat /\ i.other \in Nat /\ i.wide \in BOOLEAN
           /\ i.op \in OpNames /\ Formed(i)
  BY DEF Insts, AnyInst

LEMMA CodeFields ==
    ASSUME NEW c \in Seq(Insts), NEW n \in DOMAIN c
    PROVE  /\ c[n] \in Insts /\ c[n].dst \in Nat /\ c[n].a \in Nat /\ c[n].b \in Nat
           /\ n \in Nat /\ n # 0 /\ n <= Len(c) /\ Len(c) \in Nat
<1>1. c[n] \in Insts
  OBVIOUS
<1>2. QED
  BY <1>1, InstFields

LEMMA OrderedGrows ==
    ASSUME NEW c \in Seq(Insts), NEW i \in Insts, NEW R, Ordered(c), Recent(c, R), Operands(i) \subseteq R,
           \A n \in DOMAIN c : i.dst \notin Operands(c[n]), i.dst \notin Operands(i)
    PROVE  Ordered(Append(c, i))
<1> DEFINE e == Append(c, i)
           len == Len(c)
<1>1. /\ DOMAIN e = DOMAIN c \cup {len + 1} /\ e[len + 1] = i /\ len \in Nat
      /\ \A n \in DOMAIN c : e[n] = c[n] /\ n < len + 1 /\ n \in Nat
  BY Appended
<1> HIDE DEF e, len
<1>2. ASSUME NEW n \in DOMAIN e, NEW d \in DOMAIN e, e[d].dst \in Operands(e[n])
      PROVE  d < n /\ \A p \in DOMAIN e : e[p].k = "ret" /\ p < n => p < d
  <2>1. d \in DOMAIN c
    <3>1. CASE d = len + 1
      BY <1>1, <1>2, <3>1
    <3>2. QED
      BY <1>1, <3>1
  <2>2. CASE n = len + 1
    <3>1. c[d].dst \in R
      BY <1>1, <1>2, <2>1, <2>2
    <3>2. \A p \in DOMAIN c : c[p].k = "ret" => p < d
      BY <2>1, <3>1 DEF Recent
    <3>3. QED
      BY <1>1, <2>1, <2>2, <3>2
  <2>3. CASE n \in DOMAIN c
    <3>1. c[d].dst \in Operands(c[n])
      BY <1>1, <1>2, <2>1, <2>3
    <3>2. d < n /\ \A p \in DOMAIN c : c[p].k = "ret" /\ p < n => p < d
      BY <2>1, <2>3, <3>1 DEF Ordered
    <3>3. QED
      BY <1>1, <2>3, <3>2
  <2>4. QED
    BY <1>1, <2>2, <2>3
<1>3. QED
  BY <1>2 DEF Ordered, e

LEMMA RecentGrows ==
    ASSUME NEW c \in Seq(Insts), NEW i \in Insts, NEW R, NEW Q, Recent(c, R), i.k # "ret",
      Q \subseteq R \cup {i.dst},
           \/ i.dst \in R
           \/ i.dst \notin Q
           \/ \A d \in DOMAIN c : c[d].dst # i.dst
    PROVE  Recent(Append(c, i), Q)
<1> DEFINE e == Append(c, i)
           len == Len(c)
<1>1. /\ DOMAIN e = DOMAIN c \cup {len + 1} /\ e[len + 1] = i /\ len \in Nat
      /\ \A n \in DOMAIN c : e[n] = c[n] /\ n < len + 1 /\ n \in Nat
  BY Appended
<1> HIDE DEF e, len
<1>2. ASSUME NEW p \in DOMAIN e, NEW d \in DOMAIN e, e[p].k = "ret", e[d].dst \in Q
      PROVE  p < d
  <2>1. p \in DOMAIN c
    BY <1>1, <1>2
  <2>2. CASE d = len + 1
    BY <1>1, <2>1, <2>2
  <2>3. CASE d \in DOMAIN c
    <3>1. c[d].dst \in R /\ c[p].k = "ret"
      BY <1>1, <1>2, <2>1, <2>3
    <3>2. QED
      BY <2>1, <2>3, <3>1 DEF Recent
  <2>4. QED
    BY <1>1, <2>2, <2>3
<1>3. QED
  BY <1>2 DEF Recent, e

LEMMA JumpsGrow ==
    ASSUME NEW c \in Seq(Insts), NEW i \in Insts, JumpsToNext(c), i.k # "jmp"
    PROVE  JumpsToNext(Append(c, i))
  BY Appended DEF JumpsToNext

LEMMA JumpsGrowByTwo ==
    ASSUME NEW c \in Seq(Insts), NEW i \in Insts, NEW l \in Insts, JumpsToNext(c), l.k = "label"
    PROVE  JumpsToNext(Append(Append(c, i), l))
<1>1. /\ DOMAIN Append(c, i) = DOMAIN c \cup {Len(c) + 1} /\ Len(c) \in Nat /\ Append(c, i) \in Seq(Insts)
      /\ \A n \in DOMAIN c : Append(c, i)[n] = c[n] /\ n <= Len(c) /\ n \in Nat
      /\ Len(Append(c, i)) = Len(c) + 1
  BY Appended
<1> DEFINE e == Append(c, i)
           f == Append(e, l)
<1>2. /\ DOMAIN f = DOMAIN e \cup {Len(c) + 2} /\ f[Len(c) + 2] = l
      /\ \A n \in DOMAIN e : f[n] = e[n]
  BY <1>1, Appended
<1> HIDE DEF e, f
<1>3. ASSUME NEW n \in DOMAIN f, f[n].k = "jmp" PROVE n + 1 \in DOMAIN f /\ f[n + 1].k = "label"
  <2>1. n \in DOMAIN e
    BY <1>2, <1>3
  <2>2. CASE n = Len(c) + 1
    BY <1>1, <1>2, <2>2
  <2>3. CASE n \in DOMAIN c
    BY <1>1, <1>2, <1>3, <2>3 DEF JumpsToNext, e
  <2>4. QED
    BY <1>1, <2>1, <2>2, <2>3 DEF e
<1>4. QED
  BY <1>3 DEF JumpsToNext, e, f

(* The builder after one more register is written and pushed.              *)
Pushed(b, t) == [b EXCEPT !.stack = Append(@, Entry(b.regs + 1, t)), !.regs = @ + 1]

(* The registers above the floor, which the expression at hand may read.   *)
Readable(b) == { b.stack[j].reg : j \in b.floor + 1 .. Len(b.stack) }

LEMMA PushedIs ==
    ASSUME NEW b \in Builder, NEW t \in Types, b.regs + 1 <= MaxRegs
    PROVE  LET e == Pushed(b, t)
           IN  /\ e \in Builder
               /\ e.regs = b.regs + 1 /\ e.arm = b.arm /\ e.merge = b.merge /\ e.floor = b.floor
               /\ e.labels = b.labels /\ e.armType = b.armType /\ e.statements = b.statements
               /\ e.stack = Append(b.stack, Entry(b.regs + 1, t))
               /\ Len(e.stack) = Len(b.stack) + 1 /\ Len(b.stack) \in Nat
               /\ DOMAIN e.stack = DOMAIN b.stack \cup {Len(b.stack) + 1}
               /\ \A j \in DOMAIN b.stack : e.stack[j] = b.stack[j]
               /\ e.stack[Len(b.stack) + 1] = Entry(b.regs + 1, t)
               /\ OnStack(e) = OnStack(b) \cup {b.regs + 1}
<1> DEFINE e == Pushed(b, t)
           x == Entry(b.regs + 1, t)
<1>1. /\ b.stack \in Seq(Entries) /\ b.regs \in 0 .. MaxRegs /\ MaxRegs \in Nat
  BY OptimizerAssumption DEF Builder
<1>2. b.regs + 1 \in Regs /\ b.regs + 1 \in 0 .. MaxRegs
  BY <1>1 DEF Regs
<1>3. x \in Entries /\ x.reg = b.regs + 1
  BY <1>2 DEF Entry, Entries
<1>40. Append(b.stack, x) \in Seq(Entries)
  BY <1>1, <1>3
<1>4. PICK s \in Seq(Entries) : s = Append(b.stack, x)
  BY <1>40, Zenon
<1>5. e = [b EXCEPT !.stack = s, !.regs = b.regs + 1]
  BY <1>4 DEF Pushed
<1>6. /\ e \in Builder
      /\ e.regs = b.regs + 1 /\ e.arm = b.arm /\ e.merge = b.merge /\ e.floor = b.floor
      /\ e.labels = b.labels /\ e.armType = b.armType /\ e.statements = b.statements
      /\ e.stack = s
  BY <1>2, <1>5 DEF Builder
<1>7. /\ Len(s) = Len(b.stack) + 1 /\ Len(b.stack) \in Nat
      /\ DOMAIN s = DOMAIN b.stack \cup {Len(b.stack) + 1}
      /\ \A j \in DOMAIN b.stack : s[j] = b.stack[j]
      /\ s[Len(b.stack) + 1] = x
  BY <1>1, <1>3, <1>4, Appended
<1>8. OnStack(e) = OnStack(b) \cup {b.regs + 1}
  BY <1>3, <1>6, <1>7 DEF OnStack
<1>9. QED
  BY <1>4, <1>6, <1>7, <1>8

LEMMA EmitOK ==
    ASSUME NEW c, NEW b, BuildOK(c, b), NEW i \in Insts, NEW t \in Types,
           i.k \in {"const", "load", "cast", "unop", "binop", "carry"},
           b.regs + 1 <= MaxRegs, i.dst = b.regs + 1, Operands(i) \subseteq Readable(b)
    PROVE  BuildOK(Append(c, i), Pushed(b, t))
<1> DEFINE e == Pushed(b, t)
           f == Append(c, i)
<1>1. c \in Seq(Insts) /\ b \in Builder /\ b.regs \in Nat /\ b.stack \in Seq(Entries) /\ b.floor \in Nat
  BY DEF BuildOK, Builder
<1>2. /\ e \in Builder /\ e.regs = b.regs + 1 /\ e.arm = b.arm /\ e.merge = b.merge /\ e.floor = b.floor
      /\ Len(e.stack) = Len(b.stack) + 1 /\ Len(b.stack) \in Nat
      /\ OnStack(e) = OnStack(b) \cup {b.regs + 1}
  BY <1>1, PushedIs
<1>3. /\ f \in Seq(Insts) /\ DOMAIN f = DOMAIN c \cup {Len(c) + 1} /\ f[Len(c) + 1] = i
      /\ \A n \in DOMAIN c : f[n] = c[n]
  BY <1>1, Appended
<1>4. Readable(b) \subseteq OnStack(b) /\ OnStack(b) \subseteq Live(b)
  <2>1. b.floor + 1 .. Len(b.stack) \subseteq DOMAIN b.stack
    BY <1>1
  <2>2. QED
    BY <2>1 DEF Readable, OnStack, Live
<1>5. /\ b.floor <= Len(b.stack)
      /\ \A n \in DOMAIN c : c[n].dst <= b.regs /\ c[n].a <= b.regs /\ c[n].b <= b.regs
      /\ \A r \in Live(b) : r \in 1 .. b.regs
      /\ b.arm = "none" => b.floor = 0
      /\ b.arm # "none" => /\ b.merge \notin OnStack(b)
                           /\ \A n \in DOMAIN c : b.merge \notin Operands(c[n])
  BY DEF BuildOK, Numbered
<1>6. \A n \in DOMAIN c : c[n].dst \in Nat /\ c[n].a \in Nat /\ c[n].b \in Nat /\ c[n] \in Insts
  BY <1>1, CodeFields
<1>7. i.a \in 0 .. b.regs /\ i.b \in 0 .. b.regs
  <2>1. \A r \in Operands(i) : r \in 1 .. b.regs
    BY <1>4, <1>5
  <2>2. QED
    BY <1>1, <2>1, InstFields DEF Operands, NoReg
<1>8. Live(e) = Live(b) \cup {i.dst}
  BY <1>2 DEF Live
<1> HIDE DEF e, f
<1>9. Numbered(f, e)
  <2>1. e.floor <= Len(e.stack)
    BY <1>1, <1>2, <1>5
  <2>2. \A n \in DOMAIN f : f[n].dst <= e.regs /\ f[n].a <= e.regs /\ f[n].b <= e.regs
    BY <1>1, <1>2, <1>3, <1>5, <1>6, <1>7
  <2>3. \A r \in Live(e) : r \in 1 .. e.regs
    BY <1>1, <1>2, <1>5, <1>8
  <2>4. e.arm = "none" => e.floor = 0
    BY <1>2, <1>5
  <2>5. ASSUME e.arm # "none"
        PROVE  e.merge \notin OnStack(e) /\ \A n \in DOMAIN f : e.merge \notin Operands(f[n])
    <3>1. b.merge \notin OnStack(b) /\ (\A n \in DOMAIN c : b.merge \notin Operands(c[n]))
            /\ b.merge \in 1 .. b.regs
      BY <1>2, <1>5, <2>5 DEF Live
    <3>2. b.merge \notin Operands(i)
      BY <1>4, <3>1
    <3>3. QED
      BY <1>1, <1>2, <1>3, <3>1, <3>2
  <2>6. QED
    BY <2>1, <2>2, <2>3, <2>4, <2>5 DEF Numbered
<1>10. Ordered(f)
  <2>1. \A n \in DOMAIN c : i.dst \notin Operands(c[n])
    BY <1>1, <1>5, <1>6 DEF Operands
  <2>2. i.dst \notin Operands(i)
    BY <1>1, <1>7 DEF Operands
  <2>3. QED
    BY <1>1, <1>4, <2>1, <2>2, OrderedGrows DEF BuildOK, f
<1>11. Recent(f, Live(e))
  <2>1. \A d \in DOMAIN c : c[d].dst # i.dst
    BY <1>1, <1>5, <1>6
  <2>2. QED
    BY <1>1, <1>8, <2>1, RecentGrows DEF BuildOK, f
<1>12. JumpsToNext(f)
  BY <1>1, JumpsGrow DEF BuildOK, f
<1>13. QED
  BY <1>2, <1>3, <1>9, <1>10, <1>11, <1>12 DEF BuildOK, e, f

LEMMA AppendSome ==
    ASSUME NEW c \in Seq(Insts), NEW i \in Insts, NEW j \in Insts, NEW l \in Insts
    PROVE  /\ c \o <<i>> = Append(c, i)
           /\ c \o <<i, j>> = Append(Append(c, i), j)
           /\ c \o <<i, j, l>> = Append(Append(Append(c, i), j), l)
<1>1. /\ <<i>> \in Seq(Insts) /\ <<j>> \in Seq(Insts) /\ <<l>> \in Seq(Insts) /\ <<i, j>> \in Seq(Insts)
      /\ Append(c, i) \in Seq(Insts) /\ Append(Append(c, i), j) \in Seq(Insts)
  OBVIOUS
<1>2. <<i>> \o <<j>> = <<i, j>> /\ <<i, j>> \o <<l>> = <<i, j, l>>
  <2>1. Append(<<i>>, j) = <<i, j>>
    <3>1. /\ Append(<<i>>, j) \in Seq(Insts) /\ Len(Append(<<i>>, j)) = 2
          /\ Append(<<i>>, j)[1] = i /\ Append(<<i>>, j)[2] = j
      OBVIOUS
    <3>2. <<i, j>> \in Seq(Insts) /\ Len(<<i, j>>) = 2 /\ <<i, j>>[1] = i /\ <<i, j>>[2] = j
      OBVIOUS
    <3>3. \A n \in 1 .. 2 : Append(<<i>>, j)[n] = <<i, j>>[n]
      BY <3>1, <3>2
    <3>4. QED
      BY <3>1, <3>2, <3>3, SeqEqual
  <2>2. Append(<<i, j>>, l) = <<i, j, l>>
    <3>1. /\ Append(<<i, j>>, l) \in Seq(Insts) /\ Len(Append(<<i, j>>, l)) = 3
          /\ Append(<<i, j>>, l)[1] = i /\ Append(<<i, j>>, l)[2] = j /\ Append(<<i, j>>, l)[3] = l
      OBVIOUS
    <3>2. /\ <<i, j, l>> \in Seq(Insts) /\ Len(<<i, j, l>>) = 3
          /\ <<i, j, l>>[1] = i /\ <<i, j, l>>[2] = j /\ <<i, j, l>>[3] = l
      OBVIOUS
    <3>3. \A n \in 1 .. 3 : Append(<<i, j>>, l)[n] = <<i, j, l>>[n]
      BY <3>1, <3>2
    <3>4. QED
      BY <3>1, <3>2, <3>3, SeqEqual
  <2>3. <<i>> \o <<j>> = Append(<<i>>, j) /\ <<i, j>> \o <<l>> = Append(<<i, j>>, l)
    BY <1>1, AppendIsConcat
  <2>4. QED
    BY <2>1, <2>2, <2>3
<1>3. /\ c \o <<i>> = Append(c, i) /\ Append(c, i) \o <<j>> = Append(Append(c, i), j)
      /\ Append(Append(c, i), j) \o <<l>> = Append(Append(Append(c, i), j), l)
  BY <1>1, AppendIsConcat
<1>4. /\ c \o (<<i>> \o <<j>>) = (c \o <<i>>) \o <<j>>
      /\ c \o (<<i, j>> \o <<l>>) = (c \o <<i, j>>) \o <<l>>
  BY <1>1, ConcatAssociative
<1>5. QED
  BY <1>2, <1>3, <1>4

LEMMA PlainTop ==
    ASSUME NEW b \in Builder, NEW n \in 0 .. Len(b.stack)
    PROVE  /\ SubSeq(b.stack, 1, n) \in Seq(Entries) /\ Len(SubSeq(b.stack, 1, n)) = n
           /\ \A j \in 1 .. n : SubSeq(b.stack, 1, n)[j] = b.stack[j] /\ j \in DOMAIN b.stack
           /\ Len(b.stack) \in Nat /\ n \in Nat
           /\ \A j \in DOMAIN b.stack : b.stack[j].reg \in Regs /\ b.stack[j].type \in Types
                 /\ b.stack[j].reg \in OnStack(b)
<1>1. b.stack \in Seq(Entries) /\ Len(b.stack) \in Nat
  BY DEF Builder
<1>2. /\ SubSeq(b.stack, 1, n) \in Seq(Entries) /\ Len(SubSeq(b.stack, 1, n)) = n
      /\ \A j \in 1 .. n : SubSeq(b.stack, 1, n)[j] = b.stack[j] /\ j \in DOMAIN b.stack
  BY <1>1, SubSeqProperties
<1>3. \A j \in DOMAIN b.stack : b.stack[j] \in Entries
  BY <1>1
<1>4. \A j \in DOMAIN b.stack : b.stack[j].reg \in Regs /\ b.stack[j].type \in Types
        /\ b.stack[j].reg \in OnStack(b)
  BY <1>3 DEF Entries, OnStack
<1>5. QED
  BY <1>1, <1>2, <1>4

(* Some of what is on the stack is taken.                                  *)
LEMMA DropOK ==
    ASSUME NEW c, NEW b, BuildOK(c, b), NEW s \in Seq(Entries), b.floor <= Len(s),
           \A j \in DOMAIN s : s[j].reg \in OnStack(b)
    PROVE  BuildOK(c, [b EXCEPT !.stack = s])
<1> DEFINE e == [b EXCEPT !.stack = s]
<1>1. b \in Builder
  BY DEF BuildOK
<1>2. /\ e \in Builder /\ e.regs = b.regs /\ e.arm = b.arm /\ e.merge = b.merge /\ e.floor = b.floor
      /\ e.stack = s
  BY <1>1 DEF Builder
<1>3. OnStack(e) \subseteq OnStack(b)
  BY <1>2 DEF OnStack
<1>4. Live(e) \subseteq Live(b)
  BY <1>2, <1>3 DEF Live
<1> HIDE DEF e
<1>5. Numbered(c, e)
  BY <1>2, <1>3, <1>4 DEF Numbered, BuildOK
<1>6. Recent(c, Live(e))
  BY <1>4 DEF Recent, BuildOK
<1>7. QED
  BY <1>2, <1>5, <1>6 DEF BuildOK, e

Opened(b) == [b EXCEPT !.stack = SubSeq(b.stack, 1, Len(b.stack) - 1), !.regs = b.regs + 1, !.arm = "then",
                       !.merge = b.regs + 1, !.floor = Len(b.stack) - 1]

Turned(b) == [b EXCEPT !.stack = SubSeq(b.stack, 1, Len(b.stack) - 1), !.arm = "else",
                       !.armType = b.stack[Len(b.stack)].type]

Closed(b) == [b EXCEPT !.stack = Append(SubSeq(b.stack, 1, Len(b.stack) - 1), Entry(b.merge, b.armType)),
                       !.labels = b.labels + 3, !.arm = "none", !.floor = 0]

TopReg(b) == b.stack[Len(b.stack)].reg

LEMMA OpenOK ==
    ASSUME NEW c, NEW b, BuildOK(c, b), Len(b.stack) > 0, b.arm = "none", b.regs + 1 <= MaxRegs
    PROVE  BuildOK(Append(Append(c, CJmp(TopReg(b), b.labels + 1, b.labels + 2)), Label(b.labels + 1)), Opened(b))
<1> DEFINE e == Opened(b)
           i == CJmp(TopReg(b), b.labels + 1, b.labels + 2)
           l == Label(b.labels + 1)
           f == Append(c, i)
           g == Append(f, l)
           s == SubSeq(b.stack, 1, Len(b.stack) - 1)
<1>1. /\ c \in Seq(Insts) /\ b \in Builder /\ b.regs \in Nat /\ b.stack \in Seq(Entries) /\ b.labels \in Nat
      /\ Len(b.stack) \in Nat /\ Len(b.stack) - 1 \in 0 .. Len(b.stack) /\ MaxRegs \in Nat
  BY OptimizerAssumption DEF BuildOK, Builder
<1>2. /\ s \in Seq(Entries) /\ Len(s) = Len(b.stack) - 1
      /\ \A j \in DOMAIN s : s[j] = b.stack[j] /\ s[j].reg \in OnStack(b)
      /\ TopReg(b) \in Regs /\ TopReg(b) \in OnStack(b)
  BY <1>1, PlainTop DEF TopReg
<1>3. /\ b.regs + 1 \in 0 .. MaxRegs /\ "then" \in Arms /\ Len(b.stack) - 1 \in Nat
  BY <1>1 DEF Arms
<1>4. /\ e \in Builder /\ e.regs = b.regs + 1 /\ e.arm = "then" /\ e.merge = b.regs + 1
      /\ e.floor = Len(b.stack) - 1 /\ e.stack = s
  BY <1>1, <1>2, <1>3 DEF Builder, Opened
<1>5. OnStack(e) \subseteq OnStack(b) /\ OnStack(b) = Live(b)
  BY <1>2, <1>4 DEF OnStack, Live
<1>6. Live(e) \subseteq Live(b) \cup {b.regs + 1}
  BY <1>4, <1>5 DEF Live
<1>7. /\ i \in Insts /\ i.k = "cjmp" /\ i.dst = 0 /\ i.a = TopReg(b) /\ i.b = 0
      /\ l \in Insts /\ l.k = "label" /\ l.dst = 0 /\ l.a = 0 /\ l.b = 0
  <2>1. TopReg(b) \in 0 .. MaxRegs
    BY <1>2 DEF Regs
  <2>2. b.labels + 1 \in Nat \ {0} /\ b.labels + 2 \in Nat \ {0}
    BY <1>1
  <2>3. i \in Insts /\ i.k = "cjmp" /\ i.dst = 0 /\ i.a = TopReg(b) /\ i.b = 0
    BY <2>1, <2>2, CJmpIs
  <2>4. l \in Insts /\ l.k = "label" /\ l.dst = 0 /\ l.a = 0 /\ l.b = 0
    BY <2>2, LabelIs
  <2>5. QED
    BY <2>3, <2>4
<1> HIDE DEF e, i, l, s
<1>8. /\ \A n \in DOMAIN c : c[n].dst <= b.regs /\ c[n].a <= b.regs /\ c[n].b <= b.regs
      /\ \A r \in Live(b) : r \in 1 .. b.regs
  BY DEF BuildOK, Numbered
<1>9. \A n \in DOMAIN c : c[n].dst \in Nat /\ c[n].a \in Nat /\ c[n].b \in Nat /\ c[n] \in Insts
  BY <1>1, CodeFields
<1>10. /\ f \in Seq(Insts) /\ DOMAIN f = DOMAIN c \cup {Len(c) + 1} /\ f[Len(c) + 1] = i
       /\ \A n \in DOMAIN c : f[n] = c[n]
  BY <1>1, <1>7, Appended
<1>11. /\ g \in Seq(Insts) /\ DOMAIN g = DOMAIN f \cup {Len(f) + 1} /\ g[Len(f) + 1] = l
       /\ \A n \in DOMAIN f : g[n] = f[n]
  BY <1>7, <1>10, Appended
<1>12. Operands(i) = {TopReg(b)} /\ Operands(l) = {} /\ TopReg(b) \in 1 .. b.regs
  BY <1>2, <1>5, <1>7, <1>8 DEF Operands, NoReg, Regs
<1> HIDE DEF f, g
<1>13. Numbered(g, e)
  <2>1. e.floor <= Len(e.stack)
    BY <1>1, <1>2, <1>4
  <2>2. \A n \in DOMAIN f : f[n].dst <= e.regs /\ f[n].a <= e.regs /\ f[n].b <= e.regs
    <3>1. \A n \in DOMAIN c : f[n].dst <= e.regs /\ f[n].a <= e.regs /\ f[n].b <= e.regs
      <4>1. TAKE n \in DOMAIN c
      <4>2. f[n] = c[n]
        BY <1>10
      <4>3. c[n].dst <= e.regs /\ c[n].a <= e.regs /\ c[n].b <= e.regs
        BY <1>1, <1>4, <1>8, <1>9
      <4>4. QED
        BY <4>2, <4>3
    <3>2. i.dst <= e.regs /\ i.a <= e.regs /\ i.b <= e.regs
      BY <1>1, <1>4, <1>7, <1>12
    <3>3. QED
      BY <1>10, <3>1, <3>2
  <2>3. \A n \in DOMAIN g : g[n].dst <= e.regs /\ g[n].a <= e.regs /\ g[n].b <= e.regs
    BY <1>1, <1>4, <1>7, <1>11, <2>2
  <2>4. \A r \in Live(e) : r \in 1 .. e.regs
    BY <1>1, <1>4, <1>6, <1>8
  <2>5. e.merge \notin OnStack(e)
    BY <1>1, <1>4, <1>5, <1>8
  <2>6. \A n \in DOMAIN f : e.merge \notin Operands(f[n])
    <3>1. \A n \in DOMAIN c : e.merge \notin Operands(c[n])
      BY <1>1, <1>4, <1>8, <1>9 DEF Operands
    <3>2. e.merge \notin Operands(i)
      BY <1>1, <1>4, <1>12
    <3>3. QED
      BY <1>10, <3>1, <3>2
  <2>7. \A n \in DOMAIN g : e.merge \notin Operands(g[n])
    BY <1>11, <1>12, <2>6
  <2>8. QED
    BY <1>4, <2>1, <2>3, <2>4, <2>5, <2>7 DEF Numbered
<1>14. Ordered(f) /\ Recent(f, Live(b)) /\ JumpsToNext(f)
  <2>1. Ordered(c) /\ Recent(c, Live(b)) /\ JumpsToNext(c)
    BY DEF BuildOK
  <2>2. \A n \in DOMAIN c : i.dst \notin Operands(c[n])
    BY <1>7 DEF Operands, NoReg
  <2>3. i.dst \notin Operands(i) /\ i.dst \notin Live(b) /\ Operands(i) \subseteq Live(b)
    BY <1>2, <1>5, <1>7, <1>8, <1>12 DEF Operands, NoReg
  <2>4. Ordered(f)
    BY <1>1, <1>7, <2>1, <2>2, <2>3, OrderedGrows DEF f
  <2>5. Recent(f, Live(b))
    BY <1>1, <1>7, <2>1, <2>3, RecentGrows DEF f
  <2>6. QED
    BY <1>1, <1>7, <2>1, <2>4, <2>5, JumpsGrow DEF f
<1>15. Ordered(g) /\ Recent(g, Live(e)) /\ JumpsToNext(g)
  <2>1. \A n \in DOMAIN f : l.dst \notin Operands(f[n])
    BY <1>7 DEF Operands, NoReg
  <2>2. l.dst \notin Operands(l) /\ Operands(l) \subseteq Live(b)
    BY <1>12
  <2>3. Ordered(g)
    BY <1>7, <1>10, <1>14, <2>1, <2>2, OrderedGrows DEF g
  <2>4. Recent(f, Live(e))
    <3>1. \A d \in DOMAIN f : f[d].dst # b.regs + 1
      BY <1>1, <1>7, <1>8, <1>9, <1>10
    <3>2. QED
      BY <1>6, <1>14, <3>1 DEF Recent
  <2>5. Recent(g, Live(e))
    <3>1. l.dst \notin Live(e)
      BY <1>1, <1>6, <1>7, <1>8
    <3>2. Live(e) \subseteq Live(e) \cup {l.dst}
      OBVIOUS
    <3>3. QED
      BY <1>7, <1>10, <2>4, <3>1, <3>2, RecentGrows DEF g
  <2>6. QED
    BY <1>7, <1>10, <1>14, <2>3, <2>5, JumpsGrow DEF g
<1>16. QED
  BY <1>4, <1>11, <1>13, <1>15 DEF BuildOK, e, f, g, i, l

(* An instruction without a result, and a move to a register of its own.   *)
LEMMA ControlGrows ==
    ASSUME NEW c \in Seq(Insts), NEW i \in Insts, NEW R \in SUBSET Regs, Ordered(c), Recent(c, R),
           i.dst = 0, i.k # "ret", Operands(i) \subseteq R
    PROVE  Append(c, i) \in Seq(Insts) /\ Ordered(Append(c, i)) /\ Recent(Append(c, i), R)
<1>1. (\A n \in DOMAIN c : i.dst \notin Operands(c[n])) /\ i.dst \notin Operands(i)
  BY DEF Operands, NoReg
<1>2. i.dst \notin R /\ R \subseteq R \cup {i.dst}
  BY DEF Regs
<1>3. Append(c, i) \in Seq(Insts)
  BY Appended
<1>4. Ordered(Append(c, i))
  BY <1>1, OrderedGrows
<1>5. Recent(Append(c, i), R)
  BY <1>2, RecentGrows
<1>6. QED
  BY <1>3, <1>4, <1>5

LEMMA MoveGrows ==
    ASSUME NEW c \in Seq(Insts), NEW i \in Insts, NEW R \in SUBSET Regs, Ordered(c), Recent(c, R),
           i.dst \in R, i.k = "mov", Operands(i) \subseteq R \ {i.dst},
             \A n \in DOMAIN c : i.dst \notin Operands(c[n])
    PROVE  Append(c, i) \in Seq(Insts) /\ Ordered(Append(c, i)) /\ Recent(Append(c, i), R)
<1>1. i.dst \notin Operands(i) /\ Operands(i) \subseteq R /\ R \subseteq R \cup {i.dst}
  OBVIOUS
<1>2. Append(c, i) \in Seq(Insts)
  BY Appended
<1>3. Ordered(Append(c, i))
  BY <1>1, OrderedGrows
<1>4. Recent(Append(c, i), R)
  BY <1>1, RecentGrows
<1>5. QED
  BY <1>2, <1>3, <1>4

(* The registers of c are at most m, and none of its operands is r.        *)
Within(c, m, r) ==
    \A n \in DOMAIN c : c[n].dst <= m /\ c[n].a <= m /\ c[n].b <= m /\ r \notin Operands(c[n])

LEMMA WithinGrows ==
    ASSUME NEW c \in Seq(Insts), NEW i \in Insts, NEW m, NEW r, Within(c, m, r),
           i.dst <= m, i.a <= m, i.b <= m, r \notin Operands(i)
    PROVE  Within(Append(c, i), m, r)
  BY Appended DEF Within

LEMMA BuildFacts ==
    ASSUME NEW c, NEW b, BuildOK(c, b)
    PROVE  /\ c \in Seq(Insts) /\ b \in Builder /\ b.regs \in Nat /\ b.stack \in Seq(Entries) /\ b.labels \in Nat
           /\ Len(b.stack) \in Nat /\ MaxRegs \in Nat /\ b.regs <= MaxRegs /\ b.floor \in Nat
           /\ b.floor <= Len(b.stack)
           /\ Live(b) \subseteq Regs /\ OnStack(b) \subseteq Live(b) /\ (\A r \in Live(b) : r \in 1 .. b.regs)
           /\ b.arm \in Arms /\ b.armType \in Types
           /\ b.arm # "none" => b.merge \in Live(b) /\ b.merge \notin OnStack(b) /\ Within(c, b.regs, b.merge)
           /\ b.arm = "none" => b.floor = 0 /\ OnStack(b) = Live(b)
           /\ Within(c, b.regs, NoReg)
           /\ Ordered(c) /\ Recent(c, Live(b)) /\ JumpsToNext(c)
<1>1. /\ c \in Seq(Insts) /\ b \in Builder /\ b.regs \in Nat /\ b.stack \in Seq(Entries) /\ b.labels \in Nat
      /\ Len(b.stack) \in Nat /\ MaxRegs \in Nat /\ b.regs <= MaxRegs /\ b.floor \in Nat
      /\ b.arm \in Arms /\ b.armType \in Types
  BY OptimizerAssumption DEF BuildOK, Builder
<1>2. \A r \in Live(b) : r \in 1 .. b.regs
  BY DEF BuildOK, Numbered
<1>3. Live(b) \subseteq Regs
  BY <1>1, <1>2 DEF Regs
<1>4. OnStack(b) \subseteq Live(b) /\ (b.arm = "none" => OnStack(b) = Live(b))
        /\ (b.arm # "none" => b.merge \in Live(b))
  BY DEF Live
<1>5. Within(c, b.regs, NoReg)
  BY DEF BuildOK, Numbered, Within, Operands
<1>6. b.arm # "none" => b.merge \notin OnStack(b) /\ Within(c, b.regs, b.merge)
  BY DEF BuildOK, Numbered, Within
<1>7. QED
  BY <1>1, <1>2, <1>3, <1>4, <1>5, <1>6 DEF BuildOK, Numbered

(* The stack without its top.                                              *)
LEMMA Popped ==
    ASSUME NEW b \in Builder, Len(b.stack) > 0
    PROVE  LET s == SubSeq(b.stack, 1, Len(b.stack) - 1)
           IN  /\ s \in Seq(Entries) /\ Len(s) = Len(b.stack) - 1 /\ DOMAIN s \subseteq DOMAIN b.stack
               /\ \A j \in DOMAIN s : s[j] = b.stack[j] /\ s[j].reg \in OnStack(b)
               /\ TopReg(b) \in Regs /\ TopReg(b) \in OnStack(b) /\ b.stack[Len(b.stack)].type \in Types
               /\ Len(b.stack) \in DOMAIN b.stack
<1>0. b.stack \in Seq(Entries) /\ Len(b.stack) \in Nat
  BY DEF Builder
<1>1. PICK n \in 0 .. Len(b.stack) : n = Len(b.stack) - 1
  <2>1. Len(b.stack) - 1 \in 0 .. Len(b.stack)
    BY <1>0
  <2>2. QED
    BY <2>1, Zenon
<1>2. /\ SubSeq(b.stack, 1, n) \in Seq(Entries) /\ Len(SubSeq(b.stack, 1, n)) = n
      /\ \A j \in 1 .. n : SubSeq(b.stack, 1, n)[j] = b.stack[j] /\ j \in DOMAIN b.stack
      /\ Len(b.stack) \in Nat /\ n \in Nat
      /\ \A j \in DOMAIN b.stack : b.stack[j].reg \in Regs /\ b.stack[j].type \in Types
            /\ b.stack[j].reg \in OnStack(b)
  BY PlainTop
<1>3. PICK s \in Seq(Entries) : s = SubSeq(b.stack, 1, n)
  BY <1>2, Zenon
<1>4. DOMAIN s = 1 .. n
  BY <1>2, <1>3
<1>5. Len(b.stack) \in DOMAIN b.stack
  BY <1>2 DEF Builder
<1>6. QED
  BY <1>1, <1>2, <1>3, <1>4, <1>5 DEF TopReg

LEMMA TurnOK ==
    ASSUME NEW c, NEW b, BuildOK(c, b), Len(b.stack) = b.floor + 1, b.arm = "then"
    PROVE  BuildOK(Append(Append(Append(c, Mov(b.merge, TopReg(b))), Jmp(b.labels + 3)), Label(b.labels + 2)),
                   Turned(b))
<1> DEFINE e == Turned(b)
           i == Mov(b.merge, TopReg(b))
           j == Jmp(b.labels + 3)
           l == Label(b.labels + 2)
           f == Append(c, i)
           g == Append(f, j)
           h == Append(g, l)
           s == SubSeq(b.stack, 1, Len(b.stack) - 1)
           R == Live(b)
<1>1. /\ c \in Seq(Insts) /\ b \in Builder /\ b.regs \in Nat /\ b.stack \in Seq(Entries) /\ b.labels \in Nat
      /\ Len(b.stack) \in Nat /\ Len(b.stack) > 0 /\ Len(b.stack) = b.floor + 1 /\ b.floor \in Nat
      /\ R \in SUBSET Regs /\ (\A r \in R : r \in 1 .. b.regs) /\ OnStack(b) \subseteq R
      /\ b.merge \in R /\ b.merge \notin OnStack(b) /\ Within(c, b.regs, b.merge)
      /\ Ordered(c) /\ Recent(c, R) /\ JumpsToNext(c)
  BY BuildFacts
<1>2. /\ s \in Seq(Entries) /\ Len(s) = Len(b.stack) - 1
      /\ \A x \in DOMAIN s : s[x] = b.stack[x] /\ s[x].reg \in OnStack(b)
      /\ TopReg(b) \in Regs /\ TopReg(b) \in OnStack(b) /\ b.stack[Len(b.stack)].type \in Types
  BY <1>1, Popped
<1>3. /\ e \in Builder /\ e.regs = b.regs /\ e.arm = "else" /\ e.merge = b.merge
      /\ e.floor = b.floor /\ e.stack = s /\ e.labels = b.labels
  BY <1>1, <1>2 DEF Builder, Turned, Arms
<1>4. /\ i \in Insts /\ i.k = "mov" /\ i.dst = b.merge /\ i.a = TopReg(b) /\ i.b = 0
      /\ j \in Insts /\ j.k = "jmp" /\ j.dst = 0 /\ j.a = 0 /\ j.b = 0
      /\ l \in Insts /\ l.k = "label" /\ l.dst = 0 /\ l.a = 0 /\ l.b = 0
  <2>0. b.merge \in Regs
    BY <1>1
  <2>1. TopReg(b) \in 0 .. MaxRegs /\ b.merge \in Regs /\ b.labels + 3 \in Nat \ {0} /\ b.labels + 2 \in Nat
    <3>1. TopReg(b) \in 0 .. MaxRegs
      BY <1>2 DEF Regs
    <3>2. PICK m \in Nat : m = b.labels
      BY <1>1
    <3>4. b.labels + 3 \in Nat \ {0} /\ b.labels + 2 \in Nat
      BY <3>2
    <3>3. QED
      BY <2>0, <3>1, <3>4
  <2>2. QED
    BY <2>1, MovIs, JmpIs, LabelIs
<1>5. OnStack(e) \subseteq OnStack(b) /\ Live(e) \subseteq R
  <2>1. OnStack(e) \subseteq OnStack(b)
    BY <1>2, <1>3 DEF OnStack
  <2>2. QED
    BY <1>3, <2>1 DEF Live
<1> HIDE DEF e, i, j, l, s, R
<1>6. Operands(i) = {TopReg(b)} /\ Operands(j) = {} /\ Operands(l) = {} /\ TopReg(b) # b.merge /\ TopReg(b) \in R
  BY <1>1, <1>2, <1>4 DEF Operands, NoReg, Regs
<1>7. f \in Seq(Insts) /\ Ordered(f) /\ Recent(f, R) /\ JumpsToNext(f) /\ Within(f, b.regs, b.merge)
  <2>1. /\ Operands(i) \subseteq R \ {i.dst} /\ i.dst \in R /\ \A n \in DOMAIN c : i.dst \notin Operands(c[n])
    BY <1>1, <1>4, <1>6 DEF Within
  <2>2. i.dst <= b.regs /\ i.a <= b.regs /\ i.b <= b.regs /\ b.merge \notin Operands(i)
    BY <1>1, <1>4, <1>6
  <2>3. f \in Seq(Insts) /\ Ordered(f) /\ Recent(f, R)
    BY <1>1, <1>4, <2>1, MoveGrows
  <2>4. QED
    BY <1>1, <1>4, <2>2, <2>3, JumpsGrow, WithinGrows
<1>8. g \in Seq(Insts) /\ Ordered(g) /\ Recent(g, R) /\ Within(g, b.regs, b.merge)
  <2>1. Operands(j) \subseteq R /\ b.merge \notin Operands(j) /\ j.dst <= b.regs /\ j.a <= b.regs /\ j.b <= b.regs
    BY <1>1, <1>4, <1>6
  <2> HIDE DEF f
  <2>2. g \in Seq(Insts) /\ Ordered(g) /\ Recent(g, R)
    BY <1>1, <1>4, <1>7, <2>1, ControlGrows
  <2>3. QED
    BY <1>4, <1>7, <2>1, <2>2, WithinGrows
<1>9. h \in Seq(Insts) /\ Ordered(h) /\ Recent(h, R) /\ Within(h, b.regs, b.merge) /\ JumpsToNext(h)
  <2>1. Operands(l) \subseteq R /\ b.merge \notin Operands(l) /\ l.dst <= b.regs /\ l.a <= b.regs /\ l.b <= b.regs
    BY <1>1, <1>4, <1>6
  <2>2. JumpsToNext(h)
    BY <1>4, <1>7, JumpsGrowByTwo
  <2> HIDE DEF f, g
  <2>3. h \in Seq(Insts) /\ Ordered(h) /\ Recent(h, R)
    BY <1>1, <1>4, <1>8, <2>1, ControlGrows
  <2>4. QED
    BY <1>4, <1>8, <2>1, <2>2, <2>3, WithinGrows
<1> HIDE DEF f, g, h
<1>10. Numbered(h, e)
  <2>1. \A r \in Live(e) : r \in 1 .. e.regs
    BY <1>1, <1>3, <1>5
  <2>2. e.floor <= Len(e.stack)
    BY <1>1, <1>2, <1>3
  <2>3. e.merge \notin OnStack(e)
    BY <1>1, <1>3, <1>5
  <2>4. QED
    BY <1>3, <1>9, <2>1, <2>2, <2>3 DEF Numbered, Within
<1>11. Recent(h, Live(e))
  BY <1>5, <1>9 DEF Recent
<1>12. QED
  BY <1>3, <1>9, <1>10, <1>11 DEF BuildOK, e, f, g, h, i, j, l

LEMMA JoinOK ==
    ASSUME NEW c, NEW b, BuildOK(c, b), Len(b.stack) = b.floor + 1, b.arm = "else"
    PROVE  BuildOK(Append(Append(c, Mov(b.merge, TopReg(b))), Label(b.labels + 3)), Closed(b))
<1> DEFINE e == Closed(b)
           i == Mov(b.merge, TopReg(b))
           l == Label(b.labels + 3)
           f == Append(c, i)
           h == Append(f, l)
           s == SubSeq(b.stack, 1, Len(b.stack) - 1)
           x == Entry(b.merge, b.armType)
           t == Append(s, x)
           R == Live(b)
<1>1. /\ c \in Seq(Insts) /\ b \in Builder /\ b.regs \in Nat /\ b.stack \in Seq(Entries) /\ b.labels \in Nat
      /\ Len(b.stack) \in Nat /\ Len(b.stack) > 0 /\ Len(b.stack) = b.floor + 1 /\ b.floor \in Nat
      /\ R \in SUBSET Regs /\ (\A r \in R : r \in 1 .. b.regs) /\ OnStack(b) \subseteq R
      /\ b.merge \in R /\ b.merge \notin OnStack(b) /\ Within(c, b.regs, b.merge) /\ b.armType \in Types
      /\ Ordered(c) /\ Recent(c, R) /\ JumpsToNext(c)
  BY BuildFacts
<1>2. /\ s \in Seq(Entries) /\ Len(s) = Len(b.stack) - 1
      /\ \A y \in DOMAIN s : s[y] = b.stack[y] /\ s[y].reg \in OnStack(b)
      /\ TopReg(b) \in Regs /\ TopReg(b) \in OnStack(b)
  BY <1>1, Popped
<1>3. x \in Entries /\ x.reg = b.merge
  BY <1>1 DEF Entry, Entries
<1>4. /\ t \in Seq(Entries) /\ Len(t) = Len(s) + 1 /\ Len(t) \in Nat
      /\ \A y \in DOMAIN t : t[y].reg \in OnStack(b) \cup {b.merge}
  BY <1>2, <1>3, Appended
<1>5. /\ e \in Builder /\ e.regs = b.regs /\ e.arm = "none" /\ e.floor = 0 /\ e.stack = t
  <2>1. "none" \in Arms /\ 0 \in Nat /\ b.labels + 3 \in Nat
    BY <1>1 DEF Arms
  <2> HIDE DEF t
  <2>2. [b EXCEPT !.stack = t, !.labels = b.labels + 3, !.arm = "none", !.floor = 0] \in Builder
    BY <1>1, <1>4, <2>1 DEF Builder
  <2>3. QED
    BY <1>1, <2>2 DEF Builder, Closed, t
<1>6. /\ i \in Insts /\ i.k = "mov" /\ i.dst = b.merge /\ i.a = TopReg(b) /\ i.b = 0
      /\ l \in Insts /\ l.k = "label" /\ l.dst = 0 /\ l.a = 0 /\ l.b = 0
  <2>1. TopReg(b) \in 0 .. MaxRegs
    BY <1>2 DEF Regs
  <2>2. b.merge \in Regs /\ b.labels + 3 \in Nat
    BY <1>1
  <2>3. i \in Insts /\ i.k = "mov" /\ i.dst = b.merge /\ i.a = TopReg(b) /\ i.b = 0
    BY <2>1, <2>2, MovIs
  <2>4. l \in Insts /\ l.k = "label" /\ l.dst = 0 /\ l.a = 0 /\ l.b = 0
    BY <2>2, LabelIs
  <2>5. QED
    BY <2>3, <2>4
<1>7. OnStack(e) \subseteq OnStack(b) \cup {b.merge} /\ Live(e) = OnStack(e) /\ Live(e) \subseteq R
  <2> HIDE DEF t
  <2>1. OnStack(e) \subseteq OnStack(b) \cup {b.merge}
    BY <1>4, <1>5 DEF OnStack
  <2>2. QED
    BY <1>1, <1>5, <2>1 DEF Live
<1> HIDE DEF e, i, l, s, t, x, R
<1>8. Operands(i) = {TopReg(b)} /\ Operands(l) = {} /\ TopReg(b) # b.merge /\ TopReg(b) \in R
  BY <1>1, <1>2, <1>6 DEF Operands, NoReg, Regs
<1>9. f \in Seq(Insts) /\ Ordered(f) /\ Recent(f, R) /\ JumpsToNext(f) /\ Within(f, b.regs, b.merge)
  <2>1. /\ Operands(i) \subseteq R \ {i.dst} /\ i.dst \in R /\ \A n \in DOMAIN c : i.dst \notin Operands(c[n])
    BY <1>1, <1>6, <1>8 DEF Within
  <2>2. i.dst <= b.regs /\ i.a <= b.regs /\ i.b <= b.regs /\ b.merge \notin Operands(i)
    BY <1>1, <1>6, <1>8
  <2>3. f \in Seq(Insts) /\ Ordered(f) /\ Recent(f, R)
    BY <1>1, <1>6, <2>1, MoveGrows
  <2>4. QED
    BY <1>1, <1>6, <2>2, <2>3, JumpsGrow, WithinGrows
<1>10. h \in Seq(Insts) /\ Ordered(h) /\ Recent(h, R) /\ Within(h, b.regs, b.merge) /\ JumpsToNext(h)
  <2>1. Operands(l) \subseteq R /\ b.merge \notin Operands(l) /\ l.dst <= b.regs /\ l.a <= b.regs /\ l.b <= b.regs
    BY <1>1, <1>6, <1>8
  <2> HIDE DEF f
  <2>2. h \in Seq(Insts) /\ Ordered(h) /\ Recent(h, R)
    BY <1>1, <1>6, <1>9, <2>1, ControlGrows
  <2>3. QED
    BY <1>6, <1>9, <2>1, <2>2, WithinGrows, JumpsGrow
<1> HIDE DEF f, h
<1>11. Numbered(h, e)
  <2>1. \A r \in Live(e) : r \in 1 .. e.regs
    BY <1>1, <1>5, <1>7
  <2>2. e.floor <= Len(e.stack)
    BY <1>4, <1>5
  <2>3. QED
    BY <1>5, <1>10, <2>1, <2>2 DEF Numbered, Within
<1>12. Recent(h, Live(e))
  BY <1>7, <1>10 DEF Recent
<1>13. QED
  BY <1>5, <1>10, <1>11, <1>12 DEF BuildOK, e, f, h, i, l

(* The end of a statement, and of the function.                            *)
Ended(b) == [b EXCEPT !.stack = <<>>, !.statements = b.statements + 1]

LEMMA EndOK ==
    ASSUME NEW c, NEW b, BuildOK(c, b), b.arm = "none", NEW i \in Insts, i.k \in {"store", "ret"},
           Operands(i) \subseteq OnStack(b)
    PROVE  /\ BuildOK(Append(c, i), Ended(b))
           /\ Append(c, i) \in Seq(Insts) /\ Ordered(Append(c, i)) /\ JumpsToNext(Append(c, i))
<1> DEFINE e == Ended(b)
           f == Append(c, i)
<1>1. /\ c \in Seq(Insts) /\ b \in Builder /\ b.regs \in Nat /\ b.floor = 0
      /\ Live(b) \subseteq Regs /\ (\A r \in Live(b) : r \in 1 .. b.regs) /\ OnStack(b) = Live(b)
      /\ Within(c, b.regs, NoReg) /\ Ordered(c) /\ Recent(c, Live(b)) /\ JumpsToNext(c)
  BY BuildFacts
<1>2. b.statements + 1 \in Nat /\ <<>> \in Seq(Entries)
  BY <1>1 DEF Builder
<1>3. e \in Builder /\ e.regs = b.regs /\ e.arm = "none" /\ e.floor = 0 /\ e.stack = <<>>
  BY <1>1, <1>2 DEF Builder, Ended
<1>4. Live(e) = {} /\ OnStack(e) = {}
  BY <1>3 DEF Live, OnStack
<1>5. i.dst = 0 /\ i.a \in Nat /\ i.b \in Nat /\ NoReg \notin Operands(i)
  BY InstFields DEF Formed, Defining, NoReg, Operands
<1>6. i.dst <= b.regs /\ i.a <= b.regs /\ i.b <= b.regs
  BY <1>1, <1>5 DEF Operands, NoReg
<1> HIDE DEF e
<1>7. Ordered(f)
  <2>1. \A n \in DOMAIN c : i.dst \notin Operands(c[n])
    BY <1>5 DEF Operands, NoReg
  <2>2. i.dst \notin Operands(i) /\ Operands(i) \subseteq Live(b)
    BY <1>1, <1>5 DEF NoReg
  <2>3. QED
    BY <1>1, <2>1, <2>2, OrderedGrows
<1>8. f \in Seq(Insts) /\ JumpsToNext(f) /\ Within(f, b.regs, NoReg)
  BY <1>1, <1>5, <1>6, Appended, JumpsGrow, WithinGrows
<1> HIDE DEF f
<1>9. Numbered(f, e)
  BY <1>1, <1>3, <1>4, <1>8 DEF Numbered, Within
<1>10. Recent(f, Live(e))
  BY <1>4 DEF Recent
<1>11. QED
  BY <1>3, <1>7, <1>8, <1>9, <1>10 DEF BuildOK, e, f

(* What BuildOK says of a builder is said of these fields.                 *)
LEMMA SameBuilder ==
    ASSUME NEW c, NEW b, NEW e \in Builder, BuildOK(c, b), e.stack = b.stack, e.regs = b.regs, e.arm = b.arm,
           e.merge = b.merge, e.floor = b.floor
    PROVE  BuildOK(c, e)
<1>1. OnStack(e) = OnStack(b) /\ Live(e) = Live(b)
  BY DEF OnStack, Live
<1>2. Numbered(c, e)
  BY <1>1 DEF BuildOK, Numbered
<1>3. QED
  BY <1>1, <1>2 DEF BuildOK

(* A builder with another stack and more registers.                        *)
Grown(b, s, n) == [b EXCEPT !.stack = s, !.regs = n]

LEMMA PushOK ==
    ASSUME NEW c, NEW b, BuildOK(c, b), NEW i \in Insts, NEW t \in Types, NEW s \in Seq(Entries),
           i.k \in {"const", "load", "cast", "unop", "binop", "carry"},
           b.regs + 1 <= MaxRegs, i.dst = b.regs + 1, Operands(i) \subseteq Readable(b),
           b.floor <= Len(s), \A j \in DOMAIN s : s[j].reg \in OnStack(b)
    PROVE  BuildOK(c \o <<i>>, Grown(b, Append(s, Entry(b.regs + 1, t)), b.regs + 1))
<1>1. c \in Seq(Insts) /\ b \in Builder /\ b.regs \in Nat /\ MaxRegs \in Nat /\ b.floor \in Nat
  BY BuildFacts
<1> DEFINE x == Entry(b.regs + 1, t)
           z == Append(s, x)
           e == Pushed(b, t)
           g == [e EXCEPT !.stack = z]
           h == Grown(b, z, b.regs + 1)
<1>2. BuildOK(Append(c, i), e)
  BY EmitOK
<1>3. x \in Entries /\ x.reg = b.regs + 1
  BY <1>1 DEF Entry, Entries, Regs
<1>4. /\ z \in Seq(Entries) /\ Len(z) = Len(s) + 1 /\ DOMAIN z = DOMAIN s \cup {Len(s) + 1}
      /\ (\A j \in DOMAIN s : z[j] = s[j]) /\ z[Len(s) + 1] = x /\ Len(s) \in Nat
  BY <1>3, Appended
<1>5. /\ e \in Builder /\ e.regs = b.regs + 1 /\ e.arm = b.arm /\ e.merge = b.merge /\ e.floor = b.floor
      /\ OnStack(e) = OnStack(b) \cup {b.regs + 1}
  BY <1>1, PushedIs
<1>6. b.regs + 1 \in 0 .. MaxRegs
  BY <1>1
<1> HIDE DEF e, z, x
<1>7. BuildOK(Append(c, i), g)
  <2>1. \A j \in DOMAIN z : z[j].reg \in OnStack(e)
    BY <1>3, <1>4, <1>5
  <2>2. e.floor <= Len(z)
    BY <1>1, <1>4, <1>5
  <2>3. QED
    BY <1>2, <1>4, <2>1, <2>2, DropOK
<1>8. /\ h \in Builder /\ h.stack = z /\ h.regs = b.regs + 1 /\ h.arm = b.arm /\ h.merge = b.merge
      /\ h.floor = b.floor
  BY <1>1, <1>4, <1>6 DEF Grown, Builder
<1>9. /\ g.stack = z /\ g.regs = b.regs + 1 /\ g.arm = b.arm /\ g.merge = b.merge /\ g.floor = b.floor
  BY <1>5 DEF Builder
<1> HIDE DEF h, g
<1>10. BuildOK(Append(c, i), h)
  BY <1>7, <1>8, <1>9, SameBuilder
<1>11. c \o <<i>> = Append(c, i)
  BY <1>1, AppendSome
<1>12. QED
  BY <1>10, <1>11 DEF h, z, x

LEMMA PushedReads ==
    ASSUME NEW b \in Builder, NEW t \in Types, b.regs + 1 <= MaxRegs, b.floor <= Len(b.stack)
    PROVE  LET e == Pushed(b, t)
           IN  /\ e \in Builder /\ e.regs = b.regs + 1 /\ e.arm = b.arm /\ e.merge = b.merge /\ e.floor = b.floor
               /\ OnStack(e) = OnStack(b) \cup {b.regs + 1} /\ e.floor <= Len(e.stack)
               /\ \A r \in Readable(b) \cup {b.regs + 1} : r \in Readable(e)
<1> DEFINE e == Pushed(b, t)
<1>1. /\ e \in Builder /\ e.regs = b.regs + 1 /\ e.arm = b.arm /\ e.merge = b.merge /\ e.floor = b.floor
      /\ OnStack(e) = OnStack(b) \cup {b.regs + 1} /\ Len(e.stack) = Len(b.stack) + 1
      /\ (\A k \in DOMAIN b.stack : e.stack[k] = b.stack[k])
      /\ e.stack[Len(b.stack) + 1] = Entry(b.regs + 1, t)
  BY PushedIs
<1>2. b.stack \in Seq(Entries) /\ Len(b.stack) \in Nat /\ b.floor \in Nat
  BY DEF Builder
<1> HIDE DEF e
<1>3. PICK n \in Nat : n = Len(b.stack)
  BY <1>2
<1>4. DOMAIN b.stack = 1 .. n /\ Len(e.stack) = n + 1 /\ e.floor = b.floor
  BY <1>1, <1>2, <1>3
<1>5. ASSUME NEW r \in Readable(b) PROVE r \in Readable(e)
  <2>1. PICK k \in b.floor + 1 .. n : r = b.stack[k].reg
    BY <1>3 DEF Readable
  <2>2. k \in 1 .. n /\ k \in b.floor + 1 .. n + 1
    BY <1>2
  <2>3. e.stack[k] = b.stack[k]
    BY <1>1, <1>4, <2>2
  <2>4. QED
    BY <1>4, <2>1, <2>2, <2>3 DEF Readable
<1>6. b.regs + 1 \in Readable(e)
  <2>1. n + 1 \in b.floor + 1 .. n + 1
    BY <1>2, <1>3
  <2>2. e.stack[n + 1].reg = b.regs + 1
    BY <1>1, <1>3 DEF Entry
  <2>3. QED
    BY <1>4, <2>1, <2>2 DEF Readable
<1>7. e.floor <= Len(e.stack)
  BY <1>2, <1>3, <1>4
<1>8. QED
  BY <1>1, <1>5, <1>6, <1>7 DEF e

(* The instructions that the lowering of 32 bits emits.                    *)
LEMMA WideSumOK ==
    ASSUME NEW c, NEW b, BuildOK(c, b), NEW i \in Insts, NEW j \in Insts, NEW l \in Insts, NEW high \in BOOLEAN,
           NEW s \in Seq(Entries),
           i.k = "const" /\ j.k = "carry" /\ l.k = "carry",
           b.regs + 3 <= MaxRegs, i.dst = b.regs + 1, j.dst = b.regs + 2, l.dst = b.regs + 3,
           Operands(i) = {}, Operands(j) \subseteq Readable(b), Operands(l) \subseteq {b.regs + 1},
           b.floor <= Len(s), \A y \in DOMAIN s : s[y].reg \in OnStack(b)
    PROVE  BuildOK(c \o <<i, j, l>>,
                   Grown(b, Append(s, Entry(IF high THEN b.regs + 3 ELSE b.regs + 2, U16)), b.regs + 3))
<1> DEFINE e == Pushed(b, U16)
           f == Pushed(e, U16)
           g == Pushed(f, U16)
           v == IF high THEN b.regs + 3 ELSE b.regs + 2
           x == Entry(v, U16)
           z == Append(s, x)
           h == Grown(b, z, b.regs + 3)
           ci == Append(c, i)
           cj == Append(ci, j)
           cl == Append(cj, l)
<1>1. /\ c \in Seq(Insts) /\ b \in Builder /\ b.regs \in Nat /\ MaxRegs \in Nat /\ U16 \in Types
      /\ b.floor \in Nat /\ b.floor <= Len(b.stack) /\ Len(b.stack) \in Nat /\ b.stack \in Seq(Entries)
  BY BuildFacts, SomeTypes
<1>2. BuildOK(ci, e)
  BY <1>1, EmitOK
<1>3. /\ e \in Builder /\ e.regs = b.regs + 1 /\ e.arm = b.arm /\ e.merge = b.merge /\ e.floor = b.floor
      /\ OnStack(e) = OnStack(b) \cup {b.regs + 1} /\ e.floor <= Len(e.stack)
      /\ \A r \in Readable(b) \cup {b.regs + 1} : r \in Readable(e)
  <2>1. b.regs + 1 <= MaxRegs
    BY <1>1
  <2>2. QED
    BY <1>1, <2>1, PushedReads
<1> HIDE DEF e, ci
<1>5. BuildOK(cj, f)
  <2>1. e.regs + 1 <= MaxRegs /\ j.dst = e.regs + 1 /\ Operands(j) \subseteq Readable(e)
    BY <1>1, <1>3, SMTT(30)
  <2>2. QED
    BY <1>1, <1>2, <2>1, EmitOK
<1>6. /\ f \in Builder /\ f.regs = b.regs + 2 /\ f.arm = b.arm /\ f.merge = b.merge /\ f.floor = b.floor
      /\ OnStack(f) = OnStack(e) \cup {b.regs + 2} /\ f.floor <= Len(f.stack)
      /\ b.regs + 1 \in Readable(f)
  <2>1. e.regs + 1 <= MaxRegs /\ e.regs + 1 = b.regs + 2
    BY <1>1, <1>3
  <2>2. /\ f \in Builder /\ f.regs = e.regs + 1 /\ f.arm = e.arm /\ f.merge = e.merge /\ f.floor = e.floor
        /\ OnStack(f) = OnStack(e) \cup {e.regs + 1} /\ f.floor <= Len(f.stack)
        /\ \A r \in Readable(e) \cup {e.regs + 1} : r \in Readable(f)
    BY <1>1, <1>3, <2>1, PushedReads
  <2> HIDE DEF f
  <2>3. QED
    BY <1>3, <2>1, <2>2
<1> HIDE DEF f, cj
<1>8. BuildOK(cl, g)
  <2>1. f.regs + 1 <= MaxRegs /\ l.dst = f.regs + 1 /\ Operands(l) \subseteq Readable(f)
    BY <1>1, <1>6
  <2>2. QED
    BY <1>1, <1>5, <2>1, EmitOK
<1>9. /\ g \in Builder /\ g.regs = b.regs + 3 /\ g.arm = b.arm /\ g.merge = b.merge /\ g.floor = b.floor
      /\ OnStack(g) = OnStack(f) \cup {b.regs + 3}
  <2>1. f.regs + 1 <= MaxRegs /\ f.regs + 1 = b.regs + 3
    BY <1>1, <1>6
  <2>2. /\ g \in Builder /\ g.regs = f.regs + 1 /\ g.arm = f.arm /\ g.merge = f.merge /\ g.floor = f.floor
        /\ OnStack(g) = OnStack(f) \cup {f.regs + 1}
    BY <1>1, <1>6, <2>1, PushedReads
  <2> HIDE DEF g
  <2>3. QED
    BY <1>6, <2>1, <2>2
<1> HIDE DEF g, cl
<1>10. x \in Entries /\ x.reg = v /\ v \in OnStack(g)
  <2>1. v \in Regs
    BY <1>1, SMTT(30) DEF Regs
  <2>2. v \in OnStack(g)
    BY <1>6, <1>9
  <2>3. QED
    BY <1>1, <2>1, <2>2 DEF Entry, Entries
<1> HIDE DEF x, v
<1>11. /\ z \in Seq(Entries) /\ Len(z) = Len(s) + 1 /\ DOMAIN z = DOMAIN s \cup {Len(s) + 1}
       /\ (\A k \in DOMAIN s : z[k] = s[k]) /\ z[Len(s) + 1] = x /\ Len(s) \in Nat
  BY <1>10, Appended
<1> HIDE DEF z
<1>12. BuildOK(cl, [g EXCEPT !.stack = z])
  <2>1. \A k \in DOMAIN z : z[k].reg \in OnStack(g)
    BY <1>3, <1>6, <1>9, <1>10, <1>11
  <2>2. g.floor <= Len(z)
    BY <1>1, <1>9, <1>11
  <2>3. QED
    BY <1>8, <1>11, <2>1, <2>2, DropOK
<1>13. /\ h \in Builder /\ h.stack = z /\ h.regs = b.regs + 3 /\ h.arm = b.arm /\ h.merge = b.merge
       /\ h.floor = b.floor
  <2>1. PICK n \in 0 .. MaxRegs : n = b.regs + 3
    BY <1>1
  <2>2. h = Grown(b, z, n)
    BY <2>1
  <2>0. z \in Seq(Entries) /\ b \in Builder
    BY <1>1, <1>11
  <2> HIDE DEF h
  <2>3. h \in Builder /\ h.stack = z /\ h.regs = n /\ h.arm = b.arm /\ h.merge = b.merge /\ h.floor = b.floor
    BY <2>0, <2>2 DEF Grown, Builder
  <2>4. QED
    BY <2>1, <2>3
<1> DEFINE k == [g EXCEPT !.stack = z]
<1>14. /\ k.stack = z /\ k.regs = b.regs + 3 /\ k.arm = b.arm /\ k.merge = b.merge /\ k.floor = b.floor
  BY <1>9 DEF Builder
<1> HIDE DEF h, k
<1>15. BuildOK(cl, h)
  BY <1>12, <1>13, <1>14, SameBuilder DEF k
<1>16. c \o <<i, j, l>> = cl
  BY <1>1, AppendSome, SMTT(30) DEF cl, cj, ci
<1>17. QED
  BY <1>15, <1>16 DEF h, z, x, v

(* The code of a whole function.                                           *)
Whole(c) == c \in Seq(Insts) /\ Ordered(c) /\ JumpsToNext(c)

Builds == phase = "build" /\ BuildOK(code, build)

(* What is above the floor may be read.                                    *)
LEMMA TopReads ==
    ASSUME Builds
    PROVE  /\ Depth > build.floor =>
                 /\ Top.reg \in Readable(build) /\ Top.reg \in 0 .. MaxRegs /\ Top.reg # 0 /\ Top.type \in Types
                 /\ Under1 \in Seq(Entries) /\ build.floor <= Len(Under1)
                 /\ \A j \in DOMAIN Under1 : Under1[j].reg \in OnStack(build)
           /\ Depth > build.floor + 1 =>
                 /\ Under.reg \in Readable(build) /\ Under.reg \in 0 .. MaxRegs /\ Under.reg # 0
                 /\ Under.type \in Types
                 /\ Under2 \in Seq(Entries) /\ build.floor <= Len(Under2)
                 /\ \A j \in DOMAIN Under2 : Under2[j].reg \in OnStack(build)
<1>1. /\ build \in Builder /\ build.floor \in Nat /\ build.stack \in Seq(Entries)
  BY BuildFacts DEF Builds
<1>2. PICK d \in Nat : d = Depth
  BY <1>1 DEF Depth
<1>3. \A j \in DOMAIN build.stack : build.stack[j].reg \in Regs /\ build.stack[j].type \in Types
  <2>1. 0 \in 0 .. Len(build.stack)
    BY <1>1
  <2>2. QED
    BY <1>1, <2>1, PlainTop
<1>4. \A r \in Regs : r \in 0 .. MaxRegs /\ r # 0
  BY DEF Regs
<1>5. \A n \in 0 .. d : /\ SubSeq(build.stack, 1, n) \in Seq(Entries) /\ Len(SubSeq(build.stack, 1, n)) = n
                        /\ \A j \in DOMAIN SubSeq(build.stack, 1, n) : SubSeq(build.stack, 1, n)[j].reg \in OnStack(build)
  <2>1. TAKE n \in 0 .. d
  <2>2. /\ SubSeq(build.stack, 1, n) \in Seq(Entries) /\ Len(SubSeq(build.stack, 1, n)) = n
        /\ \A j \in 1 .. n : SubSeq(build.stack, 1, n)[j] = build.stack[j] /\ j \in DOMAIN build.stack
        /\ \A j \in DOMAIN build.stack : build.stack[j].reg \in OnStack(build)
    BY <1>1, <1>2, PlainTop DEF Depth
  <2>3. PICK s \in Seq(Entries) : s = SubSeq(build.stack, 1, n)
    BY <2>2, Zenon
  <2>4. DOMAIN s = 1 .. n
    BY <2>2, <2>3
  <2>5. QED
    BY <2>2, <2>3, <2>4
<1>6. ASSUME Depth > build.floor
      PROVE  /\ Top.reg \in Readable(build) /\ Top.reg \in 0 .. MaxRegs /\ Top.reg # 0 /\ Top.type \in Types
             /\ Under1 \in Seq(Entries) /\ build.floor <= Len(Under1)
             /\ \A j \in DOMAIN Under1 : Under1[j].reg \in OnStack(build)
  <2>1. d \in build.floor + 1 .. d /\ d \in 1 .. d /\ d - 1 \in 0 .. d /\ build.floor <= d - 1
    BY <1>1, <1>2, <1>6
  <2>2. d \in DOMAIN build.stack
    BY <1>1, <1>2, <2>1 DEF Depth
  <2>3. Top.reg \in Readable(build) /\ Top.reg \in 0 .. MaxRegs /\ Top.reg # 0 /\ Top.type \in Types
    BY <1>2, <1>3, <1>4, <2>1, <2>2 DEF Readable, Top, Depth
  <2>4. QED
    BY <1>2, <1>5, <2>1, <2>3 DEF Under1
<1>7. ASSUME Depth > build.floor + 1
      PROVE  /\ Under.reg \in Readable(build) /\ Under.reg \in 0 .. MaxRegs /\ Under.reg # 0 /\ Under.type \in Types
             /\ Under2 \in Seq(Entries) /\ build.floor <= Len(Under2)
             /\ \A j \in DOMAIN Under2 : Under2[j].reg \in OnStack(build)
  <2>1. /\ d - 1 \in build.floor + 1 .. d /\ d - 1 \in 1 .. d /\ d - 2 \in 0 .. d /\ build.floor <= d - 2
    BY <1>1, <1>2, <1>7
  <2>2. d - 1 \in DOMAIN build.stack
    BY <1>1, <1>2, <2>1 DEF Depth
  <2>3. Under.reg \in Readable(build) /\ Under.reg \in 0 .. MaxRegs /\ Under.reg # 0 /\ Under.type \in Types
    BY <1>2, <1>3, <1>4, <2>1, <2>2 DEF Readable, Under, Depth
  <2>4. QED
    BY <1>2, <1>5, <2>1, <2>3 DEF Under2
<1>8. QED
  BY <1>6, <1>7

(* One value read and pushed.                                              *)
LEMMA PushStep ==
    ASSUME Builds, NEW i \in Insts, NEW s \in Seq(Entries), NEW t \in Types,
           i.k \in {"const", "load", "cast", "unop", "binop", "carry"},
           i.dst = Fresh, Operands(i) \subseteq Readable(build),
           build.floor <= Len(s), \A j \in DOMAIN s : s[j].reg \in OnStack(build), Push(i, s, t)
    PROVE  Builds'
<1>1. /\ build.regs + 1 <= MaxRegs /\ code' = code \o <<i>> /\ phase' = "build"
      /\ build' = Grown(build, Append(s, Entry(build.regs + 1, t)), build.regs + 1)
  BY DEF Push, Emit, Fresh, Grown, Building, Builds
<1>2. BuildOK(code \o <<i>>, Grown(build, Append(s, Entry(build.regs + 1, t)), build.regs + 1))
  BY <1>1, PushOK DEF Builds, Fresh
<1>3. QED
  BY <1>1, <1>2 DEF Builds

LEMMA StackReads ==
    ASSUME Builds
    PROVE  /\ build \in Builder /\ build.stack \in Seq(Entries) /\ build.floor <= Len(build.stack)
           /\ \A j \in DOMAIN build.stack : build.stack[j].reg \in OnStack(build)
           /\ build.regs + 1 <= MaxRegs => Fresh \in Regs
           /\ build.words \in Vocabulary
  BY BuildFacts DEF Builds, OnStack, Builder, Fresh, Regs

LEMMA TypesAre ==
    /\ \A t \in Types : t.signed \in BOOLEAN /\ t.size \in {1, 2}
    /\ \A t \in Types : t = Type(t.size, t.signed)
<1>1. /\ U8.signed = FALSE /\ U16.signed = FALSE /\ I8.signed = TRUE /\ I16.signed = TRUE
      /\ U8.size = 1 /\ U16.size = 2 /\ I8.size = 1 /\ I16.size = 2
  BY DEF U8, U16, I8, I16, Type
<1>2. ASSUME NEW t \in Types PROVE t.signed \in BOOLEAN /\ t.size \in {1, 2} /\ t = Type(t.size, t.signed)
  <2>1. CASE t = U8
    BY <1>1, <2>1 DEF U8
  <2>2. CASE t = I8
    BY <1>1, <2>2 DEF I8
  <2>3. CASE t = U16
    BY <1>1, <2>3 DEF U16
  <2>4. CASE t = I16
    BY <1>1, <2>4 DEF I16
  <2>5. QED
    BY <1>2, <2>1, <2>2, <2>3, <2>4 DEF Types
<1>3. QED
  BY <1>2

LEMMA VocabularyIs ==
    ASSUME NEW v \in Vocabulary
    PROVE  /\ \A n \in v.literals : n \in Int
           /\ v.variables \subseteq Variable /\ v.casts \subseteq Types
<1>1. WordMod \in Int
  BY AluAssumption DEF WordMod
<1>2. v.literals \subseteq Words /\ v.variables \subseteq Variable /\ v.casts \subseteq Types
  BY DEF Vocabulary
<1>3. QED
  BY <1>1, <1>2 DEF Words

LEMMA LiteralStep == ASSUME Builds, NEW n \in build.words.literals, Literal(n) PROVE Builds'
<1>1. Fresh \in Regs /\ n \in Int /\ U16 \in Types
  BY StackReads, VocabularyIs, SomeTypes DEF Literal, Push, Emit, Fresh
<1>2. PICK i \in Insts : i = Const(Fresh, n) /\ i.k = "const" /\ i.dst = Fresh /\ i.a = 0 /\ i.b = 0
  <2>1. Const(Fresh, n) \in Insts /\ Const(Fresh, n).k = "const" /\ Const(Fresh, n).dst = Fresh
          /\ Const(Fresh, n).a = 0 /\ Const(Fresh, n).b = 0
    BY <1>1, ConstIs
  <2>2. QED
    BY <2>1
<1>3. Operands(i) = {}
  BY <1>2 DEF Operands, NoReg
<1>4. Push(i, build.stack, U16)
  BY <1>2 DEF Literal
<1>5. QED
  BY <1>1, <1>2, <1>3, <1>4, StackReads, PushStep

LEMMA ReadStep == ASSUME Builds, NEW x \in build.words.variables, Read(x) PROVE Builds'
<1>1. Fresh \in Regs /\ x \in Variable /\ TypeOf[x] \in Types
  BY StackReads, VocabularyIs, SomeTypes DEF Read, Push, Emit, Fresh
<1>2. PICK i \in Insts : i = Load(Fresh, x) /\ i.k = "load" /\ i.dst = Fresh /\ i.a = 0 /\ i.b = 0
  <2>1. Load(Fresh, x) \in Insts /\ Load(Fresh, x).k = "load" /\ Load(Fresh, x).dst = Fresh
          /\ Load(Fresh, x).a = 0 /\ Load(Fresh, x).b = 0
    BY <1>1, LoadIs
  <2>2. QED
    BY <2>1
<1>3. Operands(i) = {}
  BY <1>2 DEF Operands, NoReg
<1>4. Push(i, build.stack, TypeOf[x])
  BY <1>2 DEF Read
<1>5. QED
  BY <1>1, <1>2, <1>3, <1>4, StackReads, PushStep

LEMMA CastStep == ASSUME Builds, NEW t \in build.words.casts, CastTo(t) PROVE Builds'
<1>1. Fresh \in Regs /\ t \in Types
  BY StackReads, VocabularyIs, SomeTypes DEF CastTo, Push, Emit, Fresh
<1>2. /\ Top.reg \in Readable(build) /\ Top.reg \in 0 .. MaxRegs /\ Top.reg # 0 /\ Top.type \in Types
      /\ Under1 \in Seq(Entries) /\ build.floor <= Len(Under1)
      /\ \A j \in DOMAIN Under1 : Under1[j].reg \in OnStack(build)
  BY TopReads DEF CastTo
<1>3. PICK i \in Insts : i = Cast(Fresh, Top.reg, Top.type, t) /\ i.k = "cast" /\ i.dst = Fresh /\ i.a = Top.reg
        /\ i.b = 0
  <2>1. Cast(Fresh, Top.reg, Top.type, t) \in Insts /\ Cast(Fresh, Top.reg, Top.type, t).k = "cast"
          /\ Cast(Fresh, Top.reg, Top.type, t).dst = Fresh /\ Cast(Fresh, Top.reg, Top.type, t).a = Top.reg
          /\ Cast(Fresh, Top.reg, Top.type, t).b = 0
    BY <1>1, <1>2, CastIs
  <2>2. QED
    BY <2>1
<1>4. Operands(i) \subseteq Readable(build)
  BY <1>2, <1>3 DEF Operands, NoReg
<1>5. Push(i, Under1, t)
  BY <1>3 DEF CastTo
<1>6. QED
  BY <1>1, <1>2, <1>3, <1>4, <1>5, PushStep

LEMMA UnaryStep == ASSUME Builds, NEW op \in Unaries, Unary(op) PROVE Builds'
<1>1. Fresh \in Regs
  BY StackReads DEF Unary, Push, Emit, Fresh
<1>2. /\ Top.reg \in Readable(build) /\ Top.reg \in 0 .. MaxRegs /\ Top.reg # 0 /\ Top.type \in Types
      /\ Under1 \in Seq(Entries) /\ build.floor <= Len(Under1)
      /\ \A j \in DOMAIN Under1 : Under1[j].reg \in OnStack(build)
  BY TopReads DEF Unary
<1>3. PICK i \in Insts : i = Unop(op, Fresh, Top.reg) /\ i.k = "unop" /\ i.dst = Fresh /\ i.a = Top.reg /\ i.b = 0
  <2>1. Unop(op, Fresh, Top.reg) \in Insts /\ Unop(op, Fresh, Top.reg).k = "unop"
          /\ Unop(op, Fresh, Top.reg).dst = Fresh /\ Unop(op, Fresh, Top.reg).a = Top.reg
          /\ Unop(op, Fresh, Top.reg).b = 0
    BY <1>1, <1>2, UnopIs
  <2>2. QED
    BY <2>1
<1>4. Operands(i) \subseteq Readable(build)
  BY <1>2, <1>3 DEF Operands, NoReg
<1>5. PICK t \in Types : t = IF op = "not" THEN U16 ELSE Top.type
  BY <1>2, SomeTypes
<1>6. Push(i, Under1, t)
  BY <1>3, <1>5 DEF Unary
<1>7. QED
  BY <1>1, <1>2, <1>3, <1>4, <1>6, PushStep

LEMMA BinaryStep == ASSUME Builds, NEW op \in Binaries, Binary(op) PROVE Builds'
<1> DEFINE lt == Under.type
           rt == Top.type
           t == IF op \in {"eq", "lt"} THEN U16
                ELSE IF op = "shr" /\ lt = I8 THEN I16
                ELSE IF lt.size >= rt.size THEN lt ELSE rt
<1>1. Fresh \in Regs /\ Depth > build.floor + 1
  BY StackReads DEF Binary, Push, Emit, Fresh
<1>2. /\ Top.reg \in Readable(build) /\ Top.reg \in 0 .. MaxRegs /\ Top.reg # 0 /\ Top.type \in Types
      /\ Under.reg \in Readable(build) /\ Under.reg \in 0 .. MaxRegs /\ Under.reg # 0 /\ Under.type \in Types
      /\ Under2 \in Seq(Entries) /\ build.floor <= Len(Under2)
      /\ \A j \in DOMAIN Under2 : Under2[j].reg \in OnStack(build)
  <2>1. build.floor \in Nat /\ Depth \in Nat
    BY StackReads DEF Builder, Depth
  <2>2. Depth > build.floor
    BY <1>1, <2>1
  <2>3. QED
    BY <1>1, <2>2, TopReads
<1>3. lt.signed \in BOOLEAN /\ rt.signed \in BOOLEAN
  <2>1. \A x \in Types : x.signed \in BOOLEAN
    BY TypesAre
  <2> HIDE DEF t
  <2>2. QED
    BY <1>2, <2>1
<1>4. PICK n \in {0, 1} : n = Bit(op = "shr" /\ lt.signed)
  BY DEF Bit
<1>5. PICK s \in BOOLEAN : s = (lt.signed \/ rt.signed)
  OBVIOUS
<1>6. PICK i \in Insts : i = Binop(op, Fresh, Under.reg, Top.reg, n, s) /\ i.k = "binop" /\ i.dst = Fresh
        /\ i.a = Under.reg /\ i.b = Top.reg
  <2>1. Binop(op, Fresh, Under.reg, Top.reg, n, s) \in Insts
          /\ Binop(op, Fresh, Under.reg, Top.reg, n, s).k = "binop"
          /\ Binop(op, Fresh, Under.reg, Top.reg, n, s).dst = Fresh
          /\ Binop(op, Fresh, Under.reg, Top.reg, n, s).a = Under.reg
          /\ Binop(op, Fresh, Under.reg, Top.reg, n, s).b = Top.reg
    BY <1>1, <1>2, BinopIs
  <2>2. QED
    BY <2>1
<1>7. Operands(i) \subseteq Readable(build)
  BY <1>2, <1>6 DEF Operands, NoReg
<1>8. PICK u \in Types : u = t
  BY <1>2, SomeTypes DEF Types
<1>9. Push(i, Under2, u)
  BY <1>4, <1>5, <1>6, <1>8 DEF Binary
<1>10. QED
  BY <1>1, <1>2, <1>6, <1>7, <1>9, PushStep

LEMMA WideSumStep == ASSUME Builds, NEW high \in BOOLEAN, WideSum(high) PROVE Builds'
<1> DEFINE sum == Fresh + 2
           low == Fresh + 1
<1>1. /\ Depth > build.floor + 1 /\ Building
      /\ sum <= MaxRegs
      /\ code' = code \o <<Wide(Const(Fresh, 0)), Wide(CarryOp(low, Under.reg, Top.reg, 0)),
                           Wide(CarryOp(sum, Fresh, Fresh, 1))>>
      /\ build' = Grown(build, Append(Under2, Entry(IF high THEN sum ELSE low, U16)), sum)
  BY DEF WideSum, Emit, Grown
<1>2. build.regs \in Nat /\ MaxRegs \in Nat /\ build.floor \in Nat /\ Depth \in Nat
  BY OptimizerAssumption, StackReads DEF Builder, Depth
<1>3. Fresh = build.regs + 1 /\ low = build.regs + 2 /\ sum = build.regs + 3
  BY <1>2 DEF Fresh
<1>4. /\ Top.reg \in Readable(build) /\ Top.reg \in 0 .. MaxRegs /\ Top.reg # 0 /\ Top.type \in Types
      /\ Under.reg \in Readable(build) /\ Under.reg \in 0 .. MaxRegs /\ Under.reg # 0 /\ Under.type \in Types
      /\ Under2 \in Seq(Entries) /\ build.floor <= Len(Under2)
      /\ \A j \in DOMAIN Under2 : Under2[j].reg \in OnStack(build)
  <2>1. Depth > build.floor
    BY <1>1, <1>2
  <2>2. QED
    BY <1>1, <2>1, TopReads
<1>5. Fresh \in Regs /\ low \in Regs /\ sum \in Regs /\ Fresh \in 0 .. MaxRegs
  <2> HIDE DEF low, sum
  <2>1. PICK n \in Nat : n = build.regs
    BY <1>2
  <2>2. n + 3 <= MaxRegs /\ Fresh = n + 1 /\ low = n + 2 /\ sum = n + 3
    BY <1>1, <1>3, <2>1
  <2>3. QED
    BY <1>2, <2>2 DEF Regs
<1> HIDE DEF sum, low
<1>6. PICK i \in Insts : i = Wide(Const(Fresh, 0)) /\ i.k = "const" /\ i.dst = Fresh /\ i.a = 0 /\ i.b = 0
  <2>1. Const(Fresh, 0) \in Insts /\ Const(Fresh, 0).k = "const" /\ Const(Fresh, 0).dst = Fresh
        /\ Const(Fresh, 0).a = 0 /\ Const(Fresh, 0).b = 0
    BY <1>5, ConstIs
  <2>2. QED
    BY <2>1, WideIs
<1>7. PICK j \in Insts : /\ j = Wide(CarryOp(low, Under.reg, Top.reg, 0)) /\ j.k = "carry" /\ j.dst = low
                         /\ j.a = Under.reg /\ j.b = Top.reg
  <2>1. LET j == CarryOp(low, Under.reg, Top.reg, 0)
        IN  j \in Insts /\ j.k = "carry" /\ j.dst = low /\ j.a = Under.reg /\ j.b = Top.reg
    BY <1>4, <1>5, CarryOpIs
  <2>2. QED
    BY <2>1, WideIs
<1>8. PICK l \in Insts : /\ l = Wide(CarryOp(sum, Fresh, Fresh, 1)) /\ l.k = "carry" /\ l.dst = sum
                         /\ l.a = Fresh /\ l.b = Fresh
  <2>1. LET l == CarryOp(sum, Fresh, Fresh, 1)
        IN  l \in Insts /\ l.k = "carry" /\ l.dst = sum /\ l.a = Fresh /\ l.b = Fresh
    BY <1>5, CarryOpIs
  <2>2. QED
    BY <2>1, WideIs
<1>9. Operands(i) = {} /\ Operands(j) \subseteq Readable(build) /\ Operands(l) \subseteq {build.regs + 1}
  BY <1>3, <1>4, <1>6, <1>7, <1>8 DEF Operands, NoReg
<1>10. code' = code \o <<i, j, l>>
  BY <1>1, <1>6, <1>7, <1>8
<1>11. BuildOK(code \o <<i, j, l>>,
               Grown(build, Append(Under2, Entry(IF high THEN build.regs + 3 ELSE build.regs + 2, U16)),
                     build.regs + 3))
  <2>1. build.regs + 3 <= MaxRegs /\ i.dst = build.regs + 1 /\ j.dst = build.regs + 2 /\ l.dst = build.regs + 3
    BY <1>1, <1>3, <1>6, <1>7, <1>8
  <2>2. QED
    BY <1>4, <1>6, <1>7, <1>8, <1>9, <2>1, WideSumOK DEF Builds
<1>12. QED
  BY <1>1, <1>3, <1>10, <1>11 DEF Builds, Building

LEMMA OpenStep == ASSUME Builds, OpenTernary PROVE Builds'
<1>1. /\ Depth > 0 /\ build.arm = "none" /\ Building /\ Fresh <= MaxRegs
      /\ code' = code \o <<CJmp(Top.reg, build.labels + 1, build.labels + 2), Label(build.labels + 1)>>
      /\ build' = Opened(build)
  BY DEF OpenTernary, Opened, Under1, Fresh, Depth
<1>2. /\ code \in Seq(Insts) /\ build \in Builder /\ build.labels \in Nat /\ MaxRegs \in Nat
      /\ Top.reg = TopReg(build)
  BY BuildFacts DEF Builds, Top, Depth, TopReg
<1>3. CJmp(Top.reg, build.labels + 1, build.labels + 2) \in Insts /\ Label(build.labels + 1) \in Insts
  <2>1. Top.reg \in 0 .. MaxRegs
    <3>1. Depth > build.floor
      BY <1>1, BuildFacts DEF Builds
    <3>2. QED
      BY <3>1, TopReads
  <2>2. PICK m \in Nat : m = build.labels
    BY <1>2
  <2>3. m + 1 \in Nat \ {0} /\ m + 2 \in Nat \ {0}
    BY <2>2
  <2>4. QED
    BY <2>1, <2>2, <2>3, CJmpIs, LabelIs
<1>4. code' = Append(Append(code, CJmp(Top.reg, build.labels + 1, build.labels + 2)), Label(build.labels + 1))
  BY <1>1, <1>2, <1>3, AppendSome
<1>5. BuildOK(Append(Append(code, CJmp(Top.reg, build.labels + 1, build.labels + 2)), Label(build.labels + 1)),
        Opened(build))
  <2>1. build.regs + 1 <= MaxRegs /\ Len(build.stack) > 0
    BY <1>1 DEF Fresh, Depth
  <2>2. QED
    BY <1>1, <1>2, <2>1, OpenOK DEF Builds
<1>6. QED
  BY <1>1, <1>4, <1>5 DEF Builds, Building

LEMMA MiddleStep == ASSUME Builds, MiddleOfTernary PROVE Builds'
<1>1. /\ Depth = build.floor + 1 /\ build.arm = "then" /\ Building
      /\ code' = code \o <<Mov(build.merge, Top.reg), Jmp(build.labels + 3), Label(build.labels + 2)>>
      /\ build' = Turned(build)
  BY DEF MiddleOfTernary, Turned, Under1, Depth, Top
<1>2. /\ code \in Seq(Insts) /\ build \in Builder /\ build.labels \in Nat /\ MaxRegs \in Nat
      /\ Top.reg = TopReg(build) /\ build.merge \in Regs /\ build.floor \in Nat
  BY <1>1, BuildFacts DEF Builds, Top, Depth, TopReg
<1>3. /\ Mov(build.merge, Top.reg) \in Insts /\ Jmp(build.labels + 3) \in Insts
      /\ Label(build.labels + 2) \in Insts
  <2>1. Top.reg \in 0 .. MaxRegs
    <3>1. Depth > build.floor
      BY <1>1, <1>2
    <3>2. QED
      BY <3>1, TopReads
  <2>2. PICK m \in Nat : m = build.labels
    BY <1>2
  <2>3. m + 3 \in Nat \ {0} /\ m + 2 \in Nat
    BY <2>2
  <2>4. QED
    BY <1>2, <2>1, <2>2, <2>3, MovIs, JmpIs, LabelIs
<1>4. code' = Append(Append(Append(code, Mov(build.merge, Top.reg)), Jmp(build.labels + 3)),
        Label(build.labels + 2))
  BY <1>1, <1>2, <1>3, AppendSome
<1>5. BuildOK(Append(Append(Append(code, Mov(build.merge, Top.reg)), Jmp(build.labels + 3)),
        Label(build.labels + 2)),
              Turned(build))
  BY <1>1, <1>2, TurnOK DEF Builds, Depth
<1>6. QED
  BY <1>1, <1>4, <1>5 DEF Builds, Building

LEMMA JoinStep == ASSUME Builds, CloseTernary PROVE Builds'
<1>1. /\ Depth = build.floor + 1 /\ build.arm = "else" /\ Building
      /\ code' = code \o <<Mov(build.merge, Top.reg), Label(build.labels + 3)>>
      /\ build' = Closed(build)
  BY DEF CloseTernary, Closed, Under1, Depth, Top
<1>2. /\ code \in Seq(Insts) /\ build \in Builder /\ build.labels \in Nat /\ MaxRegs \in Nat
      /\ Top.reg = TopReg(build) /\ build.merge \in Regs /\ build.floor \in Nat
  BY <1>1, BuildFacts DEF Builds, Top, Depth, TopReg
<1>3. /\ Mov(build.merge, Top.reg) \in Insts /\ Label(build.labels + 3) \in Insts
  <2>1. Top.reg \in 0 .. MaxRegs
    <3>1. Depth > build.floor
      BY <1>1, <1>2
    <3>2. QED
      BY <3>1, TopReads
  <2>2. PICK m \in Nat : m = build.labels
    BY <1>2
  <2>3. m + 3 \in Nat
    BY <2>2
  <2>4. QED
    BY <1>2, <2>1, <2>2, <2>3, MovIs, LabelIs
<1>4. code' = Append(Append(code, Mov(build.merge, Top.reg)), Label(build.labels + 3))
  BY <1>1, <1>2, <1>3, AppendSome
<1>5. BuildOK(Append(Append(code, Mov(build.merge, Top.reg)), Label(build.labels + 3)), Closed(build))
  BY <1>1, <1>2, JoinOK DEF Builds, Depth
<1>6. QED
  BY <1>1, <1>4, <1>5 DEF Builds, Building

LEMMA EndStep ==
    ASSUME Builds, NEW i \in Insts, i.k \in {"store", "ret"}, Operands(i) \subseteq OnStack(build),
           EndStatement(i)
    PROVE  Builds'
<1>1. /\ build.arm = "none" /\ Building /\ code' = Append(code, i) /\ build' = Ended(build)
  BY DEF EndStatement, Ended
<1>2. BuildOK(Append(code, i), Ended(build))
  BY <1>1, EndOK DEF Builds
<1>3. QED
  BY <1>1, <1>2 DEF Builds, Building

LEMMA AssignStep == ASSUME Builds, Assign("word") PROVE Builds'
<1>1. Depth > 0 /\ EndStatement(Store("word", Top.reg)) /\ build.arm = "none"
  BY DEF Assign, EndStatement
<1>2. Top.reg \in OnStack(build) /\ Top.reg \in 0 .. MaxRegs
  <2>1. Depth > build.floor
    BY <1>1, BuildFacts DEF Builds
  <2>2. Len(build.stack) \in DOMAIN build.stack
    BY <1>1, StackReads DEF Depth
  <2>3. QED
    BY <2>1, <2>2, TopReads, StackReads DEF Top, Depth
<1>3. PICK i \in Insts : i = Store("word", Top.reg) /\ i.k = "store" /\ i.a = Top.reg /\ i.b = 0
  <2>1. "word" \in Variable
    BY DEF Variable
  <2>2. LET i == Store("word", Top.reg) IN i \in Insts /\ i.k = "store" /\ i.a = Top.reg /\ i.b = 0
    BY <1>2, <2>1, StoreIs
  <2>3. QED
    BY <2>2
<1>4. Operands(i) \subseteq OnStack(build)
  BY <1>2, <1>3 DEF Operands, NoReg
<1>5. QED
  BY <1>1, <1>3, <1>4, EndStep

LEMMA ReturnStep == ASSUME Builds, Return PROVE Builds'
<1>1. Depth > 0 /\ EndStatement(Ret(Top.reg)) /\ build.arm = "none"
  BY DEF Return, EndStatement
<1>2. Top.reg \in OnStack(build) /\ Top.reg \in 0 .. MaxRegs
  <2>1. Depth > build.floor
    BY <1>1, BuildFacts DEF Builds
  <2>2. Len(build.stack) \in DOMAIN build.stack
    BY <1>1, StackReads DEF Depth
  <2>3. QED
    BY <2>1, <2>2, TopReads, StackReads DEF Top, Depth
<1>3. PICK i \in Insts : i = Ret(Top.reg) /\ i.k = "ret" /\ i.a = Top.reg /\ i.b = 0
  <2>1. LET i == Ret(Top.reg) IN i \in Insts /\ i.k = "ret" /\ i.a = Top.reg /\ i.b = 0
    BY <1>2, RetIs
  <2>2. QED
    BY <2>1
<1>4. Operands(i) \subseteq OnStack(build)
  BY <1>2, <1>3 DEF Operands, NoReg
<1>5. QED
  BY <1>1, <1>3, <1>4, EndStep

LEMMA CloseStep == ASSUME Builds, Close PROVE phase' = "fold" /\ Whole(code')
<1>1. /\ phase' = "fold" /\ build.arm = "none" /\ code' = Append(code, Ret(NoReg))
  BY DEF Close
<1>2. PICK i \in Insts : i = Ret(NoReg) /\ i.k = "ret" /\ i.a = 0 /\ i.b = 0
  <2>1. NoReg = 0 /\ 0 \in 0 .. MaxRegs
    BY OptimizerAssumption DEF NoReg
  <2>2. LET i == Ret(0) IN i \in Insts /\ i.k = "ret" /\ i.a = 0 /\ i.b = 0
    BY <2>1, RetIs
  <2>3. QED
    BY <2>1, <2>2
<1>3. Operands(i) \subseteq OnStack(build)
  BY <1>2 DEF Operands, NoReg
<1>4. QED
  BY <1>1, <1>2, <1>3, EndOK DEF Builds, Whole

LEMMA BuildStep ==
    ASSUME Builds, Build
    PROVE  Builds' \/ (phase' = "fold" /\ Whole(code'))
<1>1. CASE \E n \in build.words.literals : Literal(n)
  BY <1>1, LiteralStep
<1>2. CASE \E x \in build.words.variables : Read(x)
  BY <1>2, ReadStep
<1>3. CASE \E t \in build.words.casts : CastTo(t)
  BY <1>3, CastStep
<1>4. CASE \E op \in build.words.operators \cap Unaries : Unary(op)
  BY <1>4, UnaryStep
<1>5. CASE \E op \in build.words.operators \cap Binaries : Binary(op)
  BY <1>5, BinaryStep
<1>6. CASE \E high \in BOOLEAN : WideSum(high)
  BY <1>6, WideSumStep
<1>7. CASE OpenTernary \/ MiddleOfTernary \/ CloseTernary
  BY <1>7, OpenStep, MiddleStep, JoinStep
<1>8. CASE Assign("word") \/ Return
  BY <1>8, AssignStep, ReturnStep
<1>9. CASE Close
  BY <1>9, CloseStep
<1>10. QED
  BY <1>1, <1>2, <1>3, <1>4, <1>5, <1>6, <1>7, <1>8, <1>9 DEF Build

-----------------------------------------------------------------------------
(* Folding: the state of the pass and what an instruction does to it.      *)

Consts == UNION { [D -> Int] : D \in SUBSET Regs }

Copies == UNION { [D -> 0 .. MaxRegs] : D \in SUBSET Regs }

Excuse == SUBSET {"wrapped", "undefined", "bytes"}

FoldStates == [code : Seq(Insts), known : Consts, alias : Copies, excused : Excuse]

LEMMA ConstsAre ==
    ASSUME NEW f \in Consts
    PROVE  /\ DOMAIN f \in SUBSET Regs /\ \A x \in DOMAIN f : f[x] \in Int
           /\ \A r \in Regs, n \in Int : Updated(f, r, n) \in Consts
<1>1. PICK D \in SUBSET Regs : f \in [D -> Int]
  BY DEF Consts
<1>2. ASSUME NEW r \in Regs, NEW n \in Int PROVE Updated(f, r, n) \in Consts
  <2>1. D \cup {r} \in SUBSET Regs
    OBVIOUS
  <2>2. Updated(f, r, n) \in [D \cup {r} -> Int]
    BY <1>1 DEF Updated
  <2>3. QED
    BY <2>1, <2>2 DEF Consts
<1>3. QED
  BY <1>1, <1>2

LEMMA CopiesAre ==
    ASSUME NEW f \in Copies
    PROVE  /\ DOMAIN f \in SUBSET Regs /\ IsFiniteSet(DOMAIN f) /\ \A x \in DOMAIN f : f[x] \in 0 .. MaxRegs
           /\ \A r \in Regs, n \in 0 .. MaxRegs : Updated(f, r, n) \in Copies
<1>1. PICK D \in SUBSET Regs : f \in [D -> 0 .. MaxRegs]
  BY DEF Copies
<1>2. ASSUME NEW r \in Regs, NEW n \in 0 .. MaxRegs PROVE Updated(f, r, n) \in Copies
  <2>1. D \cup {r} \in SUBSET Regs
    OBVIOUS
  <2>2. Updated(f, r, n) \in [D \cup {r} -> 0 .. MaxRegs]
    BY <1>1 DEF Updated
  <2>3. QED
    BY <2>1, <2>2 DEF Copies
<1>3. IsFiniteSet(DOMAIN f)
  <2>1. IsFiniteSet(Regs)
    BY OptimizerAssumption, FS_Interval DEF Regs
  <2>2. QED
    BY <1>1, <2>1, FS_Subset
<1>4. QED
  BY <1>1, <1>2, <1>3

LEMMA NothingIs == NothingFolded \in FoldStates /\ NothingFolded.alias = << >> /\ NothingFolded.code = <<>>
                   /\ NothingFolded.known = << >> /\ NothingFolded.excused = {} /\ DOMAIN << >> = {}
<1>1. << >> \in Consts
  BY DEF Consts
<1>2. << >> \in Copies
  BY DEF Copies
<1>3. <<>> \in Seq(Insts) /\ {} \in Excuse /\ DOMAIN << >> = {}
  BY DEF Excuse
<1>4. QED
  BY <1>1, <1>2, <1>3 DEF NothingFolded, FoldStates

(* An instruction read through the copies.                                 *)
LEMMA ThroughIs ==
    ASSUME NEW alias, NEW i \in Insts, \A r \in 0 .. MaxRegs : Follow(alias, r) \in 0 .. MaxRegs
    PROVE  LET j == Through(alias, i)
           IN  /\ j \in Insts
               /\ j.a = Follow(alias, i.a) /\ j.b = Follow(alias, i.b)
               /\ j.k = i.k /\ j.dst = i.dst /\ j.op = i.op /\ j.imm = i.imm /\ j.from = i.from /\ j.to = i.to
               /\ j.label = i.label /\ j.other = i.other /\ j.wide = i.wide
<1> DEFINE j == Through(alias, i)
<1>1. i \in AnyInst /\ i.a \in 0 .. MaxRegs /\ i.b \in 0 .. MaxRegs /\ Formed(i)
  BY DEF Insts, AnyInst
<1>2. PICK p \in 0 .. MaxRegs, q \in 0 .. MaxRegs : p = Follow(alias, i.a) /\ q = Follow(alias, i.b)
  BY <1>1
<1>3. j = [i EXCEPT !.a = p, !.b = q]
  BY <1>2 DEF Through
<1>4. /\ j \in AnyInst /\ j.a = p /\ j.b = q
      /\ j.k = i.k /\ j.dst = i.dst /\ j.op = i.op /\ j.imm = i.imm /\ j.from = i.from /\ j.to = i.to
      /\ j.label = i.label /\ j.other = i.other /\ j.wide = i.wide
  BY <1>1, <1>3 DEF AnyInst
<1>5. Formed(j)
  BY <1>1, <1>4 DEF Formed
<1>6. QED
  BY <1>2, <1>4, <1>5 DEF Insts

LEMMA FoldedIs ==
    ASSUME NEW i \in Insts, i.dst \in Regs, NEW n \in Int
    PROVE  LET j == Folded(i, n)
           IN  /\ j \in Insts /\ j.k = "const" /\ j.dst = i.dst /\ j.a = 0 /\ j.b = 0 /\ j.imm = n
             /\ j.wide = i.wide
<1> DEFINE d == Const(i.dst, n)
           j == Folded(i, n)
<1>1. /\ d \in Insts /\ d.k = "const" /\ d.dst = i.dst /\ d.a = 0 /\ d.b = 0 /\ d.imm = n
  BY ConstIs
<1>2. PICK w \in BOOLEAN : w = i.wide
  BY InstFields
<1>3. d \in AnyInst /\ Formed(d) /\ j = [d EXCEPT !.wide = w]
  BY <1>1, <1>2 DEF Insts, Folded
<1> HIDE DEF d, j
<1>4. j \in AnyInst /\ j.k = d.k /\ j.dst = d.dst /\ j.a = d.a /\ j.b = d.b /\ j.imm = d.imm /\ j.wide = w
  BY <1>3 DEF AnyInst
<1>5. Formed(j)
  BY <1>1, <1>4, <1>3 DEF Formed
<1>6. QED
  BY <1>1, <1>2, <1>4, <1>5 DEF Insts, j

-----------------------------------------------------------------------------
(* The arithmetic of the host stays in the integers.                       *)

AndTerms(a, b) == [i \in Nat |-> IF Holds(a, i) /\ Holds(b, i) THEN 2^i ELSE 0]

LEMMA AndIsSum ==
  ASSUME NEW a, NEW b, NEW n \in Nat
  PROVE  BitsOp("and", a, b, n) = SumFunctionOnSet(AndTerms(a, b), 0 .. n - 1)
<1> DEFINE f == AndTerms(a, b)
           S == 0 .. n - 1
           iter == CHOOSE h : h = [s \in SUBSET S |->
                     IF s = {} THEN 0
                     ELSE (IF Holds(a, Chosen(s)) /\ Holds(b, Chosen(s)) THEN 2^Chosen(s) ELSE 0) + h[s \ {Chosen(s)}]]
<1>1. BitsOp("and", a, b, n) = iter[S]
  BY DEF BitsOp, FromBits, MapThenSumSet, MapThenFoldSet, Chosen
<1>2. \A s \in SUBSET S : s # {} =>
        f[Chosen(s)] = IF Holds(a, Chosen(s)) /\ Holds(b, Chosen(s)) THEN 2^Chosen(s) ELSE 0
  <2> SUFFICES ASSUME NEW s \in SUBSET S, s # {}
               PROVE  f[Chosen(s)] = IF Holds(a, Chosen(s)) /\ Holds(b, Chosen(s)) THEN 2^Chosen(s) ELSE 0
    OBVIOUS
  <2>1. Chosen(s) \in s
    <3>1. \E x : x \in s
      OBVIOUS
    <3>2. QED
      BY <3>1, Zenon DEF Chosen
  <2>2. s \subseteq Nat
    OBVIOUS
  <2>3. QED
    BY <2>1, <2>2 DEF AndTerms
<1>3. IsFiniteSet(S)
  BY FS_Interval
<1> HIDE DEF f
<1>4. \A h : Sums(f, SUBSET S, h) <=> h = [s \in SUBSET S |->
                     IF s = {} THEN 0
                     ELSE (IF Holds(a, Chosen(s)) /\ Holds(b, Chosen(s)) THEN 2^Chosen(s) ELSE 0) + h[s \ {Chosen(s)}]]
  BY <1>2 DEF Sums
<1>5. Sums(f, SUBSET S, iter)
  BY <1>3, <1>4, SumsExist
<1>6. QED
  BY <1>1, <1>3, <1>5, SumIs DEF f

LEMMA AndByOne ==
  ASSUME NEW a, NEW b, NEW n \in Nat
  PROVE  /\ BitsOp("and", a, b, 0) = 0
         /\ BitsOp("and", a, b, n) \in Nat
         /\ BitsOp("and", a, b, n + 1) = (IF Holds(a, n) /\ Holds(b, n) THEN 2^n ELSE 0) + BitsOp("and", a, b, n)
<1> DEFINE f == AndTerms(a, b)
           step(k) == SumFunctionOnSet(f, 0 .. (k + 1) - 1) = f[k] + SumFunctionOnSet(f, 0 .. k - 1)
           G == { k \in Nat : SumFunctionOnSet(f, 0 .. k - 1) \in Nat }
<1>1. \A i \in Nat : f[i] \in Nat /\ f[i] = IF Holds(a, i) /\ Holds(b, i) THEN 2^i ELSE 0
  BY Power DEF AndTerms
<1> HIDE DEF f
<1>2. ASSUME NEW k \in Nat PROVE step(k)
  <2>1. \A i \in 0 .. k : f[i] \in Int
    BY <1>1
  <2>2. (k + 1) - 1 = k /\ 0 <= k
    OBVIOUS
  <2>3. QED
    BY <2>1, <2>2, SumUpTo
<1>0. SumFunctionOnSet(f, 0 .. 0 - 1) = 0
  BY SumOfNone, 0 .. 0 - 1 = {}
<1>3. 0 \in G
  BY <1>0
<1>4. ASSUME NEW k \in Nat, k \in G PROVE k + 1 \in G
  <2>1. PICK m \in Nat : m = SumFunctionOnSet(f, 0 .. k - 1)
    BY <1>4
  <2>2. SumFunctionOnSet(f, 0 .. (k + 1) - 1) = f[k] + m /\ f[k] \in Nat
    BY <1>1, <1>2, <2>1, Zenon
  <2>3. SumFunctionOnSet(f, 0 .. (k + 1) - 1) \in Nat
    BY <2>2
  <2>4. QED
    BY <2>3
<1>5. \A k \in Nat : k \in G
  <2> HIDE DEF G
  <2> QED BY <1>3, <1>4, Induction
<1>6. QED
  BY <1>0, <1>1, <1>2, <1>5, AndIsSum DEF f

LEMMA Widths ==
    /\ WordBits \in Nat \ {0} /\ HostBits \in Nat \ {0} /\ HostBits = 3 * WordBits
    /\ WordMod \in Nat \ {0} /\ SignBit \in Nat \ {0} /\ WordMod = 2 * SignBit
    /\ WordMod = 2^WordBits /\ SignBit = 2^(WordBits - 1)
    /\ ByteMod \in Nat \ {0} /\ ByteMod < WordMod /\ WordMod % ByteMod = 0 /\ ByteMod >= 2
<1>1. WordBits \in Nat \ {0} /\ SignBit \in Nat \ {0} /\ SignBit = 2^(WordBits - 1) /\ WordMod = 2 * SignBit
  BY AluAssumption DEF WordMod
<1>2. PICK k \in Nat : WordBits = k + 1 /\ k = WordBits - 1
  BY <1>1
<1>3. WordMod = 2^WordBits
  BY <1>1, <1>2, PowerStep
<1>4. QED
  BY <1>1, <1>3, OptimizerAssumption DEF HostBits

LEMMA ExtendedIsInt == ASSUME NEW w \in Int, NEW s PROVE Extended(w, s) \in Int
<1>1. w % ByteMod \in Int /\ ByteMod \div 2 \in Int /\ WordMod \in Int /\ ByteMod \in Int
  BY Widths
<1>2. QED
  BY <1>1 DEF Extended

LEMMA HostIsInt == ASSUME NEW n \in Int PROVE Host(n) \in Int
<1>1. PICK p \in Nat \ {0} : p = 2^HostBits
  BY Widths, Power
<1>2. n % p \in Int
  BY <1>1
<1>3. QED
  BY <1>1, <1>2 DEF Host

LEMMA QuotientIsInt == ASSUME NEW a \in Int, NEW b \in Int, b # 0 PROVE Quotient(a, b) \in Int
<1>1. PICK m \in Nat, n \in Nat \ {0} : m = Magnitude(a) /\ n = Magnitude(b)
  BY DEF Magnitude
<1>2. m \div n \in Int
  BY <1>1
<1>3. QED
  BY <1>1, <1>2 DEF Quotient

LEMMA FoldsAreInt ==
    /\ \A op \in Binaries : \A a, b \in Int : apply_binop(op, a, b) \in Int
    /\ \A op \in Unaries : \A v \in Int : Fold1(op, v) \in Int
    /\ \A v \in Int : \A from, to \in Types : apply_cast_value(v, from, to) \in Int
<1>1. ASSUME NEW op \in Binaries, NEW a \in Int, NEW b \in Int PROVE apply_binop(op, a, b) \in Int
  <2>0. b % HostBits \in Nat
    BY Widths
  <2>1. PICK p \in Nat \ {0} : p = 2^(b % HostBits)
    BY <2>0, Power
  <2>2. CASE op \in {"add", "sub"}
    BY <2>2 DEF apply_binop
  <2>3. CASE op = "mul"
    <3>1. a * b \in Int
      OBVIOUS
    <3>2. QED
      BY <2>3, <3>1 DEF apply_binop
  <2>4. CASE op = "div"
    BY <2>4, QuotientIsInt DEF apply_binop
  <2>5. CASE op = "and"
    BY <2>5, AndByOne, HostIsInt, Widths DEF apply_binop
  <2>6. CASE op = "shl"
    <3>1. a * p \in Int
      OBVIOUS
    <3>2. QED
      BY <2>1, <2>6, <3>1, HostIsInt DEF apply_binop
  <2>7. CASE op = "shr"
    <3>1. a \div p \in Int
      OBVIOUS
    <3>2. QED
      BY <2>1, <2>7, <3>1 DEF apply_binop
  <2>8. CASE op \in {"eq", "lt"}
    BY <2>8 DEF apply_binop, Bit
  <2>9. QED
    BY <2>2, <2>3, <2>4, <2>5, <2>6, <2>7, <2>8 DEF Binaries
<1>2. ASSUME NEW op \in Unaries, NEW v \in Int PROVE Fold1(op, v) \in Int
  BY DEF Unaries, Fold1, Bit
<1>3. ASSUME NEW v \in Int, NEW from \in Types, NEW to \in Types PROVE apply_cast_value(v, from, to) \in Int
  <2>1. PICK w \in Int : w = IF from.size = 1 THEN Extended(v, from.signed) ELSE v
    BY ExtendedIsInt
  <2>2. PICK x \in Int : x = IF to.size = 1 THEN Extended(w, to.signed) ELSE w
    BY ExtendedIsInt
  <2>3. x % WordMod \in Int
    BY Widths
  <2>4. QED
    BY <2>1, <2>2, <2>3 DEF apply_cast_value
<1>4. QED
  BY <1>1, <1>2, <1>3

LEMMA ExcusesAre == ASSUME NEW f, NEW i PROVE Excuses(f, i) \in Excuse
  BY DEF Excuses, Excuse

(* The number that an instruction is found to give.                        *)
Gives(f, i, n) ==
    \/ i.k = "const" /\ n = i.imm
    \/ /\ i.k = "binop" /\ Known(f, i.a) /\ Known(f, i.b)
       /\ n = apply_binop(i.op, IF i.op = "shr" /\ i.imm = 1 THEN SignedWord(f.known[i.a] % WordMod)
                                ELSE f.known[i.a], f.known[i.b])
    \/ i.k = "unop" /\ Known(f, i.a) /\ n = Fold1(i.op, f.known[i.a])
    \/ /\ i.k = "cast" /\ Known(f, i.a)
       /\ n = IF cast_is_pure_copy(i) THEN f.known[i.a] ELSE apply_cast_value(f.known[i.a], i.from, i.to)
    \/ i.k = "mov" /\ Known(f, i.a) /\ n = f.known[i.a]

IsCopy(i) == i.k = "mov" \/ (i.k = "cast" /\ cast_is_pure_copy(i))

Rewritten(f, i, x) ==
    \/ x = i
    \/ i.k \in {"binop", "unop", "cast"} /\ \E n \in Int : Gives(f, i, n) /\ x = Folded(i, n)

(* What folding does to one instruction, i as it reads through the copies. *)
Folds(f, g, i, multi) ==
    /\ g \in FoldStates
    /\ g.excused = f.excused \cup Excuses(f, i)
    /\ \E x \in Insts : Rewritten(f, i, x) /\ g.code = Append(f.code, x)
    /\ \/ g.known = f.known
       \/ i.dst \notin multi /\ \E n \in Int : Gives(f, i, n) /\ g.known = Updated(f.known, i.dst, n)
    /\ \/ g.alias = f.alias
       \/ i.dst \notin multi /\ IsCopy(i) /\ g.alias = Updated(f.alias, i.dst, i.a)

LEMMA AppendIn == \A c \in Seq(Insts), x \in Insts : Append(c, x) \in Seq(Insts)
  OBVIOUS

LEMMA LearnIs ==
    ASSUME NEW f \in FoldStates, NEW i \in Insts, i.dst \in Regs, NEW multi, NEW n \in Int
    PROVE  /\ Learn(f, i, multi, n) \in Consts
           /\ Learn(f, i, multi, n) = IF i.dst \in multi THEN f.known ELSE Updated(f.known, i.dst, n)
<1>1. f.known \in Consts
  BY DEF FoldStates
<1>2. QED
  BY <1>1, ConstsAre DEF Learn

LEMMA FoldCases ==
    ASSUME NEW f \in FoldStates, NEW inst, NEW i \in Insts, i = Through(f.alias, inst), NEW multi
    PROVE  Folds(f, FoldInst(f, inst, multi), i, multi)
<1> DEFINE g == FoldInst(f, inst, multi)
           w == Excuses(f, i)
           Keep == [f EXCEPT !.code = Append(@, i), !.excused = @ \cup w]
           Value(n) == [f EXCEPT !.code = Append(@, Folded(i, n)), !.known = Learn(f, i, multi, n),
                                 !.excused = @ \cup w]
           Copy(h) == [h EXCEPT !.alias = Updated(@, i.dst, i.a)]
           single == i.dst \notin multi
           v == apply_binop(i.op, IF i.op = "shr" /\ i.imm = 1 THEN SignedWord(f.known[i.a] % WordMod)
                                  ELSE f.known[i.a], f.known[i.b])
           pure == cast_is_pure_copy(i)
           u == IF pure THEN f.known[i.a] ELSE apply_cast_value(f.known[i.a], i.from, i.to)
           k == IF Known(f, i.a) THEN Learn(f, i, multi, f.known[i.a]) ELSE f.known
<1>1. g = CASE i.k = "const" -> [Keep EXCEPT !.known = Learn(f, i, multi, i.imm)]
            [] i.k = "binop" /\ Known(f, i.a) /\ Known(f, i.b) -> Value(v)
            [] i.k = "unop" /\ single /\ Known(f, i.a) -> Value(Fold1(i.op, f.known[i.a]))
            [] i.k = "cast" /\ single ->
                  IF pure THEN Copy(IF Known(f, i.a) THEN Value(u) ELSE Keep)
                  ELSE (IF Known(f, i.a) THEN Value(u) ELSE Keep)
            [] i.k = "mov" /\ single -> Copy([Keep EXCEPT !.known = IF Known(f, i.a) THEN Learn(f, i, multi, f.known[i.a]) ELSE @])
            [] OTHER -> Keep
  BY DEF FoldInst
<1> HIDE DEF g, v, u
<1>2. w \in Excuse /\ f.known \in Consts /\ f.alias \in Copies
  BY ExcusesAre DEF FoldStates
<1>3. /\ i.k \in Defining => i.dst \in Regs
      /\ i.imm \in Int /\ i.a \in 0 .. MaxRegs
      /\ i.k = "binop" => i.op \in Binaries
      /\ i.k = "unop" => i.op \in Unaries
      /\ i.from \in Types /\ i.to \in Types
  BY InstFields DEF Formed, Regs, NoReg
<1>4. \A r : Known(f, r) => f.known[r] \in Int
  BY <1>2, ConstsAre DEF Known
<1> HIDE DEF w
<1>5. Keep \in FoldStates /\ Keep.code = Append(f.code, i) /\ Keep.known = f.known
      /\ Keep.alias = f.alias /\ Keep.excused = f.excused \cup w
  <2>1. PICK e \in Seq(Insts) : e = Append(f.code, i)
    <3>1. Append(f.code, i) \in Seq(Insts)
      BY AppendIn DEF FoldStates
    <3>2. QED
      BY <3>1, Zenon
  <2>2. PICK y \in Excuse : y = f.excused \cup w
    BY <1>2 DEF FoldStates, Excuse
  <2>3. Keep = [f EXCEPT !.code = e, !.excused = y]
    BY <2>1, <2>2
  <2>4. LET z == [f EXCEPT !.code = e, !.excused = y]
        IN  /\ z \in FoldStates /\ z.code = e /\ z.known = f.known /\ z.alias = f.alias /\ z.excused = y
    BY DEF FoldStates
  <2>5. QED
    BY <2>1, <2>2, <2>3, <2>4
<1>6. ASSUME NEW h \in FoldStates, NEW c \in Consts
      PROVE  LET x == [h EXCEPT !.known = c]
             IN  x \in FoldStates /\ x.code = h.code /\ x.known = c /\ x.alias = h.alias /\ x.excused = h.excused
  BY DEF FoldStates
<1>7. ASSUME NEW h \in FoldStates, h.alias = f.alias, i.dst \in Regs
      PROVE  LET x == Copy(h)
             IN  x \in FoldStates /\ x.code = h.code /\ x.known = h.known /\ x.alias = Updated(f.alias, i.dst, i.a)
                 /\ x.excused = h.excused
  <2>1. PICK a \in Copies : a = Updated(f.alias, i.dst, i.a)
    BY <1>2, <1>3, <1>7, CopiesAre
  <2>2. Copy(h) = [h EXCEPT !.alias = a]
    BY <1>7, <2>1
  <2>3. LET x == [h EXCEPT !.alias = a]
        IN  x \in FoldStates /\ x.code = h.code /\ x.known = h.known /\ x.alias = a /\ x.excused = h.excused
    BY DEF FoldStates
  <2>4. QED
    BY <2>1, <2>2, <2>3
<1>8. ASSUME NEW n \in Int, i.dst \in Regs
      PROVE  LET x == Value(n)
             IN  x \in FoldStates /\ x.code = Append(f.code, Folded(i, n)) /\ x.known = Learn(f, i, multi, n)
                 /\ x.alias = f.alias /\ x.excused = f.excused \cup w /\ Folded(i, n) \in Insts
  <2>1. Folded(i, n) \in Insts /\ Learn(f, i, multi, n) \in Consts
    BY <1>8, FoldedIs, LearnIs
  <2>2. PICK e \in Seq(Insts) : e = Append(f.code, Folded(i, n))
    <3>1. Append(f.code, Folded(i, n)) \in Seq(Insts)
      BY <2>1, AppendIn DEF FoldStates
    <3>2. QED
      BY <3>1, Zenon
  <2>3. PICK y \in Excuse : y = f.excused \cup w
    BY <1>2 DEF FoldStates, Excuse
  <2>4. PICK c \in Consts : c = Learn(f, i, multi, n)
    BY <2>1
  <2>5. Value(n) = [f EXCEPT !.code = e, !.known = c, !.excused = y]
    BY <2>2, <2>3, <2>4
  <2>6. LET z == [f EXCEPT !.code = e, !.known = c, !.excused = y]
        IN  /\ z \in FoldStates /\ z.code = e /\ z.known = c /\ z.alias = f.alias /\ z.excused = y
    BY DEF FoldStates
  <2>7. QED
    BY <2>1, <2>2, <2>3, <2>4, <2>5, <2>6
<1> DEFINE Told(n) == Learn(f, i, multi, n)
<1>9. ASSUME NEW n \in Int, Gives(f, i, n), i.k \in {"binop", "unop", "cast"}
      PROVE  /\ Folds(f, Value(n), i, multi)
             /\ Value(n) \in FoldStates /\ Value(n).alias = f.alias
  <2>1. i.dst \in Regs
    BY <1>3, <1>9 DEF Defining
  <2>2. /\ Value(n) \in FoldStates /\ Value(n).code = Append(f.code, Folded(i, n))
        /\ Value(n).known = Learn(f, i, multi, n)
        /\ Value(n).alias = f.alias /\ Value(n).excused = f.excused \cup w /\ Folded(i, n) \in Insts
    BY <1>8, <2>1
  <2>3. Rewritten(f, i, Folded(i, n))
    BY <1>9 DEF Rewritten
  <2>4. Value(n).known = f.known \/ (i.dst \notin multi /\ Value(n).known = Updated(f.known, i.dst, n))
    BY <2>1, <2>2, LearnIs
  <2> HIDE DEF Value
  <2>5. QED
    BY <1>9, <2>2, <2>3, <2>4 DEF Folds, w
<1>10. ASSUME NEW h, Folds(f, h, i, multi), h.alias = f.alias, single, IsCopy(i), i.dst \in Regs
       PROVE  Folds(f, Copy(h), i, multi)
  <2>1. h \in FoldStates
    BY <1>10 DEF Folds
  <2>2. /\ Copy(h) \in FoldStates /\ Copy(h).code = h.code /\ Copy(h).known = h.known
        /\ Copy(h).alias = Updated(f.alias, i.dst, i.a) /\ Copy(h).excused = h.excused
    BY <1>7, <1>10, <2>1
  <2> HIDE DEF Copy
  <2>3. QED
    BY <1>10, <2>2 DEF Folds
<1>11. Folds(f, Keep, i, multi)
  <2> HIDE DEF Keep
  <2>1. QED
    BY <1>5 DEF Folds, Rewritten, w
<1>12. ASSUME NEW c \in Consts, c = f.known \/ (single /\ \E n \in Int : Gives(f, i, n)
         /\ c = Updated(f.known, i.dst, n))
       PROVE  /\ Folds(f, [Keep EXCEPT !.known = c], i, multi)
              /\ [Keep EXCEPT !.known = c].alias = f.alias
  <2>1. PICK x : x = [Keep EXCEPT !.known = c]
    OBVIOUS
  <2>2. x \in FoldStates /\ x.code = Keep.code /\ x.known = c /\ x.alias = Keep.alias /\ x.excused = Keep.excused
    BY <1>5, <1>6, <2>1
  <2> HIDE DEF Keep
  <2>3. Folds(f, x, i, multi)
    BY <1>5, <1>12, <2>2 DEF Folds, Rewritten, w
  <2>4. QED
    BY <1>5, <2>1, <2>2, <2>3
<1> HIDE DEF Keep, Value, Copy
<1>13. CASE i.k = "const"
  <2>1. i.dst \in Regs /\ Gives(f, i, i.imm)
    BY <1>3, <1>13 DEF Defining, Gives
  <2>2. PICK c \in Consts : /\ c = Learn(f, i, multi, i.imm)
                            /\ c = f.known \/ (single /\ c = Updated(f.known, i.dst, i.imm))
    BY <1>3, <2>1, LearnIs
  <2>3. Folds(f, [Keep EXCEPT !.known = c], i, multi)
    BY <1>3, <1>12, <2>1, <2>2
  <2>4. g = [Keep EXCEPT !.known = c]
    BY <1>1, <1>13, <2>2
  <2>5. QED
    BY <2>3, <2>4 DEF g
<1>14. CASE i.k = "binop" /\ Known(f, i.a) /\ Known(f, i.b)
  <2>1. f.known[i.a] \in Int /\ f.known[i.b] \in Int
    BY <1>4, <1>14
  <2>2. SignedWord(f.known[i.a] % WordMod) \in Int
    BY <2>1, Widths DEF SignedWord
  <2>3. v \in Int /\ Gives(f, i, v)
    BY <1>3, <1>14, <2>1, <2>2, FoldsAreInt DEF v, Gives
  <2>4. g = Value(v)
    BY <1>1, <1>14
  <2>5. QED
    BY <1>9, <1>14, <2>3, <2>4 DEF g
<1>15. CASE i.k = "unop" /\ single /\ Known(f, i.a)
  <2>1. PICK n \in Int : n = Fold1(i.op, f.known[i.a])
    BY <1>3, <1>4, <1>15, FoldsAreInt
  <2>2. Gives(f, i, n)
    BY <1>15, <2>1 DEF Gives
  <2>3. g = Value(n)
    BY <1>1, <1>15, <2>1
  <2>4. QED
    BY <1>9, <1>15, <2>2, <2>3 DEF g
<1>16. CASE i.k = "cast" /\ single
  <2>1. i.dst \in Regs /\ (pure => IsCopy(i))
    BY <1>3, <1>16 DEF Defining, IsCopy
  <2>2. CASE Known(f, i.a)
    <3>1. u \in Int /\ Gives(f, i, u)
      BY <1>3, <1>4, <1>16, <2>2, FoldsAreInt DEF u, Gives
    <3>2. Folds(f, Value(u), i, multi) /\ Value(u).alias = f.alias
      BY <1>9, <1>16, <3>1
    <3>3. pure => Folds(f, Copy(Value(u)), i, multi)
      BY <1>10, <1>16, <2>1, <3>2
    <3>4. g = IF pure THEN Copy(Value(u)) ELSE Value(u)
      BY <1>1, <1>16, <2>2
    <3>5. QED
      BY <3>2, <3>3, <3>4 DEF g
  <2>3. CASE ~Known(f, i.a)
    <3>1. pure => Folds(f, Copy(Keep), i, multi)
      BY <1>5, <1>10, <1>11, <1>16, <2>1
    <3>2. g = IF pure THEN Copy(Keep) ELSE Keep
      BY <1>1, <1>16, <2>3
    <3>3. QED
      BY <1>11, <3>1, <3>2 DEF g
  <2>4. QED
    BY <2>2, <2>3
<1>17. CASE i.k = "mov" /\ single
  <2>1. i.dst \in Regs /\ IsCopy(i)
    BY <1>3, <1>17 DEF Defining, IsCopy
  <2>2. k \in Consts /\ (k = f.known \/ (single /\ \E n \in Int : Gives(f, i, n) /\ k = Updated(f.known, i.dst, n)))
    <3>1. CASE Known(f, i.a)
      <4>1. PICK n \in Int : n = f.known[i.a] /\ Gives(f, i, n)
        BY <1>4, <1>17, <3>1 DEF Gives
      <4>2. QED
        BY <2>1, <3>1, <4>1, LearnIs
    <3>2. QED
      BY <1>2, <3>1
  <2>3. PICK c \in Consts : c = k /\ (c = f.known \/ (single /\ \E n \in Int : Gives(f, i, n)
          /\ c = Updated(f.known, i.dst, n)))
    BY <2>2
  <2>4. Folds(f, [Keep EXCEPT !.known = c], i, multi) /\ [Keep EXCEPT !.known = c].alias = f.alias
    BY <1>12, <2>3
  <2>5. Folds(f, Copy([Keep EXCEPT !.known = c]), i, multi)
    BY <1>10, <1>17, <2>1, <2>4
  <2>6. g = Copy([Keep EXCEPT !.known = c])
    BY <1>1, <1>5, <1>17, <2>3
  <2>7. QED
    BY <2>5, <2>6 DEF g
<1>18. CASE \/ i.k \notin {"const", "binop", "unop", "cast", "mov"}
            \/ i.k \in {"unop", "cast", "mov"} /\ ~single
            \/ i.k = "binop" /\ ~(Known(f, i.a) /\ Known(f, i.b))
            \/ i.k = "unop" /\ ~Known(f, i.a)
  <2>1. g = Keep
    BY <1>1, <1>18
  <2>2. QED
    BY <1>11, <2>1 DEF g
<1>19. QED
  BY <1>13, <1>14, <1>15, <1>16, <1>17, <1>18

(* Register r has been written before the instruction at n, and no return  *)
(* is between.                                                             *)
Before(c, r, n) ==
    \A d \in DOMAIN c : c[d].dst = r /\ r # NoReg =>
        d < n /\ \A p \in DOMAIN c : c[p].k = "ret" /\ p < n => p < d

(* What the rewriting of an instruction leaves as it was.                  *)
Replaces(x, i) ==
    /\ x.dst = i.dst /\ x.wide = i.wide
    /\ x.k = i.k \/ (i.k \in {"binop", "unop", "cast"} /\ x.k = "const")

FoldOK(c, f, n) ==
    /\ f \in FoldStates /\ Len(f.code) = n
    /\ \A k \in 1 .. n : Replaces(f.code[k], c[k])
    /\ \A k \in 1 .. n : \A r \in Operands(f.code[k]) : Before(c, r, k) /\ r \notin DOMAIN f.alias
    /\ \A r \in DOMAIN f.alias :
          /\ f.alias[r] \notin DOMAIN f.alias
          /\ \E d \in 1 .. n : c[d].dst = r /\ Before(c, f.alias[r], d)

LEMMA FoldStarts == ASSUME NEW c PROVE FoldOK(c, NothingFolded, 0)
  BY NothingIs DEF FoldOK

(* A root is not among the copies.                                         *)
LEMMA RootIs ==
    ASSUME NEW c, NEW f, NEW n \in Nat, FoldOK(c, f, n), NEW r \in 0 .. MaxRegs
    PROVE  /\ Follow(f.alias, r) = IF r \in DOMAIN f.alias THEN f.alias[r] ELSE r
           /\ Follow(f.alias, r) \in 0 .. MaxRegs
           /\ Follow(f.alias, r) \notin DOMAIN f.alias
<1>1. f.alias \in Copies
  BY DEF FoldOK, FoldStates
<1>2. /\ DOMAIN f.alias \in SUBSET Regs /\ IsFiniteSet(DOMAIN f.alias)
      /\ \A x \in DOMAIN f.alias : f.alias[x] \in 0 .. MaxRegs
  BY <1>1, CopiesAre
<1>3. \A x \in DOMAIN f.alias : f.alias[x] \notin DOMAIN f.alias
  BY DEF FoldOK
<1>4. Follow(f.alias, r) = IF r \in DOMAIN f.alias THEN f.alias[r] ELSE r
  BY <1>2, <1>3, FollowRoot
<1>5. QED
  BY <1>2, <1>3, <1>4

LEMMA FoldStep ==
    ASSUME NEW c, Whole(c), NEW n \in Nat, n + 1 \in DOMAIN c, NEW f, FoldOK(c, f, n), NEW multi
    PROVE  FoldOK(c, FoldInst(f, c[n + 1], multi), n + 1)
<1> DEFINE inst == c[n + 1]
           i == Through(f.alias, inst)
           g == FoldInst(f, inst, multi)
<1>1. /\ inst \in Insts /\ c \in Seq(Insts) /\ inst.a \in 0 .. MaxRegs /\ inst.b \in 0 .. MaxRegs
      /\ inst.k \in Kinds /\ inst.dst \in 0 .. MaxRegs
  BY InstFields DEF Whole
<1>2. \A r \in 0 .. MaxRegs : Follow(f.alias, r) \in 0 .. MaxRegs
  BY RootIs
<1>3. /\ i \in Insts /\ i.a = Follow(f.alias, inst.a) /\ i.b = Follow(f.alias, inst.b)
      /\ i.k = inst.k /\ i.dst = inst.dst /\ i.wide = inst.wide
  BY <1>1, <1>2, ThroughIs
<1>4. Folds(f, g, i, multi)
  BY <1>3, FoldCases DEF FoldOK
<1> HIDE DEF i, g
<1>5. /\ f.code \in Seq(Insts) /\ Len(f.code) = n /\ f.alias \in Copies /\ g \in FoldStates
  BY <1>4 DEF FoldOK, FoldStates, Folds
<1>6. PICK x \in Insts : Rewritten(f, i, x) /\ g.code = Append(f.code, x)
  BY <1>4 DEF Folds
<1>7. /\ Len(g.code) = n + 1 /\ g.code[n + 1] = x
      /\ \A k \in 1 .. n : g.code[k] = f.code[k]
  BY <1>5, <1>6, Appended
<1>8. Replaces(x, inst) /\ Operands(x) \subseteq Operands(i)
  <2>1. CASE x = i
    BY <1>3, <2>1 DEF Replaces
  <2>2. CASE i.k \in {"binop", "unop", "cast"} /\ \E m \in Int : x = Folded(i, m)
    <3>1. PICK m \in Int : x = Folded(i, m)
      BY <2>2
    <3>2. i.dst \in Regs
      BY <1>3, <2>2, InstFields DEF Formed, Defining, Regs, NoReg
    <3>3. x.k = "const" /\ x.dst = i.dst /\ x.a = 0 /\ x.b = 0 /\ x.wide = i.wide
      BY <1>3, <3>1, <3>2, FoldedIs
    <3>4. QED
      BY <1>3, <2>2, <3>3 DEF Replaces, Operands, NoReg
  <2>3. QED
    BY <1>6, <2>1, <2>2 DEF Rewritten
<1>9. ASSUME NEW r \in {inst.a, inst.b}
      PROVE  Before(c, Follow(f.alias, r), n + 1) /\ Follow(f.alias, r) \notin DOMAIN f.alias
  <2>0. r \in 0 .. MaxRegs
    BY <1>1
  <2>1. PICK h : /\ h = Follow(f.alias, r) /\ h = IF r \in DOMAIN f.alias THEN f.alias[r] ELSE r
                 /\ h \notin DOMAIN f.alias
    BY <2>0, RootIs
  <2>2. DOMAIN f.alias \subseteq Regs /\ NoReg \notin Regs
    BY <1>5, CopiesAre DEF Regs, NoReg
  <2>3. Before(c, r, n + 1)
    BY DEF Before, Whole, Ordered, Operands
  <2>4. CASE r \in DOMAIN f.alias
    <3>1. PICK d \in 1 .. n : c[d].dst = r /\ Before(c, h, d)
      BY <2>1, <2>4 DEF FoldOK
    <3>2. d \in DOMAIN c /\ r # NoReg
      BY <1>1, <2>2, <2>4
    <3>3. d < n + 1 /\ \A p \in DOMAIN c : c[p].k = "ret" /\ p < n + 1 => p < d
      BY <2>3, <3>1, <3>2 DEF Before
    <3>4. \A q \in DOMAIN c : q \in Nat
      BY <1>1
    <3>5. Before(c, h, n + 1)
      BY <3>1, <3>3, <3>4 DEF Before
    <3>6. QED
      BY <2>1, <3>5
  <2>5. QED
    BY <2>1, <2>3, <2>4
<1>10. \A r \in Operands(i) : Before(c, r, n + 1) /\ r \notin DOMAIN f.alias /\ r # inst.dst
  <2>1. \A r \in Operands(i) : Before(c, r, n + 1) /\ r \notin DOMAIN f.alias
    BY <1>3, <1>9 DEF Operands
  <2>2. \A r \in Operands(i) : r # NoReg
    BY DEF Operands
  <2>3. QED
    BY <2>1, <2>2 DEF Before
<1>11. ASSUME NEW r, NEW k \in 1 .. n, Before(c, r, k), r # NoReg PROVE r # inst.dst
  BY <1>11 DEF Before
<1> HIDE DEF inst
<1>12. DOMAIN g.alias \subseteq DOMAIN f.alias \cup {inst.dst}
  <2>1. DOMAIN Updated(f.alias, i.dst, i.a) = DOMAIN f.alias \cup {i.dst}
    BY DEF Updated
  <2>2. QED
    BY <1>3, <1>4, <2>1 DEF Folds
<1> USE DEF inst
<1>13. \A k \in 1 .. n + 1 : Replaces(g.code[k], c[k])
  <2>1. TAKE k \in 1 .. n + 1
  <2>2. CASE k = n + 1
    BY <1>7, <1>8, <2>2
  <2>3. CASE k \in 1 .. n
    BY <1>7, <2>3 DEF FoldOK
  <2>4. QED
    BY <2>2, <2>3
<1>14. \A k \in 1 .. n + 1 : \A r \in Operands(g.code[k]) : Before(c, r, k) /\ r \notin DOMAIN g.alias
  <2>1. TAKE k \in 1 .. n + 1
  <2>2. TAKE r \in Operands(g.code[k])
  <2>3. CASE k = n + 1
    BY <1>7, <1>8, <1>10, <1>12, <2>3
  <2>4. CASE k \in 1 .. n
    <3>1. Before(c, r, k) /\ r \notin DOMAIN f.alias /\ r # NoReg
      BY <1>7, <2>4 DEF FoldOK, Operands
    <3>2. r # inst.dst
      BY <1>11, <2>4, <3>1
    <3>3. QED
      BY <1>12, <3>1, <3>2
  <2>5. QED
    BY <2>3, <2>4
<1>15. ASSUME NEW r \in DOMAIN g.alias
       PROVE  /\ g.alias[r] \notin DOMAIN g.alias
              /\ \E d \in 1 .. n + 1 : c[d].dst = r /\ Before(c, g.alias[r], d)
  <2>0. \A s \in DOMAIN f.alias : /\ f.alias[s] \notin DOMAIN f.alias
                                  /\ \E d \in 1 .. n : c[d].dst = s /\ Before(c, f.alias[s], d)
    BY DEF FoldOK
  <2>1. CASE g.alias = f.alias
    BY <1>15, <2>0, <2>1
  <2>2. CASE IsCopy(i) /\ g.alias = Updated(f.alias, i.dst, i.a)
    <3>1. /\ DOMAIN g.alias = DOMAIN f.alias \cup {inst.dst} /\ g.alias[inst.dst] = i.a
          /\ \A s \in DOMAIN f.alias : s # inst.dst => g.alias[s] = f.alias[s]
      <4>1. /\ DOMAIN Updated(f.alias, i.dst, i.a) = DOMAIN f.alias \cup {i.dst}
            /\ Updated(f.alias, i.dst, i.a)[i.dst] = i.a
            /\ \A s \in DOMAIN f.alias : s # i.dst => Updated(f.alias, i.dst, i.a)[s] = f.alias[s]
        BY DEF Updated
      <4>2. QED
        BY <1>3, <2>2, <4>1
    <3>2. inst.dst # NoReg
      <4>1. inst.k \in Defining
        BY <1>3, <2>2 DEF IsCopy, Defining
      <4>2. QED
        BY <1>1, <4>1, InstFields DEF Formed
    <3>3. CASE r = inst.dst
      <4>1. Before(c, i.a, n + 1) /\ i.a \notin DOMAIN f.alias
        BY <1>3, <1>9
      <4>2. i.a # inst.dst
        BY <3>2, <4>1 DEF Before
      <4>3. QED
        BY <3>1, <3>3, <4>1, <4>2
    <3>4. CASE r \in DOMAIN f.alias /\ r # inst.dst
      <4>1. PICK d \in 1 .. n : c[d].dst = r /\ Before(c, f.alias[r], d)
        BY <2>0, <3>4
      <4>2. f.alias[r] # inst.dst
        BY <1>11, <3>2, <4>1
      <4>3. g.alias[r] = f.alias[r] /\ f.alias[r] \notin DOMAIN g.alias
        BY <2>0, <3>1, <3>4, <4>2
      <4>4. QED
        BY <4>1, <4>3
    <3>5. QED
      BY <1>15, <3>1, <3>3, <3>4
  <2>3. QED
    BY <1>4, <2>1, <2>2 DEF Folds
<1>16. QED
  BY <1>5, <1>7, <1>13, <1>14, <1>15 DEF FoldOK, g, inst

LEMMA FoldingOK ==
    ASSUME NEW c, Whole(c), NEW len \in Nat, len = Len(c)
    PROVE  \A n \in 0 .. len : FoldOK(c, Folding(c)[n], n)
<1> DEFINE G == { n \in Nat : n <= len => FoldOK(c, Folding(c)[n], n) }
<1>1. /\ Folding(c)[0] = NothingFolded
      /\ \A n \in 1 .. len : Folding(c)[n] = FoldInst(Folding(c)[n - 1], c[n], MultiDef(c))
  BY FoldingStep
<1>2. 0 \in G
  BY <1>1, FoldStarts
<1>3. ASSUME NEW n \in Nat, n \in G PROVE n + 1 \in G
  <2>1. SUFFICES ASSUME n + 1 <= len PROVE FoldOK(c, Folding(c)[n + 1], n + 1)
    OBVIOUS
  <2>2. FoldOK(c, Folding(c)[n], n) /\ n + 1 \in 1 .. len /\ (n + 1) - 1 = n
    BY <1>3, <2>1
  <2>3. n + 1 \in DOMAIN c
    BY <2>2 DEF Whole
  <2>4. FoldOK(c, FoldInst(Folding(c)[n], c[n + 1], MultiDef(c)), n + 1)
    BY <2>2, <2>3, FoldStep
  <2>5. QED
    BY <1>1, <2>2, <2>4
<1>4. \A n \in Nat : n \in G
  <2> HIDE DEF G
  <2> QED BY <1>2, <1>3, Induction
<1>5. QED
  BY <1>4

-----------------------------------------------------------------------------
(* The passes keep a function whole, and the sweeps end clean.             *)

(* Instructions that read the same, in the same places.                    *)
LEMMA FoldedWhole ==
    ASSUME NEW c, Whole(c), NEW f, NEW len \in Nat, len = Len(c), FoldOK(c, f, len), NEW e,
           e = [n \in DOMAIN f.code |-> Through(f.alias, f.code[n])]
    PROVE  Whole(e)
<1>1. /\ c \in Seq(Insts) /\ DOMAIN c = 1 .. len
      /\ f.code \in Seq(Insts) /\ DOMAIN f.code = 1 .. len /\ \A n \in 1 .. len : f.code[n] \in Insts
  BY DEF Whole, FoldOK, FoldStates
<1>2. ASSUME NEW n \in 1 .. len
      PROVE  /\ e[n] \in Insts /\ Replaces(e[n], c[n])
             /\ \A r \in Operands(e[n]) : Before(c, r, n)
  <2>1. PICK i \in Insts : i = f.code[n] /\ i.a \in 0 .. MaxRegs /\ i.b \in 0 .. MaxRegs
    BY <1>1, InstFields
  <2>2. \A r \in 0 .. MaxRegs : Follow(f.alias, r) \in 0 .. MaxRegs
    BY RootIs
  <2>3. PICK j : /\ j = Through(f.alias, i) /\ j \in Insts
                 /\ j.a = Follow(f.alias, i.a) /\ j.b = Follow(f.alias, i.b)
                 /\ j.k = i.k /\ j.dst = i.dst /\ j.wide = i.wide
    BY <2>2, ThroughIs
  <2>4. Replaces(i, c[n]) /\ \A r \in Operands(i) : Before(c, r, n) /\ r \notin DOMAIN f.alias
    BY <2>1 DEF FoldOK
  <2>5. 0 \notin DOMAIN f.alias
    BY CopiesAre DEF FoldOK, FoldStates, Regs
  <2>6. i.a \notin DOMAIN f.alias /\ i.b \notin DOMAIN f.alias
    BY <2>4, <2>5 DEF Operands, NoReg
  <2>7. j.a = i.a /\ j.b = i.b
    BY <2>1, <2>3, <2>6, RootIs
  <2>8. e[n] = j
    BY <1>1, <2>1, <2>3
  <2>9. QED
    BY <2>3, <2>4, <2>7, <2>8 DEF Replaces, Operands
<1>3. DOMAIN e = 1 .. len
  BY <1>1
<1>4. e \in Seq(Insts)
  <2>1. e \in [1 .. len -> Insts]
    BY <1>1, <1>2
  <2>2. QED
    BY <2>1
<1>5. Ordered(e)
  <2>1. ASSUME NEW n \in DOMAIN e, NEW d \in DOMAIN e, e[d].dst \in Operands(e[n])
        PROVE  d < n /\ \A p \in DOMAIN e : e[p].k = "ret" /\ p < n => p < d
    <3>1. Before(c, e[d].dst, n) /\ e[d].dst # NoReg /\ c[d].dst = e[d].dst
      BY <1>2, <1>3, <2>1 DEF Operands, Replaces
    <3>2. \A p \in DOMAIN e : e[p].k = "ret" => c[p].k = "ret"
      BY <1>2, <1>3 DEF Replaces
    <3>3. QED
      BY <1>1, <1>3, <3>1, <3>2 DEF Before
  <2>2. QED
    BY <2>1 DEF Ordered
<1>6. JumpsToNext(e)
  <2>1. ASSUME NEW n \in DOMAIN e, e[n].k = "jmp" PROVE n + 1 \in DOMAIN e /\ e[n + 1].k = "label"
    <3>1. c[n].k = "jmp"
      BY <1>2, <1>3, <2>1 DEF Replaces
    <3>2. n + 1 \in DOMAIN c /\ c[n + 1].k = "label"
      BY <1>1, <1>3, <3>1 DEF Whole, JumpsToNext
    <3>3. QED
      BY <1>1, <1>2, <1>3, <3>2 DEF Replaces
  <2>2. QED
    BY <2>1 DEF JumpsToNext
<1>7. QED
  BY <1>4, <1>5, <1>6 DEF Whole

LEMMA FoldWhole == ASSUME Whole(code), Fold PROVE Whole(code') /\ phase' = "sweep"
<1>1. PICK len \in Nat : len = Len(code)
  BY DEF Whole
<1>2. PICK f : f = Folding(code)[len]
  OBVIOUS
<1>3. FoldOK(code, f, len)
  BY <1>1, <1>2, FoldingOK
<1>4. code' = [n \in DOMAIN f.code |-> Through(f.alias, f.code[n])] /\ phase' = "sweep"
  BY <1>1, <1>2 DEF Fold
<1>5. PICK e : e = code'
  OBVIOUS
<1>6. Whole(e)
  BY <1>1, <1>3, <1>4, <1>5, FoldedWhole
<1>7. QED
  BY <1>4, <1>5, <1>6

(* Instructions may be taken out of a function, but no label.              *)
LEMMA OnlyWhole ==
    ASSUME NEW c, Whole(c), NEW s,
           \A n \in DOMAIN c : c[n].k = "label" => n \in s
    PROVE  Whole(Only(c, s))
<1> DEFINE e == Only(c, s)
<1>1. PICK len \in Nat : len = Len(c) /\ c \in Seq(Insts) /\ DOMAIN c = 1 .. len
  BY DEF Whole
<1>20. PICK k : /\ k[0] = 0 /\ k[Len(c)] = Len(Only(c, s))
                /\ \A n \in 0 .. Len(c) : k[n] \in 0 .. Len(Only(c, s))
                /\ \A n \in 1 .. Len(c) :
                      IF n \in s THEN k[n] = k[n - 1] + 1 /\ Only(c, s)[k[n]] = c[n] ELSE k[n] = k[n - 1]
                /\ \A n, p \in 0 .. Len(c) : p <= n => k[p] <= k[n]
                /\ \A m \in 1 .. Len(Only(c, s)) : \E n \in 1 .. Len(c) : n \in s /\ k[n] = m
  BY <1>1, OnlyPlaces, Zenon
<1>2.          /\ k[0] = 0 /\ k[len] = Len(e)
               /\ \A n \in 0 .. len : k[n] \in 0 .. Len(e)
               /\ \A n \in 1 .. len :
                     IF n \in s THEN k[n] = k[n - 1] + 1 /\ e[k[n]] = c[n] ELSE k[n] = k[n - 1]
               /\ \A n, p \in 0 .. len : p <= n => k[p] <= k[n]
               /\ \A m \in 1 .. Len(e) : \E n \in 1 .. len : n \in s /\ k[n] = m
  BY <1>1, <1>20
<1>3. e \in Seq(Insts)
  BY <1>1, OnlyPlaces
<1> HIDE DEF e
<1>4. PICK l \in Nat : l = Len(e) /\ DOMAIN e = 1 .. l
  BY <1>3
<1>5. \A m \in 1 .. l : \E n \in 1 .. len : n \in s /\ k[n] = m /\ e[m] = c[n]
  BY <1>2, <1>4
<1>6. ASSUME NEW n \in 1 .. len, NEW p \in 1 .. len, n \in s, k[p] < k[n] PROVE p < n
  BY <1>2, <1>4, <1>6
<1>7. ASSUME NEW n \in 1 .. len, NEW p \in 1 .. len, n \in s, p < n PROVE k[p] < k[n]
  <2>1. k[p] <= k[n - 1] /\ k[n] = k[n - 1] + 1 /\ k[p] \in 0 .. l /\ k[n - 1] \in 0 .. l
    BY <1>2, <1>4, <1>7
  <2>2. QED
    BY <2>1
<1>8. Ordered(e)
  <2>1. ASSUME NEW m \in DOMAIN e, NEW d \in DOMAIN e, e[d].dst \in Operands(e[m])
        PROVE  d < m /\ \A p \in DOMAIN e : e[p].k = "ret" /\ p < m => p < d
    <3>1. PICK n \in 1 .. len : n \in s /\ k[n] = m /\ e[m] = c[n]
      BY <1>4, <1>5
    <3>2. PICK q \in 1 .. len : q \in s /\ k[q] = d /\ e[d] = c[q]
      BY <1>4, <1>5
    <3>3. q < n /\ \A p \in DOMAIN c : c[p].k = "ret" /\ p < n => p < q
      BY <1>1, <2>1, <3>1, <3>2 DEF Whole, Ordered
    <3>4. ASSUME NEW p \in DOMAIN e, e[p].k = "ret", p < m PROVE p < d
      <4>1. PICK o \in 1 .. len : o \in s /\ k[o] = p /\ e[p] = c[o]
        BY <1>4, <1>5
      <4>2. o < n
        BY <1>6, <3>1, <3>4, <4>1
      <4>3. o < q
        BY <1>1, <3>3, <3>4, <4>1, <4>2
      <4>4. QED
        BY <1>7, <3>2, <4>1, <4>3
    <3>5. d < m
      BY <1>7, <3>1, <3>2, <3>3
    <3>6. QED
      BY <3>4, <3>5
  <2>2. QED
    BY <2>1 DEF Ordered
<1>9. JumpsToNext(e)
  <2>1. ASSUME NEW m \in DOMAIN e, e[m].k = "jmp" PROVE m + 1 \in DOMAIN e /\ e[m + 1].k = "label"
    <3>1. PICK n \in 1 .. len : n \in s /\ k[n] = m /\ e[m] = c[n]
      BY <1>4, <1>5
    <3>2. n + 1 \in 1 .. len /\ c[n + 1].k = "label" /\ n + 1 \in s /\ (n + 1) - 1 = n
      <4>1. n \in DOMAIN c /\ c[n].k = "jmp"
        BY <1>1, <2>1, <3>1
      <4>2. n + 1 \in DOMAIN c /\ c[n + 1].k = "label"
        BY <4>1, Zenon DEF Whole, JumpsToNext
      <4>3. QED
        BY <1>1, <4>2
    <3>3. k[n + 1] = m + 1 /\ e[k[n + 1]] = c[n + 1] /\ k[n + 1] \in 0 .. l
      BY <1>2, <1>4, <3>1, <3>2
    <3>4. QED
      BY <1>4, <2>1, <3>2, <3>3
  <2>2. QED
    BY <2>1 DEF JumpsToNext
<1>10. QED
  BY <1>3, <1>8, <1>9 DEF Whole, e

(* What takes nothing out of a function takes no place out.                *)
LEMMA OnlyAll ==
    ASSUME NEW S, NEW c \in Seq(S), NEW s, Only(c, s) = c, NEW x \in DOMAIN c
    PROVE  x \in s
<1>1. PICK len \in Nat : len = Len(c) /\ DOMAIN c = 1 .. len
  OBVIOUS
<1>2. PICK k : /\ k[0] = 0 /\ k[Len(c)] = Len(Only(c, s))
               /\ \A n \in 0 .. Len(c) : k[n] \in 0 .. Len(Only(c, s))
               /\ \A n \in 1 .. Len(c) :
                     IF n \in s THEN k[n] = k[n - 1] + 1 /\ Only(c, s)[k[n]] = c[n] ELSE k[n] = k[n - 1]
               /\ \A n, p \in 0 .. Len(c) : p <= n => k[p] <= k[n]
               /\ \A m \in 1 .. Len(Only(c, s)) : \E n \in 1 .. Len(c) : n \in s /\ k[n] = m
  BY OnlyPlaces, Zenon
<1>3. /\ k[0] = 0 /\ k[len] = len
      /\ \A n \in 0 .. len : k[n] \in Nat
      /\ \A n \in 1 .. len : IF n \in s THEN k[n] = k[n - 1] + 1 ELSE k[n] = k[n - 1]
  <2>1. Len(Only(c, s)) = len
    BY <1>1
  <2>2. \A n \in 0 .. len : k[n] \in 0 .. len
    BY <1>1, <1>2, <2>1
  <2>3. \A n \in 1 .. len : IF n \in s THEN k[n] = k[n - 1] + 1 ELSE k[n] = k[n - 1]
    <3>1. TAKE n \in 1 .. len
    <3>2. CASE n \in s
      BY <1>1, <1>2, <3>2
    <3>3. CASE n \notin s
      BY <1>1, <1>2, <3>3
    <3>4. QED
      BY <3>2, <3>3
  <2>4. QED
    BY <1>1, <1>2, <2>1, <2>2, <2>3, SMTT(30)
<1>4. SUFFICES ASSUME x \notin s PROVE FALSE
  OBVIOUS
<1> DEFINE G == { n \in Nat : n <= len => k[n] <= n /\ (x <= n => k[n] < n) }
<1>5. 0 \in G
  BY <1>1, <1>3
<1>6. ASSUME NEW n \in Nat, n \in G PROVE n + 1 \in G
  <2>1. SUFFICES ASSUME n + 1 <= len PROVE k[n + 1] <= n + 1 /\ (x <= n + 1 => k[n + 1] < n + 1)
    OBVIOUS
  <2>2. /\ n + 1 \in 1 .. len /\ (n + 1) - 1 = n /\ k[n] \in Nat /\ k[n] <= n /\ (x <= n => k[n] < n)
    BY <1>3, <1>6, <2>1
  <2>3. IF n + 1 \in s THEN k[n + 1] = k[n] + 1 ELSE k[n + 1] = k[n]
    BY <1>3, <2>2
  <2>4. x = n + 1 => k[n + 1] = k[n]
    BY <1>4, <2>3
  <2>5. x \in Nat
    BY <1>1
  <2>6. QED
    BY <2>2, <2>3, <2>4, <2>5
<1>7. \A n \in Nat : n \in G
  <2> HIDE DEF G
  <2> QED BY <1>5, <1>6, Induction
<1>8. len \in G
  BY <1>7
<1>9. QED
  BY <1>1, <1>3, <1>8

(* Every word of the 32-bit lowering is read, or cannot be taken out.      *)
Swept(c) == \A n \in DOMAIN c : c[n].wide => ~Dead(c, c[n])

LEMMA SweepWhole ==
    ASSUME Whole(code), Sweep
    PROVE  Whole(code') /\ (phase' = "sweep" \/ (phase' = "strip" /\ Swept(code')))
<1> DEFINE s == { n \in DOMAIN code : ~(Dead(code, code[n]) /\ (pass = 0 \/ code[n].wide)) }
<1>1. code' = Only(code, s) /\ phase' = IF code' = code THEN "strip" ELSE "sweep"
  BY DEF Sweep
<1>2. \A n \in DOMAIN code : code[n].k = "label" => n \in s
  BY DEF Dead, Removable
<1>3. Whole(Only(code, s))
  <2> HIDE DEF s
  <2> QED BY <1>2, OnlyWhole
<1>4. ASSUME code' = code PROVE Swept(code)
  <2>1. SUFFICES ASSUME NEW n \in DOMAIN code, code[n].wide PROVE ~Dead(code, code[n])
    BY DEF Swept
  <2>2. n \in s
    <3> HIDE DEF s
    <3>1. code \in Seq(Insts) /\ Only(code, s) = code
      BY <1>1, <1>4 DEF Whole
    <3>2. QED
      BY <3>1, OnlyAll
  <2>3. QED
    BY <2>1, <2>2
<1> HIDE DEF s
<1>5. CASE code' = code
  BY <1>1, <1>4, <1>5
<1>6. CASE code' # code
  BY <1>1, <1>3, <1>6
<1>7. QED
  BY <1>5, <1>6

(* A word that is reached and read is read by an instruction that is       *)
(* reached: no return is between them.                                     *)
LEMMA StripSwept ==
    ASSUME NEW c, Whole(c), Swept(c)
    PROVE  Swept(Only(c, Reached(c)))
<1>0. PICK R : R = Reached(c)
  OBVIOUS
<1> DEFINE e == Only(c, R)
<1>1. PICK len \in Nat : len = Len(c) /\ c \in Seq(Insts) /\ DOMAIN c = 1 .. len
  BY DEF Whole
<1>2. PICK k : /\ k[0] = 0 /\ k[Len(c)] = Len(Only(c, R))
               /\ \A n \in 0 .. Len(c) : k[n] \in 0 .. Len(Only(c, R))
               /\ \A n \in 1 .. Len(c) :
                     IF n \in R THEN k[n] = k[n - 1] + 1 /\ Only(c, R)[k[n]] = c[n] ELSE k[n] = k[n - 1]
               /\ \A n, p \in 0 .. Len(c) : p <= n => k[p] <= k[n]
               /\ \A m \in 1 .. Len(Only(c, R)) : \E n \in 1 .. Len(c) : n \in R /\ k[n] = m
  <2>1. c \in Seq(Insts)
    BY <1>1
  <2> HIDE DEF e
  <2>2. QED
    BY <2>1, OnlyPlaces, Zenon
<1>3. e \in Seq(Insts)
  BY <1>1, OnlyPlaces
<1> HIDE DEF e
<1>4. PICK l \in Nat : l = Len(e) /\ DOMAIN e = 1 .. l
  BY <1>3
<1>5. /\ \A n \in 1 .. len : n \in R => k[n] \in 1 .. l /\ e[k[n]] = c[n]
      /\ \A m \in 1 .. l : \E n \in 1 .. len : n \in R /\ e[m] = c[n]
  <2>1. \A n \in 0 .. len : k[n] \in 0 .. l
    BY <1>1, <1>2, <1>4 DEF e
  <2>2. \A n \in 1 .. len : n \in R => k[n] = k[n - 1] + 1 /\ e[k[n]] = c[n]
    BY <1>1, <1>2 DEF e
  <2>3. ASSUME NEW n \in 1 .. len, n \in R PROVE k[n] \in 1 .. l
    <3>1. k[n] \in 0 .. l /\ k[n - 1] \in 0 .. l /\ k[n] = k[n - 1] + 1
      BY <2>1, <2>2, <2>3
    <3>2. QED
      BY <3>1
  <2>4. \A m \in 1 .. l : \E n \in 1 .. len : n \in R /\ k[n] = m
    BY <1>1, <1>2, <1>4 DEF e
  <2>5. QED
    BY <2>2, <2>3, <2>4
<1>6. ASSUME NEW m \in DOMAIN e, e[m].wide, Dead(e, e[m]) PROVE FALSE
  <2>1. PICK n \in 1 .. len : n \in R /\ e[m] = c[n]
    BY <1>4, <1>5, <1>6
  <2>2. Removable(c[n]) /\ c[n].dst \notin Used(e) /\ c[n].dst \in Used(c)
    BY <1>1, <1>6, <2>1 DEF Dead, Swept
  <2>3. c[n].dst # NoReg
    <3>1. c[n] \in Insts /\ c[n].k \in Defining
      BY <1>1, <2>2 DEF Removable, Defining
    <3>2. QED
      BY <3>1, InstFields DEF Formed
  <2>4. PICK q \in 1 .. len : c[n].dst \in {c[q].a, c[q].b}
    BY <1>1, <2>2 DEF Used
  <2>5. q \notin R
    <3>1. SUFFICES ASSUME q \in R PROVE FALSE
      OBVIOUS
    <3>2. k[q] \in DOMAIN e /\ e[k[q]] = c[q]
      BY <1>4, <1>5, <3>1
    <3>3. QED
      BY <2>2, <2>4, <3>2 DEF Used
  <2>6. PICK p \in 1 .. q - 1 : c[p].k \in {"ret", "jmp"} /\ \A h \in p + 1 .. q : c[h].k # "label"
    BY <1>0, <1>1, <2>5 DEF Reached
  <2>7. p \in DOMAIN c /\ p + 1 \in p + 1 .. q
    BY <1>1
  <2>8. c[p].k = "ret"
    BY <2>6, <2>7 DEF Whole, JumpsToNext
  <2>9. n < q /\ p < n
    <3>1. n \in DOMAIN c /\ q \in DOMAIN c /\ c[n].dst \in Operands(c[q])
      BY <1>1, <2>3, <2>4 DEF Operands
    <3>2. p < q
      OBVIOUS
    <3>3. QED
      BY <2>7, <2>8, <3>1, <3>2 DEF Whole, Ordered
  <2>10. \E h \in p + 1 .. n : c[h].k = "label"
    BY <1>0, <2>1, <2>6, <2>9 DEF Reached
  <2>11. QED
    BY <2>6, <2>9, <2>10
<1>7. QED
  BY <1>0, <1>6 DEF Swept, e

LEMMA StripWhole ==
    ASSUME Whole(code), Swept(code), Strip
    PROVE  Whole(code') /\ Swept(code') /\ phase' = "done"
<1>1. code' = Only(code, Reached(code)) /\ phase' = "done"
  BY DEF Strip, strip_unreachable
<1>2. \A n \in DOMAIN code : code[n].k = "label" => n \in Reached(code)
  <2>1. SUFFICES ASSUME NEW n \in DOMAIN code, code[n].k = "label", NEW p \in 1 .. n - 1
                 PROVE  \E l \in p + 1 .. n : code[l].k = "label"
    BY DEF Reached
  <2>2. n \in Nat
    BY CodeFields DEF Whole
  <2>3. n \in p + 1 .. n
    BY <2>2
  <2>4. QED
    BY <2>1, <2>3
<1>3. Whole(Only(code, Reached(code))) /\ Swept(Only(code, Reached(code)))
  BY <1>2, OnlyWhole, StripSwept
<1>4. QED
  BY <1>1, <1>3

-----------------------------------------------------------------------------
(* The code of a function through its phases.                              *)
FunctionOK ==
    /\ phase \in {"build", "fold", "sweep", "strip", "done"}
    /\ phase = "build" => BuildOK(code, build)
    /\ phase # "build" => Whole(code)
    /\ phase \in {"strip", "done"} => Swept(code)

LEMMA FunctionStarts == Init => FunctionOK
<1>1. SUFFICES ASSUME Init PROVE BuildOK(code, build)
  BY DEF Init, FunctionOK
<1>2. PICK v \in Vocabulary :
        build = [stack |-> <<>>, regs |-> 0, labels |-> 0, statements |-> 0, words |-> v,
                 arm |-> "none", merge |-> NoReg, floor |-> 0, armType |-> U16]
  BY <1>1, OptimizerAssumption DEF Init
<1>3. code = <<>> /\ code \in Seq(Insts) /\ DOMAIN code = {}
  BY <1>1 DEF Init
<1>4. <<>> \in Seq(Entries) /\ Len(<<>>) = 0 /\ DOMAIN <<>> = {}
  OBVIOUS
<1>5. build \in Builder
  BY <1>2, <1>4, SomeTypes, OptimizerAssumption DEF Builder, Arms, NoReg
<1>6. OnStack(build) = {} /\ Live(build) = {} /\ build.floor = 0 /\ build.arm = "none" /\ Len(build.stack) = 0
  BY <1>2, <1>4 DEF OnStack, Live
<1>7. QED
  BY <1>3, <1>5, <1>6 DEF BuildOK, Numbered, Ordered, Recent, JumpsToNext

LEMMA FunctionStep == FunctionOK /\ [Next]_vars => FunctionOK'
<1>1. SUFFICES ASSUME FunctionOK, [Next]_vars PROVE FunctionOK'
  OBVIOUS
<1>2. CASE Build
  <2>1. phase = "build"
    BY <1>2 DEF Build, Literal, Read, CastTo, Unary, Binary, WideSum, Push, Emit, OpenTernary, MiddleOfTernary,
                CloseTernary, Assign, Return, EndStatement, Close, Building
  <2>2. Builds' \/ (phase' = "fold" /\ Whole(code'))
    BY <1>1, <1>2, <2>1, BuildStep DEF FunctionOK, Builds
  <2>3. QED
    BY <2>2 DEF FunctionOK, Builds
<1>3. CASE Fold
  <2>1. Whole(code)
    BY <1>1, <1>3 DEF FunctionOK, Fold
  <2>2. QED
    BY <1>3, <2>1, FoldWhole DEF FunctionOK
<1>4. CASE Sweep
  <2>1. Whole(code)
    BY <1>1, <1>4 DEF FunctionOK, Sweep
  <2>2. QED
    BY <1>4, <2>1, SweepWhole DEF FunctionOK
<1>5. CASE Strip
  <2>1. Whole(code) /\ Swept(code)
    BY <1>1, <1>5 DEF FunctionOK, Strip
  <2>2. QED
    BY <1>5, <2>1, StripWhole DEF FunctionOK
<1>6. CASE UNCHANGED vars
  BY <1>1, <1>6 DEF FunctionOK, vars, BuildOK, Numbered, Live, OnStack
<1>7. QED
  BY <1>1, <1>2, <1>3, <1>4, <1>5, <1>6 DEF Next

THEOREM FunctionsStayWhole == Spec => []FunctionOK
<1>1. Init => FunctionOK
  BY FunctionStarts
<1>2. FunctionOK /\ [Next]_vars => FunctionOK'
  BY FunctionStep
<1>3. QED
  BY <1>1, <1>2, PTL DEF Spec

THEOREM HalvesSweptAway == Spec => []NoDeadHalves
<1>1. FunctionOK => NoDeadHalves
  BY DEF FunctionOK, NoDeadHalves, Swept, ToSet
<1>2. QED
  BY <1>1, FunctionsStayWhole, PTL

-----------------------------------------------------------------------------
(* What an instruction computes is a word.                                 *)

LEMMA ModWord == ASSUME NEW n \in Int PROVE n % WordMod \in Words
<1>1. PICK m \in Nat \ {0} : m = WordMod
  BY Widths
<1>2. n % m \in 0 .. m - 1
  BY DivParts
<1>3. QED
  BY <1>1, <1>2 DEF Words

LEMMA WordIs ==
    /\ \A w \in Words : w \in Nat /\ w < WordMod /\ w % WordMod = w
    /\ \A n \in Nat : n < WordMod => n \in Words
    /\ 0 \in Words /\ 1 \in Words
<1>1. PICK m \in Nat \ {0} : m = WordMod /\ m >= 2
  BY Widths
<1>2. ASSUME NEW w \in Words PROVE w \in Nat /\ w < WordMod /\ w % WordMod = w
  <2>1. w \in Nat /\ w < m
    BY <1>1, <1>2 DEF Words
  <2>2. w % m = w
    BY <2>1, ModSmall
  <2>3. QED
    BY <1>1, <2>1, <2>2
<1>3. QED
  BY <1>1, <1>2 DEF Words

(* An extended byte depends on its low byte, keeps it and stays.           *)
LEMMA ExtendedIs ==
    ASSUME NEW w \in Int, NEW s \in BOOLEAN
    PROVE  /\ Extended(w, s) \in Words
           /\ \A u \in Int : u % ByteMod = w % ByteMod => Extended(u, s) = Extended(w, s)
           /\ Extended(w, s) % ByteMod = w % ByteMod
           /\ Extended(Extended(w, s), s) = Extended(w, s)
           /\ (w % WordMod) % ByteMod = w % ByteMod
           /\ Extended(w % WordMod, s) = Extended(w, s)
<1>1. PICK m \in Nat \ {0}, y \in Nat \ {0} : m = WordMod /\ y = ByteMod /\ y < m /\ m % y = 0
  BY Widths
<1>2. PICK k \in Int : m = k * y
  <2>1. m = (m \div y) * y + 0 /\ m \div y \in Int
    BY <1>1, DivParts
  <2>2. PICK k \in Int : k = m \div y
    BY <2>1
  <2>3. QED
    BY <2>1, <2>2
<1>3. PICK b \in Nat : b = w % y /\ b < y
  BY DivParts
<1>4. b % y = b /\ (b + m - y) % y = b
  <2>1. b % y = b
    BY <1>3, ModSmall
  <2>2. (k - 1) * y = k * y - y
    BY <1>1, <1>2
  <2>3. PICK c \in Int, j \in Int : c = b + m - y /\ j = k - 1
    OBVIOUS
  <2>5. c = j * y + b
    BY <1>2, <2>2, <2>3
  <2>6. b \in Int
    OBVIOUS
  <2>4. c % y = b % y
    BY <2>5, <2>6, ModSame, Zenon
  <2>7. QED
    BY <2>1, <2>3, <2>4
<1>5. PICK h \in Int : h = ByteMod \div 2
  BY <1>1
<1>6. Extended(w, s) = IF s /\ b >= h THEN b + m - y ELSE b
  BY <1>1, <1>3, <1>5 DEF Extended
<1>7. Extended(w, s) \in Words
  BY <1>1, <1>3, <1>6 DEF Words
<1>8. ASSUME NEW u \in Int, u % ByteMod = w % ByteMod PROVE Extended(u, s) = Extended(w, s)
  BY <1>8 DEF Extended
<1>9. Extended(w, s) % ByteMod = w % ByteMod
  BY <1>1, <1>3, <1>4, <1>6
<1>10. Extended(Extended(w, s), s) = Extended(w, s)
  <2>1. Extended(w, s) \in Int
    BY ExtendedIsInt
  <2>2. QED
    BY <1>8, <1>9, <2>1
<1>11. (w % WordMod) % ByteMod = w % ByteMod
  <2>1. PICK q \in Int, r \in Nat : w = q * m + r /\ r = w % m
    BY DivPick
  <2>2. w = (q * k) * y + r /\ q * k \in Int
    <3>1. q * (k * y) = (q * k) * y
      BY <1>1, <1>2
    <3>2. q * k \in Int
      OBVIOUS
    <3>3. QED
      BY <1>2, <2>1, <3>1, <3>2
  <2>3. PICK p \in Int : p = q * k /\ w = p * y + r
    BY <2>2
  <2>4. w % y = r % y
    <3>1. r \in Int /\ w = p * y + r
      BY <2>3
    <3>2. QED
      BY <3>1, ModSame, Zenon
  <2>5. QED
    BY <1>1, <2>1, <2>4
<1>12. Extended(w % WordMod, s) = Extended(w, s)
  <2>1. w % WordMod \in Int
    BY Widths
  <2>2. QED
    BY <1>8, <1>11, <2>1
<1>13. QED
  BY <1>7, <1>8, <1>9, <1>10, <1>11, <1>12

LEMMA AndBelow ==
    ASSUME NEW a, NEW b
    PROVE  \A n \in Nat : BitsOp("and", a, b, n) \in Nat /\ BitsOp("and", a, b, n) < 2^n
<1> DEFINE G == { n \in Nat : BitsOp("and", a, b, n) \in Nat /\ BitsOp("and", a, b, n) < 2^n }
<1>1. 0 \in G
  BY AndByOne, PowerZero
<1>2. ASSUME NEW n \in Nat, n \in G PROVE n + 1 \in G
  <2>1. PICK p \in Nat : p = 2^n /\ 2^(n + 1) = 2 * p
    BY PowerStep
  <2>2. PICK v \in Nat : v = BitsOp("and", a, b, n) /\ v < p
    BY <1>2, <2>1
  <2>3. BitsOp("and", a, b, n + 1) = (IF Holds(a, n) /\ Holds(b, n) THEN p ELSE 0) + v
    BY AndByOne, <2>1, <2>2
  <2>4. BitsOp("and", a, b, n + 1) \in Nat /\ BitsOp("and", a, b, n + 1) < 2 * p
    BY <2>2, <2>3
  <2>5. QED
    BY <2>1, <2>4
<1>3. \A n \in Nat : n \in G
  <2> HIDE DEF G
  <2> QED BY <1>1, <1>2, Induction
<1>4. QED
  BY <1>3

LEMMA AndIsWord == ASSUME NEW a, NEW b PROVE BitsOp("and", a, b, WordBits) \in Words
<1>1. PICK n \in Nat : n = WordBits /\ WordMod = 2^n
  BY Widths
<1>2. BitsOp("and", a, b, n) \in Nat /\ BitsOp("and", a, b, n) < 2^n
  BY AndBelow
<1>3. QED
  BY <1>1, <1>2, WordIs

LEMMA SignedIs ==
    ASSUME NEW w \in Words, NEW s \in BOOLEAN
    PROVE  /\ SignedWord(w) \in Int /\ Number(w, s) \in Int
           /\ Number(w, s) = 0 <=> w = 0
           /\ Number(w, s) % WordMod = w
<1>1. PICK m \in Nat \ {0}, h \in Nat \ {0} : m = WordMod /\ h = SignBit /\ m = 2 * h
  BY Widths
<1>2. w \in Nat /\ w < m /\ w % m = w
  BY <1>1, WordIs
<1>3. (w - m) % m = w
  BY <1>1, <1>2, ModUnique, w - m = (-1) * m + w
<1>4. SignedWord(w) = IF w >= h THEN w - m ELSE w
  BY <1>1 DEF SignedWord
<1>5. QED
  BY <1>1, <1>2, <1>3, <1>4 DEF Number

LEMMA ProductIsWord == ASSUME NEW a \in Words, NEW b \in Words, NEW s \in BOOLEAN PROVE Product(a, b,
  s).lo \in Words
<1>1. PICK m \in Nat \ {0} : m = WordMod
  BY Widths
<1>2. PICK p \in Nat \ {0} : p = PairMod
  BY <1>1, Positive DEF PairMod
<1>3. PICK x \in Int : x = IF s THEN SignedWord(a) * SignedWord(b) ELSE a * b
  <2>1. PICK c \in Int, d \in Int : c = SignedWord(a) /\ d = SignedWord(b)
    BY SignedIs
  <2>2. a \in Int /\ b \in Int
    BY WordIs
  <2>3. c * d \in Int /\ a * b \in Int
    BY <2>2
  <2>4. QED
    BY <2>1, <2>3
<1>4. x % p \in Int
  BY <1>2
<1>5. Product(a, b, s).lo = (x % p) % WordMod
  BY <1>2, <1>3 DEF Product
<1>6. QED
  BY <1>4, <1>5, ModWord

LEMMA ShiftsAreWords ==
    ASSUME NEW a \in Words, NEW k \in Nat
    PROVE  Shl(a, k) \in Words /\ Shr(a, k) \in Words /\ Ashr(a, k) \in Words
<1>1. PICK p \in Nat \ {0} : p = 2^k
  BY Power
<1>2. a \in Nat /\ a < WordMod /\ SignedWord(a) \in Int
  BY WordIs, SignedIs
<1>3. a * p \in Int /\ a \div p \in Nat /\ a \div p <= a /\ SignedWord(a) \div p \in Int
  BY <1>1, <1>2, DivPositive
<1>4. Shr(a, k) \in Words
  BY <1>1, <1>2, <1>3, WordIs, Widths DEF Shr
<1>5. QED
  BY <1>1, <1>3, <1>4, ModWord DEF Shl, Ashr

Machines == [regs : [0 .. MaxRegs -> Words], mem : [Variable -> Words], carry : {0, 1},
             goal : Nat, returned : BOOLEAN, result : Int]

Active(m) == ~m.returned /\ m.goal = 0

(* The word that an instruction with a destination leaves there.           *)
Written(m, i) ==
    LET A == m.regs[i.a]
        B == m.regs[i.b]
    IN  CASE i.k = "const" -> i.imm % WordMod
          [] i.k = "load"  -> IF i.to.size = 1 THEN Extended(m.mem[i.op], i.to.signed) ELSE m.mem[i.op]
          [] i.k = "cast"  -> RunCast(A, i.from, i.to)
          [] i.k = "unop"  -> RunUnop(i.op, A)
          [] i.k = "binop" -> RunBinop(i.op, A, B, i.imm, i.to.signed)
          [] i.k = "mov"   -> A
          [] i.k = "carry" -> AddC(A, B, IF i.imm = 1 THEN m.carry ELSE 0).res

Carried(m, i) ==
    IF i.k = "carry" THEN AddC(m.regs[i.a], m.regs[i.b], IF i.imm = 1 THEN m.carry ELSE 0).c ELSE m.carry

LEMMA MachineIs ==
    ASSUME NEW m \in Machines
    PROVE  /\ m.regs \in [0 .. MaxRegs -> Words] /\ m.mem \in [Variable -> Words] /\ m.carry \in {0, 1}
           /\ m.goal \in Nat /\ m.returned \in BOOLEAN /\ m.result \in Int
           /\ DOMAIN m.regs = 0 .. MaxRegs /\ DOMAIN m.mem = Variable
           /\ \A r \in 0 .. MaxRegs : m.regs[r] \in Words
           /\ \A x \in Variable : m.mem[x] \in Words
BY DEF Machines

LEMMA UnopIsWord == ASSUME NEW op \in Unaries, NEW a \in Words PROVE RunUnop(op, a) \in Words
<1>1. a \in Nat /\ a < WordMod /\ WordMod \in Nat
  BY WordIs, Widths
<1>2. CASE op = "neg"
  <2>1. (0 - a - 0) % WordMod \in Words
    BY <1>1, ModWord
  <2>2. QED
    BY <1>2, <2>1 DEF RunUnop, SubC
<1>3. CASE op = "bnot"
  BY <1>1, <1>3, WordIs DEF RunUnop
<1>4. CASE op = "not"
  BY <1>4, WordIs DEF RunUnop, Bit
<1>5. QED
  BY <1>2, <1>3, <1>4 DEF Unaries

LEMMA BinopIsWord ==
    ASSUME NEW op \in Binaries, NEW a \in Words, NEW b \in Words, NEW imm, NEW s \in BOOLEAN
    PROVE  RunBinop(op, a, b, imm, s) \in Words
<1>1. a \in Nat /\ b \in Nat /\ b % WordBits \in Nat
  BY WordIs, Widths
<1>2. CASE op = "add"
  <2>1. (a + b + 0) % WordMod \in Words
    BY <1>1, ModWord
  <2>2. QED
    BY <1>2, <2>1 DEF RunBinop, AddC
<1>3. CASE op = "sub"
  <2>1. (a - b - 0) % WordMod \in Words
    BY <1>1, ModWord
  <2>2. QED
    BY <1>3, <2>1 DEF RunBinop, SubC
<1>4. CASE op = "mul"
  BY <1>4, ProductIsWord DEF RunBinop
<1>5. CASE op = "div"
  <2>1. CASE b = 0
    BY <1>5, <2>1, WordIs DEF RunBinop
  <2>2. CASE b # 0
    <3>1. PICK x \in Int, y \in Int : x = Number(a, s) /\ y = Number(b, s) /\ y # 0
      BY <2>2, SignedIs
    <3>2. Quotient(x, y) % WordMod \in Words
      BY <3>1, QuotientIsInt, ModWord
    <3>3. QED
      BY <1>5, <2>2, <3>1, <3>2 DEF RunBinop
  <2>3. QED
    BY <2>1, <2>2
<1>6. CASE op = "and"
  BY <1>6, AndIsWord DEF RunBinop
<1>7. CASE op = "shl"
  BY <1>1, <1>7, ShiftsAreWords DEF RunBinop
<1>8. CASE op = "shr"
  BY <1>1, <1>8, ShiftsAreWords DEF RunBinop
<1>9. CASE op = "eq"
  BY <1>9, WordIs DEF RunBinop, Bit
<1>10. CASE op = "lt"
  BY <1>10, WordIs DEF RunBinop, Bit
<1>11. QED
  BY <1>2, <1>3, <1>4, <1>5, <1>6, <1>7, <1>8, <1>9, <1>10 DEF Binaries

LEMMA CastIsWord ==
    ASSUME NEW a \in Words, NEW from \in Types, NEW to \in Types
    PROVE  RunCast(a, from, to) \in Words
<1>1. a \in Int /\ to.signed \in BOOLEAN /\ TRUE \in BOOLEAN
  BY WordIs, TypesAre
<1>2. QED
  BY <1>1, ExtendedIs DEF RunCast

LEMMA CarryIs ==
    ASSUME NEW a \in Words, NEW b \in Words, NEW c \in {0, 1}
    PROVE  AddC(a, b, c).res \in Words /\ AddC(a, b, c).c \in {0, 1}
<1>1. (a + b + c) % WordMod \in Words
  BY WordIs, ModWord
<1>2. QED
  BY <1>1 DEF AddC, Bit

LEMMA WrittenIsWord ==
    ASSUME NEW m \in Machines, NEW i \in Insts, i.k \in Defining
    PROVE  Written(m, i) \in Words /\ Carried(m, i) \in {0, 1}
<1>1. /\ i.k \in Kinds /\ i.a \in 0 .. MaxRegs /\ i.b \in 0 .. MaxRegs /\ i.imm \in Int
      /\ i.from \in Types /\ i.to \in Types /\ Formed(i) /\ i.to.signed \in BOOLEAN
  BY InstFields, TypesAre
<1>2. PICK A \in Words, B \in Words : A = m.regs[i.a] /\ B = m.regs[i.b]
  BY <1>1, MachineIs
<1>3. (IF i.imm = 1 THEN m.carry ELSE 0) \in {0, 1} /\ m.carry \in {0, 1}
  BY MachineIs
<1>4. Carried(m, i) \in {0, 1}
  BY <1>2, <1>3, CarryIs DEF Carried
<1> SUFFICES Written(m, i) \in Words
  BY <1>4
<1>5. CASE i.k = "const"
  BY <1>1, <1>5, ModWord DEF Written
<1>6. CASE i.k = "load"
  <2>1. m.mem[i.op] \in Words /\ m.mem[i.op] \in Int
    BY <1>1, <1>6, MachineIs, WordIs DEF Formed
  <2>2. QED
    BY <1>1, <1>6, <2>1, ExtendedIs DEF Written
<1>7. CASE i.k = "cast"
  BY <1>1, <1>2, <1>7, CastIsWord DEF Written
<1>8. CASE i.k = "unop"
  BY <1>1, <1>2, <1>8, UnopIsWord DEF Written, Formed
<1>9. CASE i.k = "binop"
  BY <1>1, <1>2, <1>9, BinopIsWord DEF Written, Formed
<1>10. CASE i.k = "mov"
  BY <1>2, <1>10 DEF Written
<1>11. CASE i.k = "carry"
  BY <1>2, <1>3, <1>11, CarryIs DEF Written
<1>12. QED
  BY <1>5, <1>6, <1>7, <1>8, <1>9, <1>10, <1>11 DEF Defining

(* A machine that has returned or looks for a label.                       *)
LEMMA IdleRuns ==
    ASSUME NEW m \in Machines, NEW i, ~Active(m)
    PROVE  LET e == Run1(m, i)
           IN  /\ e \in Machines
               /\ IF ~m.returned /\ i.k = "label" /\ i.label = m.goal THEN e = [m EXCEPT !.goal = 0] ELSE e = m
               /\ e.regs = m.regs /\ e.mem = m.mem /\ e.carry = m.carry /\ e.result = m.result
               /\ e.returned = m.returned
               /\ e.goal = IF ~m.returned /\ i.k = "label" /\ i.label = m.goal THEN 0 ELSE m.goal
BY Zenon, SMT DEF Active, Machines, Run1

(* The machine e after the instruction i has left a word in its register.  *)
Assigned(e, m, i) ==
    /\ i.dst \in 1 .. MaxRegs /\ e.regs[i.dst] = Written(m, i)
    /\ \A r \in 0 .. MaxRegs : r # i.dst => e.regs[r] = m.regs[r]
    /\ e.mem = m.mem /\ e.carry = Carried(m, i) /\ e.result = m.result
    /\ ~e.returned /\ e.goal = 0

LEMMA DefiningRuns ==
    ASSUME NEW m \in Machines, NEW i \in Insts, Active(m), i.k \in Defining
    PROVE  LET e == Run1(m, i)
           IN  /\ e = [m EXCEPT !.regs = [m.regs EXCEPT ![i.dst] = Written(m, i)], !.carry = Carried(m, i)]
               /\ e \in Machines
               /\ Assigned(e, m, i)
<1> DEFINE e == Run1(m, i)
<1>1. i.dst \in 0 .. MaxRegs /\ i.dst # 0
  BY InstFields DEF Formed, NoReg
<1>2. Written(m, i) \in Words /\ Carried(m, i) \in {0, 1}
  BY WrittenIsWord
<1>3. e = [m EXCEPT !.regs = [m.regs EXCEPT ![i.dst] = Written(m, i)], !.carry = Carried(m, i)]
  <2> USE DEF Run1, Written, Carried, Active, Machines
  <2>1. CASE i.k = "const"
    BY <2>1
  <2>2. CASE i.k = "load"
    BY <2>2
  <2>3. CASE i.k = "cast"
    BY <2>3
  <2>4. CASE i.k = "unop"
    BY <2>4
  <2>5. CASE i.k = "binop"
    BY <2>5
  <2>6. CASE i.k = "mov"
    BY <2>6
  <2>7. CASE i.k = "carry"
    BY <2>7
  <2>8. QED
    BY <2>1, <2>2, <2>3, <2>4, <2>5, <2>6, <2>7 DEF Defining
<1>4. PICK w \in Words, c \in {0, 1} : w = Written(m, i) /\ c = Carried(m, i)
  BY <1>2
<1>5. PICK R \in [0 .. MaxRegs -> Words] : R = [m.regs EXCEPT ![i.dst] = w]
  BY <1>1, MachineIs
<1>6. e = [m EXCEPT !.regs = R, !.carry = c]
  BY <1>3, <1>4, <1>5
<1> HIDE DEF e
<1>7. /\ e \in Machines /\ e.regs = R /\ e.carry = c /\ e.mem = m.mem /\ e.result = m.result
      /\ e.returned = m.returned /\ e.goal = m.goal
  BY <1>6 DEF Machines
<1>8. R[i.dst] = w /\ \A r \in 0 .. MaxRegs : r # i.dst => R[r] = m.regs[r]
  BY <1>1, <1>5, MachineIs
<1>9. ~m.returned /\ m.goal = 0
  BY DEF Active
<1>10. QED
  BY <1>1, <1>3, <1>4, <1>5, <1>7, <1>8, <1>9 DEF e, Assigned

LEMMA ControlRuns ==
    ASSUME NEW m \in Machines, NEW i \in Insts, Active(m), i.k \notin Defining
    PROVE  LET e == Run1(m, i)
           IN  /\ e \in Machines
               /\ i.k = "store" => e = [m EXCEPT !.mem[i.op] = IF i.to.size = 1 THEN m.regs[i.a] % ByteMod
                                                               ELSE m.regs[i.a]]
               /\ i.k = "label" => e = m
               /\ i.k = "jmp" => e = [m EXCEPT !.goal = i.label]
               /\ i.k = "cjmp" => e = [m EXCEPT !.goal = IF m.regs[i.a] # 0 THEN i.label ELSE i.other]
               /\ i.k = "ret" => e = [m EXCEPT !.returned = TRUE,
                                               !.result = IF i.a = NoReg THEN NONE ELSE m.regs[i.a]]
               /\ e.regs = m.regs /\ e.carry = m.carry
               /\ e.mem = IF i.k = "store"
                          THEN [m.mem EXCEPT ![i.op] = IF i.to.size = 1 THEN m.regs[i.a] % ByteMod ELSE m.regs[i.a]]
                          ELSE m.mem
               /\ e.result = IF i.k = "ret" THEN IF i.a = NoReg THEN NONE ELSE m.regs[i.a] ELSE m.result
               /\ IF i.k = "ret" THEN e.returned ELSE ~e.returned
               /\ e.goal = IF i.k = "jmp" THEN i.label
                           ELSE IF i.k = "cjmp" THEN IF m.regs[i.a] # 0 THEN i.label ELSE i.other
                           ELSE 0
<1> DEFINE e == Run1(m, i)
<1>1. /\ i.k \in Kinds /\ i.a \in 0 .. MaxRegs /\ i.label \in Nat /\ i.other \in Nat
      /\ i.k = "store" => i.op \in Variable
  BY InstFields DEF Formed
<1>2. PICK A \in Words : A = m.regs[i.a]
  BY <1>1, MachineIs
<1>3. m.returned = FALSE /\ m.goal = 0
  BY MachineIs DEF Active
<1>4. A \in Int /\ A % ByteMod \in Words /\ NONE \in Int
  <2>1. A \in Nat /\ A < WordMod /\ ByteMod \in Nat \ {0}
    BY WordIs, Widths
  <2>2. A % ByteMod \in Nat /\ A % ByteMod <= A
    BY <2>1
  <2>3. A % ByteMod < WordMod
    BY <2>1, <2>2, Widths
  <2>4. QED
    BY <2>1, <2>2, <2>3, WordIs DEF NONE
<1>5. CASE i.k = "store"
  <2>1. PICK w \in Words : w = IF i.to.size = 1 THEN A % ByteMod ELSE A
    BY <1>4
  <2>2. e = [m EXCEPT !.mem[i.op] = w]
    BY <1>2, <1>3, <1>5, <2>1 DEF Run1
  <2>3. PICK M \in [Variable -> Words] : M = [m.mem EXCEPT ![i.op] = w]
    BY <1>1, <1>5, MachineIs
  <2>4. e = [m EXCEPT !.mem = M]
    BY <2>2, <2>3 DEF Machines
  <2> HIDE DEF e
  <2>5. /\ e \in Machines /\ e.mem = M /\ e.regs = m.regs /\ e.carry = m.carry /\ e.result = m.result
        /\ e.returned = m.returned /\ e.goal = m.goal
    BY <2>4 DEF Machines
  <2>6. QED
    BY <1>2, <1>3, <1>5, <2>1, <2>2, <2>3, <2>5 DEF e
<1>6. CASE i.k = "label"
  <2>1. e = m
    BY <1>3, <1>6 DEF Run1
  <2>2. QED
    BY <1>3, <1>6, <2>1
<1>7. CASE i.k = "jmp"
  <2>1. e = [m EXCEPT !.goal = i.label]
    BY <1>3, <1>7 DEF Run1
  <2> HIDE DEF e
  <2>2. /\ e \in Machines /\ e.mem = m.mem /\ e.regs = m.regs /\ e.carry = m.carry /\ e.result = m.result
        /\ e.returned = m.returned /\ e.goal = i.label
    BY <1>1, <2>1 DEF Machines
  <2>3. QED
    BY <1>3, <1>7, <2>1, <2>2 DEF e
<1>8. CASE i.k = "cjmp"
  <2>1. PICK g \in Nat : g = IF A # 0 THEN i.label ELSE i.other
    BY <1>1
  <2>2. e = [m EXCEPT !.goal = g]
    BY <1>2, <1>3, <1>8, <2>1 DEF Run1
  <2> HIDE DEF e
  <2>3. /\ e \in Machines /\ e.mem = m.mem /\ e.regs = m.regs /\ e.carry = m.carry /\ e.result = m.result
        /\ e.returned = m.returned /\ e.goal = g
    BY <2>2 DEF Machines
  <2>4. QED
    BY <1>2, <1>3, <1>8, <2>1, <2>2, <2>3 DEF e
<1>9. CASE i.k = "ret"
  <2>1. PICK v \in Int : v = IF i.a = NoReg THEN NONE ELSE A
    BY <1>4
  <2>2. e = [m EXCEPT !.returned = TRUE, !.result = v]
    BY <1>2, <1>3, <1>9, <2>1 DEF Run1
  <2> HIDE DEF e
  <2>3. /\ e \in Machines /\ e.mem = m.mem /\ e.regs = m.regs /\ e.carry = m.carry /\ e.result = v
        /\ e.returned = TRUE /\ e.goal = m.goal
    BY <2>2 DEF Machines
  <2>4. QED
    BY <1>2, <1>3, <1>9, <2>1, <2>2, <2>3 DEF e
<1>10. QED
  BY <1>1, <1>5, <1>6, <1>7, <1>8, <1>9 DEF Kinds, Defining

(* What an instruction that defines no register does to the machine m.     *)
Steered(e, m, i) ==
    /\ e.regs = m.regs
    /\ e.mem = IF i.k = "store"
               THEN [m.mem EXCEPT ![i.op] = IF i.to.size = 1 THEN m.regs[i.a] % ByteMod ELSE m.regs[i.a]]
               ELSE m.mem
    /\ e.result = IF i.k = "ret" THEN IF i.a = NoReg THEN NONE ELSE m.regs[i.a] ELSE m.result
    /\ IF i.k = "ret" THEN e.returned ELSE ~e.returned
    /\ e.goal = IF i.k = "jmp" THEN i.label
                ELSE IF i.k = "cjmp" THEN IF m.regs[i.a] # 0 THEN i.label ELSE i.other
                ELSE 0

LEMMA ControlSteers ==
    ASSUME NEW m \in Machines, NEW i \in Insts, Active(m), i.k \notin Defining
    PROVE  Steered(Run1(m, i), m, i)
BY ControlRuns, Zenon DEF Steered

LEMMA CalledIs ==
    ASSUME NEW memory \in Memories
    PROVE  Called(memory) \in Machines /\ Active(Called(memory)) /\ Called(memory).mem = memory
<1>1. memory \in [Variable -> Words]
  BY OptimizerAssumption
<1>2. Regs \cup {NoReg} = 0 .. MaxRegs
  BY OptimizerAssumption DEF Regs, NoReg
<1>3. [r \in Regs \cup {NoReg} |-> 0] \in [0 .. MaxRegs -> Words]
  BY <1>2, WordIs
<1>4. QED
  BY <1>1, <1>3 DEF Called, Machines, Active, NONE

LEMMA RunIs ==
    ASSUME NEW m \in Machines, NEW i \in Insts
    PROVE  Run1(m, i) \in Machines
<1>1. CASE ~Active(m)
  BY <1>1, IdleRuns
<1>2. CASE Active(m) /\ i.k \in Defining
  BY <1>2, DefiningRuns
<1>3. CASE Active(m) /\ i.k \notin Defining
  BY <1>3, ControlRuns
<1>4. QED
  BY <1>1, <1>2, <1>3

(* The machine from one instruction of the code to the next.               *)
LEMMA RanIs ==
    ASSUME NEW c \in Seq(Insts), NEW memory \in Memories
    PROVE  /\ Ran(c, memory)[0] = Called(memory)
           /\ \A n \in 0 .. Len(c) : Ran(c, memory)[n] \in Machines
           /\ \A n \in Nat : n + 1 \in DOMAIN c =>
                 /\ c[n + 1] \in Insts
                 /\ Ran(c, memory)[n] \in Machines
                 /\ Ran(c, memory)[n + 1] \in Machines
                 /\ Ran(c, memory)[n + 1] = Run1(Ran(c, memory)[n], c[n + 1])
<1>1. PICK len \in Nat : len = Len(c) /\ DOMAIN c = 1 .. len
  OBVIOUS
<1>2. PICK m : m = Ran(c, memory)
  OBVIOUS
<1>3. m[0] = Called(memory) /\ \A n \in 1 .. len : m[n] = Run1(m[n - 1], c[n])
  BY <1>1, <1>2, RanStep
<1> DEFINE G == { n \in Nat : n <= len => m[n] \in Machines }
<1>4. 0 \in G
  BY <1>3, CalledIs
<1>5. ASSUME NEW n \in Nat, n \in G PROVE n + 1 \in G
  <2>1. SUFFICES ASSUME n + 1 <= len PROVE m[n + 1] \in Machines
    OBVIOUS
  <2>2. n + 1 \in 1 .. len /\ (n + 1) - 1 = n /\ c[n + 1] \in Insts /\ m[n] \in Machines
    BY <1>1, <1>5, <2>1
  <2>3. m[n + 1] = Run1(m[n], c[n + 1])
    BY <1>3, <2>2
  <2>4. QED
    BY <2>2, <2>3, RunIs
<1>6. \A n \in Nat : n \in G
  <2> HIDE DEF G
  <2> QED BY <1>4, <1>5, Induction
<1>7. ASSUME NEW n \in Nat, n + 1 \in DOMAIN c
      PROVE  c[n + 1] \in Insts /\ m[n] \in Machines /\ m[n + 1] \in Machines /\ m[n + 1] = Run1(m[n], c[n + 1])
  <2>1. n + 1 \in 1 .. len /\ (n + 1) - 1 = n /\ c[n + 1] \in Insts /\ n <= len /\ n + 1 <= len
    BY <1>1, <1>7
  <2>2. QED
    BY <1>3, <1>6, <2>1
<1>8. QED
  BY <1>1, <1>2, <1>3, <1>6, <1>7

(* What is left of a function runs as it did when the places left out did  *)
(* nothing there.                                                          *)
LEMMA StripKeeps ==
    ASSUME NEW c, Whole(c), NEW memory \in Memories
    PROVE  Observed(Only(c, Reached(c)), memory) = Observed(c, memory)
<1> DEFINE s == Reached(c)
           e == Only(c, s)
<1>1. PICK len \in Nat : len = Len(c) /\ c \in Seq(Insts) /\ DOMAIN c = 1 .. len
  BY DEF Whole
<1> HIDE DEF s
<1>21. c \in Seq(Insts)
  BY <1>1
<1>20. PICK k : /\ k[0] = 0 /\ k[Len(c)] = Len(Only(c, s))
                /\ \A n \in 0 .. Len(c) : k[n] \in 0 .. Len(Only(c, s))
                /\ \A n \in 1 .. Len(c) :
                      IF n \in s THEN k[n] = k[n - 1] + 1 /\ Only(c, s)[k[n]] = c[n] ELSE k[n] = k[n - 1]
                /\ \A n, p \in 0 .. Len(c) : p <= n => k[p] <= k[n]
                /\ \A m \in 1 .. Len(Only(c, s)) : \E n \in 1 .. Len(c) : n \in s /\ k[n] = m
  BY <1>21, OnlyPlaces, Zenon
<1>2.          /\ k[0] = 0 /\ k[len] = Len(e)
               /\ \A n \in 0 .. len : k[n] \in 0 .. Len(e)
               /\ \A n \in 1 .. len :
                     IF n \in s THEN k[n] = k[n - 1] + 1 /\ e[k[n]] = c[n] ELSE k[n] = k[n - 1]
  BY <1>1, <1>20
<1>3. e \in Seq(Insts)
  BY <1>1, OnlyPlaces
<1> HIDE DEF e
<1>4. PICK l \in Nat : l = Len(e) /\ DOMAIN e = 1 .. l
  BY <1>3
<1>5. PICK m, w : m = Ran(c, memory) /\ w = Ran(e, memory)
  OBVIOUS
<1>6. /\ m[0] = w[0]
      /\ \A n \in Nat : n + 1 \in 1 .. len =>
           c[n + 1] \in Insts /\ m[n] \in Machines /\ m[n + 1] \in Machines /\ m[n + 1] = Run1(m[n], c[n + 1])
      /\ \A n \in Nat : n + 1 \in 1 .. l => w[n + 1] = Run1(w[n], e[n + 1])
  BY <1>1, <1>3, <1>4, <1>5, RanIs
<1> DEFINE Cut(n) == \E p \in 1 .. n : c[p].k = "ret" /\ \A q \in p + 1 .. n : c[q].k # "label"
           G == { n \in Nat : n <= len => w[k[n]] = m[n] /\ (Cut(n) => ~Active(m[n])) }
<1>7. 0 \in G
  BY <1>2, <1>6
<1>8. ASSUME NEW n \in Nat, n \in G PROVE n + 1 \in G
  <2>1. SUFFICES ASSUME n + 1 <= len PROVE w[k[n + 1]] = m[n + 1] /\ (Cut(n + 1) => ~Active(m[n + 1]))
    OBVIOUS
  <2>2. n + 1 \in 1 .. len /\ (n + 1) - 1 = n /\ w[k[n]] = m[n] /\ (Cut(n) => ~Active(m[n]))
    BY <1>8, <2>1
  <2>3. c[n + 1] \in Insts /\ m[n] \in Machines /\ m[n + 1] \in Machines /\ m[n + 1] = Run1(m[n], c[n + 1])
    BY <1>6, <2>2
  <2>4. Cut(n + 1) => ~Active(m[n + 1])
    <3>1. SUFFICES ASSUME NEW p \in 1 .. n + 1, c[p].k = "ret", \A q \in p + 1 .. n + 1 : c[q].k # "label"
                   PROVE  ~Active(m[n + 1])
      OBVIOUS
    <3>2. CASE ~Active(m[n])
      <4>1. c[n + 1].k # "label"
        <5>1. CASE p = n + 1
          BY <3>1, <5>1
        <5>2. CASE p # n + 1
          BY <3>1, <5>2
        <5>3. QED
          BY <5>1, <5>2
      <4>2. m[n + 1] = m[n]
        BY <2>3, <3>2, <4>1, IdleRuns
      <4>3. QED
        BY <3>2, <4>2
    <3>3. CASE Active(m[n])
      <4>1. p = n + 1
        <5>1. SUFFICES ASSUME p # n + 1 PROVE FALSE
          OBVIOUS
        <5>2. p \in 1 .. n /\ \A q \in p + 1 .. n : c[q].k # "label"
          BY <3>1, <5>1
        <5>3. Cut(n)
          BY <3>1, <5>2
        <5>4. QED
          BY <2>2, <3>3, <5>3
      <4>2. c[n + 1].k = "ret" /\ c[n + 1].k \notin Defining
        BY <3>1, <4>1 DEF Defining
      <4>3. m[n + 1].returned
        BY <2>3, <3>3, <4>2, ControlRuns
      <4>4. QED
        BY <4>3 DEF Active
    <3>4. QED
      BY <3>2, <3>3
  <2>5. w[k[n + 1]] = m[n + 1]
    <3>1. CASE n + 1 \in s
      <4>1. k[n + 1] = k[n] + 1 /\ e[k[n + 1]] = c[n + 1] /\ k[n + 1] \in 0 .. l /\ k[n] \in 0 .. l
        BY <1>2, <1>4, <2>2, <3>1
      <4>2. k[n] \in Nat /\ k[n] + 1 \in 1 .. l
        BY <4>1
      <4>3. w[k[n] + 1] = Run1(w[k[n]], e[k[n] + 1])
        BY <1>6, <4>2
      <4>4. QED
        BY <2>2, <2>3, <4>1, <4>3
    <3>2. CASE n + 1 \notin s
      <4>1. k[n + 1] = k[n]
        BY <1>2, <2>2, <3>2
      <4>2. PICK p \in 1 .. (n + 1) - 1 : c[p].k \in {"ret", "jmp"} /\ \A q \in p + 1 .. n + 1 : c[q].k # "label"
        BY <1>1, <2>2, <3>2 DEF s, Reached
      <4>3. p \in 1 .. n /\ p \in DOMAIN c
        BY <1>1, <2>2, <4>2
      <4>4. c[p].k = "ret"
        <5>1. SUFFICES ASSUME c[p].k = "jmp" PROVE FALSE
          BY <4>2
        <5>2. p + 1 \in DOMAIN c /\ c[p + 1].k = "label"
          BY <4>3, <5>1, Zenon DEF Whole, JumpsToNext
        <5>3. p + 1 \in p + 1 .. n + 1
          BY <4>3
        <5>4. QED
          BY <4>2, <5>2, <5>3
      <4>5. \A q \in p + 1 .. n : c[q].k # "label"
        BY <4>2, <4>3
      <4>6. ~Active(m[n])
        <5>1. Cut(n)
          BY <4>3, <4>4, <4>5
        <5>2. QED
          BY <2>2, <5>1
      <4>7. c[n + 1].k # "label"
        BY <4>2, <4>3
      <4>8. m[n + 1] = m[n]
        BY <2>3, <4>6, <4>7, IdleRuns
      <4>9. QED
        BY <2>2, <4>1, <4>8
    <3>3. QED
      BY <3>1, <3>2
  <2>6. QED
    BY <2>4, <2>5
<1>9. \A n \in Nat : n \in G
  <2> HIDE DEF G
  <2> QED BY <1>7, <1>8, Induction
<1>10. w[l] = m[len]
  BY <1>2, <1>4, <1>9
<1>11. QED
  BY <1>1, <1>4, <1>5, <1>10 DEF Observed, e, s

-----------------------------------------------------------------------------
(* Taking out what is dead does not show.                                  *)

(* A carry is left for the next instruction only.                          *)
Paired(c) ==
    \A n \in DOMAIN c : c[n].k = "carry" /\ c[n].imm = 1 =>
        n - 1 \in DOMAIN c /\ c[n - 1].k = "carry" /\ c[n - 1].imm = 0

(* Two machines that differ only in the registers outside R and the carry. *)
Alike(m, w, R) ==
    /\ m.mem = w.mem /\ m.goal = w.goal /\ m.returned = w.returned /\ m.result = w.result
    /\ \A r \in R : m.regs[r] = w.regs[r]

LEMMA AlikeRuns ==
    ASSUME NEW m \in Machines, NEW w \in Machines, NEW i \in Insts, NEW R \in SUBSET (0 .. MaxRegs),
           i.a \in R, i.b \in R, Alike(m, w, R),
           Active(m) /\ i.k = "carry" /\ i.imm = 1 => m.carry = w.carry
    PROVE  /\ Alike(Run1(m, i), Run1(w, i), R)
           /\ i.k = "carry" /\ Active(Run1(m, i)) => Run1(m, i).carry = Run1(w, i).carry
<1>1. Active(m) <=> Active(w)
  BY DEF Alike, Active
<1>2. PICK e \in Machines, f \in Machines : e = Run1(m, i) /\ f = Run1(w, i)
  BY RunIs
<1>3. m.regs[i.a] = w.regs[i.a] /\ m.regs[i.b] = w.regs[i.b] /\ m.mem = w.mem
  BY DEF Alike
<1>4. CASE ~Active(m)
  <2>1. /\ e.regs = m.regs /\ e.mem = m.mem /\ e.result = m.result /\ e.returned = m.returned
        /\ e.goal = IF ~m.returned /\ i.k = "label" /\ i.label = m.goal THEN 0 ELSE m.goal
        /\ i.k = "carry" => e = m
    BY <1>2, <1>4, IdleRuns
  <2>2. /\ f.regs = w.regs /\ f.mem = w.mem /\ f.result = w.result /\ f.returned = w.returned
        /\ f.goal = IF ~w.returned /\ i.k = "label" /\ i.label = w.goal THEN 0 ELSE w.goal
    BY <1>1, <1>2, <1>4, IdleRuns
  <2>3. Alike(e, f, R)
    BY <2>1, <2>2 DEF Alike
  <2>4. QED
    BY <1>2, <1>4, <2>1, <2>3
<1>5. CASE Active(m) /\ i.k \in Defining
  <2>1. /\ e.regs[i.dst] = Written(m, i) /\ \A r \in 0 .. MaxRegs : r # i.dst => e.regs[r] = m.regs[r]
        /\ e.mem = m.mem /\ e.carry = Carried(m, i) /\ e.result = m.result /\ ~e.returned /\ e.goal = 0
    <3>1. Assigned(e, m, i)
      BY <1>2, <1>5, DefiningRuns, Zenon
    <3>2. QED
      BY <3>1 DEF Assigned
  <2>2. /\ f.regs[i.dst] = Written(w, i) /\ \A r \in 0 .. MaxRegs : r # i.dst => f.regs[r] = w.regs[r]
        /\ f.mem = w.mem /\ f.carry = Carried(w, i) /\ f.result = w.result /\ ~f.returned /\ f.goal = 0
    <3>1. Assigned(f, w, i)
      BY <1>1, <1>2, <1>5, DefiningRuns, Zenon
    <3>2. QED
      BY <3>1 DEF Assigned
  <2>3. i.k = "carry" => (IF i.imm = 1 THEN m.carry ELSE 0) = (IF i.imm = 1 THEN w.carry ELSE 0)
    BY <1>5
  <2>4. Written(m, i) = Written(w, i)
    <3>1. CASE i.k = "carry"
      BY <1>3, <2>3, <3>1, Zenon DEF Written
    <3>2. CASE i.k # "carry"
      BY <1>3, <1>5, <3>2, Zenon DEF Written, Defining
    <3>3. QED
      BY <3>1, <3>2
  <2>5. i.k = "carry" => Carried(m, i) = Carried(w, i)
    BY <1>3, <2>3, Zenon DEF Carried
  <2>6. \A r \in R : e.regs[r] = f.regs[r]
    <3>1. TAKE r \in R
    <3>2. r \in 0 .. MaxRegs /\ m.regs[r] = w.regs[r]
      BY DEF Alike
    <3>3. QED
      BY <2>1, <2>2, <2>4, <3>2
  <2>7. m.result = w.result /\ (e.returned = FALSE) /\ (f.returned = FALSE)
    BY <2>1, <2>2, MachineIs DEF Alike
  <2>8. Alike(e, f, R)
    BY <1>3, <2>1, <2>2, <2>6, <2>7 DEF Alike
  <2>9. QED
    BY <1>2, <2>1, <2>2, <2>5, <2>8
<1>6. CASE Active(m) /\ i.k \notin Defining
  <2>1. Steered(e, m, i)
    BY <1>2, <1>6, ControlSteers, Zenon
  <2>2. Steered(f, w, i)
    BY <1>1, <1>2, <1>6, ControlSteers, Zenon
  <2>3. e.mem = f.mem
    BY <1>3, <2>1, <2>2, Zenon DEF Steered
  <2>4. e.returned = f.returned
    BY <2>1, <2>2, MachineIs DEF Steered
  <2>5. m.result = w.result /\ \A r \in R : m.regs[r] = w.regs[r]
    BY DEF Alike
  <2>6. Alike(e, f, R)
    BY <1>3, <2>1, <2>2, <2>3, <2>4, <2>5 DEF Steered, Alike
  <2>7. QED
    BY <1>2, <1>6, <2>6 DEF Defining
<1>7. QED
  BY <1>4, <1>5, <1>6

LEMMA DeadRuns ==
    ASSUME NEW m \in Machines, NEW w \in Machines, NEW i \in Insts, NEW R \in SUBSET (0 .. MaxRegs),
           i.k \in Defining, i.dst \notin R, Alike(m, w, R)
    PROVE  Alike(Run1(m, i), w, R)
<1>1. PICK e \in Machines : e = Run1(m, i)
  BY RunIs
<1>2. CASE ~Active(m)
  <2>1. i.k # "label"
    BY DEF Defining
  <2>2. Run1(m, i) = m
    BY <1>2, <2>1, IdleRuns
  <2>3. QED
    BY <2>2
<1>3. CASE Active(m)
  <2>1. /\ \A r \in 0 .. MaxRegs : r # i.dst => e.regs[r] = m.regs[r]
        /\ e.mem = m.mem /\ e.result = m.result /\ ~e.returned /\ e.goal = 0
    <3>1. Assigned(e, m, i)
      BY <1>1, <1>3, DefiningRuns, Zenon
    <3>2. QED
      BY <3>1 DEF Assigned
  <2>2. e.returned = m.returned /\ e.goal = m.goal
    BY <1>3, <2>1, MachineIs DEF Active
  <2>3. \A r \in R : e.regs[r] = m.regs[r]
    BY <2>1
  <2>4. QED
    BY <1>1, <2>1, <2>2, <2>3 DEF Alike
<1>4. QED
  BY <1>2, <1>3

(* What is left when dead instructions are taken out runs as it did.       *)
LEMMA SweepKeeps ==
    ASSUME NEW c, Whole(c), Paired(c), NEW s, \A n \in DOMAIN c : n \notin s => Dead(c, c[n])
    PROVE  /\ Paired(Only(c, s))
           /\ \A memory \in Memories : Observed(Only(c, s), memory) = Observed(c, memory)
<1> DEFINE e == Only(c, s)
           R == Used(c)
<1>21. c \in Seq(Insts)
  BY DEF Whole
<1>1. PICK len \in Nat : len = Len(c) /\ DOMAIN c = 1 .. len
  BY <1>21
<1>20. PICK k : /\ k[0] = 0 /\ k[Len(c)] = Len(Only(c, s))
                /\ \A n \in 0 .. Len(c) : k[n] \in 0 .. Len(Only(c, s))
                /\ \A n \in 1 .. Len(c) :
                      IF n \in s THEN k[n] = k[n - 1] + 1 /\ Only(c, s)[k[n]] = c[n] ELSE k[n] = k[n - 1]
                /\ \A n, p \in 0 .. Len(c) : p <= n => k[p] <= k[n]
                /\ \A m \in 1 .. Len(Only(c, s)) : \E n \in 1 .. Len(c) : n \in s /\ k[n] = m
  BY <1>21, OnlyPlaces, Zenon
<1>2.          /\ k[0] = 0 /\ k[len] = Len(e)
               /\ \A n \in 0 .. len : k[n] \in 0 .. Len(e)
               /\ \A n \in 1 .. len :
                     IF n \in s THEN k[n] = k[n - 1] + 1 /\ e[k[n]] = c[n] ELSE k[n] = k[n - 1]
               /\ \A m \in 1 .. Len(e) : \E n \in 1 .. len : n \in s /\ k[n] = m
  BY <1>1, <1>20
<1>3. e \in Seq(Insts)
  BY <1>21, OnlyPlaces
<1>4. PICK l \in Nat : l = Len(e) /\ DOMAIN e = 1 .. l
  BY <1>3
<1>5. \A n \in 1 .. len : c[n].k = "carry" /\ c[n].imm = 0 => n \in s
  BY <1>1 DEF Dead, Removable
<1>6. \A n \in 1 .. len : n \notin s => c[n].k \in Defining /\ c[n].dst \notin R
  BY <1>1 DEF Dead, Removable, Defining
<1>7. \A n \in 1 .. len : c[n].a \in R /\ c[n].b \in R
  BY <1>1 DEF Used
<1>8. R \in SUBSET (0 .. MaxRegs)
  <2>1. \A n \in DOMAIN c : c[n].a \in 0 .. MaxRegs /\ c[n].b \in 0 .. MaxRegs
    BY <1>21, InstFields
  <2>2. QED
    BY <2>1 DEF Used
<1> HIDE DEF e, R
<1>9. Paired(e)
  <2>1. SUFFICES ASSUME NEW m \in 1 .. l, e[m].k = "carry", e[m].imm = 1
                 PROVE  m - 1 \in 1 .. l /\ e[m - 1].k = "carry" /\ e[m - 1].imm = 0
    BY <1>4 DEF Paired
  <2>2. PICK n \in 1 .. len : n \in s /\ k[n] = m /\ e[m] = c[n]
    BY <1>2, <1>4
  <2>3. n - 1 \in 1 .. len /\ c[n - 1].k = "carry" /\ c[n - 1].imm = 0
    BY <1>1, <2>1, <2>2 DEF Paired
  <2>4. k[n] = k[n - 1] + 1 /\ e[k[n - 1]] = c[n - 1] /\ k[n - 1] \in 0 .. l
    BY <1>2, <1>4, <1>5, <2>2, <2>3
  <2>5. k[n - 1] = k[(n - 1) - 1] + 1 /\ k[(n - 1) - 1] \in 0 .. l
    BY <1>2, <1>4, <1>5, <2>3
  <2>6. QED
    BY <2>2, <2>3, <2>4, <2>5
<1>10. ASSUME NEW memory \in Memories PROVE Observed(e, memory) = Observed(c, memory)
  <2>1. PICK m, w : m = Ran(c, memory) /\ w = Ran(e, memory)
    OBVIOUS
  <2>2. /\ m[0] = w[0] /\ m[0] \in Machines
        /\ \A n \in Nat : n + 1 \in 1 .. len =>
             c[n + 1] \in Insts /\ m[n] \in Machines /\ m[n + 1] \in Machines /\ m[n + 1] = Run1(m[n], c[n + 1])
        /\ \A n \in Nat : n + 1 \in 1 .. l => w[n + 1] = Run1(w[n], e[n + 1])
        /\ \A n \in 0 .. l : w[n] \in Machines
    <3>1. /\ m[0] = Called(memory) /\ m[0] \in Machines
          /\ \A n \in Nat : n + 1 \in 1 .. len =>
               c[n + 1] \in Insts /\ m[n] \in Machines /\ m[n + 1] \in Machines /\ m[n + 1] = Run1(m[n], c[n + 1])
      BY <1>1, <1>21, <2>1, RanIs
    <3>2. /\ w[0] = Called(memory)
          /\ \A n \in Nat : n + 1 \in 1 .. l => w[n + 1] = Run1(w[n], e[n + 1])
          /\ \A n \in 0 .. l : w[n] \in Machines
      BY <1>3, <1>4, <2>1, RanIs
    <3>3. QED
      BY <3>1, <3>2
  <2> DEFINE Passed(n) == n \in 1 .. len /\ c[n].k = "carry" /\ c[n].imm = 0 /\ Active(m[n])
             G == { n \in Nat : n <= len => Alike(m[n], w[k[n]], R) /\ (Passed(n) => m[n].carry = w[k[n]].carry) }
  <2>3. 0 \in G
    BY <1>2, <2>2 DEF Alike
  <2>4. ASSUME NEW n \in Nat, n \in G PROVE n + 1 \in G
    <3>1. SUFFICES ASSUME n + 1 <= len
                   PROVE  /\ Alike(m[n + 1], w[k[n + 1]], R)
                          /\ Passed(n + 1) => m[n + 1].carry = w[k[n + 1]].carry
      OBVIOUS
    <3>2. n + 1 \in 1 .. len /\ (n + 1) - 1 = n /\ n \in 0 .. len
      BY <3>1
    <3>3. Alike(m[n], w[k[n]], R) /\ (Passed(n) => m[n].carry = w[k[n]].carry)
      BY <2>4, <3>1
    <3>4. PICK i \in Insts, x \in Machines, y \in Machines, z \in Machines :
             i = c[n + 1] /\ x = m[n] /\ y = m[n + 1] /\ z = w[k[n]] /\ y = Run1(x, i)
      BY <1>2, <1>4, <2>2, <3>2
    <3>5. CASE n + 1 \in s
      <4>1. k[n + 1] = k[n] + 1 /\ e[k[n + 1]] = c[n + 1] /\ k[n + 1] \in 0 .. l /\ k[n] \in 0 .. l
        BY <1>2, <1>4, <3>2, <3>5
      <4>2. k[n] \in Nat /\ k[n] + 1 \in 1 .. l
        BY <4>1
      <4>3. w[k[n] + 1] = Run1(w[k[n]], e[k[n] + 1])
        BY <2>2, <4>2
      <4>4. w[k[n + 1]] = Run1(z, i)
        BY <3>4, <4>1, <4>3
      <4>5. Active(x) /\ i.k = "carry" /\ i.imm = 1 => x.carry = z.carry
        <5>1. SUFFICES ASSUME Active(x), i.k = "carry", i.imm = 1 PROVE x.carry = z.carry
          OBVIOUS
        <5>2. n + 1 \in DOMAIN c /\ c[n + 1].k = "carry" /\ c[n + 1].imm = 1
          BY <1>1, <3>2, <3>4, <5>1
        <5>3. (n + 1) - 1 \in DOMAIN c /\ c[(n + 1) - 1].k = "carry" /\ c[(n + 1) - 1].imm = 0
          BY <5>2, Zenon DEF Paired
        <5>4. n \in 1 .. len /\ c[n].k = "carry" /\ c[n].imm = 0
          BY <1>1, <3>2, <5>3
        <5>5. QED
          BY <3>3, <3>4, <5>1, <5>4
      <4>6. i.a \in R /\ i.b \in R
        BY <1>7, <3>2, <3>4
      <4>7. Alike(x, z, R)
        BY <3>3, <3>4
      <4>8. /\ Alike(Run1(x, i), Run1(z, i), R)
            /\ i.k = "carry" /\ Active(Run1(x, i)) => Run1(x, i).carry = Run1(z, i).carry
        BY <1>8, <4>5, <4>6, <4>7, AlikeRuns
      <4>9. QED
        BY <3>4, <4>4, <4>8
    <3>6. CASE n + 1 \notin s
      <4>1. k[n + 1] = k[n]
        BY <1>2, <3>2, <3>6
      <4>2. i.k \in Defining /\ i.dst \notin R
        BY <1>6, <3>2, <3>4, <3>6
      <4>3. Alike(x, z, R)
        BY <3>3, <3>4
      <4>4. Alike(Run1(x, i), z, R)
        BY <1>8, <4>2, <4>3, DeadRuns
      <4>5. ~Passed(n + 1)
        BY <1>5, <3>2, <3>6
      <4>6. QED
        BY <3>4, <4>1, <4>4, <4>5
    <3>7. QED
      BY <3>5, <3>6
  <2>5. \A n \in Nat : n \in G
    <3> HIDE DEF G
    <3> QED BY <2>3, <2>4, Induction
  <2>6. Alike(m[len], w[l], R)
    BY <1>2, <1>4, <2>5
  <2>7. QED
    BY <1>1, <1>4, <2>1, <2>6 DEF Observed, Alike
<1>11. QED
  BY <1>9, <1>10 DEF e

-----------------------------------------------------------------------------
(* The machine after a function, the registers that it has written and     *)
(* whether each instruction found its operands written.                    *)
End(c, memory) == Ran(c, memory)[Len(c)]

Executed(c, memory) == { n \in DOMAIN c : Active(Ran(c, memory)[n - 1]) }

Made(c, memory) == { c[n].dst : n \in Executed(c, memory) }

Dominated(c, memory) ==
    \A n \in Executed(c, memory) : \A r \in Operands(c[n]) :
        \E d \in Executed(c, memory) : d < n /\ c[d].dst = r

LEMMA RanGrows ==
    ASSUME NEW c \in Seq(Insts), NEW i \in Insts, NEW memory \in Memories, NEW len \in Nat, len = Len(c)
    PROVE  /\ \A n \in 0 .. len : Ran(Append(c, i), memory)[n] = Ran(c, memory)[n]
           /\ Ran(Append(c, i), memory)[len + 1] = Run1(Ran(c, memory)[len], i)
<1>1. /\ Append(c, i) \in Seq(Insts) /\ DOMAIN c = 1 .. len /\ DOMAIN Append(c, i) = 1 .. len + 1
      /\ \A n \in 1 .. len : Append(c, i)[n] = c[n]
      /\ Append(c, i)[len + 1] = i
  BY Appended
<1>2. PICK e : e = Append(c, i)
  OBVIOUS
<1>3. PICK m, w : m = Ran(c, memory) /\ w = Ran(e, memory)
  OBVIOUS
<1>4. /\ m[0] = w[0]
      /\ \A n \in Nat : n + 1 \in 1 .. len => m[n + 1] = Run1(m[n], c[n + 1])
      /\ \A n \in Nat : n + 1 \in 1 .. len + 1 => w[n + 1] = Run1(w[n], e[n + 1])
  BY <1>1, <1>2, <1>3, RanIs
<1> DEFINE G == { n \in Nat : n <= len => w[n] = m[n] }
<1>5. 0 \in G
  BY <1>4
<1>6. ASSUME NEW n \in Nat, n \in G PROVE n + 1 \in G
  <2>1. SUFFICES ASSUME n + 1 <= len PROVE w[n + 1] = m[n + 1]
    OBVIOUS
  <2>2. n + 1 \in 1 .. len /\ n + 1 \in 1 .. len + 1 /\ w[n] = m[n]
    BY <1>6, <2>1
  <2>3. e[n + 1] = c[n + 1]
    BY <1>1, <1>2, <2>2
  <2>4. QED
    BY <1>4, <2>2, <2>3
<1>7. \A n \in Nat : n \in G
  <2> HIDE DEF G
  <2> QED BY <1>5, <1>6, Induction
<1>8. w[len + 1] = Run1(m[len], i)
  <2>1. w[len + 1] = Run1(w[len], e[len + 1])
    BY <1>4
  <2>2. QED
    BY <1>1, <1>2, <1>7, <2>1
<1>9. QED
  BY <1>2, <1>3, <1>7, <1>8

LEMMA EndIs ==
    ASSUME NEW c \in Seq(Insts), NEW memory \in Memories
    PROVE  End(c, memory) \in Machines
<1>1. Len(c) \in 0 .. Len(c)
  OBVIOUS
<1>2. QED
  BY <1>1, RanIs DEF End

LEMMA EndGrows ==
    ASSUME NEW c \in Seq(Insts), NEW i \in Insts, NEW memory \in Memories
    PROVE  /\ End(c, memory) \in Machines
           /\ End(Append(c, i), memory) = Run1(End(c, memory), i)
           /\ Made(Append(c, i), memory) =
                 Made(c, memory) \cup (IF Active(End(c, memory)) THEN {i.dst} ELSE {})
           /\ Dominated(c, memory) /\ (Active(End(c, memory)) => Operands(i) \subseteq Made(c, memory))
                 => Dominated(Append(c, i), memory)
<1> DEFINE e == Append(c, i)
<1>1. PICK len \in Nat : len = Len(c) /\ DOMAIN c = 1 .. len
  OBVIOUS
<1>2. /\ e \in Seq(Insts) /\ Len(e) = len + 1 /\ DOMAIN e = DOMAIN c \cup {len + 1}
      /\ \A n \in DOMAIN c : e[n] = c[n] /\ n < len + 1 /\ n \in Nat /\ n # 0 /\ n <= len
      /\ e[len + 1] = i
  BY <1>1, Appended
<1>3. PICK m, w : m = Ran(c, memory) /\ w = Ran(e, memory)
  OBVIOUS
<1>4. (\A n \in 0 .. len : w[n] = m[n]) /\ w[len + 1] = Run1(m[len], i)
  BY <1>1, <1>3, RanGrows
<1>5. End(c, memory) = m[len] /\ End(e, memory) = w[len + 1]
  BY <1>1, <1>2, <1>3 DEF End
<1>6. Executed(e, memory) = Executed(c, memory) \cup (IF Active(m[len]) THEN {len + 1} ELSE {})
  <2>1. \A n \in DOMAIN c : w[n - 1] = m[n - 1]
    BY <1>1, <1>4
  <2>2. w[(len + 1) - 1] = m[len]
    BY <1>4
  <2>3. QED
    BY <1>2, <1>3, <2>1, <2>2 DEF Executed
<1>7. Executed(c, memory) \subseteq DOMAIN c
  BY DEF Executed
<1> HIDE DEF e
<1>8. Made(e, memory) = Made(c, memory) \cup (IF Active(m[len]) THEN {i.dst} ELSE {})
  <2>1. CASE Active(m[len])
    BY <1>2, <1>6, <1>7, <2>1 DEF Made
  <2>2. CASE ~Active(m[len])
    BY <1>2, <1>6, <1>7, <2>2 DEF Made
  <2>3. QED
    BY <2>1, <2>2
<1>9. ASSUME Dominated(c, memory), Active(m[len]) => Operands(i) \subseteq Made(c, memory)
      PROVE  Dominated(e, memory)
  <2>1. SUFFICES ASSUME NEW n \in Executed(e, memory), NEW r \in Operands(e[n])
                 PROVE  \E d \in Executed(e, memory) : d < n /\ e[d].dst = r
    BY DEF Dominated
  <2>2. CASE n \in Executed(c, memory)
    <3>1. PICK d \in Executed(c, memory) : d < n /\ c[d].dst = r
      BY <1>2, <1>7, <1>9, <2>1, <2>2 DEF Dominated
    <3>2. QED
      BY <1>2, <1>6, <1>7, <3>1
  <2>3. CASE Active(m[len]) /\ n = len + 1
    <3>1. PICK d \in Executed(c, memory) : c[d].dst = r
      BY <1>2, <1>9, <2>1, <2>3 DEF Made
    <3>2. QED
      BY <1>2, <1>6, <1>7, <2>3, <3>1
  <2>4. QED
    BY <1>6, <2>2, <2>3
<1>10. QED
  BY <1>4, <1>5, <1>8, <1>9, EndIs DEF e

(* What the builder knows of the registers: the type of the loads and the  *)
(* casts that define one, which the casts of it and the stack agree with;  *)
(* the value of a ternary is moved twice.                                  *)
TypedAs(c, r, t) == \A d \in DOMAIN c : c[d].dst = r /\ c[d].k \in {"load", "cast"} => c[d].to = t

Typed(c) == \A n \in DOMAIN c : c[n].k = "cast" => TypedAs(c, c[n].a, c[n].from) /\ c[n].a # NoReg

Twice(c, n) == \E p \in DOMAIN c : p # n /\ c[p].dst = c[n].dst

Marked(c, b) ==
    /\ Typed(c) /\ Paired(c)
    /\ \A j \in DOMAIN b.stack : TypedAs(c, b.stack[j].reg, b.stack[j].type)
    /\ \A n \in DOMAIN c : c[n].k = "mov" => Twice(c, n) \/ (b.arm = "else" /\ c[n].dst = b.merge)
    /\ b.arm # "none" => \A d \in DOMAIN c : c[d].dst = b.merge => c[d].k = "mov"
    /\ b.arm = "else" => \E d \in DOMAIN c : c[d].dst = b.merge

(* Every read of a register comes after a write of it that was executed,   *)
(* and a jump taken leads to the end of the arm that is being built.       *)
Settled(c, b, memory) ==
    LET m == End(c, memory)
    IN  /\ Dominated(c, memory)
        /\ \A j \in DOMAIN b.stack :
              ~m.returned /\ (m.goal = 0 \/ j <= b.floor) => b.stack[j].reg \in Made(c, memory)
        /\ ~m.returned /\ m.goal # 0 =>
              \/ b.arm = "then" /\ m.goal = b.labels + 2
              \/ b.arm = "else" /\ m.goal = b.labels + 3 /\ b.merge \in Made(c, memory)

LEMMA TypedGrows ==
    ASSUME NEW c \in Seq(Insts), NEW i \in Insts, NEW r, NEW t, TypedAs(c, r, t),
           i.dst = r /\ i.k \in {"load", "cast"} => i.to = t
    PROVE  TypedAs(Append(c, i), r, t)
<1>1. /\ DOMAIN Append(c, i) = DOMAIN c \cup {Len(c) + 1}
      /\ \A p \in DOMAIN c : Append(c, i)[p] = c[p]
      /\ Append(c, i)[Len(c) + 1] = i
  BY Appended
<1>2. PICK e : e = Append(c, i)
  OBVIOUS
<1>3. QED
  BY <1>1, <1>2 DEF TypedAs

LEMMA CastsGrow ==
    ASSUME NEW c \in Seq(Insts), NEW i \in Insts, Typed(c),
           i.k = "cast" => TypedAs(c, i.a, i.from) /\ i.dst # i.a /\ i.a # NoReg,
           i.k \in {"load", "cast"} => \A n \in DOMAIN c : c[n].k = "cast" => c[n].a # i.dst
    PROVE  Typed(Append(c, i))
<1>1. /\ DOMAIN Append(c, i) = DOMAIN c \cup {Len(c) + 1}
      /\ \A n \in DOMAIN c : Append(c, i)[n] = c[n]
      /\ Append(c, i)[Len(c) + 1] = i
  BY Appended
<1>2. ASSUME NEW n \in DOMAIN c, c[n].k = "cast"
      PROVE  TypedAs(Append(c, i), c[n].a, c[n].from) /\ c[n].a # NoReg
  <2>1. TypedAs(c, c[n].a, c[n].from) /\ c[n].a # NoReg
    BY <1>2 DEF Typed
  <2>2. i.dst = c[n].a /\ i.k \in {"load", "cast"} => i.to = c[n].from
    BY <1>2
  <2>3. QED
    BY <2>1, <2>2, TypedGrows
<1>3. i.k = "cast" => TypedAs(Append(c, i), i.a, i.from) /\ i.a # NoReg
  BY TypedGrows
<1>4. QED
  BY <1>1, <1>2, <1>3, Zenon DEF Typed

LEMMA PairsGrow ==
    ASSUME NEW c \in Seq(Insts), NEW i \in Insts, Paired(c),
           i.k = "carry" /\ i.imm = 1 =>
               Len(c) \in DOMAIN c /\ c[Len(c)].k = "carry" /\ c[Len(c)].imm = 0
    PROVE  Paired(Append(c, i))
<1>1. PICK len \in Nat : len = Len(c) /\ DOMAIN c = 1 .. len
  OBVIOUS
<1>2. PICK e : e = Append(c, i)
  OBVIOUS
<1>3. DOMAIN e = DOMAIN c \cup {len + 1} /\ (\A n \in DOMAIN c : e[n] = c[n]) /\ e[len + 1] = i
  BY <1>1, <1>2, Appended
<1>4. SUFFICES ASSUME NEW n \in DOMAIN e, e[n].k = "carry", e[n].imm = 1
               PROVE  n - 1 \in DOMAIN e /\ e[n - 1].k = "carry" /\ e[n - 1].imm = 0
  BY <1>2 DEF Paired
<1>5. CASE n \in DOMAIN c
  <2>1. n - 1 \in DOMAIN c /\ c[n - 1].k = "carry" /\ c[n - 1].imm = 0
    BY <1>3, <1>4, <1>5 DEF Paired
  <2>2. QED
    BY <1>3, <2>1
<1>6. CASE n = len + 1
  <2>1. n - 1 = len /\ e[n] = i
    BY <1>3, <1>6
  <2>2. QED
    BY <1>1, <1>3, <1>4, <2>1
<1>7. QED
  BY <1>3, <1>5, <1>6

LEMMA TwiceGrows ==
    ASSUME NEW c \in Seq(Insts), NEW i \in Insts, NEW n \in DOMAIN c, Twice(c, n)
    PROVE  Twice(Append(c, i), n)
<1>1. /\ DOMAIN Append(c, i) = DOMAIN c \cup {Len(c) + 1}
      /\ \A p \in DOMAIN c : Append(c, i)[p] = c[p]
      /\ Append(c, i)[Len(c) + 1] = i
  BY Appended
<1>2. PICK e : e = Append(c, i)
  OBVIOUS
<1>3. QED
  BY <1>1, <1>2 DEF Twice

LEMMA GrownIs ==
    ASSUME NEW b \in Builder, NEW z \in Seq(Entries), NEW n \in 0 .. MaxRegs
    PROVE  /\ Grown(b, z, n) \in Builder
           /\ Grown(b, z, n).stack = z /\ Grown(b, z, n).regs = n /\ Grown(b, z, n).arm = b.arm
           /\ Grown(b, z, n).merge = b.merge /\ Grown(b, z, n).floor = b.floor
           /\ Grown(b, z, n).labels = b.labels
BY DEF Grown, Builder

EmitKinds == {"const", "load", "cast", "unop", "binop", "carry"}

(* An instruction that leaves its result in a new register.                *)
LEMMA MarkedPush ==
    ASSUME NEW c, NEW b, BuildOK(c, b), Marked(c, b), NEW i \in Insts, NEW t \in Types, i.k \in EmitKinds,
           b.regs + 1 <= MaxRegs, i.dst = b.regs + 1, Operands(i) \subseteq Readable(b),
           i.k \in {"load", "cast"} => i.to = t,
           i.k = "cast" => TypedAs(c, i.a, i.from) /\ i.a # NoReg,
           i.k = "carry" /\ i.imm = 1 => Len(c) \in DOMAIN c /\ c[Len(c)].k = "carry" /\ c[Len(c)].imm = 0
    PROVE  Marked(Append(c, i), Grown(b, Append(b.stack, Entry(b.regs + 1, t)), b.regs + 1))
<1>1. /\ c \in Seq(Insts) /\ b \in Builder /\ b.regs \in Nat /\ MaxRegs \in Nat /\ b.stack \in Seq(Entries)
      /\ Within(c, b.regs, NoReg) /\ (\A r \in Live(b) : r \in 1 .. b.regs) /\ OnStack(b) \subseteq Live(b)
      /\ b.arm # "none" => b.merge \in Live(b)
  BY BuildFacts
<1> DEFINE x == Entry(b.regs + 1, t)
           z == Append(b.stack, x)
           g == Grown(b, z, b.regs + 1)
           e == Append(c, i)
<1>2. x \in Entries /\ x.reg = b.regs + 1 /\ x.type = t /\ b.regs + 1 \in 0 .. MaxRegs
  BY <1>1 DEF Entry, Entries, Regs
<1>3. /\ z \in Seq(Entries) /\ DOMAIN z = DOMAIN b.stack \cup {Len(b.stack) + 1}
      /\ (\A j \in DOMAIN b.stack : z[j] = b.stack[j]) /\ z[Len(b.stack) + 1] = x
  BY <1>1, <1>2, Appended
<1>4. g.stack = z /\ g.arm = b.arm /\ g.merge = b.merge
  BY <1>1, <1>2, <1>3, GrownIs
<1>5. /\ e \in Seq(Insts) /\ DOMAIN e = DOMAIN c \cup {Len(c) + 1}
      /\ (\A n \in DOMAIN c : e[n] = c[n]) /\ e[Len(c) + 1] = i
  BY <1>1, Appended
<1>6. \A n \in DOMAIN c : c[n].a # i.dst /\ c[n].b # i.dst /\ c[n].dst # i.dst
  <2>1. TAKE n \in DOMAIN c
  <2>2. c[n].dst <= b.regs /\ c[n].a <= b.regs /\ c[n].b <= b.regs /\ c[n].dst \in Nat /\ c[n].a \in Nat
        /\ c[n].b \in Nat
    BY <1>1, CodeFields DEF Within
  <2>3. QED
    BY <1>1, <2>2
<1>7. i.dst \notin Live(b) /\ i.dst \notin OnStack(b)
  BY <1>1
<1>8. i.k = "cast" => i.dst # i.a
  <2>1. SUFFICES ASSUME i.k = "cast" PROVE i.a \in Live(b)
    BY <1>7
  <2>2. i.a \in Readable(b)
    BY <2>1 DEF Operands
  <2>3. Readable(b) \subseteq OnStack(b)
    BY <1>1, BuildFacts DEF Readable, OnStack
  <2>4. QED
    BY <1>1, <2>2, <2>3
<1>9. i.k # "mov" /\ i.k \in Defining
  BY DEF EmitKinds, Defining
<1> HIDE DEF e, g, z, x
<1>10. Typed(e)
  BY <1>1, <1>6, <1>8, CastsGrow DEF Marked, e
<1>11. Paired(e)
  BY <1>1, PairsGrow DEF Marked, e
<1>12. ASSUME NEW j \in DOMAIN g.stack PROVE TypedAs(e, g.stack[j].reg, g.stack[j].type)
  <2>1. CASE j \in DOMAIN b.stack
    <3>1. TypedAs(c, b.stack[j].reg, b.stack[j].type) /\ b.stack[j].reg \in OnStack(b)
      BY <2>1 DEF Marked, OnStack
    <3>2. i.dst # b.stack[j].reg
      BY <1>7, <3>1
    <3>3. TypedAs(e, b.stack[j].reg, b.stack[j].type)
      BY <1>1, <3>1, <3>2, TypedGrows DEF e
    <3>4. QED
      BY <1>3, <1>4, <2>1, <3>3
  <2>2. CASE j = Len(b.stack) + 1
    <3>1. TypedAs(c, i.dst, t)
      BY <1>6 DEF TypedAs
    <3>2. TypedAs(e, i.dst, t)
      BY <1>1, <3>1, TypedGrows DEF e
    <3>3. QED
      BY <1>2, <1>3, <1>4, <2>2, <3>2
  <2>3. QED
    BY <1>3, <1>4, <2>1, <2>2
<1>13. ASSUME NEW n \in DOMAIN e, e[n].k = "mov" PROVE Twice(e, n) \/ (g.arm = "else" /\ e[n].dst = g.merge)
  <2>1. n \in DOMAIN c /\ e[n] = c[n]
    BY <1>5, <1>9, <1>13
  <2>2. Twice(c, n) \/ (b.arm = "else" /\ c[n].dst = b.merge)
    BY <1>13, <2>1 DEF Marked
  <2>3. QED
    BY <1>1, <1>4, <2>1, <2>2, TwiceGrows DEF e
<1>14. ASSUME g.arm # "none", NEW d \in DOMAIN e, e[d].dst = g.merge PROVE e[d].k = "mov"
  <2>1. i.dst # g.merge
    BY <1>1, <1>4, <1>7, <1>14
  <2>2. d \in DOMAIN c /\ e[d] = c[d]
    BY <1>5, <1>14, <2>1
  <2>3. QED
    BY <1>4, <1>14, <2>2 DEF Marked
<1>15. g.arm = "else" => \E d \in DOMAIN e : e[d].dst = g.merge
  BY <1>4, <1>5 DEF Marked
<1>16. QED
  BY <1>10, <1>11, <1>12, <1>13, <1>14, <1>15 DEF Marked, e, g, z, x

More(c, b) == Marked(c, b) /\ \A memory \in Memories : Settled(c, b, memory)

LEMMA PassRuns ==
    ASSUME NEW m \in Machines, NEW i \in Insts, i.k \in Defining
    PROVE  /\ Run1(m, i).goal = m.goal
           /\ Run1(m, i).returned <=> m.returned
<1>1. CASE ~Active(m)
  <2>1. i.k # "label"
    BY DEF Defining
  <2>2. Run1(m, i) = m
    BY <1>1, <2>1, IdleRuns
  <2>3. QED
    BY <2>2
<1>2. CASE Active(m)
  <2>1. Assigned(Run1(m, i), m, i)
    BY <1>2, DefiningRuns, Zenon
  <2>2. QED
    BY <1>2, <2>1 DEF Assigned, Active
<1>3. QED
  BY <1>1, <1>2

LEMMA SettledPush ==
    ASSUME NEW c, NEW b, BuildOK(c, b), NEW memory \in Memories, Settled(c, b, memory), NEW i \in Insts,
           NEW t \in Types, i.k \in EmitKinds,
           b.regs + 1 <= MaxRegs, i.dst = b.regs + 1, Operands(i) \subseteq Readable(b)
    PROVE  Settled(Append(c, i), Grown(b, Append(b.stack, Entry(b.regs + 1, t)), b.regs + 1), memory)
<1>1. /\ c \in Seq(Insts) /\ b \in Builder /\ b.regs \in Nat /\ MaxRegs \in Nat /\ b.stack \in Seq(Entries)
      /\ b.floor \in Nat /\ b.floor <= Len(b.stack) /\ Len(b.stack) \in Nat
  BY BuildFacts
<1> DEFINE x == Entry(b.regs + 1, t)
           z == Append(b.stack, x)
           g == Grown(b, z, b.regs + 1)
           e == Append(c, i)
<1>2. x \in Entries /\ x.reg = b.regs + 1 /\ b.regs + 1 \in 0 .. MaxRegs
  BY <1>1 DEF Entry, Entries, Regs
<1>3. /\ z \in Seq(Entries) /\ DOMAIN z = DOMAIN b.stack \cup {Len(b.stack) + 1}
      /\ (\A j \in DOMAIN b.stack : z[j] = b.stack[j]) /\ z[Len(b.stack) + 1] = x
  BY <1>1, <1>2, Appended
<1>4. g.stack = z /\ g.arm = b.arm /\ g.merge = b.merge /\ g.floor = b.floor /\ g.labels = b.labels
  <2>1. PICK n \in 0 .. MaxRegs : n = b.regs + 1
    BY <1>2
  <2>2. b \in Builder /\ z \in Seq(Entries)
    BY <1>1, <1>3
  <2> HIDE DEF z
  <2>3. /\ Grown(b, z, n).stack = z /\ Grown(b, z, n).arm = b.arm /\ Grown(b, z, n).merge = b.merge
        /\ Grown(b, z, n).floor = b.floor /\ Grown(b, z, n).labels = b.labels
    BY <2>2, GrownIs, Zenon
  <2>4. QED
    BY <2>1, <2>3
<1>5. PICK m : m = End(c, memory)
  OBVIOUS
<1>6. /\ Dominated(c, memory)
      /\ \A j \in DOMAIN b.stack :
            ~m.returned /\ (m.goal = 0 \/ j <= b.floor) => b.stack[j].reg \in Made(c, memory)
      /\ ~m.returned /\ m.goal # 0 =>
            \/ b.arm = "then" /\ m.goal = b.labels + 2
            \/ b.arm = "else" /\ m.goal = b.labels + 3 /\ b.merge \in Made(c, memory)
  BY <1>5 DEF Settled
<1>7. /\ m \in Machines /\ End(e, memory) = Run1(m, i)
      /\ Made(e, memory) = Made(c, memory) \cup (IF Active(m) THEN {i.dst} ELSE {})
      /\ Dominated(c, memory) /\ (Active(m) => Operands(i) \subseteq Made(c, memory)) => Dominated(e, memory)
  BY <1>1, <1>5, EndGrows
<1> HIDE DEF e, g, z, x
<1>8. PICK w : w = End(e, memory) /\ w.goal = m.goal /\ (w.returned <=> m.returned)
  BY <1>7, PassRuns DEF EmitKinds, Defining
<1>9. Active(m) => Operands(i) \subseteq Made(c, memory)
  <2>1. SUFFICES ASSUME Active(m), NEW r \in Readable(b) PROVE r \in Made(c, memory)
    OBVIOUS
  <2>2. PICK j \in b.floor + 1 .. Len(b.stack) : b.stack[j].reg = r
    BY <2>1 DEF Readable
  <2>3. j \in DOMAIN b.stack
    BY <1>1, <2>2
  <2>4. QED
    BY <1>6, <2>1, <2>2, <2>3 DEF Active
<1>10. ASSUME NEW j \in DOMAIN g.stack, ~w.returned, w.goal = 0 \/ j <= g.floor
       PROVE  g.stack[j].reg \in Made(e, memory)
  <2>1. CASE j \in DOMAIN b.stack
    BY <1>3, <1>4, <1>6, <1>7, <1>8, <1>10, <2>1
  <2>2. CASE j = Len(b.stack) + 1
    <3>1. w.goal = 0
      BY <1>1, <1>4, <1>10, <2>2
    <3>2. Active(m)
      BY <1>8, <1>10, <3>1 DEF Active
    <3>3. QED
      BY <1>2, <1>3, <1>4, <1>7, <2>2, <3>2
  <2>3. QED
    BY <1>3, <1>4, <2>1, <2>2
<1>11. ~w.returned /\ w.goal # 0 =>
            \/ g.arm = "then" /\ w.goal = g.labels + 2
            \/ g.arm = "else" /\ w.goal = g.labels + 3 /\ g.merge \in Made(e, memory)
  BY <1>4, <1>6, <1>7, <1>8
<1>12. QED
  BY <1>6, <1>7, <1>8, <1>9, <1>10, <1>11 DEF Settled, e, g, z, x

LEMMA MorePush ==
    ASSUME NEW c, NEW b, BuildOK(c, b), More(c, b), NEW i \in Insts, NEW t \in Types, i.k \in EmitKinds,
           b.regs + 1 <= MaxRegs, i.dst = b.regs + 1, Operands(i) \subseteq Readable(b),
           i.k \in {"load", "cast"} => i.to = t,
           i.k = "cast" => TypedAs(c, i.a, i.from) /\ i.a # NoReg,
           i.k = "carry" /\ i.imm = 1 => Len(c) \in DOMAIN c /\ c[Len(c)].k = "carry" /\ c[Len(c)].imm = 0
    PROVE  More(Append(c, i), Grown(b, Append(b.stack, Entry(b.regs + 1, t)), b.regs + 1))
BY MarkedPush, SettledPush DEF More

(* What is taken off the stack.                                            *)
LEMMA MoreDrop ==
    ASSUME NEW c, NEW b, More(c, b), NEW e, e.arm = b.arm, e.merge = b.merge, e.floor = b.floor,
           e.labels = b.labels,
           \A j \in DOMAIN e.stack : \E k \in DOMAIN b.stack :
               e.stack[j] = b.stack[k] /\ (j <= b.floor => k = j)
    PROVE  More(c, e)
<1>1. Marked(c, e)
  BY DEF More, Marked
<1>2. ASSUME NEW memory \in Memories PROVE Settled(c, e, memory)
  <2>1. PICK m : m = End(c, memory)
    OBVIOUS
  <2>2. Settled(c, b, memory)
    BY DEF More
  <2>3. ASSUME NEW j \in DOMAIN e.stack, ~m.returned, m.goal = 0 \/ j <= e.floor
        PROVE  e.stack[j].reg \in Made(c, memory)
    <3>1. PICK k \in DOMAIN b.stack : e.stack[j] = b.stack[k] /\ (j <= b.floor => k = j)
      OBVIOUS
    <3>2. QED
      BY <2>1, <2>2, <2>3, <3>1 DEF Settled
  <2>4. QED
    BY <2>1, <2>2, <2>3 DEF Settled
<1>3. QED
  BY <1>1, <1>2 DEF More

Controls == {"store", "label", "jmp", "cjmp", "ret"}

LEMMA GoalRuns ==
    ASSUME NEW m \in Machines, NEW i \in Insts, i.k \in Controls
    PROVE  /\ i.k = "label" => Run1(m, i).goal = IF ~m.returned /\ i.label = m.goal THEN 0 ELSE m.goal
           /\ i.k = "jmp" => Run1(m, i).goal = IF Active(m) THEN i.label ELSE m.goal
           /\ i.k = "cjmp" => IF Active(m) THEN Run1(m, i).goal = i.label \/ Run1(m, i).goal = i.other
                           ELSE Run1(m, i).goal = m.goal
           /\ i.k \in {"store", "ret"} => Run1(m, i).goal = m.goal
           /\ i.k # "ret" => (Run1(m, i).returned <=> m.returned)
           /\ i.k = "ret" => (Run1(m, i).returned <=> m.returned \/ Active(m))
<1>1. PICK e : e = Run1(m, i)
  OBVIOUS
<1>2. CASE ~Active(m)
  <2>1. /\ e.returned = m.returned
        /\ e.goal = IF ~m.returned /\ i.k = "label" /\ i.label = m.goal THEN 0 ELSE m.goal
    BY <1>1, <1>2, IdleRuns
  <2>2. QED
    BY <1>1, <1>2, <2>1
<1>3. CASE Active(m)
  <2>1. /\ IF i.k = "ret" THEN e.returned ELSE ~e.returned
        /\ e.goal = IF i.k = "jmp" THEN i.label
                    ELSE IF i.k = "cjmp" THEN IF m.regs[i.a] # 0 THEN i.label ELSE i.other
                    ELSE 0
    BY <1>1, <1>3, ControlRuns DEF Controls, Defining
  <2>2. ~m.returned /\ m.goal = 0
    BY <1>3 DEF Active
  <2>3. QED
    BY <1>1, <1>3, <2>1, <2>2
<1>4. QED
  BY <1>2, <1>3

LEMMA ControlMarks ==
    ASSUME NEW c \in Seq(Insts), NEW b, Marked(c, b), NEW i \in Insts, i.k \in Controls,
           b.arm # "none" => b.merge # 0
    PROVE  Marked(Append(c, i), b)
<1>1. /\ DOMAIN Append(c, i) = DOMAIN c \cup {Len(c) + 1}
      /\ \A p \in DOMAIN c : Append(c, i)[p] = c[p]
      /\ Append(c, i)[Len(c) + 1] = i
  BY Appended
<1>2. PICK e : e = Append(c, i)
  OBVIOUS
<1>3. i.k \notin {"load", "cast", "mov", "carry"} /\ i.dst = 0
  BY InstFields DEF Controls, Formed, Defining, NoReg
<1>4. Typed(e)
  BY <1>2, <1>3, CastsGrow DEF Marked
<1>5. Paired(e)
  BY <1>2, <1>3, PairsGrow DEF Marked
<1>6. \A j \in DOMAIN b.stack : TypedAs(e, b.stack[j].reg, b.stack[j].type)
  BY <1>2, <1>3, TypedGrows DEF Marked
<1>7. ASSUME NEW n \in DOMAIN e, e[n].k = "mov" PROVE Twice(e, n) \/ (b.arm = "else" /\ e[n].dst = b.merge)
  <2>1. n \in DOMAIN c /\ e[n] = c[n]
    BY <1>1, <1>2, <1>3, <1>7
  <2>2. QED
    BY <1>2, <1>7, <2>1, TwiceGrows DEF Marked
<1>8. ASSUME b.arm # "none", NEW d \in DOMAIN e, e[d].dst = b.merge PROVE e[d].k = "mov"
  BY <1>1, <1>2, <1>3, <1>8 DEF Marked
<1>9. b.arm = "else" => \E d \in DOMAIN e : e[d].dst = b.merge
  BY <1>1, <1>2 DEF Marked
<1>10. QED
  BY <1>2, <1>4, <1>5, <1>6, <1>7, <1>8, <1>9 DEF Marked

(* A value moved into the register of a ternary, by its first or second arm.*)
LEMMA MoveMarks ==
    ASSUME NEW c \in Seq(Insts), NEW b, Marked(c, b), NEW i \in Insts, i.k = "mov", i.dst = b.merge,
           b.arm # "none"
    PROVE  LET e == Append(c, i)
           IN  /\ Typed(e) /\ Paired(e)
               /\ \A j \in DOMAIN b.stack : TypedAs(e, b.stack[j].reg, b.stack[j].type)
               /\ \A n \in DOMAIN e : e[n].k = "mov" => Twice(e, n) \/ e[n].dst = b.merge
               /\ \A d \in DOMAIN e : e[d].dst = b.merge => e[d].k = "mov"
               /\ \E d \in DOMAIN e : e[d].dst = b.merge
               /\ b.arm = "else" => \A n \in DOMAIN e : e[n].k = "mov" => Twice(e, n)
<1>1. /\ DOMAIN Append(c, i) = DOMAIN c \cup {Len(c) + 1} /\ Len(c) + 1 \notin DOMAIN c
      /\ \A p \in DOMAIN c : Append(c, i)[p] = c[p]
      /\ Append(c, i)[Len(c) + 1] = i
  BY Appended
<1>2. PICK e : e = Append(c, i)
  OBVIOUS
<1>3. Typed(e)
  BY <1>2, CastsGrow DEF Marked
<1>4. Paired(e)
  BY <1>2, PairsGrow DEF Marked
<1>5. \A j \in DOMAIN b.stack : TypedAs(e, b.stack[j].reg, b.stack[j].type)
  BY <1>2, TypedGrows DEF Marked
<1>6. ASSUME NEW n \in DOMAIN e, e[n].k = "mov" PROVE Twice(e, n) \/ e[n].dst = b.merge
  <2>1. CASE n \in DOMAIN c
    BY <1>1, <1>2, <1>6, <2>1, TwiceGrows DEF Marked
  <2>2. CASE n = Len(c) + 1
    BY <1>1, <1>2, <2>2
  <2>3. QED
    BY <1>1, <1>2, <2>1, <2>2
<1>7. \A d \in DOMAIN e : e[d].dst = b.merge => e[d].k = "mov"
  BY <1>1, <1>2 DEF Marked
<1>8. ASSUME b.arm = "else", NEW n \in DOMAIN e, e[n].k = "mov" PROVE Twice(e, n)
  <2>1. SUFFICES ASSUME e[n].dst = b.merge PROVE Twice(e, n)
    BY <1>6, <1>8
  <2>2. CASE n \in DOMAIN c
    BY <1>1, <1>2, <2>1, <2>2 DEF Twice
  <2>3. CASE n = Len(c) + 1
    <3>1. PICK d \in DOMAIN c : c[d].dst = b.merge
      BY <1>8 DEF Marked
    <3>2. QED
      BY <1>1, <1>2, <2>1, <2>3, <3>1 DEF Twice
  <2>4. QED
    BY <1>1, <1>2, <2>2, <2>3
<1>9. QED
  BY <1>1, <1>2, <1>3, <1>4, <1>5, <1>6, <1>7, <1>8

LEMMA ArmsAre ==
    ASSUME NEW b \in Builder
    PROVE  /\ LET e == Opened(b)
              IN  /\ e.stack = SubSeq(b.stack, 1, Len(b.stack) - 1) /\ e.arm = "then" /\ e.merge = b.regs + 1
                  /\ e.floor = Len(b.stack) - 1 /\ e.labels = b.labels
           /\ LET e == Turned(b)
              IN  /\ e.stack = SubSeq(b.stack, 1, Len(b.stack) - 1) /\ e.arm = "else" /\ e.merge = b.merge
                  /\ e.floor = b.floor /\ e.labels = b.labels
           /\ LET e == Closed(b)
              IN  /\ e.stack = Append(SubSeq(b.stack, 1, Len(b.stack) - 1), Entry(b.merge, b.armType))
                  /\ e.arm = "none" /\ e.floor = 0
           /\ LET e == Ended(b) IN e.stack = <<>> /\ e.arm = b.arm
BY DEF Opened, Turned, Closed, Ended, Builder

LEMMA TopRead ==
    ASSUME NEW c, NEW b, BuildOK(c, b), Len(b.stack) > 0, NEW memory \in Memories, Settled(c, b, memory)
    PROVE  Active(End(c, memory)) => TopReg(b) \in Made(c, memory)
<1>1. b \in Builder
  BY BuildFacts
<1>2. Len(b.stack) \in DOMAIN b.stack
  BY <1>1, Popped
<1>3. QED
  BY <1>2 DEF Settled, TopReg, Active

LEMMA MoreOpen ==
    ASSUME NEW c, NEW b, BuildOK(c, b), More(c, b), Len(b.stack) > 0, b.arm = "none",
           NEW i \in Insts, i.k = "cjmp", i.label = b.labels + 1, i.other = b.labels + 2, i.a = TopReg(b), i.b = 0,
           NEW l \in Insts, l.k = "label", l.label = b.labels + 1, l.a = 0, l.b = 0
    PROVE  More(Append(Append(c, i), l), Opened(b))
<1>1. /\ c \in Seq(Insts) /\ b \in Builder /\ b.regs \in Nat /\ b.labels \in Nat /\ Within(c, b.regs, NoReg)
      /\ b.floor = 0 /\ Len(b.stack) \in Nat
  BY BuildFacts
<1> DEFINE d == Append(c, i)
           f == Append(d, l)
           e == Opened(b)
           s == SubSeq(b.stack, 1, Len(b.stack) - 1)
<1>2. /\ e.stack = s /\ e.arm = "then" /\ e.merge = b.regs + 1 /\ e.floor = Len(b.stack) - 1
      /\ e.labels = b.labels
  BY <1>1, ArmsAre
<1>3. /\ DOMAIN s \subseteq DOMAIN b.stack /\ (\A j \in DOMAIN s : s[j] = b.stack[j])
  BY <1>1, Popped
<1>4. d \in Seq(Insts) /\ f \in Seq(Insts) /\ i.dst = 0 /\ l.dst = 0
  BY <1>1, Appended, InstFields DEF Formed, Defining, NoReg
<1>5. Marked(d, b)
  BY <1>1, ControlMarks DEF More, Controls
<1>6. Marked(f, b)
  BY <1>1, <1>4, <1>5, ControlMarks DEF Controls
<1>7. \A n \in DOMAIN f : f[n].dst # b.regs + 1
  <2>1. \A n \in DOMAIN c : c[n].dst # b.regs + 1
    <3>1. TAKE n \in DOMAIN c
    <3>2. c[n].dst <= b.regs /\ c[n].dst \in Nat
      BY <1>1, CodeFields DEF Within
    <3>3. QED
      BY <1>1, <3>2
  <2>2. \A n \in DOMAIN d : d[n].dst # b.regs + 1
    BY <1>1, <1>4, <2>1, Appended
  <2>3. QED
    BY <1>1, <1>4, <2>2, Appended
<1> HIDE DEF e, s, f, d
<1>8. Marked(f, e)
  BY <1>2, <1>3, <1>6, <1>7 DEF Marked
<1>9. ASSUME NEW memory \in Memories PROVE Settled(f, e, memory)
  <2>1. Settled(c, b, memory)
    BY DEF More
  <2>2. PICK m : m = End(c, memory)
    OBVIOUS
  <2>3. /\ m \in Machines /\ End(d, memory) = Run1(m, i)
        /\ Made(d, memory) = Made(c, memory) \cup (IF Active(m) THEN {i.dst} ELSE {})
        /\ Dominated(c, memory) /\ (Active(m) => Operands(i) \subseteq Made(c, memory)) => Dominated(d, memory)
    BY <1>1, <2>2, EndGrows DEF d
  <2>4. PICK y : y = End(d, memory)
    OBVIOUS
  <2>5. /\ y \in Machines /\ End(f, memory) = Run1(y, l)
        /\ Made(f, memory) = Made(d, memory) \cup (IF Active(y) THEN {l.dst} ELSE {})
        /\ Dominated(d, memory) /\ (Active(y) => Operands(l) \subseteq Made(d, memory)) => Dominated(f, memory)
    BY <1>4, <2>4, EndGrows DEF f
  <2>6. Dominated(f, memory)
    <3>1. Active(m) => Operands(i) \subseteq Made(c, memory)
      BY <2>1, <2>2, TopRead DEF Operands, NoReg
    <3>2. Operands(l) = {}
      BY DEF Operands, NoReg
    <3>3. QED
      BY <2>1, <2>3, <2>5, <3>1, <3>2 DEF Settled
  <2>7. /\ IF Active(m) THEN y.goal = i.label \/ y.goal = i.other ELSE y.goal = m.goal
        /\ (y.returned <=> m.returned)
    BY <2>3, <2>4, GoalRuns DEF Controls
  <2>8. PICK w : /\ w = End(f, memory)
                 /\ w.goal = IF ~y.returned /\ l.label = y.goal THEN 0 ELSE y.goal
                 /\ (w.returned <=> y.returned)
    BY <2>5, GoalRuns DEF Controls
  <2>9. ~m.returned => m.goal = 0
    BY <2>1, <2>2 DEF Settled
  <2>10. ~w.returned => w.goal \in {0, b.labels + 2}
    BY <1>1, <2>7, <2>8, <2>9 DEF Active
  <2>11. \A j \in DOMAIN e.stack : ~w.returned => e.stack[j].reg \in Made(f, memory)
    BY <1>2, <1>3, <2>1, <2>2, <2>3, <2>5, <2>7, <2>8, <2>9 DEF Settled
  <2>12. QED
    BY <1>2, <2>6, <2>8, <2>10, <2>11 DEF Settled
<1>10. QED
  BY <1>8, <1>9 DEF More, f, e, d

LEMMA MoreTurn ==
    ASSUME NEW c, NEW b, BuildOK(c, b), More(c, b), Len(b.stack) = b.floor + 1, b.arm = "then",
           NEW i \in Insts, i.k = "mov", i.dst = b.merge, i.a = TopReg(b), i.b = 0,
           NEW j \in Insts, j.k = "jmp", j.label = b.labels + 3, j.a = 0, j.b = 0,
           NEW l \in Insts, l.k = "label", l.label = b.labels + 2, l.a = 0, l.b = 0
    PROVE  More(Append(Append(Append(c, i), j), l), Turned(b))
<1>1. /\ c \in Seq(Insts) /\ b \in Builder /\ b.regs \in Nat /\ b.labels \in Nat
      /\ b.floor \in Nat /\ Len(b.stack) > 0 /\ b.merge \in Regs /\ Len(b.stack) \in Nat
  BY BuildFacts
<1> DEFINE d == Append(c, i)
           f == Append(d, j)
           g == Append(f, l)
           e == Turned(b)
           s == SubSeq(b.stack, 1, Len(b.stack) - 1)
<1>2. /\ e.stack = s /\ e.arm = "else" /\ e.merge = b.merge /\ e.floor = b.floor
      /\ e.labels = b.labels
  BY <1>1, ArmsAre
<1>3. /\ DOMAIN s \subseteq DOMAIN b.stack /\ (\A x \in DOMAIN s : s[x] = b.stack[x])
      /\ \A x \in DOMAIN s : x <= b.floor
  <2>1. s \in Seq(Entries) /\ Len(s) = b.floor
    BY <1>1, Popped
  <2>2. DOMAIN s \subseteq DOMAIN b.stack /\ \A x \in DOMAIN s : s[x] = b.stack[x]
    BY <1>1, Popped, Zenon
  <2>3. \A x \in DOMAIN s : x <= b.floor
    BY <1>1, <2>1
  <2>4. QED
    BY <2>1, <2>2, <2>3
<1>4. d \in Seq(Insts) /\ f \in Seq(Insts)
  BY <1>1, Appended
<1>5. e.merge # 0
  BY <1>1, <1>2 DEF Regs
<1>6. Marked(d, e)
  <2>1. Marked(c, b)
    BY DEF More
  <2>2. /\ Typed(d) /\ Paired(d)
        /\ \A x \in DOMAIN b.stack : TypedAs(d, b.stack[x].reg, b.stack[x].type)
        /\ \A n \in DOMAIN d : d[n].k = "mov" => Twice(d, n) \/ d[n].dst = b.merge
        /\ \A n \in DOMAIN d : d[n].dst = b.merge => d[n].k = "mov"
        /\ \E n \in DOMAIN d : d[n].dst = b.merge
    BY <1>1, <2>1, MoveMarks
  <2> HIDE DEF d, e, s
  <2>3. QED
    BY <1>2, <1>3, <2>2 DEF Marked
<1> HIDE DEF e, s, g, f, d
<1>7. Marked(f, e)
  BY <1>4, <1>5, <1>6, ControlMarks DEF Controls, f
<1>8. Marked(g, e)
  BY <1>4, <1>5, <1>7, ControlMarks DEF Controls, g
<1>9. ASSUME NEW memory \in Memories PROVE Settled(g, e, memory)
  <2>1. Settled(c, b, memory)
    BY DEF More
  <2>2. PICK m : m = End(c, memory)
    OBVIOUS
  <2>3. /\ m \in Machines /\ End(d, memory) = Run1(m, i)
        /\ Made(d, memory) = Made(c, memory) \cup (IF Active(m) THEN {i.dst} ELSE {})
        /\ Dominated(c, memory) /\ (Active(m) => Operands(i) \subseteq Made(c, memory)) => Dominated(d, memory)
    BY <1>1, <2>2, EndGrows DEF d
  <2>4. PICK x : x = End(d, memory)
    OBVIOUS
  <2>5. /\ x \in Machines /\ End(f, memory) = Run1(x, j)
        /\ Made(f, memory) = Made(d, memory) \cup (IF Active(x) THEN {j.dst} ELSE {})
        /\ Dominated(d, memory) /\ (Active(x) => Operands(j) \subseteq Made(d, memory)) => Dominated(f, memory)
    BY <1>4, <2>4, EndGrows DEF f
  <2>6. PICK y : y = End(f, memory)
    OBVIOUS
  <2>7. /\ y \in Machines /\ End(g, memory) = Run1(y, l)
        /\ Made(g, memory) = Made(f, memory) \cup (IF Active(y) THEN {l.dst} ELSE {})
        /\ Dominated(f, memory) /\ (Active(y) => Operands(l) \subseteq Made(f, memory)) => Dominated(g, memory)
    BY <1>4, <2>6, EndGrows DEF g
  <2>8. Dominated(g, memory)
    <3>1. Active(m) => Operands(i) \subseteq Made(c, memory)
      BY <1>1, <2>1, <2>2, TopRead DEF Operands, NoReg
    <3>2. Operands(j) = {} /\ Operands(l) = {}
      BY DEF Operands, NoReg
    <3>3. QED
      BY <2>1, <2>3, <2>5, <2>7, <3>1, <3>2 DEF Settled
  <2>9. x.goal = m.goal /\ (x.returned <=> m.returned)
    BY <2>3, <2>4, PassRuns DEF Defining
  <2>10. (y.goal = IF Active(x) THEN j.label ELSE x.goal) /\ (y.returned <=> x.returned)
    BY <2>5, <2>6, GoalRuns DEF Controls
  <2>11. PICK w : /\ w = End(g, memory)
                  /\ w.goal = IF ~y.returned /\ l.label = y.goal THEN 0 ELSE y.goal
                  /\ (w.returned <=> y.returned)
    BY <2>7, GoalRuns DEF Controls
  <2>12. ~m.returned /\ m.goal # 0 => m.goal = b.labels + 2
    BY <2>1, <2>2 DEF Settled
  <2>13. ~w.returned /\ w.goal # 0 => w.goal = b.labels + 3 /\ Active(m)
    BY <1>1, <2>9, <2>10, <2>11, <2>12 DEF Active
  <2>14. ~w.returned /\ w.goal # 0 => b.merge \in Made(g, memory)
    BY <2>3, <2>5, <2>7, <2>13
  <2>15. \A z \in DOMAIN e.stack : ~w.returned => e.stack[z].reg \in Made(g, memory)
    BY <1>2, <1>3, <2>1, <2>2, <2>3, <2>5, <2>7, <2>9, <2>10, <2>11 DEF Settled
  <2>16. QED
    BY <1>2, <2>8, <2>11, <2>13, <2>14, <2>15 DEF Settled
<1>10. QED
  BY <1>8, <1>9 DEF More, g, f, e, d

LEMMA MoreJoin ==
    ASSUME NEW c, NEW b, BuildOK(c, b), More(c, b), Len(b.stack) = b.floor + 1, b.arm = "else",
           NEW i \in Insts, i.k = "mov", i.dst = b.merge, i.a = TopReg(b), i.b = 0,
           NEW l \in Insts, l.k = "label", l.label = b.labels + 3, l.a = 0, l.b = 0
    PROVE  More(Append(Append(c, i), l), Closed(b))
<1>1. /\ c \in Seq(Insts) /\ b \in Builder /\ b.regs \in Nat /\ b.labels \in Nat
      /\ b.floor \in Nat /\ Len(b.stack) > 0 /\ b.merge \in Regs /\ Len(b.stack) \in Nat /\ b.armType \in Types
  BY BuildFacts
<1> DEFINE d == Append(c, i)
           f == Append(d, l)
           e == Closed(b)
           s == SubSeq(b.stack, 1, Len(b.stack) - 1)
           t == Entry(b.merge, b.armType)
           z == Append(s, t)
<1>2. e.stack = z /\ e.arm = "none" /\ e.floor = 0
  BY <1>1, ArmsAre
<1>3. /\ s \in Seq(Entries) /\ Len(s) = b.floor
      /\ DOMAIN s \subseteq DOMAIN b.stack /\ (\A x \in DOMAIN s : s[x] = b.stack[x])
      /\ \A x \in DOMAIN s : x <= b.floor
  <2>1. s \in Seq(Entries) /\ Len(s) = b.floor
    BY <1>1, Popped
  <2>2. DOMAIN s \subseteq DOMAIN b.stack /\ \A x \in DOMAIN s : s[x] = b.stack[x]
    BY <1>1, Popped, Zenon
  <2>3. \A x \in DOMAIN s : x <= b.floor
    BY <1>1, <2>1
  <2>4. QED
    BY <2>1, <2>2, <2>3
<1>4. t \in Entries /\ t.reg = b.merge /\ t.type = b.armType
  BY <1>1 DEF Entry, Entries
<1>5. /\ DOMAIN z = DOMAIN s \cup {Len(s) + 1}
      /\ (\A x \in DOMAIN s : z[x] = s[x]) /\ z[Len(s) + 1] = t
  BY <1>3, <1>4, Appended
<1>6. d \in Seq(Insts) /\ f \in Seq(Insts)
  BY <1>1, Appended
<1>7. Marked(d, e)
  <2>1. Marked(c, b)
    BY DEF More
  <2>2. /\ Typed(d) /\ Paired(d)
        /\ \A x \in DOMAIN b.stack : TypedAs(d, b.stack[x].reg, b.stack[x].type)
        /\ \A n \in DOMAIN d : d[n].dst = b.merge => d[n].k = "mov"
        /\ \A n \in DOMAIN d : d[n].k = "mov" => Twice(d, n)
    BY <1>1, <2>1, MoveMarks
  <2> HIDE DEF d, e, s, z, t
  <2>3. TypedAs(d, b.merge, b.armType)
    BY <2>2 DEF TypedAs
  <2>4. \A x \in DOMAIN e.stack : TypedAs(d, e.stack[x].reg, e.stack[x].type)
    BY <1>2, <1>3, <1>4, <1>5, <2>2, <2>3
  <2>5. QED
    BY <1>2, <2>2, <2>4 DEF Marked
<1> HIDE DEF e, s, f, d, z, t
<1>8. Marked(f, e)
  BY <1>2, <1>6, <1>7, ControlMarks DEF Controls, f
<1>9. ASSUME NEW memory \in Memories PROVE Settled(f, e, memory)
  <2>1. Settled(c, b, memory)
    BY DEF More
  <2>2. PICK m : m = End(c, memory)
    OBVIOUS
  <2>3. /\ m \in Machines /\ End(d, memory) = Run1(m, i)
        /\ Made(d, memory) = Made(c, memory) \cup (IF Active(m) THEN {i.dst} ELSE {})
        /\ Dominated(c, memory) /\ (Active(m) => Operands(i) \subseteq Made(c, memory)) => Dominated(d, memory)
    BY <1>1, <2>2, EndGrows DEF d
  <2>4. PICK y : y = End(d, memory)
    OBVIOUS
  <2>5. /\ y \in Machines /\ End(f, memory) = Run1(y, l)
        /\ Made(f, memory) = Made(d, memory) \cup (IF Active(y) THEN {l.dst} ELSE {})
        /\ Dominated(d, memory) /\ (Active(y) => Operands(l) \subseteq Made(d, memory)) => Dominated(f, memory)
    BY <1>6, <2>4, EndGrows DEF f
  <2>6. Dominated(f, memory)
    <3>1. Active(m) => Operands(i) \subseteq Made(c, memory)
      BY <1>1, <2>1, <2>2, TopRead DEF Operands, NoReg
    <3>2. Operands(l) = {}
      BY DEF Operands, NoReg
    <3>3. QED
      BY <2>1, <2>3, <2>5, <3>1, <3>2 DEF Settled
  <2>7. y.goal = m.goal /\ (y.returned <=> m.returned)
    BY <2>3, <2>4, PassRuns DEF Defining
  <2>8. PICK w : /\ w = End(f, memory)
                 /\ w.goal = IF ~y.returned /\ l.label = y.goal THEN 0 ELSE y.goal
                 /\ (w.returned <=> y.returned)
    BY <2>5, GoalRuns DEF Controls
  <2>9. ~m.returned /\ m.goal # 0 => m.goal = b.labels + 3 /\ b.merge \in Made(c, memory)
    BY <2>1, <2>2 DEF Settled
  <2>10. ~w.returned => w.goal = 0
    BY <2>7, <2>8, <2>9
  <2>11. ~w.returned => b.merge \in Made(f, memory)
    BY <2>3, <2>5, <2>7, <2>8, <2>9 DEF Active
  <2>12. \A x \in DOMAIN s : ~w.returned => b.stack[x].reg \in Made(f, memory)
    BY <1>3, <2>1, <2>2, <2>3, <2>5, <2>7, <2>8 DEF Settled
  <2>13. \A x \in DOMAIN e.stack : ~w.returned => e.stack[x].reg \in Made(f, memory)
    BY <1>2, <1>3, <1>4, <1>5, <2>11, <2>12
  <2>14. QED
    BY <2>6, <2>8, <2>10, <2>13 DEF Settled
<1>10. QED
  BY <1>8, <1>9 DEF More, f, e, d

LEMMA MoreEnd ==
    ASSUME NEW c, NEW b, BuildOK(c, b), More(c, b), b.arm = "none", NEW i \in Insts, i.k \in {"store", "ret"},
           Operands(i) \subseteq OnStack(b)
    PROVE  More(Append(c, i), Ended(b))
<1>1. c \in Seq(Insts) /\ b \in Builder
  BY BuildFacts
<1> DEFINE d == Append(c, i)
           e == Ended(b)
<1>2. e.stack = <<>> /\ DOMAIN e.stack = {} /\ e.arm = "none"
  BY <1>1, ArmsAre
<1>3. Marked(d, b)
  BY <1>1, ControlMarks DEF More, Controls
<1> HIDE DEF e, d
<1>4. Marked(d, e)
  BY <1>2, <1>3 DEF Marked
<1>5. ASSUME NEW memory \in Memories PROVE Settled(d, e, memory)
  <2>1. Settled(c, b, memory)
    BY DEF More
  <2>2. PICK m : m = End(c, memory)
    OBVIOUS
  <2>3. /\ m \in Machines /\ End(d, memory) = Run1(m, i)
        /\ Dominated(c, memory) /\ (Active(m) => Operands(i) \subseteq Made(c, memory)) => Dominated(d, memory)
    BY <1>1, <2>2, EndGrows DEF d
  <2>4. Active(m) => Operands(i) \subseteq Made(c, memory)
    BY <2>1, <2>2 DEF Settled, OnStack, Active
  <2>5. PICK w : w = End(d, memory) /\ w.goal = m.goal /\ (m.returned => w.returned)
    BY <2>3, GoalRuns DEF Controls
  <2>6. ~m.returned => m.goal = 0
    BY <2>1, <2>2 DEF Settled
  <2>7. QED
    BY <1>2, <2>1, <2>3, <2>4, <2>5, <2>6 DEF Settled
<1>6. QED
  BY <1>4, <1>5 DEF More, e, d

(* What is left of the stack below a value that is taken off.              *)
Bottom(b, s) ==
    /\ s \in Seq(Entries) /\ b.floor <= Len(s)
    /\ \A j \in DOMAIN s : j \in DOMAIN b.stack /\ s[j] = b.stack[j]

LEMMA MoreReplace ==
    ASSUME NEW c, NEW b, BuildOK(c, b), More(c, b), NEW i \in Insts, NEW s, Bottom(b, s), NEW t \in Types,
           i.k \in EmitKinds, b.regs + 1 <= MaxRegs, i.dst = b.regs + 1, Operands(i) \subseteq Readable(b),
           i.k \in {"load", "cast"} => i.to = t,
           i.k = "cast" => TypedAs(c, i.a, i.from) /\ i.a # NoReg,
           i.k = "carry" /\ i.imm = 1 => Len(c) \in DOMAIN c /\ c[Len(c)].k = "carry" /\ c[Len(c)].imm = 0
    PROVE  More(Append(c, i), Grown(b, Append(s, Entry(b.regs + 1, t)), b.regs + 1))
<1> DEFINE z == Append(b.stack, Entry(b.regs + 1, t))
           y == Append(s, Entry(b.regs + 1, t))
           g == Grown(b, z, b.regs + 1)
           e == Grown(b, y, b.regs + 1)
<1>1. b \in Builder /\ b.stack \in Seq(Entries) /\ b.regs \in Nat /\ b.floor \in Nat /\ s \in Seq(Entries)
  BY DEF BuildOK, Builder, Bottom
<1>2. Entry(b.regs + 1, t) \in Entries /\ b.regs + 1 \in 0 .. MaxRegs
  BY <1>1, OptimizerAssumption DEF Entry, Entries, Regs
<1>3. PICK w \in Entries : w = Entry(b.regs + 1, t)
  BY <1>2
<1>4. /\ z \in Seq(Entries) /\ DOMAIN z = DOMAIN b.stack \cup {Len(b.stack) + 1} /\ z[Len(b.stack) + 1] = w
      /\ \A j \in DOMAIN b.stack : z[j] = b.stack[j]
  BY <1>1, <1>3, Appended
<1>5. /\ y \in Seq(Entries) /\ DOMAIN y = DOMAIN s \cup {Len(s) + 1} /\ y[Len(s) + 1] = w /\ Len(s) \in Nat
      /\ \A j \in DOMAIN s : y[j] = s[j]
  BY <1>1, <1>3, Appended
<1> HIDE DEF z, y
<1>6. /\ g.stack = z /\ e.stack = y /\ e.arm = g.arm /\ e.merge = g.merge /\ e.floor = g.floor
      /\ e.labels = g.labels /\ g.floor = b.floor
  BY <1>1, <1>2, <1>4, <1>5, GrownIs
<1>7. More(Append(c, i), g)
  BY MorePush DEF z, g
<1> HIDE DEF g, e
<1>8. ASSUME NEW j \in DOMAIN e.stack
      PROVE  \E k \in DOMAIN g.stack : e.stack[j] = g.stack[k] /\ (j <= g.floor => k = j)
  <2>1. CASE j \in DOMAIN s
    BY <1>4, <1>5, <1>6, <2>1 DEF Bottom
  <2>2. CASE j = Len(s) + 1
    <3>1. ~(j <= g.floor)
      BY <1>1, <1>5, <1>6, <2>2 DEF Bottom
    <3>2. Len(b.stack) + 1 \in DOMAIN g.stack /\ e.stack[j] = g.stack[Len(b.stack) + 1]
      BY <1>4, <1>5, <1>6, <2>2
    <3>3. QED
      BY <3>1, <3>2
  <2>3. QED
    BY <1>5, <1>6, <1>8, <2>1, <2>2
<1>9. More(Append(c, i), e)
  BY <1>6, <1>7, <1>8, MoreDrop
<1>10. QED
  BY <1>9 DEF e, y

LEMMA MoreStep ==
    ASSUME Builds, More(code, build), NEW i \in Insts, NEW s, Bottom(build, s), NEW t \in Types,
           i.k \in EmitKinds, i.dst = Fresh, Operands(i) \subseteq Readable(build),
           i.k \in {"load", "cast"} => i.to = t,
           i.k = "cast" => TypedAs(code, i.a, i.from) /\ i.a # NoReg,
           i.k = "carry" => i.imm = 0, Push(i, s, t)
    PROVE  More(code', build')
<1>1. /\ Fresh <= MaxRegs /\ code' = code \o <<i>> /\ Fresh = build.regs + 1
      /\ build' = Grown(build, Append(s, Entry(build.regs + 1, t)), build.regs + 1)
  BY DEF Push, Emit, Grown, Fresh
<1>2. BuildOK(code, build) /\ code \in Seq(Insts)
  BY DEF Builds, BuildOK
<1>3. code' = Append(code, i)
  BY <1>1, <1>2, AppendSome
<1>4. More(Append(code, i), Grown(build, Append(s, Entry(build.regs + 1, t)), build.regs + 1))
  BY <1>1, <1>2, MoreReplace
<1>5. QED
  BY <1>1, <1>3, <1>4

LEMMA BottomIs ==
    ASSUME Builds
    PROVE  /\ Bottom(build, build.stack)
           /\ Depth > build.floor => Bottom(build, Under1)
           /\ Depth > build.floor + 1 => Bottom(build, Under2)
<1>1. /\ build \in Builder /\ build.stack \in Seq(Entries) /\ build.floor <= Len(build.stack)
      /\ build.floor \in Nat /\ Len(build.stack) \in Nat
  BY StackReads DEF Builder
<1>2. Bottom(build, build.stack)
  BY <1>1 DEF Bottom
<1>3. ASSUME NEW n \in 0 .. Len(build.stack), build.floor <= n
      PROVE  Bottom(build, SubSeq(build.stack, 1, n))
  <2>1. /\ SubSeq(build.stack, 1, n) \in Seq(Entries) /\ Len(SubSeq(build.stack, 1, n)) = n
        /\ \A j \in 1 .. n : SubSeq(build.stack, 1, n)[j] = build.stack[j] /\ j \in DOMAIN build.stack
    BY <1>1, PlainTop
  <2>2. DOMAIN SubSeq(build.stack, 1, n) = 1 .. n
    BY <2>1
  <2>3. QED
    BY <1>3, <2>1, <2>2 DEF Bottom
<1>4. QED
  BY <1>1, <1>2, <1>3 DEF Under1, Under2, Depth

LEMMA TopTyped ==
    ASSUME Builds, More(code, build), Depth > build.floor
    PROVE  TypedAs(code, Top.reg, Top.type)
<1>1. Len(build.stack) \in DOMAIN build.stack
  <2>1. build.stack \in Seq(Entries) /\ build.floor \in Nat
    BY StackReads DEF Builder
  <2>2. QED
    BY <2>1 DEF Depth
<1>2. QED
  BY <1>1 DEF More, Marked, Top, Depth

LEMMA LiteralMore == ASSUME Builds, More(code, build), NEW n \in build.words.literals, Literal(n)
                     PROVE  More(code', build')
<1>1. Fresh \in Regs /\ n \in Int /\ U16 \in Types
  BY StackReads, VocabularyIs, SomeTypes DEF Literal, Push, Emit, Fresh
<1>2. PICK i \in Insts : i = Const(Fresh, n) /\ i.k = "const" /\ i.dst = Fresh /\ i.a = 0 /\ i.b = 0
  <2>1. Const(Fresh, n) \in Insts /\ Const(Fresh, n).k = "const" /\ Const(Fresh, n).dst = Fresh
        /\ Const(Fresh, n).a = 0 /\ Const(Fresh, n).b = 0
    BY <1>1, ConstIs
  <2>2. QED
    BY <2>1
<1>3. Operands(i) = {} /\ i.k \in EmitKinds
  BY <1>2 DEF Operands, NoReg, EmitKinds
<1>4. Push(i, build.stack, U16)
  BY <1>2 DEF Literal
<1>5. QED
  BY <1>1, <1>2, <1>3, <1>4, BottomIs, MoreStep

LEMMA ReadMore == ASSUME Builds, More(code, build), NEW x \in build.words.variables, Read(x)
                  PROVE  More(code', build')
<1>1. Fresh \in Regs /\ x \in Variable /\ TypeOf[x] \in Types
  BY StackReads, VocabularyIs, SomeTypes DEF Read, Push, Emit, Fresh
<1>2. PICK i \in Insts : /\ i = Load(Fresh, x) /\ i.k = "load" /\ i.dst = Fresh /\ i.a = 0 /\ i.b = 0
                         /\ i.to = TypeOf[x]
  <2>1. Load(Fresh, x) \in Insts /\ Load(Fresh, x).k = "load" /\ Load(Fresh, x).dst = Fresh
        /\ Load(Fresh, x).a = 0 /\ Load(Fresh, x).b = 0 /\ Load(Fresh, x).to = TypeOf[x]
    BY <1>1, LoadIs
  <2>2. QED
    BY <2>1
<1>3. Operands(i) = {} /\ i.k \in EmitKinds
  BY <1>2 DEF Operands, NoReg, EmitKinds
<1>4. Push(i, build.stack, TypeOf[x])
  BY <1>2 DEF Read
<1>5. QED
  BY <1>1, <1>2, <1>3, <1>4, BottomIs, MoreStep

LEMMA CastMore == ASSUME Builds, More(code, build), NEW t \in build.words.casts, CastTo(t)
                  PROVE  More(code', build')
<1>1. Fresh \in Regs /\ t \in Types
  BY StackReads, VocabularyIs, SomeTypes DEF CastTo, Push, Emit, Fresh
<1>2. Top.reg \in Readable(build) /\ Top.reg \in 0 .. MaxRegs /\ Top.reg # 0 /\ Top.type \in Types
  BY TopReads DEF CastTo
<1>3. PICK i \in Insts : /\ i = Cast(Fresh, Top.reg, Top.type, t) /\ i.k = "cast" /\ i.dst = Fresh
                         /\ i.a = Top.reg /\ i.b = 0 /\ i.from = Top.type /\ i.to = t
  <2>1. LET i == Cast(Fresh, Top.reg, Top.type, t)
        IN  i \in Insts /\ i.k = "cast" /\ i.dst = Fresh /\ i.a = Top.reg /\ i.b = 0 /\ i.from = Top.type
          /\ i.to = t
    BY <1>1, <1>2, CastIs
  <2>2. QED
    BY <2>1
<1>4. Operands(i) \subseteq Readable(build) /\ i.k \in EmitKinds
  BY <1>2, <1>3 DEF Operands, NoReg, EmitKinds
<1>5. Push(i, Under1, t) /\ Depth > build.floor
  BY <1>3 DEF CastTo
<1>6. TypedAs(code, i.a, i.from) /\ i.a # NoReg
  BY <1>2, <1>3, <1>5, TopTyped DEF NoReg
<1>7. QED
  BY <1>1, <1>3, <1>4, <1>5, <1>6, BottomIs, MoreStep

LEMMA UnaryMore == ASSUME Builds, More(code, build), NEW op \in Unaries, Unary(op) PROVE More(code', build')
<1>1. Fresh \in Regs
  BY StackReads DEF Unary, Push, Emit, Fresh
<1>2. Top.reg \in Readable(build) /\ Top.reg \in 0 .. MaxRegs /\ Top.reg # 0 /\ Top.type \in Types
  BY TopReads DEF Unary
<1>3. PICK i \in Insts : i = Unop(op, Fresh, Top.reg) /\ i.k = "unop" /\ i.dst = Fresh /\ i.a = Top.reg /\ i.b = 0
  <2>1. LET i == Unop(op, Fresh, Top.reg)
        IN  i \in Insts /\ i.k = "unop" /\ i.dst = Fresh /\ i.a = Top.reg /\ i.b = 0
    BY <1>1, <1>2, UnopIs
  <2>2. QED
    BY <2>1
<1>4. Operands(i) \subseteq Readable(build) /\ i.k \in EmitKinds
  BY <1>2, <1>3 DEF Operands, NoReg, EmitKinds
<1>5. PICK t \in Types : t = IF op = "not" THEN U16 ELSE Top.type
  BY <1>2, SomeTypes
<1>6. Push(i, Under1, t) /\ Depth > build.floor
  BY <1>3, <1>5 DEF Unary
<1>7. QED
  BY <1>1, <1>3, <1>4, <1>6, BottomIs, MoreStep

LEMMA BinaryMore == ASSUME Builds, More(code, build), NEW op \in Binaries, Binary(op) PROVE More(code', build')
<1> DEFINE lt == Under.type
           rt == Top.type
           t == IF op \in {"eq", "lt"} THEN U16
                ELSE IF op = "shr" /\ lt = I8 THEN I16
                ELSE IF lt.size >= rt.size THEN lt ELSE rt
<1>1. Fresh \in Regs /\ Depth > build.floor + 1
  BY StackReads DEF Binary, Push, Emit, Fresh
<1>2. /\ Top.reg \in Readable(build) /\ Top.reg \in 0 .. MaxRegs /\ Top.reg # 0 /\ Top.type \in Types
      /\ Under.reg \in Readable(build) /\ Under.reg \in 0 .. MaxRegs /\ Under.reg # 0 /\ Under.type \in Types
  <2>1. build.floor \in Nat /\ Depth \in Nat
    BY StackReads DEF Builder, Depth
  <2>2. Depth > build.floor
    BY <1>1, <2>1
  <2>3. QED
    BY <1>1, <2>2, TopReads
<1>3. lt.signed \in BOOLEAN /\ rt.signed \in BOOLEAN
  <2>1. \A x \in Types : x.signed \in BOOLEAN
    BY TypesAre
  <2> HIDE DEF t
  <2>2. QED
    BY <1>2, <2>1
<1>4. PICK n \in {0, 1} : n = Bit(op = "shr" /\ lt.signed)
  BY DEF Bit
<1>5. PICK s \in BOOLEAN : s = (lt.signed \/ rt.signed)
  OBVIOUS
<1>6. PICK i \in Insts : /\ i = Binop(op, Fresh, Under.reg, Top.reg, n, s) /\ i.k = "binop" /\ i.dst = Fresh
                         /\ i.a = Under.reg /\ i.b = Top.reg
  <2>1. LET i == Binop(op, Fresh, Under.reg, Top.reg, n, s)
        IN  i \in Insts /\ i.k = "binop" /\ i.dst = Fresh /\ i.a = Under.reg /\ i.b = Top.reg
    BY <1>1, <1>2, BinopIs
  <2>2. QED
    BY <2>1
<1>7. Operands(i) \subseteq Readable(build) /\ i.k \in EmitKinds
  BY <1>2, <1>6 DEF Operands, NoReg, EmitKinds
<1>8. PICK u \in Types : u = t
  BY <1>2, SomeTypes DEF Types
<1>9. Push(i, Under2, u)
  BY <1>4, <1>5, <1>6, <1>8 DEF Binary
<1>10. QED
  BY <1>1, <1>6, <1>7, <1>9, BottomIs, MoreStep

LEMMA MorePushed ==
    ASSUME NEW c, NEW b, BuildOK(c, b), More(c, b), NEW i \in Insts, i.k \in {"const", "carry"},
           b.regs + 1 <= MaxRegs, i.dst = b.regs + 1, Operands(i) \subseteq Readable(b),
           i.k = "carry" /\ i.imm = 1 => Len(c) \in DOMAIN c /\ c[Len(c)].k = "carry" /\ c[Len(c)].imm = 0
    PROVE  BuildOK(Append(c, i), Pushed(b, U16)) /\ More(Append(c, i), Pushed(b, U16))
<1> DEFINE z == Append(b.stack, Entry(b.regs + 1, U16))
           g == Grown(b, z, b.regs + 1)
           e == Pushed(b, U16)
<1>1. b \in Builder /\ b.stack \in Seq(Entries) /\ b.regs \in Nat /\ U16 \in Types /\ c \in Seq(Insts)
  BY SomeTypes DEF BuildOK, Builder
<1>2. Entry(b.regs + 1, U16) \in Entries /\ b.regs + 1 \in 0 .. MaxRegs
  BY <1>1, OptimizerAssumption DEF Entry, Entries, Regs
<1>3. z \in Seq(Entries)
  BY <1>1, <1>2, Appended
<1>4. /\ e.arm = b.arm /\ e.merge = b.merge /\ e.floor = b.floor /\ e.labels = b.labels /\ e.stack = z
  BY <1>1, PushedIs
<1> HIDE DEF z
<1>5. /\ g.arm = b.arm /\ g.merge = b.merge /\ g.floor = b.floor /\ g.labels = b.labels /\ g.stack = z
  BY <1>1, <1>2, <1>3, GrownIs
<1>6. i.k \in EmitKinds /\ i.k \notin {"load", "cast"}
        /\ i.k \in {"const", "load", "cast", "unop", "binop", "carry"}
  BY DEF EmitKinds
<1>7. More(Append(c, i), g)
  BY <1>1, <1>6, MorePush DEF z, g
<1> HIDE DEF g, e
<1>8. More(Append(c, i), e)
  BY <1>4, <1>5, <1>7, MoreDrop
<1>9. BuildOK(Append(c, i), e)
  BY <1>1, <1>6, EmitOK DEF e
<1>10. QED
  BY <1>8, <1>9 DEF e

LEMMA MoreWide ==
    ASSUME NEW c, NEW b, BuildOK(c, b), More(c, b), NEW i \in Insts, NEW j \in Insts, NEW l \in Insts,
           NEW high \in BOOLEAN, NEW s, Bottom(b, s),
           i.k = "const" /\ j.k = "carry" /\ l.k = "carry" /\ j.imm = 0,
           b.regs + 3 <= MaxRegs, i.dst = b.regs + 1, j.dst = b.regs + 2, l.dst = b.regs + 3,
           Operands(i) = {}, Operands(j) \subseteq Readable(b), Operands(l) \subseteq {b.regs + 1}
    PROVE  More(Append(Append(Append(c, i), j), l),
                Grown(b, Append(s, Entry(IF high THEN b.regs + 3 ELSE b.regs + 2, U16)), b.regs + 3))
<1> DEFINE e == Pushed(b, U16)
           f == Pushed(e, U16)
           g == Pushed(f, U16)
           v == IF high THEN b.regs + 3 ELSE b.regs + 2
           z == Append(s, Entry(v, U16))
           h == Grown(b, z, b.regs + 3)
           ci == Append(c, i)
           cj == Append(ci, j)
           cl == Append(cj, l)
<1>1. /\ c \in Seq(Insts) /\ b \in Builder /\ b.regs \in Nat /\ MaxRegs \in Nat /\ U16 \in Types
      /\ b.floor \in Nat /\ b.floor <= Len(b.stack) /\ Len(b.stack) \in Nat /\ b.stack \in Seq(Entries)
      /\ s \in Seq(Entries) /\ b.floor <= Len(s)
  BY BuildFacts, SomeTypes DEF Bottom
<1>2. b.regs + 1 <= MaxRegs
  BY <1>1
<1>3. BuildOK(ci, e) /\ More(ci, e)
  BY <1>1, <1>2, MorePushed
<1>4. /\ e \in Builder /\ e.regs = b.regs + 1 /\ e.arm = b.arm /\ e.merge = b.merge /\ e.floor = b.floor
      /\ e.labels = b.labels /\ e.floor <= Len(e.stack)
      /\ DOMAIN e.stack = DOMAIN b.stack \cup {Len(b.stack) + 1} /\ Len(e.stack) = Len(b.stack) + 1
      /\ \A n \in DOMAIN b.stack : e.stack[n] = b.stack[n]
      /\ \A r \in Readable(b) \cup {b.regs + 1} : r \in Readable(e)
  <2>1. e \in Builder /\ e.floor <= Len(e.stack) /\ \A r \in Readable(b) \cup {b.regs + 1} : r \in Readable(e)
    BY <1>1, <1>2, PushedReads
  <2>2. QED
    BY <1>1, <1>2, <2>1, PushedIs
<1>5. ci \in Seq(Insts)
  BY <1>1, Appended
<1> HIDE DEF e, ci
<1>6. e.regs + 1 <= MaxRegs /\ j.dst = e.regs + 1 /\ Operands(j) \subseteq Readable(e)
  BY <1>1, <1>4
<1>7. BuildOK(cj, f) /\ More(cj, f)
  BY <1>3, <1>6, MorePushed
<1>8. /\ f \in Builder /\ f.regs = e.regs + 1 /\ f.arm = e.arm /\ f.merge = e.merge /\ f.floor = e.floor
      /\ f.labels = e.labels
      /\ DOMAIN f.stack = DOMAIN e.stack \cup {Len(e.stack) + 1} /\ Len(f.stack) = Len(e.stack) + 1
      /\ \A n \in DOMAIN e.stack : f.stack[n] = e.stack[n]
      /\ f.stack[Len(e.stack) + 1] = Entry(e.regs + 1, U16)
      /\ \A r \in Readable(e) \cup {e.regs + 1} : r \in Readable(f)
  <2>1. f \in Builder /\ \A r \in Readable(e) \cup {e.regs + 1} : r \in Readable(f)
    BY <1>1, <1>4, <1>6, PushedReads
  <2>2. QED
    BY <1>1, <1>4, <1>6, <2>1, PushedIs
<1>9. /\ cj \in Seq(Insts) /\ Len(cj) \in DOMAIN cj /\ cj[Len(cj)] = j
  BY <1>5, Appended
<1> HIDE DEF f, cj
<1>10. f.regs + 1 <= MaxRegs /\ l.dst = f.regs + 1 /\ Operands(l) \subseteq Readable(f)
  BY <1>1, <1>4, <1>8
<1>11. BuildOK(cl, g) /\ More(cl, g)
  BY <1>7, <1>9, <1>10, MorePushed
<1>12. /\ g.regs = f.regs + 1 /\ g.arm = f.arm /\ g.merge = f.merge /\ g.floor = f.floor
       /\ g.labels = f.labels
       /\ DOMAIN g.stack = DOMAIN f.stack \cup {Len(f.stack) + 1} /\ Len(g.stack) = Len(f.stack) + 1
       /\ \A n \in DOMAIN f.stack : g.stack[n] = f.stack[n]
       /\ g.stack[Len(f.stack) + 1] = Entry(f.regs + 1, U16)
  BY <1>1, <1>8, <1>10, PushedIs
<1> HIDE DEF g, cl
<1>13. Entry(v, U16) \in Entries
  <2>1. v \in Regs
    BY <1>1 DEF Regs
  <2> HIDE DEF v
  <2>2. QED
    BY <1>1, <2>1, SomeTypes DEF Entry, Entries
<1>14. /\ z \in Seq(Entries) /\ DOMAIN z = DOMAIN s \cup {Len(s) + 1} /\ z[Len(s) + 1] = Entry(v, U16)
       /\ Len(s) \in Nat
       /\ \A n \in DOMAIN s : z[n] = s[n]
  BY <1>1, <1>13, Appended
<1> HIDE DEF z
<1>15. h.stack = z /\ h.arm = b.arm /\ h.merge = b.merge /\ h.floor = b.floor /\ h.labels = b.labels
  <2>1. PICK n \in 0 .. MaxRegs : n = b.regs + 3
    BY <1>1
  <2>2. /\ Grown(b, z, n).stack = z /\ Grown(b, z, n).arm = b.arm /\ Grown(b, z, n).merge = b.merge
        /\ Grown(b, z, n).floor = b.floor /\ Grown(b, z, n).labels = b.labels
    <3>1. b \in Builder /\ z \in Seq(Entries)
      BY <1>1, <1>14
    <3>2. QED
      BY <3>1, GrownIs
  <2>3. QED
    BY <2>1, <2>2
<1> HIDE DEF h
<1>16. ASSUME NEW n \in DOMAIN h.stack
       PROVE  \E k \in DOMAIN g.stack : h.stack[n] = g.stack[k] /\ (n <= g.floor => k = n)
  <2>1. CASE n \in DOMAIN s
    <3>1. n \in DOMAIN b.stack /\ s[n] = b.stack[n]
      BY <2>1 DEF Bottom
    <3>2. n \in DOMAIN g.stack /\ g.stack[n] = b.stack[n]
      BY <1>4, <1>8, <1>12, <3>1
    <3>3. QED
      BY <1>14, <1>15, <2>1, <3>1, <3>2
  <2>2. CASE n = Len(s) + 1
    <3>1. ~(n <= g.floor)
      BY <1>1, <1>4, <1>8, <1>12, <1>14, <2>2, SMTT(30)
    <3>2. PICK k \in DOMAIN g.stack : g.stack[k] = Entry(v, U16)
      <4>1. CASE high
        <5>1. f.regs + 1 = v /\ Len(f.stack) + 1 \in DOMAIN g.stack
          BY <1>1, <1>4, <1>8, <1>12, <4>1
        <5>2. QED
          BY <1>12, <5>1
      <4>2. CASE ~high
        <5>1. e.regs + 1 = v /\ Len(e.stack) + 1 \in DOMAIN f.stack
          BY <1>1, <1>4, <1>8, <4>2
        <5>2. QED
          BY <1>8, <1>12, <5>1
      <4>3. QED
        BY <4>1, <4>2
    <3>3. QED
      BY <1>14, <1>15, <2>2, <3>1, <3>2
  <2>3. QED
    BY <1>14, <1>15, <1>16, <2>1, <2>2
<1>17. More(cl, h)
  BY <1>4, <1>8, <1>11, <1>12, <1>15, <1>16, MoreDrop
<1>18. QED
  BY <1>17 DEF cl, cj, ci, h, z

LEMMA WideSumMore == ASSUME Builds, More(code, build), NEW high \in BOOLEAN, WideSum(high)
                     PROVE  More(code', build')
<1> DEFINE sum == Fresh + 2
           low == Fresh + 1
<1>1. /\ Depth > build.floor + 1
      /\ sum <= MaxRegs
      /\ code' = code \o <<Wide(Const(Fresh, 0)), Wide(CarryOp(low, Under.reg, Top.reg, 0)),
                           Wide(CarryOp(sum, Fresh, Fresh, 1))>>
      /\ build' = Grown(build, Append(Under2, Entry(IF high THEN sum ELSE low, U16)), sum)
  BY DEF WideSum, Emit, Grown
<1>2. /\ build.regs \in Nat /\ MaxRegs \in Nat /\ build.floor \in Nat /\ Depth \in Nat
      /\ BuildOK(code, build) /\ code \in Seq(Insts)
  BY OptimizerAssumption, StackReads DEF Builder, Depth, Builds, BuildOK
<1>3. Fresh = build.regs + 1 /\ low = build.regs + 2 /\ sum = build.regs + 3
  BY <1>2 DEF Fresh
<1>4. /\ Top.reg \in Readable(build) /\ Top.reg \in 0 .. MaxRegs
      /\ Under.reg \in Readable(build) /\ Under.reg \in 0 .. MaxRegs
  <2>1. Depth > build.floor
    BY <1>1, <1>2
  <2>2. QED
    BY <1>1, <2>1, TopReads
<1>5. Fresh \in Regs /\ low \in Regs /\ sum \in Regs /\ Fresh \in 0 .. MaxRegs
  <2> HIDE DEF low, sum
  <2>1. PICK n \in Nat : n = build.regs
    BY <1>2
  <2>2. n + 3 <= MaxRegs /\ Fresh = n + 1 /\ low = n + 2 /\ sum = n + 3
    BY <1>1, <1>3, <2>1
  <2>3. QED
    BY <1>2, <2>2 DEF Regs
<1> HIDE DEF sum, low
<1>6. PICK i \in Insts : i = Wide(Const(Fresh, 0)) /\ i.k = "const" /\ i.dst = Fresh /\ i.a = 0 /\ i.b = 0
  <2>1. Const(Fresh, 0) \in Insts /\ Const(Fresh, 0).k = "const" /\ Const(Fresh, 0).dst = Fresh
        /\ Const(Fresh, 0).a = 0 /\ Const(Fresh, 0).b = 0
    BY <1>5, ConstIs
  <2>2. QED
    BY <2>1, WideIs
<1>7. PICK j \in Insts : /\ j = Wide(CarryOp(low, Under.reg, Top.reg, 0)) /\ j.k = "carry" /\ j.dst = low
                         /\ j.a = Under.reg /\ j.b = Top.reg /\ j.imm = 0
  <2>1. LET j == CarryOp(low, Under.reg, Top.reg, 0)
        IN  j \in Insts /\ j.k = "carry" /\ j.dst = low /\ j.a = Under.reg /\ j.b = Top.reg /\ j.imm = 0
    BY <1>4, <1>5, CarryOpIs
  <2>2. QED
    BY <2>1, WideIs
<1>8. PICK l \in Insts : /\ l = Wide(CarryOp(sum, Fresh, Fresh, 1)) /\ l.k = "carry" /\ l.dst = sum
                         /\ l.a = Fresh /\ l.b = Fresh
  <2>1. LET l == CarryOp(sum, Fresh, Fresh, 1)
        IN  l \in Insts /\ l.k = "carry" /\ l.dst = sum /\ l.a = Fresh /\ l.b = Fresh
    BY <1>5, CarryOpIs
  <2>2. QED
    BY <2>1, WideIs
<1>9. Operands(i) = {} /\ Operands(j) \subseteq Readable(build) /\ Operands(l) \subseteq {build.regs + 1}
  BY <1>3, <1>4, <1>6, <1>7, <1>8 DEF Operands, NoReg
<1>10. code' = Append(Append(Append(code, i), j), l)
  <2>1. code' = code \o <<i, j, l>>
    BY <1>1, <1>2, <1>6, <1>7, <1>8
  <2>2. QED
    BY <1>1, <1>2, <2>1, AppendSome, SMTT(30)
<1>11. More(Append(Append(Append(code, i), j), l),
            Grown(build, Append(Under2, Entry(IF high THEN build.regs + 3 ELSE build.regs + 2, U16)),
                  build.regs + 3))
  <2>1. build.regs + 3 <= MaxRegs /\ i.dst = build.regs + 1 /\ j.dst = build.regs + 2 /\ l.dst = build.regs + 3
    BY <1>1, <1>3, <1>6, <1>7, <1>8
  <2>2. Bottom(build, Under2)
    BY <1>1, BottomIs
  <2>3. QED
    BY <1>2, <1>6, <1>7, <1>8, <1>9, <2>1, <2>2, MoreWide
<1>12. QED
  BY <1>1, <1>3, <1>10, <1>11

LEMMA OpenMore == ASSUME Builds, More(code, build), OpenTernary PROVE More(code', build')
<1>1. /\ Depth > 0 /\ build.arm = "none"
      /\ code' = code \o <<CJmp(Top.reg, build.labels + 1, build.labels + 2), Label(build.labels + 1)>>
      /\ build' = Opened(build)
  BY DEF OpenTernary, Opened, Under1, Fresh, Depth
<1>2. /\ code \in Seq(Insts) /\ build \in Builder /\ build.labels \in Nat /\ MaxRegs \in Nat
      /\ Top.reg = TopReg(build) /\ BuildOK(code, build)
  BY BuildFacts DEF Builds, Top, Depth, TopReg
<1>3. Top.reg \in 0 .. MaxRegs
  <2>1. Depth > build.floor
    BY <1>1, BuildFacts DEF Builds
  <2>2. QED
    BY <2>1, TopReads
<1>4. PICK m \in Nat, o \in Nat : m = build.labels + 1 /\ o = build.labels + 2 /\ m # 0 /\ o # 0
  BY <1>2
<1>5. PICK i \in Insts : i = CJmp(Top.reg, m, o) /\ i.k = "cjmp" /\ i.a = Top.reg /\ i.b = 0 /\ i.label = m
        /\ i.other = o
  <2>1. LET i == CJmp(Top.reg, m, o)
        IN  i \in Insts /\ i.k = "cjmp" /\ i.a = Top.reg /\ i.b = 0 /\ i.label = m /\ i.other = o
    BY <1>3, <1>4, CJmpIs
  <2>2. QED
    BY <2>1
<1>6. PICK l \in Insts : l = Label(m) /\ l.k = "label" /\ l.a = 0 /\ l.b = 0 /\ l.label = m
  <2>1. LET l == Label(m) IN l \in Insts /\ l.k = "label" /\ l.a = 0 /\ l.b = 0 /\ l.label = m
    BY <1>4, LabelIs
  <2>2. QED
    BY <2>1
<1>7. code' = Append(Append(code, i), l)
  BY <1>1, <1>2, <1>4, <1>5, <1>6, AppendSome
<1>8. More(Append(Append(code, i), l), Opened(build))
  <2>1. Len(build.stack) > 0
    BY <1>1 DEF Depth
  <2>2. QED
    BY <1>1, <1>2, <1>4, <1>5, <1>6, <2>1, MoreOpen
<1>9. QED
  BY <1>1, <1>7, <1>8

LEMMA MiddleMore == ASSUME Builds, More(code, build), MiddleOfTernary PROVE More(code', build')
<1>1. /\ Depth = build.floor + 1 /\ build.arm = "then"
      /\ code' = code \o <<Mov(build.merge, Top.reg), Jmp(build.labels + 3), Label(build.labels + 2)>>
      /\ build' = Turned(build)
  BY DEF MiddleOfTernary, Turned, Under1, Depth, Top
<1>2. /\ code \in Seq(Insts) /\ build \in Builder /\ build.labels \in Nat /\ MaxRegs \in Nat
      /\ Top.reg = TopReg(build) /\ build.merge \in Regs /\ build.floor \in Nat /\ BuildOK(code, build)
  BY <1>1, BuildFacts DEF Builds, Top, Depth, TopReg
<1>3. Top.reg \in 0 .. MaxRegs
  <2>1. Depth > build.floor
    BY <1>1, <1>2
  <2>2. QED
    BY <2>1, TopReads
<1>4. PICK m \in Nat, o \in Nat : m = build.labels + 3 /\ o = build.labels + 2 /\ m # 0
  BY <1>2
<1>5. PICK i \in Insts : i = Mov(build.merge, Top.reg) /\ i.k = "mov" /\ i.dst = build.merge /\ i.a = Top.reg
        /\ i.b = 0
  <2>1. LET i == Mov(build.merge, Top.reg)
        IN  i \in Insts /\ i.k = "mov" /\ i.dst = build.merge /\ i.a = Top.reg /\ i.b = 0
    BY <1>2, <1>3, MovIs
  <2>2. QED
    BY <2>1
<1>6. PICK j \in Insts : j = Jmp(m) /\ j.k = "jmp" /\ j.a = 0 /\ j.b = 0 /\ j.label = m
  <2>1. LET j == Jmp(m) IN j \in Insts /\ j.k = "jmp" /\ j.a = 0 /\ j.b = 0 /\ j.label = m
    BY <1>4, JmpIs
  <2>2. QED
    BY <2>1
<1>7. PICK l \in Insts : l = Label(o) /\ l.k = "label" /\ l.a = 0 /\ l.b = 0 /\ l.label = o
  <2>1. LET l == Label(o) IN l \in Insts /\ l.k = "label" /\ l.a = 0 /\ l.b = 0 /\ l.label = o
    BY <1>4, LabelIs
  <2>2. QED
    BY <2>1
<1>8. code' = Append(Append(Append(code, i), j), l)
  <2>1. code' = code \o <<i, j, l>>
    BY <1>1, <1>4, <1>5, <1>6, <1>7
  <2>2. QED
    BY <1>2, <2>1, AppendSome
<1>9. More(Append(Append(Append(code, i), j), l), Turned(build))
  BY <1>1, <1>2, <1>4, <1>5, <1>6, <1>7, MoreTurn DEF Depth
<1>10. QED
  BY <1>1, <1>8, <1>9

LEMMA JoinMore == ASSUME Builds, More(code, build), CloseTernary PROVE More(code', build')
<1>1. /\ Depth = build.floor + 1 /\ build.arm = "else"
      /\ code' = code \o <<Mov(build.merge, Top.reg), Label(build.labels + 3)>>
      /\ build' = Closed(build)
  BY DEF CloseTernary, Closed, Under1, Depth, Top
<1>2. /\ code \in Seq(Insts) /\ build \in Builder /\ build.labels \in Nat /\ MaxRegs \in Nat
      /\ Top.reg = TopReg(build) /\ build.merge \in Regs /\ build.floor \in Nat /\ BuildOK(code, build)
  BY <1>1, BuildFacts DEF Builds, Top, Depth, TopReg
<1>3. Top.reg \in 0 .. MaxRegs
  <2>1. Depth > build.floor
    BY <1>1, <1>2
  <2>2. QED
    BY <2>1, TopReads
<1>4. PICK m \in Nat : m = build.labels + 3
  BY <1>2
<1>5. PICK i \in Insts : i = Mov(build.merge, Top.reg) /\ i.k = "mov" /\ i.dst = build.merge /\ i.a = Top.reg
        /\ i.b = 0
  <2>1. LET i == Mov(build.merge, Top.reg)
        IN  i \in Insts /\ i.k = "mov" /\ i.dst = build.merge /\ i.a = Top.reg /\ i.b = 0
    BY <1>2, <1>3, MovIs
  <2>2. QED
    BY <2>1
<1>6. PICK l \in Insts : l = Label(m) /\ l.k = "label" /\ l.a = 0 /\ l.b = 0 /\ l.label = m
  <2>1. LET l == Label(m) IN l \in Insts /\ l.k = "label" /\ l.a = 0 /\ l.b = 0 /\ l.label = m
    BY <1>4, LabelIs
  <2>2. QED
    BY <2>1
<1>7. code' = Append(Append(code, i), l)
  BY <1>1, <1>2, <1>4, <1>5, <1>6, AppendSome
<1>8. More(Append(Append(code, i), l), Closed(build))
  BY <1>1, <1>2, <1>4, <1>5, <1>6, MoreJoin DEF Depth
<1>9. QED
  BY <1>1, <1>7, <1>8

LEMMA EndMore ==
    ASSUME Builds, More(code, build), NEW i \in Insts, i.k \in {"store", "ret"},
      Operands(i) \subseteq OnStack(build),
           EndStatement(i)
    PROVE  More(code', build')
<1>1. build.arm = "none" /\ code' = Append(code, i) /\ build' = Ended(build)
  BY DEF EndStatement, Ended
<1>2. More(Append(code, i), Ended(build))
  BY <1>1, MoreEnd DEF Builds
<1>3. QED
  BY <1>1, <1>2

LEMMA TopOnStack ==
    ASSUME Builds, Depth > 0, build.arm = "none"
    PROVE  Top.reg \in OnStack(build) /\ Top.reg \in 0 .. MaxRegs
<1>1. Depth > build.floor
  BY BuildFacts DEF Builds
<1>2. Len(build.stack) \in DOMAIN build.stack
  BY StackReads DEF Depth
<1>3. QED
  BY <1>1, <1>2, TopReads, StackReads DEF Top, Depth

LEMMA AssignMore == ASSUME Builds, More(code, build), Assign("word") PROVE More(code', build')
<1>1. Depth > 0 /\ EndStatement(Store("word", Top.reg)) /\ build.arm = "none"
  BY DEF Assign, EndStatement
<1>2. Top.reg \in OnStack(build) /\ Top.reg \in 0 .. MaxRegs
  BY <1>1, TopOnStack
<1>3. PICK i \in Insts : i = Store("word", Top.reg) /\ i.k = "store" /\ i.a = Top.reg /\ i.b = 0
  <2>1. "word" \in Variable
    BY DEF Variable
  <2>2. LET i == Store("word", Top.reg) IN i \in Insts /\ i.k = "store" /\ i.a = Top.reg /\ i.b = 0
    BY <1>2, <2>1, StoreIs
  <2>3. QED
    BY <2>2
<1>4. Operands(i) \subseteq OnStack(build)
  BY <1>2, <1>3 DEF Operands, NoReg
<1>5. QED
  BY <1>1, <1>3, <1>4, EndMore

LEMMA ReturnMore == ASSUME Builds, More(code, build), Return PROVE More(code', build')
<1>1. Depth > 0 /\ EndStatement(Ret(Top.reg)) /\ build.arm = "none"
  BY DEF Return, EndStatement
<1>2. Top.reg \in OnStack(build) /\ Top.reg \in 0 .. MaxRegs
  BY <1>1, TopOnStack
<1>3. PICK i \in Insts : i = Ret(Top.reg) /\ i.k = "ret" /\ i.a = Top.reg /\ i.b = 0
  <2>1. LET i == Ret(Top.reg) IN i \in Insts /\ i.k = "ret" /\ i.a = Top.reg /\ i.b = 0
    BY <1>2, RetIs
  <2>2. QED
    BY <2>1
<1>4. Operands(i) \subseteq OnStack(build)
  BY <1>2, <1>3 DEF Operands, NoReg
<1>5. QED
  BY <1>1, <1>3, <1>4, EndMore

(* The code that the optimizer is given.                                   *)
Given(c) ==
    /\ Whole(c) /\ Typed(c) /\ Paired(c)
    /\ \A n \in DOMAIN c : c[n].k = "mov" => Twice(c, n)
    /\ \A memory \in Memories : Dominated(c, memory)

LEMMA CloseMore == ASSUME Builds, More(code, build), Close PROVE Given(code') /\ source' = code'
<1>1. /\ source' = code' /\ build.arm = "none" /\ code' = Append(code, Ret(NoReg))
  BY DEF Close
<1>2. PICK i \in Insts : i = Ret(NoReg) /\ i.k = "ret" /\ i.a = 0 /\ i.b = 0
  <2>1. NoReg = 0 /\ 0 \in 0 .. MaxRegs
    BY OptimizerAssumption DEF NoReg
  <2>2. LET i == Ret(0) IN i \in Insts /\ i.k = "ret" /\ i.a = 0 /\ i.b = 0
    BY <2>1, RetIs
  <2>3. QED
    BY <2>1, <2>2
<1>3. Operands(i) \subseteq OnStack(build)
  BY <1>2 DEF Operands, NoReg
<1>4. More(code', Ended(build))
  BY <1>1, <1>2, <1>3, MoreEnd DEF Builds
<1>5. Whole(code')
  BY CloseStep
<1>6. Ended(build).arm = "none"
  BY <1>1, ArmsAre, StackReads
<1>7. QED
  BY <1>1, <1>4, <1>5, <1>6 DEF More, Marked, Settled, Given

LEMMA BuildMore ==
    ASSUME Builds, More(code, build), Build
    PROVE  (phase' = "build" /\ More(code', build')) \/ (phase' = "fold" /\ Given(code') /\ source' = code')
<1>1. CASE \E n \in build.words.literals : Literal(n)
  BY <1>1, LiteralMore, LiteralStep DEF Builds
<1>2. CASE \E x \in build.words.variables : Read(x)
  BY <1>2, ReadMore, ReadStep DEF Builds
<1>3. CASE \E t \in build.words.casts : CastTo(t)
  BY <1>3, CastMore, CastStep DEF Builds
<1>4. CASE \E op \in build.words.operators \cap Unaries : Unary(op)
  BY <1>4, UnaryMore, UnaryStep DEF Builds
<1>5. CASE \E op \in build.words.operators \cap Binaries : Binary(op)
  BY <1>5, BinaryMore, BinaryStep DEF Builds
<1>6. CASE \E high \in BOOLEAN : WideSum(high)
  BY <1>6, WideSumMore, WideSumStep DEF Builds
<1>7. CASE OpenTernary \/ MiddleOfTernary \/ CloseTernary
  BY <1>7, OpenMore, MiddleMore, JoinMore, OpenStep, MiddleStep, JoinStep DEF Builds
<1>8. CASE Assign("word") \/ Return
  BY <1>8, AssignMore, ReturnMore, AssignStep, ReturnStep DEF Builds
<1>9. CASE Close
  BY <1>9, CloseMore, CloseStep
<1>10. QED
  BY <1>1, <1>2, <1>3, <1>4, <1>5, <1>6, <1>7, <1>8, <1>9 DEF Build

-----------------------------------------------------------------------------
(* What folding computes is, as a word, what the instruction leaves.       *)

Congruent(m, x, a) == x % m = a % m

LEMMA SameProduct ==
    ASSUME NEW m \in Nat \ {0}, NEW a \in Int, NEW b \in Int, NEW x \in Int, NEW y \in Int,
           Congruent(m, x, a), Congruent(m, y, b)
    PROVE  Congruent(m, x * y, a * b)
<1>1. PICK i \in Int : x = i * m + a
  BY SameRemainder DEF Congruent
<1>2. PICK j \in Int : y = j * m + b
  BY SameRemainder DEF Congruent
<1>3. (i * m + a) * (j * m + b) = ((i * j) * m + (i * b + j * a)) * m + a * b
  BY Z3
<1>4. PICK k \in Int, p \in Int, q \in Int : k = (i * j) * m + (i * b + j * a) /\ p = a * b /\ q = x * y
  <2>1. (i * j) * m + (i * b + j * a) \in Int /\ a * b \in Int /\ x * y \in Int
    BY Z3
  <2>2. QED
    BY <2>1
<1>5. q = k * m + p
  BY <1>1, <1>2, <1>3, <1>4
<1>6. q % m = p % m
  BY <1>5, ModSame, Zenon
<1>7. QED
  BY <1>4, <1>6 DEF Congruent

LEMMA SameSum ==
    ASSUME NEW m \in Nat \ {0}, NEW a \in Int, NEW b \in Int, NEW x \in Int, NEW y \in Int,
           Congruent(m, x, a), Congruent(m, y, b)
    PROVE  Congruent(m, x + y, a + b) /\ Congruent(m, x - y, a - b)
<1>1. PICK i \in Int : x = i * m + a
  BY SameRemainder DEF Congruent
<1>2. PICK j \in Int : y = j * m + b
  BY SameRemainder DEF Congruent
<1>3. (i * m + a) + (j * m + b) = (i + j) * m + (a + b) /\ (i * m + a) - (j * m + b) = (i - j) * m + (a - b)
  BY Z3
<1>4. PICK k \in Int, l \in Int, p \in Int, q \in Int, u \in Int, v \in Int :
         k = i + j /\ l = i - j /\ p = a + b /\ q = a - b /\ u = x + y /\ v = x - y
  OBVIOUS
<1>5. u = k * m + p /\ v = l * m + q
  BY <1>1, <1>2, <1>3, <1>4
<1>6. u % m = p % m
  BY <1>5, ModSame, Zenon
<1>7. v % m = q % m
  BY <1>5, ModSame, Zenon
<1>8. QED
  BY <1>4, <1>6, <1>7 DEF Congruent

LEMMA ModAgain ==
    ASSUME NEW n \in Int
    PROVE  (n % WordMod) % WordMod = n % WordMod /\ n % WordMod \in Int
<1>1. n % WordMod \in Words
  BY ModWord
<1>2. QED
  BY <1>1, WordIs

(* The bits below k of a number are those of its remainder by 2^k.         *)
LEMMA LowBitHolds ==
    ASSUME NEW a \in Int, NEW k \in Nat, NEW i \in Nat, i < k
    PROVE  Holds(a % 2^k, i) <=> Holds(a, i)
<1>1. PICK j \in Nat : k = (j + 1) + i
  <2>1. k - i - 1 \in Nat /\ k = ((k - i - 1) + 1) + i
    OBVIOUS
  <2>2. QED
    BY <2>1
<1>2. PICK u \in Nat \ {0}, s \in Nat \ {0}, p \in Nat \ {0} : u = 2^j /\ s = 2^i /\ p = 2^k
  BY Power
<1>3. p = (2 * u) * s
  <2>1. 2^((j + 1) + i) = 2^(j + 1) * 2^i
    BY PowerSum, j + 1 \in Nat
  <2>2. 2^(j + 1) = 2 * 2^j
    BY PowerStep
  <2>3. QED
    BY <1>1, <1>2, <2>1, <2>2
<1>4. PICK d \in Int, r \in Nat : a = d * p + r /\ r = a % p
  BY DivPick
<1>5. PICK q \in Int, t \in Int, x \in Int : q = d * u /\ t = q * 2 /\ x = r \div s
  <2>1. d * u \in Int /\ r \div s \in Int
    BY Z3
  <2>2. QED
    BY <2>1
<1>6. a = t * s + r
  <2>1. d * ((2 * u) * s) = ((d * u) * 2) * s
    BY Z3
  <2>2. QED
    BY <1>3, <1>4, <1>5, <2>1
<1>7. a \div s = t + x
  <2>1. (t * s + r) \div s = t + r \div s
    BY ModOfMultiple, r \in Int
  <2>2. QED
    BY <1>5, <1>6, <2>1
<1>8. (q * 2 + x) % 2 = x % 2
  BY ModOfMultiple, 2 \in Nat \ {0}, Zenon
<1>9. (a \div s) % 2 = (r \div s) % 2
  BY <1>5, <1>7, <1>8
<1>10. QED
  BY <1>2, <1>4, <1>9 DEF Holds

LEMMA AndSame ==
    ASSUME NEW a, NEW b, NEW x, NEW y, NEW k \in Nat,
           \A i \in Nat : i < k => (Holds(x, i) <=> Holds(a, i)) /\ (Holds(y, i) <=> Holds(b, i))
    PROVE  BitsOp("and", x, y, k) = BitsOp("and", a, b, k)
<1> DEFINE G == { n \in Nat : n <= k => BitsOp("and", x, y, n) = BitsOp("and", a, b, n) }
<1>1. 0 \in G
  BY AndByOne
<1>2. ASSUME NEW n \in Nat, n \in G PROVE n + 1 \in G
  <2>1. SUFFICES ASSUME n + 1 <= k PROVE BitsOp("and", x, y, n + 1) = BitsOp("and", a, b, n + 1)
    OBVIOUS
  <2>2. n < k /\ BitsOp("and", x, y, n) = BitsOp("and", a, b, n)
    BY <1>2, <2>1
  <2>3. /\ BitsOp("and", a, b, n + 1) = (IF Holds(a, n) /\ Holds(b, n) THEN 2^n ELSE 0) + BitsOp("and", a, b, n)
        /\ BitsOp("and", x, y, n + 1) = (IF Holds(x, n) /\ Holds(y, n) THEN 2^n ELSE 0) + BitsOp("and", x, y, n)
    BY AndByOne
  <2>4. QED
    BY <2>2, <2>3
<1>3. \A n \in Nat : n \in G
  <2> HIDE DEF G
  <2> QED BY <1>1, <1>2, Induction
<1>4. QED
  BY <1>3

LEMMA AndLow ==
    ASSUME NEW a, NEW b, NEW k \in Nat
    PROVE  \A j \in Nat : BitsOp("and", a, b, k + j) % 2^k = BitsOp("and", a, b, k)
<1> DEFINE G == { j \in Nat : BitsOp("and", a, b, k + j) % 2^k = BitsOp("and", a, b, k) }
<1>0. PICK p \in Nat \ {0} : p = 2^k
  BY Power
<1>1. 0 \in G
  <2>1. PICK v \in Nat : v = BitsOp("and", a, b, k) /\ v < p
    BY <1>0, AndBelow
  <2>2. v % p = v
    BY <2>1, ModSmall
  <2>3. k + 0 = k
    OBVIOUS
  <2>4. QED
    BY <1>0, <2>1, <2>2, <2>3
<1>2. ASSUME NEW j \in Nat, j \in G PROVE j + 1 \in G
  <2>1. PICK n \in Nat : n = k + j /\ n + 1 = k + (j + 1)
    OBVIOUS
  <2>2. PICK u \in Nat \ {0} : u = 2^j /\ 2^n = p * u
    BY <1>0, <2>1, Power, PowerSum
  <2>3. PICK v \in Nat : v = BitsOp("and", a, b, n) /\ v % p = BitsOp("and", a, b, k)
    BY <1>0, <1>2, <2>1, AndByOne
  <2>4. BitsOp("and", a, b, n + 1) = (IF Holds(a, n) /\ Holds(b, n) THEN 2^n ELSE 0) + v
    BY <2>3, AndByOne
  <2>5. (u * p + v) % p = v % p
    BY ModOfMultiple, v \in Int, u \in Int
  <2>6. BitsOp("and", a, b, n + 1) \in {v, u * p + v}
    BY <2>2, <2>4
  <2>7. BitsOp("and", a, b, n + 1) % p = v % p
    BY <2>5, <2>6
  <2>8. QED
    BY <1>0, <2>1, <2>3, <2>7
<1>3. \A j \in Nat : j \in G
  <2> HIDE DEF G
  <2> QED BY <1>1, <1>2, Induction
<1>4. QED
  BY <1>3

LEMMA HostIs ==
    ASSUME NEW n \in Int
    PROVE  /\ Host(n) % WordMod = n % WordMod
           /\ (n % 2^HostBits) % WordMod = n % WordMod
<1>1. PICK w \in Nat \ {0}, u \in Nat \ {0}, p \in Nat \ {0} :
         w = WordMod /\ u = 2^(2 * WordBits) /\ p = 2^HostBits
  BY Widths, Power
<1>2. p = u * w
  <2>1. 2^(2 * WordBits + WordBits) = 2^(2 * WordBits) * 2^WordBits
    BY Widths, PowerSum, 2 * WordBits \in Nat
  <2>2. HostBits = 2 * WordBits + WordBits
    BY Widths
  <2>3. QED
    BY <1>1, <2>1, <2>2, Widths
<1>3. PICK h \in Int : h = n % p
  BY <1>1
<1>4. h % w = n % w
  BY <1>2, <1>3, ModOfMod
<1>5. (h - p) % w = h % w
  <2>1. PICK v \in Int, g \in Int : v = -u /\ g = h - p
    OBVIOUS
  <2>2. g = v * w + h
    <3>1. (-u) * w = -(u * w)
      BY Z3
    <3>2. QED
      BY <1>2, <2>1, <3>1
  <2>3. g % w = h % w
    BY <2>2, ModSame, Zenon
  <2>4. QED
    BY <2>1, <2>3
<1>6. Host(n) \in {h, h - p}
  BY <1>1, <1>3 DEF Host
<1>7. QED
  BY <1>1, <1>3, <1>4, <1>5, <1>6

LEMMA AndFolds ==
    ASSUME NEW a \in Int, NEW b \in Int
    PROVE  Host(BitsOp("and", a % 2^HostBits, b % 2^HostBits, HostBits)) % WordMod
             = BitsOp("and", a % WordMod, b % WordMod, WordBits)
<1>1. PICK k \in Nat, n \in Nat, j \in Nat :
         k = WordBits /\ n = HostBits /\ j = 2 * WordBits /\ n = k + j /\ WordMod = 2^k
  BY Widths
<1>2. PICK p \in Nat \ {0} : p = 2^n
  BY Power
<1>3. PICK x \in Int, y \in Int : x = a % p /\ y = b % p
  <2>1. a % p \in Int /\ b % p \in Int
    OBVIOUS
  <2>2. QED
    BY <2>1
<1>4. PICK v \in Nat : v = BitsOp("and", x, y, n)
  BY AndByOne
<1>5. Host(v) % WordMod = v % WordMod
  BY HostIs
<1>6. v % 2^k = BitsOp("and", x, y, k)
  BY <1>1, <1>4, AndLow
<1>7. ASSUME NEW i \in Nat, i < k
      PROVE  (Holds(x, i) <=> Holds(a % 2^k, i)) /\ (Holds(y, i) <=> Holds(b % 2^k, i))
  <2>1. i < n
    BY <1>1, <1>7
  <2>2. (Holds(a % 2^n, i) <=> Holds(a, i)) /\ (Holds(b % 2^n, i) <=> Holds(b, i))
    BY <2>1, LowBitHolds
  <2>3. (Holds(a % 2^k, i) <=> Holds(a, i)) /\ (Holds(b % 2^k, i) <=> Holds(b, i))
    BY <1>7, LowBitHolds
  <2>4. QED
    BY <1>2, <1>3, <2>2, <2>3
<1>8. BitsOp("and", x, y, k) = BitsOp("and", a % 2^k, b % 2^k, k)
  BY <1>7, AndSame
<1>9. QED
  BY <1>1, <1>2, <1>3, <1>4, <1>5, <1>6, <1>8

LEMMA PowerAbove == \A n \in Nat : n < 2^n
<1> DEFINE G == { n \in Nat : n < 2^n }
<1>1. 0 \in G
  BY PowerZero
<1>2. ASSUME NEW n \in Nat, n \in G PROVE n + 1 \in G
  <2>1. PICK p \in Nat : p = 2^n /\ 2^(n + 1) = 2 * p
    BY PowerStep
  <2>2. n + 1 < 2 * p
    BY <1>2, <2>1
  <2>3. QED
    BY <2>1, <2>2
<1>3. \A n \in Nat : n \in G
  <2> HIDE DEF G
  <2> QED BY <1>1, <1>2, Induction
<1>4. QED
  BY <1>3

LEMMA BitIsWord == ASSUME NEW c \in BOOLEAN PROVE Bit(c) % WordMod = Bit(c)
<1>1. Bit(c) \in Words
  BY WordIs DEF Bit
<1>2. QED
  BY <1>1, WordIs

(* A shift by less than a word.                                            *)
LEMMA ShortShift ==
    ASSUME NEW b \in 0 .. WordBits - 1
    PROVE  b % HostBits = b /\ (b % WordMod) % WordBits = b
<1>1. PICK k \in Nat \ {0}, n \in Nat \ {0}, w \in Nat \ {0} :
         k = WordBits /\ n = HostBits /\ w = WordMod /\ n = 3 * k /\ w = 2^k
  BY Widths
<1>2. k < w
  BY <1>1, PowerAbove
<1>3. b \in Int /\ 0 <= b /\ b < k /\ b < n /\ b < w
  BY <1>1, <1>2
<1>4. b % n = b /\ b % w = b /\ b % k = b
  BY <1>3, ModSmall
<1>5. QED
  BY <1>1, <1>4

(* Constants on which the host's arithmetic leaves what the machine's does.*)
Foldable(op, a, b, imm, s) ==
    /\ op \in {"eq", "lt", "div"} => Canonical(a, s) /\ Canonical(b, s)
    /\ op = "shr" /\ imm = 0 => Canonical(a, FALSE)
    /\ op \in {"shl", "shr"} => b \in 0 .. WordBits - 1
    /\ op = "div" => b # 0

FoldsAlike(op, a, b, imm, s) ==
    RunBinop(op, a % WordMod, b % WordMod, imm, s)
      = apply_binop(op, IF op = "shr" /\ imm = 1 THEN SignedWord(a % WordMod) ELSE a, b) % WordMod

LEMMA BinopFolds ==
    ASSUME NEW op \in Binaries, NEW a \in Int, NEW b \in Int, NEW imm \in {0, 1}, NEW s \in BOOLEAN,
           Foldable(op, a, b, imm, s)
    PROVE  FoldsAlike(op, a, b, imm, s)
<1>0. /\ op \in {"eq", "lt", "div"} => Canonical(a, s) /\ Canonical(b, s)
      /\ op = "shr" /\ imm = 0 => Canonical(a, FALSE)
      /\ op \in {"shl", "shr"} => b \in 0 .. WordBits - 1
      /\ op = "div" => b # 0
  BY DEF Foldable
<1> USE <1>0
<1> SUFFICES RunBinop(op, a % WordMod, b % WordMod, imm, s)
               = apply_binop(op, IF op = "shr" /\ imm = 1 THEN SignedWord(a % WordMod) ELSE a, b) % WordMod
  BY DEF FoldsAlike
<1>1. PICK w \in Nat \ {0} : w = WordMod
  BY Widths
<1>2. PICK A \in Words, B \in Words : A = a % WordMod /\ B = b % WordMod
  BY ModWord
<1>3. /\ A \in Int /\ B \in Int /\ A % WordMod = A /\ B % WordMod = B
      /\ a \in Int /\ b \in Int /\ w \in Nat \ {0}
  BY <1>2, WordIs
<1>4. Congruent(w, A, a) /\ Congruent(w, B, b)
  BY <1>1, <1>2, <1>3 DEF Congruent
<1>5. CASE op \in {"add", "sub"}
  <2>1. Congruent(w, A + B, a + b) /\ Congruent(w, A - B, a - b)
    BY <1>3, <1>4, SameSum, Zenon
  <2>2. A + B + 0 = A + B /\ A - B - 0 = A - B
    BY <1>3
  <2>3. AddC(A, B, 0).res = (a + b) % WordMod /\ SubC(A, B, 0).res = (a - b) % WordMod
    BY <1>1, <2>1, <2>2 DEF AddC, SubC, Congruent
  <2>4. QED
    BY <1>2, <1>5, <2>3 DEF RunBinop, apply_binop
<1>6. CASE op = "mul"
  <2>1. PICK x \in Int, y \in Int : /\ x = IF s THEN SignedWord(A) ELSE A
                                    /\ y = IF s THEN SignedWord(B) ELSE B
                                    /\ x % WordMod = A /\ y % WordMod = B
    <3>1. Number(A, s) \in Int /\ Number(A, s) % WordMod = A /\ Number(B, s) \in Int /\ Number(B, s) % WordMod = B
      BY SignedIs
    <3>2. QED
      BY <3>1 DEF Number
  <2>2. Congruent(w, x, a) /\ Congruent(w, y, b)
    BY <1>1, <1>2, <1>3, <2>1 DEF Congruent
  <2>3. Congruent(w, x * y, a * b)
    <3>1. x \in Int /\ y \in Int
      OBVIOUS
    <3>2. QED
      BY <1>3, <2>2, <3>1, SameProduct, Zenon
  <2>4. x * y \in Int
    BY Z3
  <2>5. ((x * y) % (w * w)) % w = (x * y) % w
    BY <2>4, ModOfMod
  <2>6. Product(A, B, s).lo = ((x * y) % (w * w)) % w
    BY <1>1, <2>1 DEF Product, PairMod
  <2>7. QED
    BY <1>1, <1>2, <1>6, <2>3, <2>5, <2>6 DEF RunBinop, apply_binop, Congruent
<1>7. CASE op = "div"
  <2>1. a = Number(A, s) /\ b = Number(B, s) /\ b # 0
    BY <1>2, <1>7 DEF Canonical
  <2>2. B # 0
    BY <2>1, SignedIs
  <2>3. QED
    BY <1>2, <1>7, <2>1, <2>2 DEF RunBinop, apply_binop
<1>8. CASE op = "and"
  BY <1>2, <1>8, AndFolds DEF RunBinop, apply_binop
<1>9. CASE op = "shl"
  <2>1. b % HostBits = b /\ B % WordBits = b /\ b \in Nat
    BY <1>2, <1>9, ShortShift
  <2>2. PICK p \in Nat \ {0} : p = 2^b
    BY <2>1, Power
  <2>3. Congruent(w, A * p, a * p)
    <3>1. p \in Int /\ Congruent(w, p, p)
      BY DEF Congruent
    <3>2. QED
      BY <1>3, <1>4, <3>1, SameProduct, Zenon
  <2>4. PICK n \in Int : n = a * p
    BY Z3
  <2>5. Host(n) % WordMod = n % WordMod
    BY HostIs
  <2>6. QED
    BY <1>1, <1>2, <1>9, <2>1, <2>2, <2>3, <2>4, <2>5 DEF RunBinop, apply_binop, Shl, Congruent
<1>10. CASE op = "shr"
  <2>1. b % HostBits = b /\ B % WordBits = b /\ b \in Nat
    BY <1>2, <1>10, ShortShift
  <2>2. CASE imm = 1
    BY <1>2, <1>10, <2>1, <2>2 DEF RunBinop, apply_binop, Ashr
  <2>3. CASE imm = 0
    <3>1. a = A
      BY <1>2, <1>10, <2>3 DEF Canonical, Number
    <3>2. Shr(A, b) \in Words
      BY <2>1, ShiftsAreWords
    <3>3. Shr(A, b) % WordMod = Shr(A, b)
      BY <3>2, WordIs
    <3>4. QED
      BY <1>2, <1>10, <2>1, <2>3, <3>1, <3>3 DEF RunBinop, apply_binop, Shr
  <2>4. QED
    BY <2>2, <2>3
<1>11. CASE op = "eq"
  <2>1. a = Number(A, s) /\ b = Number(B, s)
    BY <1>2, <1>11 DEF Canonical
  <2>2. a = b <=> A = B
    BY <1>2, <2>1
  <2>3. Bit(a = b) % WordMod = Bit(A = B)
    BY <2>2, BitIsWord
  <2>4. QED
    BY <1>2, <1>11, <2>3 DEF RunBinop, apply_binop
<1>12. CASE op = "lt"
  <2>1. a = Number(A, s) /\ b = Number(B, s)
    BY <1>2, <1>12 DEF Canonical
  <2>2. Bit(a < b) % WordMod = Bit(a < b)
    <3>1. Bit(a < b) \in Words
      BY WordIs DEF Bit
    <3>2. QED
      BY <3>1, WordIs
  <2>3. QED
    BY <1>2, <1>12, <2>1, <2>2 DEF RunBinop, apply_binop
<1>13. QED
  BY <1>5, <1>6, <1>7, <1>8, <1>9, <1>10, <1>11, <1>12 DEF Binaries

LEMMA UnopFolds ==
    ASSUME NEW op \in Unaries, NEW v \in Int, op = "not" => v = 0 \/ v % WordMod # 0
    PROVE  RunUnop(op, v % WordMod) = Fold1(op, v) % WordMod
<1>1. PICK w \in Nat \ {0} : w = WordMod
  BY Widths
<1>2. PICK d \in Int, A \in Nat : v = d * w + A /\ A = v % w /\ A < w
  BY DivPick
<1>3. A \in Words /\ A % w = A
  BY <1>1, <1>2, WordIs
<1>4. CASE op = "neg"
  <2>1. Congruent(w, 0 - A, 0 - v)
    <3>1. 0 \in Int /\ A \in Int /\ v \in Int /\ w \in Nat \ {0} /\ Congruent(w, A, v) /\ Congruent(w, 0, 0)
      BY <1>2, <1>3 DEF Congruent
    <3>2. QED
      BY <3>1, SameSum, Zenon
  <2>2. 0 - A - 0 = 0 - A /\ 0 - v = -v
    OBVIOUS
  <2>3. SubC(0, A, 0).res = (-v) % w
    BY <1>1, <2>1, <2>2 DEF SubC, Congruent
  <2>4. QED
    BY <1>1, <1>2, <1>4, <2>3 DEF RunUnop, Fold1
<1>5. CASE op = "bnot"
  <2>1. PICK n \in Int, k \in Int, r \in Int : n = -v - 1 /\ k = -d - 1 /\ r = w - 1 - A
    OBVIOUS
  <2>2. n = k * w + r
    <3>1. (-d - 1) * w = -(d * w) - w
      BY Z3
    <3>2. k * w = (-d - 1) * w
      BY <2>1, Zenon
    <3>3. PICK x \in Int, y \in Int : x = k * w /\ y = d * w
      <4>1. k * w \in Int /\ d * w \in Int
        BY Z3
      <4>2. QED
        BY <4>1
    <3>4. x = -y - w
      BY <3>1, <3>2, <3>3
    <3>5. v = y + A
      BY <1>2, <3>3, Zenon
    <3>6. n = x + r
      BY <2>1, <3>4, <3>5
    <3>7. QED
      BY <3>3, <3>6, Zenon
  <2>3. 0 <= r /\ r < w
    BY <1>2, <2>1
  <2>4. n % w = r
    BY <2>2, <2>3, DivUnique
  <2>5. QED
    BY <1>1, <1>2, <1>5, <2>1, <2>4 DEF RunUnop, Fold1
<1>6. CASE op = "not"
  <2>1. v = 0 => A = 0
    <3>1. 0 % w = 0
      BY ModSmall, 0 \in Int
    <3>2. QED
      BY <1>2, <3>1
  <2>2. v = 0 <=> A = 0
    BY <1>1, <1>2, <1>6, <2>1
  <2>3. Bit(v = 0) % WordMod = Bit(A = 0)
    BY <2>2, BitIsWord
  <2>4. QED
    BY <1>1, <1>2, <1>6, <2>3 DEF RunUnop, Fold1
<1>7. QED
  BY <1>4, <1>5, <1>6 DEF Unaries

(* A cast that is not a copy.                                              *)
LEMMA CastFolds ==
    ASSUME NEW v \in Int, NEW i \in Insts, ~cast_is_pure_copy(i)
    PROVE  RunCast(v % WordMod, i.from, i.to) = apply_cast_value(v, i.from, i.to) % WordMod
<1> DEFINE from == i.from
           to == i.to
<1>1. /\ from \in Types /\ to \in Types /\ from.size \in {1, 2} /\ to.size \in {1, 2}
      /\ from.signed \in BOOLEAN /\ to.signed \in BOOLEAN
  BY InstFields, TypesAre
<1>2. PICK x \in Int : x = IF from.size = 1 THEN Extended(v, from.signed) ELSE v
  BY ExtendedIsInt
<1>3. x % ByteMod = v % ByteMod
  BY <1>1, <1>2, ExtendedIs
<1>4. PICK y \in Int : y = IF to.size = 1 THEN Extended(x, to.signed) ELSE x
  BY ExtendedIsInt
<1>5. apply_cast_value(v, from, to) = y % WordMod
  BY <1>2, <1>4 DEF apply_cast_value
<1>6. (y % WordMod) % WordMod = y % WordMod
  BY ModAgain
<1>7. CASE to.size = 1
  <2>1. Extended(v % WordMod, to.signed) = Extended(v, to.signed) /\ Extended(v, to.signed) \in Words
    BY <1>1, ExtendedIs
  <2>2. Extended(x, to.signed) = Extended(v, to.signed)
    BY <1>1, <1>3, ExtendedIs
  <2>3. y % WordMod = y
    BY <1>4, <1>7, <2>1, <2>2, WordIs
  <2>4. QED
    BY <1>4, <1>5, <1>6, <1>7, <2>1, <2>2, <2>3 DEF RunCast
<1>8. CASE to.size = 2 /\ from.size = 2
  BY <1>2, <1>4, <1>5, <1>6, <1>8 DEF RunCast
<1>9. CASE to.size = 2 /\ from.size = 1
  <2>1. from = I8
    BY <1>9 DEF cast_is_pure_copy
  <2>2. from.signed /\ Extended(v, from.signed) = Extended(v, TRUE)
    <3>1. I8.signed = TRUE
      BY DEF I8, Type
    <3>2. QED
      BY <2>1, <3>1, Zenon
  <2>3. Extended(v % WordMod, TRUE) = Extended(v, TRUE) /\ Extended(v, TRUE) \in Words
    BY ExtendedIs
  <2>4. x = Extended(v, TRUE)
    BY <1>2, <1>9, <2>2, Zenon
  <2>5. y = Extended(v, TRUE)
    BY <1>4, <1>9, <2>4
  <2>6. y % WordMod = y
    BY <2>3, <2>5, WordIs
  <2>7. RunCast(v % WordMod, from, to) = Extended(v % WordMod, TRUE)
    BY <1>9, <2>2 DEF RunCast
  <2>8. QED
    BY <1>5, <1>6, <2>3, <2>5, <2>6, <2>7
<1>10. QED
  BY <1>1, <1>7, <1>8, <1>9

(* A copy leaves the word, when a byte cast to its own type was extended.  *)
LEMMA CopyRuns ==
    ASSUME NEW A \in Words, NEW i \in Insts, cast_is_pure_copy(i),
           i.from.size = 1 /\ i.to = i.from => Extended(A, i.to.signed) = A
    PROVE  RunCast(A, i.from, i.to) = A
<1> DEFINE from == i.from
           to == i.to
<1>1. /\ from \in Types /\ to \in Types /\ from.size \in {1, 2} /\ to.size \in {1, 2}
      /\ from = Type(from.size, from.signed) /\ to = Type(to.size, to.signed)
  BY InstFields, TypesAre
<1>2. CASE to.size = 1
  <2>1. from.size = 1 /\ from.signed = to.signed
    BY <1>1, <1>2 DEF cast_is_pure_copy
  <2>2. from = to
    BY <1>1, <1>2, <2>1
  <2>3. QED
    BY <1>2, <2>1, <2>2 DEF RunCast
<1>3. CASE to.size = 2 /\ from.size = 1
  <2>1. from # I8
    BY <1>3 DEF cast_is_pure_copy
  <2>2. ~from.signed
    <3>1. U8.signed = FALSE /\ U16.size = 2 /\ I16.size = 2
      BY DEF U8, U16, I16, Type
    <3>2. QED
      BY <1>1, <1>3, <2>1, <3>1 DEF Types
  <2>3. QED
    BY <1>3, <2>2 DEF RunCast
<1>4. CASE to.size = 2 /\ from.size = 2
  BY <1>4 DEF RunCast
<1>5. QED
  BY <1>1, <1>2, <1>3, <1>4

(* What it means that the folding of an instruction needs no excuse.       *)
BothKnown(f, i) == i.a \in DOMAIN f.known /\ (i.k = "binop" => i.b \in DOMAIN f.known)

LEMMA NoExcuse ==
    ASSUME NEW f, NEW i, Excuses(f, i) = {}
    PROVE  /\ i.k \in {"binop", "unop"} /\ BothKnown(f, i) =>
                /\ i.op \in {"eq", "lt", "div"} => /\ Canonical(f.known[i.a], i.to.signed)
                                                   /\ Canonical(f.known[i.b], i.to.signed)
                /\ i.op = "shr" /\ i.imm = 0 => Canonical(f.known[i.a], FALSE)
                /\ i.op = "not" => f.known[i.a] = 0 \/ f.known[i.a] % WordMod # 0
           /\ i.k = "binop" /\ BothKnown(f, i) =>
                /\ i.op \in {"shl", "shr"} => f.known[i.b] \in 0 .. WordBits - 1
                /\ i.op = "div" => f.known[i.b] # 0
           /\ i.k = "cast" /\ i.from.size = 1 /\ i.to = i.from =>
                \A n \in DOMAIN f.code : f.code[n].dst = i.a =>
                    /\ f.code[n].k \in {"load", "cast", "const"}
                    /\ f.code[n].k = "const" => f.code[n].imm % WordMod = Extended(f.code[n].imm, i.to.signed)
<1> DEFINE ca == f.known[i.a]
           cb == f.known[i.b]
           Definition == { f.code[n] : n \in { n \in DOMAIN f.code : f.code[n].dst = i.a } }
           W == /\ BothKnown(f, i) /\ i.k \in {"binop", "unop"}
                /\ CASE i.op \in {"eq", "lt", "div"} ->
                          ~(Canonical(ca, i.to.signed) /\ Canonical(cb, i.to.signed))
                     [] i.op = "shr" -> i.imm = 0 /\ ~Canonical(ca, FALSE)
                     [] i.op = "not" -> ca # 0 /\ ca % WordMod = 0
                     [] OTHER -> FALSE
           U == /\ BothKnown(f, i) /\ i.k = "binop"
                /\ \/ i.op \in {"shl", "shr"} /\ cb \notin 0 .. WordBits - 1
                   \/ i.op = "div" /\ cb = 0
           B == /\ i.k = "cast" /\ i.from.size = 1 /\ i.to = i.from
                /\ \E d \in Definition :
                       \/ d.k \notin {"load", "cast", "const"}
                       \/ d.k = "const" /\ d.imm % WordMod # Extended(d.imm, i.to.signed)
<1>1. Excuses(f, i) = (IF W THEN {"wrapped"} ELSE {}) \cup (IF U THEN {"undefined"} ELSE {})
                      \cup (IF B THEN {"bytes"} ELSE {})
  BY Zenon DEF Excuses, BothKnown
<1>2. ~W /\ ~U /\ ~B
  <2> HIDE DEF W, U, B
  <2>1. W => "wrapped" \in Excuses(f, i)
    BY <1>1
  <2>2. U => "undefined" \in Excuses(f, i)
    BY <1>1
  <2>3. B => "bytes" \in Excuses(f, i)
    BY <1>1
  <2>4. QED
    BY <2>1, <2>2, <2>3
<1>3. ASSUME i.k \in {"binop", "unop"}, BothKnown(f, i)
      PROVE  /\ i.op \in {"eq", "lt", "div"} => Canonical(ca, i.to.signed) /\ Canonical(cb, i.to.signed)
             /\ i.op = "shr" /\ i.imm = 0 => Canonical(ca, FALSE)
             /\ i.op = "not" => ca = 0 \/ ca % WordMod # 0
  BY <1>2, <1>3
<1>4. ASSUME i.k = "binop", BothKnown(f, i)
      PROVE  /\ i.op \in {"shl", "shr"} => cb \in 0 .. WordBits - 1
             /\ i.op = "div" => cb # 0
  BY <1>2, <1>4
<1>5. ASSUME i.k = "cast", i.from.size = 1, i.to = i.from, NEW n \in DOMAIN f.code, f.code[n].dst = i.a
      PROVE  /\ f.code[n].k \in {"load", "cast", "const"}
             /\ f.code[n].k = "const" => f.code[n].imm % WordMod = Extended(f.code[n].imm, i.to.signed)
  <2>1. f.code[n] \in Definition
    BY <1>5
  <2>2. QED
    BY <1>2, <1>5, <2>1
<1>6. QED
  BY <1>3, <1>4, <1>5

(* The word that is left is the number that was found.                     *)
LEMMA GivesWritten ==
    ASSUME NEW f \in FoldStates, NEW i \in Insts, NEW n \in Int, Gives(f, i, n), NEW m \in Machines,
           \A r \in {i.a, i.b} : r \in DOMAIN f.known => m.regs[r] = f.known[r] % WordMod,
           Excuses(f, i) = {},
           i.k = "cast" /\ cast_is_pure_copy(i) => RunCast(m.regs[i.a], i.from, i.to) = m.regs[i.a]
    PROVE  Written(m, i) = n % WordMod
<1>1. /\ i.imm \in Int /\ i.to \in Types /\ i.from \in Types /\ i.to.signed \in BOOLEAN /\ Formed(i)
      /\ \A r \in DOMAIN f.known : f.known[r] \in Int
  BY InstFields, TypesAre, ConstsAre DEF FoldStates
<1>2. CASE i.k = "const" /\ n = i.imm
  BY <1>2 DEF Written
<1>3. CASE /\ i.k = "binop" /\ Known(f, i.a) /\ Known(f, i.b)
           /\ n = apply_binop(i.op, IF i.op = "shr" /\ i.imm = 1 THEN SignedWord(f.known[i.a] % WordMod)
                                    ELSE f.known[i.a], f.known[i.b])
  <2>1. PICK a \in Int, b \in Int : a = f.known[i.a] /\ b = f.known[i.b]
    BY <1>1, <1>3 DEF Known
  <2>2. m.regs[i.a] = a % WordMod /\ m.regs[i.b] = b % WordMod
    BY <1>3, <2>1 DEF Known
  <2>3. i.op \in Binaries /\ i.imm \in {0, 1}
    BY <1>1, <1>3 DEF Formed
  <2>4. /\ i.op \in {"eq", "lt", "div"} => Canonical(a, i.to.signed) /\ Canonical(b, i.to.signed)
        /\ i.op = "shr" /\ i.imm = 0 => Canonical(a, FALSE)
        /\ i.op \in {"shl", "shr"} => b \in 0 .. WordBits - 1
        /\ i.op = "div" => b # 0
    <3>1. BothKnown(f, i)
      BY <1>3 DEF Known, BothKnown
    <3>2. QED
      BY <1>3, <2>1, <3>1, NoExcuse
  <2>5. RunBinop(i.op, a % WordMod, b % WordMod, i.imm, i.to.signed)
          = apply_binop(i.op, IF i.op = "shr" /\ i.imm = 1 THEN SignedWord(a % WordMod) ELSE a, b) % WordMod
    <3>1. a \in Int /\ b \in Int /\ i.to.signed \in BOOLEAN
      BY <1>1
    <3>2. PICK op \in Binaries, imm \in {0, 1}, s \in BOOLEAN : op = i.op /\ imm = i.imm /\ s = i.to.signed
      BY <2>3, <3>1
    <3>3. Foldable(op, a, b, imm, s)
      BY <2>4, <3>2, Zenon DEF Foldable
    <3>4. FoldsAlike(op, a, b, imm, s)
      BY <3>1, <3>3, BinopFolds, Zenon
    <3>5. QED
      BY <3>2, <3>4, Zenon DEF FoldsAlike
  <2>6. Written(m, i) = RunBinop(i.op, m.regs[i.a], m.regs[i.b], i.imm, i.to.signed)
    BY <1>3 DEF Written
  <2>7. n = apply_binop(i.op, IF i.op = "shr" /\ i.imm = 1 THEN SignedWord(a % WordMod) ELSE a, b)
    BY <1>3, <2>1
  <2>8. QED
    BY <2>2, <2>5, <2>6, <2>7
<1>4. CASE i.k = "unop" /\ Known(f, i.a) /\ n = Fold1(i.op, f.known[i.a])
  <2>1. PICK a \in Int : a = f.known[i.a] /\ m.regs[i.a] = a % WordMod
    BY <1>1, <1>4 DEF Known
  <2>2. i.op \in Unaries
    BY <1>1, <1>4 DEF Formed
  <2>3. i.op = "not" => a = 0 \/ a % WordMod # 0
    <3>1. BothKnown(f, i)
      BY <1>4 DEF Known, BothKnown
    <3>2. QED
      BY <1>4, <2>1, <3>1, NoExcuse
  <2>4. RunUnop(i.op, a % WordMod) = Fold1(i.op, a) % WordMod
    BY <2>2, <2>3, UnopFolds
  <2>5. QED
    BY <1>4, <2>1, <2>4 DEF Written
<1>5. CASE /\ i.k = "cast" /\ Known(f, i.a)
           /\ n = IF cast_is_pure_copy(i) THEN f.known[i.a] ELSE apply_cast_value(f.known[i.a], i.from, i.to)
  <2>1. PICK a \in Int : a = f.known[i.a] /\ m.regs[i.a] = a % WordMod
    BY <1>1, <1>5 DEF Known
  <2>2. Written(m, i) = RunCast(m.regs[i.a], i.from, i.to)
    BY <1>5 DEF Written
  <2>3. CASE cast_is_pure_copy(i)
    BY <1>5, <2>1, <2>2, <2>3
  <2>4. CASE ~cast_is_pure_copy(i)
    BY <1>5, <2>1, <2>2, <2>4, CastFolds
  <2>5. QED
    BY <2>3, <2>4
<1>6. CASE i.k = "mov" /\ Known(f, i.a) /\ n = f.known[i.a]
  BY <1>6 DEF Written, Known
<1>7. QED
  BY <1>2, <1>3, <1>4, <1>5, <1>6 DEF Gives

(* An instruction that reads the same values elsewhere.                    *)
Alternate(i, j) ==
    /\ i.k = j.k /\ i.dst = j.dst /\ i.op = j.op /\ i.imm = j.imm /\ i.from = j.from /\ i.to = j.to
    /\ i.label = j.label /\ i.other = j.other

LEMMA SameRun ==
    ASSUME NEW m \in Machines, NEW i \in Insts, NEW j \in Insts, Alternate(i, j),
           Active(m) => /\ m.regs[i.a] = m.regs[j.a] /\ m.regs[i.b] = m.regs[j.b]
                        /\ (i.a = NoReg <=> j.a = NoReg)
    PROVE  Run1(m, i) = Run1(m, j)
<1>1. CASE ~Active(m)
  <2>1. i.k = j.k /\ i.label = j.label
    BY DEF Alternate
  <2>2. CASE ~m.returned /\ i.k = "label" /\ i.label = m.goal
    <3>1. Run1(m, i) = [m EXCEPT !.goal = 0]
      BY <1>1, <2>2, IdleRuns, Zenon
    <3>2. ~m.returned /\ j.k = "label" /\ j.label = m.goal
      BY <2>1, <2>2, Zenon
    <3>3. Run1(m, j) = [m EXCEPT !.goal = 0]
      BY <1>1, <3>2, IdleRuns, Zenon
    <3>4. QED
      BY <3>1, <3>3, Zenon
  <2>3. CASE ~(~m.returned /\ i.k = "label" /\ i.label = m.goal)
    BY <1>1, <2>1, <2>3, IdleRuns
  <2>4. QED
    BY <2>2, <2>3
<1>2. CASE Active(m) /\ i.k \in Defining
  <2>1. Written(m, i) = Written(m, j) /\ Carried(m, i) = Carried(m, j)
    BY <1>2 DEF Written, Carried, Alternate
  <2>2. /\ Run1(m, i) = [m EXCEPT !.regs = [m.regs EXCEPT ![i.dst] = Written(m, i)], !.carry = Carried(m, i)]
        /\ Run1(m, j) = [m EXCEPT !.regs = [m.regs EXCEPT ![j.dst] = Written(m, j)], !.carry = Carried(m, j)]
    BY <1>2, DefiningRuns DEF Alternate
  <2>3. i.dst = j.dst
    BY DEF Alternate
  <2>4. QED
    BY <2>1, <2>2, <2>3
<1>3. CASE Active(m) /\ i.k \notin Defining
  <2>0. j.k \notin Defining /\ i.k = j.k
    BY <1>3 DEF Alternate
  <2>1. CASE i.k = "store"
    <3>1. Run1(m, i) = [m EXCEPT !.mem[i.op] = IF i.to.size = 1 THEN m.regs[i.a] % ByteMod ELSE m.regs[i.a]]
      BY <1>3, <2>1, ControlRuns, Zenon
    <3>2. Run1(m, j) = [m EXCEPT !.mem[j.op] = IF j.to.size = 1 THEN m.regs[j.a] % ByteMod ELSE m.regs[j.a]]
      BY <1>3, <2>0, <2>1, ControlRuns, Zenon
    <3>3. QED
      BY <1>3, <3>1, <3>2 DEF Alternate
  <2>2. CASE i.k = "label"
    <3>1. Run1(m, i) = m
      BY <1>3, <2>2, ControlRuns, Zenon
    <3>2. Run1(m, j) = m
      <4>1. j.k = "label"
        BY <2>0, <2>2
      <4>2. QED
        BY <1>3, <2>0, <4>1, ControlRuns
    <3>3. QED
      BY <1>3, <3>1, <3>2 DEF Alternate
  <2>3. CASE i.k = "jmp"
    <3>1. Run1(m, i) = [m EXCEPT !.goal = i.label]
      BY <1>3, <2>3, ControlRuns, Zenon
    <3>2. Run1(m, j) = [m EXCEPT !.goal = j.label]
      BY <1>3, <2>0, <2>3, ControlRuns, Zenon
    <3>3. QED
      BY <1>3, <3>1, <3>2 DEF Alternate
  <2>4. CASE i.k = "cjmp"
    <3>1. Run1(m, i) = [m EXCEPT !.goal = IF m.regs[i.a] # 0 THEN i.label ELSE i.other]
      BY <1>3, <2>4, ControlRuns, Zenon
    <3>2. Run1(m, j) = [m EXCEPT !.goal = IF m.regs[j.a] # 0 THEN j.label ELSE j.other]
      <4>1. j.k = "cjmp" /\ j.k \notin Defining
        BY <1>3, <2>0, <2>4, Zenon
      <4>2. QED
        BY <1>3, <4>1, ControlRuns, Zenon
    <3>3. QED
      BY <1>3, <3>1, <3>2 DEF Alternate
  <2>5. CASE i.k = "ret"
    <3>1. Run1(m, i) = [m EXCEPT !.returned = TRUE, !.result = IF i.a = NoReg THEN NONE ELSE m.regs[i.a]]
      BY <1>3, <2>5, ControlRuns, Zenon
    <3>2. Run1(m, j) = [m EXCEPT !.returned = TRUE, !.result = IF j.a = NoReg THEN NONE ELSE m.regs[j.a]]
      <4>1. j.k = "ret" /\ j.k \notin Defining
        BY <1>3, <2>0, <2>5, Zenon
      <4>2. QED
        BY <1>3, <4>1, ControlRuns, Zenon
    <3>3. m.regs[i.a] = m.regs[j.a] /\ (i.a = NoReg <=> j.a = NoReg)
      BY <1>3
    <3>4. (IF i.a = NoReg THEN NONE ELSE m.regs[i.a]) = IF j.a = NoReg THEN NONE ELSE m.regs[j.a]
      BY <3>3
    <3>5. PICK w : w = IF i.a = NoReg THEN NONE ELSE m.regs[i.a]
      OBVIOUS
    <3>6. Run1(m, i) = [m EXCEPT !.returned = TRUE, !.result = w]
      BY <3>1, <3>5
    <3>7. w = IF j.a = NoReg THEN NONE ELSE m.regs[j.a]
      BY <3>4, <3>5
    <3>8. Run1(m, j) = [m EXCEPT !.returned = TRUE, !.result = w]
      BY <3>2, <3>7
    <3>9. QED
      BY <3>6, <3>8
  <2>6. i.k \in {"store", "label", "jmp", "cjmp", "ret"}
    BY <1>3, InstFields DEF Kinds, Defining
  <2>7. QED
    BY <2>1, <2>2, <2>3, <2>4, <2>5, <2>6
<1>4. QED
  BY <1>1, <1>2, <1>3

(* A constant in the place of an instruction that computes it.             *)
LEMMA ConstRun ==
    ASSUME NEW m \in Machines, NEW i \in Insts, NEW n \in Int, i.k \in {"binop", "unop", "cast"},
           Active(m) => Written(m, i) = n % WordMod
    PROVE  Run1(m, Folded(i, n)) = Run1(m, i)
<1>1. i.dst \in Regs /\ i.k \in Defining /\ i.k # "carry"
  BY InstFields DEF Formed, Defining, Regs, NoReg
<1>2. PICK x \in Insts : x = Folded(i, n) /\ x.k = "const" /\ x.dst = i.dst /\ x.imm = n
  BY <1>1, FoldedIs
<1>3. CASE ~Active(m)
  BY <1>2, <1>3, IdleRuns
<1>4. CASE Active(m)
  <2>1. x.k \in Defining
    BY <1>2 DEF Defining
  <2>2. Written(m, x) = Written(m, i) /\ Carried(m, x) = Carried(m, i)
    BY <1>1, <1>2, <1>4 DEF Written, Carried
  <2>3. /\ Run1(m, i) = [m EXCEPT !.regs = [m.regs EXCEPT ![i.dst] = Written(m, i)], !.carry = Carried(m, i)]
        /\ Run1(m, x) = [m EXCEPT !.regs = [m.regs EXCEPT ![x.dst] = Written(m, x)], !.carry = Carried(m, x)]
    BY <1>1, <1>4, <2>1, DefiningRuns
  <2>4. QED
    BY <1>2, <2>2, <2>3
<1>5. QED
  BY <1>3, <1>4

-----------------------------------------------------------------------------
(* The constants and copies that folding knows are what the machine holds. *)

(* A register that is written at two places.                               *)
LEMMA WrittenTwice ==
    ASSUME NEW c \in Seq(Insts), NEW n \in DOMAIN c, NEW d \in DOMAIN c, n # d, c[n].dst = c[d].dst,
           c[n].dst # NoReg
    PROVE  c[n].dst \in MultiDef(c)
<1> DEFINE r == c[n].dst
           S == { q \in DOMAIN c : c[q].dst = r }
<1>1. r \in Regs
  BY CodeFields, InstFields DEF Regs, NoReg
<1>2. IsFiniteSet(S) /\ Cardinality(S) \in Nat
  <2>1. Len(c) \in Nat /\ DOMAIN c = 1 .. Len(c)
    OBVIOUS
  <2>2. IsFiniteSet(1 .. Len(c))
    BY <2>1, FS_Interval
  <2>3. QED
    BY <2>1, <2>2, FS_Subset, FS_CardinalityType
<1>3. IsFiniteSet({n}) /\ Cardinality({n}) = 1
  BY FS_Singleton
<1>4. IsFiniteSet({n, d}) /\ Cardinality({n, d}) = 2
  <2>1. {n, d} = {n} \cup {d}
    OBVIOUS
  <2>2. d \notin {n} /\ Cardinality({n}) = 1
    BY <1>3
  <2>3. IsFiniteSet({n} \cup {d}) /\ Cardinality({n} \cup {d}) = Cardinality({n}) + 1
    BY <1>3, <2>2, FS_AddElement, Zenon
  <2>4. Cardinality({n} \cup {d}) = 1 + 1
    BY <2>2, <2>3, Zenon
  <2>5. 1 + 1 = 2
    OBVIOUS
  <2>6. QED
    BY <2>1, <2>3, <2>4, <2>5, Zenon
<1>5. {n, d} \subseteq S
  OBVIOUS
<1>6. Cardinality({n, d}) <= Cardinality(S)
  BY <1>2, <1>5, FS_Subset
<1>7. Cardinality(S) > 1
  BY <1>2, <1>4, <1>6
<1>8. QED
  BY <1>1, <1>7 DEF MultiDef

(* What the rewriting keeps of the instructions whose type or carry counts.*)
Echoes(x, i) == x.k \in {"load", "cast", "carry"} => x.k = i.k /\ x.to = i.to /\ x.imm = i.imm

(* Constants and copies are known of registers that one place writes, and  *)
(* a copy is made by a cast, of a register that holds the type it gives.   *)
CopiesOK(c, f, n) ==
    /\ \A q \in 1 .. n : Echoes(f.code[q], c[q])
    /\ \A r \in DOMAIN f.known : r \notin MultiDef(c) /\ \E d \in 1 .. n : c[d].dst = r
    /\ \A r \in DOMAIN f.alias :
          /\ r \notin MultiDef(c) /\ f.alias[r] # NoReg
          /\ \E d \in 1 .. n : /\ c[d].dst = r /\ c[d].k = "cast"
                               /\ c[d].to.size = 1 => TypedAs(c, f.alias[r], c[d].to)

LEMMA CopiesStart == ASSUME NEW c PROVE CopiesOK(c, NothingFolded, 0)
  BY NothingIs DEF CopiesOK

(* An instruction as it reads through the copies recorded before it.       *)
LEMMA ThroughAt ==
    ASSUME NEW c, Given(c), NEW n \in Nat, n + 1 \in DOMAIN c, NEW f, FoldOK(c, f, n), CopiesOK(c, f, n),
           NEW i, i = Through(f.alias, c[n + 1])
    PROVE  /\ i \in Insts /\ Alternate(c[n + 1], i) /\ f \in FoldStates
           /\ i.a = IF c[n + 1].a \in DOMAIN f.alias THEN f.alias[c[n + 1].a] ELSE c[n + 1].a
           /\ i.b = IF c[n + 1].b \in DOMAIN f.alias THEN f.alias[c[n + 1].b] ELSE c[n + 1].b
           /\ 0 \notin DOMAIN f.alias /\ 0 \notin DOMAIN f.known
           /\ Folds(f, FoldInst(f, c[n + 1], MultiDef(c)), i, MultiDef(c))
<1>1. c \in Seq(Insts) /\ c[n + 1] \in Insts /\ c[n + 1].a \in 0 .. MaxRegs /\ c[n + 1].b \in 0 .. MaxRegs
  BY CodeFields, InstFields DEF Given, Whole
<1>2. \A r \in 0 .. MaxRegs : /\ Follow(f.alias, r) \in 0 .. MaxRegs
                              /\ Follow(f.alias, r) = IF r \in DOMAIN f.alias THEN f.alias[r] ELSE r
  BY RootIs
<1>3. /\ i \in Insts /\ i.a = Follow(f.alias, c[n + 1].a) /\ i.b = Follow(f.alias, c[n + 1].b)
      /\ Alternate(c[n + 1], i)
  BY <1>1, <1>2, ThroughIs DEF Alternate
<1>4. f \in FoldStates /\ f.alias \in Copies /\ f.known \in Consts
  BY DEF FoldOK, FoldStates
<1>5. 0 \notin DOMAIN f.alias /\ 0 \notin DOMAIN f.known
  BY <1>4, CopiesAre, ConstsAre DEF Regs
<1>6. Folds(f, FoldInst(f, c[n + 1], MultiDef(c)), i, MultiDef(c))
  BY <1>4, <1>3, FoldCases
<1>7. QED
  BY <1>1, <1>2, <1>3, <1>4, <1>5, <1>6

(* A cast of a byte reads what the loads and casts have left as that byte. *)
LEMMA TypedRoot ==
    ASSUME NEW c, Given(c), NEW n \in Nat, n + 1 \in DOMAIN c, NEW f, FoldOK(c, f, n), CopiesOK(c, f, n),
           NEW i, i = Through(f.alias, c[n + 1]), i.k = "cast", i.from.size = 1
    PROVE  TypedAs(c, i.a, i.from)
<1> DEFINE inst == c[n + 1]
<1>1. inst.k = "cast" /\ inst.from = i.from
  BY ThroughAt DEF Alternate
<1>2. TypedAs(c, inst.a, inst.from)
  BY <1>1 DEF Given, Typed
<1>3. i.a = IF inst.a \in DOMAIN f.alias THEN f.alias[inst.a] ELSE inst.a
  BY ThroughAt
<1>4. CASE inst.a \in DOMAIN f.alias
  <2>1. PICK d \in 1 .. n : /\ c[d].dst = inst.a /\ c[d].k = "cast"
                            /\ c[d].to.size = 1 => TypedAs(c, f.alias[inst.a], c[d].to)
    BY <1>4 DEF CopiesOK
  <2>2. d \in DOMAIN c
    BY DEF Given, Whole
  <2>3. c[d].to = inst.from
    BY <1>2, <2>1, <2>2 DEF TypedAs
  <2>4. QED
    BY <1>1, <1>3, <1>4, <2>1, <2>3
<1>5. QED
  BY <1>1, <1>2, <1>3, <1>4

(* A copy that is recorded is made by a cast, of another register.         *)
LEMMA CopyAt ==
    ASSUME NEW c, Given(c), NEW n \in Nat, n + 1 \in DOMAIN c, NEW f, FoldOK(c, f, n), CopiesOK(c, f, n),
           NEW i, i = Through(f.alias, c[n + 1]), IsCopy(i), i.dst \notin MultiDef(c)
    PROVE  /\ i.k = "cast" /\ cast_is_pure_copy(i) /\ i.a # NoReg /\ i.a # i.dst
           /\ i.to.size = 1 => i.from = i.to
<1> DEFINE inst == c[n + 1]
<1>1. /\ i \in Insts /\ Alternate(inst, i) /\ c \in Seq(Insts) /\ inst \in Insts
      /\ i.a = IF inst.a \in DOMAIN f.alias THEN f.alias[inst.a] ELSE inst.a
  BY ThroughAt, CodeFields DEF Given, Whole
<1>2. i.dst # NoReg
  BY <1>1, InstFields DEF IsCopy, Formed, Defining
<1>3. i.k = "cast" /\ cast_is_pure_copy(i)
  <2>1. SUFFICES ASSUME i.k = "mov" PROVE FALSE
    BY DEF IsCopy
  <2>2. Twice(c, n + 1)
    BY <1>1, <2>1 DEF Given, Alternate
  <2>3. PICK p \in DOMAIN c : p # n + 1 /\ c[p].dst = inst.dst
    BY <2>2 DEF Twice
  <2>4. inst.dst \in MultiDef(c)
    BY <1>1, <1>2, <2>3, WrittenTwice DEF Alternate
  <2>5. QED
    BY <1>1, <2>4 DEF Alternate
<1>4. inst.a # NoReg
  BY <1>1, <1>3 DEF Given, Typed, Alternate
<1>5. i.a # NoReg
  BY <1>1, <1>4 DEF CopiesOK
<1>6. i.a # i.dst
  <2>1. SUFFICES ASSUME i.a = i.dst PROVE FALSE
    OBVIOUS
  <2>2. CASE inst.a \in DOMAIN f.alias
    <3>1. PICK d \in 1 .. n : Before(c, f.alias[inst.a], d)
      BY <2>2 DEF FoldOK
    <3>2. n + 1 < d
      BY <1>1, <1>2, <2>1, <2>2, <3>1 DEF Before, Alternate
    <3>3. QED
      BY <3>2
  <2>3. CASE inst.a \notin DOMAIN f.alias
    <3>1. inst.dst \in Operands(inst)
      BY <1>1, <1>4, <2>1, <2>3 DEF Operands, Alternate
    <3>2. n + 1 < n + 1
      BY <3>1 DEF Given, Whole, Ordered
    <3>3. QED
      BY <3>2
  <2>4. QED
    BY <2>2, <2>3
<1>7. ASSUME i.to.size = 1 PROVE i.from = i.to
  <2>1. /\ i.from \in Types /\ i.to \in Types /\ i.from.size \in {1, 2}
        /\ i.from = Type(i.from.size, i.from.signed) /\ i.to = Type(i.to.size, i.to.signed)
    BY <1>1, InstFields, TypesAre
  <2>2. i.from.size <= i.to.size /\ i.from.signed = i.to.signed
    BY <1>3, <1>7 DEF cast_is_pure_copy
  <2>3. i.from.size = 1
    BY <1>7, <2>1, <2>2
  <2>4. QED
    BY <1>7, <2>1, <2>2, <2>3
<1>8. QED
  BY <1>3, <1>5, <1>6, <1>7

LEMMA CopiesStep ==
    ASSUME NEW c, Given(c), NEW n \in Nat, n + 1 \in DOMAIN c, NEW f, FoldOK(c, f, n), CopiesOK(c, f, n)
    PROVE  CopiesOK(c, FoldInst(f, c[n + 1], MultiDef(c)), n + 1)
<1> DEFINE inst == c[n + 1]
<1>1. PICK i : i = Through(f.alias, inst)
  OBVIOUS
<1>2. PICK g : g = FoldInst(f, inst, MultiDef(c))
  OBVIOUS
<1>3. /\ i \in Insts /\ Alternate(inst, i) /\ Folds(f, g, i, MultiDef(c)) /\ c \in Seq(Insts) /\ inst \in Insts
      /\ f \in FoldStates /\ f.code \in Seq(Insts) /\ Len(f.code) = n
  <2>1. i \in Insts /\ Alternate(inst, i) /\ Folds(f, g, i, MultiDef(c))
    BY <1>1, <1>2, ThroughAt
  <2>2. QED
    BY <2>1, CodeFields DEF Given, Whole, FoldOK, FoldStates
<1>4. PICK x \in Insts : Rewritten(f, i, x) /\ g.code = Append(f.code, x)
  BY <1>3 DEF Folds
<1>5. g.code[n + 1] = x /\ \A q \in 1 .. n : g.code[q] = f.code[q]
  BY <1>3, <1>4, Appended
<1>6. Echoes(x, inst)
  <2>1. CASE x = i
    BY <1>3, <2>1 DEF Echoes, Alternate
  <2>2. CASE i.k \in {"binop", "unop", "cast"} /\ \E m \in Int : x = Folded(i, m)
    <3>1. i.dst \in Regs
      BY <1>3, <2>2, InstFields DEF Formed, Defining, Regs, NoReg
    <3>2. x.k = "const"
      BY <1>3, <2>2, <3>1, FoldedIs
    <3>3. QED
      BY <3>2 DEF Echoes
  <2>3. QED
    BY <1>4, <2>1, <2>2 DEF Rewritten
<1>7. \A q \in 1 .. n + 1 : Echoes(g.code[q], c[q])
  <2>1. TAKE q \in 1 .. n + 1
  <2>2. CASE q = n + 1
    BY <1>5, <1>6, <2>2
  <2>3. CASE q \in 1 .. n
    BY <1>5, <2>3 DEF CopiesOK
  <2>4. QED
    BY <2>2, <2>3
<1>8. ASSUME NEW r \in DOMAIN g.known
      PROVE  r \notin MultiDef(c) /\ \E d \in 1 .. n + 1 : c[d].dst = r
  <2>1. CASE r \in DOMAIN f.known
    BY <2>1 DEF CopiesOK
  <2>2. CASE r \notin DOMAIN f.known
    <3>1. /\ i.dst \notin MultiDef(c)
          /\ \E v \in Int : g.known = Updated(f.known, i.dst, v)
      BY <1>3, <1>8, <2>2 DEF Folds
    <3>2. r = i.dst
      <4>1. PICK v \in Int : g.known = Updated(f.known, i.dst, v)
        BY <3>1
      <4>2. DOMAIN Updated(f.known, i.dst, v) = DOMAIN f.known \cup {i.dst}
        BY DEF Updated
      <4>3. QED
        BY <1>8, <2>2, <4>1, <4>2
    <3>3. QED
      BY <1>3, <3>1, <3>2 DEF Alternate
  <2>3. QED
    BY <2>1, <2>2
<1>9. ASSUME NEW r \in DOMAIN g.alias
      PROVE  /\ r \notin MultiDef(c) /\ g.alias[r] # NoReg
             /\ \E d \in 1 .. n + 1 : /\ c[d].dst = r /\ c[d].k = "cast"
                                      /\ c[d].to.size = 1 => TypedAs(c, g.alias[r], c[d].to)
  <2>1. CASE g.alias = f.alias
    BY <1>9, <2>1 DEF CopiesOK
  <2>2. CASE i.dst \notin MultiDef(c) /\ IsCopy(i) /\ g.alias = Updated(f.alias, i.dst, i.a)
    <3>1. /\ DOMAIN g.alias = DOMAIN f.alias \cup {i.dst} /\ g.alias[i.dst] = i.a
          /\ \A s \in DOMAIN f.alias : s # i.dst => g.alias[s] = f.alias[s]
      <4>1. /\ DOMAIN Updated(f.alias, i.dst, i.a) = DOMAIN f.alias \cup {i.dst}
            /\ Updated(f.alias, i.dst, i.a)[i.dst] = i.a
            /\ \A s \in DOMAIN f.alias : s # i.dst => Updated(f.alias, i.dst, i.a)[s] = f.alias[s]
        BY DEF Updated
      <4>2. QED
        BY <2>2, <4>1
    <3>2. CASE r = i.dst
      <4>1. i.k = "cast" /\ i.a # NoReg /\ (i.to.size = 1 => i.from = i.to)
        BY <1>1, <2>2, CopyAt
      <4>2. i.to.size = 1 => TypedAs(c, i.a, i.to)
        BY <1>1, <4>1, TypedRoot
      <4>3. inst.dst = r /\ inst.k = "cast" /\ inst.to = i.to
        BY <1>3, <3>2, <4>1 DEF Alternate
      <4>4. n + 1 \in 1 .. n + 1
        OBVIOUS
      <4>5. QED
        BY <2>2, <3>1, <3>2, <4>1, <4>2, <4>3, <4>4
    <3>3. CASE r # i.dst
      <4>1. r \in DOMAIN f.alias /\ g.alias[r] = f.alias[r]
        BY <1>9, <3>1, <3>3
      <4>2. PICK d \in 1 .. n : /\ c[d].dst = r /\ c[d].k = "cast"
                                /\ c[d].to.size = 1 => TypedAs(c, f.alias[r], c[d].to)
        BY <4>1 DEF CopiesOK
      <4>3. QED
        BY <4>1, <4>2 DEF CopiesOK
    <3>4. QED
      BY <3>2, <3>3
  <2>3. QED
    BY <1>3, <2>1, <2>2 DEF Folds
<1>10. QED
  BY <1>2, <1>7, <1>8, <1>9 DEF CopiesOK

(* The registers written by the first n instructions.                      *)
MadeBy(c, memory, n) == { c[d].dst : d \in { d \in Executed(c, memory) : d <= n } } \ {NoReg}

LEMMA MadeGrows ==
    ASSUME NEW c \in Seq(Insts), NEW memory, NEW n \in Nat, n + 1 \in DOMAIN c
    PROVE  MadeBy(c, memory, n + 1) =
             IF Active(Ran(c, memory)[n]) THEN MadeBy(c, memory, n) \cup ({c[n + 1].dst} \ {NoReg})
             ELSE MadeBy(c, memory, n)
<1>1. \A d \in DOMAIN c : d \in Nat
  BY CodeFields
<1>2. n + 1 \in Executed(c, memory) <=> Active(Ran(c, memory)[n])
  <2>1. (n + 1) - 1 = n
    OBVIOUS
  <2>2. QED
    BY <2>1 DEF Executed
<1>3. \A d \in Executed(c, memory) : d \in Nat
  BY <1>1 DEF Executed
<1> DEFINE E(k) == { d \in Executed(c, memory) : d <= k }
<1>4. E(n + 1) = IF Active(Ran(c, memory)[n]) THEN E(n) \cup {n + 1} ELSE E(n)
  BY <1>2, <1>3
<1>5. QED
  BY <1>4 DEF MadeBy

(* What is written in a register is what its definition gives.             *)
Shaped(x, v) ==
    /\ x.k \in {"load", "cast"} /\ x.to.size = 1 => Extended(v, x.to.signed) = v
    /\ x.k = "const" => v = x.imm % WordMod

(* The machine that runs what was rewritten is the machine that runs what  *)
(* was written, constants and copies are what it holds.                    *)
Mirrors(c, f, n, memory) ==
    LET m == Ran(c, memory)[n]
    IN  /\ m = End(f.code, memory)
        /\ \A r \in MadeBy(c, memory, n) :
              /\ r \in DOMAIN f.known => m.regs[r] = f.known[r] % WordMod
              /\ r \in DOMAIN f.alias => /\ f.alias[r] \in MadeBy(c, memory, n)
                                         /\ m.regs[r] = m.regs[f.alias[r]]
              /\ \E q \in 1 .. n : f.code[q].dst = r /\ Shaped(f.code[q], m.regs[r])

LEMMA MirrorsStart ==
    ASSUME NEW c, Given(c), NEW memory \in Memories
    PROVE  Mirrors(c, NothingFolded, 0, memory)
<1>1. c \in Seq(Insts)
  BY DEF Given, Whole
<1>2. MadeBy(c, memory, 0) = {}
  BY <1>1, CodeFields DEF MadeBy, Executed
<1>3. Ran(c, memory)[0] = Called(memory)
  BY <1>1, RanIs
<1>4. NothingFolded.code = <<>> /\ <<>> \in Seq(Insts) /\ Len(<<>>) = 0
  BY NothingIs
<1>5. End(<<>>, memory) = Called(memory)
  BY <1>4, RanIs DEF End
<1>6. QED
  BY <1>2, <1>3, <1>4, <1>5 DEF Mirrors

(* What folding knows when it comes to the instruction after the first n.  *)
Halfway(c, f, n, memory) ==
    /\ Given(c) /\ n \in Nat /\ n + 1 \in DOMAIN c /\ memory \in Memories
    /\ FoldOK(c, f, n) /\ CopiesOK(c, f, n) /\ Mirrors(c, f, n, memory)

LEMMA HalfwayIs ==
    ASSUME NEW c, NEW f, NEW n, NEW memory, Halfway(c, f, n, memory)
    PROVE  /\ c \in Seq(Insts) /\ c[n + 1] \in Insts /\ n \in Nat /\ n + 1 \in DOMAIN c
           /\ f \in FoldStates /\ f.code \in Seq(Insts) /\ Len(f.code) = n
           /\ Ran(c, memory)[n] \in Machines /\ Ran(c, memory)[n + 1] \in Machines
           /\ Ran(c, memory)[n + 1] = Run1(Ran(c, memory)[n], c[n + 1])
           /\ Through(f.alias, c[n + 1]) \in Insts /\ Alternate(c[n + 1], Through(f.alias, c[n + 1]))
<1>1. c \in Seq(Insts) /\ n \in Nat /\ n + 1 \in DOMAIN c /\ memory \in Memories
  BY DEF Halfway, Given, Whole
<1>2. f \in FoldStates /\ f.code \in Seq(Insts) /\ Len(f.code) = n
  BY DEF Halfway, FoldOK, FoldStates
<1>3. Through(f.alias, c[n + 1]) \in Insts /\ Alternate(c[n + 1], Through(f.alias, c[n + 1]))
  BY ThroughAt DEF Halfway
<1>4. QED
  BY <1>1, <1>2, <1>3, RanIs

(* The operands of an instruction that runs have been written, and its     *)
(* operands through the copies hold the same.                              *)
LEMMA OperandsHeld ==
    ASSUME NEW c, NEW f, NEW n, NEW memory, Halfway(c, f, n, memory), NEW i, i = Through(f.alias, c[n + 1]),
           NEW m, m = Ran(c, memory)[n], Active(m)
    PROVE  /\ \A r \in {i.a, i.b} : r # NoReg => r \in MadeBy(c, memory, n)
           /\ m.regs[c[n + 1].a] = m.regs[i.a] /\ m.regs[c[n + 1].b] = m.regs[i.b]
           /\ i.a = NoReg <=> c[n + 1].a = NoReg
<1>1. /\ i.a = IF c[n + 1].a \in DOMAIN f.alias THEN f.alias[c[n + 1].a] ELSE c[n + 1].a
      /\ i.b = IF c[n + 1].b \in DOMAIN f.alias THEN f.alias[c[n + 1].b] ELSE c[n + 1].b
      /\ 0 \notin DOMAIN f.alias
  BY ThroughAt DEF Halfway
<1>2. n + 1 \in Executed(c, memory) /\ n \in Nat /\ c \in Seq(Insts)
  <2>1. n \in Nat /\ n + 1 \in DOMAIN c /\ (n + 1) - 1 = n /\ c \in Seq(Insts)
    BY HalfwayIs
  <2>2. QED
    BY <2>1 DEF Executed
<1>3. ASSUME NEW r \in Operands(c[n + 1]) PROVE r \in MadeBy(c, memory, n)
  <2>1. PICK d \in Executed(c, memory) : d < n + 1 /\ c[d].dst = r
    BY <1>2, <1>3 DEF Halfway, Given, Dominated
  <2>2. d \in Nat
    BY <1>2, CodeFields DEF Executed
  <2>3. d <= n /\ r # NoReg
    BY <1>2, <1>3, <2>1, <2>2 DEF Operands
  <2>4. QED
    BY <2>1, <2>3 DEF MadeBy
<1>4. \A r \in MadeBy(c, memory, n) : r \in DOMAIN f.alias =>
          f.alias[r] \in MadeBy(c, memory, n) /\ m.regs[r] = m.regs[f.alias[r]]
  BY DEF Halfway, Mirrors
<1>5. \A r \in DOMAIN f.alias : f.alias[r] # NoReg
  BY DEF Halfway, CopiesOK
<1>6. QED
  BY <1>1, <1>3, <1>4, <1>5, SMTT(30) DEF Operands, NoReg

(* A cast that copies leaves the word that it reads.                       *)
LEMMA CopyHeld ==
    ASSUME NEW c, NEW f, NEW n, NEW memory, Halfway(c, f, n, memory), NEW i, i = Through(f.alias, c[n + 1]),
           NEW m, m = Ran(c, memory)[n], Active(m), i.k = "cast", cast_is_pure_copy(i), Excuses(f, i) = {}
    PROVE  RunCast(m.regs[i.a], i.from, i.to) = m.regs[i.a]
<1>1. /\ m \in Machines /\ i \in Insts /\ c \in Seq(Insts) /\ n \in Nat /\ i.a \in 0 .. MaxRegs
      /\ n + 1 \in DOMAIN c /\ Alternate(c[n + 1], i) /\ f.code \in Seq(Insts) /\ Len(f.code) = n
  BY HalfwayIs, InstFields
<1>2. PICK A \in Words : A = m.regs[i.a]
  BY <1>1, MachineIs
<1>3. ASSUME i.from.size = 1, i.to = i.from PROVE Extended(A, i.to.signed) = A
  <2>1. i.a # NoReg
    <3>1. c[n + 1].k = "cast"
      BY <1>1 DEF Alternate
    <3>2. c[n + 1].a # NoReg
      BY <1>1, <3>1 DEF Halfway, Given, Typed
    <3>3. QED
      BY <3>2, OperandsHeld
  <2>2. i.a \in MadeBy(c, memory, n)
    BY <2>1, OperandsHeld
  <2>3. PICK q \in 1 .. n : f.code[q].dst = i.a /\ Shaped(f.code[q], A)
    BY <1>2, <2>2 DEF Halfway, Mirrors
  <2>4. PICK x \in Insts : x = f.code[q] /\ q \in DOMAIN f.code /\ q \in DOMAIN c
    BY <1>1
  <2>5. /\ x.k \in {"load", "cast", "const"}
        /\ x.k = "const" => x.imm % WordMod = Extended(x.imm, i.to.signed)
    BY <1>3, <2>3, <2>4, NoExcuse
  <2>6. x.imm \in Int /\ i.to.signed \in BOOLEAN
    BY <1>1, InstFields, TypesAre
  <2>7. CASE x.k = "const"
    <3>1. A = x.imm % WordMod
      BY <2>3, <2>4, <2>7 DEF Shaped
    <3>2. A = Extended(x.imm, i.to.signed)
      BY <2>5, <2>7, <3>1
    <3>3. Extended(Extended(x.imm, i.to.signed), i.to.signed) = Extended(x.imm, i.to.signed)
      BY <2>6, ExtendedIs, Zenon
    <3>4. QED
      BY <3>2, <3>3, Zenon
  <2>8. CASE x.k \in {"load", "cast"}
    <3>1. TypedAs(c, i.a, i.from)
      BY <1>3, TypedRoot DEF Halfway
    <3>2. c[q].k = x.k /\ c[q].to = x.to
      BY <2>4, <2>8 DEF Halfway, CopiesOK, Echoes
    <3>3. c[q].dst = i.a
      BY <2>3, <2>4 DEF Halfway, FoldOK, Replaces
    <3>4. x.to = i.from
      BY <2>4, <2>8, <3>1, <3>2, <3>3 DEF TypedAs
    <3>5. QED
      BY <1>3, <2>3, <2>4, <2>8, <3>4 DEF Shaped
  <2>9. QED
    BY <2>5, <2>7, <2>8
<1>4. RunCast(A, i.from, i.to) = A
  BY <1>1, <1>3, CopyRuns
<1>5. QED
  BY <1>2, <1>4

(* What an instruction is found to give is what it leaves.                 *)
LEMMA GivesHeld ==
    ASSUME NEW c, NEW f, NEW n, NEW memory, Halfway(c, f, n, memory), NEW i, i = Through(f.alias, c[n + 1]),
           NEW m, m = Ran(c, memory)[n], Active(m), Excuses(f, i) = {}, NEW v \in Int, Gives(f, i, v)
    PROVE  Written(m, i) = v % WordMod
<1>1. m \in Machines /\ i \in Insts /\ f \in FoldStates
  BY HalfwayIs
<1>2. ASSUME NEW r \in {i.a, i.b}, r \in DOMAIN f.known PROVE m.regs[r] = f.known[r] % WordMod
  <2>1. r # NoReg
    BY <1>2, ThroughAt DEF Halfway, NoReg
  <2>2. r \in MadeBy(c, memory, n)
    BY <1>2, <2>1, OperandsHeld
  <2>3. QED
    BY <1>2, <2>2 DEF Halfway, Mirrors
<1>3. i.k = "cast" /\ cast_is_pure_copy(i) => RunCast(m.regs[i.a], i.from, i.to) = m.regs[i.a]
  BY CopyHeld
<1>4. QED
  BY <1>1, <1>2, <1>3, GivesWritten

(* An instruction runs as what it is rewritten to.                         *)
LEMMA RunHeld ==
    ASSUME NEW c, NEW f, NEW n, NEW memory, Halfway(c, f, n, memory), NEW i, i = Through(f.alias, c[n + 1]),
           NEW m, m = Ran(c, memory)[n], Excuses(f, i) = {}, NEW x \in Insts, Rewritten(f, i, x)
    PROVE  /\ Run1(m, c[n + 1]) = Run1(m, i)
           /\ Run1(m, c[n + 1]) = Run1(m, x)
<1>1. m \in Machines /\ i \in Insts /\ c[n + 1] \in Insts /\ Alternate(c[n + 1], i)
  BY HalfwayIs
<1>2. Run1(m, c[n + 1]) = Run1(m, i)
  <2>1. Active(m) => /\ m.regs[c[n + 1].a] = m.regs[i.a] /\ m.regs[c[n + 1].b] = m.regs[i.b]
                     /\ (c[n + 1].a = NoReg <=> i.a = NoReg)
    BY OperandsHeld
  <2>2. QED
    BY <1>1, <2>1, SameRun
<1>3. CASE x = i
  BY <1>2, <1>3
<1>4. CASE i.k \in {"binop", "unop", "cast"} /\ \E v \in Int : Gives(f, i, v) /\ x = Folded(i, v)
  <2>1. PICK v \in Int : Gives(f, i, v) /\ x = Folded(i, v)
    BY <1>4
  <2>2. Active(m) => Written(m, i) = v % WordMod
    BY <2>1, GivesHeld
  <2>3. Run1(m, Folded(i, v)) = Run1(m, i)
    BY <1>1, <1>4, <2>2, ConstRun
  <2>4. QED
    BY <1>2, <2>1, <2>3
<1>5. QED
  BY <1>2, <1>3, <1>4 DEF Rewritten

(* What an instruction leaves has the shape of its definition.             *)
LEMMA ShapeHeld ==
    ASSUME NEW m \in Machines, NEW i \in Insts, i.k \in Defining, NEW x, x = i
    PROVE  Shaped(x, Written(m, i))
<1>1. /\ i.to \in Types /\ i.to.signed \in BOOLEAN /\ Formed(i) /\ i.a \in 0 .. MaxRegs
      /\ m.regs[i.a] \in Words /\ m.regs[i.a] \in Int
  BY InstFields, TypesAre, MachineIs, WordIs
<1>2. CASE i.k = "load" /\ i.to.size = 1
  <2>1. m.mem[i.op] \in Int
    BY <1>1, <1>2, MachineIs, WordIs DEF Formed
  <2>2. Extended(Extended(m.mem[i.op], i.to.signed), i.to.signed) = Extended(m.mem[i.op], i.to.signed)
    BY <1>1, <2>1, ExtendedIs, Zenon
  <2>3. Written(m, i) = Extended(m.mem[i.op], i.to.signed)
    BY <1>2 DEF Written
  <2>4. Extended(Written(m, i), i.to.signed) = Written(m, i)
    BY <2>2, <2>3, Zenon
  <2>5. QED
    BY <1>2, <2>4 DEF Shaped
<1>3. CASE i.k = "cast" /\ i.to.size = 1
  <2>1. Extended(Extended(m.regs[i.a], i.to.signed), i.to.signed) = Extended(m.regs[i.a], i.to.signed)
    BY <1>1, ExtendedIs, Zenon
  <2>2. Written(m, i) = Extended(m.regs[i.a], i.to.signed)
    BY <1>3 DEF Written, RunCast
  <2>3. Extended(Written(m, i), i.to.signed) = Written(m, i)
    BY <2>1, <2>2, Zenon
  <2>4. QED
    BY <1>3, <2>3 DEF Shaped
<1>4. CASE i.k = "const"
  BY <1>4 DEF Shaped, Written
<1>5. CASE i.k \notin {"load", "cast", "const"} \/ (i.k \in {"load", "cast"} /\ i.to.size # 1)
  BY <1>5 DEF Shaped
<1>6. QED
  BY <1>2, <1>3, <1>4, <1>5

(* What was written before is what it was, and is known as it was.         *)
LEMMA OldHeld ==
    ASSUME NEW c, NEW f, NEW n, NEW memory, Halfway(c, f, n, memory), NEW i, i = Through(f.alias, c[n + 1]),
           NEW g, g = FoldInst(f, c[n + 1], MultiDef(c)), NEW r \in MadeBy(c, memory, n)
    PROVE  /\ i.dst \notin MultiDef(c) => r # i.dst
           /\ r \in DOMAIN g.known => r \in DOMAIN f.known /\ g.known[r] = f.known[r]
           /\ r \in DOMAIN g.alias => /\ r \in DOMAIN f.alias /\ g.alias[r] = f.alias[r]
                                      /\ f.alias[r] # i.dst
           /\ r \in 1 .. MaxRegs
<1>1. /\ c \in Seq(Insts) /\ n \in Nat /\ n + 1 \in DOMAIN c /\ i \in Insts /\ c[n + 1].dst = i.dst
      /\ Folds(f, g, i, MultiDef(c))
  <2>1. Folds(f, g, i, MultiDef(c))
    BY ThroughAt DEF Halfway
  <2>2. QED
    BY <2>1, HalfwayIs DEF Alternate
<1>2. PICK d \in DOMAIN c : d <= n /\ c[d].dst = r /\ r # NoReg
  BY DEF MadeBy, Executed
<1>3. i.dst \notin MultiDef(c) => r # i.dst
  <2>1. d \in Nat /\ d # n + 1
    BY <1>1, <1>2, CodeFields
  <2>2. QED
    BY <1>1, <1>2, <2>1, WrittenTwice
<1>4. r \in 1 .. MaxRegs
  BY <1>1, <1>2, CodeFields, InstFields DEF NoReg
<1>5. ASSUME r \in DOMAIN g.known PROVE r \in DOMAIN f.known /\ g.known[r] = f.known[r]
  <2>1. CASE g.known = f.known
    BY <1>5, <2>1
  <2>2. CASE i.dst \notin MultiDef(c) /\ \E v \in Int : Gives(f, i, v) /\ g.known = Updated(f.known, i.dst, v)
    <3>1. PICK v \in Int : g.known = Updated(f.known, i.dst, v)
      BY <2>2
    <3>2. /\ DOMAIN Updated(f.known, i.dst, v) = DOMAIN f.known \cup {i.dst}
          /\ \A s \in DOMAIN f.known : s # i.dst => Updated(f.known, i.dst, v)[s] = f.known[s]
      BY DEF Updated
    <3>3. QED
      BY <1>3, <1>5, <2>2, <3>1, <3>2
  <2>3. QED
    BY <1>1, <2>1, <2>2 DEF Folds
<1>6. ASSUME r \in DOMAIN g.alias PROVE r \in DOMAIN f.alias /\ g.alias[r] = f.alias[r]
  <2>1. CASE g.alias = f.alias
    BY <1>6, <2>1
  <2>2. CASE i.dst \notin MultiDef(c) /\ g.alias = Updated(f.alias, i.dst, i.a)
    <3>1. /\ DOMAIN Updated(f.alias, i.dst, i.a) = DOMAIN f.alias \cup {i.dst}
          /\ \A s \in DOMAIN f.alias : s # i.dst => Updated(f.alias, i.dst, i.a)[s] = f.alias[s]
      BY DEF Updated
    <3>2. QED
      BY <1>3, <1>6, <2>2, <3>1
  <2>3. QED
    BY <1>1, <2>1, <2>2 DEF Folds
<1>7. ASSUME r \in DOMAIN f.alias PROVE f.alias[r] # i.dst
  <2>1. PICK q \in 1 .. n : Before(c, f.alias[r], q)
    BY <1>7 DEF Halfway, FoldOK
  <2>2. f.alias[r] # NoReg
    BY <1>7 DEF Halfway, CopiesOK
  <2>3. ~(n + 1 < q)
    BY <1>1
  <2>4. QED
    BY <1>1, <2>1, <2>2, <2>3 DEF Before
<1>8. QED
  BY <1>3, <1>4, <1>5, <1>6, <1>7

(* What is written now is what is known of it.                             *)
LEMMA NewHeld ==
    ASSUME NEW c, NEW f, NEW n, NEW memory, Halfway(c, f, n, memory), NEW i, i = Through(f.alias, c[n + 1]),
           NEW g, g = FoldInst(f, c[n + 1], MultiDef(c)), Excuses(f, i) = {},
           NEW m, m = Ran(c, memory)[n], Active(m), i.dst # NoReg
    PROVE  /\ i.dst \in DOMAIN g.known => Written(m, i) = g.known[i.dst] % WordMod
           /\ i.dst \in DOMAIN g.alias => /\ g.alias[i.dst] \in MadeBy(c, memory, n) /\ g.alias[i.dst] # i.dst
                                          /\ Written(m, i) = m.regs[g.alias[i.dst]]
           /\ \E x \in Insts : g.code = Append(f.code, x) /\ x.dst = i.dst /\ Shaped(x, Written(m, i))
<1>1. /\ c \in Seq(Insts) /\ n \in Nat /\ n + 1 \in DOMAIN c /\ i \in Insts /\ c[n + 1].dst = i.dst
      /\ Folds(f, g, i, MultiDef(c)) /\ m \in Machines /\ i.k \in Defining
  <2>1. Folds(f, g, i, MultiDef(c))
    BY ThroughAt DEF Halfway
  <2>2. i \in Insts /\ i.k \in Defining
    BY HalfwayIs, InstFields DEF Formed
  <2>3. QED
    BY <2>1, <2>2, HalfwayIs DEF Alternate
<1>2. ASSUME i.dst \notin MultiDef(c), NEW d \in 1 .. n, c[d].dst = i.dst PROVE FALSE
  <2>1. d \in DOMAIN c /\ d # n + 1
    BY <1>1
  <2>2. QED
    BY <1>1, <1>2, <2>1, WrittenTwice
<1>3. i.dst \notin DOMAIN f.known /\ i.dst \notin DOMAIN f.alias
  BY <1>2 DEF Halfway, CopiesOK
<1>4. ASSUME i.dst \in DOMAIN g.known PROVE Written(m, i) = g.known[i.dst] % WordMod
  <2>1. PICK v \in Int : Gives(f, i, v) /\ g.known = Updated(f.known, i.dst, v)
    BY <1>1, <1>3, <1>4 DEF Folds
  <2>2. Updated(f.known, i.dst, v)[i.dst] = v
    BY DEF Updated
  <2>3. QED
    BY <2>1, <2>2, GivesHeld
<1>5. ASSUME i.dst \in DOMAIN g.alias
      PROVE  /\ g.alias[i.dst] \in MadeBy(c, memory, n) /\ g.alias[i.dst] # i.dst
             /\ Written(m, i) = m.regs[g.alias[i.dst]]
  <2>1. i.dst \notin MultiDef(c) /\ IsCopy(i) /\ g.alias = Updated(f.alias, i.dst, i.a)
    BY <1>1, <1>3, <1>5 DEF Folds
  <2>2. Updated(f.alias, i.dst, i.a)[i.dst] = i.a
    BY DEF Updated
  <2>3. i.k = "cast" /\ cast_is_pure_copy(i) /\ i.a # NoReg /\ i.a # i.dst
    BY <2>1, CopyAt DEF Halfway
  <2>4. i.a \in MadeBy(c, memory, n)
    BY <2>3, OperandsHeld
  <2>5. Written(m, i) = RunCast(m.regs[i.a], i.from, i.to)
    BY <2>3 DEF Written
  <2>6. RunCast(m.regs[i.a], i.from, i.to) = m.regs[i.a]
    BY <2>3, CopyHeld
  <2>7. QED
    BY <2>1, <2>2, <2>3, <2>4, <2>5, <2>6
<1>6. PICK x \in Insts : Rewritten(f, i, x) /\ g.code = Append(f.code, x)
  BY <1>1 DEF Folds
<1>7. x.dst = i.dst /\ Shaped(x, Written(m, i))
  <2>1. CASE x = i
    BY <1>1, <2>1, ShapeHeld
  <2>2. CASE i.k \in {"binop", "unop", "cast"} /\ \E v \in Int : Gives(f, i, v) /\ x = Folded(i, v)
    <3>1. PICK v \in Int : Gives(f, i, v) /\ x = Folded(i, v)
      BY <2>2
    <3>2. i.dst \in Regs
      BY <1>1, InstFields DEF Regs, NoReg
    <3>3. x.k = "const" /\ x.dst = i.dst /\ x.imm = v
      BY <1>1, <3>1, <3>2, FoldedIs
    <3>4. Written(m, i) = v % WordMod
      BY <3>1, GivesHeld
    <3>5. QED
      BY <3>3, <3>4 DEF Shaped
  <2>3. QED
    BY <1>6, <2>1, <2>2 DEF Rewritten
<1>8. QED
  BY <1>4, <1>5, <1>6, <1>7

LEMMA MirrorsStep ==
    ASSUME NEW c, NEW f, NEW n, NEW memory, Halfway(c, f, n, memory),
           Excuses(f, Through(f.alias, c[n + 1])) = {}
    PROVE  Mirrors(c, FoldInst(f, c[n + 1], MultiDef(c)), n + 1, memory)
<1>1. PICK i : i = Through(f.alias, c[n + 1])
  OBVIOUS
<1>2. PICK g : g = FoldInst(f, c[n + 1], MultiDef(c))
  OBVIOUS
<1>3. PICK m, w : m = Ran(c, memory)[n] /\ w = Ran(c, memory)[n + 1]
  OBVIOUS
<1>4. /\ c \in Seq(Insts) /\ n \in Nat /\ n + 1 \in DOMAIN c /\ i \in Insts /\ c[n + 1].dst = i.dst
      /\ Folds(f, g, i, MultiDef(c)) /\ m \in Machines /\ f.code \in Seq(Insts) /\ Len(f.code) = n
      /\ w = Run1(m, c[n + 1]) /\ memory \in Memories
  <2>1. Folds(f, g, i, MultiDef(c))
    BY <1>1, <1>2, ThroughAt DEF Halfway
  <2>2. QED
    BY <1>1, <1>3, <2>1, HalfwayIs DEF Alternate, Halfway
<1>5. PICK x \in Insts : Rewritten(f, i, x) /\ g.code = Append(f.code, x)
  BY <1>4 DEF Folds
<1>6. w = Run1(m, i) /\ w = Run1(m, x)
  BY <1>1, <1>3, <1>4, <1>5, RunHeld
<1>7. w = End(g.code, memory)
  <2>1. End(Append(f.code, x), memory) = Run1(End(f.code, memory), x)
    BY <1>4, EndGrows
  <2>2. m = End(f.code, memory)
    BY <1>3 DEF Halfway, Mirrors
  <2>3. QED
    BY <1>5, <1>6, <2>1, <2>2
<1>8. g.code[n + 1] = x /\ \A q \in 1 .. n : g.code[q] = f.code[q]
  BY <1>4, <1>5, Appended
<1>9. PICK M, N : M = MadeBy(c, memory, n) /\ N = MadeBy(c, memory, n + 1)
  OBVIOUS
<1>10. N = IF Active(m) THEN M \cup ({i.dst} \ {NoReg}) ELSE M
  BY <1>3, <1>4, <1>9, MadeGrows
<1>11. ~Active(m) => w.regs = m.regs
  BY <1>4, <1>6, IdleRuns
<1>12. Active(m) /\ i.dst # NoReg =>
           w.regs[i.dst] = Written(m, i) /\ \A r \in 0 .. MaxRegs : r # i.dst => w.regs[r] = m.regs[r]
  <2>1. i.dst # NoReg => i.k \in Defining
    BY <1>4, InstFields DEF Formed
  <2>2. ASSUME Active(m), i.dst # NoReg PROVE Assigned(w, m, i)
    <3>1. Assigned(Run1(m, i), m, i)
      BY <1>4, <2>1, <2>2, DefiningRuns, Zenon
    <3>2. QED
      BY <1>6, <3>1, Zenon
  <2>3. QED
    BY <2>2 DEF Assigned
<1>13. Active(m) /\ i.dst = NoReg => w.regs = m.regs
  <2>1. i.dst = NoReg => i.k \notin Defining
    BY <1>4, InstFields DEF Formed
  <2>2. ASSUME Active(m), i.dst = NoReg PROVE w.regs = m.regs
    <3>1. Run1(m, i).regs = m.regs
      BY <1>4, <2>1, <2>2, ControlRuns, Zenon
    <3>2. QED
      BY <1>6, <3>1
  <2>3. QED
    BY <2>2
<1>14. ASSUME NEW r \in M, ~(Active(m) /\ r = i.dst)
       PROVE  /\ r \in DOMAIN g.known => w.regs[r] = g.known[r] % WordMod
              /\ r \in DOMAIN g.alias => g.alias[r] \in N /\ w.regs[r] = w.regs[g.alias[r]]
              /\ \E q \in 1 .. n + 1 : g.code[q].dst = r /\ Shaped(g.code[q], w.regs[r])
  <2>1. ASSUME NEW s \in M, s # i.dst \/ ~Active(m) PROVE w.regs[s] = m.regs[s]
    <3>1. s \in 1 .. MaxRegs
      BY <1>1, <1>2, <1>9, OldHeld
    <3>2. QED
      BY <1>11, <1>12, <1>13, <2>1, <3>1
  <2>2. w.regs[r] = m.regs[r]
    BY <1>14, <2>1
  <2>3. /\ r \in DOMAIN f.known => m.regs[r] = f.known[r] % WordMod
        /\ r \in DOMAIN f.alias => f.alias[r] \in M /\ m.regs[r] = m.regs[f.alias[r]]
        /\ \E q \in 1 .. n : f.code[q].dst = r /\ Shaped(f.code[q], m.regs[r])
    BY <1>3, <1>9, <1>14 DEF Halfway, Mirrors
  <2>4. /\ r \in DOMAIN g.known => r \in DOMAIN f.known /\ g.known[r] = f.known[r]
        /\ r \in DOMAIN g.alias => r \in DOMAIN f.alias /\ g.alias[r] = f.alias[r] /\ f.alias[r] # i.dst
    BY <1>1, <1>2, <1>9, <1>14, OldHeld
  <2>5. r \in DOMAIN g.alias => g.alias[r] \in N /\ w.regs[r] = w.regs[g.alias[r]]
    BY <1>10, <2>1, <2>2, <2>3, <2>4
  <2>6. \E q \in 1 .. n + 1 : g.code[q].dst = r /\ Shaped(g.code[q], w.regs[r])
    BY <1>4, <1>8, <2>2, <2>3
  <2>7. QED
    BY <2>2, <2>3, <2>4, <2>5, <2>6
<1>15. ASSUME Active(m), i.dst # NoReg
       PROVE  /\ i.dst \in DOMAIN g.known => w.regs[i.dst] = g.known[i.dst] % WordMod
              /\ i.dst \in DOMAIN g.alias => g.alias[i.dst] \in N /\ w.regs[i.dst] = w.regs[g.alias[i.dst]]
              /\ \E q \in 1 .. n + 1 : g.code[q].dst = i.dst /\ Shaped(g.code[q], w.regs[i.dst])
  <2>1. /\ i.dst \in DOMAIN g.known => Written(m, i) = g.known[i.dst] % WordMod
        /\ i.dst \in DOMAIN g.alias => /\ g.alias[i.dst] \in M /\ g.alias[i.dst] # i.dst
                                       /\ Written(m, i) = m.regs[g.alias[i.dst]]
        /\ \E y \in Insts : g.code = Append(f.code, y) /\ y.dst = i.dst /\ Shaped(y, Written(m, i))
    BY <1>1, <1>2, <1>3, <1>9, <1>15, NewHeld, SMTT(30)
  <2>2. ASSUME i.dst \in DOMAIN g.alias PROVE g.alias[i.dst] \in N /\ w.regs[i.dst] = w.regs[g.alias[i.dst]]
    <3>1. g.alias[i.dst] \in 0 .. MaxRegs
      <4>1. g.alias[i.dst] \in 1 .. MaxRegs
        BY <1>1, <1>2, <1>9, <2>1, <2>2, OldHeld
      <4>2. QED
        BY <4>1
    <3>2. QED
      BY <1>10, <1>12, <1>15, <2>1, <2>2, <3>1
  <2>3. \E q \in 1 .. n + 1 : g.code[q].dst = i.dst /\ Shaped(g.code[q], w.regs[i.dst])
    <3>1. PICK y \in Insts : g.code = Append(f.code, y) /\ y.dst = i.dst /\ Shaped(y, Written(m, i))
      BY <2>1
    <3>2. g.code[n + 1] = y /\ n + 1 \in 1 .. n + 1
      BY <1>4, <3>1, Appended
    <3>3. QED
      BY <1>12, <1>15, <3>1, <3>2
  <2>4. QED
    BY <1>12, <1>15, <2>1, <2>2, <2>3
<1>16. \A r \in N : /\ r \in DOMAIN g.known => w.regs[r] = g.known[r] % WordMod
                    /\ r \in DOMAIN g.alias => g.alias[r] \in N /\ w.regs[r] = w.regs[g.alias[r]]
                    /\ \E q \in 1 .. n + 1 : g.code[q].dst = r /\ Shaped(g.code[q], w.regs[r])
  <2>1. TAKE r \in N
  <2>2. CASE Active(m) /\ r = i.dst
    <3>1. i.dst # NoReg
      BY <1>9, <2>2 DEF MadeBy
    <3>2. QED
      BY <1>15, <2>2, <3>1
  <2>3. CASE ~(Active(m) /\ r = i.dst)
    <3>1. r \in M
      BY <1>10, <2>3
    <3>2. QED
      BY <1>14, <2>3, <3>1
  <2>4. QED
    BY <2>2, <2>3
<1>17. QED
  BY <1>2, <1>3, <1>7, <1>9, <1>16 DEF Mirrors

(* The last look through the copies changes nothing: every operand is a    *)
(* root by then.                                                           *)
LEMMA FoldedSame ==
    ASSUME NEW c, NEW f, NEW len \in Nat, FoldOK(c, f, len)
    PROVE  [n \in DOMAIN f.code |-> Through(f.alias, f.code[n])] = f.code
<1>1. f.code \in Seq(Insts) /\ DOMAIN f.code = 1 .. len /\ f.alias \in Copies
  BY DEF FoldOK, FoldStates
<1>2. ASSUME NEW n \in DOMAIN f.code PROVE Through(f.alias, f.code[n]) = f.code[n]
  <2>1. PICK i \in Insts : i = f.code[n] /\ i.a \in 0 .. MaxRegs /\ i.b \in 0 .. MaxRegs /\ i \in AnyInst
    BY <1>1, InstFields DEF Insts
  <2>2. 0 \notin DOMAIN f.alias
    BY <1>1, CopiesAre DEF Regs
  <2>3. i.a \notin DOMAIN f.alias /\ i.b \notin DOMAIN f.alias
    BY <1>1, <2>1, <2>2 DEF FoldOK, Operands, NoReg
  <2>4. Follow(f.alias, i.a) = i.a /\ Follow(f.alias, i.b) = i.b
    BY <2>1, <2>3, RootIs
  <2>5. Through(f.alias, i) = [i EXCEPT !.a = i.a, !.b = i.b]
    BY <2>4 DEF Through
  <2>6. [i EXCEPT !.a = i.a, !.b = i.b] = i
    BY <2>1 DEF AnyInst
  <2>7. QED
    BY <2>1, <2>5, <2>6
<1>3. QED
  BY <1>1, <1>2

LEMMA CopiesKept ==
    ASSUME NEW c, Given(c), NEW len \in Nat, len = Len(c)
    PROVE  \A n \in 0 .. len : CopiesOK(c, Folding(c)[n], n)
<1> DEFINE G == { n \in Nat : n <= len => CopiesOK(c, Folding(c)[n], n) }
<1>1. /\ Folding(c)[0] = NothingFolded
      /\ \A n \in 1 .. len : Folding(c)[n] = FoldInst(Folding(c)[n - 1], c[n], MultiDef(c))
  BY FoldingStep
<1>2. 0 \in G
  BY <1>1, CopiesStart
<1>3. ASSUME NEW n \in Nat, n \in G PROVE n + 1 \in G
  <2>1. SUFFICES ASSUME n + 1 <= len PROVE CopiesOK(c, Folding(c)[n + 1], n + 1)
    OBVIOUS
  <2>2. CopiesOK(c, Folding(c)[n], n) /\ n \in 0 .. len /\ n + 1 \in 1 .. len /\ (n + 1) - 1 = n
    BY <1>3, <2>1
  <2>3. n + 1 \in DOMAIN c /\ Whole(c)
    BY <2>2 DEF Given, Whole
  <2>4. FoldOK(c, Folding(c)[n], n)
    BY <2>2, <2>3, FoldingOK
  <2>5. CopiesOK(c, FoldInst(Folding(c)[n], c[n + 1], MultiDef(c)), n + 1)
    BY <2>2, <2>3, <2>4, CopiesStep
  <2>6. QED
    BY <1>1, <2>2, <2>5
<1>4. \A n \in Nat : n \in G
  <2> HIDE DEF G
  <2> QED BY <1>2, <1>3, Induction
<1>5. QED
  BY <1>4

(* An excuse stays: where there is none at the end there never was one.    *)
LEMMA NeverExcused ==
    ASSUME NEW c, Given(c), NEW len \in Nat, len = Len(c), Folding(c)[len].excused = {}
    PROVE  \A n \in Nat : n + 1 \in 1 .. len =>
               Excuses(Folding(c)[n], Through(Folding(c)[n].alias, c[n + 1])) = {}
<1>1. ASSUME NEW n \in Nat, n + 1 \in 1 .. len
      PROVE  Folding(c)[n + 1].excused
               = Folding(c)[n].excused \cup Excuses(Folding(c)[n], Through(Folding(c)[n].alias, c[n + 1]))
  <2>1. /\ n + 1 \in DOMAIN c /\ Whole(c) /\ n \in 0 .. len /\ (n + 1) - 1 = n
    BY <1>1 DEF Given, Whole
  <2>2. FoldOK(c, Folding(c)[n], n) /\ CopiesOK(c, Folding(c)[n], n)
    BY <2>1, FoldingOK, CopiesKept
  <2>3. Folding(c)[n + 1] = FoldInst(Folding(c)[n], c[n + 1], MultiDef(c))
    BY <1>1, <2>1, FoldingStep
  <2>4. Folds(Folding(c)[n], FoldInst(Folding(c)[n], c[n + 1], MultiDef(c)),
              Through(Folding(c)[n].alias, c[n + 1]), MultiDef(c))
    BY <2>1, <2>2, ThroughAt
  <2>5. QED
    BY <2>3, <2>4 DEF Folds
<1> DEFINE G == { k \in Nat : k <= len => Folding(c)[len - k].excused = {} }
<1>2. 0 \in G
  BY len - 0 = len
<1>3. ASSUME NEW k \in Nat, k \in G PROVE k + 1 \in G
  <2>1. SUFFICES ASSUME k + 1 <= len PROVE Folding(c)[len - (k + 1)].excused = {}
    OBVIOUS
  <2>2. PICK n \in Nat : n = len - (k + 1) /\ n + 1 = len - k /\ n + 1 \in 1 .. len
    <3>1. len - (k + 1) \in Nat /\ (len - (k + 1)) + 1 = len - k /\ len - k \in 1 .. len
      BY <2>1
    <3>2. QED
      BY <3>1
  <2>3. Folding(c)[n + 1].excused = {}
    BY <1>3, <2>1, <2>2
  <2>4. QED
    BY <1>1, <2>2, <2>3
<1>4. \A k \in Nat : k \in G
  <2> HIDE DEF G
  <2> QED BY <1>2, <1>3, Induction
<1>5. ASSUME NEW n \in Nat, n + 1 \in 1 .. len
      PROVE  Excuses(Folding(c)[n], Through(Folding(c)[n].alias, c[n + 1])) = {}
  <2>1. PICK k \in Nat : k <= len /\ len - k = n + 1
    <3>1. len - (n + 1) \in Nat /\ len - (n + 1) <= len /\ len - (len - (n + 1)) = n + 1
      BY <1>5
    <3>2. QED
      BY <3>1
  <2>2. Folding(c)[n + 1].excused = {}
    BY <1>4, <2>1
  <2>3. QED
    BY <1>1, <1>5, <2>2
<1>6. QED
  BY <1>5

LEMMA MirrorsKept ==
    ASSUME NEW c, Given(c), NEW len \in Nat, len = Len(c), Folding(c)[len].excused = {}, NEW memory \in Memories
    PROVE  Mirrors(c, Folding(c)[len], len, memory)
<1> DEFINE G == { n \in Nat : n <= len => Mirrors(c, Folding(c)[n], n, memory) }
<1>1. /\ Folding(c)[0] = NothingFolded
      /\ \A n \in 1 .. len : Folding(c)[n] = FoldInst(Folding(c)[n - 1], c[n], MultiDef(c))
  BY FoldingStep
<1>2. 0 \in G
  BY <1>1, MirrorsStart
<1>3. ASSUME NEW n \in Nat, n \in G PROVE n + 1 \in G
  <2>1. SUFFICES ASSUME n + 1 <= len PROVE Mirrors(c, Folding(c)[n + 1], n + 1, memory)
    OBVIOUS
  <2>2. Mirrors(c, Folding(c)[n], n, memory) /\ n \in 0 .. len /\ n + 1 \in 1 .. len /\ (n + 1) - 1 = n
    BY <1>3, <2>1
  <2>3. n + 1 \in DOMAIN c /\ Whole(c)
    BY <2>2 DEF Given, Whole
  <2>4. FoldOK(c, Folding(c)[n], n) /\ CopiesOK(c, Folding(c)[n], n)
    BY <2>2, <2>3, FoldingOK, CopiesKept
  <2>5. Halfway(c, Folding(c)[n], n, memory)
    BY <2>2, <2>3, <2>4 DEF Halfway
  <2>6. Excuses(Folding(c)[n], Through(Folding(c)[n].alias, c[n + 1])) = {}
    BY <2>2, NeverExcused
  <2>7. Mirrors(c, FoldInst(Folding(c)[n], c[n + 1], MultiDef(c)), n + 1, memory)
    BY <2>5, <2>6, MirrorsStep
  <2>8. QED
    BY <1>1, <2>2, <2>7
<1>4. \A n \in Nat : n \in G
  <2> HIDE DEF G
  <2> QED BY <1>2, <1>3, Induction
<1>5. QED
  BY <1>4

(* What is folded runs as it did, and its carries stay paired.             *)
LEMMA FoldKeeps ==
    ASSUME NEW c, Given(c), NEW len \in Nat, len = Len(c), NEW f, f = Folding(c)[len],
           NEW e, e = [n \in DOMAIN f.code |-> Through(f.alias, f.code[n])]
    PROVE  /\ Paired(e)
           /\ f.excused = {} => \A memory \in Memories : Observed(e, memory) = Observed(c, memory)
<1>1. Whole(c) /\ c \in Seq(Insts) /\ DOMAIN c = 1 .. len
  BY DEF Given, Whole
<1>2. FoldOK(c, f, len) /\ CopiesOK(c, f, len)
  BY <1>1, FoldingOK, CopiesKept
<1>3. e = f.code /\ e \in Seq(Insts) /\ Len(e) = len /\ DOMAIN e = 1 .. len
  <2>1. e = f.code
    BY <1>2, FoldedSame
  <2>2. QED
    BY <1>2, <2>1 DEF FoldOK, FoldStates
<1>4. ASSUME NEW n \in 1 .. len PROVE Replaces(e[n], c[n]) /\ Echoes(e[n], c[n])
  BY <1>2, <1>3 DEF FoldOK, CopiesOK
<1>5. \A n \in 1 .. len : (e[n].k = "carry" <=> c[n].k = "carry") /\ (e[n].k = "carry" => e[n].imm = c[n].imm)
  <2>1. TAKE n \in 1 .. len
  <2>2. Replaces(e[n], c[n]) /\ Echoes(e[n], c[n])
    BY <1>4
  <2>3. QED
    BY <2>2 DEF Replaces, Echoes
<1>6. Paired(e)
  <2>1. Paired(c)
    BY DEF Given
  <2>2. QED
    BY <1>1, <1>3, <1>5, <2>1 DEF Paired
<1>7. ASSUME f.excused = {}, NEW memory \in Memories PROVE Observed(e, memory) = Observed(c, memory)
  <2>1. Ran(c, memory)[len] = End(f.code, memory)
    BY <1>7, MirrorsKept DEF Mirrors
  <2>2. Ran(e, memory)[Len(e)] = Ran(c, memory)[Len(c)]
    BY <1>3, <2>1 DEF End
  <2>3. QED
    BY <2>2 DEF Observed
<1>8. QED
  BY <1>6, <1>7

(* The code of a function through its phases, and what it means.           *)
MeaningInv ==
    /\ FunctionOK
    /\ phase = "build" => More(code, build)
    /\ phase = "fold" => Given(code) /\ source = code
    /\ phase = "sweep" => Paired(code)
    /\ MeaningKept

LEMMA MoreStarts == Init => MeaningInv
<1> SUFFICES ASSUME Init PROVE MeaningInv
  OBVIOUS
<1>1. FunctionOK /\ BuildOK(code, build)
  BY FunctionStarts DEF FunctionOK, Init
<1>2. /\ code = <<>> /\ phase = "build" /\ build.stack = <<>> /\ build.arm = "none"
      /\ code \in Seq(Insts) /\ Len(code) = 0 /\ DOMAIN code = {} /\ DOMAIN build.stack = {}
  BY DEF Init
<1>3. Marked(code, build)
  BY <1>2 DEF Marked, Typed, Paired
<1>4. ASSUME NEW memory \in Memories PROVE Settled(code, build, memory)
  <2>1. End(code, memory) = Called(memory)
    BY <1>2, RanIs DEF End
  <2>2. Active(End(code, memory))
    BY <2>1, CalledIs
  <2>3. Dominated(code, memory)
    BY <1>2 DEF Dominated, Executed
  <2>4. QED
    BY <1>2, <2>2, <2>3 DEF Settled, Active
<1>5. QED
  BY <1>1, <1>2, <1>3, <1>4 DEF MeaningInv, More, MeaningKept, Optimizing

LEMMA FoldMeans == ASSUME MeaningInv, Fold PROVE phase' = "sweep" /\ Paired(code')
  /\ (excused' = {} => SameMeaning')
<1>1. Given(code) /\ source = code
  BY DEF Fold, MeaningInv
<1>2. PICK len \in Nat : len = Len(code)
  BY <1>1 DEF Given, Whole
<1>3. PICK f : f = Folding(code)[len]
  OBVIOUS
<1>4. PICK e : e = [n \in DOMAIN f.code |-> Through(f.alias, f.code[n])]
  OBVIOUS
<1>5. code' = e /\ excused' = f.excused /\ source' = code /\ phase' = "sweep"
  BY <1>1, <1>2, <1>3, <1>4 DEF Fold
<1>6. /\ Paired(e)
      /\ f.excused = {} => \A memory \in Memories : Observed(e, memory) = Observed(code, memory)
  BY <1>1, <1>2, <1>3, <1>4, FoldKeeps
<1>7. QED
  BY <1>5, <1>6 DEF SameMeaning

LEMMA SweepMeans == ASSUME MeaningInv, Sweep PROVE Paired(code') /\ (excused' = {} => SameMeaning')
<1>1. Whole(code) /\ Paired(code) /\ (excused = {} => SameMeaning)
  BY DEF Sweep, MeaningInv, FunctionOK, MeaningKept, Optimizing
<1>2. PICK s : s = { n \in DOMAIN code : ~(Dead(code, code[n]) /\ (pass = 0 \/ code[n].wide)) }
  OBVIOUS
<1>3. code' = Only(code, s) /\ UNCHANGED <<source, excused>>
  BY <1>2 DEF Sweep
<1>4. \A n \in DOMAIN code : n \notin s => Dead(code, code[n])
  BY <1>2
<1>5. /\ Paired(Only(code, s))
      /\ \A memory \in Memories : Observed(Only(code, s), memory) = Observed(code, memory)
  BY <1>1, <1>4, SweepKeeps
<1>6. QED
  BY <1>1, <1>3, <1>5 DEF SameMeaning

LEMMA StripMeans == ASSUME MeaningInv, Strip PROVE excused' = {} => SameMeaning'
<1>1. Whole(code) /\ (excused = {} => SameMeaning)
  BY DEF Strip, MeaningInv, FunctionOK, MeaningKept, Optimizing
<1>2. code' = Only(code, Reached(code)) /\ UNCHANGED <<source, excused>>
  BY DEF Strip, strip_unreachable
<1>3. \A memory \in Memories : Observed(Only(code, Reached(code)), memory) = Observed(code, memory)
  BY <1>1, StripKeeps
<1>4. QED
  BY <1>1, <1>2, <1>3 DEF SameMeaning

LEMMA MeaningStep == MeaningInv /\ [Next]_vars => MeaningInv'
<1> SUFFICES ASSUME MeaningInv, [Next]_vars PROVE MeaningInv'
  OBVIOUS
<1>1. FunctionOK'
  BY FunctionStep DEF MeaningInv
<1>2. CASE Build
  <2>1. Builds /\ More(code, build)
    <3>1. phase = "build"
      BY <1>2 DEF Build, Building, Literal, Read, CastTo, Unary, Binary, WideSum, Push, Emit, OpenTernary,
                  MiddleOfTernary, CloseTernary, Assign, Return, EndStatement, Close
    <3>2. QED
      BY <3>1 DEF MeaningInv, FunctionOK, Builds
  <2>2. (phase' = "build" /\ More(code', build')) \/ (phase' = "fold" /\ Given(code') /\ source' = code')
    BY <1>2, <2>1, BuildMore
  <2>3. QED
    BY <1>1, <2>2 DEF MeaningInv, MeaningKept, Optimizing
<1>3. CASE Fold
  BY <1>1, <1>3, FoldMeans DEF MeaningInv, MeaningKept
<1>4. CASE Sweep
  <2>1. phase' \in {"sweep", "strip"}
    BY <1>4 DEF Sweep
  <2>2. QED
    BY <1>1, <1>4, <2>1, SweepMeans DEF MeaningInv, MeaningKept
<1>5. CASE Strip
  <2>1. phase' = "done"
    BY <1>5 DEF Strip
  <2>2. QED
    BY <1>1, <1>5, <2>1, StripMeans DEF MeaningInv, MeaningKept
<1>6. CASE UNCHANGED vars
  <2>1. /\ code' = code /\ source' = source /\ build' = build /\ phase' = phase /\ pass' = pass
        /\ excused' = excused
    BY <1>6 DEF vars
  <2>2. QED
    BY <1>1, <2>1 DEF MeaningInv, MeaningKept, SameMeaning, Optimizing
<1>7. QED
  BY <1>2, <1>3, <1>4, <1>5, <1>6 DEF Next

(* What a function returns and leaves in memory is what it did before the  *)
(* optimizer, whenever no fold was one that a program cannot rely on:      *)
(* ir_optimize.                                                            *)
THEOREM MeaningSurvives == Spec => []MeaningKept
<1>1. MeaningInv => MeaningKept
  BY DEF MeaningInv
<1>2. QED
  BY <1>1, MoreStarts, MeaningStep, PTL DEF Spec

=============================================================================
