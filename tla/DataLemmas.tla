----------------------------- MODULE DataLemmas -----------------------------
(***************************************************************************)
(* What the proofs need to know of the data the models are built from:     *)
(* induction over the naturals stated with a set, so that no operator is   *)
(* a parameter; that functions defined by recursion exist; the first       *)
(* suffix that is free; sequences put one after the other.                 *)
(***************************************************************************)
EXTENDS SequencesExt, TLAPS, FiniteSetTheorems, WellFoundedInduction

LEMMA LeastNat ==
  ASSUME NEW T, T \subseteq Nat, T # {}
  PROVE  \E x \in T : \A y \in T : x <= y
<1> DEFINE R == {ss \in Nat \X Nat : ss[1] < ss[2]}
<1>1. IsWellFoundedOn(R, Nat)
  BY NatLessThanWellFounded, Zenon DEF OpToRel
<1>2. \A y, x \in Nat : y < x => <<y, x>> \in R
  OBVIOUS
<1> HIDE DEF R
<1>3. PICK x \in T : \A y \in T : ~(<<y, x>> \in R)
  BY <1>1, WFMin
<1>4. ASSUME NEW y \in T
      PROVE  x <= y
  <2>1. x \in Nat /\ y \in Nat
    OBVIOUS
  <2>2. ~(y < x)
    BY <1>2, <1>3, <2>1
  <2> QED
    BY <2>1, <2>2
<1> QED
  BY <1>4

LEMMA NatInd ==
  ASSUME NEW P, 0 \in P, \A n \in Nat : n \in P => n + 1 \in P
  PROVE  Nat \subseteq P
<1> SUFFICES ASSUME ~(Nat \subseteq P) PROVE FALSE
  OBVIOUS
<1> DEFINE T == Nat \ P
<1>1. T \subseteq Nat /\ T # {}
  OBVIOUS
<1> HIDE DEF T
<1>2. PICK x \in T : \A y \in T : x <= y
  BY <1>1, LeastNat
<1>3. x \in Nat /\ x # 0 /\ x \notin P
  BY <1>2 DEF T
<1>4. x - 1 \in Nat /\ x - 1 \notin T
  BY <1>2, <1>3
<1> QED
  BY <1>3, <1>4 DEF T

\* What begins with base and goes on by step.
Follows(f, base, step) == f[0] = base /\ \A n \in Nat : f[n + 1] = step[n + 1][f[n]]

LEMMA RecursionExists ==
  ASSUME NEW W, NEW b0 \in W, NEW st \in [Nat -> [W -> W]]
  PROVE  \E f \in [Nat -> W] : Follows(f, b0, st)
<1> DEFINE Begun(m, f) == /\ f \in [0..m -> W] /\ f[0] = b0
                          /\ \A n \in Nat : n < m => f[n + 1] = st[n + 1][f[n]]
           P == {m \in Nat : \E f \in [0..m -> W] : Begun(m, f)}
<1>1. 0 \in P
  <2>1. Begun(0, [i \in 0..0 |-> b0])
    OBVIOUS
  <2> QED
    BY <2>1
<1>2. ASSUME NEW n \in Nat, n \in P
      PROVE  n + 1 \in P
  <2>1. PICK f \in [0..n -> W] : Begun(n, f)
    BY <1>2
  <2> DEFINE g == [i \in 0..n + 1 |-> IF i = n + 1 THEN st[n + 1][f[n]] ELSE f[i]]
  <2>2. st[n + 1][f[n]] \in W
    <3>1. f[n] \in W
      OBVIOUS
    <3> QED
      BY <3>1
  <2>3. g \in [0..n + 1 -> W]
    BY <2>2
  <2>4. g[0] = b0
    BY <2>1
  <2>5. ASSUME NEW k \in Nat, k < n + 1
        PROVE  g[k + 1] = st[k + 1][g[k]]
    <3>1. CASE k = n
      BY <3>1
    <3>2. CASE k < n
      BY <2>1, <3>2
    <3> QED
      BY <2>5, <3>1, <3>2
  <2>6. Begun(n + 1, g)
    BY <2>3, <2>4, <2>5
  <2> HIDE DEF g, Begun
  <2> QED
    BY <2>3, <2>6
<1>3. Nat \subseteq P
  <2> HIDE DEF P
  <2> QED
    BY <1>1, <1>2, NatInd
\* Any two of these agree, so that their last values are such a function.
<1>4. ASSUME NEW m \in Nat, NEW f, Begun(m, f), NEW l \in Nat, m <= l, NEW g, Begun(l, g)
      PROVE  f[m] = g[m]
  <2> DEFINE Q == {i \in Nat : i <= m => f[i] = g[i]}
  <2>1. 0 \in Q
    BY <1>4
  <2>2. ASSUME NEW i \in Nat, i \in Q
        PROVE  i + 1 \in Q
    BY <1>4, <2>2
  <2>3. Nat \subseteq Q
    <3> HIDE DEF Q
    <3> QED
      BY <2>1, <2>2, NatInd
  <2> QED
    BY <2>3
<1> DEFINE F(m) == CHOOSE f \in [0..m -> W] : Begun(m, f)
           h == [m \in Nat |-> F(m)[m]]
<1>5. ASSUME NEW m \in Nat
      PROVE  F(m) \in [0..m -> W] /\ Begun(m, F(m))
  <2>1. \E f \in [0..m -> W] : Begun(m, f)
    BY <1>3, <1>5
  <2> HIDE DEF Begun
  <2> QED
    BY <2>1
<1>6. h \in [Nat -> W]
  <2>1. ASSUME NEW m \in Nat
        PROVE  F(m)[m] \in W
    <3>1. F(m) \in [0..m -> W]
      BY <1>5
    <3>2. m \in 0..m
      OBVIOUS
    <3> HIDE DEF F
    <3> QED
      BY <3>1, <3>2
  <2> HIDE DEF F
  <2> QED
    BY <2>1
<1>7. h[0] = b0
  <2>1. Begun(0, F(0))
    <3> HIDE DEF F, Begun
    <3> QED
      BY <1>5
  <2> HIDE DEF F
  <2> QED
    BY <2>1
<1>8. ASSUME NEW n \in Nat
      PROVE  h[n + 1] = st[n + 1][h[n]]
  <2>1. Begun(n, F(n)) /\ Begun(n + 1, F(n + 1))
    <3>1. n + 1 \in Nat
      OBVIOUS
    <3> HIDE DEF F, Begun
    <3> QED
      BY <1>5, <3>1
  <2>2. F(n)[n] = F(n + 1)[n]
    <3> HIDE DEF F, Begun
    <3> QED
      BY <1>4, <2>1
  <2>3. F(n + 1)[n + 1] = st[n + 1][F(n + 1)[n]]
    <3> HIDE DEF F
    <3> QED
      BY <2>1
  <2>4. h[n] = F(n)[n] /\ h[n + 1] = F(n + 1)[n + 1]
    <3> HIDE DEF F
    <3> QED
      OBVIOUS
  <2> HIDE DEF h, F
  <2> QED
    BY <2>2, <2>3, <2>4
<1> HIDE DEF h
<1> QED
  BY <1>6, <1>7, <1>8 DEF Follows

LEMMA ImageFinite ==
  ASSUME NEW S, IsFiniteSet(S), NEW f, DOMAIN f = S
  PROVE  IsFiniteSet({f[x] : x \in S})
<1> DEFINE T == {f[x] : x \in S}
           g == [x \in S |-> f[x]]
<1>1. g \in Surjection(S, T)
  BY DEF Surjection
<1> HIDE DEF T, g
<1>2. IsFiniteSet(T)
  BY <1>1, FS_Surjection
<1> QED
  BY <1>2 DEF T

\* When a name is taken, one of the suffixes from 2 on is the first that makes it
\* one which is not.
LEMMA FirstFreeSuffix ==
  ASSUME NEW name \in Seq(Nat), NEW taken, IsFiniteSet(taken), name \in taken
  PROVE  \E k \in 2..Cardinality(taken) + 1 :
            Append(name, k) \notin taken /\ \A j \in 2..k - 1 : Append(name, j) \in taken
<1> DEFINE c == Cardinality(taken)
           T == {k \in 2..c + 1 : Append(name, k) \notin taken}
<1>1. c \in Nat
  BY FS_CardinalityType
<1> HIDE DEF c
<1>2. T # {}
  <2> SUFFICES ASSUME \A k \in 2..c + 1 : Append(name, k) \in taken PROVE FALSE
    OBVIOUS
  <2> DEFINE f == [k \in 1..c + 1 |-> IF k = 1 THEN name ELSE Append(name, k)]
  <2>1. f \in [1..c + 1 -> taken]
    BY <1>1
  <2>2. IsFiniteSet(1..c + 1) /\ Cardinality(1..c + 1) = c + 1
    BY <1>1, FS_Interval
  <2>3. PICK x, y \in 1..c + 1 : x # y /\ f[x] = f[y]
    <3> HIDE DEF f
    <3>1. Cardinality(taken) < Cardinality(1..c + 1)
      BY <1>1, <2>2 DEF c
    <3> QED
      BY <2>1, <2>2, <3>1, FS_PigeonHole
  <2>4. ASSUME NEW j \in 1..c + 1, NEW k \in 1..c + 1, j < k
        PROVE  f[j] # f[k]
    <3>1. k # 1 /\ j \in Nat /\ k \in Nat
      BY <1>1, <2>4
    <3>2. f[k] = Append(name, k)
      BY <3>1
    <3>3. Len(f[k]) = Len(name) + 1 /\ f[k][Len(name) + 1] = k
      BY <3>1, <3>2
    <3>4. CASE j = 1
      BY <3>3, <3>4
    <3>5. CASE j # 1
      <4>1. f[j][Len(name) + 1] = j
        BY <3>1, <3>5
      <4> QED
        BY <2>4, <3>1, <3>3, <4>1
    <3> QED
      BY <3>4, <3>5
  <2>5. x < y \/ y < x
    BY <1>1, <2>3
  <2> HIDE DEF f
  <2> QED
    BY <2>3, <2>4, <2>5
<1>3. T \subseteq Nat
  BY <1>1
<1> HIDE DEF T
<1>4. PICK k \in T : \A j \in T : k <= j
  BY <1>2, <1>3, LeastNat
<1>5. k \in 2..c + 1 /\ Append(name, k) \notin taken
  BY DEF T
<1>6. ASSUME NEW j \in 2..k - 1
      PROVE  Append(name, j) \in taken
  <2>1. j \in 2..c + 1 /\ ~(k <= j)
    BY <1>1, <1>5, <1>6
  <2>2. j \notin T
    BY <1>4, <2>1
  <2> QED
    BY <2>1, <2>2 DEF T
<1> QED
  BY <1>5, <1>6 DEF c

\* Sequences put one after the other: the recursion is defined, and stays in a
\* set that is closed under it.
Chains(g, s, len) == g = [i \in 1..len |-> IF i = 1 THEN s[i] ELSE g[i - 1] \o s[i]]

LEMMA ChainExists ==
  ASSUME NEW V, \A v, w \in V : v \o w \in V,
         NEW len \in Nat \ {0}, NEW s \in [1..len -> V]
  PROVE  \E g : Chains(g, s, len)
<1> DEFINE step == [i \in Nat |-> [v \in V |-> IF i \in 2..len THEN v \o s[i] ELSE s[1]]]
           base == s[1]
<1>1. base \in V
  OBVIOUS
<1>2. step \in [Nat -> [V -> V]]
  OBVIOUS
<1> HIDE DEF base, step
<1>3. PICK f \in [Nat -> V] : Follows(f, base, step)
  BY <1>1, <1>2, RecursionExists
<1>4. ASSUME NEW i \in 1..len
      PROVE  f[i] = IF i = 1 THEN s[i] ELSE f[i - 1] \o s[i]
  <2>1. i - 1 \in Nat /\ i - 1 + 1 = i /\ f[i - 1] \in V
    OBVIOUS
  <2>2. f[i] = step[i][f[i - 1]]
    BY <1>3, <2>1 DEF Follows
  <2> QED
    BY <2>1, <2>2 DEF step
<1> DEFINE g == [i \in 1..len |-> f[i]]
<1>5. ASSUME NEW i \in 1..len
      PROVE  g[i] = IF i = 1 THEN s[i] ELSE g[i - 1] \o s[i]
  <2>1. CASE i = 1
    BY <1>4, <2>1
  <2>2. CASE i # 1
    <3>1. i - 1 \in 1..len
      BY <2>2
    <3> QED
      BY <1>4, <2>2, <3>1
  <2> QED
    BY <2>1, <2>2
<1>6. g = [i \in 1..len |-> g[i]]
  OBVIOUS
<1> HIDE DEF g
<1>7. Chains(g, s, len)
  BY <1>5, <1>6 DEF Chains
<1> QED
  BY <1>7

LEMMA FlattenSeqClosed ==
  ASSUME NEW V, \A v, w \in V : v \o w \in V, NEW seqs \in Seq(V), Len(seqs) # 0
  PROVE  FlattenSeq(seqs) \in V
<1> DEFINE len == Len(seqs)
           h == CHOOSE flatten : Chains(flatten, seqs, len)
<1>1. len \in Nat \ {0} /\ seqs \in [1..len -> V]
  OBVIOUS
<1>2. FlattenSeq(seqs) = h[len]
  BY DEF FlattenSeq, Chains
<1> HIDE DEF h, len
<1>3. \E f : Chains(f, seqs, len)
  BY <1>1, ChainExists
<1>4. Chains(h, seqs, len)
  BY <1>3 DEF h
<1>5. \A i \in 1..len : h[i] = IF i = 1 THEN seqs[i] ELSE h[i - 1] \o seqs[i]
  BY <1>4 DEF Chains
<1> DEFINE P == {n \in Nat : n + 1 \in 1..len => h[n + 1] \in V}
<1>6. 0 \in P
  BY <1>1, <1>5
<1>7. ASSUME NEW n \in Nat, n \in P
      PROVE  n + 1 \in P
  <2> SUFFICES ASSUME NEW i \in 1..len, i = n + 1 + 1
               PROVE  h[i] \in V
    BY <1>1
  <2>1. n + 1 \in 1..len /\ i # 1 /\ i - 1 = n + 1
    BY <1>1
  <2>2. h[n + 1] \in V
    BY <1>7, <2>1
  <2>3. h[i] = h[i - 1] \o seqs[i]
    BY <1>5, <2>1
  <2> QED
    BY <1>1, <2>1, <2>2, <2>3
<1>8. Nat \subseteq P
  <2> HIDE DEF P
  <2> QED
    BY <1>6, <1>7, NatInd
<1>9. len - 1 \in Nat /\ len - 1 + 1 = len /\ len \in 1..len
  BY <1>1
<1> QED
  BY <1>2, <1>8, <1>9

LEMMA FlattenSeqType ==
  ASSUME NEW S, NEW seqs \in Seq(Seq(S))
  PROVE  FlattenSeq(seqs) \in Seq(S)
<1>1. CASE Len(seqs) = 0
  BY <1>1 DEF FlattenSeq
<1>2. CASE Len(seqs) # 0
  <2>1. \A v, w \in Seq(S) : v \o w \in Seq(S)
    OBVIOUS
  <2> QED
    BY <1>2, <2>1, FlattenSeqClosed
<1> QED
  BY <1>1, <1>2
=============================================================================
