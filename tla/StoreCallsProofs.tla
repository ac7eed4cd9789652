-------------------------- MODULE StoreCallsProofs --------------------------
(***************************************************************************)
(* What the methods of ProofStore compute, for every population, level,    *)
(* key and fragment.                                                       *)
(***************************************************************************)
EXTENDS StoreCalls, MerkleTreeProofs

-----------------------------------------------------------------------------
(* The operators of FiniteSetsExt the store uses *)

\* A non-empty set of indices has a greatest one.
LEMMA MaxOfIndices ==
  ASSUME NEW n \in Nat, NEW S, S \subseteq 1 .. n, S # {}
  PROVE  Max(S) \in S /\ \A x \in S : x <= Max(S)
<1> DEFINE T == {n - x : x \in S}
           Greatest(x) == \A y \in S : x >= y
<1>1. PICK d \in T : \A e \in T : d <= e
  <2>1. \A x \in S : n - x \in Nat
    OBVIOUS
  <2>2. T \subseteq Nat /\ T # {}
    BY <2>1
  <2> HIDE DEF T
  <2> QED
    BY <2>2, LeastNumber
<1>2. PICK x \in S : d = n - x
  OBVIOUS
<1>3. ASSUME NEW y \in S PROVE x >= y
  <2>1. n - y \in T
    OBVIOUS
  <2>2. d <= n - y
    BY <1>1, <2>1
  <2> QED
    BY <1>2, <2>2
<1>4. Greatest(x)
  BY <1>3
<1>5. Max(S) = CHOOSE z \in S : Greatest(z)
  BY DEF Max
<1>6. Max(S) \in S /\ Greatest(Max(S))
  <2> HIDE DEF Greatest
  <2> QED
    BY <1>4, <1>5
<1> QED
  BY <1>6

\* The smaller of two numbers.
LEMMA MinOfTwo ==
  ASSUME NEW a \in Nat, NEW b \in Nat, a <= b
  PROVE  Min({a, b}) = a
<1> DEFINE Least(x) == \A y \in {a, b} : x <= y
<1>1. Least(a) /\ \A x \in {a, b} : Least(x) => x = a
  OBVIOUS
<1>2. Min({a, b}) = CHOOSE x \in {a, b} : Least(x)
  BY DEF Min
<1> HIDE DEF Least
<1> QED
  BY <1>1, <1>2

-----------------------------------------------------------------------------
(* compute_assistance *)

\* The level after each turn of its loop.
LEMMA RaisedStep ==
  ASSUME NEW v, NEW k \in Nat
  PROVE  /\ Raised(v, k)[0] = v
         /\ \A j \in 0 .. k - 1 : Raised(v, k)[j + 1] = NextLevel(Raised(v, k)[j])
<1> DEFINE After(prev) == NextLevel(prev)
           Rule(f, n) == f = [j \in 0 .. n |-> IF j = 0 THEN v ELSE After(f[j - 1])]
           S == {n \in Nat : \E f : Rule(f, n)}
<1>1. Raised(v, k) = CHOOSE f : Rule(f, k)
  BY DEF Raised
<1> HIDE DEF After, S
<1>2. 0 \in S
  <2> DEFINE f == [j \in 0 .. 0 |-> v]
  <2>1. Rule(f, 0)
    OBVIOUS
  <2> HIDE DEF f, Rule
  <2> QED
    BY <2>1 DEF S
<1>3. ASSUME NEW n \in Nat, n \in S PROVE n + 1 \in S
  <2>1. PICK f : Rule(f, n)
    BY <1>3 DEF S
  <2> DEFINE g == [j \in 0 .. n + 1 |-> IF j \in 0 .. n THEN f[j] ELSE After(f[n])]
  <2>2. ASSUME NEW j \in 0 .. n + 1
        PROVE  g[j] = IF j = 0 THEN v ELSE After(g[j - 1])
    <3>1. CASE j = 0
      BY <2>1, <3>1
    <3>2. CASE j \in 1 .. n
      <4>1. j - 1 \in 0 .. n /\ j \in 0 .. n /\ j - 1 \in 0 .. n + 1
        BY <3>2
      <4>2. g[j] = f[j] /\ g[j - 1] = f[j - 1]
        BY <4>1
      <4> QED
        BY <2>1, <3>2, <4>1, <4>2
    <3>3. CASE j = n + 1
      <4>1. j - 1 = n /\ j \notin 0 .. n /\ n \in 0 .. n + 1 /\ n \in 0 .. n /\ j # 0
        BY <3>3
      <4> QED
        BY <4>1
    <3> QED
      BY <3>1, <3>2, <3>3
  <2>3. Rule(g, n + 1)
    <3>1. g = [j \in 0 .. n + 1 |-> g[j]]
      OBVIOUS
    <3> HIDE DEF g
    <3> QED
      BY <2>2, <3>1
  <2> HIDE DEF Rule, g
  <2> QED
    BY <2>3 DEF S
<1>4. Rule(Raised(v, k), k)
  <2>1. \A n \in Nat : n \in S
    BY <1>2, <1>3, Induction
  <2> HIDE DEF Rule
  <2> QED
    BY <1>1, <2>1 DEF S
<1>5. Raised(v, k)[0] = v
  BY <1>4
<1>6. ASSUME NEW j \in 0 .. k - 1
      PROVE  Raised(v, k)[j + 1] = After(Raised(v, k)[j])
  <2>1. j + 1 \in 0 .. k /\ j + 1 # 0 /\ (j + 1) - 1 = j
    OBVIOUS
  <2> QED
    BY <1>4, <2>1
<1> QED
  BY <1>5, <1>6 DEF After

\* Up to the root the labels are a level of the tree.
LEMMA LabelsAreLevel ==
  ASSUME NEW v, IsVec(v), Len(v) >= 1, NEW k \in 0 .. DepthFor(Len(v))
  PROVE  Assistance(v, k) = Turns(v)[k]
<1> DEFINE h == DepthFor(Len(v))
           S == {j \in Nat : Raised(v, k)[j] = Turns(v)[j]}
<1>0. h \in Nat /\ k \in Nat /\ k <= h
  <2>1. h \in Nat
    BY Levels
  <2> QED
    BY <2>1
<1>1. 0 \in S
  BY RaisedStep, Levels, <1>0
<1>2. ASSUME NEW j \in 0 .. k - 1, j \in S PROVE j + 1 \in S
  <2>1. j \in 0 .. h - 1 /\ j + 1 \in Nat
    BY <1>0
  <2>2. Turns(v)[j + 1] = NextLevel(Turns(v)[j])
    BY <2>1, Levels
  <2> QED
    BY <1>0, <1>2, <2>1, <2>2, RaisedStep
<1>3. k \in S
  <2> HIDE DEF S, h
  <2>1. \A j \in 0 .. k : j \in S
    BY <1>0, <1>1, <1>2, InductionUpTo
  <2> QED
    BY <1>0, <2>1
<1> QED
  BY <1>3 DEF Assistance

\* The labels lead to the root of the whole tree.
LEMMA LabelsReachRoot ==
  ASSUME NEW v, IsVec(v), Len(v) >= 1, NEW k \in 0 .. DepthFor(Len(v)),
         NEW w, w = Turns(v)[k]
  PROVE  IsVec(w) /\ Len(w) >= 1 /\ MerkleRoot(w) = MerkleRoot(v)
<1> DEFINE h == DepthFor(Len(v))
           t == DepthFor(Len(w))
           S == {j \in Nat : k + j <= h /\ Turns(w)[j] = Turns(v)[k + j]}
<1>0. h \in Nat /\ k \in Nat /\ k <= h /\ h <= Len(v) /\ Len(v) \in Nat /\ k \in 0 .. Len(v)
  <2>1. h \in 0 .. Len(v) /\ Len(v) \in Nat
    BY Levels
  <2> QED
    BY <2>1
<1>1. IsVec(w) /\ Len(w) >= 1
  BY <1>0, Levels
<1>2. t \in Nat /\ t <= Len(w) /\ Len(w) \in Nat
  <2>1. t \in 0 .. Len(w) /\ Len(w) \in Nat
    BY <1>1, Levels
  <2> QED
    BY <2>1
<1>3. 0 \in S
  BY <1>0, <1>1, Levels
<1>4. ASSUME NEW j \in 0 .. t - 1, j \in S PROVE j + 1 \in S
  <2>1. j \in Nat /\ j < t /\ j \in 0 .. Len(w) /\ k + j \in 0 .. Len(v) /\ k + j <= h
    BY <1>0, <1>2, <1>4
  <2>2. Len(Turns(w)[j]) > 1 /\ Turns(w)[j + 1] = NextLevel(Turns(w)[j])
    <3>1. \A q \in 0 .. Len(w) : Len(Turns(w)[q]) > 1 <=> q < t
      BY <1>1, Levels
    <3>2. \A q \in 0 .. t - 1 : Turns(w)[q + 1] = NextLevel(Turns(w)[q])
      BY <1>1, Levels
    <3> QED
      BY <2>1, <3>1, <3>2
  <2>3. Turns(w)[j] = Turns(v)[k + j]
    BY <1>4
  <2>4. k + j < h
    <3>1. \A q \in 0 .. Len(v) : Len(Turns(v)[q]) > 1 <=> q < h
      BY Levels
    <3> QED
      BY <2>1, <2>2, <2>3, <3>1
  <2>5. k + j \in 0 .. h - 1 /\ (k + j) + 1 = k + (j + 1) /\ k + (j + 1) <= h
    BY <1>0, <2>1, <2>4
  <2>6. Turns(v)[k + (j + 1)] = NextLevel(Turns(v)[k + j])
    <3>1. Turns(v)[(k + j) + 1] = NextLevel(Turns(v)[k + j])
      BY <2>5, Levels
    <3> QED
      BY <2>5, <3>1
  <2> QED
    BY <2>1, <2>2, <2>3, <2>5, <2>6
<1>5. t \in S
  <2> HIDE DEF S, t, h
  <2>1. \A j \in 0 .. t : j \in S
    BY <1>2, <1>3, <1>4, InductionUpTo
  <2> QED
    BY <1>2, <2>1
<1>6. k + t = h
  <2>1. k + t \in 0 .. Len(v) /\ k + t <= h /\ Turns(w)[t] = Turns(v)[k + t]
    BY <1>0, <1>2, <1>5
  <2>2. Len(Turns(w)[t]) = 1
    BY <1>1, RootOnTop
  <2>3. ~(k + t < h)
    <3> DEFINE j == k + t
    <3>1. j \in 0 .. Len(v) /\ Len(Turns(v)[j]) = 1
      BY <2>1, <2>2
    <3> HIDE DEF j, h
    <3>2. Len(Turns(v)[j]) > 1 <=> j < h
      BY <3>1, Levels DEF h
    <3> QED
      BY <3>1, <3>2 DEF j
  <2> QED
    BY <1>0, <1>2, <2>1, <2>3
<1>7. MerkleRoot(w) = MerkleRoot(v)
  <2>1. MerkleRoot(w) = At(Turns(w)[t], 0) /\ MerkleRoot(v) = At(Turns(v)[h], 0)
    BY <1>1, RootOnTop
  <2>2. Turns(w)[t] = Turns(v)[h]
    BY <1>5, <1>6
  <2> QED
    BY <2>1, <2>2
<1> QED
  BY <1>1, <1>7

\* The leaves climb to every label, and to no other index.
LEMMA IndicesOfLabels ==
  ASSUME NEW v, IsVec(v), Len(v) >= 1, NEW k \in 0 .. DepthFor(Len(v))
  PROVE  {IndexAbove(i, k) : i \in 0 .. Len(v) - 1} = 0 .. Len(Turns(v)[k]) - 1
<1> DEFINE h == DepthFor(Len(v))
           L(j) == Len(Turns(v)[j])
           S == {j \in Nat : \A p \in Nat : p < L(j) =>
                               \E i \in 0 .. Len(v) - 1 : IndexAbove(i, j) = p}
<1>0. h \in Nat /\ k \in Nat /\ k <= h /\ h <= Len(v) /\ Len(v) \in Nat
  <2>1. h \in 0 .. Len(v) /\ Len(v) \in Nat
    BY Levels
  <2> QED
    BY <2>1
<1>1. 0 \in S
  <2>1. L(0) = Len(v)
    BY Levels
  <2>2. \A p \in Nat : p < Len(v) => p \in 0 .. Len(v) - 1
    BY <1>0
  <2> QED
    BY <2>1, <2>2, IndexAboveStep
<1>2. ASSUME NEW j \in 0 .. k - 1, j \in S PROVE j + 1 \in S
  <2>1. j \in Nat /\ j + 1 \in Nat /\ j \in 0 .. h - 1 /\ j \in 0 .. Len(v)
    BY <1>0
  <2>2. L(j) \in Nat /\ L(j + 1) = (L(j) + 1) \div 2
    <3>1. IsVec(Turns(v)[j]) /\ Turns(v)[j + 1] = NextLevel(Turns(v)[j])
      BY <2>1, Levels
    <3> QED
      BY <3>1, NextLevelProperties, VecLen
  <2> SUFFICES ASSUME NEW p \in Nat, p < L(j + 1)
               PROVE  \E i \in 0 .. Len(v) - 1 : IndexAbove(i, j + 1) = p
    BY <2>1
  <2> HIDE DEF L
  <2>3. 2 * p \in Nat /\ 2 * p < L(j) /\ (2 * p) \div 2 = p
    BY <2>2
  <2>4. PICK i \in 0 .. Len(v) - 1 : IndexAbove(i, j) = 2 * p
    BY <1>2, <2>3 DEF L
  <2>5. IndexAbove(i, j + 1) = p
    <3>1. i \in Nat
      BY <1>0
    <3> QED
      BY <2>1, <2>3, <2>4, <3>1, IndexAboveStep
  <2> QED
    BY <2>5
<1>3. k \in S
  <2> HIDE DEF S, h, L
  <2>1. \A j \in 0 .. k : j \in S
    BY <1>0, <1>1, <1>2, InductionUpTo
  <2> QED
    BY <1>0, <2>1
<1>4. L(k) \in Nat
  <2>1. k \in 0 .. Len(v)
    BY <1>0
  <2> QED
    BY <2>1, Levels, VecLen
<1>5. ASSUME NEW i \in 0 .. Len(v) - 1 PROVE IndexAbove(i, k) \in 0 .. L(k) - 1
  <2>1. i \in Nat /\ i < Len(v)
    BY <1>0
  <2>2. IndexAbove(i, k) \in Nat /\ IndexAbove(i, k) < L(k)
    BY <2>1, PathInTree
  <2> HIDE DEF L
  <2> QED
    BY <1>4, <2>2
<1>6. ASSUME NEW p \in 0 .. L(k) - 1
      PROVE  \E i \in 0 .. Len(v) - 1 : IndexAbove(i, k) = p
  <2>1. p \in Nat /\ p < L(k)
    <3> HIDE DEF L
    <3> QED
      BY <1>4
  <2> QED
    BY <1>3, <2>1
<1> HIDE DEF L
<1>7. {IndexAbove(i, k) : i \in 0 .. Len(v) - 1} = 0 .. L(k) - 1
  BY <1>5, <1>6
<1> QED
  BY <1>7 DEF L

-----------------------------------------------------------------------------
(* The level *)

LEMMA Log2Step ==
  \A n \in Nat : /\ Log2(n) \in Nat
                 /\ Log2(n) = IF n <= 1 THEN 0 ELSE 1 + Log2(n \div 2)
<1> DEFINE Rule(f) == f = [m \in Nat |-> IF m <= 1 THEN 0 ELSE 1 + f[m \div 2]]
           bit == CHOOSE f : Rule(f)
           prior == [m \in Nat |-> m \div 2]
           more == [m \in Nat |-> 1 + m]
           B == {0, 1}
<1>1. PICK f \in [Nat -> Nat] : Solves(f, B, 0, more, prior)
  <2>1. prior \in [Nat -> Nat] /\ more \in [Nat -> Nat]
    OBVIOUS
  <2>2. \A n \in Nat : n \notin B => prior[n] < n
    OBVIOUS
  <2>3. 0 \in Nat
    OBVIOUS
  <2> HIDE DEF Rule, bit, prior, more, B
  <2> QED
    BY <2>1, <2>2, <2>3, RecursiveFunction
<1>2. ASSUME NEW n \in Nat
      PROVE  f[n] = IF n <= 1 THEN 0 ELSE 1 + f[n \div 2]
  <2>1. prior[n] = n \div 2 /\ n \div 2 \in Nat
    OBVIOUS
  <2>2. more[f[prior[n]]] = 1 + f[n \div 2]
    BY <2>1
  <2>3. n \in B <=> n <= 1
    OBVIOUS
  <2> HIDE DEF prior, more, B
  <2> QED
    BY <1>1, <2>2, <2>3 DEF Solves
<1>3. Rule(f)
  BY <1>2
<1>4. Rule(bit)
  BY <1>3
<1>5. \A n \in Nat : Log2(n) = bit[n]
  BY DEF Log2
<1> HIDE DEF bit
<1>6. \A n \in Nat : bit[n] = IF n <= 1 THEN 0 ELSE 1 + bit[n \div 2]
  BY <1>4
<1>7. \A n \in Nat : bit[n] \in Nat
  <2> DEFINE S == {n \in Nat : bit[n] \in Nat}
  <2>1. ASSUME NEW n \in Nat, \A m \in 0 .. n - 1 : m \in S PROVE n \in S
    <3>1. n > 1 => n \div 2 \in 0 .. n - 1
      OBVIOUS
    <3> QED
      BY <1>6, <2>1, <3>1
  <2> HIDE DEF S
  <2>2. \A n \in Nat : n \in S
    BY <2>1, StrongInduction
  <2> QED
    BY <2>2 DEF S
<1> QED
  BY <1>5, <1>6, <1>7

\* More leaves, no smaller depth.
LEMMA DepthForMonotone ==
  \A n \in Nat : \A m \in 0 .. n : DepthFor(m) <= DepthFor(n)
<1> DEFINE S == {n \in Nat : \A m \in 0 .. n : DepthFor(m) <= DepthFor(n)}
<1>1. ASSUME NEW n \in Nat, \A m \in 0 .. n - 1 : m \in S PROVE n \in S
  <2> SUFFICES ASSUME NEW m \in 0 .. n PROVE DepthFor(m) <= DepthFor(n)
    OBVIOUS
  <2>1. m \in Nat /\ DepthFor(m) \in Nat /\ DepthFor(n) \in Nat
    BY DepthForStep
  <2>2. CASE m <= 1
    <3>1. DepthFor(m) = 0
      BY <2>1, <2>2, DepthForStep
    <3> QED
      BY <2>1, <3>1
  <2>3. CASE m > 1
    <3> DEFINE a == (m + 1) \div 2
               b == (n + 1) \div 2
    <3>1. b \in 0 .. n - 1 /\ a \in 0 .. b /\ a \in Nat /\ b \in Nat /\ ~(m <= 1) /\ ~(n <= 1)
      BY <2>1, <2>3
    <3>2. DepthFor(m) = 1 + DepthFor(a) /\ DepthFor(n) = 1 + DepthFor(b)
      BY <2>1, <3>1, DepthForStep
    <3> HIDE DEF a, b
    <3>3. DepthFor(a) <= DepthFor(b) /\ DepthFor(a) \in Nat /\ DepthFor(b) \in Nat
      BY <1>1, <3>1, DepthForStep
    <3> QED
      BY <3>2, <3>3
  <2> QED
    BY <2>1, <2>2, <2>3
<1> HIDE DEF S
<1>2. \A n \in Nat : n \in S
  BY <1>1, StrongInduction
<1> QED
  BY <1>2 DEF S

\* The position of the highest bit is no more than the depth.
LEMMA Log2WithinDepth ==
  \A n \in Nat : Log2(n) <= DepthFor(n)
<1> DEFINE S == {n \in Nat : Log2(n) <= DepthFor(n)}
<1>1. ASSUME NEW n \in Nat, \A m \in 0 .. n - 1 : m \in S PROVE n \in S
  <2>1. CASE n <= 1
    BY <2>1, Log2Step, DepthForStep
  <2>2. CASE ~(n <= 1)
    <3> DEFINE a == n \div 2
               b == (n + 1) \div 2
    <3>1. a \in 0 .. n - 1 /\ a \in 0 .. b /\ a \in Nat /\ b \in Nat
      BY <2>2
    <3>2. Log2(n) = 1 + Log2(a) /\ DepthFor(n) = 1 + DepthFor(b)
      BY <2>2, Log2Step, DepthForStep
    <3> HIDE DEF a, b
    <3>3. Log2(a) <= DepthFor(a) /\ DepthFor(a) <= DepthFor(b)
      BY <1>1, <3>1, DepthForMonotone
    <3>4. Log2(a) \in Nat /\ DepthFor(a) \in Nat /\ DepthFor(b) \in Nat
      BY <3>1, Log2Step, DepthForStep
    <3> QED
      BY <3>2, <3>3, <3>4
  <2> QED
    BY <2>1, <2>2
<1> HIDE DEF S
<1>2. \A n \in Nat : n \in S
  BY <1>1, StrongInduction
<1> QED
  BY <1>2 DEF S

\* A level that is allowed is one of the tree, and the default is allowed.
LEMMA LevelInTree ==
  ASSUME NEW n \in Nat, NEW k, k \in Nat \cup {DefaultK}, LevelAllowed(n, k)
  PROVE  LevelFor(n, k) \in 0 .. DepthFor(n)
<1>1. DepthFor(n) \in Nat /\ Log2(n) \in Nat /\ Log2(n) <= DepthFor(n)
  BY DepthForStep, Log2Step, Log2WithinDepth
<1>2. CASE k = DefaultK
  <2>1. LevelFor(n, k) = Log2(n) \div 2
    BY <1>2 DEF LevelFor
  <2> QED
    BY <1>1, <2>1
<1>3. CASE k # DefaultK
  BY <1>1, <1>3 DEF LevelFor, LevelAllowed
<1> QED
  BY <1>2, <1>3

-----------------------------------------------------------------------------
(* The store that anchor returns *)

IsStore(s) ==
  /\ IsLeaves(s.leaves) /\ s.root = MerkleRoot(s.leaves)
  /\ s.k \in 0 .. DepthFor(Len(s.leaves)) /\ s.labels = Turns(s.leaves)[s.k]
  /\ \A key \in DOMAIN s.index : s.index[key] \in 0 .. Len(s.leaves) - 1

\* A key has a place, the last of those it is given with.
LEMMA IndexOfKey ==
  ASSUME NEW p, IsVec(p)
  PROVE  /\ DOMAIN Index(p) = {p[j].key : j \in 1 .. Len(p)}
         /\ \A key \in DOMAIN Index(p) :
              /\ Index(p)[key] \in 0 .. Len(p) - 1
              /\ p[Index(p)[key] + 1].key = key
<1> DEFINE Given(key) == {j \in DOMAIN p : p[j].key = key}
<1>1. Len(p) \in Nat /\ DOMAIN p = 1 .. Len(p)
  BY VecLen
<1>2. DOMAIN Index(p) = {p[j].key : j \in 1 .. Len(p)}
  BY <1>1 DEF Index
<1>3. ASSUME NEW key \in DOMAIN Index(p)
      PROVE  Index(p)[key] \in 0 .. Len(p) - 1 /\ p[Index(p)[key] + 1].key = key
  <2> DEFINE m == Max(Given(key))
  <2>1. Index(p)[key] = m - 1
    BY <1>1, <1>2, <1>3 DEF Index
  <2>2. Given(key) \subseteq 1 .. Len(p) /\ Given(key) # {}
    BY <1>1, <1>2, <1>3
  <2>3. m \in Given(key)
    <3> HIDE DEF Given
    <3> QED
      BY <1>1, <2>2, MaxOfIndices
  <2>4. m \in 1 .. Len(p) /\ p[m].key = key
    BY <1>1, <2>3
  <2> HIDE DEF m
  <2>5. (m - 1) + 1 = m /\ m - 1 \in 0 .. Len(p) - 1
    BY <1>1, <2>4
  <2> QED
    BY <2>1, <2>4, <2>5
<1> QED
  BY <1>2, <1>3

\* What anchor makes of a population it does not refuse.
LEMMA StoreOfIsStore ==
  ASSUME NEW p, IsVec(p), Len(p) >= 1,
         \A j \in 1 .. Len(p) : IsDigest(p[j].leaf) /\ NoParent(p[j].leaf),
         NEW k, k \in Nat \cup {DefaultK}, LevelAllowed(Len(p), k)
  PROVE  /\ IsStore(StoreOf(p, k))
         /\ Len(StoreOf(p, k).leaves) = Len(p)
         /\ \A j \in 1 .. Len(p) : StoreOf(p, k).leaves[j] = p[j].leaf
         /\ StoreOf(p, k).index = Index(p)
<1> DEFINE s == StoreOf(p, k)
           v == LeavesOf(p)
<1>1. Len(p) \in Nat /\ DOMAIN p = 1 .. Len(p)
  BY VecLen
<1>2. /\ s.leaves = v /\ s.index = Index(p) /\ s.root = MerkleRoot(v)
      /\ s.k = LevelFor(Len(p), k) /\ s.labels = Assistance(v, LevelFor(Len(p), k))
  BY DEF StoreOf
<1>3. v = [j \in 1 .. Len(p) |-> v[j]] /\ DOMAIN v = 1 .. Len(p)
      /\ \A j \in 1 .. Len(p) : v[j] = p[j].leaf
  BY <1>1 DEF LeavesOf
<1> HIDE DEF v, s
<1>4. IsVec(v) /\ Len(v) = Len(p)
  BY <1>1, <1>3, VecOfFunction
<1>5. IsLeaves(v)
  BY <1>3, <1>4 DEF IsLeaves, Nodes
<1>6. s.k \in 0 .. DepthFor(Len(v))
  BY <1>1, <1>2, <1>4, LevelInTree
<1>7. s.labels = Turns(v)[s.k]
  BY <1>2, <1>4, <1>6, LabelsAreLevel
<1>8. \A key \in DOMAIN s.index : s.index[key] \in 0 .. Len(v) - 1
  BY <1>2, <1>4, IndexOfKey
<1>9. IsStore(s)
  BY <1>2, <1>5, <1>6, <1>7, <1>8 DEF IsStore
<1> QED
  BY <1>2, <1>3, <1>4, <1>9 DEF s

-----------------------------------------------------------------------------
(* query and the two ways to check its answer *)

\* A fragment has the first k siblings of its leaf's proof.
LEMMA QueryFragment ==
  ASSUME NEW s, IsStore(s), NEW key \in DOMAIN s.index,
         NEW q, q = Query(s, key), NEW i, i = s.index[key]
  PROVE  /\ i \in Nat /\ i < Len(s.leaves)
         /\ q.leaf_index = i /\ q.leaf = At(s.leaves, i)
         /\ IsVec(q.lower_shard) /\ Len(q.lower_shard) = s.k
         /\ \A j \in 1 .. s.k : q.lower_shard[j] = BuildProof(s.leaves, i)[j]
<1> DEFINE v == s.leaves
           h == DepthFor(Len(v))
           w == BuildProof(v, i)
<1>1. IsVec(v) /\ Len(v) >= 1 /\ s.k \in 0 .. h /\ i \in 0 .. Len(v) - 1
  BY DEF IsStore, IsLeaves
<1>2. h \in Nat /\ Len(v) \in Nat
  <2>1. h \in 0 .. Len(v) /\ Len(v) \in Nat
    BY <1>1, Levels
  <2> QED
    BY <2>1
<1>3. i \in Nat /\ i < Len(v)
  BY <1>1, <1>2
<1>4. IsVec(w) /\ Len(w) = h
  BY <1>1, <1>3, ProofSiblings
<1>5. s.k \in Nat /\ s.k <= h
  BY <1>1, <1>2
<1>6. /\ q.leaf_index = i /\ q.leaf = At(v, i)
      /\ q.lower_shard = SubSeq(w, 1, Min({s.k, Len(w)}))
  BY DEF Query
<1> HIDE DEF w, h, v
<1>7. Min({s.k, Len(w)}) = s.k
  BY <1>2, <1>4, <1>5, MinOfTwo
<1>8. q.lower_shard = SubSeq(w, 1, s.k)
  BY <1>6, <1>7
<1>9. w \in Seq(Nodes(w))
  BY <1>4 DEF IsVec
<1>10. /\ q.lower_shard \in Seq(Nodes(w)) /\ Len(q.lower_shard) = s.k
       /\ \A j \in 1 .. s.k : q.lower_shard[j] = w[j]
  BY <1>2, <1>4, <1>5, <1>8, <1>9
<1>11. IsVec(q.lower_shard)
  BY <1>10, VecOfSeq
<1> QED
  BY <1>3, <1>6, <1>10, <1>11 DEF v, w

\* The labels are there for what a leaf climbs to, and lead to the root.
LEMMA LabelsOfStore ==
  ASSUME NEW s, IsStore(s)
  PROVE  /\ IsVec(s.labels) /\ Len(s.labels) >= 1 /\ MerkleRoot(s.labels) = s.root
         /\ {IndexAbove(i, s.k) : i \in 0 .. Len(s.leaves) - 1} = 0 .. Len(s.labels) - 1
<1> DEFINE v == s.leaves
           k == s.k
           w == s.labels
<1>1. /\ IsVec(v) /\ Len(v) >= 1 /\ k \in 0 .. DepthFor(Len(v)) /\ w = Turns(v)[k]
      /\ s.root = MerkleRoot(v)
  BY DEF IsStore, IsLeaves
<1> HIDE DEF v, k, w
<1>2. IsVec(w) /\ Len(w) >= 1 /\ MerkleRoot(w) = MerkleRoot(v)
  BY <1>1, LabelsReachRoot
<1>3. {IndexAbove(i, k) : i \in 0 .. Len(v) - 1} = 0 .. Len(w) - 1
  BY <1>1, IndicesOfLabels
<1> QED
  BY <1>1, <1>2, <1>3 DEF v, k, w

\* A fragment from query is accepted for its own leaf and for no other.
LEMMA AdversarialOwn ==
  ASSUME NEW s, IsStore(s), NEW key \in DOMAIN s.index, NEW leaf
  PROVE  Adversarial(s, leaf, Query(s, key)) = "Ok" <=> leaf = At(s.leaves, s.index[key])
<1> DEFINE v == s.leaves
           i == s.index[key]
           q == Query(s, key)
           w == q.lower_shard
           place == IndexAbove(i, s.k)
<1>1. /\ IsLeaves(v) /\ IsVec(v) /\ Len(v) >= 1 /\ \A x \in Nodes(v) : IsDigest(x)
      /\ s.k \in 0 .. DepthFor(Len(v)) /\ s.labels = Turns(v)[s.k]
  BY DEF IsStore, IsLeaves
<1>2. /\ i \in Nat /\ i < Len(v) /\ q.leaf_index = i
      /\ IsVec(w) /\ Len(w) = s.k /\ \A j \in 1 .. s.k : w[j] = BuildProof(v, i)[j]
  BY QueryFragment
<1>3. /\ s.k \in Nat /\ DepthFor(Len(v)) \in Nat /\ s.k <= DepthFor(Len(v))
  <2>1. DepthFor(Len(v)) \in 0 .. Len(v) /\ Len(v) \in Nat
    BY <1>1, Levels
  <2> QED
    BY <1>1, <2>1
<1>4. Adversarial(s, leaf, q) =
        IF \E j \in DOMAIN w : w[j] \in Undecodable THEN "ProofLengthMismatch"
        ELSE IF place >= Len(s.labels) THEN "IndexNotFound"
        ELSE IF \/ ClimbFrom(leaf, i, w) # At(s.labels, place)
                \/ MerkleRoot(s.labels) # s.root
             THEN "RootMismatch" ELSE "Ok"
  BY <1>2 DEF Adversarial
<1>5. IsVec(s.labels) /\ MerkleRoot(s.labels) = s.root
  BY LabelsOfStore
<1>6. place \in Nat /\ place < Len(s.labels) /\ Len(s.labels) \in Nat
  BY <1>1, <1>2, <1>5, PathInTree, VecLen
<1> HIDE DEF v, i, q, w, place
<1>7. ~\E j \in DOMAIN w : w[j] \in Undecodable
  <2> SUFFICES ASSUME NEW j \in 1 .. s.k PROVE w[j] \notin Undecodable
    BY <1>2, VecLen
  <2>1. IsVec(BuildProof(v, i)) /\ Len(BuildProof(v, i)) = DepthFor(Len(v))
    BY <1>1, <1>2, ProofSiblings
  <2>2. j \in DOMAIN BuildProof(v, i)
    BY <1>3, <2>1, VecLen
  <2>3. IsDigest(BuildProof(v, i)[j])
    BY <1>1, <1>2, <2>2, ProofsOfDigests DEF Nodes
  <2> QED
    BY <1>2, <2>3, DigestsDecode
<1>8. Adversarial(s, leaf, q) = "Ok" <=> ClimbFrom(leaf, i, w) = At(s.labels, place)
  BY <1>4, <1>5, <1>6, <1>7
<1>9. ClimbFrom(At(v, i), i, w) = At(s.labels, place)
  <2>1. \A j \in 0 .. s.k - 1 : w[j + 1] = BuildProof(v, i)[j + 1]
    <3> SUFFICES ASSUME NEW j \in 0 .. s.k - 1 PROVE w[j + 1] = BuildProof(v, i)[j + 1]
      OBVIOUS
    <3>1. j + 1 \in 1 .. s.k
      BY <1>3
    <3> QED
      BY <1>2, <3>1
  <2>2. ClimbFrom(At(v, i), i, w) = At(Turns(v)[s.k], IndexAbove(i, s.k))
    <3> DEFINE k == s.k
    <3>1. /\ k \in 0 .. DepthFor(Len(v)) /\ Len(w) = k
          /\ \A j \in 0 .. k - 1 : w[j + 1] = BuildProof(v, i)[j + 1]
      BY <1>1, <1>2, <2>1
    <3> HIDE DEF k
    <3>2. ClimbFrom(At(v, i), i, w) = At(Turns(v)[k], IndexAbove(i, k))
      BY <1>1, <1>2, <3>1, ClimbCompletes
    <3> QED
      BY <3>2 DEF k
  <2> QED
    BY <1>1, <2>2 DEF place
<1>10. ClimbFrom(leaf, i, w) = At(s.labels, place) => leaf = At(v, i)
  BY <1>1, <1>2, ClimbDetermines DEF place, i
<1> QED
  BY <1>8, <1>9, <1>10 DEF v, i, q

\* A made-up fragment is not accepted for what is no leaf of the store.
LEMMA AdversarialSound ==
  ASSUME NEW s, IsStore(s), NEW leaf, NoParent(leaf),
         NEW stored, stored.leaf_index \in Nat, Len(stored.lower_shard) \in Nat,
         Adversarial(s, leaf, stored) = "Ok"
  PROVE  /\ leaf \in Nodes(s.leaves) /\ Len(stored.lower_shard) = s.k
         /\ stored.leaf_index < Len(s.leaves) => leaf = At(s.leaves, stored.leaf_index)
<1> DEFINE v == s.leaves
           i == stored.leaf_index
           w == stored.lower_shard
           place == IndexAbove(i, Len(w))
<1>1. /\ IsVec(v) /\ Len(v) >= 1 /\ \A x \in Nodes(v) : NoParent(x)
      /\ s.k \in 0 .. DepthFor(Len(v)) /\ s.labels = Turns(v)[s.k]
  BY DEF IsStore, IsLeaves
<1>2. ~(place >= Len(s.labels)) /\ ClimbFrom(leaf, i, w) = At(s.labels, place)
  BY DEF Adversarial
<1>3. IsVec(s.labels)
  BY LabelsOfStore
<1>4. place \in Nat
  BY IndexAboveStep
<1> HIDE DEF v, i, w, place
<1>5. At(s.labels, place) \in Nodes(s.labels)
  BY <1>2, <1>3, <1>4, VecLen DEF At, Nodes
<1>6. Len(w) = s.k /\ leaf \in Nodes(v)
  BY <1>1, <1>2, <1>5, ClimbStartsAtLeaf DEF i, w
<1>7. i < Len(v) => leaf = At(v, i)
  BY <1>1, <1>2, <1>6, ClimbDetermines DEF i, w, place
<1> QED
  BY <1>6, <1>7 DEF v, i, w

\* The whole proof is accepted for the key's leaf and for no other.
LEMMA FullMerkleOwn ==
  ASSUME NEW s, IsStore(s), NEW key \in DOMAIN s.index, NEW leaf
  PROVE  FullMerkle(s, key, leaf) = "Ok" <=> leaf = At(s.leaves, s.index[key])
<1> DEFINE v == s.leaves
           i == s.index[key]
<1>1. /\ IsVec(v) /\ Len(v) >= 1 /\ \A x \in Nodes(v) : IsDigest(x)
      /\ s.root = MerkleRoot(v)
  BY DEF IsStore, IsLeaves
<1>2. i \in Nat /\ i < Len(v)
  BY QueryFragment
<1>3. FullMerkle(s, key, leaf) = VerifyProof(i, Len(v), BuildProof(v, i), leaf, MerkleRoot(v))
  BY <1>1 DEF FullMerkle
<1> HIDE DEF v, i
<1> QED
  BY <1>1, <1>2, <1>3, VerifyOwnProof DEF v, i

\* The default store of leaves whose keys are their places, as cmd_query and the
\* study make one up.
LEMMA NumberedStore ==
  ASSUME NEW p, IsVec(p), Len(p) >= 1,
         \A j \in 1 .. Len(p) : p[j].key = j - 1 /\ IsDigest(p[j].leaf) /\ NoParent(p[j].leaf),
         NEW s, s = StoreOf(p, DefaultK)
  PROVE  /\ IsStore(s) /\ Len(s.leaves) = Len(p)
         /\ \A i \in 0 .. Len(p) - 1 :
              /\ i \in DOMAIN s.index /\ s.index[i] = i
              /\ At(s.leaves, i) = p[i + 1].leaf
<1>1. LevelAllowed(Len(p), DefaultK)
  BY DEF LevelAllowed
<1>2. /\ IsStore(s) /\ Len(s.leaves) = Len(p) /\ s.index = Index(p)
      /\ \A j \in 1 .. Len(p) : s.leaves[j] = p[j].leaf
  BY <1>1, StoreOfIsStore
<1>3. Len(p) \in Nat
  BY VecLen
<1>4. ASSUME NEW i \in 0 .. Len(p) - 1
      PROVE  /\ i \in DOMAIN s.index /\ s.index[i] = i
             /\ At(s.leaves, i) = p[i + 1].leaf
  <2>1. i + 1 \in 1 .. Len(p) /\ (i + 1) - 1 = i
    BY <1>3
  <2>2. p[i + 1].key = i
    BY <2>1
  <2>3. i \in DOMAIN Index(p)
    <3>1. DOMAIN Index(p) = {p[j].key : j \in 1 .. Len(p)}
      BY IndexOfKey
    <3> QED
      BY <2>1, <2>2, <3>1
  <2> DEFINE m == Index(p)[i]
  <2>4. m \in 0 .. Len(p) - 1 /\ p[m + 1].key = i
    BY <2>3, IndexOfKey
  <2> HIDE DEF m
  <2>5. m + 1 \in 1 .. Len(p) /\ (m + 1) - 1 = m
    BY <1>3, <2>4
  <2>6. m = i
    BY <2>4, <2>5
  <2> QED
    BY <1>2, <2>1, <2>3, <2>6 DEF m, At
<1> QED
  BY <1>2, <1>4
=============================================================================
