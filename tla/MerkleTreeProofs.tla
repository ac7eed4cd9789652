------------------------- MODULE MerkleTreeProofs -------------------------
(***************************************************************************)
(* Facts about vectors, the hash and the node rule that the proofs about   *)
(* the components cite, and what the recursive functions of MerkleCalls    *)
(* compute, for every list of leaves, index and list of siblings.          *)
(*                                                                         *)
(* The induction is over sets: instead of the library's induction theorems,*)
(* whose parameter is an operator, the proofs use that < is well-founded   *)
(* on Nat, which is about a set of pairs and so in reach of the backends.  *)
(***************************************************************************)
EXTENDS MerkleCalls, TLAPS, WellFoundedInduction, FiniteSetTheorems

-----------------------------------------------------------------------------
(* Vectors *)

\* A vector is a sequence: its length is a number and bounds its domain.
LEMMA VecLen ==
  ASSUME NEW v, IsVec(v)
  PROVE  Len(v) \in Nat /\ DOMAIN v = 1 .. Len(v)
BY DEF IsVec

\* A function over 1 .. n is a vector of length n.
LEMMA VecOfFunction ==
  ASSUME NEW n \in Nat, NEW v, DOMAIN v = 1 .. n, v = [i \in 1 .. n |-> v[i]]
  PROVE  IsVec(v) /\ Len(v) = n
<1>1. v \in [1 .. n -> Nodes(v)]
  BY DEF Nodes
<1>2. v \in Seq(Nodes(v))
  BY <1>1
<1>3. Len(v) = n
  BY <1>2
<1> QED
  BY <1>2, <1>3 DEF IsVec

\* A sequence over any set is a vector.
LEMMA VecOfSeq ==
  ASSUME NEW S, NEW v \in Seq(S)
  PROVE  IsVec(v)
<1>1. DOMAIN v = 1 .. Len(v) /\ Len(v) \in Nat
  OBVIOUS
<1>2. v = [i \in 1 .. Len(v) |-> v[i]]
  BY <1>1
<1> QED
  BY <1>1, <1>2, VecOfFunction

\* The vectors the loops start from.
LEMMA VecLiterals ==
  /\ IsVec(<<>>) /\ Len(<<>>) = 0
  /\ \A x : IsVec(<<x>>) /\ Len(<<x>>) = 1 /\ <<x>>[1] = x
<1>1. <<>> \in Seq({}) /\ Len(<<>>) = 0
  OBVIOUS
<1>2. \A x : <<x>> \in Seq({x}) /\ Len(<<x>>) = 1 /\ <<x>>[1] = x
  OBVIOUS
<1>3. IsVec(<<>>)
  BY <1>1, VecOfSeq
<1>4. ASSUME NEW x PROVE IsVec(<<x>>)
  BY <1>2, VecOfSeq
<1> QED
  BY <1>1, <1>2, <1>3, <1>4

\* Vec::push
LEMMA VecAppend ==
  ASSUME NEW v, IsVec(v), NEW x
  PROVE  /\ IsVec(Append(v, x))
         /\ Len(Append(v, x)) = Len(v) + 1
         /\ \A i \in 1 .. Len(v) : Append(v, x)[i] = v[i]
         /\ Append(v, x)[Len(v) + 1] = x
<1> DEFINE S == Nodes(v) \cup {x}
           w == Append(v, x)
<1>1. v \in Seq(S)
  BY DEF IsVec, Nodes
<1>2. w \in Seq(S) /\ Len(w) = Len(v) + 1
  BY <1>1
<1>3. /\ \A i \in 1 .. Len(v) : w[i] = v[i]
      /\ w[Len(v) + 1] = x
  BY <1>1
<1>4. IsVec(w)
  BY <1>2, VecOfSeq
<1> QED
  BY <1>2, <1>3, <1>4

-----------------------------------------------------------------------------
(* The hash and the node rule *)

\* A parent determines its two children, in their order.
LEMMA ParentHashInjective ==
  \A l1, r1, l2, r2 :
    ParentHash(l1, r1) = ParentHash(l2, r2) => l1 = l2 /\ r1 = r2
BY DEF ParentHash, DoubleSha256, ConcatHashes, Bytes

\* What is as long as two digests is the only input that hashes to a parent.
LEMMA ParentOfDigests ==
  \A input : input.len # 2 * HASH_LEN =>
    \A l, r : ParentHash(l, r) # DoubleSha256(input)
BY DEF ParentHash, DoubleSha256, ConcatHashes, Bytes

\* Rounding up to an even number, and halving.
LEMMA Halves ==
  \A n \in Nat :
    /\ (n + 1) \div 2 \in Nat /\ n \div 2 \in Nat
    /\ n % 2 = 1 => n >= 1 /\ n + 1 = 2 * ((n + 1) \div 2)
    /\ n % 2 = 0 => n \div 2 = (n + 1) \div 2
    /\ n % 2 # 1 => n % 2 = 0 /\ n = 2 * ((n + 1) \div 2)
OBVIOUS

\* Padding makes the length even and adds no node.
LEMMA PaddedProperties ==
  ASSUME NEW v, IsVec(v)
  PROVE  /\ IsVec(Padded(v))
         /\ Len(Padded(v)) = 2 * ((Len(v) + 1) \div 2)
         /\ \A i \in 1 .. Len(v) : Padded(v)[i] = v[i]
         /\ \A i \in 1 .. Len(Padded(v)) : Padded(v)[i] \in Nodes(v)
<1>0. Len(v) \in Nat /\ DOMAIN v = 1 .. Len(v)
  BY VecLen
<1>1. CASE Len(v) % 2 = 1
  <2>1. Padded(v) = Append(v, v[Len(v)])
    BY <1>1 DEF Padded
  <2>2. Len(v) + 1 = 2 * ((Len(v) + 1) \div 2) /\ Len(v) >= 1
    BY <1>0, <1>1, Halves
  <2>3. /\ IsVec(Padded(v)) /\ Len(Padded(v)) = Len(v) + 1
        /\ \A i \in 1 .. Len(v) : Padded(v)[i] = v[i]
        /\ Padded(v)[Len(v) + 1] = v[Len(v)]
    BY <2>1, VecAppend
  <2>4. \A i \in 1 .. Len(v) : v[i] \in Nodes(v)
    BY <1>0 DEF Nodes
  <2>5. \A i \in 1 .. Len(v) + 1 : i \in 1 .. Len(v) \/ i = Len(v) + 1
    BY <1>0
  <2> QED
    BY <1>0, <2>2, <2>3, <2>4, <2>5
<1>2. CASE Len(v) % 2 # 1
  <2>1. Padded(v) = v
    BY <1>2 DEF Padded
  <2>2. Len(v) = 2 * ((Len(v) + 1) \div 2)
    BY <1>0, <1>2, Halves
  <2> QED
    BY <1>0, <2>1, <2>2 DEF Nodes
<1> QED
  BY <1>1, <1>2

\* A level of n nodes has a parent level of ceil(n / 2), each the hash of two
\* neighbours of the padded level.
LEMMA NextLevelProperties ==
  ASSUME NEW v, IsVec(v)
  PROVE  /\ IsVec(NextLevel(v))
         /\ Len(NextLevel(v)) = (Len(v) + 1) \div 2
         /\ \A i \in 1 .. Len(NextLevel(v)) :
              NextLevel(v)[i] = ParentHash(Padded(v)[2 * i - 1], Padded(v)[2 * i])
<1> DEFINE n == Len(Padded(v)) \div 2
           w == NextLevel(v)
<1>1. n \in Nat /\ n = (Len(v) + 1) \div 2
  BY VecLen, PaddedProperties, Halves
<1>2. w = [i \in 1 .. n |-> ParentHash(Padded(v)[2 * i - 1], Padded(v)[2 * i])]
  BY DEF NextLevel
<1> HIDE DEF n, w
<1>3. IsVec(w) /\ Len(w) = n
  BY <1>1, <1>2, VecOfFunction
<1>4. \A i \in 1 .. n : w[i] = ParentHash(Padded(v)[2 * i - 1], Padded(v)[2 * i])
  BY <1>2
<1> QED
  BY <1>1, <1>3, <1>4 DEF w

-----------------------------------------------------------------------------
(* Climbing one level *)

\* The place of a node's parent, and of the two nodes the parent is made of.
LEMMA ParentIndex ==
  \A i \in Nat, n \in Nat : i < n =>
    /\ i \div 2 \in Nat /\ i \div 2 < (n + 1) \div 2
    /\ SiblingIndex(i) \in Nat /\ SiblingIndex(i) < 2 * ((n + 1) \div 2)
    /\ i % 2 = 0 => i = 2 * (i \div 2) /\ SiblingIndex(i) = i + 1
    /\ i % 2 # 0 => i = 2 * (i \div 2) + 1 /\ SiblingIndex(i) = i - 1
BY DEF SiblingIndex

\* What the parent of the node at i is the hash of.
LEMMA ParentAt ==
  ASSUME NEW v, IsVec(v), NEW i \in Nat, i < Len(v)
  PROVE  /\ i \div 2 \in Nat /\ i \div 2 < Len(NextLevel(v))
         /\ At(Padded(v), i) = At(v, i)
         /\ At(NextLevel(v), i \div 2)
              = Combine(i, At(v, i), At(Padded(v), SiblingIndex(i)))
         /\ At(Padded(v), SiblingIndex(i)) \in Nodes(v)
<1> DEFINE j == i \div 2
<1>1. /\ j \in Nat /\ j < (Len(v) + 1) \div 2
      /\ SiblingIndex(i) \in Nat /\ SiblingIndex(i) < 2 * ((Len(v) + 1) \div 2)
      /\ i % 2 = 0 => i = 2 * j /\ SiblingIndex(i) = i + 1
      /\ i % 2 # 0 => i = 2 * j + 1 /\ SiblingIndex(i) = i - 1
  BY VecLen, ParentIndex
<1> HIDE DEF j
<1>2. /\ Len(v) \in Nat /\ Len(Padded(v)) = 2 * ((Len(v) + 1) \div 2)
      /\ (Len(v) + 1) \div 2 \in Nat
      /\ Len(NextLevel(v)) = (Len(v) + 1) \div 2
  BY VecLen, Halves, PaddedProperties, NextLevelProperties
<1>3. At(Padded(v), i) = At(v, i)
  BY <1>2, PaddedProperties DEF At
<1>4. SiblingIndex(i) + 1 \in 1 .. Len(Padded(v))
  BY <1>1, <1>2
<1>5. At(Padded(v), SiblingIndex(i)) \in Nodes(v)
  BY <1>4, PaddedProperties DEF At
<1>6. j + 1 \in 1 .. Len(NextLevel(v))
  BY <1>1, <1>2
<1>7. NextLevel(v)[j + 1]
        = ParentHash(Padded(v)[2 * (j + 1) - 1], Padded(v)[2 * (j + 1)])
  BY <1>6, NextLevelProperties
<1>8. At(NextLevel(v), j) = Combine(i, At(Padded(v), i), At(Padded(v), SiblingIndex(i)))
  <2>1. CASE i % 2 = 0
    <3>1. 2 * (j + 1) - 1 = i + 1 /\ 2 * (j + 1) = SiblingIndex(i) + 1
      BY <1>1, <2>1
    <3> QED
      BY <1>7, <2>1, <3>1 DEF At, Combine
  <2>2. CASE i % 2 # 0
    <3>1. 2 * (j + 1) = i + 1 /\ 2 * (j + 1) - 1 = SiblingIndex(i) + 1
      BY <1>1, <2>2
    <3> QED
      BY <1>7, <2>2, <3>1 DEF At, Combine
  <2> QED
    BY <2>1, <2>2
<1> QED
  BY <1>1, <1>2, <1>3, <1>5, <1>8 DEF j

\* A verifier that reaches the parent at i \div 2 came from the node at i.
LEMMA CombineDetermines ==
  ASSUME NEW v, IsVec(v), NEW i \in Nat, i < Len(v), NEW node, NEW sib,
         Combine(i, node, sib) = At(NextLevel(v), i \div 2)
  PROVE  node = At(v, i)
<1>1. Combine(i, node, sib) = Combine(i, At(v, i), At(Padded(v), SiblingIndex(i)))
  BY ParentAt
<1> QED
  BY <1>1, ParentHashInjective DEF Combine

\* A parent in a level was combined from nodes of the level below.
LEMMA ChildrenInLevel ==
  ASSUME NEW v, IsVec(v), NEW i \in Nat, NEW node, NEW sib,
         Combine(i, node, sib) \in Nodes(NextLevel(v))
  PROVE  node \in Nodes(v)
<1>0. /\ Len(v) \in Nat /\ (Len(v) + 1) \div 2 \in Nat
      /\ Len(Padded(v)) = 2 * ((Len(v) + 1) \div 2)
      /\ Len(NextLevel(v)) = (Len(v) + 1) \div 2
  BY VecLen, Halves, PaddedProperties, NextLevelProperties
<1>1. PICK k \in 1 .. Len(NextLevel(v)) : Combine(i, node, sib) = NextLevel(v)[k]
  BY VecLen, NextLevelProperties DEF Nodes
<1>2. Combine(i, node, sib) = ParentHash(Padded(v)[2 * k - 1], Padded(v)[2 * k])
  BY <1>1, NextLevelProperties
<1>3. 2 * k - 1 \in 1 .. Len(Padded(v)) /\ 2 * k \in 1 .. Len(Padded(v))
  BY <1>0
<1>4. node = Padded(v)[2 * k - 1] \/ node = Padded(v)[2 * k]
  BY <1>2, ParentHashInjective DEF Combine
<1> QED
  BY <1>3, <1>4, PaddedProperties

-----------------------------------------------------------------------------
(* Induction *)

Less == {pair \in Nat \X Nat : pair[1] < pair[2]}

\* Every non-empty set of numbers has a least one.
LEMMA LeastNumber ==
  ASSUME NEW S, S \subseteq Nat, S # {}
  PROVE  \E n \in S : \A m \in S : n <= m
<1>1. IsWellFoundedOn(Less, Nat)
  BY NatLessThanWellFounded DEF OpToRel, Less
<1>2. PICK n \in S : \A m \in S : ~(<<m, n>> \in Less)
  BY <1>1, WFMin
<1>3. \A m \in S : ~(m < n)
  BY <1>2 DEF Less
<1> QED
  BY <1>3

\* A set of numbers with 0 in it, and with every number its successor, has all.
LEMMA Induction ==
  ASSUME NEW S, 0 \in S, \A n \in Nat : n \in S => n + 1 \in S
  PROVE  \A n \in Nat : n \in S
<1> DEFINE T == Nat \ S
<1> SUFFICES ASSUME T # {} PROVE FALSE
  OBVIOUS
<1>1. PICK n \in T : \A m \in T : n <= m
  <2>1. T \subseteq Nat
    OBVIOUS
  <2> HIDE DEF T
  <2> QED
    BY <2>1, LeastNumber
<1>2. n # 0 /\ n - 1 \in Nat
  OBVIOUS
<1>3. n - 1 \in S
  BY <1>1, <1>2
<1> QED
  BY <1>2, <1>3

\* The same over an interval, upwards and downwards.
LEMMA InductionUpTo ==
  ASSUME NEW k \in Nat, NEW S, 0 \in S, \A n \in 0 .. k - 1 : n \in S => n + 1 \in S
  PROVE  \A n \in 0 .. k : n \in S
<1> DEFINE T == {n \in Nat : n <= k => n \in S}
<1>1. 0 \in T
  OBVIOUS
<1>2. \A n \in Nat : n \in T => n + 1 \in T
  OBVIOUS
<1>3. T \subseteq Nat
  OBVIOUS
<1> HIDE DEF T
<1>4. \A n \in Nat : n \in T
  BY <1>1, <1>2, Induction
<1> QED
  BY <1>4 DEF T

LEMMA InductionDownFrom ==
  ASSUME NEW k \in Nat, NEW S, k \in S, \A n \in 0 .. k - 1 : n + 1 \in S => n \in S
  PROVE  \A n \in 0 .. k : n \in S
<1> DEFINE T == {n \in Nat : n <= k => k - n \in S}
<1>1. 0 \in T
  OBVIOUS
<1>2. ASSUME NEW n \in Nat, n \in T PROVE n + 1 \in T
  <2> SUFFICES ASSUME n + 1 <= k PROVE k - (n + 1) \in S
    OBVIOUS
  <2>1. k - (n + 1) \in 0 .. k - 1 /\ k - (n + 1) + 1 = k - n
    OBVIOUS
  <2>2. k - n \in S
    BY <1>2
  <2> QED
    BY <2>1, <2>2
<1> HIDE DEF T
<1>3. \A n \in Nat : n \in T
  BY <1>1, <1>2, Induction
<1>4. \A n \in 0 .. k : k - n \in 0 .. k /\ n = k - (k - n)
  OBVIOUS
<1> QED
  BY <1>3, <1>4 DEF T

\* What holds of a number when it holds of every smaller one holds of all.
LEMMA StrongInduction ==
  ASSUME NEW S, \A n \in Nat : (\A m \in 0 .. n - 1 : m \in S) => n \in S
  PROVE  \A n \in Nat : n \in S
<1> DEFINE T == Nat \ S
<1> SUFFICES ASSUME T # {} PROVE FALSE
  OBVIOUS
<1>1. PICK n \in T : \A m \in T : n <= m
  <2>1. T \subseteq Nat
    OBVIOUS
  <2> HIDE DEF T
  <2> QED
    BY <2>1, LeastNumber
<1>2. \A m \in 0 .. n - 1 : m \in S
  BY <1>1
<1> QED
  BY <1>2

-----------------------------------------------------------------------------
(* Recursive functions.  A recursive definition is a CHOOSE: that there is a *)
(* function for which the equation holds has to be proved.                   *)

\* The value for an argument in B is v0, and any other comes from the one before.
Solves(f, B, v0, E, prior) ==
  \A n \in Nat : f[n] = IF n \in B THEN v0 ELSE E[f[prior[n]]]

\* One recursive use, for a smaller argument, and values in a known set.
LEMMA RecursiveFunction ==
  ASSUME NEW V, NEW v0 \in V, NEW B, NEW prior \in [Nat -> Nat], NEW E \in [V -> V],
         \A n \in Nat : n \notin B => prior[n] < n
  PROVE  \E f \in [Nat -> V] : Solves(f, B, v0, E, prior)
<1> DEFINE UpTo(f, n) ==
             /\ f \in [0 .. n -> V]
             /\ \A m \in 0 .. n : f[m] = IF m \in B THEN v0 ELSE E[f[prior[m]]]
           S == {n \in Nat : \E f : UpTo(f, n)}
           Agreed == {i \in Nat : \A n, m \in Nat : i <= n /\ i <= m =>
                        \A f, g : UpTo(f, n) /\ UpTo(g, m) => f[i] = g[i]}
<1> HIDE DEF S, Agreed
<1>0. \A n \in Nat : prior[n] \in Nat /\ (n \notin B => prior[n] < n)
  OBVIOUS
<1>1. 0 \in S
  <2> DEFINE f == [m \in 0 .. 0 |-> v0]
  <2>1. 0 \in B
    BY <1>0
  <2>2. f \in [0 .. 0 -> V] /\ \A m \in 0 .. 0 : m = 0 /\ f[m] = v0
    OBVIOUS
  <2>3. UpTo(f, 0)
    BY <2>1, <2>2
  <2> HIDE DEF UpTo, f
  <2> QED
    BY <2>3 DEF S
<1>2. ASSUME NEW n \in Nat, n \in S PROVE n + 1 \in S
  <2>1. PICK f : UpTo(f, n)
    BY <1>2 DEF S
  <2> DEFINE g == [m \in 0 .. n + 1 |-> IF m \in 0 .. n THEN f[m]
                                        ELSE IF m \in B THEN v0 ELSE E[f[prior[m]]]]
  <2>2. ASSUME NEW m \in 0 .. n + 1
        PROVE  g[m] \in V /\ g[m] = IF m \in B THEN v0 ELSE E[g[prior[m]]]
    <3>0. m \in Nat /\ m <= n + 1
      OBVIOUS
    <3>1. m \notin B => prior[m] \in 0 .. n
      BY <1>0, <3>0
    <3>2. m \notin B => g[prior[m]] = f[prior[m]] /\ f[prior[m]] \in V
      BY <2>1, <3>1
    <3>3. CASE m \in 0 .. n
      <4>1. g[m] = f[m]
        BY <3>3
      <4> HIDE DEF g
      <4> QED
        BY <2>1, <3>2, <3>3, <4>1
    <3>4. CASE m \notin 0 .. n
      <4>1. g[m] = IF m \in B THEN v0 ELSE E[f[prior[m]]]
        BY <3>4
      <4> HIDE DEF g
      <4> QED
        BY <3>2, <4>1
    <3> QED
      BY <3>3, <3>4
  <2>3. g \in [0 .. n + 1 -> V]
    BY <2>2
  <2> HIDE DEF g
  <2>4. UpTo(g, n + 1)
    BY <2>2, <2>3
  <2> HIDE DEF UpTo
  <2> QED
    BY <2>4 DEF S
<1>3. ASSUME NEW i \in Nat, \A j \in 0 .. i - 1 : j \in Agreed
      PROVE  i \in Agreed
  <2>1. ASSUME NEW n \in Nat, NEW m \in Nat, i <= n, i <= m,
               NEW f, NEW g, UpTo(f, n), UpTo(g, m)
        PROVE  f[i] = g[i]
    <3>0. i \in 0 .. n /\ i \in 0 .. m
      BY <2>1
    <3>1. CASE i \in B
      BY <2>1, <3>0, <3>1
    <3>2. CASE i \notin B
      <4> HIDE DEF UpTo
      <4>1. prior[i] \in Nat /\ prior[i] < i
        BY <1>0, <3>2
      <4>2. prior[i] \in 0 .. i - 1 /\ prior[i] <= n /\ prior[i] <= m
        BY <2>1, <4>1
      <4>3. f[prior[i]] = g[prior[i]]
        BY <1>3, <2>1, <4>1, <4>2 DEF Agreed
      <4>4. f[i] = E[f[prior[i]]] /\ g[i] = E[g[prior[i]]]
        BY <2>1, <3>0, <3>2 DEF UpTo
      <4> QED
        BY <4>3, <4>4
    <3> QED
      BY <3>1, <3>2
  <2> HIDE DEF UpTo
  <2> QED
    BY <2>1 DEF Agreed
<1> DEFINE F == [n \in Nat |-> (CHOOSE f : UpTo(f, n))[n]]
<1>4. \A n \in Nat : UpTo(CHOOSE f : UpTo(f, n), n)
  <2>1. \A n \in Nat : n \in S
    BY <1>1, <1>2, Induction
  <2> HIDE DEF UpTo
  <2> QED
    BY <2>1 DEF S
<1>5. \A i \in Nat : i \in Agreed
  BY <1>3, StrongInduction
<1>6. ASSUME NEW n \in Nat
      PROVE  F[n] \in V /\ F[n] = IF n \in B THEN v0 ELSE E[F[prior[n]]]
  <2> DEFINE f == CHOOSE h : UpTo(h, n)
             g == CHOOSE h : UpTo(h, prior[n])
  <2>1. UpTo(f, n) /\ F[n] = f[n]
    BY <1>4
  <2>2. prior[n] \in Nat /\ F[prior[n]] = g[prior[n]] /\ UpTo(g, prior[n])
    BY <1>0, <1>4
  <2>3. n \in 0 .. n
    OBVIOUS
  <2> HIDE DEF f, g, F
  <2>4. CASE n \in B
    BY <2>1, <2>3, <2>4
  <2>5. CASE n \notin B
    <3>1. prior[n] <= n
      BY <1>0, <2>5
    <3>2. g[prior[n]] = f[prior[n]]
      <4>1. prior[n] \in Agreed /\ prior[n] <= prior[n]
        BY <1>5, <2>2
      <4> HIDE DEF UpTo
      <4> QED
        BY <2>1, <2>2, <3>1, <4>1 DEF Agreed
    <3> QED
      BY <2>1, <2>2, <2>3, <2>5, <3>2
  <2> QED
    BY <2>4, <2>5
<1> HIDE DEF UpTo
<1>7. F \in [Nat -> V]
  BY <1>6
<1> HIDE DEF F
<1>8. Solves(F, B, v0, E, prior)
  BY <1>6 DEF Solves
<1> QED
  BY <1>7, <1>8

\* idx /= 2 at every turn.
LEMMA IndexAboveStep ==
  ASSUME NEW i \in Nat
  PROVE  /\ IndexAbove(i, 0) = i
         /\ \A j \in Nat : /\ IndexAbove(i, j) \in Nat
                           /\ IndexAbove(i, j + 1) = IndexAbove(i, j) \div 2
<1> DEFINE Rule(f) == f = [j \in Nat |-> IF j = 0 THEN i ELSE f[j - 1] \div 2]
           idx == CHOOSE f : Rule(f)
           prior == [n \in Nat |-> IF n = 0 THEN 0 ELSE n - 1]
           half == [n \in Nat |-> n \div 2]
           B == {0}
<1>1. PICK f \in [Nat -> Nat] : Solves(f, B, i, half, prior)
  <2>1. prior \in [Nat -> Nat] /\ half \in [Nat -> Nat]
    OBVIOUS
  <2>2. \A n \in Nat : n \notin B => prior[n] < n
    OBVIOUS
  <2> HIDE DEF Rule, idx, prior, half, B
  <2> QED
    BY <2>1, <2>2, RecursiveFunction
<1>2. ASSUME NEW n \in Nat
      PROVE  f[n] = IF n = 0 THEN i ELSE f[n - 1] \div 2
  <2>1. n # 0 => prior[n] = n - 1 /\ n - 1 \in Nat
    OBVIOUS
  <2>2. n # 0 => half[f[n - 1]] = f[n - 1] \div 2
    BY <2>1
  <2>3. n \in B <=> n = 0
    OBVIOUS
  <2> HIDE DEF prior, half, B
  <2> QED
    BY <1>1, <2>1, <2>2, <2>3 DEF Solves
<1>3. Rule(f)
  BY <1>2
<1>4. Rule(idx)
  BY <1>3
<1>5. \A j \in Nat : IndexAbove(i, j) = idx[j]
  BY DEF IndexAbove
<1> HIDE DEF idx
<1>6. idx[0] = i /\ \A j \in Nat : idx[j + 1] = idx[j] \div 2
  BY <1>4
<1>7. \A j \in Nat : idx[j] \in Nat
  <2> DEFINE S == {j \in Nat : idx[j] \in Nat}
  <2>1. 0 \in S /\ \A j \in Nat : j \in S => j + 1 \in S
    BY <1>6
  <2> HIDE DEF S
  <2>2. \A j \in Nat : j \in S
    BY <2>1, Induction
  <2> QED
    BY <2>2 DEF S
<1> QED
  BY <1>5, <1>6, <1>7

\* depth_for: a level of one node or none is the last, any other has one above
\* it of half the nodes, rounded up.
LEMMA DepthForStep ==
  \A n \in Nat : /\ DepthFor(n) \in Nat
                 /\ DepthFor(n) = IF n <= 1 THEN 0 ELSE 1 + DepthFor((n + 1) \div 2)
<1> DEFINE Rule(f) == f = [m \in Nat |-> IF m <= 1 THEN 0 ELSE 1 + f[(m + 1) \div 2]]
           depth == CHOOSE f : Rule(f)
           prior == [m \in Nat |-> (m + 1) \div 2]
           more == [m \in Nat |-> 1 + m]
           B == {0, 1}
<1>1. PICK f \in [Nat -> Nat] : Solves(f, B, 0, more, prior)
  <2>1. prior \in [Nat -> Nat] /\ more \in [Nat -> Nat]
    OBVIOUS
  <2>2. \A n \in Nat : n \notin B => prior[n] < n
    OBVIOUS
  <2>3. 0 \in Nat
    OBVIOUS
  <2> HIDE DEF Rule, depth, prior, more, B
  <2> QED
    BY <2>1, <2>2, <2>3, RecursiveFunction
<1>2. ASSUME NEW n \in Nat
      PROVE  f[n] = IF n <= 1 THEN 0 ELSE 1 + f[(n + 1) \div 2]
  <2>1. prior[n] = (n + 1) \div 2 /\ (n + 1) \div 2 \in Nat
    OBVIOUS
  <2>2. more[f[prior[n]]] = 1 + f[(n + 1) \div 2]
    BY <2>1
  <2>3. n \in B <=> n <= 1
    OBVIOUS
  <2> HIDE DEF prior, more, B
  <2> QED
    BY <1>1, <2>2, <2>3 DEF Solves
<1>3. Rule(f)
  BY <1>2
<1>4. Rule(depth)
  BY <1>3
<1>5. \A n \in Nat : DepthFor(n) = depth[n]
  BY DEF DepthFor
<1> HIDE DEF depth
<1>6. \A n \in Nat : depth[n] = IF n <= 1 THEN 0 ELSE 1 + depth[(n + 1) \div 2]
  BY <1>4
<1>7. \A n \in Nat : depth[n] \in Nat
  <2> DEFINE S == {n \in Nat : depth[n] \in Nat}
  <2>1. ASSUME NEW n \in Nat, \A m \in 0 .. n - 1 : m \in S PROVE n \in S
    <3>1. n > 1 => (n + 1) \div 2 \in 0 .. n - 1
      OBVIOUS
    <3> QED
      BY <1>6, <2>1, <3>1
  <2> HIDE DEF S
  <2>2. \A n \in Nat : n \in S
    BY <2>1, StrongInduction
  <2> QED
    BY <2>2 DEF S
<1> QED
  BY <1>5, <1>6, <1>7

-----------------------------------------------------------------------------
(* The other two recursive functions have values in no set known beforehand, *)
(* but an interval as their domain: they are built up one argument at a time.*)

\* The level after each turn of the loop.
LEMMA TurnsStep ==
  ASSUME NEW v, IsVec(v)
  PROVE  /\ Turns(v)[0] = v
         /\ \A j \in 0 .. Len(v) - 1 :
              Turns(v)[j + 1] = IF Len(Turns(v)[j]) > 1 THEN NextLevel(Turns(v)[j])
                                ELSE Turns(v)[j]
<1> DEFINE After(prev) == IF Len(prev) > 1 THEN NextLevel(prev) ELSE prev
           Rule(f, n) == f = [j \in 0 .. n |-> IF j = 0 THEN v ELSE After(f[j - 1])]
           S == {n \in Nat : \E f : Rule(f, n)}
<1>0. Len(v) \in Nat
  BY VecLen
<1>1. Turns(v) = CHOOSE f : Rule(f, Len(v))
  BY DEF Turns
<1> HIDE DEF After, S
<1>2. 0 \in S
  <2> DEFINE f == [j \in 0 .. 0 |-> v]
  <2>1. Rule(f, 0)
    OBVIOUS
  <2> HIDE DEF f, Rule
  <2> QED
    BY <2>1 DEF S
<1>3. ASSUME NEW n \in Nat, n \in S PROVE n + 1 \in S
  <2>1. PICK f : Rule(f, n)
    BY <1>3 DEF S
  <2> DEFINE g == [j \in 0 .. n + 1 |-> IF j \in 0 .. n THEN f[j] ELSE After(f[n])]
  <2>2. ASSUME NEW j \in 0 .. n + 1
        PROVE  g[j] = IF j = 0 THEN v ELSE After(g[j - 1])
    <3>1. CASE j = 0
      BY <2>1, <3>1
    <3>2. CASE j \in 1 .. n
      <4>1. j - 1 \in 0 .. n /\ j \in 0 .. n /\ j - 1 \in 0 .. n + 1
        BY <3>2
      <4>2. g[j] = f[j] /\ g[j - 1] = f[j - 1]
        BY <4>1
      <4> QED
        BY <2>1, <3>2, <4>1, <4>2
    <3>3. CASE j = n + 1
      <4>1. j - 1 = n /\ j \notin 0 .. n /\ n \in 0 .. n + 1 /\ n \in 0 .. n /\ j # 0
        BY <3>3
      <4> QED
        BY <4>1
    <3> QED
      BY <3>1, <3>2, <3>3
  <2>3. Rule(g, n + 1)
    <3>1. g = [j \in 0 .. n + 1 |-> g[j]]
      OBVIOUS
    <3> HIDE DEF g
    <3> QED
      BY <2>2, <3>1
  <2> HIDE DEF Rule, g
  <2> QED
    BY <2>3 DEF S
<1>4. Rule(Turns(v), Len(v))
  <2>1. \A n \in Nat : n \in S
    BY <1>2, <1>3, Induction
  <2> HIDE DEF Rule
  <2> QED
    BY <1>0, <1>1, <2>1 DEF S
<1>5. Turns(v)[0] = v
  BY <1>0, <1>4
<1>6. ASSUME NEW j \in 0 .. Len(v) - 1
      PROVE  Turns(v)[j + 1] = After(Turns(v)[j])
  <2>1. j + 1 \in 0 .. Len(v) /\ j + 1 # 0 /\ (j + 1) - 1 = j
    BY <1>0
  <2> QED
    BY <1>4, <2>1
<1> QED
  BY <1>5, <1>6 DEF After

\* The node after each turn of a climb.
LEMMA ClimbedNodesStep ==
  ASSUME NEW leaf, NEW i, NEW s, Len(s) \in Nat
  PROVE  /\ ClimbedNodes(leaf, i, s)[0] = leaf
         /\ \A j \in 0 .. Len(s) - 1 :
              ClimbedNodes(leaf, i, s)[j + 1]
                = Combine(IndexAbove(i, j), ClimbedNodes(leaf, i, s)[j], s[j + 1])
<1> DEFINE After(prev, j) == Combine(IndexAbove(i, j - 1), prev, s[j])
           Rule(f, n) == f = [j \in 0 .. n |-> IF j = 0 THEN leaf ELSE After(f[j - 1], j)]
           S == {n \in Nat : \E f : Rule(f, n)}
           nodes == ClimbedNodes(leaf, i, s)
<1>1. nodes = CHOOSE f : Rule(f, Len(s))
  BY DEF ClimbedNodes
<1> HIDE DEF After, S, nodes
<1>2. 0 \in S
  <2> DEFINE f == [j \in 0 .. 0 |-> leaf]
  <2>1. Rule(f, 0)
    OBVIOUS
  <2> HIDE DEF f, Rule
  <2> QED
    BY <2>1 DEF S
<1>3. ASSUME NEW n \in Nat, n \in S PROVE n + 1 \in S
  <2>1. PICK f : Rule(f, n)
    BY <1>3 DEF S
  <2> DEFINE g == [j \in 0 .. n + 1 |-> IF j \in 0 .. n THEN f[j] ELSE After(f[n], j)]
  <2>2. ASSUME NEW j \in 0 .. n + 1
        PROVE  g[j] = IF j = 0 THEN leaf ELSE After(g[j - 1], j)
    <3>1. CASE j = 0
      BY <2>1, <3>1
    <3>2. CASE j \in 1 .. n
      <4>1. j - 1 \in 0 .. n /\ j \in 0 .. n /\ j - 1 \in 0 .. n + 1
        BY <3>2
      <4>2. g[j] = f[j] /\ g[j - 1] = f[j - 1]
        BY <4>1
      <4> QED
        BY <2>1, <3>2, <4>1, <4>2
    <3>3. CASE j = n + 1
      <4>1. j - 1 = n /\ j \notin 0 .. n /\ n \in 0 .. n + 1 /\ n \in 0 .. n /\ j # 0
        BY <3>3
      <4> QED
        BY <4>1
    <3> QED
      BY <3>1, <3>2, <3>3
  <2>3. Rule(g, n + 1)
    <3>1. g = [j \in 0 .. n + 1 |-> g[j]]
      OBVIOUS
    <3> HIDE DEF g
    <3> QED
      BY <2>2, <3>1
  <2> HIDE DEF Rule, g
  <2> QED
    BY <2>3 DEF S
<1>4. Rule(nodes, Len(s))
  <2>1. \A n \in Nat : n \in S
    BY <1>2, <1>3, Induction
  <2> HIDE DEF Rule
  <2> QED
    BY <1>1, <2>1 DEF S
<1>5. nodes[0] = leaf
  BY <1>4
<1>6. ASSUME NEW j \in 0 .. Len(s) - 1
      PROVE  nodes[j + 1] = Combine(IndexAbove(i, j), nodes[j], s[j + 1])
  <2>1. j + 1 \in 0 .. Len(s) /\ j + 1 # 0 /\ (j + 1) - 1 = j
    OBVIOUS
  <2>2. nodes[j + 1] = After(nodes[j], j + 1)
    BY <1>4, <2>1
  <2> QED
    BY <2>1, <2>2 DEF After
<1> QED
  BY <1>5, <1>6 DEF nodes

-----------------------------------------------------------------------------
(* The tree: depth_for of the number of leaves is its height *)

\* The loop leaves, at every turn below the height, a level of more than one
\* node, and from then on the root alone.
LEMMA Levels ==
  ASSUME NEW v, IsVec(v), Len(v) >= 1, NEW h, h = DepthFor(Len(v))
  PROVE  /\ h \in 0 .. Len(v) /\ Len(v) \in Nat
         /\ Turns(v)[0] = v
         /\ \A j \in 0 .. Len(v) :
              /\ IsVec(Turns(v)[j]) /\ Len(Turns(v)[j]) >= 1
              /\ Len(Turns(v)[j]) > 1 <=> j < h
         /\ \A j \in 0 .. h - 1 : Turns(v)[j + 1] = NextLevel(Turns(v)[j])
         /\ \A j \in h .. Len(v) : Turns(v)[j] = Turns(v)[h]
<1> DEFINE T == Turns(v)
           S == {j \in Nat :
                   /\ IsVec(T[j]) /\ Len(T[j]) >= 1
                   /\ Len(T[j]) = 1 \/ Len(T[j]) + j <= Len(v)
                   /\ j + DepthFor(Len(T[j])) = h \/ (j >= h /\ Len(T[j]) = 1)}
<1>0. Len(v) \in Nat /\ h \in Nat
  BY VecLen, DepthForStep
<1>1. /\ T[0] = v
      /\ \A j \in 0 .. Len(v) - 1 :
           T[j + 1] = IF Len(T[j]) > 1 THEN NextLevel(T[j]) ELSE T[j]
  BY TurnsStep
<1> HIDE DEF T, S
<1>2. 0 \in S
  <2>1. 0 + DepthFor(Len(T[0])) = h
    BY <1>0, <1>1
  <2> QED
    BY <1>0, <1>1, <2>1 DEF S
<1>3. ASSUME NEW j \in 0 .. Len(v) - 1, j \in S PROVE j + 1 \in S
  <2> DEFINE n == Len(T[j])
  <2>0. /\ j \in Nat /\ j + 1 \in Nat /\ j < Len(v)
        /\ IsVec(T[j]) /\ n >= 1 /\ n \in Nat
        /\ n = 1 \/ n + j <= Len(v)
        /\ j + DepthFor(n) = h \/ (j >= h /\ n = 1)
        /\ (n + 1) \div 2 \in Nat
    <3>1. /\ IsVec(T[j]) /\ n >= 1
          /\ n = 1 \/ n + j <= Len(v)
          /\ j + DepthFor(n) = h \/ (j >= h /\ n = 1)
      BY <1>3 DEF S
    <3>2. n \in Nat
      BY <3>1, VecLen
    <3> HIDE DEF n
    <3> QED
      BY <1>0, <3>1, <3>2, Halves
  <2>1. CASE n > 1
    <3>1. T[j + 1] = NextLevel(T[j])
      BY <1>1, <2>1
    <3>2. IsVec(T[j + 1]) /\ Len(T[j + 1]) = (n + 1) \div 2
      BY <2>0, <3>1, NextLevelProperties
    <3> HIDE DEF n
    <3>3. DepthFor(n) = 1 + DepthFor((n + 1) \div 2) /\ DepthFor((n + 1) \div 2) \in Nat
      BY <2>0, <2>1, DepthForStep
    <3>4. j + 1 + DepthFor((n + 1) \div 2) = h
      BY <1>0, <2>0, <2>1, <3>3
    <3>5. (n + 1) \div 2 >= 1 /\ (n + 1) \div 2 + (j + 1) <= Len(v)
      BY <1>0, <2>0, <2>1
    <3> QED
      BY <2>0, <3>2, <3>4, <3>5 DEF S
  <2>2. CASE ~(n > 1)
    <3>1. n = 1
      <4> HIDE DEF n
      <4> QED
        BY <2>0, <2>2
    <3>2. T[j + 1] = T[j]
      BY <1>1, <2>2
    <3>3. DepthFor(n) = 0
      BY <3>1, DepthForStep
    <3>4. j + 1 >= h
      <4> HIDE DEF n
      <4> QED
        BY <1>0, <2>0, <3>3
    <3> QED
      BY <2>0, <3>1, <3>2, <3>4 DEF S
  <2> QED
    BY <2>1, <2>2
<1>4. \A j \in 0 .. Len(v) : j \in S
  BY <1>0, <1>2, <1>3, InductionUpTo
<1>5. ASSUME NEW j \in 0 .. Len(v)
      PROVE  IsVec(T[j]) /\ Len(T[j]) >= 1 /\ (Len(T[j]) > 1 <=> j < h)
  <2> DEFINE n == Len(T[j])
  <2>1. /\ j \in Nat /\ IsVec(T[j]) /\ n >= 1 /\ n \in Nat
        /\ j + DepthFor(n) = h \/ (j >= h /\ n = 1)
        /\ (n + 1) \div 2 \in Nat
    <3>1. /\ IsVec(T[j]) /\ n >= 1
          /\ j + DepthFor(n) = h \/ (j >= h /\ n = 1)
      BY <1>4 DEF S
    <3>2. n \in Nat
      BY <3>1, VecLen
    <3> HIDE DEF n
    <3> QED
      BY <1>0, <3>1, <3>2, Halves
  <2> HIDE DEF n
  <2>2. /\ DepthFor(n) \in Nat /\ DepthFor((n + 1) \div 2) \in Nat
        /\ DepthFor(n) = IF n <= 1 THEN 0 ELSE 1 + DepthFor((n + 1) \div 2)
    BY <2>1, DepthForStep
  <2>3. n > 1 <=> j < h
    BY <1>0, <2>1, <2>2
  <2> QED
    BY <2>1, <2>3 DEF n
<1>6. h <= Len(v)
  <2> DEFINE n == Len(T[Len(v)])
  <2>1. n = 1 \/ n + Len(v) <= Len(v)
    BY <1>0, <1>4 DEF S
  <2>2. n \in Nat /\ n >= 1 /\ (n > 1 <=> Len(v) < h)
    BY <1>0, <1>5, VecLen
  <2> HIDE DEF n
  <2> QED
    BY <1>0, <2>1, <2>2
<1>7. ASSUME NEW j \in 0 .. h - 1 PROVE T[j + 1] = NextLevel(T[j])
  <2>1. j \in 0 .. Len(v) - 1 /\ j \in 0 .. Len(v) /\ j < h
    BY <1>0, <1>6
  <2> QED
    BY <1>1, <1>5, <2>1
<1>8. ASSUME NEW j \in h .. Len(v) PROVE T[j] = T[h]
  <2> DEFINE R == {k \in Nat : k >= h => T[k] = T[h]}
  <2>1. 0 \in R
    BY <1>0 DEF R
  <2>2. ASSUME NEW k \in 0 .. Len(v) - 1, k \in R PROVE k + 1 \in R
    <3>1. CASE k + 1 > h
      <4>1. k >= h /\ k \in 0 .. Len(v)
        BY <1>0, <3>1
      <4>2. ~(Len(T[k]) > 1)
        BY <1>0, <1>5, <4>1
      <4>3. T[k + 1] = T[k]
        BY <1>1, <4>2
      <4> QED
        BY <2>2, <4>1, <4>3
    <3>2. CASE ~(k + 1 > h)
      BY <1>0, <3>2
    <3> QED
      BY <3>1, <3>2
  <2> HIDE DEF R
  <2>3. \A k \in 0 .. Len(v) : k \in R
    BY <1>0, <2>1, <2>2, InductionUpTo
  <2> QED
    BY <1>0, <2>3 DEF R
<1> QED
  BY <1>0, <1>1, <1>5, <1>6, <1>7, <1>8 DEF T

\* The root is the one node of the last level.
LEMMA RootOnTop ==
  ASSUME NEW v, IsVec(v), Len(v) >= 1
  PROVE  /\ MerkleRoot(v) = At(Turns(v)[DepthFor(Len(v))], 0)
         /\ Len(Turns(v)[DepthFor(Len(v))]) = 1
<1> DEFINE h == DepthFor(Len(v))
<1>1. h \in 0 .. Len(v) /\ Len(v) \in Nat /\ h \in h .. Len(v) /\ Len(v) \in h .. Len(v)
  <2>1. h \in 0 .. Len(v) /\ Len(v) \in Nat
    BY Levels
  <2> QED
    BY <2>1
<1>2. Turns(v)[Len(v)] = Turns(v)[h]
  BY <1>1, Levels
<1>3. IsVec(Turns(v)[h]) /\ Len(Turns(v)[h]) >= 1 /\ ~(Len(Turns(v)[h]) > 1)
  BY <1>1, Levels
<1>4. Len(Turns(v)[h]) = 1
  BY <1>3, VecLen
<1> QED
  BY <1>2, <1>4 DEF MerkleRoot, At

\* Halving a leaf's index leads to the node above the leaf at every level.
LEMMA PathInTree ==
  ASSUME NEW v, IsVec(v), Len(v) >= 1, NEW i \in Nat, i < Len(v)
  PROVE  \A j \in 0 .. DepthFor(Len(v)) :
           IndexAbove(i, j) \in Nat /\ IndexAbove(i, j) < Len(Turns(v)[j])
<1> DEFINE h == DepthFor(Len(v))
           S == {j \in Nat : IndexAbove(i, j) < Len(Turns(v)[j])}
<1>0. h \in Nat /\ h <= Len(v) /\ Len(v) \in Nat
  BY Levels
<1>1. 0 \in S
  BY IndexAboveStep, Levels
<1>2. ASSUME NEW j \in 0 .. h - 1, j \in S PROVE j + 1 \in S
  <2>1. j \in 0 .. Len(v) /\ j \in Nat
    BY <1>0
  <2>2. IsVec(Turns(v)[j]) /\ Turns(v)[j + 1] = NextLevel(Turns(v)[j])
    BY <2>1, Levels
  <2>3. IndexAbove(i, j) \in Nat /\ IndexAbove(i, j + 1) = IndexAbove(i, j) \div 2
    BY <2>1, IndexAboveStep
  <2>4. IndexAbove(i, j) < Len(Turns(v)[j])
    BY <1>2
  <2> QED
    BY <2>1, <2>2, <2>3, <2>4, ParentAt
<1> HIDE DEF S
<1>3. \A j \in 0 .. h : j \in S
  BY <1>0, <1>1, <1>2, InductionUpTo
<1> QED
  BY <1>0, <1>3, IndexAboveStep DEF S

\* build_proof collects, level by level, the sibling of the node on the path.
LEMMA ProofSiblings ==
  ASSUME NEW v, IsVec(v), Len(v) >= 1, NEW i \in Nat, i < Len(v)
  PROVE  /\ IsVec(BuildProof(v, i)) /\ Len(BuildProof(v, i)) = DepthFor(Len(v))
         /\ \A j \in 0 .. DepthFor(Len(v)) - 1 :
              /\ BuildProof(v, i)[j + 1]
                   = At(Padded(Turns(v)[j]), SiblingIndex(IndexAbove(i, j)))
              /\ BuildProof(v, i)[j + 1] \in Nodes(Turns(v)[j])
<1> DEFINE h == DepthFor(Len(v))
           turns == Cardinality({j \in 0 .. Len(v) : Len(Turns(v)[j]) > 1})
           w == BuildProof(v, i)
<1>0. h \in Nat /\ h <= Len(v) /\ Len(v) \in Nat
  BY Levels
<1>1. {j \in 0 .. Len(v) : Len(Turns(v)[j]) > 1} = 0 .. h - 1
  <2>1. \A j \in 0 .. Len(v) : Len(Turns(v)[j]) > 1 <=> j < h
    BY Levels
  <2>2. \A j \in 0 .. h - 1 : j \in 0 .. Len(v) /\ j < h
    BY <1>0
  <2>3. \A j \in 0 .. Len(v) : j < h => j \in 0 .. h - 1
    BY <1>0
  <2> HIDE DEF h
  <2> QED
    BY <2>1, <2>2, <2>3
<1>2. turns = h
  <2>1. Cardinality(0 .. h - 1) = h
    <3> HIDE DEF h
    <3>1. 0 \in Int /\ h - 1 \in Int
      BY <1>0
    <3>2. Cardinality(0 .. h - 1) = IF 0 > h - 1 THEN 0 ELSE (h - 1) - 0 + 1
      BY <3>1, FS_Interval
    <3> QED
      BY <1>0, <3>2
  <2> QED
    BY <1>1, <2>1
<1>3. w = [j \in 1 .. turns |->
             At(Padded(Turns(v)[j - 1]), SiblingIndex(IndexAbove(i, j - 1)))]
  BY DEF BuildProof
<1> HIDE DEF turns, w, h
<1>4. IsVec(w) /\ Len(w) = h
  BY <1>0, <1>2, <1>3, VecOfFunction
<1>5. ASSUME NEW j \in 0 .. h - 1
      PROVE  /\ w[j + 1] = At(Padded(Turns(v)[j]), SiblingIndex(IndexAbove(i, j)))
             /\ w[j + 1] \in Nodes(Turns(v)[j])
  <2>1. j + 1 \in 1 .. turns /\ (j + 1) - 1 = j /\ j \in 0 .. Len(v) /\ j \in 0 .. h
    BY <1>0, <1>2
  <2>2. w[j + 1] = At(Padded(Turns(v)[j]), SiblingIndex(IndexAbove(i, j)))
    BY <1>3, <2>1
  <2>3. IsVec(Turns(v)[j]) /\ IndexAbove(i, j) \in Nat /\ IndexAbove(i, j) < Len(Turns(v)[j])
    BY <2>1, Levels, PathInTree DEF h
  <2> QED
    BY <2>2, <2>3, ParentAt
<1> QED
  BY <1>4, <1>5 DEF w, h

-----------------------------------------------------------------------------
(* Climbing *)

\* From the leaf at i, the siblings of build_proof lead to the node above it.
LEMMA ClimbCompletes ==
  ASSUME NEW v, IsVec(v), Len(v) >= 1, NEW i \in Nat, i < Len(v),
         NEW m \in 0 .. DepthFor(Len(v)), NEW s, Len(s) = m,
         \A j \in 0 .. m - 1 : s[j + 1] = BuildProof(v, i)[j + 1]
  PROVE  ClimbFrom(At(v, i), i, s) = At(Turns(v)[m], IndexAbove(i, m))
<1> DEFINE N == ClimbedNodes(At(v, i), i, s)
           S == {j \in Nat : N[j] = At(Turns(v)[j], IndexAbove(i, j))}
<1>0. m \in Nat /\ DepthFor(Len(v)) \in Nat /\ m <= DepthFor(Len(v)) /\ m <= Len(v) /\ Len(v) \in Nat
  BY Levels
<1>1. 0 \in S
  <2>1. N[0] = At(v, i) /\ IndexAbove(i, 0) = i /\ Turns(v)[0] = v
    BY <1>0, ClimbedNodesStep, IndexAboveStep, Levels
  <2> HIDE DEF N
  <2> QED
    BY <2>1
<1>2. ASSUME NEW j \in 0 .. m - 1, j \in S PROVE j + 1 \in S
  <2>1. j \in Nat /\ j \in 0 .. DepthFor(Len(v)) - 1 /\ j \in 0 .. Len(v)
        /\ j \in 0 .. DepthFor(Len(v))
    BY <1>0
  <2>2. IsVec(Turns(v)[j]) /\ Turns(v)[j + 1] = NextLevel(Turns(v)[j])
    BY <2>1, Levels
  <2>3. /\ IndexAbove(i, j) \in Nat /\ IndexAbove(i, j) < Len(Turns(v)[j])
        /\ IndexAbove(i, j + 1) = IndexAbove(i, j) \div 2
    BY <2>1, IndexAboveStep, PathInTree
  <2>4. s[j + 1] = At(Padded(Turns(v)[j]), SiblingIndex(IndexAbove(i, j)))
    BY <2>1, ProofSiblings
  <2>5. N[j + 1] = Combine(IndexAbove(i, j), N[j], s[j + 1])
    BY <1>0, ClimbedNodesStep
  <2>6. N[j] = At(Turns(v)[j], IndexAbove(i, j))
    BY <1>2
  <2> HIDE DEF N
  <2>7. N[j + 1] = At(Turns(v)[j + 1], IndexAbove(i, j + 1))
    BY <2>2, <2>3, <2>4, <2>5, <2>6, ParentAt
  <2> QED
    BY <2>1, <2>7
<1> HIDE DEF S, N
<1>3. \A j \in 0 .. m : j \in S
  BY <1>0, <1>1, <1>2, InductionUpTo
<1>4. N[m] = At(Turns(v)[m], IndexAbove(i, m))
  BY <1>0, <1>3 DEF S
<1> QED
  BY <1>4 DEF N, ClimbFrom

\* Whatever the siblings, who reaches the node above the leaf at i began there.
LEMMA ClimbDetermines ==
  ASSUME NEW v, IsVec(v), Len(v) >= 1, NEW i \in Nat, i < Len(v),
         NEW s, Len(s) \in 0 .. DepthFor(Len(v)), NEW leaf,
         ClimbFrom(leaf, i, s) = At(Turns(v)[Len(s)], IndexAbove(i, Len(s)))
  PROVE  leaf = At(v, i)
<1> DEFINE N == ClimbedNodes(leaf, i, s)
           m == Len(s)
           S == {j \in Nat : N[j] = At(Turns(v)[j], IndexAbove(i, j))}
<1>0. m \in Nat /\ DepthFor(Len(v)) \in Nat /\ m <= DepthFor(Len(v)) /\ m <= Len(v) /\ Len(v) \in Nat
  BY Levels
<1>1. m \in S
  BY <1>0 DEF ClimbFrom
<1>2. ASSUME NEW j \in 0 .. m - 1, j + 1 \in S PROVE j \in S
  <2>1. j \in Nat /\ j \in 0 .. DepthFor(Len(v)) - 1 /\ j \in 0 .. Len(v)
        /\ j \in 0 .. DepthFor(Len(v))
    BY <1>0
  <2>2. IsVec(Turns(v)[j]) /\ Turns(v)[j + 1] = NextLevel(Turns(v)[j])
    BY <2>1, Levels
  <2>3. /\ IndexAbove(i, j) \in Nat /\ IndexAbove(i, j) < Len(Turns(v)[j])
        /\ IndexAbove(i, j + 1) = IndexAbove(i, j) \div 2
    BY <2>1, IndexAboveStep, PathInTree
  <2>4. N[j + 1] = Combine(IndexAbove(i, j), N[j], s[j + 1])
    BY <1>0, ClimbedNodesStep
  <2>5. N[j + 1] = At(Turns(v)[j + 1], IndexAbove(i, j + 1))
    BY <1>2
  <2> HIDE DEF N
  <2>6. Combine(IndexAbove(i, j), N[j], s[j + 1])
          = At(NextLevel(Turns(v)[j]), IndexAbove(i, j) \div 2)
    BY <2>2, <2>3, <2>4, <2>5
  <2>7. N[j] = At(Turns(v)[j], IndexAbove(i, j))
    BY <2>2, <2>3, <2>6, CombineDetermines
  <2> QED
    BY <2>1, <2>7
<1>3. ASSUME 0 \in S PROVE leaf = At(v, i)
  <2>1. N[0] = leaf /\ IndexAbove(i, 0) = i /\ Turns(v)[0] = v
    BY <1>0, ClimbedNodesStep, IndexAboveStep, Levels
  <2> HIDE DEF N
  <2> QED
    BY <1>3, <2>1
<1> HIDE DEF S, m
<1>4. 0 \in S
  <2>1. \A j \in 0 .. m : j \in S
    BY <1>0, <1>1, <1>2, InductionDownFrom
  <2> QED
    BY <1>0, <2>1
<1> QED
  BY <1>3, <1>4

\* What is not the hash of two nodes, as a leaf is not.
NoParent(x) == \A l, r : ParentHash(l, r) # x

LEMMA CombinesAreParents ==
  \A i, node, sib : ~NoParent(Combine(i, node, sib))
BY DEF NoParent, Combine

\* The nodes above the leaves are parents.
LEMMA LevelsOfParents ==
  ASSUME NEW v, IsVec(v), NEW x \in Nodes(NextLevel(v))
  PROVE  ~NoParent(x)
<1>1. PICK k \in 1 .. Len(NextLevel(v)) : x = NextLevel(v)[k]
  BY VecLen, NextLevelProperties DEF Nodes
<1> QED
  BY <1>1, NextLevelProperties DEF NoParent

\* A climb that starts at no parent and ends in level k of the tree has k
\* turns, so that it started at a leaf: with fewer turns it would have started
\* at a parent, with more it would have gone through a leaf that is one.
LEMMA ClimbStartsAtLeaf ==
  ASSUME NEW v, IsVec(v), Len(v) >= 1, \A x \in Nodes(v) : NoParent(x),
         NEW leaf, NoParent(leaf), NEW i \in Nat, NEW s, Len(s) \in Nat,
         NEW k \in 0 .. DepthFor(Len(v)), ClimbFrom(leaf, i, s) \in Nodes(Turns(v)[k])
  PROVE  Len(s) = k /\ leaf \in Nodes(v)
<1> DEFINE N == ClimbedNodes(leaf, i, s)
           m == Len(s)
           S == {j \in Nat : j >= m - k => N[j] \in Nodes(Turns(v)[j - (m - k)])}
<1>0. /\ m \in Nat /\ k \in Nat /\ DepthFor(Len(v)) \in Nat /\ k <= DepthFor(Len(v))
      /\ k <= Len(v) /\ Len(v) \in Nat
  BY Levels
<1>1. m \in S
  <2>1. m - (m - k) = k
    BY <1>0
  <2> QED
    BY <1>0, <2>1 DEF ClimbFrom
<1>2. N[0] = leaf /\ \A j \in 0 .. m - 1 : N[j + 1] = Combine(IndexAbove(i, j), N[j], s[j + 1])
  BY <1>0, ClimbedNodesStep
<1> HIDE DEF N, m
<1>3. ASSUME NEW j \in 0 .. m - 1, j + 1 \in S PROVE j \in S
  <2> DEFINE q == j - (m - k)
  <2> SUFFICES ASSUME j >= m - k PROVE N[j] \in Nodes(Turns(v)[q])
    OBVIOUS
  <2>1. j \in Nat /\ j + 1 >= m - k /\ (j + 1) - (m - k) = q + 1
        /\ q \in 0 .. DepthFor(Len(v)) - 1 /\ q \in 0 .. Len(v)
    BY <1>0
  <2>2. N[j + 1] \in Nodes(Turns(v)[q + 1])
    BY <1>3, <2>1
  <2> HIDE DEF q
  <2>3. IsVec(Turns(v)[q]) /\ Turns(v)[q + 1] = NextLevel(Turns(v)[q])
    BY <2>1, Levels
  <2>4. Combine(IndexAbove(i, j), N[j], s[j + 1]) \in Nodes(NextLevel(Turns(v)[q]))
    BY <1>2, <2>2, <2>3
  <2>5. IndexAbove(i, j) \in Nat
    BY <2>1, IndexAboveStep
  <2> QED
    BY <2>3, <2>4, <2>5, ChildrenInLevel
<1>4. \A j \in 0 .. m : j >= m - k => N[j] \in Nodes(Turns(v)[j - (m - k)])
  <2> HIDE DEF S
  <2>1. \A j \in 0 .. m : j \in S
    BY <1>0, <1>1, <1>3, InductionDownFrom
  <2> QED
    BY <2>1 DEF S
<1>5. ~(m < k)
  <2> SUFFICES ASSUME m < k PROVE FALSE
    OBVIOUS
  <2> DEFINE q == k - m - 1
  <2>1. 0 >= m - k /\ 0 - (m - k) = q + 1 /\ q \in 0 .. DepthFor(Len(v)) - 1
        /\ q \in 0 .. Len(v) /\ 0 \in 0 .. m
    BY <1>0
  <2>2. leaf \in Nodes(Turns(v)[q + 1])
    BY <1>2, <1>4, <2>1
  <2> HIDE DEF q
  <2>3. IsVec(Turns(v)[q]) /\ Turns(v)[q + 1] = NextLevel(Turns(v)[q])
    BY <2>1, Levels
  <2> QED
    BY <2>2, <2>3, LevelsOfParents
<1>6. ~(m > k)
  <2> SUFFICES ASSUME m > k PROVE FALSE
    OBVIOUS
  <2> DEFINE j == m - k - 1
  <2>1. j \in 0 .. m - 1 /\ j + 1 \in 0 .. m /\ j + 1 >= m - k /\ (j + 1) - (m - k) = 0
    BY <1>0
  <2>2. N[j + 1] \in Nodes(Turns(v)[0])
    BY <1>4, <2>1
  <2> HIDE DEF j
  <2>3. N[j + 1] \in Nodes(v)
    BY <2>2, Levels
  <2> QED
    BY <1>2, <2>1, <2>3, CombinesAreParents
<1>7. m = k
  BY <1>0, <1>5, <1>6
<1>8. leaf \in Nodes(v)
  <2>1. 0 \in 0 .. m /\ 0 >= m - k /\ 0 - (m - k) = 0
    BY <1>0, <1>7
  <2>2. N[0] \in Nodes(Turns(v)[0])
    BY <1>4, <2>1
  <2> QED
    BY <1>2, <2>2, Levels
<1> QED
  BY <1>7, <1>8 DEF m

-----------------------------------------------------------------------------
(* verify_proof *)

IsDigest(x) == \E input : x = DoubleSha256(input)

\* A digest is a string that decodes.
LEMMA DigestsDecode ==
  \A x : IsDigest(x) => x \notin Undecodable
<1> SUFFICES ASSUME NEW input PROVE DoubleSha256(input) \notin Undecodable
  BY DEF IsDigest
<1>1. "digest" \in DOMAIN DoubleSha256(input)
  BY DEF DoubleSha256
<1>2. "digest" \notin DOMAIN NotHex /\ "digest" \notin DOMAIN WrongLength
  BY DEF NotHex, WrongLength
<1> QED
  BY <1>1, <1>2 DEF Undecodable

\* Over digests every level is one of digests.
LEMMA LevelsOfDigests ==
  ASSUME NEW v, IsVec(v), Len(v) >= 1, \A x \in Nodes(v) : IsDigest(x),
         NEW j \in 0 .. DepthFor(Len(v)), NEW x \in Nodes(Turns(v)[j])
  PROVE  IsDigest(x)
<1>0. j \in Nat /\ DepthFor(Len(v)) \in Nat /\ DepthFor(Len(v)) <= Len(v) /\ Len(v) \in Nat
  BY Levels
<1>1. CASE j = 0
  BY <1>1, Levels
<1>2. CASE j # 0
  <2> DEFINE q == j - 1
  <2>1. q \in 0 .. DepthFor(Len(v)) - 1 /\ q \in 0 .. Len(v) /\ j = q + 1
    BY <1>0, <1>2
  <2> HIDE DEF q
  <2>2. IsVec(Turns(v)[q]) /\ Turns(v)[j] = NextLevel(Turns(v)[q])
    <3>1. \A k \in 0 .. Len(v) : IsVec(Turns(v)[k])
      BY Levels
    <3>2. \A k \in 0 .. DepthFor(Len(v)) - 1 : Turns(v)[k + 1] = NextLevel(Turns(v)[k])
      BY Levels
    <3> QED
      BY <2>1, <3>1, <3>2
  <2>3. ~NoParent(x)
    BY <2>2, LevelsOfParents
  <2> QED
    BY <2>3 DEF NoParent, IsDigest, ParentHash
<1> QED
  BY <1>1, <1>2

\* So is every proof, and the root.
LEMMA ProofsOfDigests ==
  ASSUME NEW v, IsVec(v), Len(v) >= 1, \A x \in Nodes(v) : IsDigest(x)
  PROVE  /\ IsDigest(MerkleRoot(v))
         /\ \A i \in Nat : i < Len(v) => \A x \in Nodes(BuildProof(v, i)) : IsDigest(x)
<1> DEFINE h == DepthFor(Len(v))
<1>0. h \in Nat /\ h <= Len(v) /\ Len(v) \in Nat /\ h \in 0 .. h /\ h \in 0 .. Len(v)
  <2>1. h \in 0 .. Len(v) /\ Len(v) \in Nat
    BY Levels
  <2> QED
    BY <2>1
<1>1. IsDigest(MerkleRoot(v))
  <2> HIDE DEF h
  <2>1a. MerkleRoot(v) = At(Turns(v)[h], 0) /\ Len(Turns(v)[h]) = 1
    BY RootOnTop DEF h
  <2>1b. IsVec(Turns(v)[h])
    BY <1>0, Levels
  <2>1. MerkleRoot(v) = Turns(v)[h][1] /\ Len(Turns(v)[h]) = 1 /\ IsVec(Turns(v)[h])
    BY <2>1a, <2>1b DEF At
  <2>2. 1 \in DOMAIN Turns(v)[h]
    BY <2>1, VecLen
  <2>3. MerkleRoot(v) \in Nodes(Turns(v)[h])
    BY <2>1, <2>2 DEF Nodes
  <2> QED
    BY <1>0, <2>3, LevelsOfDigests DEF h
<1>2. ASSUME NEW i \in Nat, i < Len(v), NEW x \in Nodes(BuildProof(v, i))
      PROVE  IsDigest(x)
  <2>1. IsVec(BuildProof(v, i)) /\ Len(BuildProof(v, i)) = h
    BY <1>2, ProofSiblings
  <2>2. PICK n \in 1 .. h : x = BuildProof(v, i)[n]
    BY <2>1, VecLen DEF Nodes
  <2> DEFINE j == n - 1
  <2>3. j \in 0 .. h - 1 /\ j \in 0 .. h /\ n = j + 1
    BY <1>0
  <2> HIDE DEF j, h
  <2>4. x \in Nodes(Turns(v)[j])
    BY <1>2, <2>2, <2>3, ProofSiblings DEF h
  <2> QED
    BY <2>3, <2>4, LevelsOfDigests DEF h
<1> QED
  BY <1>1, <1>2

\* The proof of the leaf at i is accepted for that leaf and for no other.
LEMMA VerifyOwnProof ==
  ASSUME NEW v, IsVec(v), Len(v) >= 1, \A x \in Nodes(v) : IsDigest(x),
         NEW i \in Nat, i < Len(v), NEW leaf
  PROVE  /\ VerifyProof(i, Len(v), BuildProof(v, i), leaf, MerkleRoot(v))
              = IF leaf = At(v, i) THEN "Ok" ELSE "RootMismatch"
         /\ \A root : root # MerkleRoot(v) =>
              VerifyProof(i, Len(v), BuildProof(v, i), At(v, i), root) # "Ok"
<1> DEFINE h == DepthFor(Len(v))
           s == BuildProof(v, i)
<1>0. h \in Nat /\ h \in 0 .. h
  <2>1. Len(v) \in Nat
    BY VecLen
  <2>2. h \in Nat
    BY <2>1, DepthForStep
  <2> QED
    BY <2>2
<1>1. Len(s) = h /\ Nodes(s) \cap Undecodable = {}
  BY ProofSiblings, ProofsOfDigests, DigestsDecode
<1>2. IndexAbove(i, h) = 0 /\ MerkleRoot(v) = At(Turns(v)[h], 0)
  <2>1. IndexAbove(i, h) \in Nat /\ IndexAbove(i, h) < Len(Turns(v)[h])
    BY <1>0, PathInTree
  <2>2. Len(Turns(v)[h]) = 1 /\ MerkleRoot(v) = At(Turns(v)[h], 0)
    BY RootOnTop
  <2> QED
    BY <2>1, <2>2
<1>3. ClimbFrom(At(v, i), i, s) = MerkleRoot(v)
  BY <1>0, <1>1, <1>2, ClimbCompletes
<1>4. ASSUME ClimbFrom(leaf, i, s) = MerkleRoot(v) PROVE leaf = At(v, i)
  <2>1. Len(s) \in 0 .. DepthFor(Len(v))
    BY <1>0, <1>1
  <2>2. ClimbFrom(leaf, i, s) = At(Turns(v)[Len(s)], IndexAbove(i, Len(s)))
    BY <1>1, <1>2, <1>4
  <2> HIDE DEF s, h
  <2> QED
    BY <2>1, <2>2, ClimbDetermines
<1>5. \A l, root : VerifyProof(i, Len(v), s, l, root)
                     = IF ClimbFrom(l, i, s) = root THEN "Ok" ELSE "RootMismatch"
  BY <1>1 DEF VerifyProof
<1> HIDE DEF s
<1>6. VerifyProof(i, Len(v), s, leaf, MerkleRoot(v))
        = IF leaf = At(v, i) THEN "Ok" ELSE "RootMismatch"
  BY <1>3, <1>4, <1>5
<1>7. ASSUME NEW root, root # MerkleRoot(v)
      PROVE  VerifyProof(i, Len(v), s, At(v, i), root) # "Ok"
  BY <1>3, <1>5, <1>7
<1> QED
  BY <1>6, <1>7 DEF s

\* A vector of hashes of what is not as long as two digests.
IsLeaves(v) ==
  IsVec(v) /\ Len(v) >= 1 /\ \A x \in Nodes(v) : IsDigest(x) /\ NoParent(x)

\* Whatever is claimed, what verify_proof accepts under the root of a list of
\* leaves is one of them, in a climb of the tree's height, and the one at the
\* claimed index if that is an index of the list.
LEMMA VerifyNames ==
  ASSUME NEW v, IsLeaves(v), NEW leaf, NoParent(leaf),
         NEW i \in Nat, NEW total, NEW s, Len(s) \in Nat,
         VerifyProof(i, total, s, leaf, MerkleRoot(v)) = "Ok"
  PROVE  /\ leaf \in Nodes(v)
         /\ i < Len(v) => leaf = At(v, i)
<1> DEFINE h == DepthFor(Len(v))
<1>0. IsVec(v) /\ Len(v) >= 1 /\ \A x \in Nodes(v) : NoParent(x)
  BY DEF IsLeaves
<1>1. h \in Nat /\ h \in 0 .. h /\ h \in 0 .. Len(v)
  <2>1. h \in 0 .. Len(v) /\ Len(v) \in Nat
    BY <1>0, Levels
  <2> QED
    BY <2>1
<1>2. ClimbFrom(leaf, i, s) = MerkleRoot(v)
  BY DEF VerifyProof
<1>3. MerkleRoot(v) = At(Turns(v)[h], 0) /\ Len(Turns(v)[h]) = 1 /\ IsVec(Turns(v)[h])
  BY <1>0, <1>1, RootOnTop, Levels
<1>4. MerkleRoot(v) \in Nodes(Turns(v)[h])
  <2>1. 1 \in DOMAIN Turns(v)[h]
    BY <1>3, VecLen
  <2> QED
    BY <1>3, <2>1 DEF Nodes, At
<1>5. Len(s) = h /\ leaf \in Nodes(v)
  <2> HIDE DEF h
  <2> QED
    BY <1>0, <1>1, <1>2, <1>4, ClimbStartsAtLeaf DEF h
<1>6. ASSUME i < Len(v) PROVE leaf = At(v, i)
  <2>1. IndexAbove(i, h) \in Nat /\ IndexAbove(i, h) < Len(Turns(v)[h])
    BY <1>0, <1>1, <1>6, PathInTree
  <2>2. IndexAbove(i, h) = 0
    BY <1>3, <2>1
  <2>3. ClimbFrom(leaf, i, s) = At(Turns(v)[Len(s)], IndexAbove(i, Len(s)))
    BY <1>2, <1>3, <1>5, <2>2
  <2> QED
    BY <1>0, <1>1, <1>5, <1>6, <2>3, ClimbDetermines
<1> QED
  BY <1>5, <1>6

\* No root stands for two sets of leaves, or for two leaves at one index.
LEMMA RootNamesLeaves ==
  ASSUME NEW v, IsLeaves(v), NEW w, IsLeaves(w), MerkleRoot(v) = MerkleRoot(w)
  PROVE  /\ Nodes(v) \subseteq Nodes(w)
         /\ \A i \in Nat : i < Len(v) /\ i < Len(w) => At(v, i) = At(w, i)
<1>1. ASSUME NEW i \in Nat, i < Len(v)
      PROVE  At(v, i) \in Nodes(w) /\ (i < Len(w) => At(v, i) = At(w, i))
  <2>1. VerifyProof(i, Len(v), BuildProof(v, i), At(v, i), MerkleRoot(w)) = "Ok"
    BY <1>1, VerifyOwnProof DEF IsLeaves
  <2>2. Len(BuildProof(v, i)) \in Nat
    BY <1>1, ProofSiblings, VecLen DEF IsLeaves
  <2>3. NoParent(At(v, i))
    <3>1. i + 1 \in DOMAIN v
      BY <1>1, VecLen DEF IsLeaves
    <3> QED
      BY <3>1 DEF IsLeaves, Nodes, At
  <2> QED
    BY <1>1, <2>1, <2>2, <2>3, VerifyNames
<1>2. ASSUME NEW x \in Nodes(v) PROVE x \in Nodes(w)
  <2>1. PICK n \in 1 .. Len(v) : x = v[n]
    BY VecLen DEF Nodes, IsLeaves
  <2>2. n - 1 \in Nat /\ n - 1 < Len(v) /\ At(v, n - 1) = x
    BY <2>1, VecLen DEF At, IsLeaves
  <2> QED
    BY <1>1, <2>2
<1> QED
  BY <1>1, <1>2
=============================================================================
