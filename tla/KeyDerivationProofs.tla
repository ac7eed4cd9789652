------------------------ MODULE KeyDerivationProofs ------------------------
(***************************************************************************)
(* What holds of the keys of KeyDerivation in every group of prime order,  *)
(* for every hash and every number of calls.                               *)
(***************************************************************************)
EXTENDS KeyDerivation, TLAPS

-----------------------------------------------------------------------------
(* Arithmetic *)

\* Remainder and quotient.
LEMMA DivMod ==
  ASSUME NEW a \in Nat, NEW m \in Nat \ {0}
  PROVE  \E q \in Nat, r \in 0 .. m - 1 : a = m * q + r /\ a % m = r /\ a \div m = q
<1>1. a % m \in 0 .. m - 1 /\ a \div m \in Nat
  OBVIOUS
<1>2. a = m * (a \div m) + (a % m)
  OBVIOUS
<1> QED
  BY <1>1, <1>2

\* A remainder is the only one.
LEMMA ModUnique ==
  ASSUME NEW a \in Nat, NEW m \in Nat \ {0}, NEW q \in Nat, NEW r \in 0 .. m - 1, a = m * q + r
  PROVE  a % m = r
OBVIOUS

\* So is a quotient.
LEMMA QuotientUnique ==
  ASSUME NEW m \in Nat \ {0}, NEW q \in Nat, NEW r \in 0 .. m - 1,
         NEW k \in Nat, NEW t \in 0 .. m - 1, m * q + r = m * k + t
  PROVE  q = k
<1>1. m * q \in Nat /\ m * k \in Nat
  OBVIOUS
<1>2. ASSUME q < k PROVE FALSE
  <2>1. m * (q + 1) <= m * k /\ m * (q + 1) = m * q + m
    BY <1>2
  <2> QED
    BY <2>1, <1>1
<1>3. ASSUME k < q PROVE FALSE
  <2>1. m * (k + 1) <= m * q /\ m * (k + 1) = m * k + m
    BY <1>3
  <2> QED
    BY <2>1, <1>1
<1> QED
  BY <1>2, <1>3

\* What is added without effect is a multiple of the modulus.
LEMMA AddedNothing ==
  ASSUME NEW m \in Nat \ {0}, NEW p \in 1 .. m - 1, NEW w \in Nat, (p + w) % m = p
  PROVE  w % m = 0
<1>0. p + w \in Nat
  OBVIOUS
<1>1. PICK q \in Nat, r \in 0 .. m - 1 : p + w = m * q + r /\ (p + w) % m = r
  BY <1>0, DivMod
<1>2. w = m * q + 0
  BY <1>1
<1> QED
  BY <1>2, ModUnique

\* Adding two scalars to a third with one result takes equal ones.
LEMMA AddedAlike ==
  ASSUME NEW m \in Nat \ {0}, NEW p \in Nat, NEW g \in 1 .. m - 1, NEW h \in 1 .. m - 1,
         (p + g) % m = (p + h) % m
  PROVE  g = h
<1>1. PICK q \in Nat, r \in 0 .. m - 1 : p + g = m * q + r /\ (p + g) % m = r
  <2>1. p + g \in Nat
    OBVIOUS
  <2> QED
    BY <2>1, DivMod
<1>2. PICK k \in Nat, t \in 0 .. m - 1 : p + h = m * k + t /\ (p + h) % m = t
  <2>1. p + h \in Nat
    OBVIOUS
  <2> QED
    BY <2>1, DivMod
<1>3. m * q \in Nat /\ m * k \in Nat /\ g - h = m * q - m * k
  BY <1>1, <1>2
<1>4. ASSUME q < k PROVE FALSE
  <2>1. m * (q + 1) <= m * k /\ m * (q + 1) = m * q + m
    BY <1>4
  <2> QED
    BY <2>1, <1>3
<1>5. ASSUME k < q PROVE FALSE
  <2>1. m * (k + 1) <= m * q /\ m * (k + 1) = m * k + m
    BY <1>5
  <2> QED
    BY <2>1, <1>3
<1>6. q = k
  BY <1>4, <1>5
<1> QED
  BY <1>3, <1>6

\* Counting on from a remainder.
LEMMA ModSucc ==
  ASSUME NEW m \in Nat \ {0}, NEW a \in Nat
  PROVE  ((a % m) + 1) % m = (a + 1) % m
<1>1. PICK q \in Nat, r \in 0 .. m - 1 : a = m * q + r /\ a % m = r
  BY DivMod
<1>2. m * q \in Nat /\ m * (q + 1) = m * q + m
  OBVIOUS
<1>3. CASE r = m - 1
  <2>1. /\ a + 1 = m * (q + 1) + 0 /\ r + 1 = m * 1 + 0
        /\ a + 1 \in Nat /\ r + 1 \in Nat /\ q + 1 \in Nat /\ 1 \in Nat /\ 0 \in 0 .. m - 1
    BY <1>1, <1>2, <1>3
  <2>2. (a + 1) % m = 0
    BY <2>1, ModUnique
  <2>3. (r + 1) % m = 0
    BY <2>1, ModUnique
  <2> QED
    BY <1>1, <2>2, <2>3
<1>4. CASE r # m - 1
  <2>1. /\ a + 1 = m * q + (r + 1) /\ r + 1 = m * 0 + (r + 1) /\ r + 1 \in 0 .. m - 1
        /\ a + 1 \in Nat /\ r + 1 \in Nat /\ 0 \in Nat
    BY <1>1, <1>2, <1>4
  <2>2. (a + 1) % m = r + 1
    BY <2>1, ModUnique
  <2>3. (r + 1) % m = r + 1
    BY <2>1, ModUnique
  <2> QED
    BY <1>1, <2>2, <2>3
<1> QED
  BY <1>3, <1>4

\* A remainder of itself.
LEMMA ModSmall ==
  ASSUME NEW m \in Nat \ {0}, NEW r \in 0 .. m - 1
  PROVE  r % m = r
<1>1. r = m * 0 + r
  OBVIOUS
<1> QED
  BY <1>1, ModUnique

\* A word is its upper bytes and its last one.
LEMMA WordShape ==
  ASSUME NEW w \in 0 .. Words - 1
  PROVE  \E u \in Nat, l \in 0 .. LowBase - 1 :
           /\ w = LowBase * u + l /\ w \div LowBase = u
           /\ LowBase * u \in Nat /\ LowBase * u + LowBase <= Words
<1>1. PICK u \in Nat, l \in 0 .. LowBase - 1 : w = LowBase * u + l /\ w \div LowBase = u
  BY WordsAssumption, DivMod
<1>2. PICK k \in Nat : Words = LowBase * k
  <2>1. PICK k \in Nat, r \in 0 .. LowBase - 1 : Words = LowBase * k + r /\ Words % LowBase = r
    BY WordsAssumption, DivMod
  <2> QED
    BY <2>1, WordsAssumption
<1>3. LowBase * u \in Nat
  BY WordsAssumption
<1>4. u < k
  <2>1. LowBase * u < LowBase * k
    BY <1>1, <1>2, <1>3, WordsAssumption
  <2> QED
    BY <2>1, WordsAssumption
<1>5. LowBase * (u + 1) <= LowBase * k /\ LowBase * (u + 1) = LowBase * u + LowBase
  BY <1>4, WordsAssumption
<1> QED
  BY <1>1, <1>2, <1>3, <1>5

\* The words that share a word's upper bytes.
LEMMA SameUpperShape ==
  ASSUME NEW d \in 0 .. Words - 1, NEW u \in Nat, d \div LowBase = u, NEW v
  PROVE  v \in SameUpper(d) <=> \E k \in 0 .. LowBase - 1 : v = LowBase * u + k
BY DEF SameUpper

\* Bumping the last byte, in numbers.
LEMMA BumpedShape ==
  ASSUME NEW u \in Nat, NEW l \in 0 .. LowBase - 1
  PROVE  Bumped(LowBase * u + l) = LowBase * u + (IF l = LowBase - 1 THEN 0 ELSE l + 1)
<1> DEFINE w == LowBase * u + l
<1>1. LowBase * u \in Nat /\ w \in Nat /\ LowBase \in Nat \ {0}
  BY WordsAssumption
<1>2. w \div LowBase = u
  <2>1. PICK q \in Nat, r \in 0 .. LowBase - 1 : w = LowBase * q + r /\ w \div LowBase = q
    BY <1>1, DivMod
  <2> QED
    BY <1>1, <2>1, QuotientUnique
<1>3. (w + 1) % LowBase = IF l = LowBase - 1 THEN 0 ELSE l + 1
  <2>1. CASE l = LowBase - 1
    <3>1. w + 1 = LowBase * (u + 1) + 0 /\ w + 1 \in Nat
      BY <1>1, <2>1
    <3> QED
      BY <1>1, <2>1, <3>1, ModUnique
  <2>2. CASE l # LowBase - 1
    <3>1. w + 1 = LowBase * u + (l + 1) /\ w + 1 \in Nat /\ l + 1 \in 0 .. LowBase - 1
      BY <1>1, <2>2
    <3> QED
      BY <1>1, <2>2, <3>1, ModUnique
  <2> QED
    BY <2>1, <2>2
<1> QED
  BY <1>2, <1>3 DEF Bumped

\* The bumps between two words, in numbers.
LEMMA BumpsShape ==
  ASSUME NEW u \in Nat, NEW e \in 0 .. LowBase - 1, NEW k \in 0 .. LowBase - 1
  PROVE  Bumps(LowBase * u + e, LowBase * u + k) = IF k >= e THEN k - e ELSE k - e + LowBase
<1>1. LowBase * u \in Nat /\ LowBase \in Nat \ {0}
  BY WordsAssumption
<1>2. (LowBase * u + k) - (LowBase * u + e) = k - e
  BY <1>1
<1>3. (k - e) % LowBase = IF k >= e THEN k - e ELSE k - e + LowBase
  BY <1>1
<1> QED
  BY <1>2, <1>3 DEF Bumps

-----------------------------------------------------------------------------
(* hash_to_scalar *)

\* A digest that was just taken: nothing is left behind.
LEMMA ScannedFirst ==
  ASSUME NEW d \in 0 .. Words - 1
  PROVE  Scanned(d, d)
<1>1. PICK u \in Nat, e \in 0 .. LowBase - 1 : d = LowBase * u + e /\ d \div LowBase = u
  BY WordShape
<1>2. d \in SameUpper(d)
  BY <1>1, SameUpperShape
<1>3. ASSUME NEW v \in SameUpper(d), Bumps(d, v) < Bumps(d, d) PROVE ~IsScalar(v)
  <2>1. PICK k \in 0 .. LowBase - 1 : v = LowBase * u + k
    BY <1>1, SameUpperShape
  <2>2. Bumps(d, v) = (IF k >= e THEN k - e ELSE k - e + LowBase) /\ Bumps(d, d) = 0
    BY <1>1, <2>1, BumpsShape
  <2> QED
    BY <1>3, <2>2, WordsAssumption
<1> QED
  BY <1>2, <1>3 DEF Scanned

\* A bump leaves behind only the word it bumps.
LEMMA ScannedBump ==
  ASSUME NEW d \in 0 .. Words - 1, NEW w, Scanned(d, w), ~IsScalar(w)
  PROVE  Scanned(d, Bumped(w)) /\ Bumped(w) \in 0 .. Words - 1
<1>1. PICK u \in Nat, e \in 0 .. LowBase - 1 :
        /\ d = LowBase * u + e /\ d \div LowBase = u
        /\ LowBase * u \in Nat /\ LowBase * u + LowBase <= Words
  BY WordShape
<1>2. PICK l \in 0 .. LowBase - 1 : w = LowBase * u + l
  BY <1>1, SameUpperShape DEF Scanned
<1>3. PICK n \in 0 .. LowBase - 1 :
        n = (IF l = LowBase - 1 THEN 0 ELSE l + 1) /\ Bumped(w) = LowBase * u + n
  <2>1. (IF l = LowBase - 1 THEN 0 ELSE l + 1) \in 0 .. LowBase - 1
    BY WordsAssumption
  <2> QED
    BY <1>2, <2>1, BumpedShape
<1>4. Bumped(w) \in SameUpper(d) /\ Bumped(w) \in 0 .. Words - 1
  <2>1. Bumped(w) \in SameUpper(d)
    BY <1>1, <1>3, SameUpperShape
  <2>2. Bumped(w) \in 0 .. Words - 1
    BY <1>1, <1>3, WordsAssumption
  <2> QED
    BY <2>1, <2>2
<1>5. ASSUME NEW v \in SameUpper(d), Bumps(d, v) < Bumps(d, Bumped(w)) PROVE ~IsScalar(v)
  <2>1. PICK k \in 0 .. LowBase - 1 : v = LowBase * u + k
    BY <1>1, SameUpperShape
  <2>2. Bumps(d, v) = IF k >= e THEN k - e ELSE k - e + LowBase
    BY <1>1, <2>1, BumpsShape
  <2>3. Bumps(d, w) = IF l >= e THEN l - e ELSE l - e + LowBase
    BY <1>1, <1>2, BumpsShape
  <2>4. Bumps(d, Bumped(w)) = IF n >= e THEN n - e ELSE n - e + LowBase
    BY <1>1, <1>3, BumpsShape
  <2>5. k = l \/ Bumps(d, v) < Bumps(d, w)
    BY <1>3, <1>5, <2>2, <2>3, <2>4, WordsAssumption
  <2>6. CASE k = l
    BY <1>2, <2>1, <2>6
  <2>7. CASE Bumps(d, v) < Bumps(d, w)
    BY <2>7 DEF Scanned
  <2> QED
    BY <2>5, <2>6, <2>7
<1> QED
  BY <1>4, <1>5 DEF Scanned

\* The scalar at which the loop ends is the one the digest reduces to.
LEMMA ScannedEnds ==
  ASSUME NEW d \in 0 .. Words - 1, NEW w, Scanned(d, w), IsScalar(w)
  PROVE  w \in ReducedTo(d)
<1>1. PICK u \in Nat, e \in 0 .. LowBase - 1 : d = LowBase * u + e /\ d \div LowBase = u
  BY WordShape
<1>2. ASSUME NEW v \in SameUpper(d) PROVE Bumps(d, v) \in Nat
  <2>1. PICK k \in 0 .. LowBase - 1 : v = LowBase * u + k
    BY <1>1, SameUpperShape
  <2>2. Bumps(d, v) = IF k >= e THEN k - e ELSE k - e + LowBase
    BY <1>1, <2>1, BumpsShape
  <2> QED
    BY <2>2, WordsAssumption
<1>3. ASSUME NEW v \in SameUpper(d), IsScalar(v) PROVE Bumps(d, w) <= Bumps(d, v)
  <2>1. Bumps(d, v) \in Nat /\ Bumps(d, w) \in Nat
    BY <1>2 DEF Scanned
  <2>2. ~(Bumps(d, v) < Bumps(d, w))
    BY <1>3 DEF Scanned
  <2> QED
    BY <2>1, <2>2
<1> QED
  BY <1>3 DEF ReducedTo, Scanned

\* A digest reduces to no more than one scalar.
LEMMA ReducedToOne ==
  ASSUME NEW d \in 0 .. Words - 1, NEW g \in ReducedTo(d), NEW h \in ReducedTo(d)
  PROVE  g = h
<1>1. PICK u \in Nat, e \in 0 .. LowBase - 1 : d = LowBase * u + e /\ d \div LowBase = u
  BY WordShape
<1>2. PICK k \in 0 .. LowBase - 1 : g = LowBase * u + k
  BY <1>1, SameUpperShape DEF ReducedTo
<1>3. PICK l \in 0 .. LowBase - 1 : h = LowBase * u + l
  BY <1>1, SameUpperShape DEF ReducedTo
<1>4. Bumps(d, g) <= Bumps(d, h) /\ Bumps(d, h) <= Bumps(d, g)
  BY DEF ReducedTo
<1>5. Bumps(d, g) = IF k >= e THEN k - e ELSE k - e + LowBase
  BY <1>1, <1>2, BumpsShape
<1>6. Bumps(d, h) = IF l >= e THEN l - e ELSE l - e + LowBase
  BY <1>1, <1>3, BumpsShape
<1>7. k = l
  BY <1>4, <1>5, <1>6, WordsAssumption
<1> QED
  BY <1>2, <1>3, <1>7

\* An index that was degenerate stays so while more is hashed.
LEMMA DegenerateStays ==
  ASSUME DOMAIN digest \subseteq DOMAIN digest',
         \A x \in DOMAIN digest : digest'[x] = digest[x],
         NEW m, NEW j
  PROVE  /\ Tweaks(m, j) \subseteq Tweaks(m, j)'
         /\ Degenerate(m, j) => Degenerate(m, j)'
<1>1. Tweaks(m, j) \subseteq Tweaks(m, j)'
  BY DEF Tweaks
<1> QED
  BY <1>1 DEF Degenerate

-----------------------------------------------------------------------------
(* The invariant, step by step *)

LEMMA InvInit == Init => IInv
<1> SUFFICES ASSUME Init PROVE IInv
  OBVIOUS
<1>1. TypeOK
  BY WordsAssumption, SubkeysAssumption, OrderAssumption DEF Init, TypeOK
<1>2. OraclesInv
  BY DEF Init, OraclesInv
<1>3. CallInv /\ SubkeyOfIndex /\ AddressInv
  BY DEF Init, CallInv, SubkeyOfIndex, AddressInv
<1> QED
  BY <1>1, <1>2, <1>3 DEF IInv

\* Sub-keys that were returned stay what they are while more is hashed.
LEMMA SubkeysStay ==
  ASSUME SubkeyOfIndex, UNCHANGED subkeys, DOMAIN digest \subseteq DOMAIN digest',
         \A x \in DOMAIN digest : digest'[x] = digest[x]
  PROVE  SubkeyOfIndex'
BY DegenerateStays DEF SubkeyOfIndex

\* A step that leaves derive_subkey and the hashes of addresses alone.
LEMMA StuttersInv ==
  ASSUME IInv, UNCHANGED vars
  PROVE  IInv'
<1>1. TypeOK' /\ OraclesInv' /\ AddressInv'
  BY DEF IInv, vars, subkeyVars, TypeOK, OraclesInv, AddressInv
<1>2. SubkeyOfIndex'
  BY SubkeysStay DEF IInv, vars, subkeyVars
<1>3. CallInv'
  BY DegenerateStays DEF IInv, vars, subkeyVars, CallInv
<1> QED
  BY <1>1, <1>2, <1>3 DEF IInv

\* The first index tried is the one asked for.
LEMMA DeriveInv ==
  ASSUME IInv, NEW master \in Masters, NEW index \in Indices, Derive(master, index)
  PROVE  IInv'
<1>1. TypeOK' /\ OraclesInv' /\ AddressInv'
  BY SubkeysAssumption DEF IInv, Derive, TypeOK, OraclesInv, AddressInv
<1>2. SubkeyOfIndex'
  BY SubkeysStay DEF IInv, Derive
<1>3. CallInv'
  <2>1. index \in 0 .. IndexMod - 1 /\ index + 0 = index /\ IndexMod \in Nat \ {0}
    BY SubkeysAssumption
  <2>2. index % IndexMod = index
    BY <2>1, ModSmall
  <2> QED
    BY <2>1, <2>2 DEF Derive, CallInv
<1> QED
  BY <1>1, <1>2, <1>3 DEF IInv

\* The scan of a digest starts at the digest.
LEMMA HashInv ==
  ASSUME IInv, Hash
  PROVE  IInv'
<1>1. PICK word \in MayAnswer(digest, <<call.master, idx>>) :
        wide' = word /\ digest' = Answered(digest, <<call.master, idx>>, word)
  BY DEF Hash
<1>2. word \in 0 .. Words - 1
  BY DEF MayAnswer, IInv, OraclesInv
<1>3. /\ DOMAIN digest' = DOMAIN digest \cup {<<call.master, idx>>}
      /\ digest'[<<call.master, idx>>] = word
      /\ \A x \in DOMAIN digest : digest'[x] = digest[x]
  BY <1>1 DEF Answered, MayAnswer
<1>4. UNCHANGED <<call, idx, tries, subkeys, okm, addresses>> /\ pc = "hash" /\ pc' = "reduce"
  BY DEF Hash
<1>5. TypeOK' /\ OraclesInv' /\ AddressInv'
  BY <1>1, <1>2, <1>3, <1>4 DEF IInv, TypeOK, OraclesInv, AddressInv
<1>6. SubkeyOfIndex'
  BY <1>3, <1>4, SubkeysStay DEF IInv
<1>7. CallInv'
  <2>1. \A j \in 0 .. tries - 1 : Degenerate(call.master, (call.index + j) % IndexMod)'
    BY <1>3, <1>4, DegenerateStays DEF IInv, CallInv
  <2>2. Scanned(word, word)
    BY <1>2, ScannedFirst
  <2> QED
    BY <1>1, <1>3, <1>4, <2>1, <2>2 DEF IInv, CallInv
<1> QED
  BY <1>5, <1>6, <1>7 DEF IInv

\* A bump moves the scan on by one.
LEMMA BumpInv ==
  ASSUME IInv, Bump
  PROVE  IInv'
<1>1. /\ UNCHANGED <<pc, call, idx, tries, digest, subkeys, okm, addresses>>
      /\ pc = "reduce" /\ ~IsScalar(wide) /\ wide' = Bumped(wide)
  BY DEF Bump
<1> DEFINE d == digest[<<call.master, idx>>]
<1>2. d \in 0 .. Words - 1 /\ Scanned(d, wide)
  BY <1>1 DEF IInv, OraclesInv, CallInv
<1>3. Scanned(d, wide') /\ wide' \in 0 .. Words - 1
  BY <1>1, <1>2, ScannedBump
<1>4. TypeOK' /\ OraclesInv' /\ AddressInv'
  BY <1>1, <1>3 DEF IInv, TypeOK, OraclesInv, AddressInv
<1>5. SubkeyOfIndex'
  BY <1>1, SubkeysStay DEF IInv
<1>6. CallInv'
  <2>1. \A j \in 0 .. tries - 1 : Degenerate(call.master, (call.index + j) % IndexMod)'
    BY <1>1, DegenerateStays DEF IInv, CallInv
  <2> QED
    BY <1>1, <1>3, <2>1 DEF IInv, CallInv
<1> QED
  BY <1>4, <1>5, <1>6 DEF IInv

\* Where the scan stands at a scalar, that is the tweak of the index tried.
LEMMA TweakFound ==
  ASSUME IInv, pc = "reduce", IsScalar(wide)
  PROVE  wide \in Tweaks(call.master, idx)
<1>1. /\ <<call.master, idx>> \in DOMAIN digest
      /\ digest[<<call.master, idx>>] \in 0 .. Words - 1
      /\ Scanned(digest[<<call.master, idx>>], wide)
  BY DEF IInv, OraclesInv, CallInv
<1> QED
  BY <1>1, ScannedEnds DEF Tweaks

\* A call that returns.
LEMMA ReturnInv ==
  ASSUME IInv, NEW returned, NEW scalar, Return(returned, scalar), pc = "reduce",
         returned = "Ok" => IsScalar(scalar),
         LET m == call.master
             i == call.index
         IN  IF returned = "Ok"
               THEN \E n \in 0 .. Retries - 1 :
                      /\ \A j \in 0 .. n - 1 : Degenerate(m, (i + j) % IndexMod)
                      /\ \E h \in Tweaks(m, (i + n) % IndexMod) : scalar = (m + h) % N
               ELSE \A j \in 0 .. Retries - 1 : Degenerate(m, (i + j) % IndexMod)
  PROVE  IInv'
<1> DEFINE new == [master |-> call.master, index |-> call.index,
                   returned |-> returned, scalar |-> scalar]
<1>1. /\ UNCHANGED <<digest, okm, addresses>> /\ subkeys' = subkeys \cup {new}
      /\ pc' = "idle" /\ idx' = 0 /\ tries' = 0 /\ wide' = 0
  BY DEF Return
<1>2. TypeOK'
  BY <1>1, WordsAssumption, SubkeysAssumption DEF IInv, TypeOK, CallInv
<1>3. OraclesInv' /\ AddressInv' /\ CallInv'
  BY <1>1 DEF IInv, OraclesInv, AddressInv, CallInv
<1>4. SubkeyOfIndex'
  <2> DEFINE Kept(s) ==
        IF s.returned = "Ok"
          THEN \E n \in 0 .. Retries - 1 :
                 /\ \A j \in 0 .. n - 1 : Degenerate(s.master, (s.index + j) % IndexMod)
                 /\ \E h \in Tweaks(s.master, (s.index + n) % IndexMod) :
                      s.scalar = (s.master + h) % N
          ELSE \A j \in 0 .. Retries - 1 : Degenerate(s.master, (s.index + j) % IndexMod)
  <2>1. \A s \in subkeys : Kept(s)
    BY DEF IInv, SubkeyOfIndex
  <2>2. Kept(new)
    OBVIOUS
  <2>3. \A s \in subkeys' : Kept(s)
    BY <1>1, <2>1, <2>2
  <2> QED
    BY <1>1, <2>3, DegenerateStays DEF SubkeyOfIndex
<1> QED
  BY <1>2, <1>3, <1>4 DEF IInv

\* The sub-key is that of the first index that is not degenerate.
LEMMA TweakInv ==
  ASSUME IInv, Tweak
  PROVE  IInv'
<1>1. /\ pc = "reduce" /\ IsScalar(wide) /\ (call.master + wide) % N # 0
      /\ Return("Ok", (call.master + wide) % N)
  BY DEF Tweak
<1>2. /\ wide \in Tweaks(call.master, (call.index + tries) % IndexMod)
      /\ tries \in 0 .. Retries - 1
      /\ \A j \in 0 .. tries - 1 : Degenerate(call.master, (call.index + j) % IndexMod)
  BY <1>1, TweakFound DEF IInv, CallInv, TypeOK
<1>3. IsScalar((call.master + wide) % N)
  <2>1. call.master + wide \in Nat /\ N \in Nat \ {0}
    <3>1. call.master \in 1 .. N - 1 /\ wide \in 1 .. N - 1
      BY <1>1, SubkeysAssumption DEF IInv, CallInv, IsScalar
    <3> QED
      BY <3>1, OrderAssumption
  <2>2. (call.master + wide) % N \in 0 .. N - 1
    BY <2>1, DivMod
  <2> QED
    BY <1>1, <2>1, <2>2 DEF IsScalar
<1> QED
  BY <1>1, <1>2, <1>3, ReturnInv

\* A degenerate index is left behind, or was the last to be tried.
LEMMA NextIndexInv ==
  ASSUME IInv, NextIndex
  PROVE  IInv'
<1>1. pc = "reduce" /\ IsScalar(wide) /\ (call.master + wide) % N = 0
  BY DEF NextIndex
<1>2. /\ idx = (call.index + tries) % IndexMod /\ tries \in 0 .. Retries - 1
      /\ call.master \in Masters /\ call.index \in Indices
      /\ \A j \in 0 .. tries - 1 : Degenerate(call.master, (call.index + j) % IndexMod)
  BY <1>1 DEF IInv, CallInv, TypeOK
<1>3. Degenerate(call.master, (call.index + tries) % IndexMod)
  BY <1>1, <1>2, TweakFound DEF Degenerate
<1>4. \A j \in 0 .. tries : Degenerate(call.master, (call.index + j) % IndexMod)
  BY <1>2, <1>3, SubkeysAssumption
<1>5. CASE tries + 1 = Retries
  <2>1. Return("BadSubkeyIndex", 0)
    BY <1>5 DEF NextIndex
  <2>2. \A j \in 0 .. Retries - 1 : Degenerate(call.master, (call.index + j) % IndexMod)
    BY <1>2, <1>4, <1>5, SubkeysAssumption
  <2> QED
    BY <1>1, <2>1, <2>2, ReturnInv
<1>6. CASE tries + 1 # Retries
  <2>1. /\ UNCHANGED <<call, wide, digest, subkeys, okm, addresses>>
        /\ pc' = "hash" /\ tries' = tries + 1 /\ idx' = (idx + 1) % IndexMod
    BY <1>6 DEF NextIndex
  <2>2. idx' = (call.index + (tries + 1)) % IndexMod /\ idx' \in 0 .. IndexMod - 1
    <3>1. IndexMod \in Nat \ {0} /\ call.index \in Nat /\ tries \in Nat /\ call.index + tries \in Nat
      <4>1. call.index \in 0 .. IndexMod - 1 /\ Retries \in Nat /\ IndexMod \in Nat \ {0}
        BY <1>2, SubkeysAssumption
      <4> QED
        BY <1>2, <4>1
    <3>2. idx' = (call.index + tries + 1) % IndexMod
      BY <1>2, <2>1, <3>1, ModSucc
    <3>3. call.index + tries + 1 \in Nat /\ call.index + tries + 1 = call.index + (tries + 1)
      BY <3>1
    <3> QED
      BY <3>1, <3>2, <3>3, DivMod
  <2>3. TypeOK' /\ OraclesInv' /\ AddressInv'
    BY <1>2, <1>6, <2>1, <2>2, SubkeysAssumption DEF IInv, TypeOK, OraclesInv, AddressInv
  <2>4. SubkeyOfIndex'
    BY <2>1, SubkeysStay DEF IInv
  <2>5. CallInv'
    <3>1. \A j \in 0 .. tries' - 1 : Degenerate(call.master, (call.index + j) % IndexMod)'
      BY <1>2, <1>4, <2>1, DegenerateStays, SubkeysAssumption
    <3> QED
      BY <1>2, <2>1, <2>2, <3>1 DEF CallInv
  <2> QED
    BY <2>3, <2>4, <2>5 DEF IInv
<1> QED
  BY <1>5, <1>6

\* An address is what its own hash makes of its arguments.
LEMMA AddressStepInv ==
  ASSUME IInv, NEW in \in AddressInputs, RefuseInput(in) \/ DeriveAddress(in)
  PROVE  IInv'
<1>1. UNCHANGED subkeyVars
  BY DEF RefuseInput, DeriveAddress
<1>2. TypeOK' /\ CallInv'
  BY <1>1, DegenerateStays DEF IInv, subkeyVars, TypeOK, CallInv
<1>3. SubkeyOfIndex'
  BY <1>1, SubkeysStay DEF IInv, subkeyVars
<1>4. CASE RefuseInput(in)
  <2>1. OraclesInv'
    BY <1>1, <1>4 DEF RefuseInput, IInv, subkeyVars, OraclesInv
  <2>2. AddressInv'
    BY <1>4 DEF RefuseInput, IInv, AddressInv, Failed
  <2> QED
    BY <1>2, <1>3, <2>1, <2>2 DEF IInv
<1>5. CASE DeriveAddress(in)
  <2>1. PICK word \in MayAnswer(okm, OkmInput(in)) :
          /\ okm' = Answered(okm, OkmInput(in), word)
          /\ addresses' = addresses \cup {Outcome(in, word)}
    BY <1>5 DEF DeriveAddress
  <2>2. /\ DOMAIN okm' = DOMAIN okm \cup {OkmInput(in)} /\ okm'[OkmInput(in)] = word
        /\ \A x \in DOMAIN okm : okm'[x] = okm[x]
    BY <2>1 DEF Answered, MayAnswer
  <2>3. word \in 0 .. Words - 1
    BY DEF MayAnswer, IInv, OraclesInv
  <2>4. OraclesInv'
    BY <1>1, <2>2, <2>3 DEF IInv, subkeyVars, OraclesInv
  <2>5. Outcome(in, word).in = in /\ InputError(in) = "none"
    BY <1>5 DEF DeriveAddress, Outcome, Derived, Failed
  <2>6. AddressInv'
    BY <2>1, <2>2, <2>5 DEF IInv, AddressInv
  <2> QED
    BY <1>2, <1>3, <2>4, <2>6 DEF IInv
<1> QED
  BY <1>4, <1>5

LEMMA InvStep == IInv /\ [Next]_vars => IInv'
BY StuttersInv, DeriveInv, HashInv, BumpInv, TweakInv, NextIndexInv, AddressStepInv DEF Next

-----------------------------------------------------------------------------
(* What the invariant says *)

\* Two sub-keys that are as SubkeyOfIndex says are one only if the digests come to
\* one scalar.
LEMMA SharedFromTweaks == IInv => SharedOnlyIfDegenerate
<1> SUFFICES ASSUME IInv, NEW s \in subkeys, NEW t \in subkeys,
                    s.returned = "Ok", t.returned = "Ok",
                    s.master = t.master, s.index # t.index, s.scalar = t.scalar,
                    ~Degenerate(s.master, s.index), ~Degenerate(t.master, t.index)
             PROVE  Tweaks(s.master, s.index) = Tweaks(t.master, t.index)
  BY DEF SharedOnlyIfDegenerate
<1>1. ASSUME NEW x \in subkeys, x.returned = "Ok", ~Degenerate(x.master, x.index)
      PROVE  \E h \in Tweaks(x.master, x.index) : x.scalar = (x.master + h) % N
  <2>1. PICK n \in 0 .. Retries - 1 :
          /\ \A j \in 0 .. n - 1 : Degenerate(x.master, (x.index + j) % IndexMod)
          /\ \E h \in Tweaks(x.master, (x.index + n) % IndexMod) : x.scalar = (x.master + h) % N
    BY <1>1 DEF IInv, SubkeyOfIndex
  <2>2. x.index \in 0 .. IndexMod - 1 /\ IndexMod \in Nat \ {0} /\ x.index + 0 = x.index
    <3>1. x.index \in Indices
      BY <1>1 DEF IInv, TypeOK
    <3>2. x.index \in 0 .. IndexMod - 1 /\ IndexMod \in Nat \ {0}
      BY <3>1, SubkeysAssumption
    <3> QED
      BY <3>2
  <2>3. x.index % IndexMod = x.index
    BY <2>2, ModSmall
  <2>4. ~(0 \in 0 .. n - 1)
    BY <1>1, <2>1, <2>2, <2>3
  <2>5. n = 0
    BY <2>4, SubkeysAssumption
  <2> QED
    BY <2>1, <2>2, <2>3, <2>5
<1>2. PICK g \in Tweaks(s.master, s.index) : s.scalar = (s.master + g) % N
  BY <1>1
<1>3. PICK h \in Tweaks(t.master, t.index) : t.scalar = (t.master + h) % N
  BY <1>1
<1>4. ASSUME NEW x \in subkeys, NEW k \in Tweaks(x.master, x.index)
      PROVE  k \in 1 .. N - 1 /\ Tweaks(x.master, x.index) = {k}
  <2>1. /\ <<x.master, x.index>> \in DOMAIN digest
        /\ digest[<<x.master, x.index>>] \in 0 .. Words - 1
        /\ Tweaks(x.master, x.index) = ReducedTo(digest[<<x.master, x.index>>])
    BY <1>4 DEF Tweaks, IInv, OraclesInv
  <2>2. \A j \in Tweaks(x.master, x.index) : j = k
    BY <1>4, <2>1, ReducedToOne
  <2>3. k \in 1 .. N - 1
    BY <1>4, <2>1 DEF ReducedTo, IsScalar
  <2> QED
    BY <1>4, <2>2, <2>3
<1>5. s.master \in Nat /\ N \in Nat \ {0}
  <2>1. s.master \in 1 .. N - 1
    BY SubkeysAssumption DEF IInv, TypeOK
  <2> QED
    BY <2>1, OrderAssumption
<1>6. g \in 1 .. N - 1 /\ h \in 1 .. N - 1
  BY <1>4
<1>7. (s.master + g) % N = (s.master + h) % N
  BY <1>2, <1>3
<1>8. g = h
  BY <1>5, <1>6, <1>7, AddedAlike
<1> QED
  BY <1>4, <1>8

\* The product of two keys does not depend on whose is whose.
LEMMA SecretShared ==
  ASSUME NEW a \in 1 .. N - 1, NEW b \in 1 .. N - 1
  PROVE  Secret(a, b) = Secret(b, a)
<1>1. a * b = b * a
  BY OrderAssumption
<1> QED
  BY <1>1 DEF Secret

\* No refusal is taken for an address.
LEMMA RefusedIsNotOk ==
  ASSUME NEW in
  PROVE  InputError(in) # "Ok"
BY DEF InputError

\* Arguments that mirror each other ask for one hash, and get one answer.
LEMMA AgreementFromAddresses == IInv => PartiesAgree
<1> SUFFICES ASSUME IInv, NEW x \in addresses, NEW y \in addresses,
                    IsScalar(x.in.sk), IsScalar(y.in.sk),
                    x.in.remote = y.in.sk, y.in.remote = x.in.sk,
                    x.in.payee = y.in.payee, x.in.dc = y.in.dc,
                    x.in.salt_rule = y.in.salt_rule, x.in.network = y.in.network
             PROVE  /\ x.returned = y.returned
                    /\ x.returned = "Ok" => /\ x.pubkey = y.pubkey /\ x.address = y.address
                                            /\ x.salt = y.salt
  BY DEF PartiesAgree
<1>1. InputError(x.in) = InputError(y.in)
  <2>1. x.in.remote # 0 /\ y.in.remote # 0
    BY OrderAssumption DEF IsScalar
  <2> QED
    BY <2>1, Zenon DEF InputError
<1>2. SaltOf(x.in) = SaltOf(y.in) /\ OkmInput(x.in) = OkmInput(y.in)
  <2>1. Secret(x.in.sk, x.in.remote) = Secret(y.in.sk, y.in.remote)
    BY SecretShared DEF IsScalar
  <2> QED
    BY <2>1 DEF SaltOf, OkmInput
<1>3. CASE InputError(x.in) # "none"
  <2>1. x.returned = InputError(x.in) /\ y.returned = InputError(y.in)
    BY <1>1, <1>3 DEF IInv, AddressInv, Failed
  <2> QED
    BY <1>1, <2>1, RefusedIsNotOk
<1>4. CASE InputError(x.in) = "none"
  <2>1. PICK word : word = okm[OkmInput(x.in)]
    OBVIOUS
  <2>2. x = Outcome(x.in, word) /\ y = Outcome(y.in, word)
    BY <1>1, <1>2, <1>4, <2>1 DEF IInv, AddressInv
  <2>3. TweakError(x.in, word) = TweakError(y.in, word)
    BY DEF TweakError
  <2>4. CASE TweakError(x.in, word) = "none"
    <3>1. x = Derived(x.in, word) /\ y = Derived(y.in, word)
      BY <2>2, <2>3, <2>4 DEF Outcome
    <3>2. /\ x.returned = "Ok" /\ x.pubkey = (x.in.payee + word) % N
          /\ x.address = <<Versions(x.in.network), (x.in.payee + word) % N>>
          /\ x.salt = SaltOf(x.in)
      BY <3>1 DEF Derived
    <3>3. /\ y.returned = "Ok" /\ y.pubkey = (y.in.payee + word) % N
          /\ y.address = <<Versions(y.in.network), (y.in.payee + word) % N>>
          /\ y.salt = SaltOf(y.in)
      BY <3>1 DEF Derived
    <3> QED
      BY <1>2, <3>2, <3>3
  <2>5. CASE TweakError(x.in, word) # "none"
    <3>1. x.returned = TweakError(x.in, word) /\ y.returned = TweakError(y.in, word)
      BY <2>2, <2>3, <2>5 DEF Outcome, Failed
    <3>2. TweakError(x.in, word) # "Ok"
      BY DEF TweakError
    <3> QED
      BY <2>3, <3>1, <3>2
  <2> QED
    BY <2>4, <2>5
<1> QED
  BY <1>3, <1>4

\* The tweak moves the payee's key, and not to the identity.
LEMMA OneTimeFromAddresses == IInv => OneTimeKey
<1> SUFFICES ASSUME IInv, NEW x \in addresses, x.returned = "Ok"
             PROVE  IsScalar(x.pubkey) /\ x.pubkey # x.in.payee
  BY DEF OneTimeKey
<1>1. InputError(x.in) = "none" /\ x.in \in AddressInputs
  <2>1. x.in \in AddressInputs
    BY DEF IInv, AddressInv
  <2>2. InputError(x.in) # "none" => x.returned = InputError(x.in)
    BY DEF IInv, AddressInv, Failed
  <2> QED
    BY <2>1, <2>2, RefusedIsNotOk
<1>2. PICK word \in 0 .. Words - 1 : x = Outcome(x.in, word)
  BY <1>1 DEF IInv, AddressInv, OraclesInv
<1>3. TweakError(x.in, word) = "none" /\ x.pubkey = (x.in.payee + word) % N
  <2>1. TweakError(x.in, word) # "Ok"
    BY DEF TweakError
  <2>2. CASE TweakError(x.in, word) = "none"
    <3>1. x = Derived(x.in, word)
      BY <1>2, <2>2 DEF Outcome
    <3> QED
      BY <2>2, <3>1 DEF Derived
  <2>3. CASE TweakError(x.in, word) # "none"
    BY <1>2, <2>1, <2>3 DEF Outcome, Failed
  <2> QED
    BY <2>2, <2>3
<1>4. word % N # 0 /\ (x.in.payee + word) % N # 0
  BY <1>3 DEF TweakError
<1>5. x.in.payee \in 1 .. N - 1 /\ word \in Nat /\ N \in Nat \ {0}
  <2>1. x.in.payee # 0
    BY <1>1 DEF InputError
  <2> QED
    BY <1>1, <1>2, <2>1, InputsAssumption, OrderAssumption, WordsAssumption
<1>6. (x.in.payee + word) % N \in 0 .. N - 1
  <2>1. x.in.payee + word \in Nat
    BY <1>5
  <2> QED
    BY <1>5, <2>1, DivMod
<1>7. (x.in.payee + word) % N # x.in.payee
  BY <1>4, <1>5, AddedNothing
<1> QED
  BY <1>3, <1>4, <1>5, <1>6, <1>7 DEF IsScalar

-----------------------------------------------------------------------------
\* In every group of prime order and for every hash: what the calls have returned
\* is what the hashes make of their arguments, and no loop has skipped anything.
THEOREM Invariant == Spec => []IInv
BY InvInit, InvStep, PTL DEF Spec

\* Words stay words, and what is returned as a scalar is one.
THEOREM TypeCorrect == Spec => []TypeOK
<1>1. IInv => TypeOK
  BY DEF IInv
<1> QED
  BY <1>1, Invariant, PTL

\* What the retry loops of derive_subkey and hash_to_scalar compute: the master
\* plus the tweak of the first index that will do.
THEOREM SubkeysByRetries == Spec => []SubkeyOfIndex
<1>1. IInv => SubkeyOfIndex
  BY DEF IInv
<1> QED
  BY <1>1, Invariant, PTL

\* Indices share a sub-key only by a collision or a degenerate index.
THEOREM SubkeysShared == Spec => []SharedOnlyIfDegenerate
BY SharedFromTweaks, Invariant, PTL

\* Payer and payee agree on the key, the address and the salt commitment.
THEOREM Agreement == Spec => []PartiesAgree
BY AgreementFromAddresses, Invariant, PTL

\* A payment key is a point of its own.
THEOREM PaymentKeyFresh == Spec => []OneTimeKey
BY OneTimeFromAddresses, Invariant, PTL
=============================================================================
