-------------------------- MODULE ProofStoreProofs --------------------------
(***************************************************************************)
(* What holds of ProofStore for every set of keys, payloads, populations,  *)
(* levels asked for and fragments shown.                                   *)
(*                                                                         *)
(* TypeOK says what the store is; together with the two invariants about   *)
(* the answer that has not been taken yet it is inductive, since no call   *)
(* but anchor changes the store and none is made before the answer of the  *)
(* last is taken.  The other invariants follow from it in any state.       *)
(***************************************************************************)
EXTENDS ProofStore, StoreCallsProofs

IInv == TypeOK /\ AcceptedIsAnchored /\ DemoQueriesVerify

-----------------------------------------------------------------------------
(* Stores *)

\* The hash of a payload is no parent.
LEMMA PayloadLeavesAreLeaves ==
  \A x \in PayloadLeaves : IsDigest(x) /\ NoParent(x)
BY PayloadsAssumption, ParentOfDigests DEF PayloadLeaves, IsDigest, NoParent

\* What is stored is a store in the sense of the lemmas about its methods.
LEMMA StoredIsStore ==
  ASSUME TypeOK, Anchored
  PROVE  IsStore(store)
<1>1. store.leaves \in Seq(PayloadLeaves) /\ store.leaves # <<>>
  BY DEF TypeOK
<1> DEFINE v == store.leaves
<1> HIDE DEF v
<1>2. v \in Seq(PayloadLeaves) /\ v # <<>>
  BY <1>1 DEF v
<1>3. IsVec(v) /\ Len(v) \in Nat /\ DOMAIN v = 1 .. Len(v) /\ Len(v) >= 1
  <2>1. IsVec(v) /\ Len(v) \in Nat /\ DOMAIN v = 1 .. Len(v)
    BY <1>2, VecOfSeq, VecLen
  <2> QED
    BY <1>2, <2>1
<1>4. \A x \in Nodes(v) : x \in PayloadLeaves
  BY <1>2 DEF Nodes
<1>5. IsLeaves(v)
  BY <1>3, <1>4, PayloadLeavesAreLeaves DEF IsLeaves
<1> QED
  BY <1>5 DEF TypeOK, IsStore, v

\* A population that may be anchored has leaves, which are hashes of payloads.
LEMMA PopulationLeaves ==
  ASSUME NEW p \in Populations, p # <<>>
  PROVE  /\ IsVec(p) /\ Len(p) \in Nat /\ Len(p) >= 1
         /\ \A j \in 1 .. Len(p) : p[j].key \in Keys /\ p[j].leaf \in PayloadLeaves
<1> DEFINE R == [key : Keys, leaf : PayloadLeaves]
<1>1. p \in Seq(R)
  BY PopulationsAssumption DEF PayloadLeaves
<1>2. \A r \in R : r.key \in Keys /\ r.leaf \in PayloadLeaves
  OBVIOUS
<1> HIDE DEF R
<1>3. IsVec(p) /\ Len(p) \in Nat /\ DOMAIN p = 1 .. Len(p)
  BY <1>1, VecOfSeq, VecLen
<1>4. Len(p) >= 1
  BY <1>1, <1>3
<1>5. \A j \in 1 .. Len(p) : p[j] \in R
  BY <1>1, <1>3
<1> QED
  BY <1>2, <1>3, <1>4, <1>5

\* What anchor stores.
LEMMA AnchorStores ==
  ASSUME NEW p \in Populations, p # <<>>, NEW k \in Requested \cup {DefaultK},
         LevelAllowed(Len(p), k), NEW s, s = StoreOf(p, k)
  PROVE  /\ IsStore(s) /\ s.leaves \in Seq(PayloadLeaves) /\ s.leaves # <<>>
         /\ DOMAIN s.index \subseteq Keys
<1>1. /\ IsVec(p) /\ Len(p) \in Nat /\ Len(p) >= 1
      /\ \A j \in 1 .. Len(p) : p[j].key \in Keys /\ p[j].leaf \in PayloadLeaves
  BY PopulationLeaves
<1>2. \A j \in 1 .. Len(p) : IsDigest(p[j].leaf) /\ NoParent(p[j].leaf)
  BY <1>1, PayloadLeavesAreLeaves
<1>3. k \in Nat \cup {DefaultK}
  BY StoreNumbersAssumption
<1>4. /\ IsStore(s) /\ Len(s.leaves) = Len(p) /\ s.index = Index(p)
      /\ \A j \in 1 .. Len(p) : s.leaves[j] = p[j].leaf
  BY <1>1, <1>2, <1>3, StoreOfIsStore
<1>5. s.leaves \in Seq(PayloadLeaves)
  <2> DEFINE v == s.leaves
  <2>1. IsVec(v)
    BY <1>4 DEF IsStore, IsLeaves
  <2> HIDE DEF v
  <2>2. v \in Seq(Nodes(v)) /\ DOMAIN v = 1 .. Len(v)
    BY <2>1, VecLen DEF IsVec
  <2>3. \A j \in 1 .. Len(v) : v[j] \in PayloadLeaves
    BY <1>1, <1>4 DEF v
  <2>4. v \in Seq(PayloadLeaves)
    BY <2>2, <2>3
  <2> QED
    BY <2>4 DEF v
<1>6. s.leaves # <<>>
  BY <1>1, <1>4
<1>7. DOMAIN s.index \subseteq Keys
  <2>1. DOMAIN Index(p) = {p[j].key : j \in 1 .. Len(p)}
    BY <1>1, IndexOfKey
  <2> QED
    BY <1>1, <1>4, <2>1
<1> QED
  BY <1>4, <1>5, <1>6, <1>7

-----------------------------------------------------------------------------
(* The steps *)

\* A step that gives no answer to verify_adversarial or to cmd_query leaves
\* nothing to say of one, and as for the types the store and the fragment count.
LEMMA OtherAnswer ==
  ASSUME NEW call \in {"anchor", "query", "full", "demo of nothing"}, NEW returned,
         Respond(call, returned)
  PROVE  /\ AcceptedIsAnchored' /\ DemoQueriesVerify'
         /\ result'.call \in {"anchor", "query", "adversarial", "full", "demo", "demo of nothing"}
BY DEF Respond, AcceptedIsAnchored, DemoQueriesVerify

LEMMA SameStore ==
  ASSUME TypeOK, UNCHANGED <<store, fragment>>,
         result' # NoResult =>
           result'.call \in {"anchor", "query", "adversarial", "full", "demo", "demo of nothing"}
  PROVE  TypeOK'
BY DEF TypeOK, Anchored, PayloadLeaves

\* anchor
LEMMA AnchorInv ==
  ASSUME IInv, NEW p \in Populations, NEW k \in Requested \cup {DefaultK}, Anchor(p, k)
  PROVE  IInv'
<1>1. AcceptedIsAnchored' /\ DemoQueriesVerify'
  BY OtherAnswer DEF Anchor
<1>2. PICK s : s = StoreOf(p, k)
  OBVIOUS
<1>3. /\ IsStore(s) /\ s.leaves \in Seq(PayloadLeaves) /\ s.leaves # <<>>
      /\ DOMAIN s.index \subseteq Keys
  BY <1>2, AnchorStores DEF Anchor
<1>4. store' = s /\ UNCHANGED fragment
  BY <1>2 DEF Anchor
<1>5. result'.call \in {"anchor", "query", "adversarial", "full", "demo", "demo of nothing"}
  BY OtherAnswer DEF Anchor
<1>6. TypeOK'
  BY <1>3, <1>4, <1>5 DEF IInv, TypeOK, IsStore
<1> QED
  BY <1>1, <1>6 DEF IInv

\* query
LEMMA QueryInv ==
  ASSUME IInv, NEW key \in Keys, QueryKey(key)
  PROVE  IInv'
<1>1. AcceptedIsAnchored' /\ DemoQueriesVerify'
  BY OtherAnswer DEF QueryKey
<1>2. PICK s, q : s = store /\ q = Query(s, key)
  OBVIOUS
<1>3. IsStore(s) /\ key \in DOMAIN s.index
  BY <1>2, StoredIsStore DEF IInv, QueryKey, Anchored
<1>4. q.leaf_index \in Nat /\ IsVec(q.lower_shard)
  BY <1>2, <1>3, QueryFragment
<1>5. fragment' = q /\ UNCHANGED store
  BY <1>2 DEF QueryKey
<1>6. result'.call \in {"anchor", "query", "adversarial", "full", "demo", "demo of nothing"}
  BY OtherAnswer DEF QueryKey
<1>7. TypeOK'
  BY <1>4, <1>5, <1>6 DEF IInv, TypeOK, Anchored
<1> QED
  BY <1>1, <1>7 DEF IInv

\* verify_adversarial, for any fragment with a place and siblings.
LEMMA CheckInv ==
  ASSUME IInv, Anchored, NEW leaf, NEW stored, Check(leaf, stored),
         stored.leaf_index \in Nat, Len(stored.lower_shard) \in Nat
  PROVE  IInv'
<1>1. /\ result' = [call |-> "adversarial", leaf |-> leaf, stored |-> stored,
                    returned |-> Adversarial(store, leaf, stored)]
      /\ UNCHANGED <<store, fragment>>
  BY DEF Check
<1>2. PICK s : s = store
  OBVIOUS
<1>3. IsStore(s)
  BY <1>2, StoredIsStore DEF IInv
<1>4. ASSUME Adversarial(s, leaf, stored) = "Ok", leaf \in PayloadLeaves
      PROVE  /\ \E i \in DOMAIN s.leaves : s.leaves[i] = leaf
             /\ stored.leaf_index < Len(s.leaves) => At(s.leaves, stored.leaf_index) = leaf
  <2>1. NoParent(leaf)
    BY <1>4, PayloadLeavesAreLeaves
  <2>2. /\ leaf \in Nodes(s.leaves)
        /\ stored.leaf_index < Len(s.leaves) => leaf = At(s.leaves, stored.leaf_index)
    BY <1>3, <1>4, <2>1, AdversarialSound
  <2> QED
    BY <2>2 DEF Nodes
<1>5. AcceptedIsAnchored'
  BY <1>1, <1>2, <1>4 DEF AcceptedIsAnchored, PayloadLeaves
<1>6. DemoQueriesVerify'
  BY <1>1 DEF DemoQueriesVerify
<1>7. TypeOK'
  BY <1>1, SameStore DEF IInv
<1> QED
  BY <1>5, <1>6, <1>7 DEF IInv

-----------------------------------------------------------------------------
(* cmd_query *)

\* The store of n made-up leaves, and the places of its keys.
LEMMA DemoStore ==
  ASSUME NEW n \in Nat, n > 0, NEW s, s = StoreOf(DemoPopulation(n), DefaultK)
  PROVE  /\ IsStore(s) /\ Len(s.leaves) = n
         /\ \A i \in 0 .. n - 1 : i \in DOMAIN s.index /\ s.index[i] = i
<1> DEFINE p == DemoPopulation(n)
<1>1. /\ p = [j \in 1 .. n |-> p[j]] /\ DOMAIN p = 1 .. n
      /\ \A j \in 1 .. n : p[j].key = j - 1 /\ p[j].leaf = DoubleSha256(Bytes(4, j - 1))
  BY DEF DemoPopulation
<1>2. \A i : Bytes(4, i).len # 2 * HASH_LEN
  BY DEF Bytes, HASH_LEN
<1> HIDE DEF p
<1>3. IsVec(p) /\ Len(p) = n
  BY <1>1, VecOfFunction
<1>4. \A j \in 1 .. Len(p) : IsDigest(p[j].leaf) /\ NoParent(p[j].leaf)
  BY <1>1, <1>2, <1>3, ParentOfDigests DEF IsDigest, NoParent
<1>5. \A j \in 1 .. Len(p) : p[j].key = j - 1
  BY <1>1, <1>3
<1>6. Len(p) >= 1
  BY <1>3
<1>7. s = StoreOf(p, DefaultK)
  BY DEF p
<1>8. /\ IsStore(s) /\ Len(s.leaves) = Len(p)
      /\ \A i \in 0 .. Len(p) - 1 : i \in DOMAIN s.index /\ s.index[i] = i
  BY <1>3, <1>4, <1>5, <1>6, <1>7, NumberedStore
<1> QED
  BY <1>3, <1>8

LEMMA DemoInv ==
  ASSUME IInv, NEW n \in DemoSizes, Demo(n)
  PROVE  IInv'
<1> DEFINE s == StoreOf(DemoPopulation(n), DefaultK)
<1>1. n \in Nat /\ n > 0
  BY StoreNumbersAssumption DEF Demo
<1>2. PICK answer \in {DemoAnswer(s, i) : i \in DemoIndices(n)} : Respond("demo", answer)
  BY DEF Demo
<1>3. PICK i \in DemoIndices(n) : answer = DemoAnswer(s, i)
  BY <1>2
<1>4. i \in 0 .. n - 1
  BY <1>1 DEF DemoIndices
<1>5. /\ IsStore(s) /\ Len(s.leaves) = n /\ i \in DOMAIN s.index /\ s.index[i] = i
  BY <1>1, <1>4, DemoStore
<1> HIDE DEF s
<1>6. Adversarial(s, At(s.leaves, i), Query(s, i)) = "Ok"
  BY <1>5, AdversarialOwn
<1>7. answer = "Ok"
  BY <1>3, <1>4, <1>5, <1>6 DEF DemoAnswer
<1>8. result' = [call |-> "demo", returned |-> "Ok"] /\ UNCHANGED <<store, fragment>>
  BY <1>2, <1>7 DEF Respond, Demo
<1>9. AcceptedIsAnchored' /\ DemoQueriesVerify'
  BY <1>8 DEF AcceptedIsAnchored, DemoQueriesVerify
<1>10. TypeOK'
  BY <1>8, SameStore DEF IInv
<1> QED
  BY <1>9, <1>10 DEF IInv

-----------------------------------------------------------------------------
LEMMA InvInit == Init => IInv
BY DEF Init, IInv, TypeOK, Anchored, AcceptedIsAnchored, DemoQueriesVerify

LEMMA InvStep == IInv /\ [Next]_vars => IInv'
<1> SUFFICES ASSUME IInv, [Next]_vars PROVE IInv'
  OBVIOUS
<1>1. ASSUME UNCHANGED <<store, fragment>>, NEW call \in {"anchor", "query", "full", "demo of nothing"},
             NEW returned, Respond(call, returned)
      PROVE  IInv'
  BY <1>1, OtherAnswer, SameStore DEF IInv
<1>2. ASSUME NEW k \in Requested \cup {DefaultK},
             RefuseEmpty(k) \/ \E p \in Populations : RefuseLevel(p, k)
      PROVE  IInv'
  BY <1>1, <1>2 DEF RefuseEmpty, RefuseLevel
<1>3. ASSUME NEW key \in Keys, RefuseKey(key) \/ \E leaf \in PayloadLeaves : CheckFull(key, leaf)
      PROVE  IInv'
  BY <1>1, <1>3 DEF RefuseKey, CheckFull
<1>4. ASSUME NEW n \in DemoSizes, DemoOfNothing(n) PROVE IInv'
  BY <1>1, <1>4 DEF DemoOfNothing
<1>5. CASE CheckFragment
  <2>1. PICK leaf \in PayloadLeaves : Check(leaf, fragment)
    BY <1>5 DEF CheckFragment
  <2>2. PICK stored : stored = fragment
    OBVIOUS
  <2>3. stored.leaf_index \in Nat /\ Len(stored.lower_shard) \in Nat
    BY <1>5, <2>2, VecLen DEF CheckFragment, IInv, TypeOK
  <2> QED
    BY <1>5, <2>1, <2>2, <2>3, CheckInv DEF CheckFragment, Anchored
<1>6. CASE CheckMadeUp
  <2>1. PICK leaf \in PayloadLeaves \cup StoreNodes, i \in Indices, n \in 0 .. MaxShard :
          \E shard \in [1 .. n -> StoreNodes \cup Foreign \cup Undecodable] :
            Check(leaf, [leaf_index |-> i, leaf |-> leaf, lower_shard |-> shard])
    BY <1>6 DEF CheckMadeUp
  <2>2. PICK shard \in [1 .. n -> StoreNodes \cup Foreign \cup Undecodable] :
          Check(leaf, [leaf_index |-> i, leaf |-> leaf, lower_shard |-> shard])
    BY <2>1
  <2>3. PICK stored : stored = [leaf_index |-> i, leaf |-> leaf, lower_shard |-> shard]
    OBVIOUS
  <2>4. i \in Nat /\ n \in Nat
    BY StoreNumbersAssumption
  <2>5. Len(shard) = n
    BY <2>4
  <2> QED
    BY <1>6, <2>2, <2>3, <2>4, <2>5, CheckInv DEF CheckMadeUp, Anchored
<1>7. CASE TakeResult
  <2>1. result' = NoResult /\ UNCHANGED <<store, fragment>>
    BY <1>7 DEF TakeResult
  <2> QED
    BY <2>1, SameStore DEF IInv, AcceptedIsAnchored, DemoQueriesVerify
<1>8. CASE UNCHANGED vars
  BY <1>8 DEF vars, IInv, TypeOK, Anchored, AcceptedIsAnchored, DemoQueriesVerify, PayloadLeaves
<1> QED
  BY <1>2, <1>3, <1>4, <1>5, <1>6, <1>7, <1>8, AnchorInv, QueryInv, DemoInv DEF Next

-----------------------------------------------------------------------------
(* What follows from the invariant *)

LEMMA OwnFragment == IInv => QueryVerifies
<1> SUFFICES ASSUME IInv, Anchored, NEW key \in DOMAIN store.index
             PROVE  Adversarial(store, Query(store, key).leaf, Query(store, key)) = "Ok"
  BY DEF QueryVerifies, BetweenCalls
<1>1. IsStore(store)
  BY StoredIsStore DEF IInv
<1> QED
  BY <1>1, QueryFragment, AdversarialOwn

LEMMA Agreement == IInv => VerifiersAgree
<1> SUFFICES ASSUME IInv, Anchored, NEW key \in DOMAIN store.index, NEW leaf \in PayloadLeaves
             PROVE  (FullMerkle(store, key, leaf) = "Ok")
                      <=> (Adversarial(store, leaf, Query(store, key)) = "Ok")
  BY DEF VerifiersAgree, BetweenCalls
<1>1. IsStore(store)
  BY StoredIsStore DEF IInv
<1>2. FullMerkle(store, key, leaf) = "Ok" <=> leaf = At(store.leaves, store.index[key])
  BY <1>1, FullMerkleOwn
<1>3. Adversarial(store, leaf, Query(store, key)) = "Ok"
        <=> leaf = At(store.leaves, store.index[key])
  BY <1>1, AdversarialOwn
<1> QED
  BY <1>2, <1>3

LEMMA Covering == IInv => LabelsCoverLeaves
<1> SUFFICES ASSUME IInv, Anchored
             PROVE  /\ store.k <= DepthFor(Len(store.leaves))
                    /\ {IndexAbove(i, store.k) : i \in 0 .. Len(store.leaves) - 1}
                         = 0 .. Len(store.labels) - 1
  BY DEF LabelsCoverLeaves
<1>1. IsStore(store)
  BY StoredIsStore DEF IInv
<1>2. Len(store.leaves) \in Nat
  BY <1>1, VecLen DEF IsStore, IsLeaves
<1>3. DepthFor(Len(store.leaves)) \in Nat
  BY <1>2, DepthForStep
<1>4. store.k <= DepthFor(Len(store.leaves))
  BY <1>1, <1>3 DEF IsStore
<1> QED
  BY <1>1, <1>4, LabelsOfStore

-----------------------------------------------------------------------------
\* For every population, level and fragment the inductive invariant holds.
THEOREM Invariant == Spec => []IInv
BY InvInit, InvStep, PTL DEF Spec

\* The store that anchor returns is what its fields say, whatever was anchored.
THEOREM TypeCorrect == Spec => []TypeOK
<1>1. IInv => TypeOK
  BY DEF IInv
<1> QED
  BY <1>1, Invariant, PTL

\* The fragment of every key of every store is accepted by verify_adversarial.
THEOREM QueriesVerify == Spec => []QueryVerifies
BY Invariant, OwnFragment, PTL

\* verify_adversarial of a key's fragment and verify_full_merkle decide alike.
THEOREM VerificationsAgree == Spec => []VerifiersAgree
BY Invariant, Agreement, PTL

\* No fragment, made up or kept from another store, is accepted for a payload
\* that was not anchored, or at the place of another leaf.
THEOREM FragmentsSound == Spec => []AcceptedIsAnchored
<1>1. IInv => AcceptedIsAnchored
  BY DEF IInv
<1> QED
  BY <1>1, Invariant, PTL

\* The labels cover the leaves at every level, and the default level, half the
\* position of the highest bit, is never above the root.
THEOREM LabelsCover == Spec => []LabelsCoverLeaves
BY Invariant, Covering, PTL

\* cmd_query verifies its three queries for populations of every size.
THEOREM DemoVerifies == Spec => []DemoQueriesVerify
<1>1. IInv => DemoQueriesVerify
  BY DEF IInv
<1> QED
  BY <1>1, Invariant, PTL
=============================================================================
