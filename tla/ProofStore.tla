---------------------------- MODULE ProofStore ----------------------------
(***************************************************************************)
(* Selective verification (crates/proofstore): a population of leaves is   *)
(* anchored under index keys, a query returns the lower shard of one       *)
(* leaf's proof, and the fragment is checked against the labels published  *)
(* for level k and the root.                                               *)
(*                                                                         *)
(* The store is an immutable value behind &self methods, so a call is one  *)
(* action; its response stays in `result` until the client takes it.  A    *)
(* client keeps the fragment of its last query while the owner anchors     *)
(* other populations, and may also check a fragment nobody queried.        *)
(***************************************************************************)
EXTENDS StoreCalls

CONSTANTS
  Keys,         \* index keys
  Payloads,     \* what may be hashed into a leaf
  Populations,  \* what may be anchored: sequences of [key, leaf]
  Requested,    \* levels asked for with Some(k)
  Foreign,      \* hashes that come from elsewhere
  Indices,      \* leaf indices a fragment can state
  MaxShard,     \* longest made-up shard (bound of the model)
  DemoSizes     \* populations that cmd_query makes up

ASSUME PayloadsAssumption == \A p \in Payloads : p.len # 2 * HASH_LEN
ASSUME PopulationsAssumption ==
  \A p \in Populations :
    p \in Seq([key : Keys, leaf : {DoubleSha256(x) : x \in Payloads}])
ASSUME StoreNumbersAssumption ==
  /\ Requested \subseteq Nat /\ Indices \subseteq Nat /\ DemoSizes \subseteq Nat
  /\ MaxShard \in Nat

VARIABLES
  store,     \* the ProofStore, or NoStore
  fragment,  \* the StoredProof the client keeps, or NoFragment
  result     \* the response not taken yet, or NoResult

vars == <<store, fragment, result>>

NoStore == [k |-> "none"]
NoFragment == [leaf_index |-> "none"]
NoResult == [call |-> "none"]

-----------------------------------------------------------------------------
(* ProofStore::anchor *)

Respond(call, returned) ==
  result = NoResult /\ result' = [call |-> call, returned |-> returned]

\* An empty population: Some(0) gets as far as the root, any other Some(k) is
\* above the depth, and None subtracts the 64 leading zeros of 0 from 63,
\* which panics where overflow is checked and is otherwise made good for by
\* the root's refusal.
RefuseEmpty(k) ==
  /\ <<>> \in Populations
  /\ \E error \in IF k = DefaultK THEN {"panic", "EmptyLeaves"}
                  ELSE IF k > 0 THEN {"KOutOfRange"} ELSE {"EmptyLeaves"} :
       Respond("anchor", error)
  /\ UNCHANGED <<store, fragment>>

RefuseLevel(population, k) ==
  /\ population # <<>>
  /\ ~LevelAllowed(Len(population), k)
  /\ Respond("anchor", "KOutOfRange")
  /\ UNCHANGED <<store, fragment>>

Anchor(population, k) ==
  /\ population # <<>>
  /\ LevelAllowed(Len(population), k)
  /\ Respond("anchor", "Ok")
  /\ store' = StoreOf(population, k)
  /\ UNCHANGED fragment

-----------------------------------------------------------------------------
(* query and the two ways to check its answer *)

PayloadLeaves == {DoubleSha256(x) : x \in Payloads}

\* Every node of the stored tree, the leaves and the root included.
StoreNodes == UNION {Nodes(Turns(store.leaves)[j]) : j \in 0 .. Len(store.leaves)}

RefuseKey(key) ==
  /\ store # NoStore /\ key \notin DOMAIN store.index
  /\ Respond("query", "IndexNotFound")
  /\ UNCHANGED <<store, fragment>>

QueryKey(key) ==
  /\ store # NoStore /\ key \in DOMAIN store.index
  /\ Respond("query", "Ok")
  /\ fragment' = Query(store, key)
  /\ UNCHANGED store

Check(leaf, stored) ==
  /\ result = NoResult
  /\ result' = [call |-> "adversarial", leaf |-> leaf, stored |-> stored,
                returned |-> Adversarial(store, leaf, stored)]
  /\ UNCHANGED <<store, fragment>>

\* The client checks the fragment it keeps, of this store or of an earlier one.
CheckFragment ==
  /\ store # NoStore /\ fragment # NoFragment
  /\ \E leaf \in PayloadLeaves : Check(leaf, fragment)

\* Or one that was made up, for a leaf or for any node of the tree.
CheckMadeUp ==
  /\ store # NoStore /\ fragment = NoFragment
  /\ \E leaf \in PayloadLeaves \cup StoreNodes, i \in Indices, n \in 0 .. MaxShard :
       \E shard \in [1 .. n -> StoreNodes \cup Foreign \cup Undecodable] :
         Check(leaf, [leaf_index |-> i, leaf |-> leaf, lower_shard |-> shard])

CheckFull(key, leaf) ==
  /\ store # NoStore
  /\ Respond("full", FullMerkle(store, key, leaf))
  /\ UNCHANGED <<store, fragment>>

-----------------------------------------------------------------------------
(* cmd_query: a population of n distinct keys and leaves is anchored at the *)
(* default level, and three of its keys are queried and checked.  A process *)
(* of its own, with a store of its own.                                     *)

DemoPopulation(n) ==
  [i \in 1 .. n |-> [key |-> i - 1, leaf |-> DoubleSha256(Bytes(4, i - 1))]]

\* Mutation: positions counted from 1.
DemoIndicesFromOne(n) == {1, n \div 2, n}

DemoIndices(n) == {0, n \div 2, n - 1}

DemoAnswer(s, i) ==
  IF i >= Len(s.leaves) THEN "panic" ELSE Adversarial(s, At(s.leaves, i), Query(s, i))

\* The first answer that is not Ok ends the command.
Demo(n) ==
  /\ n > 0 /\ store = NoStore /\ result = NoResult
  /\ LET s == StoreOf(DemoPopulation(n), DefaultK) IN
     \E answer \in {DemoAnswer(s, i) : i \in DemoIndices(n)} :
       /\ answer = "Ok" => \A i \in DemoIndices(n) : DemoAnswer(s, i) = "Ok"
       /\ Respond("demo", answer)
  /\ UNCHANGED <<store, fragment>>

\* Without leaves it gets no further than anchor does.
DemoOfNothing(n) ==
  /\ n = 0 /\ store = NoStore
  /\ \E error \in {"panic", "EmptyLeaves"} : Respond("demo of nothing", error)
  /\ UNCHANGED <<store, fragment>>

TakeResult ==
  /\ result # NoResult
  /\ result' = NoResult
  /\ UNCHANGED <<store, fragment>>

Init == store = NoStore /\ fragment = NoFragment /\ result = NoResult

Next ==
  \/ \E k \in Requested \cup {DefaultK} :
       \/ RefuseEmpty(k)
       \/ \E population \in Populations : RefuseLevel(population, k) \/ Anchor(population, k)
  \/ \E key \in Keys : RefuseKey(key) \/ QueryKey(key)
  \/ CheckFragment \/ CheckMadeUp
  \/ \E key \in Keys, leaf \in PayloadLeaves : CheckFull(key, leaf)
  \/ \E n \in DemoSizes : Demo(n) \/ DemoOfNothing(n)
  \/ TakeResult

Spec == Init /\ [][Next]_vars

-----------------------------------------------------------------------------
(* Properties *)

Anchored == store # NoStore

\* The client has taken the answer of its last call, which every call waits for.
BetweenCalls == Anchored /\ result = NoResult

\* The store is one that anchor builds: root and labels are those of its leaves,
\* at a level that the tree has, and its keys have places among them.  A fragment
\* has a place and siblings, a response is one that a call gives.
TypeOK ==
  /\ Anchored =>
       /\ store.leaves \in Seq(PayloadLeaves) /\ store.leaves # <<>>
       /\ store.root = MerkleRoot(store.leaves)
       /\ store.k \in 0 .. DepthFor(Len(store.leaves))
       /\ store.labels = Turns(store.leaves)[store.k]
       /\ DOMAIN store.index \subseteq Keys
       /\ \A key \in DOMAIN store.index : store.index[key] \in 0 .. Len(store.leaves) - 1
  /\ fragment # NoFragment => fragment.leaf_index \in Nat /\ IsVec(fragment.lower_shard)
  /\ result # NoResult =>
       result.call \in {"anchor", "query", "adversarial", "full", "demo", "demo of nothing"}

\* Every key of every store gets a fragment that the store itself accepts,
\* at any level k from the leaves to the root and for any odd level between.
QueryVerifies ==
  BetweenCalls => \A key \in DOMAIN store.index :
    LET stored == Query(store, key) IN Adversarial(store, stored.leaf, stored) = "Ok"

\* Checking a leaf against its key's fragment and checking it with the whole
\* proof give the same answer.
VerifiersAgree ==
  BetweenCalls => \A key \in DOMAIN store.index, leaf \in PayloadLeaves :
    (FullMerkle(store, key, leaf) = "Ok")
      <=> (Adversarial(store, leaf, Query(store, key)) = "Ok")

\* A fragment that verify_adversarial accepts for the hash of a payload, be it
\* made up or kept from an earlier store, shows a leaf of this store, at its
\* place when it states one.  The shard's length is compared with nothing.
AcceptedIsAnchored ==
  result # NoResult /\ result.call = "adversarial" /\ result.returned = "Ok"
    /\ result.leaf \in PayloadLeaves
    => /\ \E i \in DOMAIN store.leaves : store.leaves[i] = result.leaf
       /\ result.stored.leaf_index < Len(store.leaves)
            => At(store.leaves, result.stored.leaf_index) = result.leaf

\* Level k is never above the root, the default least of all; the labels of it
\* cover the leaves, the k siblings of every leaf leading to one, with no label
\* to spare.
LabelsCoverLeaves ==
  Anchored => /\ store.k <= DepthFor(Len(store.leaves))
              /\ {IndexAbove(i, store.k) : i \in 0 .. Len(store.leaves) - 1}
                   = 0 .. Len(store.labels) - 1

\* cmd_query verifies its three queries for every population it makes up: at
\* each size the default level, the label a leaf climbs to and the labels' own
\* way to the root fit together.
DemoQueriesVerify ==
  result # NoResult /\ result.call = "demo" => result.returned = "Ok"

\* What the documentation of StoredProof says of a shard
\* (proofstore/src/lib.rs:75): it goes from the leaf up to level k.
AcceptedShardReachesK ==
  result # NoResult /\ result.call = "adversarial" /\ result.returned = "Ok"
    => Len(result.stored.lower_shard) = store.k
=============================================================================
