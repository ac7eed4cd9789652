---------------------------- MODULE StoreCalls ----------------------------
(***************************************************************************)
(* The methods of ProofStore (crates/proofstore) as functions on the       *)
(* immutable store that anchor returns.                                    *)
(***************************************************************************)
EXTENDS MerkleCalls, FiniteSetsExt

CONSTANT DefaultK  \* None as the predetermined level

LeavesOf(population) == [i \in DOMAIN population |-> population[i].leaf]

\* Mutation: positions counted from 1.
IndexFromOne(population) ==
  [key \in {population[i].key : i \in DOMAIN population} |->
     Max({i \in DOMAIN population : population[i].key = key})]

\* HashMap::insert pair by pair: of two pairs with one key the last stays.
Index(population) ==
  [key \in {population[i].key : i \in DOMAIN population} |->
     Max({i \in DOMAIN population : population[i].key = key}) - 1]

\* Mutation: the odd node is dropped instead of duplicated.
AssistanceDropsOdd(leaves, k) ==
  LET level[j \in 0 .. k] ==
        IF j = 0 THEN leaves
        ELSE LET prev == level[j - 1] IN
             [i \in 1 .. Len(prev) \div 2 |-> ParentHash(prev[2 * i - 1], prev[2 * i])]
  IN  level[k]

\* for _ in 0..k: the level after each turn, whatever the level has.
Raised(leaves, k) ==
  LET level[j \in 0 .. k] == IF j = 0 THEN leaves ELSE NextLevel(level[j - 1])
  IN  level

\* compute_assistance: exactly k levels up.
Assistance(leaves, k) == Raised(leaves, k)[k]

\* floor(log2(n)): how often n can be halved before nothing but its highest bit is left.
Log2(n) ==
  LET bit[m \in Nat] == IF m <= 1 THEN 0 ELSE 1 + bit[m \div 2]
  IN  bit[n]

\* None: half the height, by the position of the highest bit.
LevelFor(n, k) == IF k = DefaultK THEN Log2(n) \div 2 ELSE k

\* Mutation: a level above the root is let through.
LevelAllowedUnchecked(n, k) == TRUE

\* Some(k) above the depth is refused; the default is not checked.
LevelAllowed(n, k) == k # DefaultK => k <= DepthFor(n)

\* The store anchor returns when it refuses nothing.
StoreOf(population, k) ==
  LET leaves == LeavesOf(population)
      level == LevelFor(Len(population), k)
  IN  [leaves |-> leaves, index |-> Index(population), root |-> MerkleRoot(leaves),
       labels |-> Assistance(leaves, level), k |-> level]

-----------------------------------------------------------------------------
(* query and the two ways to check its answer *)

\* Mutation: the whole proof instead of its first k siblings.
QueryWholeProof(s, key) ==
  [leaf_index |-> s.index[key], leaf |-> At(s.leaves, s.index[key]),
   lower_shard |-> BuildProof(s.leaves, s.index[key])]

Query(s, key) ==
  LET siblings == BuildProof(s.leaves, s.index[key]) IN
  [leaf_index |-> s.index[key], leaf |-> At(s.leaves, s.index[key]),
   lower_shard |-> SubSeq(siblings, 1, Min({s.k, Len(siblings)}))]

\* Mutation: the node reached is not compared with its label.
AdversarialUpperOnly(s, leaf, stored) ==
  LET shard == stored.lower_shard
      place == IndexAbove(stored.leaf_index, Len(shard))
  IN  IF \E j \in DOMAIN shard : shard[j] \in Undecodable THEN "ProofLengthMismatch"
      ELSE IF place >= Len(s.labels) THEN "IndexNotFound"
      ELSE IF MerkleRoot(s.labels) # s.root THEN "RootMismatch" ELSE "Ok"

\* verify_adversarial: the shard up to a label, and the labels up to the root.
Adversarial(s, leaf, stored) ==
  LET shard == stored.lower_shard
      place == IndexAbove(stored.leaf_index, Len(shard))
  IN  IF \E j \in DOMAIN shard : shard[j] \in Undecodable THEN "ProofLengthMismatch"
      ELSE IF place >= Len(s.labels) THEN "IndexNotFound"
      ELSE IF \/ ClimbFrom(leaf, stored.leaf_index, shard) # At(s.labels, place)
              \/ MerkleRoot(s.labels) # s.root
           THEN "RootMismatch" ELSE "Ok"

FullMerkle(s, key, leaf) ==
  IF key \notin DOMAIN s.index THEN "IndexNotFound"
  ELSE VerifyProof(s.index[key], Len(s.leaves), BuildProof(s.leaves, s.index[key]),
                   leaf, s.root)
=============================================================================
