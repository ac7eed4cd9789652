---------------------------- MODULE MerkleCalls ----------------------------
(***************************************************************************)
(* The calls of crates/merkle as functions, for the modules in which a     *)
(* whole call is one step.  That the turns of the loops amount to this is  *)
(* the business of BatchInclusion.                                         *)
(***************************************************************************)
EXTENDS MerkleTree, FiniteSets

\* while level.len() > 1: the level after each turn, none when it has ended.
Turns(level) ==
  LET after[j \in 0 .. Len(level)] ==
        IF j = 0 THEN level
        ELSE LET prev == after[j - 1] IN
             IF Len(prev) > 1 THEN NextLevel(prev) ELSE prev
  IN  after

MerkleRoot(level) == Turns(level)[Len(level)][1]

\* idx /= 2, so many times
IndexAbove(leaf_index, turns) ==
  LET idx[j \in Nat] == IF j = 0 THEN leaf_index ELSE idx[j - 1] \div 2
  IN  idx[turns]

BuildProof(leaves, leaf_index) ==
  LET level == Turns(leaves)
      turns == Cardinality({j \in 0 .. Len(leaves) : Len(level[j]) > 1})
  IN  [j \in 1 .. turns |->
         At(Padded(level[j - 1]), SiblingIndex(IndexAbove(leaf_index, j - 1)))]

DepthFor(n) ==
  LET depth[m \in Nat] == IF m <= 1 THEN 0 ELSE 1 + depth[(m + 1) \div 2]
  IN  depth[n]

\* The nodes that climbing from a leaf goes through, a sibling a turn.
ClimbedNodes(leaf, leaf_index, siblings) ==
  LET node[j \in 0 .. Len(siblings)] ==
        IF j = 0 THEN leaf
        ELSE Combine(IndexAbove(leaf_index, j - 1), node[j - 1], siblings[j])
  IN  node

ClimbFrom(leaf, leaf_index, siblings) ==
  ClimbedNodes(leaf, leaf_index, siblings)[Len(siblings)]

VerifyProof(leaf_index, total_leaves, siblings, leaf, root) ==
  IF \/ Len(siblings) # DepthFor(total_leaves)
     \/ Nodes(siblings) \cap Undecodable # {}
    THEN "ProofLengthMismatch"
  ELSE IF ClimbFrom(leaf, leaf_index, siblings) = root THEN "Ok"
  ELSE "RootMismatch"
=============================================================================
