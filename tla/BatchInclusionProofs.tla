----------------------- MODULE BatchInclusionProofs -----------------------
(***************************************************************************)
(* What holds of BatchInclusion for every set of notes, every batch, every *)
(* foreign hash, every bound on claims and every word size, and that it    *)
(* implements InclusionContract.                                           *)
(***************************************************************************)
EXTENDS BatchRefinement, MerkleTreeProofs

\* The leaves of the batch are a vector as long as the batch.
LEMMA LeafHashesVec ==
  ASSUME TypeOK
  PROVE  /\ IsVec(LeafHashes) /\ Len(LeafHashes) = Len(notes) /\ Len(notes) \in Nat
         /\ Len(notes) + 1 < UsizeMod
         /\ \A i \in 1 .. Len(notes) :
              LeafHashes[i] = DoubleSha256(notes[i]) /\ notes[i] \in Bodies
<1>1. notes \in Seq(Bodies) /\ Len(notes) + 1 < UsizeMod
  BY BatchesAssumption DEF TypeOK
<1>2. LeafHashes = [i \in 1 .. Len(notes) |-> DoubleSha256(notes[i])]
  BY DEF LeafHashes
<1> HIDE DEF LeafHashes
<1>3. IsVec(LeafHashes) /\ Len(LeafHashes) = Len(notes)
  BY <1>1, <1>2, VecOfFunction
<1> QED
  BY <1>1, <1>2, <1>3

\* The initial state has the right types.
LEMMA TypeInit == Init => TypeOK
BY VecLiterals DEF Init, TypeOK, Outcomes, NoProof, MerkleProof

\* The range of a count after one turn of depth_for.
LEMMA DepthLoopCount ==
  ASSUME TypeOK, DepthLoop
  PROVE  count' \in Nat
<1>1. count \in Nat
  BY DEF TypeOK
<1>2. count \div 2 \in Nat /\ 0 \div 2 \in Nat /\ (count + 1) \div 2 \in Nat
  BY <1>1
<1> QED
  BY <1>1, <1>2 DEF DepthLoop

\* Every step keeps the types.
LEMMA TypeStep == TypeOK /\ [Next]_vars => TypeOK'
<1> SUFFICES ASSUME TypeOK, [Next]_vars PROVE TypeOK'
  OBVIOUS
<1> USE DEF TypeOK
<1>1. CASE RefuseEmptyBatch
  BY <1>1 DEF RefuseEmptyBatch, Return, Outcomes, batchVars, proverVars, verifierVars
<1>2. CASE BuildBatch
  <2>1. IsVec(LeafHashes) /\ IsVec(<<LeafHashes>>)
    BY LeafHashesVec, VecLiterals
  <2> QED
    BY <1>2, <2>1 DEF BuildBatch, proverVars, verifierVars
<1>3. CASE RootLoop
  <2>1. IsVec(level') /\ IsVec(tree')
    BY <1>3, NextLevelProperties, VecAppend DEF RootLoop
  <2> QED
    BY <1>3, <2>1 DEF RootLoop, proverVars, verifierVars
<1>4. CASE RootDone
  BY <1>4 DEF RootDone, proverVars, verifierVars
<1>5. ASSUME NEW i \in Indices, RefuseIndex(i)
      PROVE  TypeOK'
  BY <1>5 DEF RefuseIndex, Return, Outcomes, batchVars, proverVars, verifierVars
<1>6. ASSUME NEW i \in Indices, StartProof(i)
      PROVE  TypeOK'
  <2>1. IsVec(level') /\ IsVec(path') /\ IsVec(<<>>)
    BY <1>6, LeafHashesVec, VecLiterals DEF StartProof
  <2>2. i \in Nat /\ Len(notes) \in Nat
    BY NumbersAssumption, LeafHashesVec
  <2> QED
    BY <1>6, <2>1, <2>2 DEF StartProof, MerkleProof, verifierVars
<1>7. CASE SiblingLoop
  <2>1. IsVec(level') /\ IsVec(path') /\ idx' \in Nat
    BY <1>7, NextLevelProperties, VecAppend, Halves DEF SiblingLoop
  <2>2. /\ proof' = MerkleProof(proof'.leaf_index, proof'.total_leaves, proof'.siblings)
        /\ proof'.leaf_index = proof.leaf_index
        /\ proof'.total_leaves = proof.total_leaves
        /\ proof'.siblings = Append(proof.siblings, At(Padded(level), SiblingIndex(idx)))
    BY <1>7 DEF SiblingLoop, MerkleProof
  <2>3. IsVec(proof'.siblings)
    BY <2>2, VecAppend
  <2> QED
    BY <1>7, <2>1, <2>2, <2>3 DEF SiblingLoop, verifierVars
<1>8. CASE ProofDone
  BY <1>8 DEF ProofDone, batchVars, proverVars, verifierVars
<1>9. ASSUME NEW b, NEW c, Present(b, c), pc \in {"prove", "present"},
             c = MerkleProof(c.leaf_index, c.total_leaves, c.siblings),
             {c.leaf_index, c.total_leaves} \subseteq Nat, IsVec(c.siblings)
      PROVE  TypeOK'
  <2>1. Len(c.siblings) \in Nat
    BY <1>9, VecLen
  <2> QED
    BY <1>9, <2>1 DEF Present, batchVars, proverVars
<1>10. CASE PresentProof
  BY <1>9, <1>10 DEF PresentProof
<1>11. CASE PresentClaim
  <2>1. PICK siblings \in SiblingLists, b \in Bodies, i \in Indices, total \in Totals :
          Present(b, MerkleProof(i, total, siblings))
    BY <1>11 DEF PresentClaim
  <2>2. i \in Nat /\ total \in Nat
    BY NumbersAssumption
  <2>3. PICK n \in 0 .. MaxSiblings :
          siblings \in [1 .. n -> TreeNodes \cup Foreign \cup Undecodable]
    BY DEF SiblingLists
  <2>4. IsVec(siblings)
    BY <2>3, NumbersAssumption, VecOfFunction
  <2> QED
    BY <1>9, <1>11, <2>1, <2>2, <2>4 DEF PresentClaim, MerkleProof
<1>12. CASE DepthLoop
  <2>1. count' \in Nat /\ depth' \in Nat
    BY <1>12, DepthLoopCount DEF DepthLoop
  <2> QED
    BY <1>12, <2>1 DEF DepthLoop, batchVars, proverVars
<1>13. CASE DepthOverflow
  BY <1>13 DEF DepthOverflow, Return, Outcomes, Verdicts, batchVars, proverVars, verifierVars
<1>14. CASE RefuseLength
  BY <1>14 DEF RefuseLength, Return, Outcomes, Verdicts, batchVars, proverVars, verifierVars
<1>15. CASE StartClimb
  BY <1>15, VecLen DEF StartClimb, batchVars, proverVars
<1>16. CASE Climb
  <2>1. idx \in Nat /\ pos \in Nat /\ IsVec(claim.siblings)
    OBVIOUS
  <2>2. idx' = idx \div 2 /\ pos' = pos + 1 /\ pos < Len(claim.siblings)
    BY <1>16 DEF Climb
  <2>3. idx' \in Nat /\ pos' \in Nat /\ pos' <= Len(claim.siblings)
    <3> HIDE DEF TypeOK
    <3> QED
      BY <2>1, <2>2, Halves, VecLen
  <2> QED
    BY <1>16, <2>3 DEF Climb, batchVars, proverVars
<1>17. CASE RefuseSibling
  BY <1>17 DEF RefuseSibling, Return, Outcomes, Verdicts, batchVars, proverVars, verifierVars
<1>18. CASE CompareRoot
  BY <1>18 DEF CompareRoot, Return, Outcomes, Verdicts, batchVars, proverVars, verifierVars
<1>19. CASE UNCHANGED vars
  BY <1>19 DEF vars, batchVars, proverVars, verifierVars
<1> QED
  BY <1>1, <1>2, <1>3, <1>4, <1>5, <1>6, <1>7, <1>8, <1>10, <1>11, <1>12, <1>13,
     <1>14, <1>15, <1>16, <1>17, <1>18, <1>19 DEF Next

\* The numbers stay numbers and the vectors vectors, whatever is claimed.
THEOREM TypeCorrect == Spec => []TypeOK
<1> QED
  BY TypeInit, TypeStep, PTL DEF Spec

-----------------------------------------------------------------------------
(* The tree and its root *)

\* Outside the root's loop the tree stays as it is.
LEMMA TreeKept ==
  ASSUME TreeInv, UNCHANGED <<notes, tree>>,
         (tree = <<>>) <=> (pc' = "batch" \/ outcome' = "EmptyBatch")
  PROVE  TreeInv'
BY DEF TreeInv, LeafHashes

\* A step after the root's loop leaves the batch, the tree and the root alone.
LEMMA AfterRoot ==
  ASSUME TypeOK, [Next]_vars, pc \notin {"batch", "root"}
  PROVE  /\ UNCHANGED <<notes, tree, root>>
         /\ pc' \notin {"batch", "root"}
         /\ (outcome' = "EmptyBatch") <=> (outcome = "EmptyBatch")
         /\ pc = "done" => pc' = "done"
         /\ Verified' => Verified \/ pc \in {"depth", "climb"}
<1> USE DEF TypeOK
<1>1. CASE UNCHANGED vars
  BY <1>1 DEF vars, batchVars, Verified
<1>2. ASSUME NEW i \in Indices, RefuseIndex(i) \/ StartProof(i)
      PROVE  /\ UNCHANGED <<notes, tree, root>>
             /\ pc' \notin {"batch", "root"}
             /\ (outcome' = "EmptyBatch") <=> (outcome = "EmptyBatch")
             /\ pc = "done" => pc' = "done"
             /\ Verified' => Verified \/ pc \in {"depth", "climb"}
  BY <1>2 DEF RefuseIndex, StartProof, Return, batchVars, Verified, Verdicts
<1>3. CASE SiblingLoop \/ ProofDone \/ PresentProof \/ PresentClaim
  BY <1>3 DEF SiblingLoop, ProofDone, PresentProof, PresentClaim, Present, batchVars, Verified
<1>4. CASE DepthLoop \/ DepthOverflow \/ RefuseLength \/ StartClimb
  BY <1>4 DEF DepthLoop, DepthOverflow, RefuseLength, StartClimb, Return, batchVars, Verified
<1>5. CASE Climb \/ RefuseSibling \/ CompareRoot
  BY <1>5 DEF Climb, RefuseSibling, CompareRoot, Return, batchVars, Verified
<1> QED
  BY <1>1, <1>2, <1>3, <1>4, <1>5
     DEF Next, RefuseEmptyBatch, BuildBatch, RootLoop, RootDone

\* Initially there is no tree.
LEMMA TreeInit == Init => TreeInv /\ RootInv
BY VecLiterals DEF Init, TreeInv, RootInv, Verified, Verdicts

\* Every step keeps the tree the one of the node rule, ending in the root.
LEMMA TreeStep == TypeOK /\ TreeInv /\ RootInv /\ [Next]_vars => TreeInv' /\ RootInv'
<1> SUFFICES ASSUME TypeOK, TreeInv, RootInv, [Next]_vars PROVE TreeInv' /\ RootInv'
  OBVIOUS
<1>0. IsVec(tree) /\ Len(tree) \in Nat /\ DOMAIN tree = 1 .. Len(tree)
  BY VecLen DEF TypeOK
<1>1. CASE pc = "batch"
  <2>1. outcome = "none" /\ ~Verified
    BY <1>1 DEF TypeOK, Verified, Verdicts
  <2>2. CASE RefuseEmptyBatch
    <3>1. TreeInv'
      BY <1>1, <2>2, TreeKept DEF RefuseEmptyBatch, Return, batchVars, TreeInv
    <3> QED
      BY <2>2, <3>1 DEF RefuseEmptyBatch, Return, RootInv, Verified, Verdicts
  <2>3. CASE BuildBatch
    <3>1. /\ tree' = <<LeafHashes>> /\ Len(tree') = 1 /\ tree'[1] = LeafHashes
          /\ level' = LeafHashes /\ LeafHashes' = LeafHashes /\ notes' = notes
          /\ Len(notes) > 0 /\ pc' = "root" /\ outcome' = "none"
      BY <2>1, <2>3, VecLiterals DEF BuildBatch, LeafHashes
    <3>2. IsVec(LeafHashes) /\ Len(LeafHashes) >= 1 /\ Len(LeafHashes) < UsizeMod - 1
      BY <3>1, LeafHashesVec, NumbersAssumption
    <3>3. tree' # <<>>
      BY <3>1, VecLiterals
    <3>4. TreeInv'
      BY <3>1, <3>2, <3>3 DEF TreeInv
    <3> QED
      BY <3>1, <3>4 DEF RootInv, Verified, Verdicts
  <2>4. CASE UNCHANGED vars
    BY <2>4 DEF vars, batchVars, TreeInv, RootInv, Verified, LeafHashes
  <2> QED
    BY <1>1, <2>2, <2>3, <2>4 DEF Next, RootLoop, RootDone, RefuseIndex, StartProof,
       SiblingLoop, ProofDone, PresentProof, PresentClaim, DepthLoop, DepthOverflow,
       RefuseLength, StartClimb, Climb, RefuseSibling, CompareRoot
<1>2. CASE pc = "root"
  <2>1. /\ outcome = "none" /\ ~Verified /\ tree # <<>> /\ Len(tree) >= 1
        /\ level = tree[Len(tree)] /\ IsVec(level) /\ Len(level) \in Nat
        /\ Len(level) >= 1
    <3>1. tree # <<>> /\ Len(tree) >= 1
      BY <1>0, <1>2 DEF TreeInv, TypeOK
    <3> QED
      BY <1>0, <1>2, <3>1, VecLen DEF TypeOK, Verified, Verdicts, RootInv, TreeInv
  <2>5. Len(level) < UsizeMod - 1
    BY <1>0, <2>1 DEF TreeInv
  <2>2. CASE RootLoop
    <3> DEFINE n == Len(tree)
               next == NextLevel(level)
    <3>1. /\ tree' = Append(tree, next) /\ level' = next /\ notes' = notes
          /\ pc' = "root" /\ outcome' = "none" /\ Len(level) > 1
          /\ LeafHashes' = LeafHashes
      BY <1>2, <2>1, <2>2 DEF RootLoop, LeafHashes
    <3>2. /\ Len(tree') = n + 1 /\ tree'[n + 1] = next
          /\ \A k \in 1 .. n : tree'[k] = tree[k]
      BY <1>0, <3>1, VecAppend
    <3>3. IsVec(next) /\ Len(next) >= 1 /\ Len(next) < UsizeMod - 1
      BY <2>1, <2>5, <3>1, NextLevelProperties, NumbersAssumption
    <3> HIDE DEF next
    <3>4. /\ tree' # <<>> /\ tree'[1] = LeafHashes
      BY <1>0, <2>1, <3>2, VecLiterals DEF TreeInv
    <3>5. ASSUME NEW k \in 1 .. Len(tree')
          PROVE  IsVec(tree'[k]) /\ Len(tree'[k]) >= 1 /\ Len(tree'[k]) < UsizeMod - 1
      <4>1. k \in 1 .. n \/ k = n + 1
        BY <1>0, <3>2
      <4> QED
        BY <3>2, <3>3, <4>1 DEF TreeInv
    <3>6. ASSUME NEW k \in 1 .. Len(tree') - 1
          PROVE  Len(tree'[k]) > 1 /\ tree'[k + 1] = NextLevel(tree'[k])
      <4>0. n \in Nat /\ n >= 1 /\ k \in 1 .. n
        BY <1>0, <2>1, <3>2
      <4>1. /\ n \in 1 .. n
            /\ \/ k \in 1 .. n - 1 /\ k \in 1 .. n /\ k + 1 \in 1 .. n
               \/ k = n
        BY <4>0
      <4> QED
        BY <2>1, <3>1, <3>2, <4>1 DEF TreeInv, next
    <3> QED
      BY <3>1, <3>2, <3>4, <3>5, <3>6 DEF TreeInv, RootInv, Verified, Verdicts
  <2>3. CASE RootDone
    <3>1. /\ pc' = "prove" /\ outcome' = "none" /\ root' = level[1] /\ Len(level) <= 1
          /\ tree' = tree /\ notes' = notes
      BY <2>1, <2>3 DEF RootDone
    <3>0. Len(level) \in Nat /\ Len(level) >= 1 /\ Len(level) <= 1
      BY <2>1, <3>1
    <3>2. Len(level) = 1
      <4>1. \A n \in Nat : n >= 1 /\ n <= 1 => n = 1
        OBVIOUS
      <4> QED
        BY <3>0, <4>1
    <3>3. TreeInv'
      BY <1>2, <2>1, <3>1, TreeKept DEF TreeInv
    <3> QED
      BY <2>1, <3>1, <3>2, <3>3 DEF RootInv
  <2>4. CASE UNCHANGED vars
    BY <2>4 DEF vars, batchVars, TreeInv, RootInv, Verified, LeafHashes
  <2> QED
    BY <1>2, <2>2, <2>3, <2>4 DEF Next, RefuseEmptyBatch, BuildBatch, RefuseIndex, StartProof,
       SiblingLoop, ProofDone, PresentProof, PresentClaim, DepthLoop, DepthOverflow,
       RefuseLength, StartClimb, Climb, RefuseSibling, CompareRoot
<1>3. CASE pc \notin {"batch", "root"}
  <2>1. TreeInv'
    BY <1>3, AfterRoot, TreeKept DEF TreeInv
  <2>2. pc' \in {"prove", "siblings", "present", "depth", "climb"} =>
          pc \in {"prove", "siblings", "present", "depth", "climb"}
    BY <1>3, AfterRoot DEF TypeOK
  <2> QED
    BY <1>3, <2>1, <2>2, AfterRoot DEF RootInv
<1> QED
  BY <1>1, <1>2, <1>3

-----------------------------------------------------------------------------
(* The honest proof *)

\* Outside build_proof the honest proof stays as it is.
LEMMA ProofKept ==
  ASSUME ProofInv, UNCHANGED <<notes, tree, proof, path>>,
         pc \notin {"siblings", "batch", "root"} \/ path = <<>>,
         pc' # "siblings",
         pc' \in {"batch", "root", "prove"} => pc \in {"batch", "root", "prove"},
         pc' = "present" => pc = "present"
  PROVE  ProofInv'
BY DEF ProofInv

\* Initially there is no proof.
LEMMA ProofInit == Init => ProofInv
BY DEF Init, ProofInv

\* Every step keeps the honest proof right.
LEMMA ProofStep ==
  TypeOK /\ TreeInv /\ RootInv /\ ProofInv /\ [Next]_vars => ProofInv'
<1> SUFFICES ASSUME TypeOK, TreeInv, RootInv, ProofInv, [Next]_vars PROVE ProofInv'
  OBVIOUS
<1>0. /\ Len(tree) \in Nat /\ IsVec(path) /\ Len(path) \in Nat
      /\ IsVec(proof.siblings) /\ Len(proof.siblings) \in Nat
  BY VecLen DEF TypeOK
<1>1. CASE RefuseEmptyBatch
  BY <1>1 DEF RefuseEmptyBatch, Return, batchVars, proverVars, ProofInv
<1>2. CASE BuildBatch \/ RootLoop \/ RootDone
  <2>1. path = <<>> /\ path' = <<>>
    BY <1>2 DEF BuildBatch, RootLoop, RootDone, proverVars, ProofInv
  <2>2. pc' \in {"root", "prove"}
    BY <1>2 DEF BuildBatch, RootLoop, RootDone
  <2> QED
    BY <2>1, <2>2 DEF ProofInv
<1>3. ASSUME NEW i \in Indices, RefuseIndex(i)
      PROVE  ProofInv'
  BY <1>3 DEF RefuseIndex, Return, batchVars, proverVars, ProofInv
<1>4. ASSUME NEW i \in Indices, StartProof(i)
      PROVE  ProofInv'
  <2>1. /\ pc' = "siblings" /\ idx' = i /\ level' = LeafHashes /\ path' = <<i>>
        /\ tree' = tree /\ notes' = notes /\ i < Len(notes) /\ pc = "prove"
        /\ proof' = MerkleProof(i, Len(notes), <<>>)
    BY <1>4 DEF StartProof
  <2>2. /\ path' # <<>> /\ Len(path') = 1 /\ path'[1] = i /\ i \in Nat
    BY <2>1, VecLiterals, NumbersAssumption
  <2>3. /\ proof'.leaf_index = i /\ proof'.total_leaves = Len(notes)
        /\ proof'.siblings = <<>> /\ Len(proof'.siblings) = 0
    BY <2>1, VecLiterals DEF MerkleProof
  <2>4. /\ Len(tree) >= 1 /\ tree[1] = LeafHashes /\ Len(tree[1]) = Len(notes)
    <3>1. tree # <<>>
      BY <2>1 DEF TreeInv, TypeOK
    <3>2. Len(tree) >= 1
      BY <1>0, <3>1 DEF TypeOK, IsVec
    <3> QED
      BY <3>1, <3>2, LeafHashesVec DEF TreeInv
  <2> QED
    BY <1>0, <2>1, <2>2, <2>3, <2>4 DEF ProofInv
<1>5. CASE SiblingLoop
  <2> DEFINE m == Len(path)
             s == At(Padded(level), SiblingIndex(idx))
  <2>1. /\ pc = "siblings" /\ pc' = "siblings" /\ tree' = tree /\ notes' = notes
        /\ path # <<>> /\ Len(level) > 1 /\ level' = NextLevel(level)
        /\ idx' = idx \div 2 /\ path' = Append(path, idx \div 2)
        /\ proof' = [proof EXCEPT !.siblings = Append(@, s)]
    BY <1>5 DEF SiblingLoop, ProofInv
  <2>2. /\ m <= Len(tree) /\ m = Len(proof.siblings) + 1
        /\ proof.total_leaves = Len(notes) /\ path[1] = proof.leaf_index
        /\ level = tree[m] /\ idx = path[m]
    BY <2>1 DEF ProofInv
  <2>3. m < Len(tree)
    <3>1. Len(tree[Len(tree)]) = 1
      BY <2>1 DEF RootInv
    <3>2. ASSUME m = Len(tree) PROVE FALSE
      <4>1. Len(level) = 1
        BY <2>2, <3>1, <3>2
      <4> QED
        BY <2>1, <4>1
    <3> QED
      BY <1>0, <2>2, <3>2
  <2>4. m \in 1 .. Len(tree) /\ m \in 1 .. Len(tree) - 1 /\ m \in 1 .. m /\ m >= 1
    BY <1>0, <2>2, <2>3
  <2>5. IsVec(level) /\ idx \in Nat /\ idx < Len(level) /\ tree[m + 1] = NextLevel(level)
    BY <2>1, <2>2, <2>4 DEF TreeInv, ProofInv
  <2>6. idx \div 2 \in Nat /\ idx \div 2 < Len(NextLevel(level))
    BY <2>5, ParentAt
  <2>7. /\ proof'.leaf_index = proof.leaf_index /\ proof'.total_leaves = proof.total_leaves
        /\ proof'.siblings = Append(proof.siblings, s)
    BY <2>1 DEF TypeOK, MerkleProof
  <2>8. /\ Len(proof'.siblings) = m /\ proof'.siblings[m] = s
        /\ \A k \in 1 .. m - 1 : proof'.siblings[k] = proof.siblings[k]
    BY <1>0, <2>2, <2>7, VecAppend
  <2>9. /\ Len(path') = m + 1 /\ path'[m + 1] = idx \div 2
        /\ \A k \in 1 .. m : path'[k] = path[k]
    BY <1>0, <2>1, VecAppend
  <2> HIDE DEF m, s
  <2>10. m \in Nat
    BY <2>4
  <2>11. path' # <<>> /\ path'[1] = proof'.leaf_index
    BY <2>2, <2>4, <2>7, <2>9, <2>10, VecLiterals
  <2>12. ASSUME NEW k \in 1 .. Len(path')
         PROVE  path'[k] \in Nat /\ path'[k] < Len(tree'[k])
    <3>1. k \in 1 .. m \/ k = m + 1
      BY <2>9, <2>10
    <3>2. CASE k \in 1 .. m
      BY <2>1, <2>9, <3>2 DEF ProofInv, m
    <3>3. CASE k = m + 1
      BY <2>1, <2>5, <2>6, <2>9, <3>3
    <3> QED
      BY <3>1, <3>2, <3>3
  <2>13. ASSUME NEW k \in 1 .. Len(proof'.siblings)
         PROVE  /\ path'[k + 1] = path'[k] \div 2
                /\ proof'.siblings[k] = At(Padded(tree'[k]), SiblingIndex(path'[k]))
    <3>1. \/ k \in 1 .. m - 1 /\ k \in 1 .. m /\ k + 1 \in 1 .. m
          \/ k = m
      BY <2>8, <2>10
    <3>2. CASE k \in 1 .. m - 1 /\ k \in 1 .. m /\ k + 1 \in 1 .. m
      <4>1. k \in 1 .. Len(proof.siblings)
        BY <1>0, <2>2, <3>2
      <4> QED
        BY <2>1, <2>8, <2>9, <3>2, <4>1 DEF ProofInv
    <3>3. CASE k = m
      BY <2>1, <2>2, <2>4, <2>8, <2>9, <3>3 DEF s
    <3> QED
      BY <3>1, <3>2, <3>3
  <2>14. Len(path') <= Len(tree') /\ Len(path') = Len(proof'.siblings) + 1
    BY <1>0, <2>1, <2>3, <2>8, <2>9, <2>10
  <2>15. level' = tree'[Len(path')] /\ idx' = path'[Len(path')]
    BY <2>1, <2>5, <2>9
  <2>16. proof'.total_leaves = Len(notes')
    BY <2>1, <2>2, <2>7
  <2> QED
    BY <2>1, <2>11, <2>12, <2>13, <2>14, <2>15, <2>16 DEF ProofInv
<1>6. CASE ProofDone
  <2>1. /\ pc = "siblings" /\ pc' = "present" /\ path # <<>> /\ Len(level) <= 1
        /\ UNCHANGED <<notes, tree, proof, path>>
    BY <1>6 DEF ProofDone, ProofInv, batchVars, proverVars
  <2>2. Len(path) = Len(tree)
    <3>1. Len(path) <= Len(tree) /\ level = tree[Len(path)] /\ Len(path) >= 1
      BY <1>0, <2>1 DEF ProofInv
    <3>2. Len(path) \in 1 .. Len(tree) - 1 \/ Len(path) = Len(tree)
      BY <1>0, <3>1
    <3>3. Len(level) \in Nat
      BY VecLen DEF TypeOK
    <3>4. ~ (Len(level) > 1)
      BY <2>1, <3>3
    <3> QED
      BY <3>1, <3>2, <3>4 DEF TreeInv
  <2> QED
    BY <2>1, <2>2 DEF ProofInv
<1>7. CASE PresentProof \/ PresentClaim
  BY <1>7, ProofKept DEF PresentProof, PresentClaim, Present, batchVars, proverVars, ProofInv
<1>8. CASE DepthLoop \/ DepthOverflow \/ RefuseLength \/ StartClimb
  BY <1>8, ProofKept DEF DepthLoop, DepthOverflow, RefuseLength, StartClimb, Return,
     batchVars, proverVars
<1>9. CASE Climb \/ RefuseSibling \/ CompareRoot
  BY <1>9, ProofKept DEF Climb, RefuseSibling, CompareRoot, Return, batchVars, proverVars
<1>10. CASE UNCHANGED vars
  BY <1>10 DEF vars, batchVars, proverVars, ProofInv
<1> QED
  BY <1>1, <1>2, <1>3, <1>4, <1>5, <1>6, <1>7, <1>8, <1>9, <1>10 DEF Next

-----------------------------------------------------------------------------
(* depth_for *)

\* Once there is a root, the tree reaches from the leaves to it.
LEMMA TreeShape ==
  ASSUME TypeOK, TreeInv, RootInv, pc \in {"prove", "siblings", "present", "depth", "climb"}
  PROVE  /\ Len(tree) \in Nat /\ Len(tree) >= 1
         /\ tree[1] = LeafHashes /\ Len(tree[1]) = Len(notes)
         /\ Len(tree[Len(tree)]) = 1 /\ tree[Len(tree)][1] = root
         /\ DOMAIN tree[Len(tree)] = {1}
<1>1. tree # <<>>
  BY DEF TreeInv, TypeOK
<1>2. Len(tree) \in Nat /\ Len(tree) >= 1
  BY <1>1, VecLen DEF TypeOK, IsVec
<1>3. IsVec(tree[Len(tree)])
  BY <1>2 DEF TreeInv
<1>4. Len(tree[Len(tree)]) = 1 /\ tree[Len(tree)][1] = root
  BY DEF RootInv
<1>5. DOMAIN tree[Len(tree)] = 1 .. Len(tree[Len(tree)])
  BY <1>3, VecLen
<1>6. DOMAIN tree[Len(tree)] = 1 .. 1
  BY <1>4, <1>5
<1> QED
  BY <1>1, <1>2, <1>4, <1>6, LeafHashesVec DEF TreeInv

\* Only the root's level has fewer than two nodes.
LEMMA OnlyRootIsSingle ==
  ASSUME TypeOK, TreeInv, RootInv, pc \in {"prove", "siblings", "present", "depth", "climb"},
         NEW k \in Nat, k >= 1, k <= Len(tree)
  PROVE  /\ k < Len(tree) => Len(tree[k]) > 1
         /\ k = Len(tree) => ~ (Len(tree[k]) > 1)
<1>1. Len(tree) \in Nat
  BY TreeShape
<1>2. ASSUME k < Len(tree) PROVE Len(tree[k]) > 1
  <2>1. k \in 1 .. Len(tree) - 1
    BY <1>1, <1>2
  <2> QED
    BY <2>1 DEF TreeInv
<1>3. ASSUME k = Len(tree) PROVE ~ (Len(tree[k]) > 1)
  <2>1. Len(tree[k]) = 1
    BY <1>3, TreeShape
  <2> QED
    BY <2>1
<1> QED
  BY <1>2, <1>3

\* Initially no depth is being computed.
LEMMA DepthInit == Init => DepthInv
BY DEF Init, DepthInv

\* Every step keeps depth_for in step with the tree, if it was started from
\* the batch's own leaf count.
LEMMA DepthStep ==
  TypeOK /\ TreeInv /\ RootInv /\ DepthInv /\ [Next]_vars => DepthInv'
<1> SUFFICES ASSUME TypeOK, TreeInv, RootInv, DepthInv, [Next]_vars PROVE DepthInv'
  OBVIOUS
<1>1. CASE RefuseEmptyBatch \/ BuildBatch \/ RootLoop \/ RootDone
  BY <1>1 DEF RefuseEmptyBatch, BuildBatch, RootLoop, RootDone, Return, DepthInv
<1>2. ASSUME NEW i \in Indices, RefuseIndex(i) \/ StartProof(i)
      PROVE  DepthInv'
  BY <1>2 DEF RefuseIndex, StartProof, Return, DepthInv
<1>3. CASE SiblingLoop \/ ProofDone
  BY <1>3 DEF SiblingLoop, ProofDone, DepthInv
<1>4. ASSUME NEW b \in Bodies, NEW c, Present(b, c), pc \in {"prove", "present"}
      PROVE  DepthInv'
  <2>1. /\ pc' = "depth" /\ body' = b /\ claim' = c /\ node' = DoubleSha256(b)
        /\ count' = c.total_leaves /\ depth' = 0 /\ tree' = tree /\ notes' = notes
    BY <1>4 DEF Present, batchVars
  <2>2. Len(tree) \in Nat /\ Len(tree) >= 1 /\ Len(tree[1]) = Len(notes)
    BY <1>4, TreeShape
  <2>3. 0 < Len(tree') /\ tree'[depth' + 1] = tree[1]
    BY <2>1, <2>2
  <2> QED
    BY <2>1, <2>2, <2>3 DEF DepthInv
<1>5. CASE PresentProof \/ PresentClaim
  BY <1>4, <1>5 DEF PresentProof, PresentClaim
<1>6. CASE DepthLoop
  <2>1. /\ pc = "depth" /\ pc' = "depth" /\ count > 1 /\ depth' = depth + 1
        /\ UNCHANGED <<body, node, claim, notes, tree>>
    BY <1>6 DEF DepthLoop, batchVars
  <2>2. ASSUME claim.total_leaves = Len(notes)
        PROVE  depth' < Len(tree) /\ count' = Len(tree[depth' + 1])
    <3>1. depth < Len(tree) /\ count = Len(tree[depth + 1]) /\ depth \in Nat /\ count \in Nat
      BY <2>1, <2>2 DEF DepthInv, TypeOK
    <3>2. Len(tree) \in Nat
      BY <2>1, TreeShape
    <3>3. depth + 1 \in Nat /\ depth + 1 >= 1 /\ depth + 1 <= Len(tree)
      BY <3>1, <3>2
    <3>4. depth + 1 # Len(tree)
      BY <2>1, <3>1, <3>3, OnlyRootIsSingle
    <3>5. depth + 1 < Len(tree)
      BY <3>2, <3>3, <3>4
    <3>6. depth + 1 \in 1 .. Len(tree) - 1 /\ depth + 1 \in 1 .. Len(tree)
      BY <3>2, <3>3, <3>5
    <3>7. /\ IsVec(tree[depth + 1]) /\ count < UsizeMod - 1
          /\ tree[depth + 2] = NextLevel(tree[depth + 1])
      BY <3>1, <3>6 DEF TreeInv
    <3>8. Len(tree[depth + 2]) = (count + 1) \div 2
      BY <3>1, <3>7, NextLevelProperties
    <3>9. count' = (count + 1) \div 2
      <4>1. count + 1 # UsizeMod
        BY <3>1, <3>7, NumbersAssumption
      <4>2. count % 2 = 0 => count \div 2 = (count + 1) \div 2
        BY <3>1, Halves
      <4> QED
        BY <1>6, <4>1, <4>2 DEF DepthLoop
    <3>10. depth' + 1 = depth + 2
      BY <2>1, <3>1
    <3> QED
      BY <2>1, <3>5, <3>8, <3>9, <3>10
  <2> QED
    BY <2>1, <2>2 DEF DepthInv
<1>7. CASE DepthOverflow \/ RefuseLength \/ RefuseSibling \/ CompareRoot
  BY <1>7 DEF DepthOverflow, RefuseLength, RefuseSibling, CompareRoot, Return, DepthInv
<1>8. CASE StartClimb \/ Climb
  BY <1>8 DEF StartClimb, Climb, DepthInv
<1>9. CASE UNCHANGED vars
  BY <1>9 DEF vars, batchVars, verifierVars, DepthInv
<1> QED
  BY <1>1, <1>2, <1>3, <1>5, <1>6, <1>7, <1>8, <1>9 DEF Next

-----------------------------------------------------------------------------
(* The climb of verify_proof *)

\* A hash decodes.
LEMMA HashDecodes == \A x : DoubleSha256(x) \notin Undecodable
BY DEF DoubleSha256, Undecodable, NotHex, WrongLength

\* Every node of the tree is a hash, so the honest proof always decodes.
LEMMA TreeNodesAreHashes ==
  ASSUME TypeOK, TreeInv, NEW k \in 1 .. Len(tree), NEW x \in Nodes(tree[k])
  PROVE  x \notin Undecodable
<1>0. /\ Len(tree) \in Nat /\ IsVec(tree[k]) /\ tree # <<>>
      /\ DOMAIN tree[k] = 1 .. Len(tree[k])
  BY VecLen, VecLiterals DEF TypeOK, TreeInv
<1>1. PICK i \in 1 .. Len(tree[k]) : x = tree[k][i]
  BY <1>0 DEF Nodes
<1>2. CASE k = 1
  <2>1. tree[1] = LeafHashes /\ i \in 1 .. Len(notes)
    BY <1>0, <1>1, <1>2, LeafHashesVec DEF TreeInv
  <2> QED
    BY <1>1, <1>2, <2>1, LeafHashesVec, HashDecodes
<1>3. CASE k # 1
  <2>1. k - 1 \in 1 .. Len(tree) - 1 /\ k - 1 \in 1 .. Len(tree) /\ (k - 1) + 1 = k
    BY <1>0, <1>3
  <2>2. IsVec(tree[k - 1]) /\ tree[k] = NextLevel(tree[k - 1])
    BY <2>1 DEF TreeInv
  <2>3. x = ParentHash(Padded(tree[k - 1])[2 * i - 1], Padded(tree[k - 1])[2 * i])
    BY <1>1, <2>2, NextLevelProperties
  <2> QED
    BY <2>3, HashDecodes DEF ParentHash
<1> QED
  BY <1>2, <1>3

\* A note's hash is found among the leaves, or nowhere in the tree.
LEMMA NoteIsLeaf ==
  ASSUME TypeOK, TreeInv, NEW b \in Bodies,
         NEW k \in 1 .. Len(tree), DoubleSha256(b) \in Nodes(tree[k])
  PROVE  k = 1
<1>0. /\ Len(tree) \in Nat /\ IsVec(tree[k])
      /\ DOMAIN tree[k] = 1 .. Len(tree[k])
  BY VecLen DEF TypeOK, TreeInv
<1> SUFFICES ASSUME k # 1 PROVE FALSE
  OBVIOUS
<1>1. PICK i \in 1 .. Len(tree[k]) : DoubleSha256(b) = tree[k][i]
  BY <1>0 DEF Nodes
<1>2. k - 1 \in 1 .. Len(tree) - 1 /\ k - 1 \in 1 .. Len(tree) /\ (k - 1) + 1 = k
  BY <1>0
<1>3. IsVec(tree[k - 1]) /\ tree[k] = NextLevel(tree[k - 1])
  BY <1>2 DEF TreeInv
<1>4. DoubleSha256(b) = ParentHash(Padded(tree[k - 1])[2 * i - 1], Padded(tree[k - 1])[2 * i])
  BY <1>1, <1>3, NextLevelProperties
<1> QED
  BY <1>4, ParentOfDigests, BodiesAssumption

\* No parent is a leaf.
LEMMA LeafIsNoParent ==
  ASSUME TypeOK, NEW i, NEW n, NEW s
  PROVE  Combine(i, n, s) \notin Nodes(LeafHashes)
<1>1. DOMAIN LeafHashes = 1 .. Len(notes)
  BY LeafHashesVec, VecLen
<1>2. \A k \in 1 .. Len(notes) : LeafHashes[k] = DoubleSha256(notes[k]) /\ notes[k] \in Bodies
  BY LeafHashesVec
<1> QED
  BY <1>1, <1>2, ParentOfDigests, BodiesAssumption DEF Combine, Nodes

\* Initially nothing climbs.
LEMMA ClimbInit == Init => ClimbInv
BY DEF Init, ClimbInv

\* The built proof has the batch's leaf count, a sibling for every level but
\* the root's, and an index in the batch.
LEMMA BuiltShape ==
  ASSUME TypeOK, TreeInv, RootInv, ProofInv, BuiltClaim, pc \in {"depth", "climb"}
  PROVE  /\ claim.total_leaves = Len(notes) /\ Len(claim.siblings) = Len(tree) - 1
         /\ Len(path) = Len(tree) /\ path[1] = claim.leaf_index
         /\ claim.leaf_index \in Nat /\ claim.leaf_index < Len(notes)
         /\ claim.leaf_index + 1 \in 1 .. Len(notes)
<1>1. /\ path # <<>> /\ claim = proof
  BY DEF BuiltClaim
<1>2. /\ Len(path) = Len(tree) /\ Len(path) = Len(proof.siblings) + 1
      /\ proof.total_leaves = Len(notes) /\ path[1] = proof.leaf_index
  BY <1>1 DEF ProofInv
<1>3. /\ Len(tree) \in Nat /\ Len(tree) >= 1 /\ Len(tree[1]) = Len(notes)
      /\ Len(proof.siblings) \in Nat /\ 1 \in 1 .. Len(path)
  BY <1>2, TreeShape, VecLen DEF TypeOK
<1>4. path[1] \in Nat /\ path[1] < Len(notes)
  BY <1>1, <1>3 DEF ProofInv
<1>5. path[1] + 1 \in 1 .. Len(notes)
  BY <1>4, LeafHashesVec
<1> QED
  BY <1>1, <1>2, <1>3, <1>4, <1>5

\* The honest claim moreover has the leaf of its body at its index.
LEMMA HonestShape ==
  ASSUME TypeOK, TreeInv, RootInv, ProofInv, HonestClaim, pc \in {"depth", "climb"}
  PROVE  /\ claim.total_leaves = Len(notes) /\ Len(claim.siblings) = Len(tree) - 1
         /\ Len(path) = Len(tree) /\ path[1] = claim.leaf_index
         /\ claim.leaf_index \in Nat /\ claim.leaf_index < Len(notes)
         /\ DoubleSha256(body) = At(LeafHashes, claim.leaf_index)
<1>1. BuiltClaim /\ body = At(notes, claim.leaf_index)
  BY DEF HonestClaim, BuiltClaim
<1>2. claim.leaf_index + 1 \in 1 .. Len(notes)
  BY <1>1, BuiltShape
<1>3. DoubleSha256(body) = At(LeafHashes, claim.leaf_index)
  BY <1>1, <1>2, LeafHashesVec DEF At
<1> QED
  BY <1>1, <1>3, BuiltShape

\* The climb starts at the claimed leaf.
LEMMA ClimbStart ==
  ASSUME TypeOK, TreeInv, RootInv, ProofInv, DepthInv, StartClimb
  PROVE  ClimbInv'
<1>1. /\ pc = "depth" /\ pc' = "climb" /\ idx' = claim.leaf_index /\ pos' = 0
      /\ Len(claim.siblings) = depth
      /\ UNCHANGED <<body, claim, depth, node, notes, tree, proof, path>>
  BY DEF StartClimb, batchVars, proverVars
<1>2. /\ node = DoubleSha256(body) /\ LeafHashes' = LeafHashes /\ Offset' = Offset
      /\ HonestClaim' <=> HonestClaim
  BY <1>1 DEF DepthInv, LeafHashes, Offset, HonestClaim, BuiltClaim
<1>3. /\ Len(tree) \in Nat /\ Len(tree) >= 1
      /\ tree[1] = LeafHashes /\ Len(tree[1]) = Len(notes)
  BY <1>1, TreeShape
<1>4. Offset \in Int /\ pos' + Offset = Offset /\ pos' + 1 = 1
  BY <1>1, <1>3, VecLen DEF Offset, TypeOK
<1>5. HonestClaim =>
        idx' = path[1] /\ node = At(tree[1], idx') /\ Offset = 0
  <2>1. HonestClaim => Offset = 0
    BY <1>1, <1>3, HonestShape DEF Offset
  <2> QED
    BY <1>1, <1>2, <1>3, <2>1, HonestShape
<1> QED
  BY <1>1, <1>2, <1>3, <1>4, <1>5 DEF ClimbInv

\* One turn of the climb goes from a level of the tree to the next.
LEMMA ClimbTurn ==
  ASSUME TypeOK, TreeInv, RootInv, ProofInv, DepthInv, ClimbInv, Climb
  PROVE  ClimbInv'
<1> DEFINE sib == At(claim.siblings, pos)
<1>1. /\ pc = "climb" /\ pc' = "climb" /\ pos < Len(claim.siblings)
      /\ node' = Combine(idx, node, sib) /\ idx' = idx \div 2 /\ pos' = pos + 1
      /\ UNCHANGED <<body, claim, depth, notes, tree, proof, path>>
  BY DEF Climb, batchVars, proverVars
<1>2. /\ LeafHashes' = LeafHashes /\ Offset' = Offset
      /\ HonestClaim' <=> HonestClaim
  BY <1>1 DEF LeafHashes, Offset, HonestClaim, BuiltClaim
<1>3. /\ Len(tree) \in Nat /\ Len(tree) >= 1
      /\ tree[1] = LeafHashes /\ Len(tree[1]) = Len(notes)
  BY <1>1, TreeShape
<1>4. /\ Len(claim.siblings) \in Nat /\ pos \in Nat /\ Offset \in Int /\ idx \in Nat
      /\ Len(claim.siblings) = Len(tree) - 1 - Offset
  BY <1>3, VecLen DEF Offset, TypeOK
<1>5. ASSUME pos' + Offset >= 0, node' \in Nodes(tree[pos' + Offset + 1])
      PROVE  Offset >= 0 /\ DoubleSha256(body) \in Nodes(tree[Offset + 1])
  <2> DEFINE j == pos + Offset + 1
  <2>1. j = pos' + Offset /\ j \in Nat /\ j <= Len(tree) - 1 /\ pos' + Offset + 1 = j + 1
    BY <1>1, <1>3, <1>4, <1>5
  <2>2. j # 0
    <3>1. ASSUME j = 0 PROVE FALSE
      <4>1. Combine(idx, node, sib) \in Nodes(LeafHashes)
        BY <1>1, <1>3, <1>5, <2>1, <3>1
      <4> QED
        BY <4>1, LeafIsNoParent
    <3> QED
      BY <3>1
  <2>3. j \in 1 .. Len(tree) - 1 /\ j \in 1 .. Len(tree) /\ pos + Offset >= 0
    BY <1>3, <1>4, <2>1, <2>2
  <2>4. IsVec(tree[j]) /\ tree[j + 1] = NextLevel(tree[j])
    BY <2>3 DEF TreeInv
  <2>5. node \in Nodes(tree[j])
    BY <1>1, <1>4, <1>5, <2>1, <2>4, ChildrenInLevel
  <2> QED
    BY <1>1, <2>3, <2>5 DEF ClimbInv
<1>6. ASSUME Offset = 0
      PROVE  /\ pos + 1 \in 1 .. Len(tree) - 1 /\ pos' + 1 = pos + 2
             /\ IsVec(tree[pos + 1]) /\ tree[pos + 2] = NextLevel(tree[pos + 1])
  <2>1. pos + 1 \in 1 .. Len(tree) - 1 /\ pos + 1 \in 1 .. Len(tree) /\ pos' + 1 = pos + 2
    BY <1>1, <1>3, <1>4, <1>6
  <2>2. (pos + 1) + 1 = pos + 2
    BY <1>4
  <2>3. tree[(pos + 1) + 1] = NextLevel(tree[pos + 1])
    BY <2>1 DEF TreeInv
  <2> QED
    BY <2>1, <2>2, <2>3 DEF TreeInv
<1>7. ASSUME Offset = 0, claim.leaf_index < Len(notes)
      PROVE  /\ idx' < Len(tree[pos' + 1])
             /\ At(tree[pos' + 1], idx') = node'
                  => At(LeafHashes, claim.leaf_index) = DoubleSha256(body)
  <2>1. /\ idx < Len(tree[pos + 1])
        /\ At(tree[pos + 1], idx) = node
             => At(LeafHashes, claim.leaf_index) = DoubleSha256(body)
    BY <1>1, <1>7 DEF ClimbInv
  <2>2. idx \div 2 < Len(NextLevel(tree[pos + 1]))
    BY <1>4, <1>6, <1>7, <2>1, ParentAt
  <2>3. ASSUME At(tree[pos' + 1], idx') = node' PROVE At(tree[pos + 1], idx) = node
    BY <1>1, <1>4, <1>6, <1>7, <2>1, <2>3, CombineDetermines
  <2> QED
    BY <1>1, <1>6, <1>7, <2>1, <2>2, <2>3
<1>8. ASSUME HonestClaim
      PROVE  idx' = path[pos' + 1] /\ node' = At(tree[pos' + 1], idx') /\ Offset = 0
  <2>1. idx = path[pos + 1] /\ node = At(tree[pos + 1], idx) /\ Offset = 0
    BY <1>1, <1>8 DEF ClimbInv
  <2>2. path # <<>> /\ claim = proof /\ Len(path) = Len(tree) /\ Len(path) = Len(proof.siblings) + 1
    BY <1>1, <1>8 DEF HonestClaim, BuiltClaim, ProofInv
  <2>3. pos + 1 \in 1 .. Len(proof.siblings) /\ pos + 1 \in 1 .. Len(path)
    BY <1>1, <1>3, <1>4, <2>2
  <2>4. /\ path[pos + 1 + 1] = path[pos + 1] \div 2
        /\ sib = At(Padded(tree[pos + 1]), SiblingIndex(path[pos + 1]))
        /\ path[pos + 1] < Len(tree[pos + 1])
    BY <2>2, <2>3 DEF ProofInv, At
  <2>5. At(NextLevel(tree[pos + 1]), idx \div 2) = Combine(idx, node, sib)
    BY <1>4, <1>6, <2>1, <2>4, ParentAt
  <2>6. pos' + 1 = pos + 1 + 1
    BY <1>1
  <2> QED
    BY <1>1, <1>6, <2>1, <2>4, <2>5, <2>6
<1>9. Len(claim.siblings) = depth
  BY <1>1 DEF ClimbInv
<1> QED
  BY <1>1, <1>2, <1>5, <1>7, <1>8, <1>9 DEF ClimbInv

\* Every step keeps the climb's relation to the tree.
LEMMA ClimbStep ==
  TypeOK /\ TreeInv /\ RootInv /\ ProofInv /\ DepthInv /\ ClimbInv /\ [Next]_vars
    => ClimbInv'
<1> SUFFICES ASSUME TypeOK, TreeInv, RootInv, ProofInv, DepthInv, ClimbInv, [Next]_vars
             PROVE  ClimbInv'
  OBVIOUS
<1>1. CASE StartClimb
  BY <1>1, ClimbStart
<1>2. CASE Climb
  BY <1>2, ClimbTurn
<1>3. CASE UNCHANGED vars
  BY <1>3 DEF vars, batchVars, proverVars, verifierVars, ClimbInv, LeafHashes, Offset,
     HonestClaim, BuiltClaim
<1>4. CASE Next /\ ~StartClimb /\ ~Climb
  <2>1. pc' # "climb"
    BY <1>4 DEF Next, RefuseEmptyBatch, BuildBatch, RootLoop, RootDone, RefuseIndex,
       StartProof, SiblingLoop, ProofDone, PresentProof, PresentClaim, Present, DepthLoop,
       DepthOverflow, RefuseLength, RefuseSibling, CompareRoot, Return
  <2> QED
    BY <2>1 DEF ClimbInv
<1> QED
  BY <1>1, <1>2, <1>3, <1>4

-----------------------------------------------------------------------------
(* The verdict *)

Verdict == Completeness /\ AcceptedIsAnchored /\ AcceptedAtPosition /\ AcceptedFullHeight

\* Initially there is no verdict.
LEMMA VerdictInit == Init => Verdict
BY DEF Init, Verdict, Completeness, Verified, Verdicts, AcceptedIsAnchored,
   AcceptedAtPosition, AcceptedFullHeight

\* A step that returns no verdict says nothing wrong.
LEMMA NoVerdict ==
  ASSUME outcome' \notin Verdicts
  PROVE  Verdict'
BY DEF Verdict, Completeness, Verified, Verdicts, AcceptedIsAnchored,
   AcceptedAtPosition, AcceptedFullHeight

\* A refusal of anything but the honest claim says nothing wrong.
LEMMA Refusal ==
  ASSUME ~HonestClaim, outcome' # "Ok", UNCHANGED <<notes, proof, path, body, claim>>
  PROVE  Verdict'
BY DEF Verdict, Completeness, HonestClaim, BuiltClaim, AcceptedIsAnchored, AcceptedAtPosition,
   AcceptedFullHeight

\* depth_for never overflows on the batch's leaf count.
LEMMA BuiltCounts ==
  ASSUME TypeOK, TreeInv, RootInv, ProofInv, DepthInv, DepthOverflow
  PROVE  ~BuiltClaim
<1> SUFFICES ASSUME BuiltClaim PROVE FALSE
  OBVIOUS
<1>1. pc = "depth" /\ count + 1 = UsizeMod
  BY DEF DepthOverflow
<1>2. depth < Len(tree) /\ count = Len(tree[depth + 1]) /\ depth \in Nat /\ count \in Nat
  BY <1>1, BuiltShape DEF DepthInv, TypeOK
<1>3. depth + 1 \in 1 .. Len(tree)
  BY <1>1, <1>2, TreeShape
<1>4. count < UsizeMod - 1
  BY <1>2, <1>3 DEF TreeInv
<1> QED
  BY <1>1, <1>2, <1>4, NumbersAssumption

\* So it does not panic on the honest claim.
LEMMA OverflowIsRight ==
  ASSUME TypeOK, TreeInv, RootInv, ProofInv, DepthInv, DepthOverflow
  PROVE  Verdict'
<1>1. outcome' = "panic" /\ UNCHANGED <<notes, proof, path, body, claim>>
  BY DEF DepthOverflow, Return, batchVars, proverVars, verifierVars
<1> QED
  BY <1>1, BuiltCounts, Refusal DEF HonestClaim

\* The built proof has as many siblings as depth_for counts levels.
LEMMA BuiltLength ==
  ASSUME TypeOK, TreeInv, RootInv, ProofInv, DepthInv, RefuseLength
  PROVE  ~BuiltClaim
<1> SUFFICES ASSUME BuiltClaim PROVE FALSE
  OBVIOUS
<1>1. pc = "depth" /\ count <= 1 /\ Len(claim.siblings) # depth
  BY DEF RefuseLength
<1>2. /\ depth < Len(tree) /\ count = Len(tree[depth + 1]) /\ depth \in Nat /\ count \in Nat
      /\ Len(claim.siblings) = Len(tree) - 1
  BY <1>1, BuiltShape DEF DepthInv, TypeOK
<1>3. Len(tree) \in Nat /\ depth + 1 \in Nat /\ depth + 1 >= 1 /\ depth + 1 <= Len(tree)
  BY <1>1, <1>2, TreeShape
<1>4. ~ (count > 1)
  BY <1>1, <1>2
<1>5. ~ (depth + 1 < Len(tree))
  BY <1>1, <1>2, <1>3, <1>4, OnlyRootIsSingle
<1>6. depth = Len(tree) - 1
  BY <1>2, <1>3, <1>5
<1> QED
  BY <1>1, <1>2, <1>6

\* So its length is not refused.
LEMMA LengthIsRight ==
  ASSUME TypeOK, TreeInv, RootInv, ProofInv, DepthInv, RefuseLength
  PROVE  Verdict'
<1>1. outcome' = "ProofLengthMismatch" /\ UNCHANGED <<notes, proof, path, body, claim>>
  BY DEF RefuseLength, Return, batchVars, proverVars, verifierVars
<1> QED
  BY <1>1, BuiltLength, Refusal DEF HonestClaim

\* The built proof's siblings are hashes.
LEMMA BuiltSiblings ==
  ASSUME TypeOK, TreeInv, RootInv, ProofInv, RefuseSibling
  PROVE  ~BuiltClaim
<1> SUFFICES ASSUME BuiltClaim PROVE FALSE
  OBVIOUS
<1>1. pc = "climb" /\ pos < Len(claim.siblings) /\ At(claim.siblings, pos) \in Undecodable
  BY DEF RefuseSibling
<1>2. path # <<>> /\ claim = proof /\ Len(path) = Len(tree) /\ Len(path) = Len(proof.siblings) + 1
  BY <1>1 DEF BuiltClaim, ProofInv
<1>3. Len(tree) \in Nat /\ Len(proof.siblings) \in Nat /\ pos \in Nat
  BY <1>1, TreeShape, VecLen DEF TypeOK
<1>4. /\ pos + 1 \in 1 .. Len(proof.siblings) /\ pos + 1 \in 1 .. Len(path)
      /\ pos + 1 \in 1 .. Len(tree)
  BY <1>1, <1>2, <1>3
<1>5. /\ At(claim.siblings, pos) = At(Padded(tree[pos + 1]), SiblingIndex(path[pos + 1]))
      /\ path[pos + 1] \in Nat /\ path[pos + 1] < Len(tree[pos + 1])
      /\ IsVec(tree[pos + 1])
  BY <1>2, <1>4 DEF ProofInv, TreeInv, At
<1>6. At(claim.siblings, pos) \in Nodes(tree[pos + 1])
  BY <1>5, ParentAt
<1> QED
  BY <1>1, <1>4, <1>6, TreeNodesAreHashes

\* So none of them is refused.
LEMMA SiblingIsRight ==
  ASSUME TypeOK, TreeInv, RootInv, ProofInv, DepthInv, ClimbInv, RefuseSibling
  PROVE  Verdict'
<1>1. outcome' = "ProofLengthMismatch" /\ UNCHANGED <<notes, proof, path, body, claim>>
  BY DEF RefuseSibling, Return, batchVars, proverVars, verifierVars
<1> QED
  BY <1>1, BuiltSiblings, Refusal DEF HonestClaim

\* What ends in the root started from the right leaf.
LEMMA ComparisonIsRight ==
  ASSUME TypeOK, TreeInv, RootInv, ProofInv, DepthInv, ClimbInv, CompareRoot
  PROVE  Verdict'
<1>1. /\ pc = "climb" /\ pos = Len(claim.siblings)
      /\ outcome' = IF node = root THEN "Ok" ELSE "RootMismatch"
      /\ UNCHANGED <<notes, proof, path, body, claim, tree, depth>>
  BY DEF CompareRoot, Return, batchVars, proverVars, verifierVars
<1>2. /\ Len(tree) \in Nat /\ Len(tree) >= 1 /\ tree[1] = LeafHashes
      /\ Len(tree[1]) = Len(notes)
      /\ Len(tree[Len(tree)]) = 1 /\ tree[Len(tree)][1] = root
      /\ DOMAIN tree[Len(tree)] = {1}
  BY <1>1, TreeShape
<1>3. /\ pos + Offset = Len(tree) - 1 /\ pos + Offset + 1 = Len(tree) /\ Offset \in Int
      /\ pos \in Nat /\ idx \in Nat /\ claim.leaf_index \in Nat
      /\ Len(claim.siblings) = depth /\ body \in Bodies
      /\ Offset = 0 => pos + 1 = Len(tree)
      /\ Offset = 0 => depth = Len(tree) - 1
  <2>1. pos \in Nat /\ idx \in Nat /\ claim.leaf_index \in Nat /\ IsVec(claim.siblings)
    BY DEF TypeOK
  <2>2. Len(claim.siblings) = depth /\ body \in Bodies
    BY <1>1 DEF ClimbInv, DepthInv
  <2>3. Len(claim.siblings) \in Nat
    BY <2>1, VecLen
  <2> QED
    BY <1>1, <1>2, <2>1, <2>2, <2>3 DEF Offset
<1>4. \A i \in Nat : i < Len(tree[Len(tree)]) => i + 1 = 1
  BY <1>2
<1>5. ASSUME HonestClaim PROVE outcome' = "Ok"
  <2>1. /\ idx = path[pos + 1] /\ node = At(tree[pos + 1], idx)
        /\ Offset = 0 /\ pos + 1 = Len(tree) /\ pos + 1 \in 1 .. Len(path)
    BY <1>1, <1>2, <1>3, <1>5, HonestShape DEF ClimbInv
  <2>2. idx < Len(tree[Len(tree)])
    BY <2>1 DEF ProofInv, HonestClaim, BuiltClaim
  <2>3. idx + 1 = 1
    BY <1>3, <1>4, <2>2
  <2>4. node = root
    BY <1>2, <2>1, <2>3 DEF At
  <2> QED
    BY <1>1, <2>4
<1>6. ASSUME node = root
      PROVE  /\ Offset = 0
             /\ \E i \in DOMAIN notes : notes[i] = body
             /\ claim.leaf_index < Len(notes) => body = At(notes, claim.leaf_index)
  <2>1. node \in Nodes(tree[Len(tree)])
    BY <1>2, <1>6 DEF Nodes
  <2>2. Offset >= 0 /\ DoubleSha256(body) \in Nodes(tree[Offset + 1])
    BY <1>1, <1>2, <1>3, <2>1 DEF ClimbInv
  <2>3. Offset + 1 \in 1 .. Len(tree)
    BY <1>2, <1>3, <2>2
  <2>4. Offset + 1 = 1
    BY <1>3, <2>2, <2>3, NoteIsLeaf
  <2>5. Offset = 0
    BY <1>3, <2>4
  <2>6. \A i \in 1 .. Len(notes) : LeafHashes[i] = DoubleSha256(notes[i])
    BY LeafHashesVec
  <2>7. DOMAIN LeafHashes = 1 .. Len(notes) /\ DOMAIN notes = 1 .. Len(notes)
    BY LeafHashesVec, VecLen, BatchesAssumption DEF TypeOK
  <2>8. \E i \in DOMAIN notes : notes[i] = body
    BY <1>2, <2>2, <2>4, <2>6, <2>7 DEF Nodes, DoubleSha256
  <2>9. ASSUME claim.leaf_index < Len(notes)
        PROVE  body = At(notes, claim.leaf_index)
    <3>1. /\ idx < Len(tree[Len(tree)])
          /\ At(tree[Len(tree)], idx) = node
               => At(LeafHashes, claim.leaf_index) = DoubleSha256(body)
      BY <1>1, <1>3, <2>5, <2>9 DEF ClimbInv
    <3>2. At(tree[Len(tree)], idx) = node
      BY <1>2, <1>3, <1>4, <1>6, <3>1 DEF At
    <3>3. claim.leaf_index + 1 \in 1 .. Len(notes)
      BY <1>3, <2>9, LeafHashesVec
    <3>4. DoubleSha256(notes[claim.leaf_index + 1]) = DoubleSha256(body)
      BY <2>6, <3>1, <3>2, <3>3 DEF At
    <3> QED
      BY <3>4 DEF At, DoubleSha256
  <2> QED
    BY <2>5, <2>8, <2>9
<1>7. outcome' = "Ok" => node = root
  BY <1>1
<1>8. Completeness'
  BY <1>1, <1>5 DEF Completeness, HonestClaim, BuiltClaim
<1>9. AcceptedIsAnchored' /\ AcceptedAtPosition'
  BY <1>1, <1>6, <1>7 DEF AcceptedIsAnchored, AcceptedAtPosition
<1>10. AcceptedFullHeight'
  BY <1>1, <1>3, <1>6, <1>7 DEF AcceptedFullHeight
<1> QED
  BY <1>8, <1>9, <1>10 DEF Verdict

\* Every step keeps the verdict right.
LEMMA VerdictStep ==
  TypeOK /\ TreeInv /\ RootInv /\ ProofInv /\ DepthInv /\ ClimbInv /\ Verdict /\ [Next]_vars
    => Verdict'
<1> SUFFICES ASSUME TypeOK, TreeInv, RootInv, ProofInv, DepthInv, ClimbInv, Verdict,
                    [Next]_vars
             PROVE  Verdict'
  OBVIOUS
<1>1. CASE DepthOverflow
  BY <1>1, OverflowIsRight
<1>2. CASE RefuseLength
  BY <1>2, LengthIsRight
<1>3. CASE RefuseSibling
  BY <1>3, SiblingIsRight
<1>4. CASE CompareRoot
  BY <1>4, ComparisonIsRight
<1>5. CASE UNCHANGED vars
  BY <1>5 DEF vars, batchVars, proverVars, verifierVars, Verdict, Completeness, Verified,
     HonestClaim, BuiltClaim, AcceptedIsAnchored, AcceptedAtPosition, AcceptedFullHeight
<1>6. CASE Next /\ ~DepthOverflow /\ ~RefuseLength /\ ~RefuseSibling /\ ~CompareRoot
  <2>1. outcome' \notin Verdicts
    BY <1>6 DEF Next, RefuseEmptyBatch, BuildBatch, RootLoop, RootDone, RefuseIndex,
       StartProof, SiblingLoop, ProofDone, PresentProof, PresentClaim, Present, DepthLoop,
       StartClimb, Climb, Return, TypeOK, Verdicts
  <2> QED
    BY <2>1, NoVerdict
<1> QED
  BY <1>1, <1>2, <1>3, <1>4, <1>5, <1>6

-----------------------------------------------------------------------------
(* The loops and the calls *)

\* The levels below the height have more than one node.
LEMMA LevelSizes ==
  ASSUME NEW v, IsVec(v), Len(v) >= 1
  PROVE  \A j \in 0 .. Len(v) : Len(Turns(v)[j]) > 1 <=> j < DepthFor(Len(v))
<1> DEFINE h == DepthFor(Len(v))
<1>1. h = DepthFor(Len(v))
  OBVIOUS
<1> HIDE DEF h
<1> QED
  BY <1>1, Levels

\* A chain of levels from the leaves up to a single node is that of Turns, and
\* that node is the root.
LEMMA ChainIsTurns ==
  ASSUME NEW v, IsVec(v), Len(v) >= 1, NEW t, Len(t) \in Nat, Len(t) >= 1, t[1] = v,
         \A k \in 1 .. Len(t) - 1 : Len(t[k]) > 1 /\ t[k + 1] = NextLevel(t[k]),
         Len(t[Len(t)]) = 1
  PROVE  /\ Len(t) = DepthFor(Len(v)) + 1
         /\ \A j \in 0 .. Len(t) - 1 : t[j + 1] = Turns(v)[j]
         /\ t[Len(t)][1] = MerkleRoot(v)
<1> DEFINE h == DepthFor(Len(v))
           n == Len(t) - 1
           S == {j \in 0 .. n : j <= h /\ t[j + 1] = Turns(v)[j]}
<1>1. h \in Nat /\ h <= Len(v) /\ Len(v) \in Nat /\ n \in Nat
  <2>1. h \in 0 .. Len(v) /\ Len(v) \in Nat
    BY Levels
  <2> QED
    BY <2>1
<1>2. \A j \in 0 .. Len(v) : Len(Turns(v)[j]) > 1 <=> j < h
  BY LevelSizes
<1>3. 0 \in S
  <2>1. t[0 + 1] = Turns(v)[0] /\ 0 \in 0 .. n /\ 0 <= h
    BY <1>1, Levels
  <2> HIDE DEF h, n
  <2> QED
    BY <2>1
<1>4. ASSUME NEW j \in 0 .. n - 1, j \in S PROVE j + 1 \in S
  <2>1. j + 1 \in 1 .. Len(t) - 1 /\ j + 1 \in 0 .. n /\ j \in 0 .. Len(v) /\ j <= h
    BY <1>1, <1>4
  <2>2. t[j + 1] = Turns(v)[j] /\ Len(t[j + 1]) > 1 /\ t[j + 1 + 1] = NextLevel(t[j + 1])
    BY <1>4, <2>1
  <2>3. j < h
    BY <1>2, <2>1, <2>2
  <2>4. j \in 0 .. h - 1
    BY <1>1, <2>1, <2>3
  <2>5. Turns(v)[j + 1] = NextLevel(Turns(v)[j])
    BY <2>4, Levels
  <2> QED
    BY <1>1, <2>1, <2>2, <2>4, <2>5
<1> HIDE DEF S
<1>5. \A j \in 0 .. n : j \in S
  BY <1>1, <1>3, <1>4, InductionUpTo
<1>6. \A j \in 0 .. n : j <= h /\ t[j + 1] = Turns(v)[j]
  BY <1>5 DEF S
<1>7. n = h
  <2>1. n \in 0 .. n /\ n + 1 = Len(t)
    BY <1>1
  <2> HIDE DEF h, n
  <2>2. n <= h /\ t[Len(t)] = Turns(v)[n]
    BY <1>6, <2>1
  <2>3. n \in 0 .. Len(v) /\ Len(Turns(v)[n]) = 1
    BY <1>1, <2>2
  <2>4. Len(Turns(v)[n]) > 1 <=> n < h
    BY <1>2, <2>3
  <2> QED
    BY <1>1, <2>2, <2>3, <2>4
<1>8. t[Len(t)] = Turns(v)[h]
  BY <1>1, <1>6, <1>7
<1>9. t[Len(t)][1] = MerkleRoot(v)
  BY <1>8, RootOnTop DEF At
<1> QED
  BY <1>1, <1>6, <1>7, <1>9

\* Once there is a root, the tree and the root are those of MerkleCalls.
LEMMA TreeIsTurns ==
  ASSUME TypeOK, TreeInv, RootInv, pc \in {"prove", "present"}
  PROVE  /\ IsVec(LeafHashes) /\ Len(LeafHashes) >= 1
         /\ Len(tree) = DepthFor(Len(LeafHashes)) + 1
         /\ \A j \in 0 .. Len(tree) - 1 : tree[j + 1] = Turns(LeafHashes)[j]
         /\ root = MerkleRoot(LeafHashes)
<1>1. tree # <<>>
  BY DEF TreeInv, TypeOK
<1>2. Len(tree) \in Nat /\ Len(tree) >= 1
  BY <1>1, VecLen DEF TypeOK, IsVec
<1>3. tree[1] = LeafHashes /\ Len(tree[1]) >= 1
  BY <1>1, <1>2 DEF TreeInv
<1>4. Len(tree[Len(tree)]) = 1 /\ tree[Len(tree)][1] = root
  BY DEF RootInv
<1>5. \A k \in 1 .. Len(tree) - 1 : Len(tree[k]) > 1 /\ tree[k + 1] = NextLevel(tree[k])
  BY DEF TreeInv
<1>6. IsVec(LeafHashes)
  BY LeafHashesVec
<1> QED
  BY <1>2, <1>3, <1>4, <1>5, <1>6, ChainIsTurns

\* Two vectors of one length with the same entries are one.
LEMMA SameVec ==
  ASSUME NEW v, NEW w, IsVec(v), IsVec(w), Len(v) = Len(w),
         \A j \in 1 .. Len(v) : v[j] = w[j]
  PROVE  v = w
<1>1. Len(v) \in Nat /\ v = [j \in 1 .. Len(v) |-> v[j]] /\ w = [j \in 1 .. Len(w) |-> w[j]]
  BY VecLen DEF IsVec
<1> QED
  BY <1>1

\* The built proof is the one of MerkleCalls.
LEMMA BuiltIsCall ==
  ASSUME TypeOK, TreeInv, RootInv, ProofInv, pc = "present"
  PROVE  proof.siblings = BuildProof(LeafHashes, proof.leaf_index)
<1> DEFINE v == LeafHashes
           i == proof.leaf_index
           s == proof.siblings
           h == DepthFor(Len(v))
           S == {j \in Nat : path[j + 1] = IndexAbove(i, j)}
<1>1. /\ IsVec(v) /\ Len(v) >= 1 /\ Len(tree) = h + 1
      /\ \A j \in 0 .. Len(tree) - 1 : tree[j + 1] = Turns(v)[j]
  BY TreeIsTurns
<1>2. h \in Nat /\ Len(v) \in Nat
  BY <1>1, VecLen, DepthForStep
<1>3. /\ path # <<>> /\ Len(path) = Len(tree) /\ Len(path) = Len(s) + 1
      /\ path[1] = i
      /\ \A k \in 1 .. Len(path) : path[k] \in Nat /\ path[k] < Len(tree[k])
      /\ \A k \in 1 .. Len(s) :
           path[k + 1] = path[k] \div 2 /\ s[k] = At(Padded(tree[k]), SiblingIndex(path[k]))
  BY DEF ProofInv
<1>4. IsVec(s) /\ i \in Nat /\ Len(s) \in Nat
  BY VecLen DEF TypeOK
<1>5. tree[1] = v
  BY DEF TreeInv, TypeOK
<1> HIDE DEF v, i, s, h, S
<1>6. Len(s) = h /\ i < Len(v)
  <2>1. Len(s) = h
    BY <1>1, <1>2, <1>3, <1>4
  <2>2. 1 \in 1 .. Len(path)
    BY <1>3, <1>4
  <2> QED
    BY <1>3, <1>5, <2>1, <2>2
<1>7. \A j \in 0 .. h : path[j + 1] = IndexAbove(i, j)
  <2>1. 0 \in S
    BY <1>3, <1>4, IndexAboveStep DEF S
  <2>2. ASSUME NEW j \in 0 .. h - 1, j \in S PROVE j + 1 \in S
    <3>1. j \in Nat /\ j + 1 \in 1 .. Len(s) /\ path[j + 1] = IndexAbove(i, j)
      BY <1>2, <1>6, <2>2 DEF S
    <3>2. path[j + 1 + 1] = IndexAbove(i, j) \div 2
      BY <1>3, <3>1
    <3>3. IndexAbove(i, j + 1) = IndexAbove(i, j) \div 2
      BY <1>4, <3>1, IndexAboveStep
    <3> QED
      BY <3>1, <3>2, <3>3 DEF S
  <2>3. \A j \in 0 .. h : j \in S
    BY <1>2, <2>1, <2>2, InductionUpTo
  <2> QED
    BY <2>3 DEF S
<1>8. /\ IsVec(BuildProof(v, i)) /\ Len(BuildProof(v, i)) = h
      /\ \A j \in 0 .. h - 1 :
           BuildProof(v, i)[j + 1] = At(Padded(Turns(v)[j]), SiblingIndex(IndexAbove(i, j)))
  BY <1>1, <1>4, <1>6, ProofSiblings DEF h
<1> DEFINE w == BuildProof(v, i)
<1> HIDE DEF w
<1>9. ASSUME NEW k \in 1 .. Len(s) PROVE s[k] = w[k]
  <2> DEFINE j == k - 1
  <2>1. j \in 0 .. h - 1 /\ j \in 0 .. h /\ j \in 0 .. Len(tree) - 1 /\ k = j + 1
    BY <1>1, <1>2, <1>6
  <2> HIDE DEF j
  <2>2. tree[k] = Turns(v)[j] /\ path[k] = IndexAbove(i, j)
    BY <1>1, <1>7, <2>1
  <2>3. s[k] = At(Padded(tree[k]), SiblingIndex(path[k]))
    BY <1>3
  <2>4. w[k] = At(Padded(Turns(v)[j]), SiblingIndex(IndexAbove(i, j)))
    BY <1>8, <2>1 DEF w
  <2> QED
    BY <2>2, <2>3, <2>4
<1>10. IsVec(w) /\ Len(w) = Len(s)
  BY <1>6, <1>8 DEF w
<1>11. s = w
  BY <1>4, <1>9, <1>10, SameVec
<1> QED
  BY <1>11 DEF s, v, i, w

\* What the loops have built by the time a call returns is what the call builds.
LEMMA BuildsAreCalls ==
  ASSUME TypeOK, TreeInv, RootInv, ProofInv
  PROVE  RootIsCall /\ ProofIsCall
BY TreeIsTurns, BuiltIsCall DEF RootIsCall, ProofIsCall

LEMMA CallInit == Init => CallInv /\ VerdictIsCall
BY DEF Init, CallInv, VerdictIsCall, Verified, Verdicts

\* The turns of depth_for.
LEMMA DepthCalled ==
  ASSUME TypeOK, CallInv, DepthLoop
  PROVE  CallInv'
<1>1. /\ pc = "depth" /\ pc' = "depth" /\ claim' = claim /\ depth' = depth + 1
      /\ count > 1 /\ count \in Nat /\ depth \in Nat
      /\ count' = (IF count % 2 = 0 THEN count
                   ELSE IF count + 1 = UsizeMod THEN 0 ELSE count + 1) \div 2
  BY DEF DepthLoop, TypeOK
<1> SUFFICES ASSUME claim.total_leaves + 1 < UsizeMod
             PROVE  /\ count' + 1 < UsizeMod
                    /\ DepthFor(claim.total_leaves) = depth' + DepthFor(count')
  BY <1>1 DEF CallInv
<1>2. count + 1 < UsizeMod /\ DepthFor(claim.total_leaves) = depth + DepthFor(count)
  BY <1>1 DEF CallInv
<1>3. /\ UsizeMod \in Nat
      /\ claim.total_leaves \in Nat
  BY NumbersAssumption DEF TypeOK
<1>4. count' = (count + 1) \div 2 /\ (count + 1) \div 2 \in Nat /\ (count + 1) \div 2 <= count
  <2> DEFINE n == count
             m == UsizeMod
  <2>1. n \in Nat /\ n > 1 /\ n + 1 < m /\ m \in Nat
    BY <1>1, <1>2, <1>3
  <2> HIDE DEF n, m
  <2>2. /\ (n + 1) \div 2 \in Nat /\ (n + 1) \div 2 <= n
        /\ n % 2 = 0 => n \div 2 = (n + 1) \div 2
    BY <2>1
  <2>3. n + 1 # m
    BY <2>1
  <2> QED
    BY <1>1, <2>2, <2>3 DEF n, m
<1>5. /\ DepthFor(count) = 1 + DepthFor((count + 1) \div 2)
      /\ DepthFor((count + 1) \div 2) \in Nat
  <2>1. ~(count <= 1)
    BY <1>1
  <2> QED
    BY <1>1, <1>4, <2>1, DepthForStep
<1> DEFINE d == DepthFor((count + 1) \div 2)
           t == DepthFor(claim.total_leaves)
<1>6. d \in Nat /\ t = depth + (1 + d)
  BY <1>2, <1>5
<1>7. count' + 1 < UsizeMod
  <2> DEFINE c == (count + 1) \div 2
  <2>1. c \in Nat /\ c <= count
    BY <1>4
  <2> HIDE DEF c
  <2>2. c + 1 < UsizeMod
    BY <1>1, <1>2, <1>3, <2>1
  <2> QED
    BY <1>4, <2>2 DEF c
<1>8. DepthFor(count') = d
  BY <1>4
<1> HIDE DEF d, t
<1>9. t = depth' + d
  BY <1>1, <1>6
<1> QED
  BY <1>7, <1>8, <1>9 DEF t

\* The start of the climb: no turn of it has been made.
LEMMA StartCalled ==
  ASSUME TypeOK, DepthInv, CallInv, StartClimb
  PROVE  CallInv'
<1>1. /\ pc = "depth" /\ pc' = "climb" /\ count <= 1 /\ count \in Nat /\ depth \in Nat
      /\ idx' = claim.leaf_index /\ pos' = 0
      /\ UNCHANGED <<body, claim, depth, node>>
      /\ claim.leaf_index \in Nat /\ claim.total_leaves \in Nat /\ IsVec(claim.siblings)
  BY DEF StartClimb, TypeOK
<1>2. ASSUME claim.total_leaves + 1 < UsizeMod PROVE depth = DepthFor(claim.total_leaves)
  <2>1. DepthFor(claim.total_leaves) = depth + DepthFor(count)
    BY <1>1, <1>2 DEF CallInv
  <2>2. DepthFor(count) = 0
    BY <1>1, DepthForStep
  <2> QED
    BY <1>1, <2>1, <2>2
<1>3. claim.leaf_index = IndexAbove(claim.leaf_index, 0)
  BY <1>1, IndexAboveStep
<1>4. node = ClimbedNodes(DoubleSha256(body), claim.leaf_index, claim.siblings)[0]
  <2>1. node = DoubleSha256(body)
    BY <1>1 DEF DepthInv
  <2>2. Len(claim.siblings) \in Nat
    BY <1>1, VecLen
  <2> QED
    BY <2>1, <2>2, ClimbedNodesStep
<1> QED
  BY <1>1, <1>2, <1>3, <1>4 DEF CallInv

\* A turn of the climb.
LEMMA ClimbCalled ==
  ASSUME TypeOK, CallInv, Climb
  PROVE  CallInv'
<1> DEFINE s == claim.siblings
           N == ClimbedNodes(DoubleSha256(body), claim.leaf_index, s)
<1>1. /\ pc = "climb" /\ pc' = "climb" /\ pos < Len(s) /\ At(s, pos) \notin Undecodable
      /\ node' = Combine(idx, node, At(s, pos)) /\ idx' = idx \div 2 /\ pos' = pos + 1
      /\ UNCHANGED <<body, claim, depth>>
      /\ pos \in Nat /\ claim.leaf_index \in Nat /\ IsVec(s)
  BY DEF Climb, TypeOK
<1>2. /\ claim.total_leaves + 1 < UsizeMod => depth = DepthFor(claim.total_leaves)
      /\ idx = IndexAbove(claim.leaf_index, pos) /\ node = N[pos]
      /\ \A j \in 1 .. pos : s[j] \notin Undecodable
  BY <1>1 DEF CallInv
<1>3. Len(s) \in Nat
  BY <1>1, VecLen
<1>4. idx' = IndexAbove(claim.leaf_index, pos + 1)
  BY <1>1, <1>2, IndexAboveStep
<1>5. N[pos + 1] = Combine(IndexAbove(claim.leaf_index, pos), N[pos], s[pos + 1])
  <2>1. pos \in 0 .. Len(s) - 1
    BY <1>1, <1>3
  <2> QED
    BY <1>3, <2>1, ClimbedNodesStep
<1>6. node' = N[pos + 1]
  BY <1>1, <1>2, <1>5 DEF At
<1>7. \A j \in 1 .. pos + 1 : s[j] \notin Undecodable
  <2>1. \A j \in 1 .. pos + 1 : j \in 1 .. pos \/ j = pos + 1
    BY <1>1
  <2> QED
    BY <1>1, <1>2, <2>1 DEF At
<1> QED
  BY <1>1, <1>2, <1>4, <1>6, <1>7 DEF CallInv

\* The verdicts of verify_proof.
LEMMA VerdictCalled ==
  ASSUME TypeOK, ClimbInv, CallInv, DepthOverflow \/ RefuseLength \/ RefuseSibling \/ CompareRoot
  PROVE  VerdictIsCall'
<1> DEFINE s == claim.siblings
           leaf == DoubleSha256(body)
           total == claim.total_leaves
           given == VerifyProof(claim.leaf_index, total, s, leaf, root)
<1>1. UNCHANGED <<claim, body, root>>
  BY DEF DepthOverflow, RefuseLength, RefuseSibling, CompareRoot, batchVars, verifierVars
<1>2. IsVec(s) /\ Len(s) \in Nat /\ {pos, count, depth, total} \subseteq Nat /\ pos <= Len(s)
  BY VecLen DEF TypeOK
<1>3. SUFFICES ASSUME total + 1 < UsizeMod PROVE outcome' = given
  BY <1>1 DEF VerdictIsCall
<1>4. CASE DepthOverflow
  BY <1>3, <1>4, NumbersAssumption DEF DepthOverflow, CallInv, TypeOK
<1>5. CASE RefuseLength
  <2>1. /\ pc = "depth" /\ count <= 1 /\ Len(s) # depth /\ outcome' = "ProofLengthMismatch"
    BY <1>5 DEF RefuseLength, Return
  <2>2. DepthFor(total) = depth + DepthFor(count)
    BY <1>3, <2>1 DEF CallInv
  <2>3. DepthFor(count) = 0
    BY <1>2, <2>1, DepthForStep
  <2>4. Len(s) # DepthFor(total)
    BY <1>2, <2>1, <2>2, <2>3
  <2> QED
    BY <2>1, <2>4 DEF VerifyProof
<1>6. CASE RefuseSibling
  <2>1. pos < Len(s) /\ At(s, pos) \in Undecodable /\ outcome' = "ProofLengthMismatch"
    BY <1>6 DEF RefuseSibling, Return
  <2>2. pos + 1 \in DOMAIN s
    BY <1>2, <2>1 DEF IsVec
  <2>3. Nodes(s) \cap Undecodable # {}
    BY <2>1, <2>2 DEF Nodes, At
  <2> QED
    BY <2>1, <2>3 DEF VerifyProof
<1>7. CASE CompareRoot
  <2>1. /\ pc = "climb" /\ pos = Len(s)
        /\ outcome' = IF node = root THEN "Ok" ELSE "RootMismatch"
    BY <1>7 DEF CompareRoot, Return
  <2>2. /\ depth = DepthFor(total)
        /\ node = ClimbedNodes(leaf, claim.leaf_index, s)[Len(s)]
        /\ \A j \in 1 .. Len(s) : s[j] \notin Undecodable
    BY <1>3, <2>1 DEF CallInv
  <2>3. Len(s) = DepthFor(total)
    BY <2>1, <2>2 DEF ClimbInv
  <2>4. Nodes(s) \cap Undecodable = {}
    <3>1. DOMAIN s = 1 .. Len(s)
      BY <1>2 DEF IsVec
    <3> QED
      BY <2>2, <3>1 DEF Nodes
  <2>5. node = ClimbFrom(leaf, claim.leaf_index, s)
    BY <2>2 DEF ClimbFrom
  <2> QED
    BY <2>1, <2>3, <2>4, <2>5 DEF VerifyProof
<1> QED
  BY <1>4, <1>5, <1>6, <1>7

\* The other steps are before the call of verify_inclusion, or its beginning.
LEMMA CallStep ==
  TypeOK /\ DepthInv /\ ClimbInv /\ CallInv /\ VerdictIsCall /\ [Next]_vars
    => CallInv' /\ VerdictIsCall'
<1> SUFFICES ASSUME TypeOK, DepthInv, ClimbInv, CallInv, VerdictIsCall, [Next]_vars
             PROVE  CallInv' /\ VerdictIsCall'
  OBVIOUS
<1>1. CASE \/ RefuseEmptyBatch \/ BuildBatch \/ RootLoop \/ RootDone \/ SiblingLoop \/ ProofDone
           \/ \E i \in Indices : RefuseIndex(i) \/ StartProof(i)
  <2>1. pc' \notin {"depth", "climb"} /\ outcome' \notin Verdicts
    BY <1>1 DEF RefuseEmptyBatch, BuildBatch, RootLoop, RootDone, SiblingLoop, ProofDone,
       RefuseIndex, StartProof, Return, TypeOK, Verdicts
  <2> QED
    BY <2>1 DEF CallInv, VerdictIsCall, Verified
<1>2. CASE PresentProof \/ PresentClaim
  <2>1. /\ pc' = "depth" /\ count' = claim'.total_leaves /\ depth' = 0 /\ outcome' = outcome
        /\ outcome = "none"
    BY <1>2 DEF PresentProof, PresentClaim, Present, MerkleProof, TypeOK
  <2>2. claim'.total_leaves \in Nat
    BY <1>2, NumbersAssumption DEF PresentProof, PresentClaim, Present, MerkleProof, TypeOK
  <2>3. DepthFor(claim'.total_leaves) = 0 + DepthFor(claim'.total_leaves)
    BY <2>2, DepthForStep
  <2> QED
    BY <2>1, <2>3 DEF CallInv, VerdictIsCall, Verified, Verdicts
<1>3. CASE DepthLoop \/ StartClimb \/ Climb
  <2>1. outcome' = "none"
    BY <1>3 DEF DepthLoop, StartClimb, Climb, TypeOK
  <2>2. VerdictIsCall'
    BY <2>1 DEF VerdictIsCall, Verified, Verdicts
  <2> QED
    BY <1>3, <2>2, DepthCalled, StartCalled, ClimbCalled
<1>4. CASE DepthOverflow \/ RefuseLength \/ RefuseSibling \/ CompareRoot
  <2>1. pc' = "done"
    BY <1>4 DEF DepthOverflow, RefuseLength, RefuseSibling, CompareRoot, Return
  <2>2. CallInv'
    BY <2>1 DEF CallInv
  <2> QED
    BY <1>4, <2>2, VerdictCalled
<1>5. CASE UNCHANGED vars
  <2>1. UNCHANGED <<pc, outcome, idx, body, claim, count, depth, node, pos, root>>
    BY <1>5 DEF vars, batchVars, verifierVars
  <2> QED
    BY <2>1 DEF CallInv, VerdictIsCall, Verified
<1> QED
  BY <1>1, <1>2, <1>3, <1>4, <1>5 DEF Next

-----------------------------------------------------------------------------
(* Theorems *)

\* The invariant that the state of the loops, the tree and the verdict keep.
THEOREM Invariant == Spec => []IInv
<1> DEFINE Core == /\ TypeOK /\ TreeInv /\ RootInv /\ ProofInv /\ DepthInv /\ ClimbInv
                   /\ Verdict /\ CallInv /\ VerdictIsCall
<1>1. Init => Core
  BY TypeInit, TreeInit, ProofInit, DepthInit, ClimbInit, VerdictInit, CallInit
<1>2. Core /\ [Next]_vars => Core'
  BY TypeStep, TreeStep, ProofStep, DepthStep, ClimbStep, VerdictStep, CallStep
<1>3. Core => IInv
  BY BuildsAreCalls DEF IInv, Verdict, LoopsAreCalls
<1> QED
  BY <1>1, <1>2, <1>3, PTL DEF Spec

\* The loops compute the functions that the other modules take the calls for.
THEOREM LoopsComputeCalls == Spec => []LoopsAreCalls
<1>1. IInv => LoopsAreCalls
  BY DEF IInv
<1> QED
  BY <1>1, Invariant, PTL

\* The proof build_inclusion_proof gives for a note of any batch is accepted.
THEOREM HonestProofAccepted == Spec => []Completeness
<1>1. IInv => Completeness
  BY DEF IInv
<1> QED
  BY <1>1, Invariant, PTL

\* Whatever it is shown, verify_inclusion accepts only notes of the batch.
THEOREM AcceptedNoteIsAnchored == Spec => []AcceptedIsAnchored
<1>1. IInv => AcceptedIsAnchored
  BY DEF IInv
<1> QED
  BY <1>1, Invariant, PTL

\* An accepted index of the batch is the note's own.
THEOREM AcceptedNoteAtPosition == Spec => []AcceptedAtPosition
<1>1. IInv => AcceptedAtPosition
  BY DEF IInv
<1> QED
  BY <1>1, Invariant, PTL

\* An accepted claim goes all the way up, and states a leaf count that does.
THEOREM AcceptedClaimHasFullHeight == Spec => []AcceptedFullHeight
<1>1. IInv => AcceptedFullHeight
  BY DEF IInv
<1> QED
  BY <1>1, Invariant, PTL

-----------------------------------------------------------------------------
(* The refinement *)

Question == [body |-> body, index |-> claim.leaf_index, built |-> BuiltClaim]

\* A step of a loop, which the contract does not see.
LEMMA Unseen ==
  ASSUME UNCHANGED <<notes, Asked, outcome>>
  PROVE  [Contract!Next]_(Contract!vars)
BY DEF Contract!vars

\* Before a call of verify_inclusion there is no question.
LEMMA NotAsked ==
  ASSUME pc \notin {"depth", "climb"}, outcome \notin Verdicts
  PROVE  Asked = Contract!NoQuestion
BY DEF Asked, Verified, Contract!NoQuestion

\* During one there is, and it stays the same.
LEMMA AskedNow ==
  ASSUME pc \in {"depth", "climb"} \/ outcome \in Verdicts
  PROVE  Asked = Question
BY DEF Asked, Verified, Question

\* The initial states are the contract's.
LEMMA RefinesInit == Init => Contract!Init
<1> SUFFICES ASSUME Init PROVE Contract!Init
  OBVIOUS
<1>1. notes \in Batches /\ outcome = "none" /\ pc = "batch"
  BY DEF Init
<1>2. Asked = Contract!NoQuestion
  BY <1>1, NotAsked DEF Verdicts
<1> QED
  BY <1>1, <1>2 DEF Contract!Init

\* The two refusals before any call.
LEMMA RefinesRefuse ==
  ASSUME TypeOK, RefuseEmptyBatch \/ \E i \in Indices : RefuseIndex(i),
         pc = "prove" => notes # <<>>
  PROVE  Contract!Refuse
<1>1. /\ pc \in {"batch", "prove"} /\ pc' = "done" /\ notes' = notes
      /\ outcome' = IF notes = <<>> THEN "EmptyBatch" ELSE "IndexOutOfRange"
  <2>1. Len(notes) = 0 => notes = <<>>
    BY BatchesAssumption DEF TypeOK
  <2> QED
    BY <2>1 DEF RefuseEmptyBatch, RefuseIndex, Return, batchVars
<1>2. outcome = "none"
  BY <1>1 DEF TypeOK
<1>3. outcome' \notin Verdicts /\ outcome \notin Verdicts
  BY <1>1, <1>2 DEF Verdicts
<1>4. Asked = Contract!NoQuestion
  BY <1>1, <1>3, NotAsked
<1>5. Asked' = Contract!NoQuestion
  BY <1>1, <1>3 DEF Asked, Verified, Contract!NoQuestion
<1> QED
  BY <1>1, <1>2, <1>4, <1>5 DEF Contract!Refuse

\* The call of verify_inclusion.
LEMMA RefinesAsk ==
  ASSUME IInv, IInv', PresentProof \/ PresentClaim
  PROVE  Contract!Ask
<1>1. /\ pc \in {"prove", "present"} /\ pc' = "depth" /\ outcome = "none"
      /\ outcome' = outcome /\ notes' = notes /\ body' \in Bodies
      /\ BuiltClaim' \in BOOLEAN
  BY DEF PresentProof, PresentClaim, Present, batchVars, BuiltClaim, IInv, TypeOK
<1>2. Asked = Contract!NoQuestion
  BY <1>1, NotAsked DEF Verdicts
<1>3. Asked' = Question'
  BY <1>1 DEF Asked, Verified, Question
<1>4. notes # <<>>
  <2>1. tree # <<>> /\ tree[1] = LeafHashes /\ Len(tree[1]) >= 1
    <3>1. tree # <<>>
      BY <1>1 DEF IInv, TreeInv
    <3>2. IsVec(tree) /\ 1 \in 1 .. Len(tree)
      BY <1>1, TreeShape DEF IInv, TypeOK
    <3> QED
      BY <3>1, <3>2 DEF IInv, TreeInv
  <2>2. Len(notes) >= 1
    BY <2>1, LeafHashesVec DEF IInv
  <2> QED
    BY <2>2
<1>5. claim'.leaf_index \in Nat
  BY DEF IInv, TypeOK
<1>6. BuiltClaim' => claim'.leaf_index < Len(notes)
  <2> SUFFICES ASSUME BuiltClaim' PROVE claim'.leaf_index < Len(notes)
    OBVIOUS
  <2>1. PresentProof
    BY DEF PresentClaim, Present, BuiltClaim, IInv, ProofInv, proverVars
  <2>2. claim' = proof /\ pc = "present" /\ path # <<>>
    BY <2>1 DEF PresentProof, Present, IInv, ProofInv
  <2>3. /\ path[1] = proof.leaf_index /\ 1 \in 1 .. Len(path)
        /\ \A k \in 1 .. Len(path) : path[k] < Len(tree[k])
    <3>1. Len(path) = Len(tree) /\ Len(tree) \in Nat /\ Len(tree) >= 1
      BY <2>2, TreeShape DEF IInv, ProofInv
    <3> QED
      BY <2>2, <3>1 DEF IInv, ProofInv
  <2>4. Len(tree[1]) = Len(notes)
    BY <2>2, TreeShape DEF IInv
  <2> QED
    BY <2>2, <2>3, <2>4
<1>7. Asked' \in Contract!Questions
  BY <1>1, <1>3, <1>5 DEF Contract!Questions, Question
<1>8. Asked'.built => Asked'.index < Len(notes)
  BY <1>3, <1>6 DEF Question
<1> QED
  BY <1>1, <1>2, <1>4, <1>7, <1>8 DEF Contract!Ask

\* A question is not the absence of one.
LEMMA QuestionIsAsked == Question # Contract!NoQuestion
<1>1. "built" \in DOMAIN Question /\ "built" \notin DOMAIN Contract!NoQuestion
  BY DEF Question, Contract!NoQuestion
<1> QED
  BY <1>1

\* A verdict that is not Ok, of a claim that nobody built.
LEMMA RefinesRefusal ==
  ASSUME IInv, DepthOverflow \/ RefuseLength \/ RefuseSibling
  PROVE  Contract!Answer
<1>1. /\ pc \in {"depth", "climb"} /\ outcome = "none" /\ notes' = notes
      /\ outcome' \in {"panic", "ProofLengthMismatch"}
      /\ UNCHANGED <<body, claim, proof, path>>
  BY DEF DepthOverflow, RefuseLength, RefuseSibling, Return, batchVars, proverVars,
     verifierVars, IInv, TypeOK
<1>2. ~BuiltClaim
  BY BuiltCounts, BuiltLength, BuiltSiblings DEF IInv
<1>3. Asked = Question /\ Asked' = Question
  <2>1. Asked' = Question'
    BY <1>1 DEF Asked, Verified, Verdicts, Question
  <2> QED
    BY <1>1, <2>1, AskedNow DEF Question, BuiltClaim
<1>4. Contract!Permitted(Question, outcome')
  BY <1>1, <1>2 DEF Contract!Permitted, Contract!Refusals, Question
<1> QED
  BY <1>1, <1>3, <1>4, QuestionIsAsked DEF Contract!Answer, Contract!Refusals

\* The comparison with the root decides by the body and the index.
LEMMA RefinesVerdict ==
  ASSUME IInv, IInv', CompareRoot
  PROVE  Contract!Answer
<1>1. /\ pc = "climb" /\ outcome = "none" /\ notes' = notes
      /\ outcome' \in {"Ok", "RootMismatch"}
      /\ UNCHANGED <<body, claim, proof, path>>
  BY DEF CompareRoot, Return, batchVars, proverVars, verifierVars, IInv, TypeOK
<1>2. Asked = Question /\ Asked' = Question
  <2>1. Asked' = Question'
    BY <1>1 DEF Asked, Verified, Verdicts, Question
  <2> QED
    BY <1>1, <2>1, AskedNow DEF Question, BuiltClaim
<1>3. /\ outcome' = "Ok" => \E i \in DOMAIN notes : notes[i] = body
      /\ outcome' = "Ok" /\ claim.leaf_index < Len(notes)
           => body = notes[claim.leaf_index + 1]
  BY <1>1 DEF IInv, AcceptedIsAnchored, AcceptedAtPosition, At
<1>4. ASSUME BuiltClaim
      PROVE  /\ claim.leaf_index < Len(notes)
             /\ body = notes[claim.leaf_index + 1] => outcome' = "Ok"
  <2>1. claim.leaf_index < Len(notes)
    BY <1>1, <1>4, BuiltShape DEF IInv
  <2>2. ASSUME body = notes[claim.leaf_index + 1] PROVE outcome' = "Ok"
    <3>1. HonestClaim'
      BY <1>1, <1>4, <2>2 DEF HonestClaim, BuiltClaim, At
    <3> QED
      BY <1>1, <3>1 DEF IInv, Completeness, Verified, Verdicts
  <2> QED
    BY <2>1, <2>2
<1>5. Contract!Permitted(Question, outcome')
  BY <1>1, <1>3, <1>4 DEF Contract!Permitted, Contract!Holds, Contract!Refusals, Question
<1> QED
  BY <1>1, <1>2, <1>5, QuestionIsAsked DEF Contract!Answer, Contract!Refusals

\* Every step is a step of the contract's or one it does not see.
LEMMA RefinesStep ==
  IInv /\ IInv' /\ [Next]_vars => [Contract!Next]_(Contract!vars)
<1> SUFFICES ASSUME IInv, IInv', [Next]_vars PROVE [Contract!Next]_(Contract!vars)
  OBVIOUS
<1>1. CASE RefuseEmptyBatch \/ \E i \in Indices : RefuseIndex(i)
  <2>1. ASSUME pc = "prove" PROVE notes # <<>>
    <3>1. IsVec(tree) /\ 1 \in 1 .. Len(tree) /\ tree # <<>>
      BY <2>1, TreeShape DEF IInv, TypeOK, TreeInv
    <3>2. Len(notes) >= 1
      BY <3>1, LeafHashesVec DEF IInv, TreeInv
    <3> QED
      BY <3>2
  <2> QED
    BY <1>1, <2>1, RefinesRefuse DEF IInv, Contract!Next
<1>2. CASE PresentProof \/ PresentClaim
  BY <1>2, RefinesAsk DEF Contract!Next
<1>3. CASE DepthOverflow \/ RefuseLength \/ RefuseSibling
  BY <1>3, RefinesRefusal DEF Contract!Next
<1>4. CASE CompareRoot
  BY <1>4, RefinesVerdict DEF Contract!Next
<1>5. CASE \/ BuildBatch \/ RootLoop \/ RootDone \/ SiblingLoop \/ ProofDone
           \/ \E i \in Indices : StartProof(i)
  <2>1. /\ pc \notin {"depth", "climb"} /\ pc' \notin {"depth", "climb"}
        /\ outcome = "none" /\ outcome' = outcome /\ notes' = notes
    BY <1>5 DEF BuildBatch, RootLoop, RootDone, SiblingLoop, ProofDone, StartProof,
       batchVars, IInv, TypeOK
  <2>2. Asked = Contract!NoQuestion
    BY <2>1, NotAsked DEF Verdicts
  <2>3. Asked' = Contract!NoQuestion
    BY <2>1 DEF Asked, Verified, Verdicts, Contract!NoQuestion
  <2> QED
    BY <2>1, <2>2, <2>3, Unseen
<1>6. CASE DepthLoop \/ StartClimb \/ Climb
  <2>1. /\ pc \in {"depth", "climb"} /\ pc' \in {"depth", "climb"}
        /\ UNCHANGED <<outcome, notes, body, claim, proof, path>>
    BY <1>6 DEF DepthLoop, StartClimb, Climb, batchVars, proverVars
  <2>2. Asked = Question
    BY <2>1, AskedNow
  <2>3. Asked' = Question'
    BY <2>1 DEF Asked, Question
  <2>4. Question' = Question
    BY <2>1 DEF Question, BuiltClaim
  <2> QED
    BY <2>1, <2>2, <2>3, <2>4, Unseen
<1>7. CASE UNCHANGED vars
  BY <1>7, Unseen DEF vars, batchVars, proverVars, verifierVars, Asked, Verified, BuiltClaim
<1> QED
  BY <1>1, <1>2, <1>3, <1>4, <1>5, <1>6, <1>7 DEF Next

\* BatchInclusion implements the contract: whatever the batch and the claim, the
\* loops of build_batch, build_inclusion_proof and verify_inclusion come to an
\* answer that the contract permits.
THEOREM Refinement == Spec => Implements
<1>1. IInv /\ IInv' /\ [Next]_vars => [Contract!Next]_(Contract!vars)
  BY RefinesStep
<1> QED
  BY <1>1, RefinesInit, Invariant, PTL DEF Spec, Implements, Contract!Spec
=============================================================================
