-------------------------- MODULE BatchInclusion --------------------------
(***************************************************************************)
(* Layer A: note bodies are batched under one Merkle root (crates/anchor,  *)
(* build_batch), one of them gets an inclusion proof                       *)
(* (build_inclusion_proof), and a verifier that holds only the batch root  *)
(* is shown a body and a claimed proof (verify_inclusion).  The loops of   *)
(* crates/merkle that do the work -- the root's, the prover's, the         *)
(* verifier's and that of depth_for -- are each an action per turn.  They  *)
(* apply the odd-node rule in four different forms, which must agree.      *)
(*                                                                         *)
(* The claim a verifier gets is the honest proof or anything that parses:  *)
(* any index, any leaf count, any siblings out of the tree's own nodes,    *)
(* foreign hashes and strings that are not a hash.                         *)
(***************************************************************************)
EXTENDS MerkleCalls

CONSTANTS
  Bodies,       \* note bodies
  Batches,      \* the batches that may be anchored: sequences of bodies
  Foreign,      \* hashes that come from elsewhere
  Indices,      \* leaf indices asked for and claimed
  Totals,       \* leaf counts claimed
  MaxSiblings,  \* longest claimed sibling list (bound of the model)
  UsizeMod      \* 2^64 in the code

\* A note body is never as long as the two digests that parent_hash hashes,
\* and a batch fits in memory.
ASSUME BodiesAssumption == \A b \in Bodies : b.len # 2 * HASH_LEN
ASSUME BatchesAssumption ==
  \A b \in Batches : b \in Seq(Bodies) /\ Len(b) + 1 < UsizeMod
ASSUME NumbersAssumption ==
  /\ Indices \subseteq Nat
  /\ Totals \subseteq 0 .. UsizeMod - 1
  /\ MaxSiblings \in Nat
  /\ UsizeMod \in Nat \ {0}

VARIABLES
  pc,       \* the loop or the call that comes next
  outcome,  \* what the last call returned
  notes,    \* the batch
  level,    \* the level merkle_root_of_leaves or build_proof is at
  root,     \* merkle_root_hex of the batch
  idx,      \* idx of build_proof or of verify_proof
  proof,    \* the honest proof, growing one sibling a turn
  body,     \* the body shown to the verifier
  claim,    \* the proof shown to the verifier
  count,    \* count of depth_for
  depth,    \* d of depth_for
  node,     \* node of verify_proof
  pos,      \* siblings that verify_proof has consumed
  tree,     \* observer: every level of the tree, the leaves first
  path      \* observer: the indices build_proof went through

batchVars == <<notes, level, root, tree>>
proverVars == <<proof, path>>
verifierVars == <<body, claim, count, depth, node, pos>>
vars == <<pc, outcome, idx, batchVars, proverVars, verifierVars>>

LeafHashes == [i \in 1 .. Len(notes) |-> DoubleSha256(notes[i])]

TreeNodes == UNION {Nodes(tree[k]) : k \in DOMAIN tree}

MerkleProof(leaf_index, total_leaves, siblings) ==
  [leaf_index |-> leaf_index, total_leaves |-> total_leaves, siblings |-> siblings]

NoProof == MerkleProof(0, 0, <<>>)

\* Everything that a claimed proof can list as siblings.
SiblingLists ==
  UNION {[1 .. n -> TreeNodes \cup Foreign \cup Undecodable]
           : n \in 0 .. MaxSiblings}

Verdicts == {"Ok", "ProofLengthMismatch", "RootMismatch", "panic"}
Outcomes == Verdicts \cup {"none", "EmptyBatch", "IndexOutOfRange"}

Return(result) == pc' = "done" /\ outcome' = result

Init ==
  /\ pc = "batch" /\ outcome = "none"
  /\ notes \in Batches
  /\ level = <<>> /\ root = <<>> /\ tree = <<>>
  /\ idx = 0 /\ proof = NoProof /\ path = <<>>
  /\ body = <<>> /\ claim = NoProof
  /\ count = 0 /\ depth = 0 /\ node = <<>> /\ pos = 0

-----------------------------------------------------------------------------
(* build_batch, and in it merkle_root_of_leaves.  Its EmptyLeaves and that *)
(* of build_proof never happen: an empty batch has been refused before.    *)

RefuseEmptyBatch ==
  /\ pc = "batch" /\ Len(notes) = 0
  /\ Return("EmptyBatch")
  /\ UNCHANGED <<idx, batchVars, proverVars, verifierVars>>

BuildBatch ==
  /\ pc = "batch" /\ Len(notes) > 0
  /\ pc' = "root"
  /\ level' = LeafHashes
  /\ tree' = <<LeafHashes>>
  /\ UNCHANGED <<outcome, idx, notes, root, proverVars, verifierVars>>

RootLoop ==
  /\ pc = "root" /\ Len(level) > 1
  /\ level' = NextLevel(level)
  /\ tree' = Append(tree, NextLevel(level))
  /\ UNCHANGED <<pc, outcome, idx, notes, root, proverVars, verifierVars>>

RootDone ==
  /\ pc = "root" /\ Len(level) <= 1
  /\ root' = level[1]
  /\ pc' = "prove"
  /\ UNCHANGED <<outcome, idx, notes, level, tree, proverVars, verifierVars>>

-----------------------------------------------------------------------------
(* build_inclusion_proof *)

RefuseIndex(i) ==
  /\ pc = "prove" /\ i >= Len(notes)
  /\ Return("IndexOutOfRange")
  /\ UNCHANGED <<idx, batchVars, proverVars, verifierVars>>

\* Mutation: the leaf count is taken after the odd level has been padded.
StartProofCountsPadding(i) ==
  /\ pc = "prove" /\ i < Len(notes)
  /\ pc' = "siblings"
  /\ idx' = i
  /\ level' = LeafHashes
  /\ proof' = MerkleProof(i, Len(Padded(LeafHashes)), <<>>)
  /\ path' = <<i>>
  /\ UNCHANGED <<outcome, notes, root, tree, verifierVars>>

StartProof(i) ==
  /\ pc = "prove" /\ i < Len(notes)
  /\ pc' = "siblings"
  /\ idx' = i
  /\ level' = LeafHashes
  /\ proof' = MerkleProof(i, Len(notes), <<>>)
  /\ path' = <<i>>
  /\ UNCHANGED <<outcome, notes, root, tree, verifierVars>>

\* Mutation: build_proof forgets `idx /= 2`.
SiblingLoopKeepsIndex ==
  /\ pc = "siblings" /\ Len(level) > 1
  /\ proof' = [proof EXCEPT !.siblings =
                  Append(@, At(Padded(level), SiblingIndex(idx)))]
  /\ level' = NextLevel(level)
  /\ path' = Append(path, idx \div 2)
  /\ UNCHANGED <<pc, outcome, idx, notes, root, tree, verifierVars>>

SiblingLoop ==
  /\ pc = "siblings" /\ Len(level) > 1
  /\ proof' = [proof EXCEPT !.siblings =
                  Append(@, At(Padded(level), SiblingIndex(idx)))]
  /\ level' = NextLevel(level)
  /\ idx' = idx \div 2
  /\ path' = Append(path, idx \div 2)
  /\ UNCHANGED <<pc, outcome, notes, root, tree, verifierVars>>

ProofDone ==
  /\ pc = "siblings" /\ Len(level) <= 1
  /\ pc' = "present"
  /\ UNCHANGED <<outcome, idx, batchVars, proverVars, verifierVars>>

-----------------------------------------------------------------------------
(* verify_inclusion: depth_for first, then the climb of verify_proof *)

\* The verifier is shown the proof of build_inclusion_proof, or a claim that
\* nobody built from the batch.
Present(b, c) ==
  /\ body' = b /\ claim' = c
  /\ node' = DoubleSha256(b)
  /\ count' = c.total_leaves /\ depth' = 0
  /\ pc' = "depth"
  /\ UNCHANGED <<outcome, idx, pos, batchVars, proverVars>>

PresentProof == pc = "present" /\ \E b \in Bodies : Present(b, proof)

PresentClaim ==
  /\ pc = "prove"
  /\ \E siblings \in SiblingLists, b \in Bodies, i \in Indices, total \in Totals :
       Present(b, MerkleProof(i, total, siblings))

\* Mutation: depth_for halves an odd count without rounding it up.
DepthLoopRoundsDown ==
  /\ pc = "depth" /\ count > 1
  /\ count' = count \div 2
  /\ depth' = depth + 1
  /\ UNCHANGED <<pc, outcome, idx, body, claim, node, pos, batchVars, proverVars>>

\* `count += 1` wraps in a release build ...
DepthLoop ==
  /\ pc = "depth" /\ count > 1
  /\ count' = (IF count % 2 = 0 THEN count
               ELSE IF count + 1 = UsizeMod THEN 0 ELSE count + 1) \div 2
  /\ depth' = depth + 1
  /\ UNCHANGED <<pc, outcome, idx, body, claim, node, pos, batchVars, proverVars>>

\* ... and panics where overflow is checked.
DepthOverflow ==
  /\ pc = "depth" /\ count > 1
  /\ count % 2 = 1 /\ count + 1 = UsizeMod
  /\ Return("panic")
  /\ UNCHANGED <<idx, batchVars, proverVars, verifierVars>>

RefuseLength ==
  /\ pc = "depth" /\ count <= 1
  /\ Len(claim.siblings) # depth
  /\ Return("ProofLengthMismatch")
  /\ UNCHANGED <<idx, batchVars, proverVars, verifierVars>>

\* Mutation: the number of siblings is not compared with the depth.
StartClimbAnyLength ==
  /\ pc = "depth" /\ count <= 1
  /\ pc' = "climb"
  /\ idx' = claim.leaf_index /\ pos' = 0
  /\ UNCHANGED <<outcome, body, claim, count, depth, node, batchVars, proverVars>>

StartClimb ==
  /\ pc = "depth" /\ count <= 1
  /\ Len(claim.siblings) = depth
  /\ pc' = "climb"
  /\ idx' = claim.leaf_index /\ pos' = 0
  /\ UNCHANGED <<outcome, body, claim, count, depth, node, batchVars, proverVars>>

\* Mutation: the parent's index taken as in a heap that starts at 0.
ClimbHeapIndex ==
  /\ pc = "climb" /\ pos < Len(claim.siblings)
  /\ At(claim.siblings, pos) \notin Undecodable
  /\ node' = Combine(idx, node, At(claim.siblings, pos))
  /\ idx' = (idx - 1) \div 2
  /\ pos' = pos + 1
  /\ UNCHANGED <<pc, outcome, body, claim, count, depth, batchVars, proverVars>>

Climb ==
  /\ pc = "climb" /\ pos < Len(claim.siblings)
  /\ At(claim.siblings, pos) \notin Undecodable
  /\ node' = Combine(idx, node, At(claim.siblings, pos))
  /\ idx' = idx \div 2
  /\ pos' = pos + 1
  /\ UNCHANGED <<pc, outcome, body, claim, count, depth, batchVars, proverVars>>

\* Mutation: the length check is gone, so a short sibling panics in
\* copy_from_slice and no call returns.
RefuseSiblingNotHex ==
  /\ pc = "climb" /\ pos < Len(claim.siblings)
  /\ At(claim.siblings, pos) = NotHex
  /\ Return("ProofLengthMismatch")
  /\ UNCHANGED <<idx, batchVars, proverVars, verifierVars>>

RefuseSibling ==
  /\ pc = "climb" /\ pos < Len(claim.siblings)
  /\ At(claim.siblings, pos) \in Undecodable
  /\ Return("ProofLengthMismatch")
  /\ UNCHANGED <<idx, batchVars, proverVars, verifierVars>>

\* Mutation: a leaf without siblings is taken for the root of its batch.
CompareRootOnlyAfterClimb ==
  /\ pc = "climb" /\ pos = Len(claim.siblings)
  /\ Return(IF pos = 0 \/ node = root THEN "Ok" ELSE "RootMismatch")
  /\ UNCHANGED <<idx, batchVars, proverVars, verifierVars>>

CompareRoot ==
  /\ pc = "climb" /\ pos = Len(claim.siblings)
  /\ Return(IF node = root THEN "Ok" ELSE "RootMismatch")
  /\ UNCHANGED <<idx, batchVars, proverVars, verifierVars>>

-----------------------------------------------------------------------------
Next ==
  \/ RefuseEmptyBatch \/ BuildBatch \/ RootLoop \/ RootDone
  \/ \E i \in Indices : RefuseIndex(i) \/ StartProof(i)
  \/ SiblingLoop \/ ProofDone
  \/ PresentProof \/ PresentClaim
  \/ DepthLoop \/ DepthOverflow \/ RefuseLength \/ StartClimb
  \/ Climb \/ RefuseSibling \/ CompareRoot

Spec == Init /\ [][Next]_vars

\* The process is sequential and its loops are never blocked.
FairSpec == Spec /\ WF_vars(Next)

-----------------------------------------------------------------------------
(* Properties *)

\* Types and ranges of the numbers, vectors and control the loops use.
TypeOK ==
  /\ pc \in {"batch", "root", "prove", "siblings", "present", "depth", "climb", "done"}
  /\ outcome \in Outcomes
  /\ (outcome = "none") <=> (pc # "done")
  /\ notes \in Batches
  /\ IsVec(level) /\ IsVec(tree) /\ IsVec(path)
  /\ {idx, count, depth, pos} \subseteq Nat
  /\ pos <= Len(claim.siblings)
  /\ pc \notin {"climb", "done"} => pos = 0
  /\ \A p \in {proof, claim} :
       /\ p = MerkleProof(p.leaf_index, p.total_leaves, p.siblings)
       /\ {p.leaf_index, p.total_leaves} \subseteq Nat
       /\ IsVec(p.siblings)

Verified == outcome \in Verdicts

\* The claim is the proof that build_inclusion_proof gave, for this body or not.
BuiltClaim == path # <<>> /\ claim = proof

HonestClaim == BuiltClaim /\ body = At(notes, proof.leaf_index)

\* The proof build_inclusion_proof gives for a note of the batch is accepted
\* with that note's body: the root's loop, the prover's, depth_for and the
\* climb agree on the odd-node rule at every level.
Completeness == Verified /\ HonestClaim => outcome = "Ok"

\* Whatever index, leaf count and siblings a claim puts together, out of
\* whatever levels of the tree, verify_inclusion accepts a body only if it is
\* one of the anchored notes: an internal node never passes for a leaf.
AcceptedIsAnchored == outcome = "Ok" => \E i \in DOMAIN notes : notes[i] = body

\* An accepted claim whose index is one of the batch's names the note that
\* build_batch put there.
AcceptedAtPosition ==
  outcome = "Ok" /\ claim.leaf_index < Len(notes)
    => body = At(notes, claim.leaf_index)

\* No check compares the leaf count a claim states with the batch's; still an
\* accepted claim states one whose tree is as high, and climbs all of it.
AcceptedFullHeight ==
  outcome = "Ok" => depth = Len(tree) - 1 /\ Len(claim.siblings) = depth

\* The loops compute what MerkleCalls takes whole calls for: the root of a batch, the
\* siblings of an index, and the verdict on a claim of any length, except that
\* depth_for may panic or wrap for a leaf count that is the largest usize.
RootIsCall == pc = "prove" => root = MerkleRoot(LeafHashes)
ProofIsCall ==
  pc = "present" => proof.siblings = BuildProof(LeafHashes, proof.leaf_index)
VerdictIsCall ==
  Verified /\ claim.total_leaves + 1 < UsizeMod =>
    outcome = VerifyProof(claim.leaf_index, claim.total_leaves, claim.siblings,
                          DoubleSha256(body), root)
LoopsAreCalls == RootIsCall /\ ProofIsCall /\ VerdictIsCall

\* Every call returns: each loop of the four ends, for a claimed leaf count of
\* 0 and of the largest usize too.
Termination == <>(pc = "done")

\* What anchor/src/lib.rs:99 promises of verify_inclusion: the body is in the
\* batch at proof.leaf_index.  The code compares the index with nothing.
AcceptedAtIndex ==
  outcome = "Ok" => /\ claim.leaf_index < Len(notes)
                    /\ body = At(notes, claim.leaf_index)

-----------------------------------------------------------------------------
(* The inductive invariant the theorems rest on. *)

\* The observed tree is the one the node rule prescribes.
TreeInv ==
  /\ tree = <<>> <=> pc = "batch" \/ outcome = "EmptyBatch"
  /\ tree # <<>> => tree[1] = LeafHashes
  /\ \A k \in 1 .. Len(tree) :
       IsVec(tree[k]) /\ Len(tree[k]) >= 1 /\ Len(tree[k]) < UsizeMod - 1
  /\ \A k \in 1 .. Len(tree) - 1 :
       Len(tree[k]) > 1 /\ tree[k + 1] = NextLevel(tree[k])

RootInv ==
  /\ pc = "root" => level = tree[Len(tree)]
  /\ pc \in {"prove", "siblings", "present", "depth", "climb"} \/ Verified
       => Len(tree[Len(tree)]) = 1 /\ tree[Len(tree)][1] = root

\* The honest proof holds, level by level, the sibling of the node on the path
\* from the leaf to the root.
ProofInv ==
  /\ pc \in {"batch", "root", "prove"} => path = <<>>
  /\ pc \in {"siblings", "present"} => path # <<>>
  /\ path # <<>> =>
       /\ Len(path) <= Len(tree)
       /\ Len(path) = Len(proof.siblings) + 1
       /\ proof.total_leaves = Len(notes)
       /\ path[1] = proof.leaf_index
       /\ \A k \in 1 .. Len(path) : path[k] \in Nat /\ path[k] < Len(tree[k])
       /\ \A k \in 1 .. Len(proof.siblings) :
            /\ path[k + 1] = path[k] \div 2
            /\ proof.siblings[k] = At(Padded(tree[k]), SiblingIndex(path[k]))
       /\ IF pc = "siblings"
            THEN level = tree[Len(path)] /\ idx = path[Len(path)]
            ELSE Len(path) = Len(tree)

\* depth_for counts the levels above the one that has count nodes.
DepthInv ==
  /\ pc = "depth" /\ claim.total_leaves = Len(notes) =>
       depth < Len(tree) /\ count = Len(tree[depth + 1])
  /\ pc = "depth" => node = DoubleSha256(body)
  /\ pc \in {"depth", "climb"} => body \in Bodies

\* How far above the leaves a claim of this many siblings would have to start
\* to end at the root.
Offset == Len(tree) - 1 - Len(claim.siblings)

\* A node of the climb that lies in the tree got there from a leaf that does.
ClimbInv ==
  pc = "climb" =>
    /\ pos + Offset >= 0 /\ node \in Nodes(tree[pos + Offset + 1])
         => Offset >= 0 /\ DoubleSha256(body) \in Nodes(tree[Offset + 1])
    /\ Offset = 0 /\ claim.leaf_index < Len(notes) =>
         /\ idx < Len(tree[pos + 1])
         /\ At(tree[pos + 1], idx) = node
              => At(LeafHashes, claim.leaf_index) = DoubleSha256(body)
    /\ HonestClaim => idx = path[pos + 1] /\ node = At(tree[pos + 1], idx)
    /\ HonestClaim => Offset = 0
    /\ Len(claim.siblings) = depth

\* What is left of a call is the call on what its loop has come to.
CallInv ==
  /\ pc = "depth" /\ claim.total_leaves + 1 < UsizeMod =>
       count + 1 < UsizeMod /\ DepthFor(claim.total_leaves) = depth + DepthFor(count)
  /\ pc = "climb" =>
       /\ claim.total_leaves + 1 < UsizeMod => depth = DepthFor(claim.total_leaves)
       /\ idx = IndexAbove(claim.leaf_index, pos)
       /\ node = ClimbedNodes(DoubleSha256(body), claim.leaf_index, claim.siblings)[pos]
       /\ \A j \in 1 .. pos : claim.siblings[j] \notin Undecodable

IInv ==
  /\ TypeOK
  /\ TreeInv /\ RootInv /\ ProofInv /\ DepthInv /\ ClimbInv
  /\ Completeness /\ AcceptedIsAnchored /\ AcceptedAtPosition /\ AcceptedFullHeight
  /\ CallInv /\ LoopsAreCalls
=============================================================================
