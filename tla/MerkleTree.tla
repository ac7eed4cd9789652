---------------------------- MODULE MerkleTree ----------------------------
(***************************************************************************)
(* The node rule of crates/merkle, shared by every loop that walks a tree. *)
(* A level is a sequence of hashes; the code's indices start at 0, so      *)
(* At(level, i) is what the source writes level[i].                        *)
(***************************************************************************)
EXTENDS BsvHash, Integers, Sequences

At(level, i) == level[i + 1]

Nodes(level) == {level[i] : i \in DOMAIN level}

\* Strings found where a proof should list a hash in hexadecimal.
NotHex == [text |-> "not hexadecimal"]
WrongLength == [text |-> "not 32 bytes"]
Undecodable == {NotHex, WrongLength}

\* A sequence, whatever it holds (TLC cannot test membership of Seq(anything)).
IsVec(v) == v \in Seq(Nodes(v))

\* Mutation: the last node of an odd level is left out.
PaddedDrops(level) ==
  IF Len(level) % 2 = 1 /\ Len(level) > 1 THEN SubSeq(level, 1, Len(level) - 1) ELSE level

\* The odd-node rule: the last node of an odd level is duplicated.
Padded(level) ==
  IF Len(level) % 2 = 1 THEN Append(level, level[Len(level)]) ELSE level

\* One turn of `while level.len() > 1`: pad, then hash pair by pair.
NextLevel(level) ==
  [i \in 1 .. Len(Padded(level)) \div 2 |->
     ParentHash(Padded(level)[2 * i - 1], Padded(level)[2 * i])]

\* idx ^ 1
SiblingIndex(idx) == IF idx % 2 = 0 THEN idx + 1 ELSE idx - 1

\* Mutation: the side of the sibling is ignored.
CombineOneSided(idx, node, sib) == ParentHash(node, sib)

\* The parent a verifier computes for the node at idx and its sibling.
Combine(idx, node, sib) ==
  IF idx % 2 = 0 THEN ParentHash(node, sib) ELSE ParentHash(sib, node)
=============================================================================
