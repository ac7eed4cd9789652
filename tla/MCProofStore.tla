--------------------------- MODULE MCProofStore ---------------------------
(***************************************************************************)
(* Small populations for ProofStore: none, one leaf, a key that comes      *)
(* twice, a leaf that comes twice, three and five leaves (odd levels).     *)
(***************************************************************************)
EXTENDS ProofStore

CONSTANTS a, b, c, f, key1, key2, key3, key4, key5

Leaf(x) == DoubleSha256(Bytes(4, x))
Pair(key, x) == [key |-> key, leaf |-> Leaf(x)]

MCPayloads == {Bytes(4, a), Bytes(4, b), Bytes(4, c)}

MCPopulations ==
  {<<>>,
   <<Pair(key1, a)>>,
   <<Pair(key1, a), Pair(key1, b)>>,
   <<Pair(key1, a), Pair(key2, b), Pair(key3, a)>>,
   <<Pair(key2, b), Pair(key1, a), Pair(key3, c), Pair(key4, b), Pair(key5, a)>>}

MCForeign == {DoubleSha256(Bytes(32, f))}
=============================================================================
