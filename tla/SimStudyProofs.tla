--------------------------- MODULE SimStudyProofs ---------------------------
(***************************************************************************)
(* What holds of SimStudy for every size of the population and of the two  *)
(* samples, every choice of counterparties and every net amount.           *)
(***************************************************************************)
EXTENDS SimStudy, StoreCallsProofs

\* What has been made fits the part that comes next, what has been counted is how
\* far the loop has come, and the faults injected so far have been detected.
IInv == TypeOK /\ AllVerified /\ FaultsDetected /\ PanicOnlyIfSmall

-----------------------------------------------------------------------------
(* Invoices *)

\* The layout of an invoice's body: its tag is expanded from a key, the tag it
\* points back with is empty, and its issuer's sub-key is the one of its number.
HasLayout(body, k) ==
  \E prk, info, b, c :
    body = Bytes(197, <<"invoice", <<HkdfExpand(prk, info), ZeroTag>>,
                        MulBase(SubKey("issuer", k + 1)), b, c>>)

LEMMA InvoiceBody ==
  ASSUME NEW k \in Nat, NEW net
  PROVE  Invoice(k, net).secondary_tag = ZeroTag /\ HasLayout(Invoice(k, net).body, k)
<1> DEFINE a == SubKey("issuer", k + 1)
           b == SubKey(At(Counterparties, k % Len(Counterparties)), k + 1)
           mat == KeyMaterial(a, MulBase(b))
           tags == NoteTags("invoice", mat)
           fields == <<[label |-> "InvID", value |-> k], [label |-> "Net", value |-> net]>>
           c == Commitments(mat, k, fields)
<1>1. Invoice(k, net)
        = [secondary_tag |-> tags[2],
           body |-> BuildNoteBody("invoice", tags, MulBase(a), MulBase(b), c)]
  BY DEF Invoice
<1>2. PICK prk, info : mat.l_inv = HkdfExpand(prk, info)
  BY DEF KeyMaterial
<1> HIDE DEF mat
<1>3. tags = <<HkdfExpand(prk, info), ZeroTag>>
  BY <1>2 DEF NoteTags
<1>4. Len(c) = 2
  <2>1. DOMAIN fields = 1 .. 2
    OBVIOUS
  <2> HIDE DEF fields
  <2>2. c = [j \in 1 .. 2 |-> CommitOne(mat.k_master, k, fields[j])]
    BY <2>1 DEF Commitments
  <2> HIDE DEF c
  <2>3. DOMAIN c = 1 .. 2 /\ c = [j \in 1 .. 2 |-> c[j]]
    BY <2>2
  <2> QED
    BY <2>3, VecOfFunction
<1> HIDE DEF c, tags, a, b
<1>5. BuildNoteBody("invoice", tags, MulBase(a), MulBase(b), c)
        = Bytes(197, <<"invoice", tags, MulBase(a), MulBase(b), c>>)
  <2>1. 1 + 1 + 32 + 32 + 33 + 33 + 1 + 32 * 2 = 197
    OBVIOUS
  <2> QED
    BY <1>4, <2>1 DEF BuildNoteBody, NoteBody
<1>6. Invoice(k, net).secondary_tag = ZeroTag
  BY <1>1, <1>3
<1>7. Invoice(k, net).body
        = Bytes(197, <<"invoice", <<HkdfExpand(prk, info), ZeroTag>>, MulBase(a), MulBase(b), c>>)
  <2>1. Invoice(k, net).body = BuildNoteBody("invoice", tags, MulBase(a), MulBase(b), c)
    BY <1>1
  <2> QED
    BY <1>3, <1>5, <2>1
<1>8. Invoice(k, net).body
        = Bytes(197, <<"invoice", <<HkdfExpand(prk, info), ZeroTag>>,
                       MulBase(SubKey("issuer", k + 1)), MulBase(b), c>>)
  BY <1>7 DEF a
<1>9. HasLayout(Invoice(k, net).body, k)
  BY <1>8, Zenon DEF HasLayout
<1> QED
  BY <1>6, <1>9

\* So its hash is no parent of two digests.
LEMMA InvoiceLeaf ==
  ASSUME NEW k \in Nat, NEW net
  PROVE  LET leaf == DoubleSha256(Invoice(k, net).body) IN IsDigest(leaf) /\ NoParent(leaf)
<1> DEFINE body == Invoice(k, net).body
<1>0. PICK prk, info, x, b, c :
        body = Bytes(197, <<"invoice", <<HkdfExpand(prk, info), ZeroTag>>, x, b, c>>)
  <2>1. HasLayout(body, k)
    BY InvoiceBody
  <2> HIDE DEF body
  <2> QED
    BY <2>1 DEF HasLayout
<1> HIDE DEF body
<1>1. body.len = 197
  BY <1>0 DEF Bytes
<1>2. IsDigest(DoubleSha256(body)) /\ NoParent(DoubleSha256(body))
  BY <1>1, ParentOfDigests DEF IsDigest, NoParent, HASH_LEN
<1> QED
  BY <1>2 DEF body

\* Invoices of different numbers have different bodies, whoever receives them.
LEMMA InvoicesDiffer ==
  ASSUME NEW k \in Nat, NEW l \in Nat, k # l, NEW net1, NEW net2
  PROVE  Invoice(k, net1).body # Invoice(l, net2).body
<1>1. ASSUME NEW n \in Nat, NEW net
      PROVE  Invoice(n, net).body.holds[3] = MulBase(SubKey("issuer", n + 1))
  <2> DEFINE body == Invoice(n, net).body
             x == MulBase(SubKey("issuer", n + 1))
  <2>0. HasLayout(body, n)
    BY InvoiceBody
  <2> HIDE DEF body
  <2>1. PICK prk, info, b, c :
          body = Bytes(197, <<"invoice", <<HkdfExpand(prk, info), ZeroTag>>, x, b, c>>)
    BY <2>0 DEF HasLayout
  <2> HIDE DEF x
  <2>2. body.holds = <<"invoice", <<HkdfExpand(prk, info), ZeroTag>>, x, b, c>>
    BY <2>1 DEF Bytes
  <2>3. body.holds[3] = x
    BY <2>2
  <2> QED
    BY <2>3 DEF body, x
<1>2. MulBase(SubKey("issuer", k + 1)) # MulBase(SubKey("issuer", l + 1))
  <2>1. SubKey("issuer", k + 1).index # SubKey("issuer", l + 1).index
    BY DEF SubKey
  <2> QED
    BY <2>1 DEF MulBase
<1> QED
  BY <1>1, <1>2

\* Flipping a byte makes another one of what is hashed.
LEMMA FlippedDiffers ==
  /\ \A prk, info : [flipped |-> HkdfExpand(prk, info)] # HkdfExpand(prk, info)
  /\ \A x : IsDigest(x) => FlippedHash(x) # x
<1>1. ASSUME NEW prk, NEW info
      PROVE  [flipped |-> HkdfExpand(prk, info)] # HkdfExpand(prk, info)
  <2>1. DOMAIN HkdfExpand(prk, info) = {"expand"}
    BY DEF HkdfExpand
  <2>2. DOMAIN [flipped |-> HkdfExpand(prk, info)] = {"flipped"}
    OBVIOUS
  <2> QED
    BY <2>1, <2>2
<1>2. ASSUME NEW x, IsDigest(x) PROVE FlippedHash(x) # x
  <2>1. DOMAIN x = {"digest"}
    BY <1>2 DEF IsDigest, DoubleSha256
  <2>2. DOMAIN FlippedHash(x) = {"flipped"}
    BY DEF FlippedHash
  <2> QED
    BY <2>1, <2>2
<1> QED
  BY <1>1, <1>2

LEMMA TamperedDiffers ==
  ASSUME NEW k \in Nat, NEW net
  PROVE  Tampered(Invoice(k, net).body) # Invoice(k, net).body
<1> DEFINE body == Invoice(k, net).body
<1>1. PICK prk, info, x, b, c :
        body = Bytes(197, <<"invoice", <<HkdfExpand(prk, info), ZeroTag>>, x, b, c>>)
  <2>1. HasLayout(body, k)
    BY InvoiceBody
  <2> HIDE DEF body
  <2> QED
    BY <2>1 DEF HasLayout
<1>2. PICK t : t = HkdfExpand(prk, info)
  OBVIOUS
<1> HIDE DEF body
<1>3. body = [len |-> 197, holds |-> <<"invoice", <<t, ZeroTag>>, x, b, c>>]
  BY <1>1, <1>2 DEF Bytes
<1>4. Tampered(body).holds[2][1] = [flipped |-> t] /\ body.holds[2][1] = t
  BY <1>3 DEF Tampered
<1>5. [flipped |-> t] # t
  BY <1>2, FlippedDiffers
<1> QED
  BY <1>4, <1>5 DEF body
-----------------------------------------------------------------------------
(* The population, its batch and its store *)

\* A sample is cut to the population.
LEMMA SampleWithin ==
  ASSUME inputs \in Inputs, NEW asked \in Nat
  PROVE  inputs.m \in Nat /\ Sample(asked) \in Nat /\ Sample(asked) <= inputs.m
<1> DEFINE m == inputs.m
<1>1. m \in Nat
  BY StudyAssumption
<1> HIDE DEF m
<1>2. CASE asked <= m
  <2>1. Min({asked, m}) = asked
    BY <1>1, <1>2, MinOfTwo
  <2>2. Sample(asked) = asked
    BY <2>1 DEF Sample, Min2, m
  <2> QED
    BY <1>1, <1>2, <2>2 DEF m
<1>3. CASE ~(asked <= m)
  <2>1. m <= asked /\ {asked, m} = {m, asked}
    BY <1>1, <1>3
  <2>2. Min({m, asked}) = m
    BY <1>1, <2>1, MinOfTwo
  <2>3. Sample(asked) = m
    BY <2>1, <2>2 DEF Sample, Min2, m
  <2> QED
    BY <1>1, <2>3 DEF m
<1> QED
  BY <1>2, <1>3

\* The sizes asked for are numbers.
LEMMA InputsAreNumbers ==
  ASSUME inputs \in Inputs
  PROVE  inputs.m \in Nat /\ inputs.inclusion \in Nat /\ inputs.selective \in Nat
BY StudyAssumption

\* A population of invoices, numbered from 0, is hashed to as many leaves, of which
\* none is a parent, and to the pairs that the store is built from.
Population == IsVec(notes) /\ \A j \in DOMAIN notes : \E net \in Amounts : notes[j] = Invoice(j - 1, net)

LEMMA PopulationPairs ==
  ASSUME Population, NEW p, p = Pairs, NEW v, v = LeavesOf(Pairs)
  PROVE  /\ Len(notes) \in Nat /\ DOMAIN notes = 1 .. Len(notes)
         /\ IsVec(p) /\ Len(p) = Len(notes)
         /\ \A j \in 1 .. Len(notes) :
              /\ p[j].key = j - 1 /\ p[j].leaf = DoubleSha256(notes[j].body)
              /\ IsDigest(p[j].leaf) /\ NoParent(p[j].leaf)
         /\ IsVec(v) /\ Len(v) = Len(notes)
         /\ \A j \in 1 .. Len(notes) : v[j] = DoubleSha256(notes[j].body)
         /\ \A x \in Nodes(v) : IsDigest(x) /\ NoParent(x)
         /\ v = [j \in DOMAIN notes |-> DoubleSha256(notes[j].body)]
<1> DEFINE n == Len(notes)
           Leaf(j) == DoubleSha256(notes[j].body)
<1>1. n \in Nat /\ DOMAIN notes = 1 .. n
  BY VecLen DEF Population
<1>2. ASSUME NEW j \in 1 .. n PROVE IsDigest(Leaf(j)) /\ NoParent(Leaf(j))
  <2>1. PICK net \in Amounts : notes[j] = Invoice(j - 1, net)
    BY <1>1, <1>2 DEF Population
  <2>2. j - 1 \in Nat
    BY <1>1, <1>2
  <2> QED
    BY <2>1, <2>2, InvoiceLeaf
<1> HIDE DEF Leaf
<1>3. p = [j \in 1 .. n |-> [key |-> j - 1, leaf |-> Leaf(j)]]
  BY <1>1 DEF Pairs, Leaf
<1> HIDE DEF n
<1>4. DOMAIN p = 1 .. n /\ p = [j \in 1 .. n |-> p[j]]
  BY <1>3
<1>5. IsVec(p) /\ Len(p) = n
  BY <1>1, <1>4, VecOfFunction
<1>6. \A j \in 1 .. n : p[j].key = j - 1 /\ p[j].leaf = Leaf(j)
  BY <1>3
<1>7. v = [j \in 1 .. n |-> p[j].leaf]
  BY <1>4 DEF LeavesOf
<1>8. DOMAIN v = 1 .. n /\ v = [j \in 1 .. n |-> v[j]] /\ \A j \in 1 .. n : v[j] = Leaf(j)
  BY <1>6, <1>7
<1>9. IsVec(v) /\ Len(v) = n
  BY <1>1, <1>8, VecOfFunction
<1>10. \A x \in Nodes(v) : IsDigest(x) /\ NoParent(x)
  BY <1>2, <1>8 DEF Nodes
<1>11. v = [j \in 1 .. n |-> Leaf(j)]
  BY <1>8
<1> QED
  BY <1>1, <1>2, <1>5, <1>6, <1>8, <1>9, <1>10, <1>11 DEF n, Leaf

\* What TypeOK says of the batch.
Batched ==
  /\ Population /\ notes # <<>>
  /\ batch = [leaves |-> LeavesOf(Pairs), root |-> MerkleRoot(LeavesOf(Pairs))]

\* The batch of the population names each of its notes, and no other body, and its
\* proofs lead to its own root only.
LEMMA InclusionVerifies ==
  ASSUME Batched, NEW k \in Nat, k < Len(notes), NEW body
  PROVE  /\ VerifyInclusion(body, batch.root, k) = "Ok"
              <=> DoubleSha256(body) = DoubleSha256(At(notes, k).body)
         /\ \A root : root # batch.root =>
              VerifyInclusion(At(notes, k).body, root, k) # "Ok"
<1>1. PICK v : v = LeavesOf(Pairs)
  OBVIOUS
<1>2. /\ Len(notes) \in Nat /\ IsVec(v) /\ Len(v) = Len(notes)
      /\ \A j \in 1 .. Len(notes) : v[j] = DoubleSha256(notes[j].body)
      /\ \A x \in Nodes(v) : IsDigest(x)
  BY <1>1, PopulationPairs DEF Batched
<1>3. batch.leaves = v /\ batch.root = MerkleRoot(v)
  BY <1>1 DEF Batched
<1>4. At(v, k) = DoubleSha256(At(notes, k).body)
  BY <1>2 DEF At
<1>5. Len(v) >= 1 /\ k < Len(v)
  BY <1>2
<1>6. \A leaf :
        VerifyProof(k, Len(v), BuildProof(v, k), leaf, MerkleRoot(v)) = "Ok" <=> leaf = At(v, k)
  BY <1>2, <1>5, VerifyOwnProof
<1>7. \A root : root # MerkleRoot(v) =>
        VerifyProof(k, Len(v), BuildProof(v, k), At(v, k), root) # "Ok"
  BY <1>2, <1>5, VerifyOwnProof
<1> QED
  BY <1>3, <1>4, <1>6, <1>7 DEF VerifyInclusion

\* The store of the population accepts the fragment of each of its notes.
LEMMA FragmentAccepted ==
  ASSUME Batched, store = StoreOf(Pairs, DefaultK), NEW k \in Nat, k < Len(notes)
  PROVE  Adversarial(store, DoubleSha256(At(notes, k).body), Query(store, k)) = "Ok"
<1>1. PICK p : p = Pairs
  OBVIOUS
<1>2. /\ Len(notes) \in Nat /\ IsVec(p) /\ Len(p) = Len(notes)
      /\ \A j \in 1 .. Len(p) : /\ p[j].key = j - 1 /\ p[j].leaf = DoubleSha256(notes[j].body)
                                /\ IsDigest(p[j].leaf) /\ NoParent(p[j].leaf)
  BY <1>1, PopulationPairs DEF Batched
<1>3. PICK s : s = StoreOf(p, DefaultK)
  OBVIOUS
<1>4. Len(p) >= 1 /\ k \in 0 .. Len(p) - 1 /\ k + 1 \in 1 .. Len(p)
  BY <1>2
<1>5. IsStore(s) /\ k \in DOMAIN s.index /\ s.index[k] = k /\ At(s.leaves, k) = p[k + 1].leaf
  <2>1. /\ IsStore(s)
        /\ \A n \in 0 .. Len(p) - 1 :
             n \in DOMAIN s.index /\ s.index[n] = n /\ At(s.leaves, n) = p[n + 1].leaf
    <3>1. \A j \in 1 .. Len(p) : p[j].key = j - 1 /\ IsDigest(p[j].leaf) /\ NoParent(p[j].leaf)
      BY <1>2
    <3> QED
      BY <1>2, <1>3, <1>4, <3>1, NumberedStore
  <2> QED
    BY <1>4, <2>1
<1>6. p[k + 1].leaf = DoubleSha256(At(notes, k).body)
  BY <1>2, <1>4 DEF At
<1>7. Adversarial(s, DoubleSha256(At(notes, k).body), Query(s, k)) = "Ok"
  BY <1>5, <1>6, AdversarialOwn
<1> QED
  BY <1>1, <1>3, <1>7
\* Each of the faults is told from what is not one.
LEMMA EachDetected ==
  ASSUME Batched, NEW class \in Nodes(FaultClasses), class = "wrong_index" => Len(notes) >= 2
  PROVE  Detected(class)
<1>1. /\ IsVec(notes) /\ Len(notes) \in Nat /\ DOMAIN notes = 1 .. Len(notes) /\ Len(notes) >= 1
      /\ \A x \in Nodes(batch.leaves) : IsDigest(x)
  <2>1. PICK v : v = LeavesOf(Pairs)
    OBVIOUS
  <2>2. /\ Len(notes) \in Nat /\ DOMAIN notes = 1 .. Len(notes)
        /\ \A x \in Nodes(v) : IsDigest(x)
    BY <2>1, PopulationPairs DEF Batched
  <2>3. batch.leaves = v
    BY <2>1 DEF Batched
  <2>4. IsVec(notes) /\ notes # <<>>
    BY DEF Batched, Population
  <2> QED
    BY <2>2, <2>3, <2>4 DEF IsVec
<1>2. /\ \E net : notes[1] = Invoice(0, net)
      /\ Len(notes) >= 2 => \E net : notes[2] = Invoice(1, net)
  <2>1. \A j \in 1 .. Len(notes) : \E net : notes[j] = Invoice(j - 1, net)
    BY <1>1 DEF Batched, Population
  <2>2. \E net : notes[1] = Invoice(1 - 1, net)
    BY <1>1, <2>1
  <2>3. Len(notes) >= 2 => \E net : notes[2] = Invoice(2 - 1, net)
    BY <1>1, <2>1
  <2>4. 1 - 1 = 0 /\ 2 - 1 = 1
    OBVIOUS
  <2> QED
    BY <2>2, <2>3, <2>4
<1>3. CASE class = "missing_payment"
  BY <1>3 DEF Detected
<1>4. CASE class = "linkage_mismatch"
  <2>1. notes[1].secondary_tag = ZeroTag
    BY <1>2, InvoiceBody
  <2>2. OnesTag # ZeroTag
    <3>1. DOMAIN OnesTag = {"ones"} /\ DOMAIN ZeroTag = {"zeros"}
      BY DEF OnesTag, ZeroTag
    <3> QED
      BY <3>1
  <2>3. PICK note : note = notes[1]
    OBVIOUS
  <2>4. note = [secondary_tag |-> note.secondary_tag, body |-> note.body]
    BY <1>2, <2>3 DEF Invoice
  <2>5. [note EXCEPT !.secondary_tag = OnesTag].secondary_tag = OnesTag
    BY <2>4
  <2>6. [notes EXCEPT ![1].secondary_tag = OnesTag][1]
          = [note EXCEPT !.secondary_tag = OnesTag]
    BY <1>1, <2>3
  <2>7. [notes EXCEPT ![1].secondary_tag = OnesTag][1].secondary_tag # notes[1].secondary_tag
    BY <2>1, <2>2, <2>5, <2>6
  <2> QED
    BY <1>4, <2>7 DEF Detected
<1>5. CASE class = "orphan_note"
  <2>1. DOMAIN OrphanLeaf = {"filled"} /\ \A x : IsDigest(x) => DOMAIN x = {"digest"}
    BY DEF OrphanLeaf, IsDigest, DoubleSha256
  <2>2. OrphanLeaf \notin Nodes(batch.leaves)
    BY <1>1, <2>1
  <2> QED
    BY <1>5, <2>2 DEF Detected
<1>6. ASSUME NEW body, body # notes[1].body PROVE Refused(body, batch.root)
  <2>1. DoubleSha256(body) # DoubleSha256(notes[1].body)
    <3>1. DoubleSha256(body).digest # DoubleSha256(notes[1].body).digest
      BY <1>6 DEF DoubleSha256
    <3> QED
      BY <3>1
  <2>2. 0 \in Nat /\ 0 < Len(notes) /\ At(notes, 0) = notes[1]
    BY <1>1 DEF At
  <2>3. VerifyInclusion(body, batch.root, 0) # "Ok"
    BY <2>1, <2>2, InclusionVerifies
  <2> QED
    BY <2>3 DEF Refused
<1>7. CASE class = "tampered_merkle_leaf"
  <2>1. Tampered(notes[1].body) # notes[1].body
    BY <1>2, TamperedDiffers
  <2> QED
    BY <1>6, <1>7, <2>1 DEF Detected
<1>8. CASE class = "wrong_index"
  <2>1. PICK net1, net2 : notes[1] = Invoice(0, net1) /\ notes[2] = Invoice(1, net2)
    BY <1>2, <1>8
  <2>2. notes[2].body # notes[1].body
    BY <2>1, InvoicesDiffer
  <2> QED
    BY <1>6, <1>8, <2>2 DEF Detected
<1>9. CASE class = "wrong_root"
  <2>1. FlippedHash(batch.root) # batch.root
    <3>1. PICK v : v = LeavesOf(Pairs)
      OBVIOUS
    <3>2. /\ Len(notes) \in Nat /\ IsVec(v) /\ Len(v) = Len(notes)
          /\ \A x \in Nodes(v) : IsDigest(x)
      BY <3>1, PopulationPairs DEF Batched
    <3>3. IsDigest(MerkleRoot(v))
      BY <1>1, <3>2, ProofsOfDigests
    <3> QED
      BY <3>1, <3>3, FlippedDiffers DEF Batched
  <2>2. 0 \in Nat /\ 0 < Len(notes) /\ At(notes, 0) = notes[1]
    BY <1>1 DEF At
  <2>3. VerifyInclusion(notes[1].body, FlippedHash(batch.root), 0) # "Ok"
    BY <2>1, <2>2, InclusionVerifies
  <2> QED
    BY <1>9, <2>3 DEF Detected, WrongRootDetected, Refused
<1> QED
  BY <1>3, <1>4, <1>5, <1>7, <1>8, <1>9 DEF Nodes, FaultClasses
-----------------------------------------------------------------------------
(* The steps *)

\* After the first part the population is as large as was asked for.
LEMMA ReachedBatch ==
  ASSUME TypeOK, pc \in {"inclusion", "selective", "faults", "done"}
  PROVE  Batched /\ Len(notes) = inputs.m
BY DEF TypeOK, Batched, Population

\* The parts that leave the population alone keep what is said of it.
LEMMA SamePopulation ==
  ASSUME UNCHANGED <<inputs, notes>>
  PROVE  /\ Pairs' = Pairs
         /\ \A asked : Sample(asked)' = Sample(asked)
BY DEF Pairs, Sample

\* The types hold after a step that leaves the population alone, keeps or makes
\* what the part it goes on with needs, and counts no further than the population.
LEMMA KeepsTypes ==
  ASSUME TypeOK, UNCHANGED <<inputs, notes>>, i' \in Nat,
         \/ pc' = "panic"
         \/ /\ pc' \in {"inclusion", "selective", "faults", "done"}
            /\ Len(notes) = inputs.m /\ notes # <<>>
            /\ batch' = [leaves |-> LeavesOf(Pairs), root |-> MerkleRoot(LeavesOf(Pairs))],
         pc' \in {"selective", "faults", "done"} => store' = StoreOf(Pairs, DefaultK),
         inclusion_detected' \in 0 .. Len(notes), selective_detected' \in 0 .. Len(notes),
         pc' = "inclusion" => selective_detected' = 0,
         IsVec(faults'), \A j \in DOMAIN faults' : faults'[j].class = FaultClasses[j],
         pc' \in {"inclusion", "selective"} => faults' = <<>>,
         pc' = "faults" => Len(faults') = i'
  PROVE  TypeOK'
<1>1. Pairs' = Pairs
  BY SamePopulation
<1>2. IsVec(notes') /\ IsVec(faults)'
  BY DEF TypeOK, IsVec, Nodes
<1>3. (\A j \in DOMAIN notes : \E net \in Amounts : notes[j] = Invoice(j - 1, net))'
  BY DEF TypeOK
<1> QED
  BY <1>1, <1>2, <1>3 DEF TypeOK

\* The samples a study takes.
LEMMA SampledInv ==
  ASSUME IInv
  PROVE  /\ inputs.m \in Nat
         /\ Sample(inputs.inclusion) \in Nat /\ Sample(inputs.inclusion) <= inputs.m
         /\ Sample(inputs.selective) \in Nat /\ Sample(inputs.selective) <= inputs.m
<1>1. inputs \in Inputs
  BY DEF IInv, TypeOK
<1>2. inputs.m \in Nat /\ inputs.inclusion \in Nat /\ inputs.selective \in Nat
  BY <1>1, InputsAreNumbers
<1>3. \A asked \in Nat : Sample(asked) \in Nat /\ Sample(asked) <= inputs.m
  BY <1>1, SampleWithin
<1> QED
  BY <1>2, <1>3

\* The counts a step leaves alone, and those of a step that ends with a panic.
LEMMA NothingToCount ==
  ASSUME pc' \in {"generate", "panic"}
  PROVE  AllVerified'
BY DEF AllVerified

LEMMA GenerateInv ==
  ASSUME IInv, Generate
  PROVE  IInv'
<1>1. PICK net \in Amounts : notes' = Append(notes, Invoice(Len(notes), net))
  BY DEF Generate
<1>2. IsVec(notes) /\ Len(notes) \in Nat /\ DOMAIN notes = 1 .. Len(notes)
  BY VecLen DEF IInv, TypeOK
<1>3. PICK w : w = notes'
  OBVIOUS
<1>4. /\ IsVec(w) /\ Len(w) = Len(notes) + 1 /\ DOMAIN w = 1 .. Len(w)
      /\ \A j \in 1 .. Len(notes) : w[j] = notes[j]
      /\ w[Len(notes) + 1] = Invoice(Len(notes), net)
  BY <1>1, <1>2, <1>3, VecAppend, VecLen
<1>5. \A j \in DOMAIN w : \E amount \in Amounts : w[j] = Invoice(j - 1, amount)
  <2> SUFFICES ASSUME NEW j \in DOMAIN w
               PROVE  \E amount \in Amounts : w[j] = Invoice(j - 1, amount)
    OBVIOUS
  <2>1. CASE j = Len(notes) + 1
    <3>1. j - 1 = Len(notes)
      BY <1>2, <2>1
    <3> QED
      BY <1>4, <2>1, <3>1
  <2>2. CASE j # Len(notes) + 1
    <3>1. j \in 1 .. Len(notes)
      BY <1>2, <1>4, <2>2
    <3>2. \E amount \in Amounts : notes[j] = Invoice(j - 1, amount)
      BY <1>2, <3>1 DEF IInv, TypeOK
    <3> QED
      BY <1>4, <3>1, <3>2
  <2> QED
    BY <2>1, <2>2
<1>6. Len(w) <= inputs.m
  BY <1>2, <1>4, InputsAreNumbers DEF Generate, IInv, TypeOK
<1>7. TypeOK'
  BY <1>2, <1>3, <1>4, <1>5, <1>6 DEF IInv, TypeOK, Generate
<1>8. AllVerified'
  BY NothingToCount DEF Generate
<1>9. FaultsDetected' /\ PanicOnlyIfSmall'
  BY DEF IInv, FaultsDetected, PanicOnlyIfSmall, Generate
<1> QED
  BY <1>7, <1>8, <1>9 DEF IInv

LEMMA BuildBatchInv ==
  ASSUME IInv, BuildBatch
  PROVE  IInv'
<1>1. FaultsDetected'
  BY DEF IInv, FaultsDetected, BuildBatch
<1>2. PICK v : v = LeavesOf(Pairs)
  OBVIOUS
<1>3. Population
  BY DEF IInv, TypeOK, Population
<1>4. v = [j \in DOMAIN notes |-> DoubleSha256(notes[j].body)]
  BY <1>2, <1>3, PopulationPairs
<1>5. /\ UNCHANGED <<inputs, notes, store, inclusion_detected, selective_detected, faults>>
      /\ pc = "generate" /\ i' = 0 /\ Len(notes) = inputs.m /\ inclusion_detected = 0
  BY DEF BuildBatch, Goto, IInv, TypeOK
<1>6. CASE notes = <<>>
  <2>1. pc' = "panic"
    BY <1>6 DEF BuildBatch, Goto
  <2>2. TypeOK'
    BY <1>5, <2>1, KeepsTypes DEF IInv, TypeOK
  <2>3. PanicOnlyIfSmall'
    BY <1>5, <1>6 DEF PanicOnlyIfSmall
  <2> QED
    BY <1>1, <2>1, <2>2, <2>3, NothingToCount DEF IInv
<1>7. CASE notes # <<>>
  <2>1. pc' = "inclusion" /\ batch' = [leaves |-> v, root |-> MerkleRoot(v)]
    BY <1>4, <1>7 DEF BuildBatch, Goto
  <2>2. TypeOK'
    BY <1>2, <1>5, <1>7, <2>1, KeepsTypes DEF IInv, TypeOK
  <2>3. AllVerified'
    <3>1. 0 <= Sample(inputs.inclusion)
      BY SampledInv
    <3> QED
      BY <1>5, <2>1, <3>1, SamePopulation DEF AllVerified
  <2>4. PanicOnlyIfSmall'
    BY <2>1 DEF PanicOnlyIfSmall
  <2> QED
    BY <1>1, <2>2, <2>3, <2>4 DEF IInv
<1> QED
  BY <1>6, <1>7

LEMMA IncludeInv ==
  ASSUME IInv, Include
  PROVE  IInv'
<1>1. Batched /\ Len(notes) = inputs.m
  BY ReachedBatch DEF IInv, Include
<1>2. /\ i \in Nat /\ inputs.m \in Nat /\ Sample(inputs.inclusion) \in Nat
      /\ Sample(inputs.inclusion) <= inputs.m /\ i < Sample(inputs.inclusion)
      /\ inclusion_detected = i
  BY SampledInv DEF IInv, TypeOK, AllVerified, Include
<1>3. i < Len(notes) /\ ~(i >= Len(notes))
  BY <1>1, <1>2
<1>4. VerifyInclusion(At(notes, i).body, batch.root, i) = "Ok"
  BY <1>1, <1>2, <1>3, InclusionVerifies
<1>5. /\ UNCHANGED <<inputs, pc, notes, batch, store, selective_detected, faults>>
      /\ pc = "inclusion" /\ i' = i + 1 /\ inclusion_detected' = i + 1
  BY <1>2, <1>3, <1>4 DEF Include
<1>6. TypeOK'
  BY <1>1, <1>2, <1>3, <1>5, KeepsTypes DEF Batched, IInv, TypeOK
<1>7. AllVerified'
  BY <1>2, <1>5, SamePopulation DEF AllVerified
<1>8. FaultsDetected' /\ PanicOnlyIfSmall'
  BY <1>5 DEF IInv, FaultsDetected, PanicOnlyIfSmall
<1> QED
  BY <1>6, <1>7, <1>8 DEF IInv
\* AnchorStore: the second part counts from nothing.
LEMMA AnchorStoreInv ==
  ASSUME IInv, AnchorStore
  PROVE  IInv'
<1>1. Batched /\ Len(notes) = inputs.m
  BY ReachedBatch DEF IInv, AnchorStore
<1>2. /\ UNCHANGED <<inputs, notes, batch, inclusion_detected, selective_detected, faults>>
      /\ pc = "inclusion" /\ pc' = "selective" /\ i' = 0 /\ store' = StoreOf(Pairs, DefaultK)
      /\ i = Sample(inputs.inclusion) /\ inclusion_detected = i
      /\ selective_detected = 0 /\ faults = <<>>
  BY DEF AnchorStore, Goto, IInv, TypeOK, AllVerified
<1>3. TypeOK'
  BY <1>1, <1>2, KeepsTypes DEF Batched, IInv, TypeOK
<1>4. AllVerified'
  BY <1>2, SamePopulation, SampledInv DEF AllVerified
<1>5. FaultsDetected' /\ PanicOnlyIfSmall'
  BY <1>2 DEF IInv, FaultsDetected, PanicOnlyIfSmall
<1> QED
  BY <1>3, <1>4, <1>5 DEF IInv

LEMMA SelectInv ==
  ASSUME IInv, Select
  PROVE  IInv'
<1>1. Batched /\ Len(notes) = inputs.m /\ store = StoreOf(Pairs, DefaultK)
  BY ReachedBatch DEF IInv, TypeOK, Select
<1>2. /\ i \in Nat /\ inputs.m \in Nat /\ Sample(inputs.selective) \in Nat
      /\ Sample(inputs.selective) <= inputs.m /\ i < Sample(inputs.selective)
      /\ selective_detected = i
  BY SampledInv DEF IInv, TypeOK, AllVerified, Select
<1>3. i < Len(notes) /\ ~(i >= Len(notes))
  BY <1>1, <1>2
<1>4. Adversarial(store, DoubleSha256(At(notes, i).body), Query(store, i)) = "Ok"
  BY <1>1, <1>2, <1>3, FragmentAccepted
<1>5. /\ UNCHANGED <<inputs, pc, notes, batch, store, inclusion_detected, faults>>
      /\ pc = "selective" /\ i' = i + 1 /\ selective_detected' = i + 1
  BY <1>2, <1>3, <1>4 DEF Select
<1>6. TypeOK'
  BY <1>1, <1>2, <1>3, <1>5, KeepsTypes DEF Batched, IInv, TypeOK
<1>7. AllVerified'
  BY <1>2, <1>5, SamePopulation DEF IInv, AllVerified
<1>8. FaultsDetected' /\ PanicOnlyIfSmall'
  BY <1>5 DEF IInv, FaultsDetected, PanicOnlyIfSmall
<1> QED
  BY <1>6, <1>7, <1>8 DEF IInv

LEMMA SelectedInv ==
  ASSUME IInv, Selected
  PROVE  IInv'
<1>1. Batched /\ Len(notes) = inputs.m /\ store = StoreOf(Pairs, DefaultK)
  BY ReachedBatch DEF IInv, TypeOK, Selected
<1>2. /\ UNCHANGED <<inputs, notes, batch, store, inclusion_detected, selective_detected, faults>>
      /\ pc = "selective" /\ pc' = "faults" /\ i' = 0
      /\ i = Sample(inputs.selective) /\ selective_detected = i
      /\ inclusion_detected = Sample(inputs.inclusion) /\ faults = <<>> /\ Len(faults) = 0
  BY DEF Selected, Goto, IInv, TypeOK, AllVerified
<1>3. TypeOK'
  BY <1>1, <1>2, KeepsTypes DEF Batched, IInv, TypeOK
<1>4. AllVerified'
  BY <1>2, SamePopulation DEF AllVerified
<1>5. FaultsDetected' /\ PanicOnlyIfSmall'
  BY <1>2 DEF IInv, FaultsDetected, PanicOnlyIfSmall
<1> QED
  BY <1>3, <1>4, <1>5 DEF IInv

LEMMA InjectInv ==
  ASSUME IInv, Inject
  PROVE  IInv'
<1>1. Batched /\ Len(notes) = inputs.m /\ store = StoreOf(Pairs, DefaultK)
  BY ReachedBatch DEF IInv, TypeOK, Inject
<1>2. PICK class : class = At(FaultClasses, i)
  OBVIOUS
<1>3. /\ pc = "faults" /\ i \in Nat /\ i < 6 /\ class = FaultClasses[i + 1]
      /\ IsVec(faults) /\ Len(faults) = i /\ DOMAIN faults = 1 .. i
      /\ \A j \in DOMAIN faults : faults[j].class = FaultClasses[j]
  <2>1. Len(FaultClasses) = 6
    BY DEF FaultClasses
  <2>2. IsVec(faults) /\ Len(faults) = i
    BY DEF IInv, TypeOK, Inject
  <2> QED
    BY <1>2, <2>1, <2>2, VecLen DEF IInv, TypeOK, Inject, At
<1>4. UNCHANGED <<inputs, notes, batch, store, inclusion_detected, selective_detected>>
  BY DEF Inject
<1>5. CASE class = "wrong_index" /\ Len(notes) < 2
  <2>1. pc' = "panic" /\ i' = 0 /\ UNCHANGED faults
    BY <1>2, <1>5 DEF Inject, Goto
  <2>2. TypeOK'
    BY <1>3, <1>4, <2>1, KeepsTypes DEF IInv, TypeOK
  <2>3. FaultsDetected' /\ PanicOnlyIfSmall'
    BY <1>1, <1>4, <1>5, <2>1 DEF IInv, FaultsDetected, PanicOnlyIfSmall
  <2> QED
    BY <2>1, <2>2, <2>3, NothingToCount DEF IInv
<1>6. CASE ~(class = "wrong_index" /\ Len(notes) < 2)
  <2>1. PICK row : row = [class |-> class, detected |-> Detected(class)]
    OBVIOUS
  <2>2. /\ UNCHANGED pc /\ i' = i + 1 /\ faults' = Append(faults, row)
    BY <1>2, <1>6, <2>1 DEF Inject
  <2>3. class \in Nodes(FaultClasses)
    <3>1. DOMAIN FaultClasses = 1 .. 6
      BY DEF FaultClasses
    <3>2. i + 1 \in 1 .. 6
      BY <1>3
    <3> QED
      BY <1>3, <3>1, <3>2 DEF Nodes
  <2>4. class = "wrong_index" => Len(notes) >= 2
    <3>1. Len(notes) \in Nat
      BY <1>1, SampledInv
    <3> QED
      BY <1>6, <3>1
  <2>5. row.class = class /\ row.detected
    <3>1. Detected(class)
      BY <1>1, <2>3, <2>4, EachDetected
    <3>2. row.class = class /\ row.detected = Detected(class)
      BY <2>1
    <3> QED
      BY <3>1, <3>2, Zenon
  <2>6. PICK w : w = faults'
    OBVIOUS
  <2>7. /\ IsVec(w) /\ Len(w) = i + 1 /\ DOMAIN w = 1 .. i + 1
        /\ \A j \in 1 .. i : w[j] = faults[j]
        /\ w[i + 1] = row
    BY <1>3, <2>2, <2>6, VecAppend, VecLen
  <2>8. ASSUME NEW j \in DOMAIN w
        PROVE  w[j].class = FaultClasses[j] /\ w[j].detected
    <3>1. CASE j = i + 1
      <4>1. w[j].class = FaultClasses[j]
        BY <1>3, <2>5, <2>7, <3>1
      <4>2. w[j] = row
        BY <2>7, <3>1
      <4>3. w[j].detected
        BY <4>2, <2>5, Zenon
      <4> QED
        BY <4>1, <4>3
    <3>2. CASE j # i + 1
      <4>1. j \in 1 .. i
        BY <1>3, <2>7, <3>2
      <4>2. w[j] = faults[j] /\ j \in DOMAIN faults
        BY <1>3, <2>7, <4>1
      <4>3. faults[j].detected
        BY <4>2 DEF IInv, FaultsDetected
      <4>4. w[j].detected
        BY <4>2, <4>3, Zenon
      <4> QED
        BY <1>3, <4>2, <4>4
    <3> QED
      BY <3>1, <3>2
  <2>9. TypeOK'
    BY <1>1, <1>3, <1>4, <2>2, <2>6, <2>7, <2>8, KeepsTypes DEF Batched, IInv, TypeOK
  <2>10. AllVerified'
    BY <1>3, <1>4, <2>2, SamePopulation DEF IInv, AllVerified
  <2>11. FaultsDetected'
    <3>1. \A j \in DOMAIN faults' : faults'[j].detected
      BY <2>6, <2>8, Zenon
    <3> QED
      BY <3>1 DEF FaultsDetected
  <2>12. PanicOnlyIfSmall'
    BY <1>3, <2>2 DEF PanicOnlyIfSmall
  <2> QED
    BY <2>9, <2>10, <2>11, <2>12 DEF IInv
<1> QED
  BY <1>5, <1>6

LEMMA ReportInv ==
  ASSUME IInv, Report
  PROVE  IInv'
<1>1. Batched /\ Len(notes) = inputs.m /\ store = StoreOf(Pairs, DefaultK)
  BY ReachedBatch DEF IInv, TypeOK, Report
<1>2. /\ UNCHANGED <<inputs, notes, batch, store, inclusion_detected, selective_detected, faults>>
      /\ pc = "faults" /\ pc' = "done" /\ i' = 0
  BY DEF Report, Goto
<1>3. TypeOK'
  BY <1>1, <1>2, KeepsTypes DEF Batched, IInv, TypeOK
<1>4. AllVerified'
  BY <1>2, SamePopulation DEF IInv, AllVerified
<1>5. FaultsDetected' /\ PanicOnlyIfSmall'
  BY <1>2 DEF IInv, FaultsDetected, PanicOnlyIfSmall
<1> QED
  BY <1>3, <1>4, <1>5 DEF IInv

\* A step that changes nothing.
LEMMA StutterInv ==
  ASSUME IInv, UNCHANGED vars
  PROVE  IInv'
<1>1. UNCHANGED <<inputs, pc, i, notes, batch, store, inclusion_detected, selective_detected, faults>>
  BY DEF vars
<1>2. Pairs' = Pairs /\ \A asked : Sample(asked)' = Sample(asked)
  BY <1>1, SamePopulation
<1>3. IsVec(notes') /\ IsVec(faults')
  BY <1>1 DEF IInv, TypeOK, IsVec, Nodes
<1>4. (\A j \in DOMAIN notes : \E net \in Amounts : notes[j] = Invoice(j - 1, net))'
  BY <1>1 DEF IInv, TypeOK
<1>5. TypeOK'
  BY <1>1, <1>2, <1>3, <1>4 DEF IInv, TypeOK
<1>6. AllVerified'
  BY <1>1, <1>2 DEF IInv, AllVerified
<1>7. FaultsDetected' /\ PanicOnlyIfSmall'
  BY <1>1 DEF IInv, FaultsDetected, PanicOnlyIfSmall
<1> QED
  BY <1>5, <1>6, <1>7 DEF IInv

LEMMA StudyInit == Init => IInv
<1> SUFFICES ASSUME Init PROVE IInv
  OBVIOUS
<1>1. TypeOK
  <2>1. IsVec(<<>>) /\ Len(<<>>) = 0 /\ DOMAIN <<>> = {}
    BY VecLiterals
  <2>2. inputs \in Inputs /\ inputs.m \in Nat
    BY InputsAreNumbers DEF Init
  <2> QED
    BY <2>1, <2>2 DEF Init, TypeOK
<1>2. AllVerified /\ PanicOnlyIfSmall
  BY DEF Init, AllVerified, PanicOnlyIfSmall
<1>3. FaultsDetected
  BY DEF Init, FaultsDetected
<1> QED
  BY <1>1, <1>2, <1>3 DEF IInv

-----------------------------------------------------------------------------
(* Theorems *)

\* The inductive invariant: one part of the study hands the next what it needs.
THEOREM Invariant == Spec => []IInv
<1>1. IInv /\ [Next]_vars => IInv'
  <2> SUFFICES ASSUME IInv, [Next]_vars PROVE IInv'
    OBVIOUS
  <2>1. CASE Generate
    BY <2>1, GenerateInv
  <2>2. CASE BuildBatch
    BY <2>2, BuildBatchInv
  <2>3. CASE Include
    BY <2>3, IncludeInv
  <2>4. CASE AnchorStore
    BY <2>4, AnchorStoreInv
  <2>5. CASE Select
    BY <2>5, SelectInv
  <2>6. CASE Selected
    BY <2>6, SelectedInv
  <2>7. CASE Inject
    BY <2>7, InjectInv
  <2>8. CASE Report
    BY <2>8, ReportInv
  <2>9. CASE UNCHANGED vars
    BY <2>9, StutterInv
  <2> QED
    BY <2>1, <2>2, <2>3, <2>4, <2>5, <2>6, <2>7, <2>8, <2>9 DEF Next
<1> QED
  BY <1>1, StudyInit, PTL DEF Spec

\* run hands each part the population, the batch and the store that it needs.
THEOREM TypeCorrect == Spec => []TypeOK
<1>1. IInv => TypeOK
  BY DEF IInv
<1> QED
  BY <1>1, Invariant, PTL

\* Every sampled invoice is proved included and its fragment accepted: both
\* layers agree on what tea built, for every population and every two samples.
THEOREM CleanPartVerifies == Spec => []AllVerified
<1>1. IInv => AllVerified
  BY DEF IInv
<1> QED
  BY <1>1, Invariant, PTL

\* No injected fault is missed.
THEOREM NoFaultMissed == Spec => []FaultsDetected
<1>1. IInv => FaultsDetected
  BY DEF IInv
<1> QED
  BY <1>1, Invariant, PTL

\* Only a population of less than two makes run panic.
THEOREM PanicNeedsFew == Spec => []PanicOnlyIfSmall
<1>1. IInv => PanicOnlyIfSmall
  BY DEF IInv
<1> QED
  BY <1>1, Invariant, PTL
=============================================================================
