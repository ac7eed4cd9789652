------------------------------ MODULE SimStudy ------------------------------
(***************************************************************************)
(* The adoption study (crates/simstudy): run makes up a population of      *)
(* signed invoices, puts it through both layers -- a batch with inclusion  *)
(* proofs, a proof store with fragments -- and injects six faults.  It is  *)
(* the one program that drives tea, anchor, merkle and proofstore          *)
(* together, and takes its sizes from the command line unchecked.          *)
(***************************************************************************)
EXTENDS StoreCalls, TeaNotes

CONSTANTS
  Inputs,   \* SimStudyInputs
  Counterparties,  \* their master keys, in a sequence (25 in the code)
  Amounts   \* what fmt_minor may print for a net amount

ASSUME StudyAssumption ==
  /\ \A in \in Inputs : /\ in = [m |-> in.m, inclusion |-> in.inclusion, selective |-> in.selective]
                        /\ {in.m, in.inclusion, in.selective} \subseteq Nat
  /\ Len(Counterparties) > 0

VARIABLES
  inputs,
  pc,         \* the part of run that comes next
  i,          \* index of the loop that pc names
  notes,      \* the population, as far as it is made up
  batch,      \* leaves and root, or NotYet
  store,      \* the ProofStore, or NotYet
  inclusion_detected, selective_detected,
  faults      \* the rows: class and detected

vars == <<inputs, pc, i, notes, batch, store, inclusion_detected, selective_detected, faults>>

NotYet == <<>>

FaultClasses == <<"missing_payment", "linkage_mismatch", "orphan_note",
                  "tampered_merkle_leaf", "wrong_index", "wrong_root">>

Min2(a, b) == Min({a, b})

-----------------------------------------------------------------------------
(* One invoice.  A sub-key is ideal here: KeyDerivation has its arithmetic. *)

SubKey(master, index) == [master |-> master, index |-> index]

\* The other six fields are constants or computed from the net amount.
Invoice(k, net) ==
  LET a == SubKey("issuer", k + 1)
      b == SubKey(At(Counterparties, k % Len(Counterparties)), k + 1)
      mat == KeyMaterial(a, MulBase(b))
      tags == NoteTags("invoice", mat)
      fields == <<[label |-> "InvID", value |-> k], [label |-> "Net", value |-> net]>>
  IN  [secondary_tag |-> tags[2],
       body |-> BuildNoteBody("invoice", tags, MulBase(a), MulBase(b),
                              Commitments(mat, k, fields))]

\* build_inclusion_proof and verify_inclusion, against the batch's or another root.
VerifyInclusion(body, root, leaf_index) ==
  VerifyProof(leaf_index, Len(batch.leaves), BuildProof(batch.leaves, leaf_index),
              DoubleSha256(body), root)

-----------------------------------------------------------------------------
(* run *)

Init ==
  /\ inputs \in Inputs
  /\ pc = "generate" /\ i = 0 /\ notes = <<>>
  /\ batch = NotYet /\ store = NotYet
  /\ inclusion_detected = 0 /\ selective_detected = 0 /\ faults = <<>>

Goto(next) == pc' = next /\ i' = 0

\* Mutation: 0..=m_invoices.
GenerateOneMore ==
  /\ pc = "generate" /\ Len(notes) <= inputs.m
  /\ \E net \in Amounts : notes' = Append(notes, Invoice(Len(notes), net))
  /\ UNCHANGED <<inputs, pc, i, batch, store, inclusion_detected, selective_detected, faults>>

Generate ==
  /\ pc = "generate" /\ Len(notes) < inputs.m
  /\ \E net \in Amounts : notes' = Append(notes, Invoice(Len(notes), net))
  /\ UNCHANGED <<inputs, pc, i, batch, store, inclusion_detected, selective_detected, faults>>

\* build_batch refuses an empty population, and expect panics.
BuildBatch ==
  /\ pc = "generate" /\ Len(notes) = inputs.m
  /\ IF notes = <<>> THEN Goto("panic") /\ UNCHANGED batch
     ELSE LET leaves == [j \in DOMAIN notes |-> DoubleSha256(notes[j].body)] IN
          Goto("inclusion") /\ batch' = [leaves |-> leaves, root |-> MerkleRoot(leaves)]
  /\ UNCHANGED <<inputs, notes, store, inclusion_detected, selective_detected, faults>>

\* Mutation: a sample larger than the population is not cut.
SampleUncut(asked) == asked

Sample(asked) == Min2(asked, inputs.m)

\* Mutation: the index only moves on when a proof fails.
IncludeStuck ==
  /\ pc = "inclusion" /\ i < Sample(inputs.inclusion)
  /\ LET ok == VerifyInclusion(At(notes, i).body, batch.root, i) = "Ok" IN
     /\ inclusion_detected' = IF ok THEN inclusion_detected ELSE inclusion_detected + 1
     /\ i' = IF ok THEN i ELSE i + 1
  /\ UNCHANGED <<inputs, pc, notes, batch, store, selective_detected, faults>>

\* notes[i] and build_inclusion_proof of it panic past the end.
Include ==
  /\ pc = "inclusion" /\ i < Sample(inputs.inclusion)
  /\ IF i >= Len(notes) THEN Goto("panic") /\ UNCHANGED inclusion_detected
     ELSE /\ i' = i + 1
          /\ inclusion_detected' = inclusion_detected
               + (IF VerifyInclusion(At(notes, i).body, batch.root, i) = "Ok" THEN 1 ELSE 0)
          /\ UNCHANGED pc
  /\ UNCHANGED <<inputs, notes, batch, store, selective_detected, faults>>

\* An index key per invoice, by its place.
Pairs ==
  [j \in DOMAIN notes |-> [key |-> j - 1, leaf |-> DoubleSha256(notes[j].body)]]

AnchorStore ==
  /\ pc = "inclusion" /\ i = Sample(inputs.inclusion)
  /\ Goto("selective")
  /\ store' = StoreOf(Pairs, DefaultK)
  /\ UNCHANGED <<inputs, notes, batch, inclusion_detected, selective_detected, faults>>

Select ==
  /\ pc = "selective" /\ i < Sample(inputs.selective)
  /\ IF i >= Len(notes) THEN Goto("panic") /\ UNCHANGED selective_detected
     ELSE /\ i' = i + 1
          /\ selective_detected' = selective_detected
               + (IF Adversarial(store, DoubleSha256(At(notes, i).body), Query(store, i)) = "Ok" THEN 1 ELSE 0)
          /\ UNCHANGED pc
  /\ UNCHANGED <<inputs, notes, batch, store, inclusion_detected, faults>>

Selected ==
  /\ pc = "selective" /\ i = Sample(inputs.selective)
  /\ Goto("faults")
  /\ UNCHANGED <<inputs, notes, batch, store, inclusion_detected, selective_detected, faults>>

-----------------------------------------------------------------------------
(* The faults. *)

\* Byte 5 of a body belongs to its primary tag.
Tampered(body) == [body EXCEPT !.holds[2][1] = [flipped |-> @]]
FlippedHash(hash) == [flipped |-> hash]
OrphanLeaf == [filled |-> "ee"]
OnesTag == [ones |-> HASH_LEN]

Refused(body, root) == VerifyInclusion(body, root, 0) # "Ok"

\* Mutation: the altered root is not the one that is verified against.
WrongRootForgotten == Refused(notes[1].body, batch.root)

WrongRootDetected == Refused(notes[1].body, FlippedHash(batch.root))

Detected(class) ==
  LET leaves == Nodes(batch.leaves)
      removed == batch.leaves[Len(notes)]
      tagged == [notes EXCEPT ![1].secondary_tag = OnesTag]
  IN  CASE class = "missing_payment" -> removed \notin leaves \ {removed}
        [] class = "linkage_mismatch" -> tagged[1].secondary_tag # notes[1].secondary_tag
        [] class = "orphan_note" -> OrphanLeaf \notin leaves
        [] class = "tampered_merkle_leaf" -> Refused(Tampered(notes[1].body), batch.root)
        [] class = "wrong_index" -> Refused(notes[2].body, batch.root)
        [] class = "wrong_root" -> WrongRootDetected

\* The fault of a wrong index takes a second note for granted.
Inject ==
  /\ pc = "faults" /\ i < Len(FaultClasses)
  /\ LET class == At(FaultClasses, i) IN
     IF class = "wrong_index" /\ Len(notes) < 2 THEN Goto("panic") /\ UNCHANGED faults
     ELSE /\ i' = i + 1
          /\ faults' = Append(faults, [class |-> class, detected |-> Detected(class)])
          /\ UNCHANGED pc
  /\ UNCHANGED <<inputs, notes, batch, store, inclusion_detected, selective_detected>>

Report ==
  /\ pc = "faults" /\ i = Len(FaultClasses)
  /\ Goto("done")
  /\ UNCHANGED <<inputs, notes, batch, store, inclusion_detected, selective_detected, faults>>

Next ==
  \/ Generate \/ BuildBatch \/ Include \/ AnchorStore \/ Select \/ Selected
  \/ Inject \/ Report

Spec == Init /\ [][Next]_vars

\* One sequential program.
FairSpec == Spec /\ WF_vars(Next)

-----------------------------------------------------------------------------
(* Properties *)

\* What run has made so far is what the part it has come to needs: as many
\* invoices as were asked for, each its own, their batch and their store; and what
\* it counts stays within the population.
TypeOK ==
  /\ inputs \in Inputs /\ i \in Nat
  /\ pc \in {"generate", "inclusion", "selective", "faults", "done", "panic"}
  /\ IsVec(notes) /\ Len(notes) <= inputs.m
  /\ \A j \in DOMAIN notes : \E net \in Amounts : notes[j] = Invoice(j - 1, net)
  /\ pc \in {"inclusion", "selective", "faults", "done"} =>
       /\ Len(notes) = inputs.m /\ notes # <<>>
       /\ batch = [leaves |-> LeavesOf(Pairs), root |-> MerkleRoot(LeavesOf(Pairs))]
  /\ pc \in {"selective", "faults", "done"} => store = StoreOf(Pairs, DefaultK)
  /\ inclusion_detected \in 0 .. Len(notes) /\ selective_detected \in 0 .. Len(notes)
  /\ pc \in {"generate", "inclusion"} => selective_detected = 0
  /\ pc = "generate" => inclusion_detected = 0
  /\ IsVec(faults) /\ \A j \in DOMAIN faults : faults[j].class = FaultClasses[j]
  /\ pc \in {"generate", "inclusion", "selective"} => faults = <<>>
  /\ pc = "faults" => Len(faults) = i

\* The clean part of the study: every sampled invoice is proved included, and its
\* fragment accepted, whatever the size of the population and of the samples; so
\* the two layers agree on invoices that tea built, not on made-up leaves only.
AllVerified ==
  /\ pc = "inclusion" => i <= Sample(inputs.inclusion) /\ inclusion_detected = i
  /\ pc = "selective" => i <= Sample(inputs.selective) /\ selective_detected = i
  /\ pc \in {"selective", "faults", "done"} => inclusion_detected = Sample(inputs.inclusion)
  /\ pc \in {"faults", "done"} => selective_detected = Sample(inputs.selective)

\* The other part: no injected fault is missed.  Invoices of one counterparty, or
\* for one amount, never share a body, or the wrong index would pass.
FaultsDetected == \A j \in DOMAIN faults : faults[j].detected

\* Nothing but a population of less than two makes the study panic, whatever
\* samples are asked for.
PanicOnlyIfSmall == pc = "panic" => inputs.m < 2

\* A study of two or more invoices comes to its report.
StudyReports == inputs.m >= 2 ~> pc = "done"
=============================================================================
