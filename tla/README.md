# Formal model of triple-entry-evidence-bsv

TLA+ modules for the evidence workspace in `src/`, TLC configurations that
check them on small instances, and proofs, checked by TLAPS: of what the anchor
layer promises for batches and claims of every size, and that its loops
implement an abstract contract; of the selective store for every population and
level; of what a disclosed field shows for every set of notes and envelopes; of
the files that commands running side by side leave, and what `verify` accepts of
them; of the adoption study for every size; and of the keys that payer and payee
derive.

## 1. The system

The workspace turns a bilateral invoice or payment into public evidence: a note
is built and signed, a batch of notes is put under one Merkle root that goes
into a transaction, a single note is later shown to be in that batch, and a
single field of it can be disclosed. Everything runs in one process per command
and is sequential; commands share nothing but files. There is no network code.

| Component | State it keeps | Operations | Talks to |
|---|---|---|---|
| `bsv` | none | `double_sha256`, `flip_hash` | used by everything |
| `merkle` | none (locals of its loops) | `leaf_hash`, `parent_hash`, `merkle_root_of_leaves`, `build_proof`, `verify_proof`, `depth_for` | called by `anchor`, `proofstore`, `simstudy` |
| `anchor` | `AnchoredBatch` (leaf hashes, root, txid) | `build_batch`, `build_inclusion_proof`, `verify_inclusion` | calls `merkle`; called by `cli`, `simstudy` |
| `proofstore` | `ProofStore` (leaves, index, root, labels of level k) | `anchor`, `query`, `verify_adversarial`, `verify_full_merkle` | calls `merkle`; called by `cli` (`query` command) |
| `tea` | none | `derive_subkey`, `derive_key_material`, `field_key`, `commit_field`, `build_note_body`, `sign_note`, `verify_note` | calls `bsvcurve`; called by `disclosure`, `cli` |
| `disclosure` | `ScopedDisclosure` (claims, signature, released key and value) | `issue_disclosure`, `verify_disclosure` | calls `tea`, `bsvcurve` |
| `bsvcurve` | none | scalars, points, ECDH, ECDSA, HKDF, `hash_to_scalar` | wraps the `k256` crate |
| `cli` | the files its commands read and write | `anchor`, `prove`, `verify`, `query`, `disclose`, `build-note`, `derive-shared-address`, vector generation | composes all of the above |
| `simstudy` | counters of a seeded run | `run` | calls `tea`, `anchor`, `merkle`, `proofstore` |

What is hard to get right or to test, per component, and what makes it correct:

- **merkle, anchor.** The rule for an odd node (pair it with itself) is written
  in four loops, and a fifth, the verifier's climb, must undo it. A loop that
  differs only where a level *above* the leaves is odd shows at some batch sizes
  only. The verifier trusts nothing in a proof but the root: index, leaf count
  and siblings are all claims. Correct means: honest proofs are accepted
  (`Completeness`), and whatever is accepted is a note of the batch
  (`AcceptedIsAnchored`), at the claimed place (`AcceptedAtPosition`), through
  the whole height of the tree (`AcceptedFullHeight`).
- **proofstore.** `compute_assistance` has its own odd-node loop that runs
  exactly k times; the default k comes from a bit length and not from
  `depth_for`; repeated keys overwrite each other's position; a fragment may be
  checked against a store that was anchored later. Correct means: each query's
  answer verifies (`QueryVerifies`), the two verifiers agree
  (`VerifiersAgree`), and nothing but an anchored leaf passes
  (`AcceptedIsAnchored`).
- **tea, disclosure.** Which parts of an envelope are bound to which note, key,
  verifier and time; labels or note ids that repeat share a field key; expiry is
  a comparison of two clocks. Correct means: an accepted envelope shows the label
  and value that are committed to (`ShowsCommittedValue`), under the claims that
  were signed and not after their expiry (`AcceptedAsSigned`); each of the two
  parties can issue one that is accepted (`HonestAccepted`); payments and
  invoices find each other by their tags (`PaymentLinksInvoice`); and the
  anchored body stands for one note only (`BodyBindsNote`).
- **bsvcurve, derive_subkey.** The retry loop of `hash_to_scalar` changes one
  byte only; `derive_subkey` goes on to the next index without saying so. Correct
  means what the loops are there for: a sub-key is the master plus a tweak, which
  is the digest of the index, bumped as few times as make it a scalar, or that of the
  first index after it that is not degenerate (`SubkeyOfIndex`); two indices
  share one only in that case or by a collision (`SharedOnlyIfDegenerate`); and
  the loop ends for every digest that can be bumped to a scalar (`HashEnds`). The
  documents state another formula, the digest mod n of the index asked for; the
  run `subkey_formula_doc` shows the difference.
- **cli, derive-shared-address.** Payer and payee compute one key from different
  secrets. Correct means: they get the same one (`PartiesAgree`), and it is a
  key, not the payee's own (`OneTimeKey`).
- **cli, files.** `fs::write` is not atomic, `prove` reads two files that another
  command may rewrite in between, and `verify` takes the root from the bundle it
  is given. Correct means: a file that parses was written by one command
  (`WholeFiles`), a bundle is accepted exactly if its note is the batch's
  (`VerifiesOwnNote`), and one accepted against a root that was built shows a
  note of every list that has this root, at the claimed index where the list is
  that long (`AcceptedWasAnchored`).
- **simstudy.** The one program that drives `tea`, `anchor` and `proofstore`
  together, on sizes from the command line. Correct means: every sampled invoice
  verifies in both layers (`AllVerified`), no injected fault is missed
  (`FaultsDetected`), and the study reports (`StudyReports`) instead of
  panicking (`PanicOnlyIfSmall`).

The complete list of hazards, each at its line and with the properties that
cover it, is in `PROJECT.json`.

## 2. Modules

| Module | What it is |
|---|---|
| `BsvHash` | external primitive: double SHA-256 as an ideal hash |
| `MerkleTree` | operators shared by the loops of `merkle` |
| `BatchInclusion` | `anchor` over `merkle`, one action per turn of a loop |
| `MCBatchInclusion` | its instance for TLC |
| `MerkleTreeProofs` | induction; lemmas on hashing, vectors, levels and the calls of `merkle` |
| `BatchInclusionProofs` | the inductive invariant, the theorems and the refinement |
| `InclusionContract` | what the anchor layer promises, without trees |
| `BatchRefinement` | the refinement mapping from `BatchInclusion` to it |
| `MerkleCalls` | the calls of `merkle` as functions |
| `StoreCalls` | the calls of `proofstore` as functions |
| `StoreCallsProofs` | lemmas on what they compute |
| `ProofStore` | `proofstore`, one action per call, and the `query` command |
| `MCProofStore` | its instance for TLC |
| `ProofStoreProofs` | its inductive invariant and the theorems |
| `TeaNotes` | `tea` and the curve operations under it, as operators |
| `Disclosure` | `build-note`, `disclose` and `verify_disclosure` with a clock |
| `MCDisclosure` | its instance for TLC |
| `DisclosureProofs` | its inductive invariant and the theorems |
| `Pipeline` | `anchor`, `prove` and `verify` as processes over files |
| `MCPipeline` | its instance for TLC |
| `PipelineProofs` | its inductive invariant and the theorems |
| `SimStudy` | the adoption study over all the layers |
| `MCSimStudy` | its instance for TLC |
| `SimStudyProofs` | its inductive invariant and the theorems |
| `KeyDerivation` | `hash_to_scalar`, `derive_subkey`, `derive-shared-address` |
| `MCKeyDerivation` | its instance for TLC |
| `KeyDerivationProofs` | its inductive invariant and the theorems |

`MerkleCalls` extends `MerkleTree` with the calls of `merkle` as functions, which
`Pipeline` and `StoreCalls` use. `BatchInclusion` has the loops as steps and uses the
functions only to say, in `LoopsAreCalls`, that this is what the loops compute. `TeaNotes` uses the hash of `BsvHash`, so the `body_hash` of a note
is the leaf that the anchor layer puts into a tree; `Disclosure` extends
`TeaNotes`, and `SimStudy` composes `TeaNotes` with `StoreCalls`.

**`BsvHash`.** A byte string is a record with a length and its content, and the
digest of a string is a string of `HASH_LEN` bytes whose content is the string
it came from. So two strings have the same digest only if they are equal, and no
digest is part of its own input. That is the idealisation of a collision-free
hash on which everything below rests. What the model does keep is that leaves
and parents are hashed without a tag: the only difference between a note's body
and the input of `parent_hash` is its length.

**`MerkleTree`.** `Padded` is the push of the last node that the loops do when a
level is odd, `NextLevel` the chunks of two, `SiblingIndex` the prover's choice
of sibling, `Combine` the side the verifier puts the sibling on. Indices count
from 0 as in the code (`At`); TLA+ sequences stand for `Vec`. A sibling string
that does not decode is `NotHex` or `WrongLength`.

**`BatchInclusion`.** The local variables of the code's functions are the
module's variables:

| Code | Variables | Actions |
|---|---|---|
| `build_batch`, `merkle_root_of_leaves` | `notes`, `level`, `root` | `RefuseEmptyBatch`, `BuildBatch`, `RootLoop`, `RootDone` |
| `build_inclusion_proof`, `build_proof` | `idx`, `level`, `proof` | `RefuseIndex`, `StartProof`, `SiblingLoop`, `ProofDone` |
| the call of `verify_inclusion` | `body`, `claim`, `node` | `PresentProof`, `PresentClaim` |
| `depth_for` | `count`, `depth` | `DepthLoop`, `DepthOverflow` |
| `verify_proof` | `idx`, `node`, `pos`, `outcome` | `RefuseLength`, `StartClimb`, `Climb`, `RefuseSibling`, `CompareRoot` |

`tree` and `path` are observers: they record the levels and indices the loops
went through, and no guard reads them. (`PresentClaim` uses `tree` to enumerate the hashes
a claim may list.) A behaviour builds one batch and makes one verification,
of the honest proof with any body, or of a claim put together of any index, leaf
count and list of siblings out of the tree's nodes, hashes from elsewhere and strings that are
no hash. `count += 1` on the largest `usize` either wraps (a build without
overflow checks) or panics; both are actions.

**`InclusionContract`, `BatchRefinement`.** The contract knows a batch as a
sequence of bodies. Someone asks whether a body stands at an index, with the
proof that was built for that index or with anything else, and one step answers.
A built proof is decided by the body alone; any other claim may be refused in any
way, and may be accepted only if the body is in the batch, at the index if that
is one of the batch's. `BatchRefinement` maps `notes` to the batch, the arguments of
`verify_inclusion` to the question and `outcome` to the answer, so every turn of
the loops is a stutter, and the contract is the property `Implements`.

**`ProofStore`.** The calls themselves are in `StoreCalls`. Methods take `&self`, and `anchor` returns a new value, so a
call is one action and its answer stays in `result` until it is taken. The
client keeps the fragment of its last query in `fragment`, over any number of
later `anchor` calls. The loops of `merkle` appear as functions on levels here;
that their turns do the same is `LoopsAreCalls` of `BatchInclusion`. `Some(k)` is
refused above the depth, `None` is `DefaultK`. An empty population with
`DefaultK` computes 63 - 64 and so panics or goes on to `EmptyLeaves`, by build.
The answers of `verify_adversarial` and `verify_full_merkle` are the code's
error names. `Demo` is `cmd_query`, which makes up a population of n distinct
leaves, anchors it at the default level and checks three of them; it is a process
of its own and touches no other store.

**`TeaNotes`.** Keys, hashes and signatures are ideal: each is a record that
wraps what it was computed from, so it can be recomputed from that and from
nothing else. ECDH gives the set of the two secrets, which is what makes it the
same for both parties. That leaves out one thing the curve does: the negatives of
two keys have the same x coordinate, so the model's keys are assumed not to be
each other's negatives. Ids, labels and values are opaque and shorter than 256 bytes.

**`Disclosure`.** A draft is what `build-note` is called with. `BuildNote`
publishes its note; `Disclose` is `cmd_disclose` with its self-check at time 0,
called by a party with a key it can derive for a field `keyed` and with the note
id and label of a field `named`, which need not be the same, since the command
takes the key as an argument of its own. `Tick` advances the verifier's clock. `Verify`
shows the envelope file to `verify_disclosure`, as it is or with a part replaced:
one claim; the key and the value; the issuer's point; or the signature. The
commitment it is checked against is any published one. `origin` is an observer of
the fields that the envelope was made for and with. `verify_disclosure` does not
get a note, only a commitment, and checks neither issuer nor verifier; the model
adds no such check.

| Code | Variables | Actions |
|---|---|---|
| `cmd_build_note` | `notes` | `BuildNote` |
| `cmd_disclose`, `issue_disclosure` | `envelope`, `origin` | `Disclose` |
| the `now_unix` argument | `now` | `Tick` |
| `verify_disclosure` | `result` | `Verify`, `TakeResult` |

**`Pipeline`.** Processes run `anchor` or `prove` over three files. Each read is a step
and each write two, since `fs::write` truncates and then writes; a process may be
killed at any of them, and one killed in the write may leave a part
(`Garbled`). A file that another process has written to since it was truncated
may keep the end of what was there (`Overlaid`). `verify` only reads, so it is one
step. Meanwhile the notes file is replaced, as `build-note` and whoever collects
its output would, and one string of the batch file may be changed by hand to
another hash, to one of another length or to no hexadecimal at all.

| Code | Variables | Actions |
|---|---|---|
| `cmd_anchor` | `file`, `proc`, `result` | `AnchorRefused`, `AnchorRead` |
| `cmd_prove` | the same | `ProveRefusedBatch`, `ProveReadBatch`, `ProveRefused`, `ProveReadNotes` |
| `cmd_verify` | `file`, `result` | `Verify` |
| `fs::write` | `file`, `proc` | `Truncate`, `Write`, `Crash` |
| users and editors | `file` | `ReplaceNotes`, `EditBatch` |

A process that returns leaves its answer in `result` until it is noticed; the
other commands' answers wait. `anchored` is an observer of the lists a batch was
built of, and stands for the roots that went into a transaction. The code never
compares a bundle's root with the chain; so `AcceptedWasAnchored` speaks of bundles
whose root is one of these, which is the comparison an auditor has to make. After an
edit of the batch file it says no more than that the note belongs to each list that
has this root: give the batch A, B, C, D the root of A, B, C, and the last note, whose
proof ends at the old root, is refused; but the index of an accepted bundle may be past
the end of the list whose root was put in, as in the run `leaf_index_doc`. Without an
edit there is such a list, and the index is within it.

**`SimStudy`.** `run` as one sequential process: population, batch and inclusion
loop, store and selective loop, faults, report, each loop an action per turn. An
invoice has the two fields that differ between invoices; the net amount is one of
a small set instead of the next number of a seeded generator. `expect` and
indexing that fail end in `pc = "panic"`. The other constants of the report
(`origin_falsehood_detected`, the payment count) are left out.

**`KeyDerivation`.** The group is the integers mod N with the point k*G written k,
so points are added as in the code and 0 is the identity. A hash is an oracle:
its word is chosen when an input is first asked for and kept, so a behaviour
ranges over all functions, collisions included. `hash_to_scalar` goes through the
words that share all but the last byte; `derive_subkey` through indices.

| Code | Variables | Actions |
|---|---|---|
| `derive_subkey` | `pc`, `call`, `idx`, `tries`, `subkeys` | `Derive`, `Tweak`, `NextIndex` |
| `hash_to_scalar` | `wide`, `digest` | `Hash`, `Bump` |
| `cmd_derive_shared_address` | `okm`, `addresses` | `RefuseInput`, `DeriveAddress` |

`Secret` is the product of both keys, which the code hashes; the address is the
version byte and the key it encodes. A sum that is the identity makes
`to_compressed` panic, because its encoding is one byte long. The order of the keys
printed, by their encodings in the code, is that of the numbers.

## 3. Runs

| Run | What it asks | Result |
|---|---|---|
| `batch_inclusion` | completeness, soundness, position, height, the inductive invariant and termination of the loops; that they compute the functions of `MerkleCalls` and implement `InclusionContract` | holds |
| `leaf_index_doc` | the doc of `verify_inclusion`: the body is in the batch *at* `proof.leaf_index` | violated |
| `proof_store` | queries verify, the verifiers agree, only anchored leaves pass, labels cover the leaves, the `query` command succeeds | holds |
| `shard_length_doc` | the doc of `StoredProof`: the shard reaches from the leaf to level k | violated |
| `disclosure` | committed value, signed claims, honest envelopes, tags, note bodies, the inductive invariant | holds |
| `opens_one_field_doc` | the doc of `tea`: an envelope reveals nothing about any other field or note | violated |
| `key_as_signed_doc` | the doc of `disclosure`: the authorisation binds the hash of the key | violated |
| `pipeline` | what accepted bundles, files and roots stand for under interleaving, crashes and edits | holds |
| `anchored_root_doc` | docs/ARCHITECTURE.md:25: no verifier accepts what does not end in an anchored root | violated |
| `sim_study` | every sample verifies, every fault is detected, the study reports | holds |
| `key_derivation` | what the retry loops make of a digest and an index, agreement of payer and payee, termination of `hash_to_scalar` | holds |
| `subkey_formula_doc` | docs/ARCHITECTURE.md:32 and the docs of `hash_to_scalar` and `derive_subkey`: the tweak is the digest of the index asked for, mod n | violated |

`batch_inclusion` uses six batches: none, one and two notes, three with and
without a repeated note, and five, whose tree is odd at the leaves and at the
level above. Three bodies, indices up to 6 (past the largest batch), leaf counts
0 to 5 and the largest `usize`, and up to two claimed siblings
(`MaxSiblings`). Two siblings are what it takes to prove inclusion in a batch
of three, to start one level up in a batch of five, and to state one sibling too
many or too few for every count. `UsizeMod` is 16, so that the largest number
is 15: it only matters that no batch is that long. Claims with more siblings are
covered by the proofs.

`proof_store` uses populations of 0, 1, 2, 3 and 5 leaves with a repeated key and
repeated leaves, levels 0, 2, 3 and 4 (one above the highest root) and the
default, which is 1 for five leaves,
and made-up shards of up to `MaxShard` = 2 entries over every node of the
tree. The batch may be re-anchored with any level between a query and its check. The
`query` command is run for 0, 1, 2, 3, 5, 6, 7 and 9 leaves (`DemoSizes`): every
power of two up to 8 is passed, with odd levels below and above level k.

`disclosure` uses four drafts between three parties: an invoice with two labels,
the payment of it under the same note id and under another, and a note with a
third party that has one label twice. Two values, two scopes (interchangeable, hence
`SYMMETRY`), two expiries and a clock that stops at `MaxTime` = 1: an envelope
that expires at 0 and one that does not, each before and after. There is one
envelope file, overwritten by each `disclose`; a verification concerns one
envelope, so more files would add no case. `Scopes` stands for verifier,
engagement and purpose together, which the code treats alike.

`pipeline` has two processes (interchangeable), at most three runs of `anchor` and
`prove` (`MaxCommands`), one crash and one changed string: an `anchor` for `prove`
to read, a second one to get between its two reads or into its write, and one
accident each. The notes files are: none, two notes in both orders (one
index, two notes), three, the same with the last one again (one root, two lists), and one
with a body that does not decode. Index 1 lies within
every batch, index 3 within the longest only, where it is past the end of the other list
with the same root.

`sim_study` has none to five invoices, samples of none, two and more than
there are, two counterparties (so that a counterparty comes twice), and two
amounts (so that amounts repeat).

`key_derivation` has N = 5, words 0 to 11 with a last byte of 0 to 3, so that the
words 4 to 7 hold one scalar, 0 to 3 three and 8 to 11 none; four indices,
of which three are asked for, and two tries; two masters; and two calls, which is what it takes to compare
results. Payer and payee, a party that is its own counterparty, keys that are none, two
contexts, and every salt rule and network, known or not, are tried.

The six violated runs are recorded as findings. In all of them the code does
what it does consistently; the text says more:

- An index past the batch is accepted, since only its low bits are read.
  `AcceptedAtPosition` is what does hold: an index *within* the batch names the right note.
- A shard of another length is accepted, e.g. an empty one that shows a label
  as if it were a leaf. For the hash of a payload this is harmless
  (`AcceptedIsAnchored`); for a caller that passes an arbitrary hash as the leaf
  it is not.
- A field key depends on the two parties, the note id and the label. Fields
  that have all three in common, in one note or in an invoice and a payment
  with the same id, have one key, and an envelope for one opens the other.
- The hash of the key is signed but never compared with the key that comes with
  the envelope, so the key can be replaced by the one the commitment needs.
  `ShowsCommittedValue` is what holds in spite of that.
- `verify` ends its climb at the root in the bundle, and no command reads the chain,
  so a bundle is accepted whose root no `anchor` run built. One string of the
  batch file, its root, changed to that of another list is enough: `prove` copies
  it, and for a note of that list with the same siblings `verify` says OK. What
  holds for a bundle whose root was built is `AcceptedWasAnchored`. The instance
  (`MCNotesFilesForRoot`) has two lists that differ in the last note, one process,
  an `anchor` and a `prove` run, one edit and no crash.
- The tweak of a sub-key is not the digest mod n. `hash_to_scalar` bumps the last
  byte of a digest that is 0 or at least n until it has a scalar: with N = 5 and a last
  byte of 0 to 3, the word 0 becomes 1 where the formula has 0, and 5, 6 and 7 become 4
  where it has 0, 1 and 2. And where the sum is 0, `derive_subkey` takes
  the digest of the next index, yet returns the index it was asked for. `SubkeyOfIndex`
  is what the code does compute. For SHA-256 and the order of the curve either
  case has a probability of about 2^-128, as the comments in the code say.

Three more texts say more than the code does, without a run of their own:

- The doc of `query` (proofstore/src/lib.rs:150) says that nothing about any other
  leaf is revealed. The first sibling of a fragment is the hash of the
  neighbouring leaf.
- The comment at cli/src/main.rs:716 calls the keys that `derive-shared-address` prints
  as A and B the two master public keys. They are the remote and the payee's; on
  the payer's side these are one key. The address does not depend on them.
- docs/AUDIT.md:41 gives the number of labels at level k as N / 2^k. Odd levels
  are padded, so it is the next integer where 2^k does not divide N: three
  labels for five leaves at level 1. `LabelsCoverLeaves` says which leaves each covers.

**Fairness.** `FairSpec` adds `WF_vars(Next)` to `BatchInclusion` and to
`SimStudy`: each is one sequential process whose loops never wait for anything.
`Termination` and `StudyReports` need it. `FairSpec` of `KeyDerivation` is weak
fairness of the steps within a call of `derive_subkey`, not of its being called;
`HashEnds` needs it. It says of which digests the loop ends: those that share
their upper bytes with a scalar. For the others `Bump` goes round for ever, which
the comment in the code puts at a probability of about 2^-128; no property claims
otherwise. The other modules promise nothing that must eventually happen, so they
state no fairness.

**Deadlock** is checked for `ProofStore`, `Disclosure` and `Pipeline`, which never
stop (notes can always be replaced). It is not checked for `BatchInclusion` and `SimStudy`, whose
programs end, as `Termination` and `StudyReports` say, nor for `KeyDerivation`,
which makes `MaxCalls` calls.

## 4. Proofs

`BatchInclusionProofs` proves, for every set of bodies, every batch, every index,
leaf count and list of siblings:

| Theorem | Statement |
|---|---|
| `TypeCorrect` | `Spec => []TypeOK` |
| `Invariant` | `Spec => []IInv` |
| `HonestProofAccepted` | `Spec => []Completeness` |
| `AcceptedNoteIsAnchored` | `Spec => []AcceptedIsAnchored` |
| `AcceptedNoteAtPosition` | `Spec => []AcceptedAtPosition` |
| `AcceptedClaimHasFullHeight` | `Spec => []AcceptedFullHeight` |
| `LoopsComputeCalls` | `Spec => []LoopsAreCalls` |

Assumed, as named `ASSUME`s which TLC evaluates on the instances:

- no note body is as long as two digests (`build_note_body` makes 133 + 32 n
  bytes, which is never 64);
- a batch has fewer notes than `usize` can count, less one;
- indices and counts are `usize` values.

`MaxSiblings` is any natural number, so the theorems hold for claims of
every length. The ideal hash of `BsvHash` is a definition, not an assumption.

The four properties speak of the end of a call and are not inductive. `IInv` adds what the loops maintain:

1. `TreeInv`, `RootInv`: the recorded levels are the ones that `NextLevel`
   prescribes, only the last has one node, and that node is `root`.
2. `ProofInv`: entry k of the honest proof is the sibling, in the padded level
   k, of the node on the path.
3. `DepthInv`: for the honest leaf count, `depth_for` walks the lengths of the
   levels, so it ends at the tree's height.
4. `ClimbInv`: seen from the root backwards. If a node that the climb reaches is in the
   tree, then so was the node one level below (`CombineDetermines`, since a
   parent determines both children), down to the leaf the climb began with; and
   if its index is in range and the node stands there, the leaf stands at the claimed index.
5. `CallInv`: what is left of a call is the same call on what its loop has come to. This
   is for `LoopsAreCalls`, which `IInv` contains: the root is `MerkleRoot`, the siblings
   are those of `BuildProof` and the verdict is that of `VerifyProof`, except for a claim
   whose leaf count is the largest `usize`, on which `depth_for` may wrap or panic.
   It is what allows the other modules to take a call for one step.

A climb with fewer siblings than levels would have to begin at an inner node,
and one with more below the leaves. The first cannot be, because an inner node
is the digest of 64 bytes and a body is not 64 bytes long (`LeafIsNoParent`); the
second cannot, because a leaf is not a parent either. So an accepted climb has the height of the
tree and begins at a leaf. That argument is the case split of
`ComparisonIsRight`; `IInv`'s preservation has one lemma per part and one step
per action.

The same module proves `Refinement == Spec => Implements`, from these
assumptions and the invariant: `Init` implies the
contract's; the loops stutter; `RefuseEmptyBatch` and `RefuseIndex` refuse;
`PresentProof` and `PresentClaim` ask; and each action that returns answers. That the answer
is permitted is `Completeness` for a built proof and, for any other claim,
`AcceptedIsAnchored` and `AcceptedAtPosition` in the state after the step.

`DisclosureProofs` proves, for every set of drafts, values, scopes and times:

| Theorem | Statement |
|---|---|
| `TypeCorrect` | `Spec => []TypeOK` |
| `Invariant` | `Spec => []IInv` |
| `CommittedValueShown` | `Spec => []ShowsCommittedValue` |
| `AcceptedIsAsSigned` | `Spec => []AcceptedAsSigned` |
| `HonestEnvelopeAccepted` | `Spec => []HonestAccepted` |
| `PaymentsLinkInvoices` | `Spec => []PaymentLinksInvoice` |
| `LeafBindsNote` | `Spec => []BodyBindsNote` |

Assumed: drafts are records of their parts with fewer than 256 fields (the
assertion in `build_note_body`), and times are natural numbers. `IInv` says that
each published note is the one its draft gives (`NotesInv`), that the envelope is
one that a party to the note of its key issued (`EnvelopeInv`), and that a verdict is that
of `verify_disclosure` on something that can be shown (`ResultInv`). The
properties follow from it by what the ideal operators determine: a commitment its
key, label and value (`CommitmentBinds`), a signed prehash the claims
(`PrehashBinds`), and a field key the id and label, on both sides of the pair (`KeyOfParty`).

**The calls as functions.** Where `BatchInclusion` has the loops of `merkle` as
steps, `Pipeline`, `ProofStore` and `SimStudy` use the functions of `MerkleCalls`
and `StoreCalls`, most of them recursive: `DepthFor`, `Turns` (the levels),
`IndexAbove` (the path), `ClimbedNodes` (the climb), `Raised` (the nodes between
leaf and level k). What such a function computes for every input takes induction over
numbers. Since no prover here takes an operator as an argument of a theorem, the induction is
stated of a *set* of numbers (`Induction`, `InductionUpTo`, `InductionDownFrom`,
`StrongInduction`), and the instances name the set of those numbers for which the claim holds.
They rest on `LeastNumber`, which comes from the well-foundedness of < on Nat.
The second ingredient is that a recursive function exists, without which nothing follows
from its definition. For numbers this is `RecursiveFunction`: base cases in a set B and, for
any other n, the value at a smaller `prior[n]`. Functions with hashes or levels as values are
built up one argument at a time. The `...Step` lemmas (`IndexAboveStep`, `DepthForStep`,
`Log2Step`; `TurnsStep`, `ClimbedNodesStep`, `RaisedStep`) state the defining
equations that this gives. From them:

| Lemma | What it says for every batch |
|---|---|
| `Levels`, `RootOnTop` | `DepthFor` turns lead from the leaves to one node, `MerkleRoot` |
| `ProofSiblings`, `ClimbCompletes`, `VerifyOwnProof` | the proof of a leaf climbs to the root and is accepted |
| `ClimbDetermines`, `ClimbStartsAtLeaf`, `VerifyNames` | what climbs to the root and is no parent is a leaf, at the claimed index if there is one |
| `RootNamesLeaves` | two batches with one root have the same notes, and the same at each common index |
| `LabelsAreLevel`, `IndicesOfLabels` | the published labels are level k, each with the leaves below it |
| `Log2WithinDepth` | the default level is one that `anchor` allows |
| `QueryFragment`, `AdversarialOwn`, `FullMerkleOwn` | the answer to a query passes both verifiers |
| `AdversarialSound` | no fragment passes with anything but a leaf |

`PipelineProofs` proves, for any number of processes, commands, crashes and edits:

| Theorem | Statement |
|---|---|
| `Invariant` | `Spec => []IInv` |
| `TypeCorrect` | `Spec => []TypeOK` |
| `FilesWhole` | `Spec => []WholeFiles` |
| `AcceptedAnchored` | `Spec => []AcceptedWasAnchored` |
| `OwnNoteVerifies` | `Spec => []VerifiesOwnNote` |
| `NoPanic` | `Spec => []PanicOnlyIfEdited` |
| `RootsNameNotes` | `Spec => []RootNamesNotes` |

Assumed: no note body is as long as two digests, notes files are lists of bodies and
strings that do not decode, and the bounds are numbers.

`WholeFiles` alone is not inductive: a process writes what it read before.
`Provenance` adds that what each has read or is about to write comes from one
list of notes. Both end with the first edit. `Shaped` is what is left then: a batch that
parses still is a non-empty list of digests and of strings that are none, and a
bundle was made by `prove` of such a batch, of notes and of an index within both,
and its leaves decode. It also remembers, in `Answered`, that the answer waiting to be
noticed is the one to the bundle that was read, for the file may have been rewritten since.
The four properties about verification follow from `IInv` in any state, by
`VerifyOwnProof`, `VerifyNames` and `RootNamesLeaves`.

`ProofStoreProofs` proves, for every set of keys, payloads and populations, every
level asked for and every fragment shown:

| Theorem | Statement |
|---|---|
| `Invariant` | `Spec => []IInv` |
| `TypeCorrect` | `Spec => []TypeOK` |
| `QueriesVerify` | `Spec => []QueryVerifies` |
| `VerificationsAgree` | `Spec => []VerifiersAgree` |
| `FragmentsSound` | `Spec => []AcceptedIsAnchored` |
| `LabelsCover` | `Spec => []LabelsCoverLeaves` |
| `DemoVerifies` | `Spec => []DemoQueriesVerify` |

Assumed: no payload is as long as two digests, populations are lists of keys
and hashes of payloads, and levels, indices and sizes are numbers. The three invariants
that are conjuncts of `IInv` are inductive together: `TypeOK` says what the store
is (root and labels are those of the leaves, every key's position is a leaf's),
and the other two are about the answer that has not been taken yet, which nothing
changes in the meantime. The rest is true of any store.

`SimStudyProofs` proves, for every size of population and samples, every choice of
counterparties and every amount:

| Theorem | Statement |
|---|---|
| `Invariant` | `Spec => []IInv` |
| `TypeCorrect` | `Spec => []TypeOK` |
| `CleanPartVerifies` | `Spec => []AllVerified` |
| `NoFaultMissed` | `Spec => []FaultsDetected` |
| `PanicNeedsFew` | `Spec => []PanicOnlyIfSmall` |

Assumed: the sizes are numbers and there is a counterparty. The invoices themselves are
made by the model, so what the other modules assume of notes is proved here: the body of an
invoice is 197 bytes long and so not 64 (`InvoiceLeaf`), and the bodies of two
invoices differ, as the sub-key of the issuer is that of the invoice's number.
That is what makes a proof for the wrong index detectable. `IInv` is
the conjunction of the four invariants: the counts are right because each part of
the study leaves the next the batch and the store that `TypeOK` describes.

`KeyDerivationProofs` proves, for every order, word size, retry count and hash:

| Theorem | Statement |
|---|---|
| `Invariant` | `Spec => []IInv` |
| `TypeCorrect` | `Spec => []TypeOK` |
| `SubkeysByRetries` | `Spec => []SubkeyOfIndex` |
| `SubkeysShared` | `Spec => []SharedOnlyIfDegenerate` |
| `Agreement` | `Spec => []PartiesAgree` |
| `PaymentKeyFresh` | `Spec => []OneTimeKey` |

Assumed: N is greater than 1 and has no zero divisors (the order of the curve is
prime), there are more words than N, and the last byte divides them evenly.
`CallInv` is the loop invariant of both retry loops: every word that
`hash_to_scalar` has left behind is no scalar, and every index that
`derive_subkey` has left behind is degenerate. `AddressInv` says that each result is
what the hash, as known, makes of the arguments; agreement then is that the
secret, the salt and so the input of HKDF are the same on both sides.

Only model-checked: the liveness properties `Termination`, `StudyReports` and `HashEnds`,
since TLAPS does not reach liveness under fairness; and the six violated runs, which are
about single behaviours. Every other property of a run is a theorem. No module declares a
`RECURSIVE` operator.

## 5. Not modelled

- JSON and hexadecimal text, except that files may not parse and strings may not
  decode.
- The transaction that carries the root, and the chain: no code reads either. A
  bundle states its own root; comparing that with the chain is left to whoever
  runs `verify`.
- `selftest`, `reproduce` and `worked-example`: fixed inputs through the calls that
  are modelled, printing as they go; they keep no state.
- Coordinates, ECDSA, HKDF and the encodings of points: the `k256`, `hmac` and
  `sha2` crates. `TeaNotes` has their ideal form, `KeyDerivation` the arithmetic of
  keys mod N.
- The bytes of claims and of the inputs of `field_key` and `commit_field`.
  `canonical_bytes` writes the hash of the key without its length, so claims whose hash is
  not 32 bytes long may have the bytes of claims that differ in several places. The
  model compares claims that differ in one place, where a tuple tells apart what
  the bytes do. `field_key` and `commit_field` keep one byte of a length; ids and
  labels are taken to be shorter than 256 bytes.
- `flip_hash`, a display orientation that nothing in the workspace stores, and
  `verify_note`, an ECDSA verification that only tests and the selftest call.
- Crashes inside `build-note` and `disclose`: they write one file that nothing
  reads back but a person, or whoever collects notes into a notes file. In
  `Pipeline` a notes file is missing or a list, of which a body may not decode; one
  that is empty or cut short would not parse, and the commands fail on it as
  on a missing one.
- The assertions of `push_short` and `push_short_u16` (disclosure/src/lib.rs:103 and
  109), a panic on a part of a claim longer than 255 bytes, or than 65535 for the
  purpose: the parts of claims are opaque here and taken to be shorter.
- In `simstudy`, the seeded generator, the payment count and the report's
  constants.

## 6. What is left

1. The byte layouts above, over a small alphabet and length byte, with the question
   which of their inputs the bytes determine.
2. `disclose` and `build-note` as processes of `Pipeline`, with the notes file put together
   from single note files.
