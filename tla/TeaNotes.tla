------------------------------ MODULE TeaNotes ------------------------------
(***************************************************************************)
(* The note protocol (crates/tea) over the curve (crates/bsvcurve), and    *)
(* the build-note command that puts a note file together.                  *)
(*                                                                         *)
(* Keys, hashes and signatures are ideal, in the way of BsvHash: each      *)
(* wraps its input.  A secret key stands for itself; note ids, labels and  *)
(* values are opaque and shorter than the 256 bytes at which the length    *)
(* bytes of field_key and commit_field would wrap.  No key is another's    *)
(* negative, whose point has the same x coordinate.                        *)
(***************************************************************************)
EXTENDS BsvHash, Sequences

MulBase(sk) == [point |-> sk]

\* Mutation: the two keys hashed in the order they are passed.
OrderedSharedX(sk, pk) == <<sk, pk.point>>

\* ECDH: both parties get the same x coordinate.
EcdhSharedX(sk, pk) == {sk, pk.point}

HkdfExtract(salt, ikm) == [extract |-> <<salt, ikm>>]
HkdfExpand(prk, info) == [expand |-> <<prk, info>>]
Sha256(parts) == [sha256 |-> parts]

Sign(sk, prehash) == [signer |-> sk, over |-> prehash]
EcdsaVerify(pk, prehash, sig) == sig = Sign(pk.point, prehash)

-----------------------------------------------------------------------------
KeyMaterial(sk, pk) ==
  LET k_master == HkdfExtract("TEA-v1", EcdhSharedX(sk, pk))
  IN  [k_master |-> k_master,
       l_inv |-> HkdfExpand(k_master, <<"inv-tag">>),
       l_pay |-> HkdfExpand(k_master, <<"pay-tag">>)]

\* Mutation: the note id is left out of the info.
FieldKeyPerLabel(k_master, note_id, label) == HkdfExpand(k_master, <<"commit", label>>)

FieldKey(k_master, note_id, label) == HkdfExpand(k_master, <<"commit", note_id, label>>)

\* Mutation: only key and value are hashed.
CommitValue(k_field, label, value) == Sha256(<<k_field, value>>)

CommitField(k_field, label, value) == Sha256(<<k_field, label, value>>)

CommitOne(k_master, note_id, field) ==
  CommitField(FieldKey(k_master, note_id, field.label), field.label, field.value)

ZeroTag == [zeros |-> HASH_LEN]

\* Mutation: a payment carries its own tag second.
SwappedTags(kind, mat) ==
  IF kind = "invoice" THEN <<mat.l_inv, ZeroTag>> ELSE <<mat.l_inv, mat.l_pay>>

\* The primary and the secondary tag: a payment points back at the invoice.
NoteTags(kind, mat) ==
  IF kind = "invoice" THEN <<mat.l_inv, ZeroTag>> ELSE <<mat.l_pay, mat.l_inv>>

BuildNoteBody(kind, tags, issuer_pk, counterparty_pk, commitments) ==
  NoteBody(<<kind, tags, issuer_pk, counterparty_pk, commitments>>, Len(commitments))

\* Mutation: fields collected by label, so that a label that comes again
\* gives no commitment of its own.
CommitmentsByLabel(mat, note_id, fields) ==
  LET First(field) == \A i, j \in DOMAIN fields :
        fields[i].label = field.label /\ fields[j] = field => j <= i
      kept == SelectSeq(fields, First)
  IN  [i \in DOMAIN kept |-> CommitOne(mat.k_master, note_id, kept[i])]

Commitments(mat, note_id, fields) ==
  [i \in DOMAIN fields |-> CommitOne(mat.k_master, note_id, fields[i])]

(***************************************************************************)
(* cmd_build_note: the SignedNote for a draft.  It shows the labels and    *)
(* the commitments; the values stay with the parties.                      *)
(***************************************************************************)
SignedNote(draft) ==
  LET issuer_pk == MulBase(draft.issuer)
      counterparty_pk == MulBase(draft.counterparty)
      mat == KeyMaterial(draft.issuer, counterparty_pk)
      tags == NoteTags(draft.kind, mat)
      commitments == Commitments(mat, draft.note_id, draft.fields)
      body == BuildNoteBody(draft.kind, tags, issuer_pk, counterparty_pk, commitments)
  IN  [kind |-> draft.kind, note_id |-> draft.note_id,
       primary_tag |-> tags[1], secondary_tag |-> tags[2],
       issuer_pk |-> issuer_pk, counterparty_pk |-> counterparty_pk,
       labels |-> [i \in DOMAIN draft.fields |-> draft.fields[i].label],
       commitments |-> commitments, body |-> body,
       body_hash |-> DoubleSha256(body),
       signature |-> Sign(draft.issuer, DoubleSha256(body))]
=============================================================================
