----------------------------- MODULE Disclosure -----------------------------
(***************************************************************************)
(* Scoped disclosure (crates/disclosure) of fields of notes (crates/tea),  *)
(* as the build-note and disclose commands do it.  Parties publish notes;  *)
(* a party issues an envelope with one field key; time passes; a verifier  *)
(* is shown the envelope file, or the file with one of its parts replaced, *)
(* together with a commitment out of a published note.                     *)
(*                                                                         *)
(* disclose takes the key as an argument of its own, so the key may belong *)
(* to another field, of the same note or not, than the claims name.        *)
(*                                                                         *)
(* One claim is replaced at a time.  canonical_bytes writes no length for  *)
(* the hash of the key, so a tuple stands for its bytes only as long as    *)
(* two claims that are compared differ in one part.                        *)
(***************************************************************************)
EXTENDS TeaNotes

CONSTANTS
  Drafts,    \* what build-note may be asked for
  Values,    \* field values
  Scopes,    \* verifier, engagement and purpose, as one
  Expiries,  \* expiry times
  MaxTime    \* the clock stops here (bound of the model)

ASSUME DraftsAssumption ==
  \A d \in Drafts :
    /\ d = [issuer |-> d.issuer, counterparty |-> d.counterparty,
            kind |-> d.kind, note_id |-> d.note_id, fields |-> d.fields]
    /\ d.kind \in {"invoice", "payment"}
    /\ Len(d.fields) < 256
    /\ d.fields \in Seq({[label |-> d.fields[i].label, value |-> d.fields[i].value]
                           : i \in DOMAIN d.fields})
ASSUME TimeAssumption == MaxTime \in Nat /\ Expiries \subseteq Nat

VARIABLES
  now,       \* the verifier's clock
  notes,     \* the published note of each draft built so far
  envelope,  \* the envelope file, or NoEnvelope
  origin,    \* observer: the fields its claims and its key were taken from
  result     \* what the last verification returned, or NoResult

vars == <<now, notes, envelope, origin, result>>

\* A string where a file should have hexadecimal of a certain length, the bytes
\* of no text, and those of a nonce that nobody chose.
NotHex == [text |-> "not hexadecimal"]
NoBytes == [text |-> ""]
OtherNonce == [text |-> "other"]

NoEnvelope == [claims |-> "none"]
NoResult == [returned |-> "none"]

-----------------------------------------------------------------------------
(* DisclosureClaims and its encoding *)

Claims(note_id, field_label, k_field_hash, scope, expiry, nonce) ==
  [note_id |-> note_id, field_label |-> field_label, k_field_hash |-> k_field_hash,
   scope |-> scope, expiry |-> expiry, nonce |-> nonce]

\* hex::decode(..).unwrap_or_default()
Decoded(text) == IF text = NotHex THEN NoBytes ELSE text

\* Mutation: the expiry is not among the signed bytes.
CanonicalBytesNoExpiry(c) ==
  <<c.note_id, c.field_label, Decoded(c.k_field_hash), c.scope, Decoded(c.nonce)>>

CanonicalBytes(c) ==
  <<c.note_id, c.field_label, Decoded(c.k_field_hash), c.scope, c.expiry, Decoded(c.nonce)>>

Prehash(c) == Sha256(<<Sha256(CanonicalBytes(c))>>)

IssueDisclosure(sk, note_id, label, k_field, value, scope, expiry, nonce) ==
  LET claims == Claims(note_id, label, Sha256(<<k_field>>), scope, expiry, nonce)
  IN  [claims |-> claims, signature |-> Sign(sk, Prehash(claims)),
       k_field |-> k_field, disclosed_value |-> value, issuer_pk |-> MulBase(sk)]

VerifyDisclosure(e, expected, now_unix) ==
  IF now_unix > e.claims.expiry THEN "Expired"
  ELSE IF NotHex \in {e.issuer_pk, e.signature} THEN "BadHex"
  ELSE IF ~EcdsaVerify(e.issuer_pk, Prehash(e.claims), e.signature) THEN "Curve"
  ELSE IF e.k_field = NotHex THEN "BadHex"
  ELSE IF CommitField(e.k_field, e.claims.field_label, e.disclosed_value) # expected
       THEN "CommitmentMismatch"
  ELSE "Ok"

-----------------------------------------------------------------------------
Init ==
  /\ now = 0 /\ notes = [d \in {} |-> SignedNote(d)]
  /\ envelope = NoEnvelope /\ origin = <<>> /\ result = NoResult

Tick ==
  /\ result = NoResult /\ now < MaxTime
  /\ now' = now + 1
  /\ UNCHANGED <<notes, envelope, origin, result>>

\* Mutation: the two keys of a draft the other way round.
BuildNoteSwapped(d) ==
  /\ result = NoResult /\ d \notin DOMAIN notes
  /\ notes' = [x \in DOMAIN notes \cup {d} |->
       IF x = d THEN SignedNote([d EXCEPT !.issuer = d.counterparty, !.counterparty = d.issuer])
       ELSE notes[x]]
  /\ UNCHANGED <<now, envelope, origin, result>>

\* cmd_build_note, to a file of the draft's own.
BuildNote(d) ==
  /\ result = NoResult /\ d \notin DOMAIN notes
  /\ notes' = [x \in DOMAIN notes \cup {d} |-> IF x = d THEN SignedNote(d) ELSE notes[x]]
  /\ UNCHANGED <<now, envelope, origin, result>>

\* The key of a field of d, as either party to d derives it.
KeyOf(sk, d, i) ==
  LET other == IF sk = d.issuer THEN d.counterparty ELSE d.issuer
  IN  FieldKey(KeyMaterial(sk, MulBase(other)).k_master, d.note_id, d.fields[i].label)

Fields == UNION {{<<d, i>> : i \in DOMAIN d.fields} : d \in DOMAIN notes}

\* cmd_disclose, its self-check at time 0 included.  The claims name one field;
\* the key, an argument of its own, is that of a field the party can derive.
Disclose(sk, named, keyed, value, scope, expiry) ==
  LET d == named[1]
      label == d.fields[named[2]].label
      k_field == KeyOf(sk, keyed[1], keyed[2])
      e == IssueDisclosure(sk, d.note_id, label, k_field, value, scope, expiry, NoBytes)
  IN  /\ result = NoResult
      /\ sk \in {keyed[1].issuer, keyed[1].counterparty}
      /\ VerifyDisclosure(e, CommitField(k_field, label, value), 0) = "Ok"
      /\ envelope' = e
      /\ origin' = <<named, keyed>>
      /\ UNCHANGED <<now, notes, result>>

FieldKeys == {NotHex} \cup
  {KeyOf(f[1].issuer, f[1], f[2]) : f \in Fields}

\* One claim replaced by what another envelope or a text editor would put.
EditedClaims ==
  LET c == envelope.claims IN
  {[c EXCEPT !.note_id = f[1].note_id] : f \in Fields}
  \cup {[c EXCEPT !.field_label = f[1].fields[f[2]].label] : f \in Fields}
  \cup {[c EXCEPT !.k_field_hash = h] : h \in {NotHex} \cup {Sha256(<<k>>) : k \in FieldKeys}}
  \cup {[c EXCEPT !.scope = s] : s \in Scopes}
  \cup {[c EXCEPT !.expiry = t] : t \in Expiries}
  \cup {[c EXCEPT !.nonce = n] : n \in {NotHex, OtherNonce}}

\* The file itself, or with the claims, the released key and value, the
\* issuer's point or the signature replaced.
Shown ==
  {[envelope EXCEPT !.claims = c] : c \in EditedClaims}
  \cup {[envelope EXCEPT !.k_field = r[1], !.disclosed_value = r[2]] : r \in FieldKeys \X Values}
  \cup {[envelope EXCEPT !.issuer_pk = pk] : pk \in {NotHex} \cup {MulBase(d.issuer) : d \in DOMAIN notes}}
  \cup {[envelope EXCEPT !.signature = NotHex]}

Verify(shown, field) ==
  /\ result = NoResult
  /\ result' = [shown |-> shown, field |-> field,
                returned |-> VerifyDisclosure(shown, notes[field[1]].commitments[field[2]], now)]
  /\ UNCHANGED <<now, notes, envelope, origin>>

TakeResult ==
  /\ result # NoResult
  /\ result' = NoResult
  /\ UNCHANGED <<now, notes, envelope, origin>>

Next ==
  \/ Tick
  \/ \E d \in Drafts : BuildNote(d)
  \/ \E named, keyed \in Fields, value \in Values, scope \in Scopes, expiry \in Expiries :
       \E sk \in {keyed[1].issuer, keyed[1].counterparty} :
         Disclose(sk, named, keyed, value, scope, expiry)
  \/ /\ envelope # NoEnvelope
     /\ \E shown \in Shown, field \in Fields : Verify(shown, field)
  \/ TakeResult

Spec == Init /\ [][Next]_vars

-----------------------------------------------------------------------------
(* Properties *)

TypeOK ==
  /\ now \in 0 .. MaxTime
  /\ DOMAIN notes \subseteq Drafts
  /\ \A d \in DOMAIN notes : DOMAIN notes[d].commitments = DOMAIN d.fields
  /\ result.returned \in {"none", "Ok", "Expired", "BadHex", "Curve", "CommitmentMismatch"}

Accepted == result.returned = "Ok"

\* What verify_disclosure accepts against a commitment is what its note's
\* parties committed to there, value and label, whatever part of the envelope
\* was replaced and whichever field its key was taken from.
ShowsCommittedValue ==
  Accepted => LET field == result.field[1].fields[result.field[2]] IN
    /\ field.label = result.shown.claims.field_label
    /\ field.value = result.shown.disclosed_value

\* Scope, expiry, note and label of an accepted envelope are those its issuer
\* signed, and the time that was signed has not passed.  A nonce that is not
\* hexadecimal counts as the empty one.
AcceptedAsSigned ==
  Accepted =>
    /\ [result.shown.claims EXCEPT !.nonce = Decoded(@)] = envelope.claims
    /\ result.shown.issuer_pk = envelope.issuer_pk
    /\ now <= envelope.claims.expiry

\* An envelope for a field's own label, key and value, issued by either party
\* to the note, is accepted against that field until it expires: what one
\* party commits to the other can open.
HonestAccepted ==
  result # NoResult /\ result.shown = envelope /\ now <= envelope.claims.expiry
    /\ origin = <<result.field, result.field>>
    /\ envelope.disclosed_value = result.field[1].fields[result.field[2]].value
    => Accepted

\* The tags link each payment to the invoices between the same two keys and to
\* no other, whoever of the two issued which.
PaymentLinksInvoice ==
  \A p, i \in DOMAIN notes : p.kind = "payment" /\ i.kind = "invoice" =>
    (notes[p].secondary_tag = notes[i].primary_tag)
      <=> ({p.issuer, p.counterparty} = {i.issuer, i.counterparty})

\* The leaf of a note determines its parties, its id and all its fields,
\* though id, labels and values are in the body only inside commitments.
BodyBindsNote ==
  \A d, e \in DOMAIN notes :
    notes[d].body_hash = notes[e].body_hash /\ d.fields # <<>> => d = e

\* What tea/src/lib.rs:24 says of an envelope: it releases one field key, and
\* nothing about any other field or any other note.
OpensOneField ==
  envelope # NoEnvelope =>
    \A f \in Fields \ {origin[2]} : \A v \in Values :
      CommitField(envelope.k_field, f[1].fields[f[2]].label, v)
        # notes[f[1]].commitments[f[2]]

\* What disclosure/src/lib.rs:13 says the authorisation binds: the hash of the
\* key that is released.
KeyAsSigned ==
  Accepted => result.shown.claims.k_field_hash = Sha256(<<result.shown.k_field>>)

-----------------------------------------------------------------------------
(* The inductive invariant the theorems rest on. *)

\* A published note is the one its draft gives.
NotesInv == \A d \in DOMAIN notes : d \in Drafts /\ notes[d] = SignedNote(d)

\* The envelope file is one that a party to the note the key is from issued.
EnvelopeInv ==
  envelope # NoEnvelope =>
    LET c == envelope.claims
        named == origin[1]
        keyed == origin[2]
        sk == envelope.issuer_pk.point
        d == named[1]
    IN  /\ origin = <<named, keyed>> /\ named \in Fields /\ keyed \in Fields
        /\ c.expiry \in Expiries
        /\ sk \in {keyed[1].issuer, keyed[1].counterparty}
        /\ envelope = IssueDisclosure(sk, d.note_id, d.fields[named[2]].label,
                         KeyOf(sk, keyed[1], keyed[2]), envelope.disclosed_value,
                         c.scope, c.expiry, NoBytes)

\* A result is that of verify_disclosure at this time, for something that can
\* be shown and a commitment that is published.
ResultInv ==
  result # NoResult =>
    /\ envelope # NoEnvelope
    /\ result.shown \in Shown /\ result.field \in Fields
    /\ result.returned =
         VerifyDisclosure(result.shown,
           notes[result.field[1]].commitments[result.field[2]], now)

IInv == now \in 0 .. MaxTime /\ NotesInv /\ EnvelopeInv /\ ResultInv
=============================================================================
