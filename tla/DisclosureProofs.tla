-------------------------- MODULE DisclosureProofs --------------------------
(***************************************************************************)
(* What verify_disclosure and the note format guarantee for every set of   *)
(* drafts, values, scopes and times: proofs about the module Disclosure.   *)
(***************************************************************************)
EXTENDS Disclosure, TLAPS

-----------------------------------------------------------------------------
(* The ideal primitives *)

\* Equal hashes have equal inputs, equal signatures the same key and prehash.
LEMMA Sha256Injective == \A x, y : Sha256(x) = Sha256(y) => x = y
BY DEF Sha256

LEMMA SignInjective ==
  \A sk, h, sk2, h2 : Sign(sk, h) = Sign(sk2, h2) => sk = sk2 /\ h = h2
BY DEF Sign

LEMMA ExpandInjective ==
  \A k, i, k2, i2 : HkdfExpand(k, i) = HkdfExpand(k2, i2) => k = k2 /\ i = i2
BY DEF HkdfExpand

LEMMA BodyHashInjective ==
  \A x, n, y, m : DoubleSha256(NoteBody(x, n)) = DoubleSha256(NoteBody(y, m)) => x = y
BY DEF DoubleSha256, NoteBody, Bytes

\* No hash is an undecodable string, nor the bytes of an empty one.
LEMMA HashIsHex == \A x : Sha256(x) # NotHex /\ Sha256(x) # NoBytes
<1>1. \A x : DOMAIN Sha256(x) = {"sha256"}
  BY DEF Sha256
<1>2. DOMAIN NotHex = {"text"} /\ DOMAIN NoBytes = {"text"}
  BY DEF NotHex, NoBytes
<1> QED
  BY <1>1, <1>2

\* A commitment opens to one label and one value only.
LEMMA CommitmentBinds ==
  \A k, l, v, k2, l2, v2 :
    CommitField(k, l, v) = CommitField(k2, l2, v2) => k = k2 /\ l = l2 /\ v = v2
BY Sha256Injective DEF CommitField

\* A field key comes from one note id and one label.
LEMMA FieldKeyBinds ==
  \A k, n, l, k2, n2, l2 :
    FieldKey(k, n, l) = FieldKey(k2, n2, l2) => k = k2 /\ n = n2 /\ l = l2
BY ExpandInjective DEF FieldKey

-----------------------------------------------------------------------------
(* The invariant *)

LEMMA FieldsMember ==
  \A f : f \in Fields <=> \E d \in DOMAIN notes : \E i \in DOMAIN d.fields : f = <<d, i>>
BY DEF Fields

\* What can be shown depends on the envelope and the notes alone.
LEMMA ShownKept ==
  ASSUME UNCHANGED <<notes, envelope>>, Fields' = Fields
  PROVE  Shown' = Shown
<1>1. FieldKeys' = FieldKeys
  BY DEF FieldKeys
<1>2. EditedClaims' = EditedClaims
  BY <1>1 DEF EditedClaims
<1> QED
  BY <1>1, <1>2 DEF Shown

LEMMA InitInv == Init => IInv
BY TimeAssumption DEF Init, IInv, NotesInv, EnvelopeInv, ResultInv, NoEnvelope, NoResult

LEMMA StepInv == IInv /\ [Next]_vars => IInv'
<1> SUFFICES ASSUME IInv, [Next]_vars PROVE IInv'
  OBVIOUS
<1>1. CASE Tick
  <2>1. UNCHANGED <<notes, envelope, origin, result>> /\ result = NoResult
        /\ now' \in 0 .. MaxTime
    BY <1>1, TimeAssumption DEF Tick, IInv
  <2>2. NotesInv'
    BY <2>1 DEF IInv, NotesInv
  <2>3. EnvelopeInv'
    BY <2>1 DEF IInv, EnvelopeInv, Fields
  <2>4. ResultInv'
    BY <2>1 DEF ResultInv
  <2> QED
    BY <2>1, <2>2, <2>3, <2>4 DEF IInv
<1>2. ASSUME NEW d \in Drafts, BuildNote(d)
      PROVE  IInv'
  <2>1. /\ UNCHANGED <<now, envelope, origin, result>> /\ result = NoResult
        /\ DOMAIN notes' = DOMAIN notes \cup {d}
        /\ \A x \in DOMAIN notes' : notes'[x] = IF x = d THEN SignedNote(d) ELSE notes[x]
    BY <1>2 DEF BuildNote
  <2>2. NotesInv'
    BY <2>1 DEF IInv, NotesInv
  <2>3. \A f : f \in Fields => f \in Fields'
    BY <2>1 DEF Fields
  <2>4. EnvelopeInv'
    BY <2>1, <2>3 DEF IInv, EnvelopeInv
  <2>5. ResultInv'
    BY <2>1 DEF ResultInv
  <2> QED
    BY <2>1, <2>2, <2>4, <2>5 DEF IInv
<1>3. ASSUME NEW named \in Fields, NEW keyed \in Fields, NEW value \in Values,
             NEW scope \in Scopes, NEW expiry \in Expiries,
             NEW sk \in {keyed[1].issuer, keyed[1].counterparty},
             Disclose(sk, named, keyed, value, scope, expiry)
      PROVE  IInv'
  <2> DEFINE label == named[1].fields[named[2]].label
             e == IssueDisclosure(sk, named[1].note_id, label, KeyOf(sk, keyed[1], keyed[2]),
                                  value, scope, expiry, NoBytes)
  <2>1. /\ UNCHANGED <<now, notes, result>> /\ result = NoResult
        /\ envelope' = e /\ origin' = <<named, keyed>>
    BY <1>3 DEF Disclose
  <2>2. Fields' = Fields
    BY <2>1 DEF Fields
  <2>3. e.issuer_pk.point = sk /\ e.disclosed_value = value
        /\ e.claims.scope = scope /\ e.claims.expiry = expiry
    BY DEF IssueDisclosure, Claims, MulBase
  <2>4. EnvelopeInv'
    <3>1. origin'[1] = named /\ origin'[2] = keyed
      BY <2>1
    <3>2. envelope' = IssueDisclosure(sk, named[1].note_id, label,
                        KeyOf(sk, keyed[1], keyed[2]), envelope'.disclosed_value,
                        envelope'.claims.scope, envelope'.claims.expiry, NoBytes)
      BY <2>1, <2>3
    <3> HIDE DEF e
    <3> QED
      BY <2>1, <2>2, <2>3, <3>1, <3>2 DEF EnvelopeInv
  <2>5. NotesInv' /\ ResultInv'
    BY <2>1 DEF IInv, NotesInv, ResultInv
  <2> QED
    BY <2>1, <2>4, <2>5 DEF IInv
<1>4. ASSUME envelope # NoEnvelope, NEW shown \in Shown, NEW field \in Fields,
             Verify(shown, field)
      PROVE  IInv'
  <2>1. /\ UNCHANGED <<now, notes, envelope, origin>>
        /\ result'.shown = shown /\ result'.field = field
        /\ result'.returned =
             VerifyDisclosure(shown, notes[field[1]].commitments[field[2]], now)
    BY <1>4 DEF Verify
  <2>2. Fields' = Fields
    BY <2>1 DEF Fields
  <2>3. Shown' = Shown
    BY <2>1, <2>2, ShownKept
  <2>4. NotesInv'
    BY <2>1 DEF IInv, NotesInv
  <2>5. EnvelopeInv'
    BY <2>1, <2>2 DEF IInv, EnvelopeInv
  <2>6. ResultInv'
    BY <1>4, <2>1, <2>2, <2>3 DEF ResultInv
  <2> QED
    BY <2>1, <2>4, <2>5, <2>6 DEF IInv
<1>5. CASE TakeResult \/ UNCHANGED vars
  <2>1. /\ UNCHANGED <<now, notes, envelope, origin>>
        /\ result' = NoResult \/ result' = result
    BY <1>5 DEF TakeResult, vars
  <2>2. Fields' = Fields
    BY <2>1 DEF Fields
  <2>3. Shown' = Shown
    BY <2>1, <2>2, ShownKept
  <2>4. NotesInv'
    BY <2>1 DEF IInv, NotesInv
  <2>5. EnvelopeInv'
    BY <2>1, <2>2 DEF IInv, EnvelopeInv
  <2>6. ResultInv'
    BY <2>1, <2>2, <2>3 DEF IInv, ResultInv
  <2> QED
    BY <2>1, <2>4, <2>5, <2>6 DEF IInv
<1> QED
  BY <1>1, <1>2, <1>3, <1>4, <1>5 DEF Next

\* The notes, the envelope and the verdict are always what the code computes.
THEOREM Invariant == Spec => []IInv
<1> QED
  BY InitInv, StepInv, PTL DEF Spec

-----------------------------------------------------------------------------
(* What an accepted envelope shows *)

\* The parts of a note file that the properties speak of.
LEMMA SignedNoteShape ==
  ASSUME NEW d
  PROVE  LET mat == KeyMaterial(d.issuer, MulBase(d.counterparty))
             tags == NoteTags(d.kind, mat)
             commitments == Commitments(mat, d.note_id, d.fields)
         IN  /\ SignedNote(d).commitments = commitments
             /\ SignedNote(d).primary_tag = tags[1]
             /\ SignedNote(d).secondary_tag = tags[2]
             /\ SignedNote(d).body_hash =
                  DoubleSha256(NoteBody(<<d.kind, tags, MulBase(d.issuer),
                                          MulBase(d.counterparty), commitments>>,
                                        Len(commitments)))
BY DEF SignedNote, BuildNoteBody

LEMMA CommitmentAt ==
  ASSUME NEW mat, NEW note_id, NEW fields, NEW i \in DOMAIN fields
  PROVE  /\ DOMAIN Commitments(mat, note_id, fields) = DOMAIN fields
         /\ Commitments(mat, note_id, fields)[i] = CommitOne(mat.k_master, note_id, fields[i])
BY DEF Commitments

\* An accepted result names a built note and a commitment of it.
LEMMA AcceptedCommitment ==
  ASSUME IInv, Accepted
  PROVE  LET d == result.field[1]
             field == d.fields[result.field[2]]
         IN  /\ d \in DOMAIN notes /\ result.field[2] \in DOMAIN d.fields
             /\ notes[d].commitments[result.field[2]] =
                  CommitOne(KeyMaterial(d.issuer, MulBase(d.counterparty)).k_master,
                            d.note_id, field)
             /\ envelope # NoEnvelope /\ result.shown \in Shown
             /\ VerifyDisclosure(result.shown,
                  notes[d].commitments[result.field[2]], now) = "Ok"
<1>1. result # NoResult
  BY DEF Accepted, NoResult
<1>2. ResultInv /\ NotesInv
  BY DEF IInv
<1>3. PICK d \in DOMAIN notes : \E j \in DOMAIN d.fields : result.field = <<d, j>>
  BY <1>1, <1>2, FieldsMember DEF ResultInv
<1> PICK i \in DOMAIN d.fields : result.field = <<d, i>>
  BY <1>3
<1>4. notes[d].commitments[i] =
        CommitOne(KeyMaterial(d.issuer, MulBase(d.counterparty)).k_master,
                  d.note_id, d.fields[i])
  <2> DEFINE mat == KeyMaterial(d.issuer, MulBase(d.counterparty))
  <2>1. notes[d] = SignedNote(d)
    BY <1>2 DEF NotesInv
  <2>2. SignedNote(d).commitments = Commitments(mat, d.note_id, d.fields)
    BY SignedNoteShape
  <2>3. Commitments(mat, d.note_id, d.fields)[i] = CommitOne(mat.k_master, d.note_id, d.fields[i])
    <3> HIDE DEF mat
    <3> QED
      BY CommitmentAt
  <2> QED
    BY <2>1, <2>2, <2>3
<1> QED
  BY <1>1, <1>2, <1>3, <1>4 DEF ResultInv, Accepted

\* The clock and the expiry of an envelope can be compared.
LEMMA TimesAreNat ==
  ASSUME IInv, envelope # NoEnvelope
  PROVE  now \in Nat /\ envelope.claims.expiry \in Nat
<1>1. now \in 0 .. MaxTime
  BY DEF IInv
<1>2. envelope.claims.expiry \in Expiries
  BY DEF IInv, EnvelopeInv
<1>3. now \in Nat
  BY <1>1, TimeAssumption
<1> QED
  BY <1>2, <1>3, TimeAssumption

\* What VerifyDisclosure has checked when it returns Ok.
LEMMA VerifiedIs ==
  ASSUME NEW e, NEW expected, NEW t, VerifyDisclosure(e, expected, t) = "Ok"
  PROVE  /\ ~(t > e.claims.expiry)
         /\ e.issuer_pk # NotHex /\ e.signature # NotHex
         /\ e.signature = Sign(e.issuer_pk.point, Prehash(e.claims))
         /\ CommitField(e.k_field, e.claims.field_label, e.disclosed_value) = expected
BY DEF VerifyDisclosure, EcdsaVerify

\* Label and value of an accepted envelope are the ones committed to, whatever
\* part of the file was replaced and whichever field its key belongs to.
THEOREM CommittedValueShown == Spec => []ShowsCommittedValue
<1>1. IInv => ShowsCommittedValue
  <2> SUFFICES ASSUME IInv, Accepted
               PROVE  /\ result.field[1].fields[result.field[2]].label
                            = result.shown.claims.field_label
                      /\ result.field[1].fields[result.field[2]].value
                            = result.shown.disclosed_value
    BY DEF ShowsCommittedValue
  <2> DEFINE d == result.field[1]
             field == d.fields[result.field[2]]
             k == FieldKey(KeyMaterial(d.issuer, MulBase(d.counterparty)).k_master,
                           d.note_id, field.label)
  <2>1. VerifyDisclosure(result.shown, notes[d].commitments[result.field[2]], now) = "Ok"
    BY AcceptedCommitment
  <2>2. notes[d].commitments[result.field[2]] = CommitField(k, field.label, field.value)
    BY AcceptedCommitment DEF CommitOne
  <2>3. CommitField(result.shown.k_field, result.shown.claims.field_label,
                    result.shown.disclosed_value)
          = CommitField(k, field.label, field.value)
    BY <2>1, <2>2, VerifiedIs
  <2> HIDE DEF k, field
  <2>4. /\ field.label = result.shown.claims.field_label
        /\ field.value = result.shown.disclosed_value
    BY <2>3, CommitmentBinds
  <2> QED
    BY <2>4 DEF field
<1> QED
  BY <1>1, Invariant, PTL

\* What the envelope file holds, field by field.
LEMMA EnvelopeShape ==
  ASSUME EnvelopeInv, envelope # NoEnvelope
  PROVE  LET c == envelope.claims IN
         /\ envelope = [claims |-> c, signature |-> envelope.signature,
                        k_field |-> envelope.k_field,
                        disclosed_value |-> envelope.disclosed_value,
                        issuer_pk |-> envelope.issuer_pk]
         /\ c = Claims(c.note_id, c.field_label, c.k_field_hash, c.scope, c.expiry, c.nonce)
         /\ c.nonce = NoBytes /\ c.k_field_hash # NotHex /\ c.k_field_hash # NoBytes
         /\ envelope.issuer_pk = MulBase(envelope.issuer_pk.point)
         /\ envelope.signature = Sign(envelope.issuer_pk.point, Prehash(c))
         /\ c.k_field_hash = Sha256(<<envelope.k_field>>)
<1> DEFINE sk == envelope.issuer_pk.point
           id == origin[1][1].note_id
           label == origin[1][1].fields[origin[1][2]].label
           k_field == KeyOf(sk, origin[2][1], origin[2][2])
           v == envelope.disclosed_value
           s == envelope.claims.scope
           t == envelope.claims.expiry
           c == Claims(id, label, Sha256(<<k_field>>), s, t, NoBytes)
<1>1. envelope = IssueDisclosure(sk, id, label, k_field, v, s, t, NoBytes)
  BY DEF EnvelopeInv
<1>2. envelope = [claims |-> c, signature |-> Sign(sk, Prehash(c)), k_field |-> k_field,
                  disclosed_value |-> v, issuer_pk |-> MulBase(sk)]
  BY <1>1 DEF IssueDisclosure
<1> HIDE DEF sk, v, s, t, k_field
<1>3. /\ envelope.claims = c /\ envelope.k_field = k_field
      /\ envelope.signature = Sign(sk, Prehash(c)) /\ envelope.issuer_pk = MulBase(sk)
      /\ envelope = [claims |-> envelope.claims, signature |-> envelope.signature,
                     k_field |-> envelope.k_field,
                     disclosed_value |-> envelope.disclosed_value,
                     issuer_pk |-> envelope.issuer_pk]
  BY <1>2
<1>4. /\ c = Claims(c.note_id, c.field_label, c.k_field_hash, c.scope, c.expiry, c.nonce)
      /\ c.nonce = NoBytes /\ c.k_field_hash = Sha256(<<k_field>>)
  BY DEF Claims
<1>5. envelope.issuer_pk.point = sk
  BY DEF sk
<1> HIDE DEF c
<1> QED
  BY <1>3, <1>4, <1>5, HashIsHex

\* An edit of one claim leaves the other five and the shape.
LEMMA EditedShape ==
  ASSUME EnvelopeInv, envelope # NoEnvelope, NEW c \in EditedClaims
  PROVE  c = Claims(c.note_id, c.field_label, c.k_field_hash, c.scope, c.expiry, c.nonce)
<1> DEFINE old == envelope.claims
<1>1. old = Claims(old.note_id, old.field_label, old.k_field_hash, old.scope,
                   old.expiry, old.nonce)
  BY EnvelopeShape
<1>2. \E x : \/ c = [old EXCEPT !.note_id = x] \/ c = [old EXCEPT !.field_label = x]
             \/ c = [old EXCEPT !.k_field_hash = x] \/ c = [old EXCEPT !.scope = x]
             \/ c = [old EXCEPT !.expiry = x] \/ c = [old EXCEPT !.nonce = x]
  BY DEF EditedClaims
<1> HIDE DEF old
<1> QED
  BY <1>1, <1>2 DEF Claims

\* Every edit of the file leaves its shape, and its signature or none.
LEMMA ShownShape ==
  ASSUME EnvelopeInv, envelope # NoEnvelope, NEW shown \in Shown
  PROVE  LET c == shown.claims IN
         /\ c = Claims(c.note_id, c.field_label, c.k_field_hash, c.scope, c.expiry, c.nonce)
         /\ shown.signature \in {envelope.signature, NotHex}
         /\ shown.issuer_pk = NotHex \/ shown.issuer_pk = MulBase(shown.issuer_pk.point)
<1> DEFINE Good(x) ==
      LET c == x.claims IN
      /\ c = Claims(c.note_id, c.field_label, c.k_field_hash, c.scope, c.expiry, c.nonce)
      /\ x.signature \in {envelope.signature, NotHex}
      /\ x.issuer_pk = NotHex \/ x.issuer_pk = MulBase(x.issuer_pk.point)
<1>0. /\ envelope = [claims |-> envelope.claims, signature |-> envelope.signature,
                     k_field |-> envelope.k_field,
                     disclosed_value |-> envelope.disclosed_value,
                     issuer_pk |-> envelope.issuer_pk]
      /\ Good(envelope)
  BY EnvelopeShape
<1>1. ASSUME NEW c \in EditedClaims, shown = [envelope EXCEPT !.claims = c]
      PROVE  Good(shown)
  <2>1. c = Claims(c.note_id, c.field_label, c.k_field_hash, c.scope, c.expiry, c.nonce)
    BY EditedShape
  <2>2. shown.claims = c /\ shown.signature = envelope.signature
        /\ shown.issuer_pk = envelope.issuer_pk
    BY <1>0, <1>1
  <2> QED
    BY <1>0, <2>1, <2>2
<1>2. ASSUME NEW k, NEW v, shown = [envelope EXCEPT !.k_field = k, !.disclosed_value = v]
      PROVE  Good(shown)
  <2>1. shown.claims = envelope.claims /\ shown.signature = envelope.signature
        /\ shown.issuer_pk = envelope.issuer_pk
    BY <1>0, <1>2
  <2> QED
    BY <1>0, <2>1
<1>3. ASSUME NEW pk \in {NotHex} \cup {MulBase(d.issuer) : d \in DOMAIN notes},
             shown = [envelope EXCEPT !.issuer_pk = pk]
      PROVE  Good(shown)
  <2>1. shown.claims = envelope.claims /\ shown.signature = envelope.signature
        /\ shown.issuer_pk = pk
    BY <1>0, <1>3
  <2>2. pk = NotHex \/ pk = MulBase(pk.point)
    BY DEF MulBase
  <2> QED
    BY <1>0, <2>1, <2>2
<1>4. ASSUME shown = [envelope EXCEPT !.signature = NotHex]
      PROVE  Good(shown)
  <2>1. shown.claims = envelope.claims /\ shown.signature = NotHex
        /\ shown.issuer_pk = envelope.issuer_pk
    BY <1>0, <1>4
  <2> QED
    BY <1>0, <2>1
<1> HIDE DEF Good
<1>5. \/ \E c \in EditedClaims : shown = [envelope EXCEPT !.claims = c]
      \/ \E r \in FieldKeys \X Values :
           shown = [envelope EXCEPT !.k_field = r[1], !.disclosed_value = r[2]]
      \/ \E pk \in {NotHex} \cup {MulBase(d.issuer) : d \in DOMAIN notes} :
           shown = [envelope EXCEPT !.issuer_pk = pk]
      \/ shown = [envelope EXCEPT !.signature = NotHex]
  BY Zenon DEF Shown
<1>6. Good(shown)
  BY Zenon, <1>1, <1>2, <1>3, <1>4, <1>5
<1> QED
  BY <1>6 DEF Good

\* The signed bytes determine the claims, up to a nonce and a key hash that do
\* not decode.
LEMMA PrehashBinds ==
  ASSUME NEW c, NEW e, Prehash(c) = Prehash(e)
  PROVE  /\ c.note_id = e.note_id /\ c.field_label = e.field_label
         /\ c.scope = e.scope /\ c.expiry = e.expiry
         /\ Decoded(c.k_field_hash) = Decoded(e.k_field_hash)
         /\ Decoded(c.nonce) = Decoded(e.nonce)
<1>1. Sha256(CanonicalBytes(c)) = Sha256(CanonicalBytes(e))
  BY Sha256Injective DEF Prehash
<1>2. CanonicalBytes(c) = CanonicalBytes(e)
  BY <1>1, Sha256Injective
<1> QED
  BY <1>2 DEF CanonicalBytes

\* What is accepted is what the issuer signed, and it has not expired.
THEOREM AcceptedIsAsSigned == Spec => []AcceptedAsSigned
<1>1. IInv => AcceptedAsSigned
  <2> SUFFICES ASSUME IInv, Accepted
               PROVE  /\ [result.shown.claims EXCEPT !.nonce = Decoded(@)] = envelope.claims
                      /\ result.shown.issuer_pk = envelope.issuer_pk
                      /\ now <= envelope.claims.expiry
    BY DEF AcceptedAsSigned
  <2> DEFINE s == result.shown
             c == s.claims
             e == envelope.claims
  <2>1. EnvelopeInv /\ envelope # NoEnvelope /\ s \in Shown
    BY AcceptedCommitment DEF IInv
  <2>2. /\ ~(now > c.expiry) /\ s.issuer_pk # NotHex /\ s.signature # NotHex
        /\ s.signature = Sign(s.issuer_pk.point, Prehash(c))
    BY AcceptedCommitment, VerifiedIs
  <2>3. /\ c = Claims(c.note_id, c.field_label, c.k_field_hash, c.scope, c.expiry, c.nonce)
        /\ s.signature = envelope.signature
        /\ s.issuer_pk = MulBase(s.issuer_pk.point)
    BY <2>1, <2>2, ShownShape
  <2>4. /\ e = Claims(e.note_id, e.field_label, e.k_field_hash, e.scope, e.expiry, e.nonce)
        /\ e.nonce = NoBytes /\ e.k_field_hash # NotHex /\ e.k_field_hash # NoBytes
        /\ envelope.issuer_pk = MulBase(envelope.issuer_pk.point)
        /\ envelope.signature = Sign(envelope.issuer_pk.point, Prehash(e))
    BY <2>1, EnvelopeShape
  <2>5. s.issuer_pk.point = envelope.issuer_pk.point /\ Prehash(c) = Prehash(e)
    <3>1. Sign(s.issuer_pk.point, Prehash(c)) = Sign(envelope.issuer_pk.point, Prehash(e))
      BY <2>2, <2>3, <2>4
    <3> HIDE DEF s, c, e
    <3> QED
      BY <3>1, SignInjective
  <2>6. now \in Nat /\ e.expiry \in Nat
    BY <2>1, TimesAreNat
  <2> HIDE DEF c, e
  <2>7. /\ c.note_id = e.note_id /\ c.field_label = e.field_label
        /\ c.scope = e.scope /\ c.expiry = e.expiry
        /\ Decoded(c.k_field_hash) = Decoded(e.k_field_hash)
        /\ Decoded(c.nonce) = Decoded(e.nonce)
    BY <2>5, PrehashBinds
  <2>8. Decoded(e.nonce) = e.nonce /\ Decoded(e.k_field_hash) = e.k_field_hash
    BY <2>4 DEF Decoded, NoBytes, NotHex
  <2>9. c.k_field_hash = e.k_field_hash
    BY <2>4, <2>7, <2>8 DEF Decoded
  <2>10. [c EXCEPT !.nonce = Decoded(c.nonce)] = e
    BY <2>3, <2>4, <2>7, <2>8, <2>9 DEF Claims
  <2>11. s.issuer_pk = envelope.issuer_pk
    BY <2>3, <2>4, <2>5
  <2>12. now <= e.expiry
    BY <2>2, <2>6, <2>7
  <2> QED
    BY <2>10, <2>11, <2>12 DEF c, e
<1> QED
  BY <1>1, Invariant, PTL

-----------------------------------------------------------------------------
(* What an honest envelope, a tag and a note body tell *)

\* The master key of a pair depends on the two secrets and on no order.
LEMMA MasterKeyIs ==
  \A a, b : KeyMaterial(a, MulBase(b)).k_master = HkdfExtract("TEA-v1", {a, b})
BY DEF KeyMaterial, MulBase, EcdhSharedX

LEMMA ExtractInjective ==
  \A x, y : HkdfExtract("TEA-v1", x) = HkdfExtract("TEA-v1", y) => x = y
BY DEF HkdfExtract

\* Either party to a note derives the key that its field was committed with.
LEMMA KeyOfParty ==
  ASSUME NEW d, NEW i, NEW sk \in {d.issuer, d.counterparty}
  PROVE  KeyOf(sk, d, i) =
           FieldKey(KeyMaterial(d.issuer, MulBase(d.counterparty)).k_master,
                    d.note_id, d.fields[i].label)
<1> DEFINE other == IF sk = d.issuer THEN d.counterparty ELSE d.issuer
<1>1. {sk, other} = {d.issuer, d.counterparty}
  OBVIOUS
<1>2. KeyMaterial(sk, MulBase(other)).k_master
        = KeyMaterial(d.issuer, MulBase(d.counterparty)).k_master
  <2>1. /\ KeyMaterial(sk, MulBase(other)).k_master = HkdfExtract("TEA-v1", {sk, other})
        /\ KeyMaterial(d.issuer, MulBase(d.counterparty)).k_master
             = HkdfExtract("TEA-v1", {d.issuer, d.counterparty})
    <3> HIDE DEF other
    <3> QED
      BY MasterKeyIs
  <2> QED
    BY <1>1, <2>1
<1> QED
  BY <1>2 DEF KeyOf

\* No key, point or signature is the string that does not decode.
LEMMA HexParts ==
  \A x, y : HkdfExpand(x, y) # NotHex /\ MulBase(x) # NotHex /\ Sign(x, y) # NotHex
<1> TAKE x, y
<1>1. /\ DOMAIN HkdfExpand(x, y) = {"expand"} /\ DOMAIN MulBase(x) = {"point"}
      /\ DOMAIN Sign(x, y) = {"signer", "over"} /\ DOMAIN NotHex = {"text"}
  BY DEF HkdfExpand, MulBase, Sign, NotHex
<1>2. "text" \notin {"expand", "point", "signer", "over"}
  OBVIOUS
<1> QED
  BY <1>1, <1>2

\* An envelope of a field's own label, key and value is accepted against that
\* field until it expires, whichever of the two parties issued it.
THEOREM HonestEnvelopeAccepted == Spec => []HonestAccepted
<1>1. IInv => HonestAccepted
  <2> SUFFICES ASSUME IInv, result # NoResult, result.shown = envelope,
                      now <= envelope.claims.expiry,
                      origin = <<result.field, result.field>>,
                      envelope.disclosed_value
                        = result.field[1].fields[result.field[2]].value
               PROVE  Accepted
    BY DEF HonestAccepted
  <2>0. NotesInv /\ EnvelopeInv /\ envelope # NoEnvelope /\ result.field \in Fields
    BY DEF IInv, ResultInv
  <2>1. /\ NotesInv /\ EnvelopeInv /\ envelope # NoEnvelope /\ result.field \in Fields
        /\ now \in Nat /\ envelope.claims.expiry \in Nat
    BY <2>0, TimesAreNat
  <2>2. PICK d \in DOMAIN notes : \E j \in DOMAIN d.fields : result.field = <<d, j>>
    BY <2>1, FieldsMember
  <2> PICK i \in DOMAIN d.fields : result.field = <<d, i>>
    BY <2>2
  <2> DEFINE sk == envelope.issuer_pk.point
             k == FieldKey(KeyMaterial(d.issuer, MulBase(d.counterparty)).k_master,
                           d.note_id, d.fields[i].label)
  <2>3. notes[d].commitments[i] = CommitField(k, d.fields[i].label, d.fields[i].value)
    <3>1. SignedNote(d).commitments =
            Commitments(KeyMaterial(d.issuer, MulBase(d.counterparty)), d.note_id, d.fields)
      BY SignedNoteShape
    <3>2. notes[d] = SignedNote(d)
      BY <2>1 DEF NotesInv
    <3> QED
      BY <3>1, <3>2 DEF Commitments, CommitOne
  <2>4. /\ sk \in {d.issuer, d.counterparty}
        /\ envelope = IssueDisclosure(sk, d.note_id, d.fields[i].label, KeyOf(sk, d, i),
                         envelope.disclosed_value, envelope.claims.scope,
                         envelope.claims.expiry, NoBytes)
    BY <2>1 DEF EnvelopeInv
  <2>5. KeyOf(sk, d, i) = k
    BY <2>4, KeyOfParty
  <2>6. envelope.k_field = k /\ envelope.claims.field_label = d.fields[i].label
    <3> HIDE DEF sk, k
    <3> QED
      BY <2>4, <2>5 DEF IssueDisclosure, Claims
  <2>7. /\ envelope.issuer_pk = MulBase(sk)
        /\ envelope.signature = Sign(sk, Prehash(envelope.claims))
    BY <2>1, EnvelopeShape
  <2>8. /\ envelope.issuer_pk # NotHex /\ envelope.signature # NotHex
        /\ envelope.k_field # NotHex
    BY <2>6, <2>7, HexParts DEF FieldKey
  <2>9. EcdsaVerify(envelope.issuer_pk, Prehash(envelope.claims), envelope.signature)
    BY <2>7 DEF EcdsaVerify
  <2>10. CommitField(envelope.k_field, envelope.claims.field_label,
                     envelope.disclosed_value) = notes[d].commitments[i]
    BY <2>3, <2>6
  <2>11. VerifyDisclosure(envelope, notes[d].commitments[i], now) = "Ok"
    <3>1. ~(now > envelope.claims.expiry)
      BY <2>1
    <3> QED
      BY <3>1, <2>8, <2>9, <2>10, Zenon DEF VerifyDisclosure
  <2> QED
    BY <2>11 DEF IInv, ResultInv, Accepted
<1> QED
  BY <1>1, Invariant, PTL

\* A payment's second tag is the first tag of the invoices between the same two
\* keys, and of no others.
THEOREM PaymentsLinkInvoices == Spec => []PaymentLinksInvoice
<1>1. IInv => PaymentLinksInvoice
  <2> SUFFICES ASSUME IInv, NEW p \in DOMAIN notes, NEW i \in DOMAIN notes,
                      p.kind = "payment", i.kind = "invoice"
               PROVE  (notes[p].secondary_tag = notes[i].primary_tag)
                        <=> ({p.issuer, p.counterparty} = {i.issuer, i.counterparty})
    BY DEF PaymentLinksInvoice
  <2> DEFINE kp == KeyMaterial(p.issuer, MulBase(p.counterparty)).k_master
             ki == KeyMaterial(i.issuer, MulBase(i.counterparty)).k_master
  <2>1. notes[p] = SignedNote(p) /\ notes[i] = SignedNote(i)
    BY DEF IInv, NotesInv
  <2>2. notes[p].secondary_tag = HkdfExpand(kp, <<"inv-tag">>)
    BY <2>1, SignedNoteShape DEF NoteTags, KeyMaterial
  <2>3. notes[i].primary_tag = HkdfExpand(ki, <<"inv-tag">>)
    BY <2>1, SignedNoteShape DEF NoteTags, KeyMaterial
  <2>4. kp = ki <=> {p.issuer, p.counterparty} = {i.issuer, i.counterparty}
    <3> DEFINE P == {p.issuer, p.counterparty}
               I == {i.issuer, i.counterparty}
    <3>1. kp = HkdfExtract("TEA-v1", P) /\ ki = HkdfExtract("TEA-v1", I)
      BY MasterKeyIs
    <3> HIDE DEF P, I, kp, ki
    <3>2. kp = ki <=> P = I
      BY <3>1, ExtractInjective
    <3> QED
      BY <3>2 DEF P, I
  <2> HIDE DEF kp, ki
  <2> QED
    BY <2>2, <2>3, <2>4, ExpandInjective
<1> QED
  BY <1>1, Invariant, PTL

\* A draft is a record of its five parts, and each field one of two.
LEMMA DraftShape ==
  ASSUME NEW d \in Drafts
  PROVE  /\ d = [issuer |-> d.issuer, counterparty |-> d.counterparty,
                 kind |-> d.kind, note_id |-> d.note_id, fields |-> d.fields]
         /\ DOMAIN d.fields = 1 .. Len(d.fields) /\ Len(d.fields) \in Nat
         /\ d.fields = [i \in DOMAIN d.fields |-> d.fields[i]]
         /\ \A i \in DOMAIN d.fields :
              d.fields[i] = [label |-> d.fields[i].label, value |-> d.fields[i].value]
<1> DEFINE S == {[label |-> d.fields[i].label, value |-> d.fields[i].value]
                   : i \in DOMAIN d.fields}
<1>1. d.fields \in Seq(S)
  BY DraftsAssumption
<1>2. \A x \in S : x = [label |-> x.label, value |-> x.value]
  OBVIOUS
<1> HIDE DEF S
<1>3. /\ DOMAIN d.fields = 1 .. Len(d.fields) /\ Len(d.fields) \in Nat
      /\ d.fields = [i \in DOMAIN d.fields |-> d.fields[i]]
      /\ \A i \in DOMAIN d.fields : d.fields[i] \in S
  BY <1>1
<1> QED
  BY <1>2, <1>3, DraftsAssumption

\* The leaf of a note with a field determines parties, id and fields.
THEOREM LeafBindsNote == Spec => []BodyBindsNote
<1>1. IInv => BodyBindsNote
  <2> SUFFICES ASSUME IInv, NEW d \in DOMAIN notes, NEW e \in DOMAIN notes,
                      notes[d].body_hash = notes[e].body_hash, d.fields # <<>>
               PROVE  d = e
    BY DEF BodyBindsNote
  <2> DEFINE md == KeyMaterial(d.issuer, MulBase(d.counterparty))
             me == KeyMaterial(e.issuer, MulBase(e.counterparty))
             cd == Commitments(md, d.note_id, d.fields)
             ce == Commitments(me, e.note_id, e.fields)
             pd == <<d.kind, NoteTags(d.kind, md), MulBase(d.issuer),
                     MulBase(d.counterparty), cd>>
             pe == <<e.kind, NoteTags(e.kind, me), MulBase(e.issuer),
                     MulBase(e.counterparty), ce>>
  <2>1. d \in Drafts /\ e \in Drafts /\ notes[d] = SignedNote(d) /\ notes[e] = SignedNote(e)
    BY DEF IInv, NotesInv
  <2>2. /\ notes[d].body_hash = DoubleSha256(NoteBody(pd, Len(cd)))
        /\ notes[e].body_hash = DoubleSha256(NoteBody(pe, Len(ce)))
    BY <2>1, SignedNoteShape
  <2>3. pd = pe
    <3> HIDE DEF pd, pe, cd, ce
    <3> QED
      BY <2>2, BodyHashInjective
  <2>4. /\ d.kind = e.kind /\ cd = ce
        /\ MulBase(d.issuer) = MulBase(e.issuer)
        /\ MulBase(d.counterparty) = MulBase(e.counterparty)
    <3> HIDE DEF md, me, cd, ce
    <3> QED
      BY <2>3
  <2>5. d.issuer = e.issuer /\ d.counterparty = e.counterparty
    BY <2>4 DEF MulBase
  <2>6. DOMAIN d.fields = DOMAIN e.fields
    BY <2>4 DEF Commitments
  <2>7. ASSUME NEW i \in DOMAIN d.fields
        PROVE  d.fields[i] = e.fields[i] /\ d.note_id = e.note_id
    <3>1. CommitOne(md.k_master, d.note_id, d.fields[i])
            = CommitOne(me.k_master, e.note_id, e.fields[i])
      <4> HIDE DEF md, me
      <4>1. cd[i] = CommitOne(md.k_master, d.note_id, d.fields[i])
        BY <2>7, CommitmentAt
      <4>2. ce[i] = CommitOne(me.k_master, e.note_id, e.fields[i])
        BY <2>6, <2>7, CommitmentAt
      <4> QED
        BY <2>4, <4>1, <4>2
    <3> DEFINE kd == FieldKey(md.k_master, d.note_id, d.fields[i].label)
               ke == FieldKey(me.k_master, e.note_id, e.fields[i].label)
    <3>2. CommitField(kd, d.fields[i].label, d.fields[i].value)
            = CommitField(ke, e.fields[i].label, e.fields[i].value)
      BY <3>1 DEF CommitOne
    <3>3. kd = ke /\ d.fields[i].label = e.fields[i].label
          /\ d.fields[i].value = e.fields[i].value
      <4> HIDE DEF kd, ke
      <4> QED
        BY <3>2, CommitmentBinds
    <3>4. d.note_id = e.note_id
      <4> HIDE DEF md, me
      <4> QED
        BY <3>3, FieldKeyBinds
    <3> QED
      BY <3>3, <3>4, <2>1, <2>6, <2>7, DraftShape
  <2>8. d.fields = e.fields
    BY <2>1, <2>6, <2>7, DraftShape
  <2>9. d.note_id = e.note_id
    <3>1. 1 \in DOMAIN d.fields
      <4>1. Len(d.fields) # 0
        BY <2>1, DraftsAssumption
      <4>2. DOMAIN d.fields = 1 .. Len(d.fields) /\ Len(d.fields) \in Nat
        BY <2>1, DraftShape
      <4> QED
        BY <4>1, <4>2
    <3> QED
      BY <3>1, <2>7
  <2> QED
    BY <2>1, <2>4, <2>5, <2>8, <2>9, DraftShape
<1> QED
  BY <1>1, Invariant, PTL

\* Commitments match the fields of their drafts, and a verdict is one of those
\* verify_disclosure has.
THEOREM TypeCorrect == Spec => []TypeOK
<1>1. IInv => TypeOK
  <2> SUFFICES ASSUME IInv PROVE TypeOK
    OBVIOUS
  <2>1. now \in 0 .. MaxTime /\ DOMAIN notes \subseteq Drafts
    BY DEF IInv, NotesInv
  <2>2. ASSUME NEW d \in DOMAIN notes
        PROVE  DOMAIN notes[d].commitments = DOMAIN d.fields
    <3> DEFINE mat == KeyMaterial(d.issuer, MulBase(d.counterparty))
    <3>1. notes[d].commitments = Commitments(mat, d.note_id, d.fields)
      BY SignedNoteShape DEF IInv, NotesInv
    <3> HIDE DEF mat
    <3> QED
      BY <3>1 DEF Commitments
  <2>3. result.returned \in {"none", "Ok", "Expired", "BadHex", "Curve", "CommitmentMismatch"}
    <3>1. CASE result = NoResult
      BY <3>1 DEF NoResult
    <3>2. CASE result # NoResult
      BY <3>2 DEF IInv, ResultInv, VerifyDisclosure
    <3> QED
      BY <3>1, <3>2
  <2> QED
    BY <2>1, <2>2, <2>3 DEF TypeOK
<1> QED
  BY <1>1, Invariant, PTL
=============================================================================
