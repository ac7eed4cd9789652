---------------------------- MODULE MCDisclosure ----------------------------
(***************************************************************************)
(* Four drafts for Disclosure: an invoice, the payment of it under the     *)
(* same note id and under another, and a note with a third party that has  *)
(* a label twice.                                                          *)
(***************************************************************************)
EXTENDS Disclosure, TLC

CONSTANTS alice, bob, carol, id1, id2, net, tax, v1, v2, s1, s2

Draft(issuer, counterparty, kind, note_id, fields) ==
  [issuer |-> issuer, counterparty |-> counterparty, kind |-> kind,
   note_id |-> note_id, fields |-> fields]

Field(label, value) == [label |-> label, value |-> value]

MCDrafts ==
  {Draft(alice, bob, "invoice", id1, <<Field(net, v1), Field(tax, v2)>>),
   Draft(bob, alice, "payment", id1, <<Field(net, v1)>>),
   Draft(bob, alice, "payment", id2, <<Field(net, v1)>>),
   Draft(alice, carol, "invoice", id1, <<Field(net, v1), Field(net, v2)>>)}

Symmetric == Permutations({s1, s2})
=============================================================================
