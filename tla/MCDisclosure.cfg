SPECIFICATION Spec
CONSTANTS
  alice = alice
  bob = bob
  carol = carol
  id1 = id1
  id2 = id2
  net = net
  tax = tax
  v1 = v1
  v2 = v2
  s1 = s1
  s2 = s2
  Drafts <- MCDrafts
  Values = {v1, v2}
  Scopes = {s1, s2}
  Expiries = {0, 1}
  MaxTime = 1
SYMMETRY Symmetric
INVARIANTS
  TypeOK
  ShowsCommittedValue
  AcceptedAsSigned
  HonestAccepted
  PaymentLinksInvoice
  BodyBindsNote
  IInv
