SPECIFICATION Spec
CONSTANTS
  a = a
  b = b
  c = c
  f = f
  key1 = key1
  key2 = key2
  key3 = key3
  key4 = key4
  key5 = key5
  Keys = {key1, key2, key3, key4, key5}
  Payloads <- MCPayloads
  Populations <- MCPopulations
  Requested = {0, 2, 3, 4}
  DefaultK = DefaultK
  Foreign <- MCForeign
  Indices = {0, 1, 2, 5}
  MaxShard = 2
  DemoSizes = {0, 1, 2, 3, 5, 6, 7, 9}
INVARIANTS
  TypeOK
  QueryVerifies
  VerifiersAgree
  AcceptedIsAnchored
  LabelsCoverLeaves
  DemoQueriesVerify
