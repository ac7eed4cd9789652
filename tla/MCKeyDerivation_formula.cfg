SPECIFICATION Spec
CONSTANTS
  d1 = d1
  d2 = d2
  N = 5
  LowBase = 4
  Words = 12
  IndexMod = 4
  Retries = 2
  Masters = {2, 3}
  Indices = {0, 1, 3}
  AddressInputs <- MCAddressInputs
  MaxCalls = 2
INVARIANT SubkeyByFormula
CHECK_DEADLOCK FALSE
