SPECIFICATION FairSpec
CONSTANTS
  DefaultK = DefaultK
  Inputs <- MCInputs
  Counterparties <- MCCounterparties
  Amounts = {"10.00", "20.00"}
INVARIANTS
  TypeOK
  AllVerified
  FaultsDetected
  PanicOnlyIfSmall
PROPERTIES
  StudyReports
CHECK_DEADLOCK FALSE
