SPECIFICATION PatientSpec
CONSTANTS
  Transactions <- Unsound
  MaxFormatters = 16
INVARIANTS
  EveryOperationShown
