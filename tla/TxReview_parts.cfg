SPECIFICATION Spec
CONSTANTS
  Transactions <- Parts
  MaxFormatters = 16
INVARIANTS
  ExtendedIsShown
