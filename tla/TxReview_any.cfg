SPECIFICATION FairSpec
CONSTANTS
  Transactions <- All
  MaxFormatters = 16
INVARIANTS
  TypeOK
  EveryPageShown
  PageIsCurrent
  ThrowsOnlyWhenFull
PROPERTIES
  ImplementsPager
  ReviewEnds
