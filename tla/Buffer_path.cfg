SPECIFICATION Spec
CONSTANTS
  Images <- MCImages
  Capacity = 17
  SizeMax = 31
  MaxBip32Path = 3
INVARIANTS
  PathsAreWhole
