SPECIFICATION Spec
CONSTANTS
  Keys = {k1, k2}
  Hashes = {h1, h2}
  Zero = Zero
INVARIANTS
  TypeOK
  AnswersWhatWasShown
PROPERTIES
  ImplementsPager
