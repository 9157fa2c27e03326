SPECIFICATION Spec
CONSTANTS
  ShortEnums = FALSE
  Documents <- HopsDocuments
PROPERTIES RefusesOnlyInvalid
