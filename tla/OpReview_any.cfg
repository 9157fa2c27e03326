SPECIFICATION Spec
CONSTANTS
  ShortEnums = TRUE
  Documents <- OpDocuments
  Ends <- FirstAndLast
  Int64Max <- LargestLimit
  Unwritten = Unwritten
  DeviceKey <- OwnKey
  NetworkIds <- Networks
INVARIANTS
  TypeOK
  ReadsWhatWasSent
  ReadsAgree
  OperationsAreCounted
  TellsApart
  HeadersTellApart
  FieldsAreWritten
  FitsStack
PROPERTIES
  ImplementsReader
  RefusesOnlyInvalid
