SPECIFICATION Spec
CONSTANTS
  KeyA = KeyA
  KeyB = KeyB
  KeyLong = KeyLong
  Keys = {KeyA, KeyB}
  LongAddresses = {KeyLong}
  Nil = Nil
  Unparsable = Unparsable
  Requests <- MCRequests
  TxHeaders <- MCHeaders
  TxOperations <- MCOperations
  MaxItems = 3
  ByteBase = 10
  AmountBytes = 2
  MaxPrintable = 98
  MemoSize = 3
INVARIANTS
  TypeOK
  SignsTheRequest
  RefusesOnlyOthers
