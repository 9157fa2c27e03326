SPECIFICATION Spec
CONSTANTS
  path1 = path1
  path2 = path2
  noPath = noPath
  chunk1 = chunk1
  chunk2 = chunk2
  hash1 = hash1
  Paths <- OnePath
  NoPath = noPath
  Chunks <- TwoChunks
  ChunkLen <- Lengths
  Hashes <- OneHash
  PathLen = 1
  RawTxMaxSize = 2
INVARIANTS
  TypeOK
  WaitingScreenIsCurrent
  SignedAsShown
  NoOrphanReview
  NoStrayReply
  NoSilentRestart
PROPERTIES
  HashSigningGated
  RepliesAnswerCommands
