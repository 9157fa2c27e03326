SPECIFICATION Spec
CONSTANTS
  path1 = path1
  path2 = path2
  noPath = noPath
  chunk1 = chunk1
  chunk2 = chunk2
  hash1 = hash1
  Paths <- TwoPaths
  NoPath = noPath
  Chunks <- OneChunk
  ChunkLen <- Lengths
  Hashes <- OneHash
  PathLen = 0
  RawTxMaxSize = 1
INVARIANTS
  WaitingScreenIsCurrent
PROPERTIES
  RepliesAnswerCommands
  ImplementsOracle
