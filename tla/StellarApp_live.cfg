SPECIFICATION FairSpec
CONSTANTS
  path1 = path1
  path2 = path2
  noPath = noPath
  chunk1 = chunk1
  chunk2 = chunk2
  hash1 = hash1
  Paths <- OnePath
  NoPath = noPath
  Chunks <- OneChunk
  ChunkLen <- Lengths
  Hashes <- NoHash
  PathLen = 0
  RawTxMaxSize = 1
PROPERTIES
  EveryCommandAnswered
