SPECIFICATION Spec
CONSTANTS
  s1 = s1
  s2 = s2
  UpJob <- MCUpJob
  MaxFrame = 4
  NoSize = NoSize
  RsJob <- MCRsJob
  Depth = 2
  Streams = {s1, s2}
  ChunkJob <- MCChunkJob
  BulkBufs = {b1, b2}
  NoBulk = NoBulk
  BufSize = 2
  ChunkFaults = 2
CHECK_DEADLOCK FALSE
INVARIANT DigestHolds
