SPECIFICATION Spec
CONSTANTS
  s1 = s1
  s2 = s2
  s3 = s3
  s4 = s4
  x1 = x1
  x2 = x2
  p1 = p1
  Sender = {s1, s2, s3, s4}
  Plain = {p1}
  Chain = {x1, x2}
  ChainOps <- MCChainOps
  Mix <- MCMix
  SendBufCnt = 2
  ChainWindow = 2
  MaxSendWr = 4
  SqReserve = 2
  MaxCancels = 1
  BufUser = {s1, s2, s3}
  BufCap = 2
  MaxBufFaults = 2
  Thread = {s1, s2}
  BucketSizes <- MCBucketSizes
  MemoryLimit = 4
  BucketCapacity = 1
  MaxRequest = 5
  MaxAllocs = 8
  Slot = {s1, s2, s3, s4}
  Key = {k1, k2, k3}
  NoKey = NoKey
  Nil = Nil
  MaxBatch = 5
CHECK_DEADLOCK FALSE
INVARIANTS SendSound BufAccounted MemSound
PROPERTIES WaitersServed EvictsOldest ImplementsPool
