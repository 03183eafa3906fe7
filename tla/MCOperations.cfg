SPECIFICATION Spec
CONSTANTS
  d1 = d1
  d2 = d2
  d3 = d3
  BktDisk = {d1, d2, d3}
  BktReq = {"r1", "r2", "r3"}
  BktWork <- MCBktWork
  BktFaults = 2
  NoOne = NoOne
  MpN = 3
  PartNo = {1, 2}
  MpReq = {"k", "u", "v", "c"}
  MpWork <- MCMpWork
  MpFaults = 1
  NoPart = NoPart
  FmtNode = {1, 2, 3}
  FmtDisk = {1, 2, 3}
  Owner <- MCOwner
  FmtBoots = 4
  FmtFaults = 1
  Unread = Unread
  ReadErr = ReadErr
  Slot = {s1, s2}
  Key = {k1, k2, k3}
  k1 = k1
  k2 = k2
  k3 = k3
  c1 = c1
  c2 = c2
  c3 = c3
  NoKey = NoKey
  Nil = Nil
  MaxBatch = 2
  Op = {c1, c2, c3}
  Workload <- Workloads
  Transport = {"shm", "rdma"}
  Strips = 2
  MaxFaults = 1
INVARIANTS BucketSound SessionSound  
PROPERTIES PutTruthful 
